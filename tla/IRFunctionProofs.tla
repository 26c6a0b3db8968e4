-------------------------- MODULE IRFunctionProofs --------------------------
(***************************************************************************)
(* Proofs about the IR builder, for every instance of its constants.       *)
(***************************************************************************)
EXTENDS IRFunction, FiniteSetTheorems, SequenceTheorems, WellFoundedInduction, TLAPS

Branch(br) == IsBranch(br) /\ Contiguous(br)

(* The strengthening: the cache is an interval, hence no source is nil.    *)
IndInv == TypeOK /\ CacheContiguous /\ NoNilSource

-----------------------------------------------------------------------------
(* Induction, and sums by it.                                              *)

(* A set of naturals that holds 0, and n + 1 with every n, is Nat.         *)
LEMMA Induct ==
  ASSUME NEW S \in SUBSET Nat, 0 \in S, \A n \in S : n + 1 \in S
  PROVE  \A n \in Nat : n \in S
<1> DEFINE Bad == Nat \ S
<1> SUFFICES ASSUME Bad # {} PROVE FALSE
  OBVIOUS
<1>1. \E x \in Bad : \A y \in Bad : ~ (<<y, x>> \in OpToRel(<, Nat))
  BY NatLessThanWellFounded, WFMin
<1>2. PICK x \in Bad : \A y \in Bad : ~ (<<y, x>> \in OpToRel(<, Nat))
  BY <1>1
<1>3. \A y \in Bad : ~ (y < x)
  BY <1>2 DEF OpToRel
<1>4. x # 0 /\ x - 1 \in Nat
  OBVIOUS
<1>5. x - 1 \in S
  BY <1>3, <1>4
<1> QED  BY <1>4, <1>5

(* The function that Total picks a value of.                               *)
IsTotal(x, from, to, s) ==
    s = [n \in (from - 1) .. to |-> IF n < from THEN 0 ELSE s[n - 1] + x[n]]

LEMMA TotalExists ==
  ASSUME NEW x, NEW from \in Int
  PROVE  \A d \in Nat : \E s : IsTotal(x, from, from - 1 + d, s)
<1> DEFINE S == {d \in Nat : \E s : IsTotal(x, from, from - 1 + d, s)}
<1>1. 0 \in S
  <2>1. IsTotal(x, from, from - 1, [n \in (from - 1) .. (from - 1) |-> 0])
    BY DEF IsTotal
  <2> QED  BY <2>1
<1>2. ASSUME NEW d \in S PROVE d + 1 \in S
  <2>1. PICK s : IsTotal(x, from, from - 1 + d, s)
    BY <1>2
  <2> DEFINE m == from + d
             t == [n \in (from - 1) .. m |-> IF n = m THEN s[m - 1] + x[m] ELSE s[n]]
  <2>2. \A n \in (from - 1) .. m : t[n] = IF n < from THEN 0 ELSE t[n - 1] + x[n]
    BY <2>1 DEF IsTotal
  <2>3. IsTotal(x, from, m, t)
    BY <2>2 DEF IsTotal
  <2>4. m = from - 1 + (d + 1)
    OBVIOUS
  <2> HIDE DEF m, t
  <2> QED  BY <2>3, <2>4
<1> HIDE DEF S
<1>3. S \in SUBSET Nat
  BY DEF S
<1>4. \A d \in Nat : d \in S
  BY <1>1, <1>2, <1>3, Induct
<1> QED  BY <1>4 DEF S

LEMMA TotalUnique ==
  ASSUME NEW x, NEW from \in Int, NEW a \in Int, NEW b \in Int, NEW s, NEW t,
         IsTotal(x, from, a, s), IsTotal(x, from, b, t)
  PROVE  \A n \in (from - 1) .. a : n <= b => s[n] = t[n]
<1> DEFINE S == {d \in Nat : from - 1 + d <= a /\ from - 1 + d <= b
                               => s[from - 1 + d] = t[from - 1 + d]}
<1>1. 0 \in S
  BY DEF IsTotal
<1>2. ASSUME NEW d \in S PROVE d + 1 \in S
  <2> SUFFICES ASSUME from + d <= a, from + d <= b PROVE s[from + d] = t[from + d]
    OBVIOUS
  <2>1. s[from - 1 + d] = t[from - 1 + d]
    OBVIOUS
  <2>2. from + d \in (from - 1) .. a /\ from + d \in (from - 1) .. b
    OBVIOUS
  <2>3. /\ s[from + d] = s[from + d - 1] + x[from + d]
        /\ t[from + d] = t[from + d - 1] + x[from + d]
    BY <2>2 DEF IsTotal
  <2> QED  BY <2>1, <2>3
<1>3. S \in SUBSET Nat
  OBVIOUS
<1> HIDE DEF S
<1>4. \A d \in Nat : d \in S
  BY <1>1, <1>2, <1>3, Induct
<1>5. ASSUME NEW n \in (from - 1) .. a, n <= b PROVE s[n] = t[n]
  <2>1. n - (from - 1) \in S
    BY <1>4, <1>5
  <2> QED  BY <1>5, <2>1 DEF S
<1> QED  BY <1>5

(* Total by recursion on its upper bound.                                  *)
LEMMA TotalRec ==
  ASSUME NEW x, NEW from \in Int, NEW to \in Int
  PROVE  /\ to = from - 1 => Total(x, from, to) = 0
         /\ to >= from => Total(x, from, to) = Total(x, from, to - 1) + x[to]
<1>1. ASSUME NEW m \in Int, m >= from - 1
      PROVE  \E s : IsTotal(x, from, m, s) /\ Total(x, from, m) = s[m]
  <2>1. m - (from - 1) \in Nat /\ m = from - 1 + (m - (from - 1))
    BY <1>1
  <2>2. \E s : IsTotal(x, from, m, s)
    BY <2>1, TotalExists
  <2> QED  BY <2>2 DEF Total, IsTotal
<1>2. CASE to = from - 1
  <2>1. PICK s : IsTotal(x, from, to, s) /\ Total(x, from, to) = s[to]
    BY <1>1, <1>2
  <2> QED  BY <1>2, <2>1 DEF IsTotal
<1>3. CASE to >= from
  <2>1. PICK s : IsTotal(x, from, to, s) /\ Total(x, from, to) = s[to]
    BY <1>1, <1>3
  <2>2. PICK t : IsTotal(x, from, to - 1, t) /\ Total(x, from, to - 1) = t[to - 1]
    BY <1>1, <1>3
  <2>3. to - 1 \in (from - 1) .. to /\ to \in (from - 1) .. to
    BY <1>3
  <2>4. s[to - 1] = t[to - 1]
    BY <2>1, <2>2, <2>3, TotalUnique
  <2>5. s[to] = s[to - 1] + x[to]
    BY <1>3, <2>1, <2>3 DEF IsTotal
  <2> QED  BY <1>3, <2>1, <2>2, <2>4, <2>5
<1> QED  BY <1>2, <1>3

(* Sums of naturals, and of equal numbers.                                 *)
LEMMA TotalNat ==
  ASSUME NEW x, NEW from \in Int, NEW to \in Int, to >= from - 1,
         \A n \in from .. to : x[n] \in Nat
  PROVE  Total(x, from, to) \in Nat
<1> DEFINE S == {d \in Nat : from - 1 + d <= to => Total(x, from, from - 1 + d) \in Nat}
<1>1. 0 \in S
  BY TotalRec
<1>2. ASSUME NEW d \in S PROVE d + 1 \in S
  <2> SUFFICES ASSUME from + d <= to PROVE Total(x, from, from + d) \in Nat
    OBVIOUS
  <2>1. Total(x, from, from + d) = Total(x, from, from + d - 1) + x[from + d]
    BY TotalRec
  <2>2. from + d - 1 = from - 1 + d /\ from + d \in from .. to
    OBVIOUS
  <2>3. Total(x, from, from - 1 + d) \in Nat
    BY <1>2
  <2> QED  BY <2>1, <2>2, <2>3
<1>3. S \in SUBSET Nat
  OBVIOUS
<1> HIDE DEF S
<1>4. to - (from - 1) \in S
  BY <1>1, <1>2, <1>3, Induct
<1> QED  BY <1>4 DEF S

LEMMA TotalSame ==
  ASSUME NEW x, NEW y, NEW from \in Int, NEW to \in Int, to >= from - 1,
         \A n \in from .. to : x[n] = y[n]
  PROVE  Total(x, from, to) = Total(y, from, to)
<1> DEFINE S == {d \in Nat : from - 1 + d <= to =>
                    Total(x, from, from - 1 + d) = Total(y, from, from - 1 + d)}
<1>1. 0 \in S
  BY TotalRec
<1>2. ASSUME NEW d \in S PROVE d + 1 \in S
  <2> SUFFICES ASSUME from + d <= to
               PROVE  Total(x, from, from + d) = Total(y, from, from + d)
    OBVIOUS
  <2>1. /\ Total(x, from, from + d) = Total(x, from, from + d - 1) + x[from + d]
        /\ Total(y, from, from + d) = Total(y, from, from + d - 1) + y[from + d]
    BY TotalRec
  <2>2. from + d - 1 = from - 1 + d /\ from + d \in from .. to
    OBVIOUS
  <2>3. Total(x, from, from - 1 + d) = Total(y, from, from - 1 + d)
    BY <1>2
  <2> QED  BY <2>1, <2>2, <2>3
<1>3. S \in SUBSET Nat
  OBVIOUS
<1> HIDE DEF S
<1>4. to - (from - 1) \in S
  BY <1>1, <1>2, <1>3, Induct
<1> QED  BY <1>4 DEF S

(* A sum is the sum of its two parts.                                      *)
LEMMA TotalSplit ==
  ASSUME NEW x, NEW from \in Int, NEW mid \in Int, NEW to \in Int,
         from - 1 <= mid, mid <= to, \A n \in from .. to : x[n] \in Nat
  PROVE  Total(x, from, to) = Total(x, from, mid) + Total(x, mid + 1, to)
<1> DEFINE S == {d \in Nat : mid + d <= to =>
                    Total(x, from, mid + d)
                      = Total(x, from, mid) + Total(x, mid + 1, mid + d)}
<1>1. 0 \in S
  <2>1. Total(x, mid + 1, mid) = 0
    BY TotalRec
  <2>2. Total(x, from, mid) \in Nat
    BY TotalNat
  <2> QED  BY <2>1, <2>2
<1>2. ASSUME NEW d \in S PROVE d + 1 \in S
  <2> SUFFICES ASSUME mid + d + 1 <= to
               PROVE  Total(x, from, mid + d + 1)
                        = Total(x, from, mid) + Total(x, mid + 1, mid + d + 1)
    OBVIOUS
  <2>1. /\ Total(x, from, mid + d + 1) = Total(x, from, mid + d) + x[mid + d + 1]
        /\ Total(x, mid + 1, mid + d + 1)
             = Total(x, mid + 1, mid + d) + x[mid + d + 1]
    <3>1. mid + d + 1 \in Int /\ mid + d + 1 - 1 = mid + d
          /\ mid + d + 1 >= from /\ mid + d + 1 >= mid + 1
      OBVIOUS
    <3> QED  BY <3>1, TotalRec
  <2>2. Total(x, from, mid + d) = Total(x, from, mid) + Total(x, mid + 1, mid + d)
    BY <1>2
  <2>3. Total(x, from, mid) \in Nat /\ Total(x, mid + 1, mid + d) \in Nat
        /\ x[mid + d + 1] \in Nat
    <3>1. mid + d \in Int /\ mid + 1 \in Int /\ mid + d >= mid + 1 - 1
      OBVIOUS
    <3>2. (\A n \in from .. mid : x[n] \in Nat) /\ mid >= from - 1
      OBVIOUS
    <3>3. \A n \in mid + 1 .. mid + d : x[n] \in Nat
      OBVIOUS
    <3> QED  BY <3>1, <3>2, <3>3, TotalNat
  <2> QED  BY <2>1, <2>2, <2>3
<1>3. S \in SUBSET Nat
  OBVIOUS
<1> HIDE DEF S
<1>4. to - mid \in S
  BY <1>1, <1>2, <1>3, Induct
<1> QED  BY <1>4 DEF S

(* The largest of finitely many integers.                                  *)
LEMMA Largest ==
  ASSUME NEW a \in Int, NEW b \in Int, a <= b, NEW f, \A n \in a .. b : f[n] \in Int
  PROVE  \E m \in a .. b : \A n \in a .. b : f[n] <= f[m]
<1> DEFINE S == {d \in Nat : a + d <= b =>
                    \E m \in a .. a + d : \A n \in a .. a + d : f[n] <= f[m]}
<1>1. 0 \in S
  OBVIOUS
<1>2. ASSUME NEW d \in S PROVE d + 1 \in S
  <2> SUFFICES ASSUME a + d + 1 <= b
               PROVE  \E m \in a .. a + d + 1 : \A n \in a .. a + d + 1 : f[n] <= f[m]
    OBVIOUS
  <2>1. PICK m \in a .. a + d : \A n \in a .. a + d : f[n] <= f[m]
    BY <1>2
  <2>2. CASE f[a + d + 1] <= f[m]
    BY <2>1, <2>2
  <2>3. CASE f[a + d + 1] > f[m]
    BY <2>1, <2>3
  <2> QED  BY <2>1, <2>2, <2>3
<1>3. S \in SUBSET Nat
  OBVIOUS
<1> HIDE DEF S
<1>4. b - a \in S
  BY <1>1, <1>2, <1>3, Induct
<1> QED  BY <1>4 DEF S
-----------------------------------------------------------------------------
(* A new branch has an empty cache.                                        *)
LEMMA NewBranchOK ==
  ASSUME NEW pc \in Nat
  PROVE  Branch(NewBranch(pc)) /\ NewBranch(pc).opcodes = <<>>
<1>1. <<>> \in Seq(Opcode) /\ <<>> \in [{} -> Ref] /\ DOMAIN <<>> = {}
  BY EmptySeq
<1>2. NewBranch(pc).stackRefs \in [DOMAIN NewBranch(pc).stackRefs -> Ref]
  BY <1>1 DEF NewBranch
<1> QED  BY <1>1, <1>2 DEF Branch, IsBranch, Contiguous, NewBranch

(* The operands below the cache are the ones to load.                      *)
LEMMA MissingInterval ==
  ASSUME NEW br, Branch(br), NEW n \in Nat
  PROVE  /\ Missing(br, n) = (br.stackPos - n) .. (br.heapPos - 1)
         /\ IsFiniteSet(Missing(br, n))
         /\ Loads(br, n) = IF br.stackPos - n < br.heapPos
                           THEN br.heapPos - (br.stackPos - n) ELSE 0
         /\ Loads(br, n) \in Nat
<1>1. br.stackPos \in Int /\ br.heapPos \in Int /\ br.heapPos <= br.stackPos
  BY DEF Branch, IsBranch, Contiguous
<1>2. DOMAIN br.stackRefs = br.heapPos .. (br.stackPos - 1)
  BY DEF Branch, Contiguous
<1>3. Missing(br, n) = (br.stackPos - n) .. (br.heapPos - 1)
  BY <1>1, <1>2 DEF Missing
<1>4. /\ IsFiniteSet(Missing(br, n))
      /\ Cardinality(Missing(br, n)) =
           IF br.stackPos - n > br.heapPos - 1 THEN 0
           ELSE (br.heapPos - 1) - (br.stackPos - n) + 1
  <2>1. br.stackPos - n \in Int /\ br.heapPos - 1 \in Int
    BY <1>1
  <2> QED  BY <2>1, <1>3, FS_Interval
<1> QED  BY <1>1, <1>3, <1>4 DEF Loads

(* Popping keeps the cache an interval.                                    *)
LEMMA PoppedOK ==
  ASSUME NEW br, Branch(br), NEW n \in Nat
  PROVE  /\ Branch(Popped(br, n))
         /\ Popped(br, n).opcodes = br.opcodes /\ Popped(br, n).pc = br.pc
         /\ Popped(br, n).stackPos = br.stackPos - n
         /\ Popped(br, n).heapPos = br.heapPos - Loads(br, n)
         /\ Popped(br, n).stackMax = br.stackMax
         /\ \A p \in DOMAIN Popped(br, n).stackRefs :
               /\ p \in DOMAIN br.stackRefs
               /\ Popped(br, n).stackRefs[p] = br.stackRefs[p]
<1> DEFINE pb == Popped(br, n)
           keep == DOMAIN br.stackRefs \ ((br.stackPos - n) .. (br.stackPos - 1))
<1>1. /\ br \in [pc : Nat, opcodes : Seq(Opcode), stackPos : Int, heapPos : Int,
                 stackMin : Int, stackMax : Nat,
                 stackRefs : [DOMAIN br.stackRefs -> Ref]]
      /\ DOMAIN br.stackRefs = br.heapPos .. (br.stackPos - 1)
      /\ br.heapPos <= br.stackPos /\ br.heapPos <= 0
      /\ br.stackMin = br.heapPos /\ br.stackPos <= br.stackMax
  BY DEF Branch, IsBranch, Contiguous
<1>2. /\ Loads(br, n) \in Nat
      /\ Loads(br, n) = IF br.stackPos - n < br.heapPos
                        THEN br.heapPos - (br.stackPos - n) ELSE 0
  BY MissingInterval
<1>3. /\ pb.pc = br.pc /\ pb.opcodes = br.opcodes
      /\ pb.stackPos = br.stackPos - n
      /\ pb.heapPos = br.heapPos - Loads(br, n)
      /\ pb.stackMin = IF br.heapPos - Loads(br, n) < br.stackMin
                       THEN br.heapPos - Loads(br, n) ELSE br.stackMin
      /\ pb.stackMax = br.stackMax
      /\ pb.stackRefs = [p \in keep |-> br.stackRefs[p]]
      /\ DOMAIN pb = DOMAIN br
  BY <1>1 DEF Popped
<1>4. keep = pb.heapPos .. (pb.stackPos - 1)
  BY <1>1, <1>2, <1>3
<1>5. pb.stackRefs \in [keep -> Ref] /\ DOMAIN pb.stackRefs = keep
  BY <1>1, <1>3
<1>6. IsBranch(pb)
  <2> DEFINE sp   == br.stackPos - n
             hp   == br.heapPos - Loads(br, n)
             mn   == IF hp < br.stackMin THEN hp ELSE br.stackMin
             refs == [p \in keep |-> br.stackRefs[p]]
             U    == [DOMAIN br.stackRefs -> Ref] \cup [keep -> Ref]
  <2>1. sp \in Int /\ hp \in Int /\ mn \in Int /\ refs \in U
    BY <1>1, <1>2, <1>3, <1>5
  <2>2. br \in [pc : Nat, opcodes : Seq(Opcode), stackPos : Int, heapPos : Int,
                stackMin : Int, stackMax : Nat, stackRefs : U]
    BY <1>1
  <2>3. pb = [br EXCEPT !.stackPos = sp, !.heapPos = hp, !.stackMin = mn,
                        !.stackRefs = refs]
    BY DEF Popped
  <2>4. pb \in [pc : Nat, opcodes : Seq(Opcode), stackPos : Int, heapPos : Int,
                stackMin : Int, stackMax : Nat, stackRefs : U]
    <3> HIDE DEF pb, sp, hp, mn, refs, U
    <3> QED  BY <2>1, <2>2, <2>3
  <2>5. pb \in [pc : Nat, opcodes : Seq(Opcode), stackPos : Int, heapPos : Int,
                stackMin : Int, stackMax : Nat, stackRefs : [keep -> Ref]]
    <3> HIDE DEF pb, keep, U
    <3> QED  BY <2>4, <1>5
  <2> QED  BY <2>5, <1>5 DEF IsBranch
<1>7. Contiguous(pb)
  BY <1>1, <1>2, <1>3, <1>4, <1>5 DEF Contiguous
<1> QED  BY <1>1, <1>3, <1>5, <1>6, <1>7 DEF Branch

(* So does pushing the results of an opcode.                               *)
LEMMA PushedOK ==
  ASSUME NEW br, Branch(br), NEW n \in Nat, NEW id \in Nat
  PROVE  /\ Branch(Pushed(br, n, id))
         /\ Pushed(br, n, id).opcodes = br.opcodes
         /\ Pushed(br, n, id).pc = br.pc
         /\ Pushed(br, n, id).stackPos = br.stackPos + n
         /\ Pushed(br, n, id).heapPos = br.heapPos
         /\ Pushed(br, n, id).stackMax =
              IF n > 0 /\ br.stackPos + n > br.stackMax
              THEN br.stackPos + n ELSE br.stackMax
         /\ \A p \in DOMAIN Pushed(br, n, id).stackRefs :
               Pushed(br, n, id).stackRefs[p] =
                 IF p \in br.stackPos .. (br.stackPos + n - 1)
                 THEN Res(id, p - br.stackPos) ELSE br.stackRefs[p]
         /\ DOMAIN Pushed(br, n, id).stackRefs =
              DOMAIN br.stackRefs \cup (br.stackPos .. (br.stackPos + n - 1))
<1> DEFINE pb  == Pushed(br, n, id)
           new == br.stackPos .. (br.stackPos + n - 1)
           dom == DOMAIN br.stackRefs \cup new
<1>1. /\ br \in [pc : Nat, opcodes : Seq(Opcode), stackPos : Int, heapPos : Int,
                 stackMin : Int, stackMax : Nat,
                 stackRefs : [DOMAIN br.stackRefs -> Ref]]
      /\ DOMAIN br.stackRefs = br.heapPos .. (br.stackPos - 1)
      /\ br.heapPos <= br.stackPos /\ br.heapPos <= 0
      /\ br.stackMin = br.heapPos /\ br.stackPos <= br.stackMax
  BY DEF Branch, IsBranch, Contiguous
<1>2. /\ pb.stackPos = br.stackPos + n /\ pb.pc = br.pc
      /\ pb.heapPos = br.heapPos
      /\ pb.stackMin = br.stackMin
      /\ pb.stackMax = IF n > 0 /\ br.stackPos + n > br.stackMax
                       THEN br.stackPos + n ELSE br.stackMax
      /\ pb.opcodes = br.opcodes
      /\ pb.stackRefs = [p \in dom |-> IF p \in new THEN Res(id, p - br.stackPos)
                                       ELSE br.stackRefs[p]]
  BY <1>1 DEF Pushed
<1>3. dom = pb.heapPos .. (pb.stackPos - 1)
  BY <1>1, <1>2
<1>4. \A p \in new : Res(id, p - br.stackPos) \in Ref
  BY <1>1 DEF Res, Ref
<1>5. pb.stackRefs \in [dom -> Ref] /\ DOMAIN pb.stackRefs = dom
  BY <1>1, <1>2, <1>4
<1>6. IsBranch(pb)
  <2> DEFINE sp   == br.stackPos + n
             mx   == IF n > 0 /\ br.stackPos + n > br.stackMax
                     THEN br.stackPos + n ELSE br.stackMax
             refs == [p \in dom |-> IF p \in new THEN Res(id, p - br.stackPos)
                                    ELSE br.stackRefs[p]]
             U    == [DOMAIN br.stackRefs -> Ref] \cup [dom -> Ref]
  <2>1. sp \in Int /\ mx \in Nat /\ refs \in U
    BY <1>1, <1>2, <1>5
  <2>2. br \in [pc : Nat, opcodes : Seq(Opcode), stackPos : Int, heapPos : Int,
                stackMin : Int, stackMax : Nat, stackRefs : U]
    BY <1>1
  <2>3. pb = [br EXCEPT !.stackPos = sp, !.stackMax = mx, !.stackRefs = refs]
    BY DEF Pushed
  <2>4. pb \in [pc : Nat, opcodes : Seq(Opcode), stackPos : Int, heapPos : Int,
                stackMin : Int, stackMax : Nat, stackRefs : U]
    <3> HIDE DEF pb, sp, mx, refs, U
    <3> QED  BY <2>1, <2>2, <2>3
  <2>5. pb \in [pc : Nat, opcodes : Seq(Opcode), stackPos : Int, heapPos : Int,
                stackMin : Int, stackMax : Nat, stackRefs : [dom -> Ref]]
    <3> HIDE DEF pb, dom, U
    <3> QED  BY <2>4, <1>5
  <2> QED  BY <2>5, <1>5 DEF IsBranch
<1>7. Contiguous(pb)
  BY <1>1, <1>2, <1>3, <1>5 DEF Contiguous
<1> QED  BY <1>2, <1>5, <1>6, <1>7 DEF Branch

(* Replacing a cached reference.                                           *)
LEMMA SetRefOK ==
  ASSUME NEW br, Branch(br), NEW k \in 1 .. (br.stackPos - br.heapPos),
         NEW r \in Ref
  PROVE  /\ Branch(SetRef(br, k, r))
         /\ SetRef(br, k, r).opcodes = br.opcodes /\ SetRef(br, k, r).pc = br.pc
         /\ SetRef(br, k, r).stackPos = br.stackPos
         /\ SetRef(br, k, r).heapPos = br.heapPos
         /\ SetRef(br, k, r).stackMax = br.stackMax
         /\ DOMAIN SetRef(br, k, r).stackRefs = DOMAIN br.stackRefs
         /\ \A p \in DOMAIN br.stackRefs :
               SetRef(br, k, r).stackRefs[p] =
                 IF p = br.stackPos - k THEN r ELSE br.stackRefs[p]
<1> DEFINE D    == DOMAIN br.stackRefs
           refs == [br.stackRefs EXCEPT ![br.stackPos - k] = r]
           nb   == SetRef(br, k, r)
<1>1. /\ br \in [pc : Nat, opcodes : Seq(Opcode), stackPos : Int, heapPos : Int,
                 stackMin : Int, stackMax : Nat, stackRefs : [D -> Ref]]
      /\ D = br.heapPos .. (br.stackPos - 1)
  BY DEF Branch, IsBranch, Contiguous
<1>2. br.stackPos - k \in D
  BY <1>1
<1>3. refs \in [D -> Ref]
  BY <1>1
<1>4. nb = [br EXCEPT !.stackRefs = refs]
  BY DEF SetRef
<1>5. /\ nb.opcodes = br.opcodes /\ nb.stackPos = br.stackPos /\ nb.pc = br.pc
      /\ nb.heapPos = br.heapPos /\ nb.stackMin = br.stackMin
      /\ nb.stackMax = br.stackMax /\ nb.stackRefs = refs
  BY <1>1, <1>4
<1>6. nb \in [pc : Nat, opcodes : Seq(Opcode), stackPos : Int, heapPos : Int,
             stackMin : Int, stackMax : Nat, stackRefs : [D -> Ref]]
  <2> HIDE DEF nb, D, refs
  <2> QED  BY <1>1, <1>3, <1>4
<1>7. IsBranch(nb)
  BY <1>3, <1>5, <1>6 DEF IsBranch
<1>8. Contiguous(nb)
  BY <1>1, <1>5 DEF Branch, Contiguous
<1>9. \A p \in D : refs[p] = IF p = br.stackPos - k THEN r ELSE br.stackRefs[p]
  BY <1>1, <1>2
<1> QED  BY <1>3, <1>5, <1>7, <1>8, <1>9 DEF Branch

(* What is stored at a jump is the whole cache, and holds no nil.          *)
LEMMA StackStoreOK ==
  ASSUME NEW br, Branch(br)
  PROVE  /\ StackStore(br) \in Seq(Ref)
         /\ \A i \in DOMAIN StackStore(br) :
               \E p \in DOMAIN br.stackRefs : StackStore(br)[i] = br.stackRefs[p]
<1>1. /\ br.stackPos \in Int /\ br.heapPos \in Int /\ br.heapPos <= br.stackPos
      /\ DOMAIN br.stackRefs = br.heapPos .. (br.stackPos - 1)
      /\ br.stackRefs \in [DOMAIN br.stackRefs -> Ref]
  BY DEF Branch, IsBranch, Contiguous
<1> DEFINE n == br.stackPos - br.heapPos
<1>2. n \in Nat
  BY <1>1
<1>3. \A i \in 1 .. n : /\ br.heapPos + i - 1 \in DOMAIN br.stackRefs
                        /\ RefAt(br, br.heapPos + i - 1)
                              = br.stackRefs[br.heapPos + i - 1]
  BY <1>1 DEF RefAt
<1>4. StackStore(br) = [i \in 1 .. n |-> RefAt(br, br.heapPos + i - 1)]
  BY DEF StackStore
<1>5. \A i \in 1 .. n : RefAt(br, br.heapPos + i - 1) \in Ref
  BY <1>1, <1>3
<1>6. StackStore(br) \in [1 .. n -> Ref] /\ DOMAIN StackStore(br) = 1 .. n
  BY <1>4, <1>5
<1>7. StackStore(br) \in Seq(Ref)
  BY <1>2, <1>6, IsASeq
<1> QED  BY <1>3, <1>4, <1>6, <1>7

(* An operand is a cached reference or a register loaded by the opcode     *)
(* itself.                                                                 *)
CachedRefs(br) == {br.stackRefs[p] : p \in DOMAIN br.stackRefs}
Operands(args, br, n, load, id) ==
    /\ args \in Seq(Ref) /\ DOMAIN args = 1 .. n
    /\ \A i \in 1 .. n : \/ args[i] \in CachedRefs(br)
                         \/ \E k \in 0 .. load - 1 : args[i] = In(id, k)

LEMMA ArgsOK ==
  ASSUME NEW br, Branch(br), NEW n \in Nat, NEW id \in Nat
  PROVE  Operands(Args(br, n, id), br, n, Loads(br, n), id)
<1>1. /\ br.stackPos \in Int /\ br.heapPos \in Int
      /\ DOMAIN br.stackRefs = br.heapPos .. (br.stackPos - 1)
      /\ br.stackRefs \in [DOMAIN br.stackRefs -> Ref]
  BY DEF Branch, IsBranch, Contiguous
<1>2. ASSUME NEW i \in 1 .. n
      PROVE  \/ /\ br.stackPos - i \in DOMAIN br.stackRefs
                /\ Args(br, n, id)[i] = br.stackRefs[br.stackPos - i]
             \/ \E k \in 0 .. Loads(br, n) - 1 : Args(br, n, id)[i] = In(id, k)
  <2> DEFINE p     == br.stackPos - i
             above == {q \in Missing(br, n) : q > p}
  <2>1. Args(br, n, id)[i] = IF p \in DOMAIN br.stackRefs THEN br.stackRefs[p]
                             ELSE In(id, Cardinality(above))
    BY DEF Args
  <2>2. CASE p \in DOMAIN br.stackRefs
    BY <2>1, <2>2
  <2>3. CASE p \notin DOMAIN br.stackRefs
    <3>1. p \in Missing(br, n)
      BY <1>1, <2>3 DEF Missing
    <3>2. /\ IsFiniteSet(Missing(br, n))
          /\ Loads(br, n) = Cardinality(Missing(br, n))
          /\ Loads(br, n) \in Nat
      BY MissingInterval DEF Loads
    <3>3. above \subseteq Missing(br, n) /\ p \notin above
      BY <1>1
    <3>4. /\ IsFiniteSet(above)
          /\ Cardinality(above) <= Cardinality(Missing(br, n))
          /\ Cardinality(above) # Cardinality(Missing(br, n))
      BY <3>1, <3>2, <3>3, FS_Subset
    <3>5. Cardinality(above) \in Nat
      BY <3>4, FS_CardinalityType
    <3>6. Cardinality(above) \in 0 .. Loads(br, n) - 1
      BY <3>2, <3>4, <3>5
    <3> QED  BY <2>1, <2>3, <3>6
  <2> QED  BY <2>2, <2>3
<1>3. \A i \in 1 .. n : Args(br, n, id)[i] \in Ref
  <2>1. \A k \in 0 .. Loads(br, n) - 1 : In(id, k) \in Ref
    <3>1. Loads(br, n) \in Nat
      BY MissingInterval
    <3> QED  BY <3>1 DEF In, Ref
  <2> QED  BY <1>1, <1>2, <2>1
<1>4. Args(br, n, id) \in [1 .. n -> Ref] /\ DOMAIN Args(br, n, id) = 1 .. n
  BY <1>3 DEF Args
<1>5. Args(br, n, id) \in Seq(Ref)
  BY <1>4, IsASeq
<1> QED  BY <1>2, <1>4, <1>5 DEF Operands, CachedRefs

(* The opcode record is well typed.                                        *)
LEMMA NewOpcodeOK ==
  ASSUME NEW br, Branch(br), NEW name \in Names, NEW arg \in Nat,
         NEW in \in Nat, NEW out \in Nat, NEW gas \in Nat,
         opcount \in Nat, pccount \in Nat
  PROVE  NewOpcode(br, name, arg, in, out, gas) \in Opcode
<1> DEFINE top   == br.stackPos - in + out
           check == IF out > 0 /\ top > br.stackMax THEN top ELSE 0
<1>1. br.stackPos \in Int /\ br.stackMax \in Nat
  BY DEF Branch, IsBranch
<1>2. check \in Nat
  BY <1>1
<1>3. Args(br, in, opcount) \in Seq(Ref) /\ Loads(br, in) \in Nat
  BY ArgsOK, MissingInterval DEF Operands
<1>4. StackStore(br) \in Seq(Ref) /\ <<>> \in Seq(Ref)
  BY StackStoreOK, EmptySeq
<1>5. 0 \in 0 .. PcLimit - 1
  BY LimitsAssumption
<1> HIDE DEF check
<1>6. NewOpcode(br, name, arg, in, out, gas) =
        [id |-> opcount, pc |-> pccount, name |-> name, arg |-> arg,
         gas |-> gas, in |-> in, out |-> out,
         stackRefs |-> Args(br, in, opcount),
         stackLoad |-> Loads(br, in), stackAddLoad |-> 0, stackStore |-> <<>>,
         stackCheck |-> check,
         skipGasCheck |-> FALSE, breakGasGroup |-> FALSE,
         isExitOpcode |-> FALSE, isUnnecessary |-> FALSE,
         isStaticJump |-> FALSE, staticJumpPc |-> 0,
         cache |-> StackStore(br)]
  BY DEF NewOpcode, check
<1> QED  BY <1>2, <1>3, <1>4, <1>5, <1>6 DEF Opcode

(* A branch stays well formed when an opcode is recorded in it.            *)
LEMMA RecordOK ==
  ASSUME NEW br, Branch(br), NEW op \in Opcode
  PROVE  /\ Branch([br EXCEPT !.opcodes = Append(@, op)])
         /\ [br EXCEPT !.opcodes = Append(@, op)].opcodes = Append(br.opcodes, op)
         /\ [br EXCEPT !.opcodes = Append(@, op)].stackRefs = br.stackRefs
         /\ [br EXCEPT !.opcodes = Append(@, op)].stackMax = br.stackMax
         /\ [br EXCEPT !.opcodes = Append(@, op)].heapPos = br.heapPos
         /\ [br EXCEPT !.opcodes = Append(@, op)].pc = br.pc
<1> DEFINE D   == [DOMAIN br.stackRefs -> Ref]
           ops == Append(br.opcodes, op)
           nb  == [br EXCEPT !.opcodes = ops]
<1>1. br \in [pc : Nat, opcodes : Seq(Opcode), stackPos : Int, heapPos : Int,
             stackMin : Int, stackMax : Nat, stackRefs : D]
  BY DEF Branch, IsBranch
<1>2. ops \in Seq(Opcode)
  BY <1>1, AppendProperties
<1>3. nb \in [pc : Nat, opcodes : Seq(Opcode), stackPos : Int, heapPos : Int,
             stackMin : Int, stackMax : Nat, stackRefs : D]
  <2> HIDE DEF ops, D
  <2> QED  BY <1>1, <1>2
<1>4. /\ nb.stackPos = br.stackPos /\ nb.heapPos = br.heapPos
      /\ nb.stackMin = br.stackMin /\ nb.stackMax = br.stackMax
      /\ nb.stackRefs = br.stackRefs /\ nb.opcodes = ops /\ nb.pc = br.pc
  BY <1>1
<1>5. IsBranch(nb)
  BY <1>3, <1>4 DEF IsBranch
<1>6. Contiguous(nb)
  BY <1>4 DEF Branch, Contiguous
<1> QED  BY <1>4, <1>5, <1>6 DEF Branch

(* The branches appendOpcode works on.                                     *)
LEMMA OpenedOK ==
  ASSUME TypeOK, CacheContiguous
  PROVE  /\ Len(Opened) \in Nat \ {0}
         /\ DOMAIN Opened = 1 .. Len(Opened)
         /\ Opened \in [1 .. Len(Opened) -> {Opened[i] : i \in DOMAIN Opened}]
         /\ \A i \in DOMAIN Opened : Branch(Opened[i])
         /\ Branch(Cur)
<1>1. Branch(NewBranch(0))
  BY NewBranchOK
<1>2. /\ Len(branches) \in Nat /\ DOMAIN branches = 1 .. Len(branches)
      /\ branches \in [1 .. Len(branches) -> {branches[i] : i \in DOMAIN branches}]
      /\ branches # <<>> => Len(branches) # 0
  BY LenProperties, EmptySeq DEF TypeOK
<1>3. \A i \in DOMAIN branches : Branch(branches[i])
  BY DEF TypeOK, CacheContiguous, Branch
<1>4. CASE branches = <<>>
  BY <1>1, <1>4 DEF Opened, Cur
<1>5. CASE branches # <<>>
  <2>1. Opened = branches
    BY <1>5 DEF Opened
  <2> QED  BY <1>2, <1>3, <1>5, <2>1 DEF Cur
<1> QED  BY <1>4, <1>5

-----------------------------------------------------------------------------
(* What every AppendXxx does to the branch br0 it finds: br is that branch *)
(* after the opcode op, whose operands, stored words and results are       *)
(* constants, words cached in br0, or registers op itself defines.  It has *)
(* loaded op.stackLoad words, and reached a height that is checked if it   *)
(* is a new maximum.                                                       *)
Top(br0, op) == br0.stackPos - op.in + op.out
Measured(br0, br, op) ==
    /\ br.pc = br0.pc
    /\ op.in \in Nat /\ op.out \in Nat /\ op.stackCheck \in Nat
    /\ br0.stackMax \in Nat /\ br0.stackPos <= br0.stackMax
    /\ op.stackCheck = IF op.out > 0 /\ Top(br0, op) > br0.stackMax
                       THEN Top(br0, op) ELSE 0
    /\ br.stackMax = IF op.stackCheck > 0 THEN op.stackCheck ELSE br0.stackMax
    /\ br.heapPos = br0.heapPos - op.stackLoad
    /\ Len(op.cache) = br0.stackPos - br0.heapPos
(* The words an opcode needs and does not find in the cache are those it   *)
(* loads and the one it addresses below them; a folded opcode has none.    *)
Fetches(op) ==
    op.stackLoad + op.stackAddLoad =
        IF Takes(op) > Len(op.cache) THEN Takes(op) - Len(op.cache) ELSE 0
Settled(op) ==
    /\ Fetches(op) /\ ~op.skipGasCheck
    /\ op.isUnnecessary => op.stackLoad = 0
    /\ op.isStaticJump => /\ IsConst(op.stackRefs[1])
                          /\ op.staticJumpPc = JumpPc(op.stackRefs[1][2])
Known(br0, op, r) == IsConst(r) \/ r \in CachedRefs(br0) \/ r \in Defines(op)
GoodBelow(br0, br, op, n) ==
    /\ Branch(br) /\ br.opcodes = br0.opcodes /\ op \in Opcode
    /\ Measured(br0, br, op) /\ Settled(op)
    /\ \A i \in DOMAIN op.stackRefs : Known(br0, op, op.stackRefs[i])
    /\ \A i \in DOMAIN op.stackStore : Known(br0, op, op.stackStore[i])
    /\ \A i \in DOMAIN op.cache : op.cache[i] \in CachedRefs(br0)
    /\ \A p \in DOMAIN br.stackRefs \ ((br.stackPos - n) .. (br.stackPos - 1)) :
          Known(br0, op, br.stackRefs[p])
GoodStep(br0, br, op) == GoodBelow(br0, br, op, 0)

(* appendOpcode itself, before the AppendXxx method adjusts its result.    *)
Appended(br0, op, br, in, out) ==
    /\ op \in Opcode /\ op.in = in /\ op.out = out
    /\ Branch(br) /\ br.opcodes = br0.opcodes
    /\ Measured(br0, br, op)
    /\ br.stackPos = br0.stackPos - in + out
    /\ br.heapPos <= br.stackPos - out
    /\ Operands(op.stackRefs, br0, in, op.stackLoad, op.id)
    /\ \A i \in DOMAIN op.cache : op.cache[i] \in CachedRefs(br0)
    /\ \A p \in DOMAIN br.stackRefs :
          IF p \in (br.stackPos - out) .. (br.stackPos - 1)
          THEN br.stackRefs[p] = Res(op.id, p - (br.stackPos - out))
          ELSE br.stackRefs[p] \in CachedRefs(br0)
    /\ op.stackLoad = IF in > Len(op.cache) THEN in - Len(op.cache) ELSE 0
    /\ op.stackLoad > 0 => in > 0 /\ ~IsConst(op.stackRefs[in])

(* The lowest of the operands that are not all cached is loaded.           *)
LEMMA LoadedArg ==
  ASSUME NEW br, Branch(br), NEW n \in Nat, NEW id \in Nat, Loads(br, n) > 0
  PROVE  n > 0 /\ ~IsConst(Args(br, n, id)[n])
<1>1. /\ br.stackPos \in Int /\ br.heapPos \in Int /\ br.heapPos <= br.stackPos
      /\ DOMAIN br.stackRefs = br.heapPos .. (br.stackPos - 1)
  BY DEF Branch, IsBranch, Contiguous
<1>2. br.stackPos - n < br.heapPos
  BY MissingInterval
<1>3. n \in 1 .. n /\ br.stackPos - n \notin DOMAIN br.stackRefs
  BY <1>1, <1>2
<1>4. \E k : Args(br, n, id)[n] = In(id, k)
  BY <1>3 DEF Args
<1> QED  BY <1>3, <1>4 DEF In, IsConst

LEMMA AppendOpcodeOK ==
  ASSUME NEW br0, Branch(br0), NEW name \in Names, NEW arg \in Nat,
         NEW in \in Nat, NEW out \in Nat, NEW gas \in Nat,
         opcount \in Nat, pccount \in Nat
  PROVE  Appended(br0, NewOpcode(br0, name, arg, in, out, gas),
                  AfterOpcode(br0, in, out), in, out)
<1> DEFINE op == NewOpcode(br0, name, arg, in, out, gas)
           pb == Popped(br0, in)
           br == AfterOpcode(br0, in, out)
<1>1. op \in Opcode
  BY NewOpcodeOK
<1>2. /\ op.id = opcount /\ op.stackRefs = Args(br0, in, opcount)
      /\ op.stackLoad = Loads(br0, in) /\ op.cache = StackStore(br0)
      /\ op.in = in /\ op.out = out
  BY DEF NewOpcode
<1>3. /\ Branch(pb) /\ pb.opcodes = br0.opcodes /\ pb.pc = br0.pc
      /\ pb.stackPos = br0.stackPos - in /\ pb.stackMax = br0.stackMax
      /\ pb.heapPos = br0.heapPos - Loads(br0, in)
      /\ \A p \in DOMAIN pb.stackRefs : pb.stackRefs[p] \in CachedRefs(br0)
  BY PoppedOK DEF CachedRefs
<1>4. br = Pushed(pb, out, opcount)
  BY DEF AfterOpcode
<1>5. /\ Branch(br) /\ br.opcodes = br0.opcodes /\ br.pc = br0.pc
      /\ br.stackPos = pb.stackPos + out /\ br.heapPos = pb.heapPos
      /\ br.stackMax = IF out > 0 /\ pb.stackPos + out > pb.stackMax
                       THEN pb.stackPos + out ELSE pb.stackMax
      /\ \A p \in DOMAIN br.stackRefs :
            br.stackRefs[p] = IF p \in pb.stackPos .. (pb.stackPos + out - 1)
                              THEN Res(opcount, p - pb.stackPos)
                              ELSE pb.stackRefs[p]
      /\ DOMAIN br.stackRefs =
           DOMAIN pb.stackRefs \cup (pb.stackPos .. (pb.stackPos + out - 1))
  <2> HIDE DEF pb, br
  <2>1. Branch(pb)
    BY <1>3
  <2> DEFINE qb == Pushed(pb, out, opcount)
  <2>2. /\ Branch(qb) /\ qb.opcodes = pb.opcodes /\ qb.pc = pb.pc
        /\ qb.stackPos = pb.stackPos + out /\ qb.heapPos = pb.heapPos
        /\ qb.stackMax = IF out > 0 /\ pb.stackPos + out > pb.stackMax
                         THEN pb.stackPos + out ELSE pb.stackMax
        /\ \A p \in DOMAIN qb.stackRefs :
              qb.stackRefs[p] = IF p \in pb.stackPos .. (pb.stackPos + out - 1)
                                THEN Res(opcount, p - pb.stackPos)
                                ELSE pb.stackRefs[p]
        /\ DOMAIN qb.stackRefs =
             DOMAIN pb.stackRefs \cup (pb.stackPos .. (pb.stackPos + out - 1))
    BY <2>1, PushedOK, SMTT(30)
  <2> HIDE DEF qb
  <2> QED  BY <1>3, <1>4, <2>2 DEF qb
<1>6. /\ pb.stackPos \in Int /\ pb.heapPos \in Int /\ pb.heapPos <= pb.stackPos
      /\ br0.stackPos \in Int
  BY <1>3 DEF Branch, IsBranch, Contiguous
<1>7. Operands(op.stackRefs, br0, in, op.stackLoad, op.id)
  <2> HIDE DEF op
  <2> QED  BY <1>2, ArgsOK
<1>8. \A i \in DOMAIN op.cache : op.cache[i] \in CachedRefs(br0)
  <2> HIDE DEF op
  <2> QED  BY <1>2, StackStoreOK DEF CachedRefs
<1>9. /\ br.stackPos = br0.stackPos - in + out
      /\ br.heapPos <= br.stackPos - out
      /\ br.stackPos - out = pb.stackPos
  <2> HIDE DEF pb, br
  <2> QED  BY <1>3, <1>5, <1>6
<1>10. ASSUME NEW p \in DOMAIN br.stackRefs
       PROVE  IF p \in (br.stackPos - out) .. (br.stackPos - 1)
              THEN br.stackRefs[p] = Res(op.id, p - (br.stackPos - out))
              ELSE br.stackRefs[p] \in CachedRefs(br0)
  <2> HIDE DEF pb, br, op
  <2> QED  BY <1>2, <1>3, <1>5, <1>6, <1>9
<1>11. /\ br0.stackMax \in Nat /\ br0.stackPos \in Int /\ br0.heapPos \in Int
       /\ br0.heapPos <= br0.stackPos /\ br0.stackPos <= br0.stackMax
  BY DEF Branch, IsBranch, Contiguous
<1>12. Len(op.cache) = br0.stackPos - br0.heapPos
  <2>1. op.cache = [i \in 1 .. (br0.stackPos - br0.heapPos) |->
                      RefAt(br0, br0.heapPos + i - 1)]
    BY <1>2 DEF StackStore
  <2>2. op.cache \in Seq(Ref) /\ br0.stackPos - br0.heapPos \in Nat
    BY <1>2, <1>11, StackStoreOK
  <2> HIDE DEF op
  <2>3. DOMAIN op.cache = 1 .. (br0.stackPos - br0.heapPos)
    BY <2>1
  <2> QED  BY <2>2, <2>3, LenProperties
<1>13. /\ Loads(br0, in) \in Nat
       /\ Loads(br0, in) = IF br0.stackPos - in < br0.heapPos
                           THEN br0.heapPos - (br0.stackPos - in) ELSE 0
  BY MissingInterval
<1>14. Measured(br0, br, op)
  <2>1. op.stackCheck = IF out > 0 /\ br0.stackPos - in + out > br0.stackMax
                        THEN br0.stackPos - in + out ELSE 0
    BY DEF NewOpcode
  <2> HIDE DEF op, br, pb
  <2> DEFINE top == br0.stackPos - in + out
  <2>2. Top(br0, op) = top /\ top \in Int
    BY <1>2, <1>11 DEF Top
  <2>3. br.stackMax = IF out > 0 /\ top > br0.stackMax THEN top ELSE br0.stackMax
    BY <1>3, <1>5, <1>11
  <2>4. op.stackCheck \in Nat /\ (out > 0 /\ top > br0.stackMax => top > 0)
    BY <1>11, <2>1, <2>2
  <2>5. br.heapPos = br0.heapPos - op.stackLoad
    BY <1>2, <1>3, <1>5
  <2> HIDE DEF top
  <2>6. br.stackMax = IF op.stackCheck > 0 THEN op.stackCheck ELSE br0.stackMax
    BY <1>11, <2>1, <2>3, <2>4 DEF top
  <2> QED  BY <1>2, <1>5, <1>11, <1>12, <2>1, <2>2, <2>4, <2>5, <2>6 DEF Measured, top
<1>15. op.stackLoad = IF in > Len(op.cache) THEN in - Len(op.cache) ELSE 0
  <2> HIDE DEF op
  <2> QED  BY <1>2, <1>11, <1>12, <1>13
<1>16. op.stackLoad > 0 => in > 0 /\ ~IsConst(op.stackRefs[in])
  <2> HIDE DEF op
  <2> QED  BY <1>2, LoadedArg
<1>17. Appended(br0, op, br, in, out)
  <2> HIDE DEF op, br
  <2> QED  BY <1>1, <1>2, <1>5, <1>7, <1>8, <1>9, <1>10, <1>14, <1>15, <1>16 DEF Appended
<1> QED  BY <1>17

(* The adjustments keep these fields.                                      *)
Core(op, o) ==
    /\ op \in Opcode /\ op.id = o.id /\ op.name = o.name
    /\ op.in = o.in /\ op.out = o.out /\ op.arg = o.arg
    /\ op.stackRefs = o.stackRefs /\ op.stackLoad = o.stackLoad
    /\ op.cache = o.cache /\ op.stackCheck = o.stackCheck

(* An opcode that addresses no word below those it loads is settled.       *)
Unadjusted(op) ==
    /\ op.stackAddLoad = 0 /\ ~op.skipGasCheck /\ op.name \notin {"dup", "swap"}
LEMMA UnadjustedOK ==
  ASSUME NEW br0, NEW o, NEW br, NEW in \in Nat, NEW out \in Nat,
         Appended(br0, o, br, in, out), NEW op, Core(op, o), Unadjusted(op),
         op.isUnnecessary => op.stackLoad = 0,
         op.isStaticJump => /\ IsConst(op.stackRefs[1])
                            /\ op.staticJumpPc = JumpPc(op.stackRefs[1][2])
  PROVE  Settled(op)
<1>1. Takes(op) = in /\ op.stackLoad \in Nat
  BY DEF Takes, Unadjusted, Core, Appended, Opcode
<1>2. Fetches(op)
  BY <1>1 DEF Fetches, Unadjusted, Core, Appended
<1> QED  BY <1>2 DEF Settled, Unadjusted

(* All but the results are known, whatever the adjustments.                *)
LEMMA CoreStep ==
  ASSUME NEW br0, NEW o, NEW br, NEW in \in Nat, NEW out \in Nat,
         Appended(br0, o, br, in, out), NEW op, Core(op, o), Settled(op),
         op.isUnnecessary => \A i \in DOMAIN op.stackRefs : IsConst(op.stackRefs[i]),
         \A i \in DOMAIN op.stackStore : Known(br0, op, op.stackStore[i])
  PROVE  GoodBelow(br0, br, op, out)
<1>1. \A i \in DOMAIN op.stackRefs : Known(br0, op, op.stackRefs[i])
  <2>1. CASE op.isUnnecessary
    BY <2>1 DEF Known
  <2>2. CASE ~op.isUnnecessary
    <3>1. \A k \in 0 .. op.stackLoad - 1 : In(op.id, k) \in Defines(op)
      BY <2>2 DEF Defines
    <3> QED  BY <3>1 DEF Known, Appended, Operands, Core
  <2> QED  BY <2>1, <2>2
<1>2. \A p \in DOMAIN br.stackRefs \ ((br.stackPos - out) .. (br.stackPos - 1)) :
        Known(br0, op, br.stackRefs[p])
  BY DEF Known, Appended
<1>3. Measured(br0, br, op)
  BY DEF Appended, Core, Measured, Top
<1> QED  BY <1>1, <1>2, <1>3 DEF GoodBelow, Appended, Core

(* An opcode whose code defines its results: nothing is left to adjust.    *)
LEMMA PlainStep ==
  ASSUME NEW br0, NEW o, NEW br, NEW in \in Nat, NEW out \in Nat,
         Appended(br0, o, br, in, out), NEW op, Core(op, o), Settled(op),
         ~op.isUnnecessary, op.out = out, Results(op) = out,
         \A i \in DOMAIN op.stackStore : Known(br0, op, op.stackStore[i])
  PROVE  GoodStep(br0, br, op)
<1>1. GoodBelow(br0, br, op, out)
  BY CoreStep
<1>2. br.stackPos \in Int
  BY DEF Appended, Branch, IsBranch
<1>3. ASSUME NEW p \in DOMAIN br.stackRefs
      PROVE  Known(br0, op, br.stackRefs[p])
  <2>1. CASE p \in (br.stackPos - out) .. (br.stackPos - 1)
    <3>1. /\ p - (br.stackPos - out) \in 0 .. Results(op) - 1
          /\ br.stackRefs[p] = Res(op.id, p - (br.stackPos - out))
      BY <1>2, <2>1 DEF Appended, Core
    <3>2. br.stackRefs[p] \in Defines(op)
      BY <3>1 DEF Defines
    <3> QED  BY <3>2 DEF Known
  <2>2. CASE p \notin (br.stackPos - out) .. (br.stackPos - 1)
    BY <1>1, <2>2 DEF GoodBelow
  <2> QED  BY <2>1, <2>2
<1> QED  BY <1>1, <1>3 DEF GoodStep, GoodBelow

(* Setting the reference of the only result that is not known.             *)
LEMMA SetTopStep ==
  ASSUME NEW br0, NEW br, NEW op, GoodBelow(br0, br, op, 1),
         br.heapPos <= br.stackPos - 1, NEW r \in Ref, Known(br0, op, r)
  PROVE  /\ GoodStep(br0, SetRef(br, 1, r), op)
         /\ SetRef(br, 1, r).stackPos = br.stackPos
         /\ SetRef(br, 1, r).heapPos = br.heapPos
<1>1. /\ Branch(br) /\ br.stackPos \in Int /\ br.heapPos \in Int
      /\ DOMAIN br.stackRefs = br.heapPos .. (br.stackPos - 1)
  BY DEF GoodBelow, Branch, IsBranch, Contiguous
<1>2. 1 \in 1 .. (br.stackPos - br.heapPos)
  BY <1>1
<1>3. /\ Branch(SetRef(br, 1, r))
      /\ SetRef(br, 1, r).opcodes = br.opcodes /\ SetRef(br, 1, r).pc = br.pc
      /\ SetRef(br, 1, r).stackPos = br.stackPos
      /\ SetRef(br, 1, r).heapPos = br.heapPos
      /\ SetRef(br, 1, r).stackMax = br.stackMax
      /\ DOMAIN SetRef(br, 1, r).stackRefs = DOMAIN br.stackRefs
      /\ \A p \in DOMAIN br.stackRefs :
            SetRef(br, 1, r).stackRefs[p] =
              IF p = br.stackPos - 1 THEN r ELSE br.stackRefs[p]
  BY <1>1, <1>2, SetRefOK
<1>4. ASSUME NEW p \in DOMAIN SetRef(br, 1, r).stackRefs
      PROVE  Known(br0, op, SetRef(br, 1, r).stackRefs[p])
  <2>1. CASE p = br.stackPos - 1
    BY <1>3, <2>1
  <2>2. CASE p # br.stackPos - 1
    <3>1. p \in DOMAIN br.stackRefs \ ((br.stackPos - 1) .. (br.stackPos - 1))
      BY <1>1, <1>3, <2>2
    <3> QED  BY <1>3, <2>2, <3>1 DEF GoodBelow
  <2> QED  BY <2>1, <2>2
<1>5. Measured(br0, SetRef(br, 1, r), op)
  BY <1>3 DEF GoodBelow, Measured
<1> QED  BY <1>3, <1>4, <1>5 DEF GoodStep, GoodBelow

(* Setting any reference of a step that is good already.                   *)
LEMMA SetStep ==
  ASSUME NEW br0, NEW br, NEW op, GoodStep(br0, br, op),
         NEW k \in 1 .. (br.stackPos - br.heapPos),
         NEW r \in Ref, Known(br0, op, r)
  PROVE  GoodStep(br0, SetRef(br, k, r), op)
<1>1. Branch(br) /\ \A p \in DOMAIN br.stackRefs : Known(br0, op, br.stackRefs[p])
  <2>1. br.stackPos \in Int
    BY DEF GoodStep, GoodBelow, Branch, IsBranch
  <2> QED  BY <2>1 DEF GoodStep, GoodBelow
<1>2. /\ Branch(SetRef(br, k, r))
      /\ SetRef(br, k, r).opcodes = br.opcodes /\ SetRef(br, k, r).pc = br.pc
      /\ SetRef(br, k, r).stackMax = br.stackMax
      /\ SetRef(br, k, r).heapPos = br.heapPos
      /\ DOMAIN SetRef(br, k, r).stackRefs = DOMAIN br.stackRefs
      /\ \A p \in DOMAIN br.stackRefs :
            SetRef(br, k, r).stackRefs[p] =
              IF p = br.stackPos - k THEN r ELSE br.stackRefs[p]
  BY <1>1, SetRefOK
<1>3. Measured(br0, SetRef(br, k, r), op)
  BY <1>2 DEF GoodStep, GoodBelow, Measured
<1> QED  BY <1>1, <1>2, <1>3 DEF GoodStep, GoodBelow

-----------------------------------------------------------------------------
(* Every AppendXxx but AppendJumpDest records one good step in the current *)
(* branch, and none fails.                                                 *)
Recorded ==
    /\ \E br, op : \E len \in Nat : /\ GoodStep(Cur, br, op)
                                   /\ Append1(Opened, br, op, len)
    /\ err' = FALSE /\ hasdynjumps' \in BOOLEAN

LEMMA CurOK ==
  ASSUME IndInv
  PROVE  /\ Branch(Cur) /\ opcount \in Nat /\ pccount \in Nat
         /\ pccount \in Words /\ err = FALSE /\ hasdynjumps \in BOOLEAN
         /\ noinitjump \in BOOLEAN
<1>1. Branch(Cur)
  BY OpenedOK DEF IndInv
<1> QED  BY <1>1, LimitsAssumption DEF IndInv, TypeOK, NoNilSource, Words

LEMMA CoreRefl ==
  ASSUME NEW op \in Opcode
  PROVE  Core(op, op)
BY DEF Core

LEMMA PushStep ==
  ASSUME IndInv, NEW n \in 0 .. 32, NEW v \in Words, AppendPushN(n, v)
  PROVE  Recorded
<1> DEFINE gas == IF n = 0 THEN 2 ELSE 3
           op  == NewOpcode(Cur, "push", v, 0, 1, gas)
           br  == AfterOpcode(Cur, 0, 1)
<1>1. v \in Nat /\ gas \in Nat /\ "push" \in Names /\ Const(v) \in Ref /\ IsConst(Const(v))
  BY LimitsAssumption DEF Words, Names, Const, Ref, IsConst
<1>2. Appended(Cur, op, br, 0, 1)
  <2> HIDE DEF gas
  <2> QED  BY <1>1, CurOK, AppendOpcodeOK
<1>3. /\ ~op.isUnnecessary /\ op.stackStore = <<>> /\ Unadjusted(op)
      /\ ~op.isStaticJump
  BY DEF NewOpcode, Unadjusted
<1>4. /\ Append1(Opened, SetRef(br, 1, Const(v)), op, 1 + n)
      /\ UNCHANGED <<hasdynjumps, err>>
  BY DEF AppendPushN
<1> HIDE DEF op, br
<1>5. Core(op, op) /\ br.heapPos <= br.stackPos - 1
  BY <1>2, CoreRefl DEF Appended
<1>6. GoodBelow(Cur, br, op, 1)
  <2>1. Settled(op)
    BY <1>2, <1>3, <1>5, UnadjustedOK
  <2> QED  BY <1>2, <1>3, <1>5, <2>1, CoreStep
<1>7. GoodStep(Cur, SetRef(br, 1, Const(v)), op)
  BY <1>1, <1>5, <1>6, SetTopStep DEF Known
<1>8. 1 + n \in Nat
  OBVIOUS
<1> QED  BY <1>4, <1>7, <1>8, CurOK DEF Recorded

LEMMA PcStep ==
  ASSUME IndInv, AppendPc
  PROVE  Recorded
<1> DEFINE op  == NewOpcode(Cur, "pc", 0, 0, 1, 2)
           br  == AfterOpcode(Cur, 0, 1)
<1>1. "pc" \in Names /\ Const(pccount) \in Ref /\ IsConst(Const(pccount))
  BY CurOK DEF Names, Const, Ref, IsConst
<1>2. Appended(Cur, op, br, 0, 1)
  BY <1>1, CurOK, AppendOpcodeOK
<1>3. /\ ~op.isUnnecessary /\ op.stackStore = <<>> /\ Unadjusted(op)
      /\ ~op.isStaticJump
  BY DEF NewOpcode, Unadjusted
<1>4. /\ Append1(Opened, SetRef(br, 1, Const(pccount)), op, 1)
      /\ UNCHANGED <<hasdynjumps, err>>
  BY DEF AppendPc
<1> HIDE DEF op, br
<1>5. Core(op, op) /\ br.heapPos <= br.stackPos - 1
  BY <1>2, CoreRefl DEF Appended
<1>6. GoodBelow(Cur, br, op, 1)
  <2>1. Settled(op)
    BY <1>2, <1>3, <1>5, UnadjustedOK
  <2> QED  BY <1>2, <1>3, <1>5, <2>1, CoreStep
<1>7. GoodStep(Cur, SetRef(br, 1, Const(pccount)), op)
  BY <1>1, <1>5, <1>6, SetTopStep DEF Known
<1> QED  BY <1>4, <1>7, CurOK DEF Recorded

(* POP, GAS, DEBUG, callbacks, STOP and INVALID.                           *)
LEMMA FlagStep ==
  ASSUME IndInv, NEW name \in {"pop", "gas", "debug", "call", "stop", "invalid"},
         NEW arg \in Nat, NEW in \in Nat, NEW out \in Nat, NEW gas \in Nat,
         NEW op, NEW flags \in BOOLEAN, NEW len \in Nat,
         \/ op = NewOpcode(Cur, name, arg, in, out, gas)
         \/ op = [NewOpcode(Cur, name, arg, in, out, gas) EXCEPT
                    !.breakGasGroup = flags, !.isExitOpcode = flags],
         Append1(Opened, AfterOpcode(Cur, in, out), op, len),
         UNCHANGED <<hasdynjumps, err>>
  PROVE  Recorded
<1> DEFINE o  == NewOpcode(Cur, name, arg, in, out, gas)
           br == AfterOpcode(Cur, in, out)
<1>1. name \in Names
  BY DEF Names
<1>2. Appended(Cur, o, br, in, out)
  BY <1>1, CurOK, AppendOpcodeOK
<1>3. /\ ~o.isUnnecessary /\ o.stackStore = <<>> /\ o.name = name /\ o.out = out
      /\ Unadjusted(o) /\ ~o.isStaticJump
  BY DEF NewOpcode, Unadjusted
<1>4. o \in Opcode
  BY <1>2 DEF Appended
<1>5. op = o \/ op = [o EXCEPT !.breakGasGroup = flags, !.isExitOpcode = flags]
  OBVIOUS
<1>6. Append1(Opened, br, op, len)
  OBVIOUS
<1> HIDE DEF o, br
<1>7. /\ Core(op, o) /\ ~op.isUnnecessary /\ op.stackStore = <<>>
      /\ op.name = name /\ op.out = out
      /\ Unadjusted(op) /\ ~op.isStaticJump
  <2>1. CASE op = o
    BY <1>3, <1>4, <2>1, CoreRefl
  <2>2. CASE op = [o EXCEPT !.breakGasGroup = flags, !.isExitOpcode = flags]
    <3>1. op \in Opcode
      BY <1>4, <2>2 DEF Opcode
    <3>2. /\ op.id = o.id /\ op.name = o.name /\ op.in = o.in /\ op.out = o.out
          /\ op.arg = o.arg
          /\ op.stackRefs = o.stackRefs /\ op.stackLoad = o.stackLoad
          /\ op.cache = o.cache /\ op.stackCheck = o.stackCheck
          /\ op.stackStore = o.stackStore
          /\ op.isUnnecessary = o.isUnnecessary
          /\ op.stackAddLoad = o.stackAddLoad
          /\ op.skipGasCheck = o.skipGasCheck /\ op.isStaticJump = o.isStaticJump
      BY <1>4, <2>2 DEF Opcode
    <3> QED  BY <1>3, <3>1, <3>2 DEF Core, Unadjusted
  <2> QED  BY <1>5, <2>1, <2>2
<1>8. Results(op) = out
  BY <1>7 DEF Results
<1>9. GoodStep(Cur, br, op)
  <2>1. Settled(op)
    BY <1>2, <1>7, UnadjustedOK
  <2> QED  BY <1>2, <1>7, <1>8, <2>1, PlainStep
<1> QED  BY <1>6, <1>9, CurOK DEF Recorded

(* Arithmetic and logic, folded or not.                                    *)
LEMMA AluStep ==
  ASSUME IndInv, NEW name \in AluOps, AppendAlu(name)
  PROVE  Recorded
<1> DEFINE in   == AluIn(name)
           br   == AfterOpcode(Cur, in, 1)
           o    == NewOpcode(Cur, name, 0, in, 1, AluGas(name))
           args == o.stackRefs
           fold == name \in Foldable /\ \A i \in 1 .. in : IsConst(args[i])
           val  == Fold(name, [i \in 1 .. in |-> args[i][2]])
           op   == [o EXCEPT !.isUnnecessary = fold]
<1>1. /\ name \in Foldable \cup Unfolded /\ in \in Nat \ {0} /\ AluGas(name) \in Nat
      /\ name \in Names /\ name \notin {"push", "pc", "dup", "swap"}
  BY InputsAssumption DEF AluIn, AluGas, Names, Foldable, Unfolded
<1>2. Appended(Cur, o, br, in, 1)
  <2> HIDE DEF in
  <2>1. AluGas(name) \in Nat
    BY <1>1
  <2> QED  BY <1>1, <2>1, CurOK, AppendOpcodeOK
<1>3. /\ Append1(Opened, IF fold THEN SetRef(br, 1, Const(val)) ELSE br, op, 1)
      /\ UNCHANGED <<hasdynjumps, err>>
  BY DEF AppendAlu
<1>4. /\ o.name = name /\ o.out = 1 /\ o.stackStore = <<>>
      /\ o.stackAddLoad = 0 /\ ~o.skipGasCheck /\ ~o.isStaticJump
  BY DEF NewOpcode
<1>5. o \in Opcode /\ DOMAIN args = 1 .. in /\ args \in [1 .. in -> Ref]
      /\ br.heapPos <= br.stackPos - 1
  <2> HIDE DEF o, br
  <2>1. args \in Seq(Ref) /\ DOMAIN args = 1 .. in
    BY <1>2 DEF Appended, Operands
  <2> QED  BY <1>2, <2>1, LenProperties DEF Appended
<1>6. fold \in BOOLEAN
  OBVIOUS
<1> HIDE DEF o, br
<1>7. /\ Core(op, o) /\ op.stackStore = <<>> /\ op.isUnnecessary = fold
      /\ op.name = name /\ op.out = 1 /\ Settled(op)
  <2> HIDE DEF fold
  <2>1. op \in Opcode
    BY <1>5, <1>6 DEF Opcode
  <2>2. /\ op.id = o.id /\ op.name = o.name /\ op.in = o.in /\ op.out = o.out
        /\ op.arg = o.arg
        /\ op.stackRefs = o.stackRefs /\ op.stackLoad = o.stackLoad
        /\ op.cache = o.cache /\ op.stackCheck = o.stackCheck
        /\ op.stackStore = o.stackStore
        /\ op.isUnnecessary = fold
        /\ op.stackAddLoad = o.stackAddLoad
        /\ op.skipGasCheck = o.skipGasCheck /\ op.isStaticJump = o.isStaticJump
    BY <1>5 DEF Opcode
  <2>3. fold => o.stackLoad = 0
    <3>1. in \in 1 .. in /\ o.stackLoad \in Nat
      BY <1>1, <1>5, SMTT(30) DEF Opcode
    <3>2. o.stackLoad > 0 => ~IsConst(args[in])
      BY <1>2 DEF Appended
    <3> QED  BY <3>1, <3>2 DEF fold
  <2> HIDE DEF op, in
  <2>4. Core(op, o) /\ Unadjusted(op)
    BY <1>1, <1>4, <2>1, <2>2 DEF Core, Unadjusted
  <2>5. Settled(op)
    BY <1>1, <1>2, <1>4, <2>2, <2>3, <2>4, UnadjustedOK
  <2> QED  BY <1>4, <2>2, <2>4, <2>5
<1>8. CASE fold
  <2>1. val \in Words
    <3>1. [i \in 1 .. in |-> args[i][2]] \in [1 .. AluIn(name) -> Words]
      <4>1. \A r \in Ref : IsConst(r) => r[2] \in Words
        BY DEF Ref, IsConst
      <4> QED  BY <1>5, <1>8, <4>1
    <3>2. name \in AluOps \cap Foldable
      BY <1>8
    <3> QED  BY <3>1, <3>2, FoldAssumption
  <2>2. Const(val) \in Ref /\ IsConst(Const(val))
    BY <2>1 DEF Const, Ref, IsConst
  <2>3. \A i \in DOMAIN op.stackRefs : IsConst(op.stackRefs[i])
    <3> HIDE DEF op
    <3> QED  BY <1>5, <1>7, <1>8 DEF Core
  <2> HIDE DEF op, val, fold
  <2>4. GoodBelow(Cur, br, op, 1)
    BY <1>2, <1>7, <2>3, <1>1, CoreStep
  <2>5. GoodStep(Cur, SetRef(br, 1, Const(val)), op)
    BY <1>5, <2>2, <2>4, SetTopStep DEF Known
  <2> QED  BY <1>3, <1>8, <2>5, CurOK DEF Recorded
<1>9. CASE ~fold
  <2> HIDE DEF op, fold
  <2>1. Results(op) = 1
    BY <1>1, <1>7 DEF Results
  <2>2. GoodStep(Cur, br, op)
    BY <1>1, <1>2, <1>7, <1>9, <2>1, PlainStep
  <2> QED  BY <1>3, <1>9, <2>2, CurOK DEF Recorded
<1> QED  BY <1>8, <1>9

(* The word n + 1 below the top, when the cache is that deep.              *)
LEMMA SourceOK ==
  ASSUME NEW br0, NEW o, NEW br, NEW in \in Nat, Appended(br0, o, br, in, 1),
         NEW n \in 1 .. 16, n + 1 <= (0 - br.heapPos) + br.stackPos
  PROVE  LET src == RefAt(br, br.stackPos - (n + 1))
         IN  src \in Ref /\ src # NoRef /\ src \in CachedRefs(br0)
<1> DEFINE p == br.stackPos - (n + 1)
<1>1. /\ br.stackPos \in Int /\ br.heapPos \in Int
      /\ DOMAIN br.stackRefs = br.heapPos .. (br.stackPos - 1)
      /\ br.stackRefs \in [DOMAIN br.stackRefs -> Ref]
  BY DEF Appended, Branch, IsBranch, Contiguous
<1>2. p \in DOMAIN br.stackRefs
  BY <1>1
<1>3. p \notin (br.stackPos - 1) .. (br.stackPos - 1)
  BY <1>1
<1>4. RefAt(br, p) = br.stackRefs[p]
  BY <1>2 DEF RefAt
<1>5. br.stackRefs[p] \in Ref /\ br.stackRefs[p] \in CachedRefs(br0)
  BY <1>1, <1>2, <1>3 DEF Appended
<1>6. NoRef \notin Ref
  BY DEF NoRef, Ref
<1> QED  BY <1>4, <1>5, <1>6

(* Adjusting stackAddLoad keeps the core of the opcode.                    *)
LEMMA AddLoadOK ==
  ASSUME NEW o \in Opcode, NEW n \in Nat
  PROVE  LET op == [o EXCEPT !.stackAddLoad = n]
         IN  /\ Core(op, o) /\ op.stackStore = o.stackStore
             /\ op.isUnnecessary = o.isUnnecessary /\ op.stackAddLoad = n
             /\ op.skipGasCheck = o.skipGasCheck /\ op.isStaticJump = o.isStaticJump
<1> DEFINE op == [o EXCEPT !.stackAddLoad = n]
<1>1. op \in Opcode
  BY DEF Opcode
<1>2. /\ op.id = o.id /\ op.name = o.name /\ op.in = o.in /\ op.out = o.out
      /\ op.arg = o.arg
      /\ op.stackRefs = o.stackRefs /\ op.stackLoad = o.stackLoad
      /\ op.cache = o.cache /\ op.stackCheck = o.stackCheck
      /\ op.stackStore = o.stackStore
      /\ op.isUnnecessary = o.isUnnecessary /\ op.stackAddLoad = n
      /\ op.skipGasCheck = o.skipGasCheck /\ op.isStaticJump = o.isStaticJump
  BY DEF Opcode
<1> QED  BY <1>1, <1>2 DEF Core

(* The word they address is the one their operands leave to be fetched.    *)
LEMMA ReachOK ==
  ASSUME NEW br0, Branch(br0), NEW o, NEW br, NEW in \in Nat,
         Appended(br0, o, br, in, 1), NEW n \in 1 .. 16, o.arg = n,
         \/ in = 0 /\ o.name = "dup"
         \/ in = 1 /\ o.name = "swap",
         NEW op, Core(op, o), NEW local, local = (0 - br.heapPos) + br.stackPos,
         op.stackAddLoad = IF n + 1 > local THEN n + 1 - local ELSE 0
  PROVE  Fetches(op)
<1>1. op.stackLoad = o.stackLoad /\ op.cache = o.cache /\ op.name = o.name /\ op.arg = n
  BY DEF Core
<1> DEFINE len == Len(op.cache)
           load == op.stackLoad
<1>2. /\ br.stackPos = br0.stackPos - in + 1 /\ br.heapPos = br0.heapPos - load
      /\ len = br0.stackPos - br0.heapPos
      /\ load = IF in > len THEN in - len ELSE 0
  BY <1>1 DEF Appended, Measured
<1>3. Takes(op) = IF in = 0 THEN n ELSE n + 1
  BY <1>1 DEF Takes
<1> HIDE DEF len, load
<1>4. /\ br0.stackPos \in Int /\ br0.heapPos \in Int /\ br0.heapPos <= br0.stackPos
  BY DEF Branch, IsBranch, Contiguous
<1>5. len \in Nat
  <2>1. len = br0.stackPos - br0.heapPos
    BY <1>2
  <2> QED  BY <1>4, <2>1
<1>6. load \in Nat
  BY <1>2, <1>5
<1>7. local = len - in + 1 + load
  <2>1. /\ br.stackPos = br0.stackPos - in + 1 /\ br.heapPos = br0.heapPos - load
        /\ len = br0.stackPos - br0.heapPos
    BY <1>2
  <2>2. local = (0 - (br0.heapPos - load)) + (br0.stackPos - in + 1)
    BY <2>1
  <2>3. br0.stackPos = len + br0.heapPos
    BY <1>4, <2>1
  <2> QED  BY <1>4, <1>5, <1>6, <2>2, <2>3
<1>8. load + op.stackAddLoad = IF Takes(op) > len THEN Takes(op) - len ELSE 0
  <2>1. CASE in = 0
    BY <1>2, <1>3, <1>5, <1>7, <2>1
  <2>2. CASE in = 1
    <3>1. load = IF len = 0 THEN 1 ELSE 0
      BY <1>2, <1>5, <2>2
    <3>2. op.stackAddLoad = IF n + 1 > len + load THEN n + 1 - (len + load) ELSE 0
      BY <1>5, <1>6, <1>7, <2>2
    <3>3. Takes(op) = n + 1
      BY <1>3, <2>2
    <3> QED  BY <1>5, <3>1, <3>2, <3>3
  <2> QED  BY <2>1, <2>2
<1> QED  BY <1>8 DEF Fetches, len, load

(* DUPn copies a cached reference or loads a word into its result.         *)
LEMMA DupStep ==
  ASSUME IndInv, NEW n \in 1 .. 16, AppendDupN(n)
  PROVE  Recorded
<1> DEFINE br    == AfterOpcode(Cur, 0, 1)
           local == (0 - br.heapPos) + br.stackPos
           src   == RefAt(br, br.stackPos - (n + 1))
           o     == NewOpcode(Cur, "dup", n, 0, 1, 3)
           add   == IF n + 1 > local THEN n + 1 - local ELSE 0
           op    == [o EXCEPT !.stackAddLoad = add]
<1>1. Appended(Cur, o, br, 0, 1)
  <2>1. "dup" \in Names /\ n \in Nat
    BY DEF Names
  <2> QED  BY <2>1, CurOK, AppendOpcodeOK
<1>2. /\ o.name = "dup" /\ o.out = 1 /\ ~o.isUnnecessary /\ o.stackStore = <<>>
      /\ o.arg = n /\ ~o.skipGasCheck /\ ~o.isStaticJump
  BY DEF NewOpcode
<1>3. /\ Append1(Opened, IF n + 1 > local \/ src = NoRef THEN br ELSE SetRef(br, 1, src),
                 op, 1)
      /\ err' = (n + 1 <= local /\ src = NoRef)
      /\ UNCHANGED hasdynjumps
  BY DEF AppendDupN
<1> HIDE DEF br, o
<1>4. local \in Int /\ add \in Nat /\ o \in Opcode /\ br.heapPos <= br.stackPos - 1
  <2>1. br.stackPos \in Int /\ br.heapPos \in Int
    BY <1>1 DEF Appended, Branch, IsBranch
  <2>2. o \in Opcode /\ br.heapPos <= br.stackPos - 1
    BY <1>1 DEF Appended
  <2> QED  BY <2>1, <2>2
<1> HIDE DEF add
<1>5. /\ Core(op, o) /\ op.stackStore = <<>> /\ ~op.isUnnecessary
      /\ op.stackAddLoad = add /\ ~op.skipGasCheck /\ ~op.isStaticJump
  BY <1>2, <1>4, AddLoadOK
<1> HIDE DEF op
<1>10. Settled(op)
  <2>1. Fetches(op)
    BY <1>1, <1>2, <1>4, <1>5, CurOK, ReachOK DEF add
  <2> QED  BY <1>5, <2>1 DEF Settled
<1>6. op.name = "dup" /\ op.out = 1
  BY <1>2, <1>5 DEF Core
<1>7. CASE n + 1 > local
  <2>1. add > 0
    BY <1>4, <1>7 DEF add
  <2>2. Results(op) = 1
    BY <1>5, <1>6, <2>1 DEF Results
  <2>3. GoodStep(Cur, br, op)
    BY <1>1, <1>5, <1>6, <1>10, <2>2, PlainStep
  <2>4. ~(n + 1 <= local)
    BY <1>4, <1>7
  <2> HIDE DEF local, src
  <2> QED  BY <1>3, <1>7, <2>3, <2>4, CurOK DEF Recorded
<1>8. CASE ~(n + 1 > local)
  <2>1. n + 1 <= local
    BY <1>4, <1>8
  <2>2. src \in Ref /\ src # NoRef /\ src \in CachedRefs(Cur)
    BY <1>1, <2>1, SourceOK
  <2> HIDE DEF local, src
  <2>3. GoodBelow(Cur, br, op, 1)
    BY <1>1, <1>5, <1>10, CoreStep
  <2>4. GoodStep(Cur, SetRef(br, 1, src), op)
    BY <1>4, <2>2, <2>3, SetTopStep DEF Known
  <2> QED  BY <1>3, <1>8, <2>2, <2>4, CurOK DEF Recorded
<1> QED  BY <1>7, <1>8

(* SWAPn exchanges two cached references, or exchanges the top with a word *)
(* of the memory stack.                                                    *)
LEMMA SwapStep ==
  ASSUME IndInv, NEW n \in 1 .. 16, AppendSwapN(n)
  PROVE  Recorded
<1> DEFINE br    == AfterOpcode(Cur, 1, 1)
           local == (0 - br.heapPos) + br.stackPos
           src   == RefAt(br, br.stackPos - (n + 1))
           o     == NewOpcode(Cur, "swap", n, 1, 1, 3)
           add   == IF n + 1 > local THEN n + 1 - local ELSE 0
           op    == [o EXCEPT !.stackAddLoad = add]
           top   == op.stackRefs[1]
           sb    == SetRef(br, 1, src)
<1>1. Appended(Cur, o, br, 1, 1)
  <2>1. "swap" \in Names /\ n \in Nat
    BY DEF Names
  <2> QED  BY <2>1, CurOK, AppendOpcodeOK
<1>2. /\ o.name = "swap" /\ o.out = 1 /\ ~o.isUnnecessary /\ o.stackStore = <<>>
      /\ o.arg = n /\ ~o.skipGasCheck /\ ~o.isStaticJump
  BY DEF NewOpcode
<1>3. /\ Append1(Opened,
                 IF n + 1 > local THEN br
                 ELSE IF src = NoRef THEN SetRef(br, 1, top)
                 ELSE SetRef(sb, n + 1, top),
                 op, 1)
      /\ err' = (n + 1 <= local /\ src = NoRef)
      /\ UNCHANGED hasdynjumps
  BY DEF AppendSwapN
<1> HIDE DEF br, o, sb
<1>4. /\ local \in Int /\ local = br.stackPos - br.heapPos
      /\ add \in Nat /\ o \in Opcode /\ br.heapPos <= br.stackPos - 1
  <2>1. br.stackPos \in Int /\ br.heapPos \in Int
    BY <1>1 DEF Appended, Branch, IsBranch
  <2>2. o \in Opcode /\ br.heapPos <= br.stackPos - 1
    BY <1>1 DEF Appended
  <2> QED  BY <2>1, <2>2
<1> HIDE DEF add
<1>5. /\ Core(op, o) /\ op.stackStore = <<>> /\ ~op.isUnnecessary
      /\ op.stackAddLoad = add /\ ~op.skipGasCheck /\ ~op.isStaticJump
  BY <1>2, <1>4, AddLoadOK
<1> HIDE DEF op
<1>10. Settled(op)
  <2>1. Fetches(op)
    BY <1>1, <1>2, <1>4, <1>5, CurOK, ReachOK DEF add
  <2> QED  BY <1>5, <2>1 DEF Settled
<1>6. op.name = "swap" /\ op.out = 1
  BY <1>2, <1>5 DEF Core
<1>7. CASE n + 1 > local
  <2>1. add > 0
    BY <1>4, <1>7 DEF add
  <2>2. Results(op) = 1
    BY <1>5, <1>6, <2>1 DEF Results
  <2>3. GoodStep(Cur, br, op)
    BY <1>1, <1>5, <1>6, <1>10, <2>2, PlainStep
  <2>4. ~(n + 1 <= local)
    BY <1>4, <1>7
  <2> HIDE DEF local, src
  <2> QED  BY <1>3, <1>7, <2>3, <2>4, CurOK DEF Recorded
<1>8. CASE ~(n + 1 > local)
  <2>1. n + 1 <= local
    BY <1>4, <1>8
  <2>2. src \in Ref /\ src # NoRef /\ src \in CachedRefs(Cur)
    BY <1>1, <2>1, SourceOK
  <2>3. GoodBelow(Cur, br, op, 1)
    BY <1>1, <1>5, <1>10, CoreStep
  <2>4. top \in Ref /\ Known(Cur, op, top)
    <3>1. op.stackRefs \in Seq(Ref) /\ DOMAIN op.stackRefs = 1 .. 1
      BY <1>1, <1>5 DEF Appended, Operands, Core
    <3> QED  BY <2>3, <3>1, LenProperties DEF GoodBelow
  <2> HIDE DEF src, top
  <2>5. /\ GoodStep(Cur, sb, op)
        /\ sb.stackPos = br.stackPos /\ sb.heapPos = br.heapPos
    BY <1>4, <2>2, <2>3, SetTopStep DEF Known, sb
  <2>6. n + 1 \in 1 .. (sb.stackPos - sb.heapPos)
    BY <1>4, <2>1, <2>5
  <2>7. GoodStep(Cur, SetRef(sb, n + 1, top), op)
    BY <2>4, <2>5, <2>6, SetStep
  <2> HIDE DEF local
  <2> QED  BY <1>3, <1>8, <2>2, <2>7, CurOK DEF Recorded
<1> QED  BY <1>7, <1>8

(* JUMP and JUMPI store the cache that is left below their operands.       *)
LEMMA JumpStep ==
  ASSUME IndInv, NEW name \in {"jump", "jumpi"}, NEW in \in Nat, NEW gas \in Nat,
         AppendJumpOp(name, in, gas), in > 0
  PROVE  Recorded
<1> DEFINE br  == AfterOpcode(Cur, in, 0)
           o   == NewOpcode(Cur, name, 0, in, 0, gas)
           dst == o.stackRefs[1]
           st  == StackStore(br)
           pc  == IF IsConst(dst) THEN JumpPc(dst[2]) ELSE 0
           op  == [o EXCEPT !.stackStore = st, !.breakGasGroup = TRUE,
                            !.isStaticJump = IsConst(dst), !.staticJumpPc = pc]
<1>1. Appended(Cur, o, br, in, 0)
  <2>1. name \in Names /\ 0 \in Nat
    BY DEF Names
  <2> QED  BY <2>1, CurOK, AppendOpcodeOK
<1>2. /\ o.name = name /\ o.out = 0 /\ ~o.isUnnecessary /\ Unadjusted(o)
  BY DEF NewOpcode, Unadjusted
<1>3. /\ Append1(Opened, br, op, 1)
      /\ hasdynjumps' = (hasdynjumps \/ ~IsConst(dst))
      /\ UNCHANGED err
  BY DEF AppendJumpOp
<1> HIDE DEF br, o
<1>4. o \in Opcode /\ Branch(br) /\ dst \in Ref
  <2>1. o.stackRefs \in Seq(Ref) /\ 1 \in DOMAIN o.stackRefs
    BY <1>1 DEF Appended, Operands
  <2> QED  BY <1>1, <2>1, LenProperties DEF Appended
<1>5. pc \in 0 .. PcLimit - 1
  <2>1. IsConst(dst) => dst[2] \in Nat
    BY <1>4, LimitsAssumption DEF Ref, IsConst, Words
  <2>2. ASSUME NEW v \in Nat PROVE JumpPc(v) \in 0 .. PcLimit - 1
    BY LimitsAssumption DEF JumpPc
  <2> QED  BY <2>1, <2>2, LimitsAssumption
<1>6. st \in Seq(Ref) /\ \A i \in DOMAIN st : st[i] \in CachedRefs(br)
  BY <1>4, StackStoreOK DEF CachedRefs
<1>7. CachedRefs(br) \subseteq CachedRefs(Cur)
  <2>1. br.stackPos \in Int
    BY <1>4 DEF Branch, IsBranch
  <2> QED  BY <1>1, <2>1 DEF Appended, CachedRefs
<1>8. IsConst(dst) \in BOOLEAN
  BY DEF IsConst
<1> HIDE DEF st, pc
<1>9. /\ Core(op, o) /\ op.stackStore = st /\ ~op.isUnnecessary
      /\ op.name = name /\ op.out = 0 /\ Settled(op)
  <2> DEFINE static == IsConst(dst)
  <2>1. static \in BOOLEAN
    BY <1>8
  <2> HIDE DEF static, dst
  <2>2. op \in Opcode
    BY <1>4, <1>5, <1>6, <2>1 DEF Opcode, static
  <2>3. /\ op.id = o.id /\ op.name = o.name /\ op.in = o.in /\ op.out = o.out
        /\ op.arg = o.arg
        /\ op.stackRefs = o.stackRefs /\ op.stackLoad = o.stackLoad
        /\ op.cache = o.cache /\ op.stackCheck = o.stackCheck
        /\ op.stackStore = st
        /\ op.isUnnecessary = o.isUnnecessary
        /\ op.stackAddLoad = o.stackAddLoad /\ op.skipGasCheck = o.skipGasCheck
        /\ op.isStaticJump = static /\ op.staticJumpPc = pc
    BY <1>4 DEF Opcode, static
  <2>4. op.isStaticJump => /\ IsConst(op.stackRefs[1])
                           /\ op.staticJumpPc = JumpPc(op.stackRefs[1][2])
    BY <2>3 DEF static, pc, dst
  <2> HIDE DEF op
  <2>5. Core(op, o) /\ Unadjusted(op)
    BY <1>2, <2>2, <2>3 DEF Core, Unadjusted
  <2>6. Settled(op)
    BY <1>1, <1>2, <2>3, <2>4, <2>5, UnadjustedOK
  <2> QED  BY <1>2, <2>3, <2>5, <2>6
<1> HIDE DEF op
<1>10. Results(op) = 0
  BY <1>9 DEF Results
<1>11. GoodStep(Cur, br, op)
  <2>1. \A i \in DOMAIN op.stackStore : Known(Cur, op, op.stackStore[i])
    BY <1>6, <1>7, <1>9 DEF Known
  <2> QED  BY <1>1, <1>9, <1>10, <2>1, PlainStep
<1>12. hasdynjumps' \in BOOLEAN
  BY <1>3, <1>8, CurOK
<1> HIDE DEF dst
<1> QED  BY <1>3, <1>11, <1>12, CurOK DEF Recorded

LEMMA NextStep ==
  ASSUME IndInv, Next
  PROVE  Recorded \/ AppendNop \/ AppendJumpDest
<1>1. CASE \E p \in Pushes : AppendPushN(p[1], p[2])
  <2>1. \A p \in Pushes : p[1] \in 0 .. 32 /\ p[2] \in Words
    BY InputsAssumption
  <2> QED  BY <1>1, <2>1, PushStep
<1>2. CASE \E n \in Depths : AppendDupN(n)
  BY <1>2, InputsAssumption, DupStep
<1>3. CASE \E n \in Depths : AppendSwapN(n)
  BY <1>3, InputsAssumption, SwapStep
<1>4. CASE AppendPop
  BY <1>4, FlagStep DEF AppendPop
<1>5. CASE \E name \in AluOps : AppendAlu(name)
  BY <1>5, AluStep
<1>6. CASE \E h \in HighOps : AppendHighOpcode(h)
  <2>1. PICK h \in HighOps : AppendHighOpcode(h)
    BY <1>6
  <2>2. /\ h.op \in Nat /\ h.in \in Nat /\ h.out \in Nat /\ h.gas \in Nat
        /\ h.stop \in BOOLEAN
    BY InputsAssumption
  <2> DEFINE op == [NewOpcode(Cur, "call", h.op, h.in, h.out, h.gas) EXCEPT
                      !.breakGasGroup = h.stop, !.isExitOpcode = h.stop]
  <2>3. /\ Append1(Opened, AfterOpcode(Cur, h.in, h.out), op, 1)
        /\ UNCHANGED <<hasdynjumps, err>>
    BY <2>1 DEF AppendHighOpcode
  <2> QED  BY <2>2, <2>3, FlagStep
<1>7. CASE AppendDebugOpcode
  BY <1>7, FlagStep DEF AppendDebugOpcode
<1>8. CASE AppendJump \/ AppendJumpI
  BY <1>8, JumpStep DEF AppendJump, AppendJumpI
<1>9. CASE AppendStop \/ AppendInvalid
  <2>1. ASSUME NEW name \in {"stop", "invalid"}, AppendExit(name)
        PROVE  Recorded
    <3> DEFINE op == [NewOpcode(Cur, name, 0, 0, 0, 0) EXCEPT
                        !.breakGasGroup = TRUE, !.isExitOpcode = TRUE]
    <3>1. /\ Append1(Opened, AfterOpcode(Cur, 0, 0), op, 1)
          /\ UNCHANGED <<hasdynjumps, err>>
      BY <2>1 DEF AppendExit
    <3> QED  BY <3>1, FlagStep
  <2> QED  BY <1>9, <2>1 DEF AppendStop, AppendInvalid
<1>10. CASE AppendPc
  BY <1>10, PcStep
<1>11. CASE AppendGas
  BY <1>11, FlagStep DEF AppendGas
<1> QED  BY <1>1, <1>2, <1>3, <1>4, <1>5, <1>6, <1>7, <1>8, <1>9, <1>10, <1>11
         DEF Next

-----------------------------------------------------------------------------
(* The invariants.                                                         *)

(* A sequence with a last element replaced or added.                       *)
LEMMA RecordedInv ==
  ASSUME IndInv, Recorded
  PROVE  IndInv'
<1>1. PICK br, op : \E len \in Nat : GoodStep(Cur, br, op) /\ Append1(Opened, br, op, len)
  BY DEF Recorded
<1>2. PICK len \in Nat : GoodStep(Cur, br, op) /\ Append1(Opened, br, op, len)
  BY <1>1
<1> DEFINE nb == [br EXCEPT !.opcodes = Append(@, op)]
           L  == Len(Opened)
<1>3. /\ CanAppend(len) /\ branches' = [Opened EXCEPT ![L] = nb]
      /\ pccount' = pccount + len /\ opcount' = opcount + 1
      /\ noinitjump' = (noinitjump \/ Opened # branches)
  BY <1>2 DEF Append1
<1>4. Branch(nb)
  BY <1>2, RecordOK DEF GoodStep, GoodBelow
<1>5. /\ L \in Nat \ {0} /\ DOMAIN Opened = 1 .. L
      /\ Opened \in [1 .. L -> {Opened[i] : i \in DOMAIN Opened}]
      /\ \A i \in DOMAIN Opened : Branch(Opened[i])
  BY OpenedOK DEF IndInv
<1> HIDE DEF nb, L
<1>6. /\ DOMAIN branches' = 1 .. L
      /\ \A i \in 1 .. L : branches'[i] = IF i = L THEN nb ELSE Opened[i]
  BY <1>3, <1>5
<1>7. \A i \in DOMAIN branches' : Branch(branches'[i])
  BY <1>4, <1>5, <1>6
<1>8. branches' \in Seq({branches'[i] : i \in DOMAIN branches'})
  <2> DEFINE S == {branches'[i] : i \in DOMAIN branches'}
  <2>1. branches' \in [1 .. L -> S]
    BY <1>3, <1>5, <1>6
  <2> HIDE DEF S
  <2>2. branches' \in Seq(S)
    BY <1>5, <2>1, SeqDef
  <2> QED  BY <2>2 DEF S
<1>9. pccount' \in 0 .. MaxPc /\ opcount' \in 0 .. MaxOps
  BY <1>3, CurOK, LimitsAssumption DEF CanAppend
<1>10. noinitjump' \in BOOLEAN
  BY <1>3, CurOK
<1>11. \A i \in DOMAIN branches' : IsBranch(branches'[i]) /\ Contiguous(branches'[i])
  BY <1>7 DEF Branch
<1>12. TypeOK'
  BY <1>8, <1>9, <1>10, <1>11 DEF Recorded, TypeOK
<1>13. CacheContiguous'
  BY <1>11 DEF CacheContiguous
<1> QED  BY <1>12, <1>13 DEF IndInv, NoNilSource, Recorded

(* JUMPDEST records a good step in a branch of its own.                    *)
With(br, op) == [br EXCEPT !.opcodes = Append(@, op)]
LEMMA JumpDestStep ==
  ASSUME IndInv, AppendJumpDest
  PROVE  \E br, op : /\ GoodStep(NewBranch(pccount), br, op)
                     /\ branches' = Append(branches, With(br, op))
<1> DEFINE b0 == NewBranch(pccount)
           br == AfterOpcode(b0, 0, 0)
           op == NewOpcode(b0, "jumpdest", 0, 0, 0, 1)
<1>1. Branch(b0) /\ b0.opcodes = <<>>
  BY CurOK, NewBranchOK
<1>2. branches' = Append(branches, [br EXCEPT !.opcodes = <<op>>])
  BY DEF AppendJumpDest
<1>3. /\ ~op.isUnnecessary /\ op.stackStore = <<>> /\ Unadjusted(op)
      /\ ~op.isStaticJump /\ op.out = 0 /\ op.name = "jumpdest"
  BY DEF NewOpcode, Unadjusted
<1> HIDE DEF b0
<1>4. Appended(b0, op, br, 0, 0)
  <2>1. "jumpdest" \in Names
    BY DEF Names
  <2> QED  BY <1>1, <2>1, CurOK, AppendOpcodeOK
<1> HIDE DEF op, br
<1>5. Core(op, op) /\ Results(op) = 0
  BY <1>3, <1>4, CoreRefl DEF Appended, Results
<1>6. Settled(op)
  BY <1>3, <1>4, <1>5, UnadjustedOK
<1>7. GoodStep(b0, br, op)
  BY <1>3, <1>4, <1>5, <1>6, PlainStep
<1>8. [br EXCEPT !.opcodes = <<op>>] = With(br, op)
  <2>1. br.opcodes = <<>>
    BY <1>1, <1>4 DEF Appended
  <2>2. Append(br.opcodes, op) = <<op>>
    BY <2>1
  <2> QED  BY <2>2 DEF With
<1>9. GoodStep(b0, br, op) /\ branches' = Append(branches, With(br, op))
  BY <1>2, <1>7, <1>8
<1> QED  BY <1>9 DEF b0

LEMMA AppendOK ==
  ASSUME NEW s, s \in Seq({s[i] : i \in DOMAIN s}), NEW e
  PROVE  /\ Len(s) \in Nat /\ DOMAIN Append(s, e) = 1 .. Len(s) + 1
         /\ \A i \in 1 .. Len(s) : Append(s, e)[i] = s[i]
         /\ Append(s, e)[Len(s) + 1] = e
         /\ Append(s, e) \in Seq({Append(s, e)[i] : i \in DOMAIN Append(s, e)})
         /\ DOMAIN s = 1 .. Len(s)
<1> DEFINE S == {s[i] : i \in DOMAIN s}
           T == S \cup {e}
<1>1. s \in Seq(T)
  BY SeqMonotonic
<1> HIDE DEF S, T
<1>2. e \in T
  BY DEF T
<1>3. /\ Append(s, e) \in Seq(T) /\ Len(Append(s, e)) = Len(s) + 1
      /\ \A i \in 1 .. Len(s) : Append(s, e)[i] = s[i]
      /\ Append(s, e)[Len(s) + 1] = e
  BY <1>1, <1>2, AppendProperties
<1>4. Len(s) \in Nat /\ DOMAIN s = 1 .. Len(s)
  BY <1>1, LenProperties
<1>5. DOMAIN Append(s, e) = 1 .. Len(s) + 1
  BY <1>3, LenProperties
<1> DEFINE a == Append(s, e)
           R == {a[i] : i \in DOMAIN a}
<1>6. a \in [1 .. Len(s) + 1 -> R]
  BY <1>3, <1>5, LenProperties
<1>7. a \in Seq(R)
  <2> HIDE DEF R, a
  <2>1. Len(s) + 1 \in Nat
    BY <1>4
  <2> QED  BY <2>1, <1>6, SeqDef
<1> QED  BY <1>3, <1>4, <1>5, <1>7

LEMMA JumpDestInv ==
  ASSUME IndInv, AppendJumpDest
  PROVE  IndInv'
<1>1. PICK nb : Branch(nb) /\ branches' = Append(branches, nb)
  <2>1. PICK br, op : /\ GoodStep(NewBranch(pccount), br, op)
                     /\ branches' = Append(branches, With(br, op))
    BY JumpDestStep
  <2>2. Branch(With(br, op))
    BY <2>1, RecordOK DEF GoodStep, GoodBelow, With
  <2> QED  BY <2>1, <2>2
<1>2. /\ CanAppend(1) /\ pccount' = pccount + 1 /\ opcount' = opcount + 1
      /\ UNCHANGED <<noinitjump, hasdynjumps, err>>
  BY DEF AppendJumpDest
<1>3. branches \in Seq({branches[i] : i \in DOMAIN branches})
  BY DEF IndInv, TypeOK
<1>4. /\ Len(branches) \in Nat /\ DOMAIN branches' = 1 .. Len(branches) + 1
      /\ \A i \in 1 .. Len(branches) : branches'[i] = branches[i]
      /\ branches'[Len(branches) + 1] = nb
      /\ branches' \in Seq({branches'[i] : i \in DOMAIN branches'})
      /\ DOMAIN branches = 1 .. Len(branches)
  BY <1>1, <1>3, AppendOK
<1>5. \A i \in DOMAIN branches : Branch(branches[i])
  BY DEF IndInv, TypeOK, CacheContiguous, Branch
<1>6. \A i \in DOMAIN branches' : IsBranch(branches'[i]) /\ Contiguous(branches'[i])
  BY <1>1, <1>4, <1>5 DEF Branch
<1>7. pccount' \in 0 .. MaxPc /\ opcount' \in 0 .. MaxOps
  BY <1>2, CurOK, LimitsAssumption DEF CanAppend
<1>8. TypeOK'
  BY <1>2, <1>4, <1>6, <1>7 DEF IndInv, TypeOK
<1>9. CacheContiguous'
  BY <1>6 DEF CacheContiguous
<1> QED  BY <1>2, <1>8, <1>9 DEF IndInv, NoNilSource

LEMMA NopInv ==
  ASSUME IndInv, AppendNop
  PROVE  IndInv'
<1>1. pccount' \in 0 .. MaxPc
  BY LimitsAssumption DEF IndInv, TypeOK, AppendNop
<1> QED  BY <1>1 DEF IndInv, TypeOK, CacheContiguous, NoNilSource, AppendNop

LEMMA InitInv == Init => IndInv
<1> SUFFICES ASSUME Init PROVE IndInv
  OBVIOUS
<1>1. branches \in Seq({branches[i] : i \in DOMAIN branches}) /\ DOMAIN branches = {}
  BY EmptySeq DEF Init
<1>2. 0 \in 0 .. MaxPc /\ 0 \in 0 .. MaxOps
  BY LimitsAssumption
<1> QED  BY <1>1, <1>2 DEF Init, IndInv, TypeOK, CacheContiguous, NoNilSource

LEMMA StepInv == IndInv /\ [Next]_vars => IndInv'
<1> SUFFICES ASSUME IndInv, [Next]_vars PROVE IndInv'
  OBVIOUS
<1>1. CASE Next
  BY <1>1, NextStep, RecordedInv, NopInv, JumpDestInv
<1>2. CASE UNCHANGED vars
  BY <1>2 DEF vars, IndInv, TypeOK, CacheContiguous, NoNilSource
<1> QED  BY <1>1, <1>2

LEMMA Inductive == Spec => []IndInv
<1> QED  BY InitInv, StepInv, PTL DEF Spec

(* The builder's fields keep their types, whatever opcodes are appended:   *)
(* in particular no cached or stored reference is ever nil.                *)
THEOREM TypeCorrect == Spec => []TypeOK
<1>1. IndInv => TypeOK
  BY DEF IndInv
<1> QED  BY <1>1, Inductive, PTL

(* Every branch's cache is the interval heapPos .. stackPos - 1 for ever.  *)
THEOREM CacheIsInterval == Spec => []CacheContiguous
<1>1. IndInv => CacheContiguous
  BY DEF IndInv
<1> QED  BY <1>1, Inductive, PTL

(* AppendDupN and AppendSwapN never fail.                                  *)
THEOREM NeverFails == Spec => []NoNilSource
<1>1. IndInv => NoNilSource
  BY DEF IndInv
<1> QED  BY <1>1, Inductive, PTL

-----------------------------------------------------------------------------
(* Every step leaves a branch alone or records one good step in it or in a *)
(* new branch.                                                             *)
Grown(nb, old) ==
    \E b0, br, op : /\ Branch(b0) /\ GoodStep(b0, br, op) /\ nb = With(br, op)
                    /\ b0 \in old \/ \E pc \in Nat : b0 = NewBranch(pc)

LEMMA Grows ==
  ASSUME IndInv, [Next]_vars
  PROVE  \A i \in DOMAIN branches' :
            \/ i \in DOMAIN branches /\ branches'[i] = branches[i]
            \/ Grown(branches'[i], {branches[j] : j \in DOMAIN branches})
<1> DEFINE old == {branches[j] : j \in DOMAIN branches}
<1>1. CASE Recorded
  <2>1. PICK br, op : \E len \in Nat : GoodStep(Cur, br, op) /\ Append1(Opened, br, op, len)
    BY <1>1 DEF Recorded
  <2> DEFINE L  == Len(Opened)
  <2>2. GoodStep(Cur, br, op) /\ branches' = [Opened EXCEPT ![L] = With(br, op)]
    BY <2>1 DEF Append1, With
  <2>3. /\ L \in Nat \ {0} /\ DOMAIN Opened = 1 .. L
        /\ Opened \in [1 .. L -> {Opened[i] : i \in DOMAIN Opened}]
        /\ Branch(Cur)
    BY OpenedOK DEF IndInv
  <2>4. Cur = Opened[L]
    BY DEF Cur
  <2> HIDE DEF L
  <2>5. /\ DOMAIN branches' = 1 .. L
        /\ \A i \in 1 .. L : branches'[i] = IF i = L THEN With(br, op) ELSE Opened[i]
    BY <2>2, <2>3
  <2>6. CASE branches = <<>>
    <3>1. Opened = <<NewBranch(0)>> /\ L = 1 /\ Cur = NewBranch(0)
      BY <2>6 DEF Opened, L, Cur
    <3>2. Grown(With(br, op), old)
      BY <2>2, <2>3, <3>1 DEF Grown
    <3> QED  BY <2>5, <3>1, <3>2
  <2>7. CASE branches # <<>>
    <3>1. Opened = branches /\ Cur \in old
      BY <2>3, <2>4, <2>7 DEF Opened
    <3>2. Grown(With(br, op), old)
      BY <2>2, <2>3, <3>1 DEF Grown
    <3> QED  BY <2>3, <2>5, <3>1, <3>2
  <2> QED  BY <2>6, <2>7
<1>2. CASE AppendJumpDest
  <2>1. PICK br, op : /\ GoodStep(NewBranch(pccount), br, op)
                     /\ branches' = Append(branches, With(br, op))
    BY <1>2, JumpDestStep
  <2>2. branches \in Seq({branches[i] : i \in DOMAIN branches})
    BY DEF IndInv, TypeOK
  <2>3. /\ Len(branches) \in Nat /\ DOMAIN branches' = 1 .. Len(branches) + 1
        /\ \A i \in 1 .. Len(branches) : branches'[i] = branches[i]
        /\ branches'[Len(branches) + 1] = With(br, op)
        /\ DOMAIN branches = 1 .. Len(branches)
    BY <2>1, <2>2, AppendOK
  <2>4. Grown(With(br, op), old)
    BY <2>1, CurOK, NewBranchOK DEF Grown
  <2> QED  BY <2>3, <2>4
<1>3. CASE AppendNop \/ UNCHANGED vars
  BY <1>3 DEF AppendNop, vars
<1> QED  BY <1>1, <1>2, <1>3, NextStep

-----------------------------------------------------------------------------
(* Registers are defined before they are used.                             *)

LEMMA GrowSSA ==
  ASSUME NEW b0, Branch(b0), SSA(b0), NEW br, NEW op, GoodStep(b0, br, op)
  PROVE  SSA(With(br, op))
<1> DEFINE nb == With(br, op)
           N  == Len(b0.opcodes)
<1>1. /\ nb.opcodes = Append(b0.opcodes, op) /\ nb.stackRefs = br.stackRefs
      /\ op \in Opcode
  BY RecordOK DEF GoodStep, GoodBelow, With
<1>2. b0.opcodes \in Seq(Opcode)
  BY DEF Branch, IsBranch
<1>3. /\ N \in Nat /\ DOMAIN b0.opcodes = 1 .. N
      /\ Len(nb.opcodes) = N + 1 /\ DOMAIN nb.opcodes = 1 .. N + 1
      /\ \A i \in 1 .. N : nb.opcodes[i] = b0.opcodes[i]
      /\ nb.opcodes[N + 1] = op
  BY <1>1, <1>2, AppendProperties, LenProperties
<1> HIDE DEF nb, N
<1>4. ASSUME NEW n \in 0 .. N
      PROVE  DefinedUpTo(nb, n) = DefinedUpTo(b0, n)
  <2>1. \A i \in 1 .. n : nb.opcodes[i] = b0.opcodes[i]
    BY <1>3
  <2> QED  BY <2>1 DEF DefinedUpTo
<1>5. /\ DefinedUpTo(nb, N) \subseteq DefinedUpTo(nb, N + 1)
      /\ Defines(op) \subseteq DefinedUpTo(nb, N + 1)
  <2>1. 1 .. N \subseteq 1 .. N + 1 /\ N + 1 \in 1 .. N + 1
    BY <1>3
  <2> QED  BY <1>3, <2>1 DEF DefinedUpTo
<1>6. \A r \in CachedRefs(b0) : Usable(nb, N, r)
  <2>1. \A r \in CachedRefs(b0) : Usable(b0, N, r)
    BY DEF SSA, CachedRefs, N
  <2>2. DefinedUpTo(nb, N) = DefinedUpTo(b0, N)
    BY <1>3, <1>4
  <2> QED  BY <2>1, <2>2 DEF Usable
<1>7. \A r : Known(b0, op, r) => Usable(nb, N + 1, r)
  BY <1>5, <1>6 DEF Known, Usable
<1>8. ASSUME NEW n \in 1 .. N + 1
      PROVE  /\ \A i \in DOMAIN nb.opcodes[n].stackRefs :
                   Usable(nb, n, nb.opcodes[n].stackRefs[i])
             /\ \A i \in DOMAIN nb.opcodes[n].stackStore :
                   Usable(nb, n, nb.opcodes[n].stackStore[i])
             /\ \A i \in DOMAIN nb.opcodes[n].cache :
                   Usable(nb, n - 1, nb.opcodes[n].cache[i])
  <2>1. CASE n \in 1 .. N
    <3>1. nb.opcodes[n] = b0.opcodes[n] /\ n \in DOMAIN b0.opcodes
      BY <1>3, <2>1
    <3>2. /\ DefinedUpTo(nb, n) = DefinedUpTo(b0, n)
          /\ DefinedUpTo(nb, n - 1) = DefinedUpTo(b0, n - 1)
      <4>1. n \in 0 .. N /\ n - 1 \in 0 .. N
        BY <1>3, <2>1
      <4> QED  BY <4>1, <1>4
    <3> QED  BY <3>1, <3>2 DEF SSA, Usable
  <2>2. CASE n = N + 1
    <3>1. nb.opcodes[n] = op /\ n - 1 = N
      BY <1>3, <2>2
    <3>2. /\ \A i \in DOMAIN op.stackRefs : Known(b0, op, op.stackRefs[i])
          /\ \A i \in DOMAIN op.stackStore : Known(b0, op, op.stackStore[i])
          /\ \A i \in DOMAIN op.cache : op.cache[i] \in CachedRefs(b0)
      BY DEF GoodStep, GoodBelow
    <3> QED  BY <1>6, <1>7, <2>2, <3>1, <3>2
  <2> QED  BY <1>3, <2>1, <2>2
<1>9. \A p \in DOMAIN nb.stackRefs : Usable(nb, Len(nb.opcodes), nb.stackRefs[p])
  <2>1. br.stackPos \in Int
    BY DEF GoodStep, GoodBelow, Branch, IsBranch
  <2>2. \A p \in DOMAIN br.stackRefs : Known(b0, op, br.stackRefs[p])
    BY <2>1 DEF GoodStep, GoodBelow
  <2> QED  BY <1>1, <1>3, <1>7, <2>2
<1> QED  BY <1>3, <1>8, <1>9 DEF SSA, nb

LEMMA StepSSA ==
  ASSUME IndInv, DefinedBeforeUse, [Next]_vars
  PROVE  DefinedBeforeUse'
<1>1. ASSUME NEW pc
      PROVE  SSA(NewBranch(pc))
  BY DEF SSA, NewBranch
<1>2. \A i \in DOMAIN branches' : SSA(branches'[i])
  BY <1>1, Grows, GrowSSA DEF Grown, DefinedBeforeUse
<1> QED  BY <1>2 DEF DefinedBeforeUse

(* The emitted code is in SSA form: every register it reads -- as operand, *)
(* in the store before a jump, in the store at the end of a branch -- is   *)
(* defined by an opcode emitted earlier in the same branch.                *)
THEOREM RegistersDefined == Spec => []DefinedBeforeUse
<1>1. Init => DefinedBeforeUse
  BY DEF Init, DefinedBeforeUse
<1>2. IndInv /\ DefinedBeforeUse /\ [Next]_vars => DefinedBeforeUse'
  BY StepSSA
<1> QED  BY <1>1, <1>2, Inductive, PTL DEF Spec

-----------------------------------------------------------------------------
(* The checked heights of a branch increase.  They also stay below the     *)
(* branch's maximum, which is why the next one exceeds them all.           *)

Rising(br) ==
    /\ \A n \in DOMAIN br.opcodes : br.opcodes[n].stackCheck <= br.stackMax
    /\ \A m, n \in DOMAIN br.opcodes :
          (m < n /\ br.opcodes[m].stackCheck > 0 /\ br.opcodes[n].stackCheck > 0)
              => br.opcodes[m].stackCheck < br.opcodes[n].stackCheck
AllRising == \A i \in DOMAIN branches : Rising(branches[i])

LEMMA GrowRising ==
  ASSUME NEW b0, Branch(b0), Rising(b0), NEW br, NEW op, GoodStep(b0, br, op)
  PROVE  Rising(With(br, op))
<1> DEFINE nb == With(br, op)
           N  == Len(b0.opcodes)
<1>1. /\ nb.opcodes = Append(b0.opcodes, op) /\ nb.stackMax = br.stackMax
      /\ op \in Opcode
  BY RecordOK DEF GoodStep, GoodBelow, With
<1>2. b0.opcodes \in Seq(Opcode) /\ b0.stackMax \in Nat
  BY DEF Branch, IsBranch
<1>3. /\ N \in Nat /\ DOMAIN b0.opcodes = 1 .. N
      /\ DOMAIN nb.opcodes = 1 .. N + 1
      /\ \A i \in 1 .. N : nb.opcodes[i] = b0.opcodes[i]
      /\ nb.opcodes[N + 1] = op
  BY <1>1, <1>2, AppendProperties, LenProperties
<1>4. \A i \in 1 .. N : b0.opcodes[i].stackCheck \in Nat
  <2>1. \A i \in 1 .. N : b0.opcodes[i] \in Opcode
    BY <1>2, <1>3, ElementOfSeq
  <2>2. \A o \in Opcode : o.stackCheck \in Nat
    BY DEF Opcode
  <2> QED  BY <2>1, <2>2
<1>5. /\ b0.stackMax <= br.stackMax /\ op.stackCheck \in Nat /\ br.stackMax \in Nat
      /\ op.stackCheck > 0 => b0.stackMax < op.stackCheck /\ op.stackCheck <= br.stackMax
  <2>1. b0.stackPos \in Int /\ br.stackMax \in Nat
    BY DEF GoodStep, GoodBelow, Branch, IsBranch
  <2>2. Measured(b0, br, op)
    BY DEF GoodStep, GoodBelow
  <2> QED  BY <1>2, <2>1, <2>2 DEF Measured, Top
<1> HIDE DEF nb, N
<1>6. ASSUME NEW n \in 1 .. N + 1
      PROVE  nb.opcodes[n].stackCheck <= nb.stackMax
  <2>1. CASE n \in 1 .. N
    <3>1. /\ nb.opcodes[n] = b0.opcodes[n] /\ b0.opcodes[n].stackCheck \in Nat
          /\ b0.opcodes[n].stackCheck <= b0.stackMax
      BY <1>3, <1>4, <2>1 DEF Rising
    <3>2. b0.stackMax <= br.stackMax
      BY <1>5
    <3> QED  BY <1>1, <1>2, <1>5, <3>1, <3>2
  <2>2. CASE n = N + 1
    BY <1>1, <1>3, <1>5, <2>2
  <2> QED  BY <1>3, <2>1, <2>2
<1>7. ASSUME NEW m \in 1 .. N + 1, NEW n \in 1 .. N + 1, m < n,
             nb.opcodes[m].stackCheck > 0, nb.opcodes[n].stackCheck > 0
      PROVE  nb.opcodes[m].stackCheck < nb.opcodes[n].stackCheck
  <2>1. m \in 1 .. N /\ nb.opcodes[m] = b0.opcodes[m]
    BY <1>3, <1>7
  <2>2. CASE n \in 1 .. N
    BY <1>3, <1>7, <2>1, <2>2 DEF Rising
  <2>3. CASE n = N + 1
    <3>1. b0.opcodes[m].stackCheck <= b0.stackMax
      BY <1>3, <2>1 DEF Rising
    <3>2. b0.stackMax < op.stackCheck
      BY <1>3, <1>5, <1>7, <2>3
    <3> QED  BY <1>2, <1>3, <1>4, <1>5, <2>1, <2>3, <3>1, <3>2
  <2> QED  BY <1>3, <2>2, <2>3
<1> QED  BY <1>3, <1>6, <1>7 DEF Rising, nb

LEMMA StepRising ==
  ASSUME IndInv, AllRising, [Next]_vars
  PROVE  AllRising'
<1>1. ASSUME NEW pc
      PROVE  Rising(NewBranch(pc))
  BY DEF Rising, NewBranch
<1>2. \A i \in DOMAIN branches' : Rising(branches'[i])
  BY <1>1, Grows, GrowRising DEF Grown, AllRising
<1> QED  BY <1>2 DEF AllRising

(* Of the heights a branch's opcodes are checked for, each exceeds those   *)
(* before it: a batched check that keeps the last one keeps the largest.   *)
THEOREM CheckedHeightsRise == Spec => []ChecksIncrease
<1>1. Init => AllRising
  BY DEF Init, AllRising
<1>2. IndInv /\ AllRising /\ [Next]_vars => AllRising'
  BY StepRising
<1>3. AllRising => ChecksIncrease
  BY DEF AllRising, Rising, ChecksIncrease
<1> QED  BY <1>1, <1>2, <1>3, Inductive, PTL DEF Spec

-----------------------------------------------------------------------------
(* What the fields of a branch's opcodes say of its stack: the loads add   *)
(* up to heapPos, and every height an opcode reaches is checked, by itself *)
(* or by an opcode before it.                                              *)

LoadsTo(ops, n) == Total(EmittedLoads(ops), 1, n)
HeightAfter(ops, n) == Len(ops[n].cache) - LoadsTo(ops, n - 1) - ops[n].in + ops[n].out
HeightChecked(ops, n) ==
    LET top == HeightAfter(ops, n)
    IN  /\ ops[n].stackCheck > 0 => ops[n].stackCheck = top
        /\ ops[n].stackCheck = 0 =>
              top <= 0 \/ \E m \in 1 .. n - 1 : top <= ops[m].stackCheck
Needs(op) ==
    /\ Fetches(op)
    /\ op.isUnnecessary => op.stackLoad = 0
    /\ op.isStaticJump => /\ IsConst(op.stackRefs[1])
                          /\ op.staticJumpPc = JumpPc(op.stackRefs[1][2])
Tracked(br) ==
    LET ops == br.opcodes
    IN  /\ br.heapPos = 0 - LoadsTo(ops, Len(ops))
        /\ br.stackMax = 0 \/ \E m \in DOMAIN ops : ops[m].stackCheck = br.stackMax
        /\ \A n \in DOMAIN ops : HeightChecked(ops, n) /\ Needs(ops[n])
Unmarked(br) == \A n \in DOMAIN br.opcodes : ~br.opcodes[n].skipGasCheck
AllTracked  == \A i \in DOMAIN branches : Tracked(branches[i])
AllUnmarked == \A i \in DOMAIN branches : Unmarked(branches[i])

LEMMA GrowTracked ==
  ASSUME NEW b0, Branch(b0), Tracked(b0), NEW br, NEW op, GoodStep(b0, br, op)
  PROVE  Tracked(With(br, op))
<1> DEFINE nb  == With(br, op)
           N   == Len(b0.opcodes)
           old == b0.opcodes
           ops == Append(old, op)
<1>1. /\ nb.opcodes = ops /\ nb.stackMax = br.stackMax
      /\ nb.heapPos = br.heapPos /\ op \in Opcode
  BY RecordOK DEF GoodStep, GoodBelow, With
<1>2. old \in Seq(Opcode) /\ b0.stackMax \in Nat
  BY DEF Branch, IsBranch
<1>3. /\ N \in Nat /\ DOMAIN old = 1 .. N
      /\ DOMAIN ops = 1 .. N + 1 /\ Len(ops) = N + 1
      /\ \A i \in 1 .. N : ops[i] = old[i]
      /\ ops[N + 1] = op
  BY <1>2, AppendProperties, LenProperties
<1>4. Measured(b0, br, op) /\ Settled(op)
  BY DEF GoodStep, GoodBelow
<1>5. /\ b0.heapPos = 0 - LoadsTo(old, N)
      /\ b0.stackMax = 0 \/ \E m \in 1 .. N : old[m].stackCheck = b0.stackMax
      /\ \A n \in 1 .. N : HeightChecked(old, n) /\ Needs(old[n])
  BY <1>3 DEF Tracked
<1> HIDE DEF nb, N, ops, old
<1>6. \A n \in 0 .. N : LoadsTo(ops, n) = LoadsTo(old, n)
  <2> TAKE n \in 0 .. N
  <2>1. \A i \in 1 .. n : EmittedLoads(ops)[i] = EmittedLoads(old)[i]
    BY <1>3 DEF EmittedLoads
  <2> QED  BY <1>3, <2>1, TotalSame DEF LoadsTo
<1>7. \A i \in 1 .. N : EmittedLoads(old)[i] \in Nat
  <2>1. \A o \in Opcode : o.stackLoad \in Nat
    BY DEF Opcode
  <2>2. \A i \in 1 .. N : old[i] \in Opcode
    BY <1>2, <1>3, ElementOfSeq
  <2> QED  BY <1>3, <2>1, <2>2 DEF EmittedLoads
<1>8. LoadsTo(ops, N) \in Nat /\ LoadsTo(ops, N + 1) = LoadsTo(ops, N) + op.stackLoad
  <2>1. LoadsTo(old, N) \in Nat
    BY <1>3, <1>7, TotalNat DEF LoadsTo
  <2>2. EmittedLoads(ops)[N + 1] = op.stackLoad
    BY <1>3, <1>4 DEF EmittedLoads, Settled
  <2>3. Total(EmittedLoads(ops), 1, N + 1)
          = Total(EmittedLoads(ops), 1, N) + EmittedLoads(ops)[N + 1]
    <3> DEFINE x == EmittedLoads(ops)
               M == N + 1
    <3>1. M \in Int /\ 1 \in Int /\ M >= 1 /\ M - 1 = N
      BY <1>3
    <3> HIDE DEF x, M
    <3>2. Total(x, 1, M) = Total(x, 1, M - 1) + x[M]
      BY <3>1, TotalRec
    <3> QED  BY <3>1, <3>2 DEF x, M
  <2> QED  BY <1>3, <1>6, <2>1, <2>2, <2>3 DEF LoadsTo
<1>9. /\ Len(op.cache) = b0.stackPos - b0.heapPos /\ op.stackLoad \in Nat
      /\ br.heapPos = b0.heapPos - op.stackLoad
      /\ b0.stackPos \in Int /\ b0.heapPos \in Int
  BY <1>1, <1>4 DEF Measured, Opcode, Branch, IsBranch
<1>10. nb.heapPos = 0 - LoadsTo(ops, Len(ops))
  <2>1. b0.heapPos = 0 - LoadsTo(ops, N)
    BY <1>3, <1>5, <1>6
  <2> QED  BY <1>1, <1>3, <1>8, <1>9, <2>1
<1>11. HeightAfter(ops, N + 1) = Top(b0, op)
  <2>1. N + 1 - 1 = N /\ b0.heapPos = 0 - LoadsTo(ops, N)
    BY <1>3, <1>5, <1>6
  <2>2. op.in \in Nat /\ op.out \in Nat
    BY <1>4 DEF Measured
  <2> QED  BY <1>3, <1>8, <1>9, <2>1, <2>2, SMTT(30) DEF HeightAfter, Top
<1>12. HeightChecked(ops, N + 1)
  <2> DEFINE top == Top(b0, op)
  <2>1. /\ top \in Int /\ op.in \in Nat /\ op.out \in Nat /\ op.stackCheck \in Nat
        /\ b0.stackMax \in Nat /\ b0.stackPos <= b0.stackMax
        /\ op.stackCheck = IF op.out > 0 /\ top > b0.stackMax THEN top ELSE 0
        /\ op.out = 0 => top = b0.stackPos - op.in
    BY <1>4, <1>9 DEF Measured, Top
  <2> HIDE DEF top
  <2>2. op.stackCheck = 0 => top <= b0.stackMax
    BY <1>9, <2>1
  <2>3. op.stackCheck > 0 => op.stackCheck = top
    BY <2>1
  <2>4. b0.stackMax = 0 \/ \E m \in 1 .. N + 1 - 1 : ops[m].stackCheck = b0.stackMax
    BY <1>3, <1>5
  <2>5. HeightAfter(ops, N + 1) = top
    BY <1>11 DEF top
  <2> QED  BY <1>3, <2>2, <2>3, <2>4, <2>5 DEF HeightChecked
<1>13. ASSUME NEW n \in 1 .. N
       PROVE  HeightChecked(ops, n)
  <2>1. n - 1 \in 0 .. N /\ ops[n] = old[n] /\ \A m \in 1 .. n - 1 : ops[m] = old[m]
    BY <1>3
  <2>2. HeightAfter(ops, n) = HeightAfter(old, n)
    BY <1>6, <2>1 DEF HeightAfter
  <2> QED  BY <1>5, <2>1, <2>2 DEF HeightChecked
<1>14. nb.stackMax = 0 \/ \E m \in 1 .. N + 1 : ops[m].stackCheck = nb.stackMax
  <2>1. /\ op.stackCheck \in Nat
        /\ br.stackMax = IF op.stackCheck > 0 THEN op.stackCheck ELSE b0.stackMax
    BY <1>4 DEF Measured
  <2>2. CASE op.stackCheck > 0
    BY <1>1, <1>3, <2>1, <2>2
  <2>3. CASE ~(op.stackCheck > 0)
    BY <1>1, <1>3, <1>5, <2>1, <2>3
  <2> QED  BY <2>2, <2>3
<1>15. Needs(op) /\ \A n \in 1 .. N : Needs(ops[n])
  BY <1>3, <1>4, <1>5 DEF Needs, Settled
<1>16. \A n \in 1 .. N + 1 : HeightChecked(ops, n) /\ Needs(ops[n])
  BY <1>3, <1>12, <1>13, <1>15
<1> QED  BY <1>1, <1>3, <1>10, <1>14, <1>16 DEF Tracked, nb

LEMMA GrowUnmarked ==
  ASSUME NEW b0, Branch(b0), Unmarked(b0), NEW br, NEW op, GoodStep(b0, br, op)
  PROVE  Unmarked(With(br, op))
<1>1. With(br, op).opcodes = Append(b0.opcodes, op) /\ ~op.skipGasCheck /\ op \in Opcode
  BY RecordOK DEF GoodStep, GoodBelow, Settled, With
<1>2. b0.opcodes \in Seq(Opcode)
  BY DEF Branch, IsBranch
<1> QED  BY <1>1, <1>2, AppendProperties, LenProperties DEF Unmarked

LEMMA StepTracked ==
  ASSUME IndInv, AllTracked, [Next]_vars
  PROVE  AllTracked'
<1>1. ASSUME NEW pc
      PROVE  Tracked(NewBranch(pc))
  <2>1. /\ DOMAIN NewBranch(pc).opcodes = {} /\ Len(NewBranch(pc).opcodes) = 0
        /\ NewBranch(pc).heapPos = 0 /\ NewBranch(pc).stackMax = 0
    BY DEF NewBranch
  <2>2. LoadsTo(NewBranch(pc).opcodes, 0) = 0
    BY TotalRec DEF LoadsTo
  <2> QED  BY <2>1, <2>2 DEF Tracked
<1>2. \A i \in DOMAIN branches' : Tracked(branches'[i])
  BY <1>1, Grows, GrowTracked DEF Grown, AllTracked
<1> QED  BY <1>2 DEF AllTracked

LEMMA StepUnmarked ==
  ASSUME IndInv, AllUnmarked, [Next]_vars
  PROVE  AllUnmarked'
<1>1. ASSUME NEW pc
      PROVE  Unmarked(NewBranch(pc))
  BY DEF Unmarked, NewBranch
<1>2. \A i \in DOMAIN branches' : Unmarked(branches'[i])
  BY <1>1, Grows, GrowUnmarked DEF Grown, AllUnmarked
<1> QED  BY <1>2 DEF AllUnmarked

(* The branches' program counters increase, but for an entry branch that   *)
(* appendOpcode opened, which has 0.                                       *)
PcsRise ==
    /\ \A i \in DOMAIN branches :
          branches[i].pc < pccount \/ (branches[i].pc = 0 /\ noinitjump)
    /\ \A i, j \in DOMAIN branches : i < j =>
          branches[i].pc < branches[j].pc \/ (branches[i].pc = 0 /\ noinitjump)

LEMMA StepPcs ==
  ASSUME IndInv, PcsRise, [Next]_vars
  PROVE  PcsRise'
<1>1. pccount \in Nat /\ \A i \in DOMAIN branches : branches[i].pc \in Nat
  BY LimitsAssumption DEF IndInv, TypeOK, IsBranch
<1>2. CASE Recorded
  <2>1. PICK br, op : \E len \in Nat : GoodStep(Cur, br, op) /\ Append1(Opened, br, op, len)
    BY <1>2 DEF Recorded
  <2>2. PICK len \in Nat : GoodStep(Cur, br, op) /\ Append1(Opened, br, op, len)
    BY <2>1
  <2> DEFINE L  == Len(Opened)
             nb == With(br, op)
  <2>3. /\ branches' = [Opened EXCEPT ![L] = nb]
        /\ pccount' = pccount + len
        /\ noinitjump' = (noinitjump \/ Opened # branches)
    BY <2>2 DEF Append1, With
  <2>4. /\ L \in Nat \ {0} /\ DOMAIN Opened = 1 .. L
        /\ Opened \in [1 .. L -> {Opened[i] : i \in DOMAIN Opened}]
    BY OpenedOK DEF IndInv
  <2>5. nb.pc = Opened[L].pc
    <3>1. br.pc = Cur.pc /\ Branch(br) /\ op \in Opcode
      BY <2>2 DEF GoodStep, GoodBelow, Measured
    <3> QED  BY <3>1, RecordOK DEF With, Cur
  <2> HIDE DEF L, nb
  <2>6. /\ DOMAIN branches' = 1 .. L
        /\ \A i \in 1 .. L : branches'[i].pc = Opened[i].pc
    BY <2>3, <2>4, <2>5
  <2>7. CASE branches = <<>>
    <3>1. L = 1 /\ Opened[1].pc = 0 /\ Opened # branches
      BY <2>7 DEF Opened, L, NewBranch
    <3>2. noinitjump'
      BY <2>3, <3>1, Zenon
    <3>3. DOMAIN branches' = {1} /\ branches'[1].pc = 0
      BY <2>6, <3>1
    <3> QED  BY <3>2, <3>3 DEF PcsRise
  <2>8. CASE branches # <<>>
    <3>1. Opened = branches
      BY <2>8 DEF Opened
    <3>2. noinitjump => noinitjump'
      BY <2>3, Zenon
    <3>3. /\ DOMAIN branches' = DOMAIN branches
          /\ \A i \in DOMAIN branches : branches'[i].pc = branches[i].pc
      BY <2>4, <2>6, <3>1
    <3>4. \A i \in DOMAIN branches : branches[i].pc < pccount => branches[i].pc < pccount'
      BY <1>1, <2>3
    <3> QED  BY <3>2, <3>3, <3>4 DEF PcsRise
  <2> QED  BY <2>7, <2>8
<1>3. CASE AppendJumpDest
  <2>1. PICK br, op : /\ GoodStep(NewBranch(pccount), br, op)
                     /\ branches' = Append(branches, With(br, op))
    BY <1>3, JumpDestStep
  <2>2. With(br, op).pc = pccount
    <3>1. br.pc = pccount /\ Branch(br) /\ op \in Opcode
      BY <2>1 DEF GoodStep, GoodBelow, Measured, NewBranch
    <3> QED  BY <3>1, RecordOK DEF With
  <2>3. branches \in Seq({branches[i] : i \in DOMAIN branches})
    BY DEF IndInv, TypeOK
  <2>4. /\ Len(branches) \in Nat /\ DOMAIN branches' = 1 .. Len(branches) + 1
        /\ \A i \in 1 .. Len(branches) : branches'[i] = branches[i]
        /\ branches'[Len(branches) + 1] = With(br, op)
        /\ DOMAIN branches = 1 .. Len(branches)
    BY <2>1, <2>3, AppendOK
  <2>5. pccount' = pccount + 1 /\ noinitjump' = noinitjump
    BY <1>3 DEF AppendJumpDest
  <2> QED  BY <1>1, <2>2, <2>4, <2>5, SMTT(30) DEF PcsRise
<1>4. CASE AppendNop \/ UNCHANGED vars
  BY <1>1, <1>4 DEF AppendNop, vars, PcsRise
<1> QED  BY <1>2, <1>3, <1>4, NextStep

(* The words the emitted code of a branch loads add up to -heapPos, so the *)
(* addresses DUPn and SWAPn compute from the cache's size are right.       *)
THEOREM HeapIsLoads == Spec => []LoadsMatchHeap
<1>1. Init => AllTracked
  BY DEF Init, AllTracked
<1>2. IndInv /\ AllTracked /\ [Next]_vars => AllTracked'
  BY StepTracked
<1>3. IndInv /\ AllTracked => LoadsMatchHeap
  <2> SUFFICES ASSUME IndInv, AllTracked, NEW i \in DOMAIN branches
               PROVE  Total(EmittedLoads(branches[i].opcodes), 1, Len(branches[i].opcodes))
                        = - branches[i].heapPos
    BY DEF LoadsMatchHeap
  <2> DEFINE ops   == branches[i].opcodes
             total == Total(EmittedLoads(ops), 1, Len(ops))
  <2>1. branches[i].heapPos = 0 - total /\ IsBranch(branches[i])
    BY DEF AllTracked, Tracked, LoadsTo, IndInv, TypeOK
  <2>2. total \in Nat
    <3>1. ops \in Seq(Opcode)
      BY <2>1 DEF IsBranch
    <3>2. Len(ops) \in Nat /\ DOMAIN ops = 1 .. Len(ops)
          /\ \A n \in 1 .. Len(ops) : ops[n] \in Opcode
      BY <3>1, LenProperties, ElementOfSeq
    <3>3. \A o \in Opcode : o.stackLoad \in Nat
      BY DEF Opcode
    <3>4. \A n \in 1 .. Len(ops) : EmittedLoads(ops)[n] \in Nat
      BY <3>2, <3>3 DEF EmittedLoads
    <3> HIDE DEF ops
    <3> QED  BY <3>2, <3>4, TotalNat
  <2> HIDE DEF total
  <2> QED  BY <2>1, <2>2 DEF total
<1> QED  BY <1>1, <1>2, <1>3, Inductive, PTL DEF Spec

-----------------------------------------------------------------------------
(* What an opcode does to the cache.  Operand n is the nth word from the   *)
(* top, cached or loaded; the words under the operands stay, but for the   *)
(* one a SWAP within the cache lifts; the results go on top.               *)
Deep(op) == Len(op.cache)
ArgRef(op, n) ==
    IF n <= Deep(op) THEN op.cache[Deep(op) + 1 - n] ELSE In(op.id, n - Deep(op) - 1)
LowLen(op) == IF op.in <= Deep(op) THEN Deep(op) - op.in ELSE 0
Lifted(op) == op.name = "swap" /\ op.arg < Deep(op)
LowRef(op, k) ==
    IF Lifted(op) /\ k = Deep(op) - op.arg THEN op.cache[Deep(op)] ELSE op.cache[k]
NewRef(op, j) ==
    IF op.name = "push" THEN Const(op.arg)
    ELSE IF op.name = "pc" THEN Const(op.pc)
    ELSE IF op.name = "dup" /\ op.arg <= Deep(op) THEN op.cache[Deep(op) + 1 - op.arg]
    ELSE IF Lifted(op) THEN op.cache[Deep(op) - op.arg]
    ELSE IF op.isUnnecessary
         THEN Const(Fold(op.name, [n \in 1 .. op.in |-> op.stackRefs[n][2]]))
    ELSE Res(op.id, j - 1)
AfterRefs(op) ==
    [k \in 1 .. LowLen(op) + op.out |->
        IF k <= LowLen(op) THEN LowRef(op, k) ELSE NewRef(op, k - LowLen(op))]
(* How far below the words it has popped an opcode reads memory.           *)
Beyond(op) ==
    IF op.name = "dup" THEN (IF op.arg > Deep(op) THEN op.arg - Deep(op) ELSE 0)
    ELSE IF op.name = "swap"
    THEN (IF op.arg >= Deep(op)
          THEN op.arg + 1 - (IF Deep(op) = 0 THEN 1 ELSE Deep(op)) ELSE 0)
    ELSE 0
Jumps == {"jump", "jumpi"}
Older(r, id) == IsConst(r) \/ r[2] < id
Effect(op, after) ==
    /\ op.stackRefs = [n \in 1 .. op.in |-> ArgRef(op, n)]
    /\ op.stackLoad = IF op.in > Deep(op) THEN op.in - Deep(op) ELSE 0
    /\ op.stackAddLoad = Beyond(op)
    /\ op.isUnnecessary =>
         op.name \in Foldable /\ \A n \in 1 .. op.in : IsConst(op.stackRefs[n])
    /\ op.isStaticJump <=> (op.name \in Jumps /\ IsConst(op.stackRefs[1]))
    /\ op.isStaticJump => op.staticJumpPc = JumpPc(op.stackRefs[1][2])
    /\ op.breakGasGroup <=> op.name \in Jumps \/ op.isExitOpcode
    /\ op.isExitOpcode => op.name \in {"stop", "invalid", "call"}
    /\ op.name \in {"stop", "invalid"} => op.isExitOpcode
    /\ op.name \in Jumps => op.stackStore = AfterRefs(op)
    /\ op.name = "swap" => op.in = 1 /\ op.out = 1 /\ op.arg \in 1 .. 16
    /\ op.name = "dup" => op.in = 0 /\ op.out = 1 /\ op.arg \in 1 .. 16
    /\ after = AfterRefs(op)
CacheAt(br, n) == IF n <= Len(br.opcodes) THEN br.opcodes[n].cache ELSE StackStore(br)
Flowing(br) ==
    /\ CacheAt(br, 1) = <<>>
    /\ \A n \in DOMAIN br.opcodes :
          /\ Effect(br.opcodes[n], CacheAt(br, n + 1))
          /\ \A k \in DOMAIN br.opcodes[n].cache :
                Older(br.opcodes[n].cache[k], br.opcodes[n].id)
Young(br) == \A k \in DOMAIN StackStore(br) : Older(StackStore(br)[k], opcount)
Flows == \A b \in DOMAIN branches : Flowing(branches[b]) /\ Young(branches[b])

-----------------------------------------------------------------------------
(* The stored cache of a branch, and what its methods do to it.            *)
LEMMA StoreIs ==
  ASSUME NEW br, Branch(br)
  PROVE  /\ br.stackPos \in Int /\ br.heapPos \in Int /\ br.heapPos <= br.stackPos
         /\ DOMAIN br.stackRefs = br.heapPos .. (br.stackPos - 1)
         /\ StackStore(br) = [i \in 1 .. (br.stackPos - br.heapPos) |->
                                br.stackRefs[br.heapPos + i - 1]]
         /\ Len(StackStore(br)) = br.stackPos - br.heapPos
         /\ DOMAIN StackStore(br) = 1 .. (br.stackPos - br.heapPos)
         /\ \A k \in 1 .. (br.stackPos - br.heapPos) :
               /\ br.stackRefs[br.stackPos - k] =
                    StackStore(br)[br.stackPos - br.heapPos + 1 - k]
               /\ RefAt(br, br.stackPos - k) =
                    StackStore(br)[br.stackPos - br.heapPos + 1 - k]
<1>1. /\ br.stackPos \in Int /\ br.heapPos \in Int /\ br.heapPos <= br.stackPos
      /\ DOMAIN br.stackRefs = br.heapPos .. (br.stackPos - 1)
  BY DEF Branch, IsBranch, Contiguous
<1> DEFINE D == br.stackPos - br.heapPos
<1>2. D \in Nat
  BY <1>1
<1>3. ASSUME NEW i \in 1 .. D
      PROVE  RefAt(br, br.heapPos + i - 1) = br.stackRefs[br.heapPos + i - 1]
  BY <1>1, <1>2 DEF RefAt
<1>4. StackStore(br) = [i \in 1 .. D |-> br.stackRefs[br.heapPos + i - 1]]
  BY <1>3 DEF StackStore
<1>5. Len(StackStore(br)) = D /\ DOMAIN StackStore(br) = 1 .. D
  <2>1. StackStore(br) \in Seq(Ref)
    BY StackStoreOK
  <2>2. DOMAIN StackStore(br) = 1 .. D
    BY <1>4
  <2> QED
    BY <2>1, <2>2, <1>2, LenProperties
<1>6. ASSUME NEW k \in 1 .. D
      PROVE  /\ br.stackRefs[br.stackPos - k] = StackStore(br)[D + 1 - k]
             /\ RefAt(br, br.stackPos - k) = StackStore(br)[D + 1 - k]
  <2>0. \A s, h \in Int : \A j \in 1 .. (s - h) :
           (s - h) + 1 - j \in 1 .. (s - h) /\ h + ((s - h) + 1 - j) - 1 = s - j
    OBVIOUS
  <2>1. D + 1 - k \in 1 .. D /\ br.heapPos + (D + 1 - k) - 1 = br.stackPos - k
    BY <1>1, <2>0
  <2> HIDE DEF D
  <2>2. StackStore(br)[D + 1 - k] = br.stackRefs[br.stackPos - k]
    BY <2>1, <1>4
  <2> QED
    BY <2>1, <2>2, <1>3
<1> QED
  BY <1>1, <1>4, <1>5, <1>6

(* The operands.                                                           *)
LEMMA ArgsAre ==
  ASSUME NEW br, Branch(br), NEW n \in Nat, NEW id
  PROVE  LET D == br.stackPos - br.heapPos
         IN  Args(br, n, id) = [i \in 1 .. n |->
               IF i <= D THEN StackStore(br)[D + 1 - i] ELSE In(id, i - D - 1)]
<1> DEFINE D == br.stackPos - br.heapPos
<1>1. /\ br.stackPos \in Int /\ br.heapPos \in Int /\ br.heapPos <= br.stackPos
      /\ DOMAIN br.stackRefs = br.heapPos .. (br.stackPos - 1)
  BY StoreIs
<1>2. D \in Nat
  BY <1>1
<1>3. ASSUME NEW i \in 1 .. n
      PROVE  (IF (br.stackPos - i) \in DOMAIN br.stackRefs THEN br.stackRefs[br.stackPos - i]
              ELSE In(id, Cardinality({q \in Missing(br, n) : q > br.stackPos - i})))
             = (IF i <= D THEN StackStore(br)[D + 1 - i] ELSE In(id, i - D - 1))
  <2>1. CASE i <= D
    <3>1. (br.stackPos - i) \in DOMAIN br.stackRefs /\ i \in 1 .. D
      BY <1>1, <2>1
    <3> QED
      BY <3>1, <2>1, StoreIs
  <2>2. CASE ~(i <= D)
    <3>1. (br.stackPos - i) \notin DOMAIN br.stackRefs
      BY <1>1, <2>2
    <3>2. {q \in Missing(br, n) : q > br.stackPos - i}
            = (br.stackPos - i + 1) .. (br.heapPos - 1)
      <4>1. Missing(br, n) = (br.stackPos - n) .. (br.heapPos - 1)
        BY MissingInterval
      <4> QED
        BY <4>1, <1>1
    <3>3. Cardinality((br.stackPos - i + 1) .. (br.heapPos - 1)) = i - D - 1
      <4>1. br.stackPos - i + 1 \in Int /\ br.heapPos - 1 \in Int
        BY <1>1
      <4>2. Cardinality((br.stackPos - i + 1) .. (br.heapPos - 1)) =
              IF br.stackPos - i + 1 > br.heapPos - 1 THEN 0
              ELSE (br.heapPos - 1) - (br.stackPos - i + 1) + 1
        BY <4>1, FS_Interval
      <4> QED
        BY <4>2, <1>1, <2>2
    <3> QED
      BY <3>1, <3>2, <3>3, <2>2
  <2> QED
    BY <2>1, <2>2
<1> HIDE DEF D
<1> QED
  BY <1>3 DEF Args, D

LEMMA PoppedStore ==
  ASSUME NEW br, Branch(br), NEW n \in Nat
  PROVE  LET D == br.stackPos - br.heapPos
             low == IF n <= D THEN D - n ELSE 0
         IN  /\ Loads(br, n) = (IF n > D THEN n - D ELSE 0)
             /\ Popped(br, n).stackPos - Popped(br, n).heapPos = low
             /\ StackStore(Popped(br, n)) = [k \in 1 .. low |-> StackStore(br)[k]]
<1> DEFINE D == br.stackPos - br.heapPos
           low == IF n <= D THEN D - n ELSE 0
           b1 == Popped(br, n)
<1>1. /\ br.stackPos \in Int /\ br.heapPos \in Int /\ br.heapPos <= br.stackPos
      /\ DOMAIN br.stackRefs = br.heapPos .. (br.stackPos - 1)
  BY StoreIs
<1>2. Loads(br, n) = (IF n > D THEN n - D ELSE 0)
  <2>1. Loads(br, n) = IF br.stackPos - n < br.heapPos
                       THEN br.heapPos - (br.stackPos - n) ELSE 0
    BY MissingInterval
  <2>2. \A s, h \in Int : (s - n < h <=> n > s - h) /\ h - (s - n) = n - (s - h)
    OBVIOUS
  <2> QED
    BY <1>1, <2>1, <2>2
<1>3. /\ b1.stackPos = br.stackPos - n /\ b1.heapPos = br.heapPos - Loads(br, n)
      /\ Branch(b1)
  BY PoppedOK
<1>4. b1.stackPos - b1.heapPos = low /\ (low > 0 => b1.heapPos = br.heapPos)
  BY <1>1, <1>2, <1>3
<1>5. low \in Nat /\ low <= D /\ D \in Nat
  BY <1>1
<1>6. DOMAIN b1.stackRefs = b1.heapPos .. (b1.stackPos - 1)
  BY <1>3, StoreIs
<1>7. StackStore(b1) = [k \in 1 .. low |-> b1.stackRefs[b1.heapPos + k - 1]]
  BY <1>3, <1>4, StoreIs
<1>8. ASSUME NEW k \in 1 .. low
      PROVE  b1.stackRefs[b1.heapPos + k - 1] = StackStore(br)[k]
  <2>1. b1.heapPos = br.heapPos /\ br.heapPos + k - 1 \in b1.heapPos .. (b1.stackPos - 1)
    <3>1. PICK h, t, l : h = br.heapPos /\ t = b1.stackPos /\ l = low
      OBVIOUS
    <3>2. h \in Int /\ l \in Nat /\ k \in 1 .. l
      BY <1>1, <1>5, <3>1
    <3>3. br.stackPos \in Int /\ t = br.stackPos - n
      BY <1>1, <1>3, <3>1
    <3>4. b1.heapPos = h
      BY <1>4, <1>5, <3>1, <3>2
    <3>5. t - h = l /\ t \in Int
      BY <1>4, <3>1, <3>3, <3>4
    <3>6. h + k - 1 \in h .. (t - 1)
      BY ONLY <3>2, <3>5
    <3> QED
      BY <3>1, <3>4, <3>6
  <2>2. b1.stackRefs[br.heapPos + k - 1] = br.stackRefs[br.heapPos + k - 1]
    <3>1. \A p \in DOMAIN b1.stackRefs : b1.stackRefs[p] = br.stackRefs[p]
      BY PoppedOK
    <3> QED
      BY <3>1, <2>1, <1>6
  <2>3. k \in 1 .. D
    BY <1>5
  <2>4. StackStore(br)[k] = br.stackRefs[br.heapPos + k - 1]
    BY <2>3, StoreIs
  <2> QED
    BY <2>1, <2>2, <2>4
<1>9. StackStore(b1) = [k \in 1 .. low |-> StackStore(br)[k]]
  BY <1>7, <1>8
<1> QED
  BY <1>2, <1>4, <1>9

LEMMA PushedStore ==
  ASSUME NEW br, Branch(br), NEW n \in Nat, NEW id \in Nat
  PROVE  LET D == br.stackPos - br.heapPos
         IN  /\ Pushed(br, n, id).stackPos - Pushed(br, n, id).heapPos = D + n
             /\ StackStore(Pushed(br, n, id)) =
                  [k \in 1 .. D + n |-> IF k <= D THEN StackStore(br)[k]
                                        ELSE Res(id, k - D - 1)]
<1>1. PICK b1, s, h, d : /\ b1 = Pushed(br, n, id) /\ s = br.stackPos /\ h = br.heapPos
                         /\ d = s - h
  OBVIOUS
<1>2. s \in Int /\ h \in Int /\ h <= s /\ DOMAIN br.stackRefs = h .. (s - 1)
  BY <1>1, StoreIs
<1>3. Branch(b1) /\ b1.stackPos = s + n /\ b1.heapPos = h
  BY <1>1, PushedOK
<1>4. /\ \A p \in DOMAIN b1.stackRefs :
            b1.stackRefs[p] = IF p \in s .. (s + n - 1) THEN Res(id, p - s) ELSE br.stackRefs[p]
      /\ DOMAIN b1.stackRefs = DOMAIN br.stackRefs \cup (s .. (s + n - 1))
  BY <1>1, PushedOK
<1>5. d \in Nat /\ s + n - h = d + n
  <2>1. d = s - h
    BY <1>1
  <2> QED
    BY ONLY <2>1, <1>2, n \in Nat
<1>6. b1.stackPos - b1.heapPos = d + n
  <2>1. PICK t, g : t = s + n /\ g = d + n
    OBVIOUS
  <2>2. t - h = g /\ t \in Int /\ h \in Int
    <3>1. d = s - h
      BY <1>1
    <3> QED
      BY ONLY <1>2, <2>1, <3>1, n \in Nat
  <2>3. b1.stackPos = t /\ b1.heapPos = h
    BY <1>3, <2>1
  <2>4. b1.stackPos - b1.heapPos = g
    BY ONLY <2>2, <2>3
  <2> QED
    BY <2>1, <2>4
<1>7. StackStore(b1) = [k \in 1 .. d + n |-> b1.stackRefs[h + k - 1]]
  BY <1>3, <1>6, StoreIs
<1>8. ASSUME NEW k \in 1 .. d + n
      PROVE  b1.stackRefs[h + k - 1] =
               IF k <= d THEN StackStore(br)[k] ELSE Res(id, k - d - 1)
  <2>1. PICK p : p = h + k - 1
    OBVIOUS
  <2>2. /\ p \in (h .. (s - 1)) \cup (s .. (s + n - 1))
        /\ k <= d => p \notin s .. (s + n - 1) /\ k \in 1 .. d
        /\ ~(k <= d) => p \in s .. (s + n - 1) /\ p - s = k - d - 1
    <3>1. d = s - h /\ d \in Nat
      BY <1>1, <1>5
    <3> QED
      BY ONLY <3>1, <2>1, <1>2, n \in Nat, k \in 1 .. d + n
  <2>3. p \in DOMAIN b1.stackRefs
    BY <1>2, <1>4, <2>2
  <2>4. b1.stackRefs[p] = IF p \in s .. (s + n - 1) THEN Res(id, p - s) ELSE br.stackRefs[p]
    BY <1>4, <2>3
  <2>5. CASE k <= d
    <3>1. StackStore(br)[k] = br.stackRefs[h + k - 1]
      BY <1>1, <2>2, <2>5, StoreIs
    <3> QED
      BY <2>1, <2>2, <2>4, <2>5, <3>1
  <2>6. CASE ~(k <= d)
    BY <2>1, <2>2, <2>4, <2>6
  <2> QED
    BY <2>5, <2>6
<1>9. StackStore(b1) = [k \in 1 .. d + n |-> IF k <= d THEN StackStore(br)[k]
                                              ELSE Res(id, k - d - 1)]
  BY <1>7, <1>8
<1> QED
  BY <1>1, <1>6, <1>9

LEMMA SetRefStore ==
  ASSUME NEW br, Branch(br), NEW k \in 1 .. (br.stackPos - br.heapPos), NEW r \in Ref
  PROVE  LET D == br.stackPos - br.heapPos
         IN  StackStore(SetRef(br, k, r)) =
               [i \in 1 .. D |-> IF i = D + 1 - k THEN r ELSE StackStore(br)[i]]
<1> DEFINE D == br.stackPos - br.heapPos
           b1 == SetRef(br, k, r)
<1>1. /\ br.stackPos \in Int /\ br.heapPos \in Int /\ br.heapPos <= br.stackPos
      /\ DOMAIN br.stackRefs = br.heapPos .. (br.stackPos - 1)
  BY StoreIs
<1>2. Branch(b1) /\ b1.stackPos = br.stackPos /\ b1.heapPos = br.heapPos
  BY SetRefOK
<1>3. StackStore(b1) = [i \in 1 .. D |-> b1.stackRefs[br.heapPos + i - 1]]
  BY <1>2, StoreIs
<1>4. ASSUME NEW i \in 1 .. D
      PROVE  b1.stackRefs[br.heapPos + i - 1] =
               IF i = D + 1 - k THEN r ELSE StackStore(br)[i]
  <2>1. br.heapPos + i - 1 \in DOMAIN br.stackRefs
    BY <1>1
  <2>2. b1.stackRefs[br.heapPos + i - 1] =
          IF br.heapPos + i - 1 = br.stackPos - k THEN r
          ELSE br.stackRefs[br.heapPos + i - 1]
    BY <2>1, SetRefOK
  <2>3. br.heapPos + i - 1 = br.stackPos - k <=> i = D + 1 - k
    BY <1>1
  <2>4. StackStore(br)[i] = br.stackRefs[br.heapPos + i - 1]
    BY StoreIs
  <2> QED
    BY <2>2, <2>3, <2>4
<1> QED
  BY <1>3, <1>4

(* appendOpcode: the operands leave the cache, result registers enter it.  *)
Shifts(br0, o, br, in, out) ==
    /\ o \in Opcode /\ o.id = opcount /\ o.in = in /\ o.out = out
    /\ Branch(br) /\ br.opcodes = br0.opcodes
    /\ o.cache = StackStore(br0) /\ Deep(o) \in Nat
    /\ o.stackRefs = [n \in 1 .. in |-> ArgRef(o, n)]
    /\ o.stackLoad = IF in > Deep(o) THEN in - Deep(o) ELSE 0
    /\ br.stackPos - br.heapPos = LowLen(o) + out
    /\ StackStore(br) = [k \in 1 .. LowLen(o) + out |->
         IF k <= LowLen(o) THEN o.cache[k] ELSE Res(o.id, k - LowLen(o) - 1)]

LEMMA ShiftOK ==
  ASSUME NEW br0, Branch(br0), NEW name \in Names, NEW arg \in Nat,
         NEW in \in Nat, NEW out \in Nat, NEW gas \in Nat,
         opcount \in Nat, pccount \in Nat
  PROVE  Shifts(br0, NewOpcode(br0, name, arg, in, out, gas),
                AfterOpcode(br0, in, out), in, out)
<1> DEFINE o == NewOpcode(br0, name, arg, in, out, gas)
           pb == Popped(br0, in)
           br == AfterOpcode(br0, in, out)
           D == br0.stackPos - br0.heapPos
           low == IF in <= D THEN D - in ELSE 0
<1>1. /\ o.id = opcount /\ o.in = in /\ o.out = out /\ o.cache = StackStore(br0)
      /\ o.stackRefs = Args(br0, in, opcount) /\ o.stackLoad = Loads(br0, in)
  BY DEF NewOpcode
<1>2. Appended(br0, o, br, in, out)
  BY AppendOpcodeOK
<1>3. Branch(br) /\ br.opcodes = br0.opcodes /\ o \in Opcode
  BY <1>2 DEF Appended
<1>4. Branch(pb)
  BY PoppedOK
<1>5. D \in Nat /\ Len(StackStore(br0)) = D
  BY StoreIs
<1>6. br = Pushed(pb, out, opcount)
  BY DEF AfterOpcode
<1>7. /\ Loads(br0, in) = (IF in > D THEN in - D ELSE 0)
      /\ pb.stackPos - pb.heapPos = low
      /\ StackStore(pb) = [k \in 1 .. low |-> StackStore(br0)[k]]
  BY PoppedStore
<1>8. Args(br0, in, opcount) = [i \in 1 .. in |->
         IF i <= D THEN StackStore(br0)[D + 1 - i] ELSE In(opcount, i - D - 1)]
  BY ArgsAre
<1> HIDE DEF o, pb, br, D
<1>9. /\ br.stackPos - br.heapPos = low + out
      /\ StackStore(br) = [k \in 1 .. low + out |->
            IF k <= low THEN StackStore(pb)[k] ELSE Res(opcount, k - low - 1)]
  <2>1. LET d == pb.stackPos - pb.heapPos
        IN  /\ Pushed(pb, out, opcount).stackPos - Pushed(pb, out, opcount).heapPos
                 = d + out
            /\ StackStore(Pushed(pb, out, opcount)) =
                 [k \in 1 .. d + out |-> IF k <= d THEN StackStore(pb)[k]
                                         ELSE Res(opcount, k - d - 1)]
    BY <1>4, PushedStore
  <2> QED
    BY <2>1, <1>6, <1>7
<1>10. Deep(o) = D /\ LowLen(o) = low
  BY <1>1, <1>5 DEF Deep, LowLen
<1>11. StackStore(br) = [k \in 1 .. low + out |->
          IF k <= low THEN o.cache[k] ELSE Res(o.id, k - low - 1)]
  <2> HIDE DEF low
  <2>1. \A k \in 1 .. low + out : k <= low => k \in 1 .. low
    OBVIOUS
  <2>2. \A k \in 1 .. low : StackStore(pb)[k] = o.cache[k]
    BY <1>7, <1>1
  <2> QED
    BY <1>9, <1>1, <2>1, <2>2
<1>12. o.stackRefs = [n \in 1 .. in |-> ArgRef(o, n)]
  BY <1>1, <1>8, <1>10 DEF ArgRef
<1> HIDE DEF low
<1>13. Shifts(br0, o, br, in, out)
  BY <1>1, <1>3, <1>5, <1>7, <1>9, <1>10, <1>11, <1>12 DEF Shifts
<1> QED
  BY <1>13 DEF o, br

(* The operands and the loads, and what depends on them only.              *)
LEMMA CoreEffect ==
  ASSUME NEW br0, NEW o, NEW br, NEW in \in Nat, NEW out \in Nat,
         Shifts(br0, o, br, in, out), NEW op, Core(op, o)
  PROVE  /\ op \in Opcode /\ op.id = opcount /\ op.cache = StackStore(br0)
         /\ op.in = in /\ op.out = out /\ Deep(op) = Deep(o) /\ Deep(op) \in Nat
         /\ op.stackRefs = [n \in 1 .. op.in |-> ArgRef(op, n)]
         /\ op.stackLoad = IF op.in > Deep(op) THEN op.in - Deep(op) ELSE 0
         /\ LowLen(op) = LowLen(o) /\ LowLen(op) \in Nat
         /\ op.id = o.id /\ op.cache = o.cache
<1>1. /\ op \in Opcode /\ op.id = o.id /\ op.cache = o.cache /\ op.in = o.in
      /\ op.out = o.out /\ op.stackRefs = o.stackRefs /\ op.stackLoad = o.stackLoad
  BY DEF Core
<1>2. Deep(op) = Deep(o) /\ Deep(o) \in Nat
  BY <1>1 DEF Shifts, Deep
<1>3. \A n \in 1 .. in : ArgRef(op, n) = ArgRef(o, n)
  BY <1>1, <1>2 DEF ArgRef
<1>4. LowLen(op) = LowLen(o) /\ LowLen(op) \in Nat
  BY <1>1, <1>2 DEF LowLen, Shifts
<1> QED
  BY <1>1, <1>2, <1>3, <1>4 DEF Shifts

(* An opcode whose results are registers.                                  *)
LEMMA PlainAfter ==
  ASSUME NEW br0, NEW o, NEW br, NEW in \in Nat, NEW out \in Nat,
         Shifts(br0, o, br, in, out), NEW op, Core(op, o),
         op.name \notin {"push", "pc", "dup", "swap"}, ~op.isUnnecessary
  PROVE  StackStore(br) = AfterRefs(op)
<1>0. /\ op \in Opcode /\ op.id = opcount /\ op.cache = StackStore(br0)
      /\ op.in = in /\ op.out = out /\ Deep(op) = Deep(o) /\ Deep(op) \in Nat
      /\ op.stackRefs = [n \in 1 .. op.in |-> ArgRef(op, n)]
      /\ op.stackLoad = IF op.in > Deep(op) THEN op.in - Deep(op) ELSE 0
      /\ LowLen(op) = LowLen(o) /\ LowLen(op) \in Nat
      /\ op.id = o.id /\ op.cache = o.cache
  BY CoreEffect
<1>1. /\ op.out = out /\ LowLen(op) = LowLen(o) /\ op.cache = o.cache /\ op.id = o.id
      /\ LowLen(o) \in Nat
  BY <1>0
<1>2. StackStore(br) = [k \in 1 .. LowLen(o) + out |->
         IF k <= LowLen(o) THEN o.cache[k] ELSE Res(o.id, k - LowLen(o) - 1)]
  BY DEF Shifts
<1>3. ~Lifted(op)
  BY DEF Lifted
<1>4. \A k \in 1 .. LowLen(op) + op.out :
         (IF k <= LowLen(op) THEN LowRef(op, k) ELSE NewRef(op, k - LowLen(op)))
         = (IF k <= LowLen(o) THEN o.cache[k] ELSE Res(o.id, k - LowLen(o) - 1))
  BY <1>1, <1>3 DEF LowRef, NewRef
<1> QED
  BY <1>1, <1>2, <1>4 DEF AfterRefs

(* Replacing the only result.                                              *)
LEMMA SetAfter ==
  ASSUME NEW br0, NEW o, NEW br, NEW in \in Nat,
         Shifts(br0, o, br, in, 1), NEW op, Core(op, o), NEW r \in Ref,
         NewRef(op, 1) = r, ~Lifted(op)
  PROVE  /\ StackStore(SetRef(br, 1, r)) = AfterRefs(op)
         /\ Branch(SetRef(br, 1, r)) /\ SetRef(br, 1, r).opcodes = br0.opcodes
<1> DEFINE low == LowLen(op)
<1>0. /\ op \in Opcode /\ op.id = opcount /\ op.cache = StackStore(br0)
      /\ op.in = in /\ op.out = 1 /\ Deep(op) = Deep(o) /\ Deep(op) \in Nat
      /\ op.stackRefs = [n \in 1 .. op.in |-> ArgRef(op, n)]
      /\ op.stackLoad = IF op.in > Deep(op) THEN op.in - Deep(op) ELSE 0
      /\ LowLen(op) = LowLen(o) /\ LowLen(op) \in Nat
      /\ op.id = o.id /\ op.cache = o.cache
  BY CoreEffect
<1>1. /\ op.out = 1 /\ LowLen(o) = low /\ op.cache = o.cache /\ op.id = o.id
      /\ low \in Nat
  BY <1>0
<1>2. /\ StackStore(br) = [k \in 1 .. low + 1 |->
           IF k <= low THEN o.cache[k] ELSE Res(o.id, k - low - 1)]
      /\ Branch(br) /\ br.stackPos - br.heapPos = low + 1 /\ br.opcodes = br0.opcodes
  BY <1>1 DEF Shifts
<1> HIDE DEF low
<1>3. 1 \in 1 .. (br.stackPos - br.heapPos)
  BY <1>1, <1>2
<1>4. StackStore(SetRef(br, 1, r)) =
        [i \in 1 .. low + 1 |-> IF i = low + 1 + 1 - 1 THEN r ELSE StackStore(br)[i]]
  <2>1. LET D == br.stackPos - br.heapPos
        IN  StackStore(SetRef(br, 1, r)) =
               [i \in 1 .. D |-> IF i = D + 1 - 1 THEN r ELSE StackStore(br)[i]]
    BY <1>2, <1>3, SetRefStore
  <2> QED
    BY <2>1, <1>2
<1>5. \A k \in 1 .. low + 1 :
         (IF k = low + 1 + 1 - 1 THEN r ELSE StackStore(br)[k])
         = (IF k <= low THEN LowRef(op, k) ELSE NewRef(op, k - low))
  <2> TAKE k \in 1 .. low + 1
  <2>1. CASE k = low + 1
    <3>1. ~(k <= low) /\ k - low = 1 /\ low + 1 + 1 - 1 = low + 1
      BY <1>1, <2>1
    <3> QED
      BY <3>1, <2>1
  <2>2. CASE k # low + 1
    <3>1. k <= low /\ low + 1 + 1 - 1 = low + 1
      BY <1>1, <2>2
    <3> QED
      BY <3>1, <2>2, <1>1, <1>2 DEF LowRef
  <2> QED
    BY <2>1, <2>2
<1>6. StackStore(SetRef(br, 1, r)) = AfterRefs(op)
  BY <1>1, <1>4, <1>5 DEF AfterRefs, low
<1> QED
  BY <1>2, <1>3, <1>6, SetRefOK

(* Every AppendXxx but AppendJumpDest has its effect on the current branch. *)
FlowStep(br0, br, op) ==
    /\ Branch(br) /\ br.opcodes = br0.opcodes
    /\ op \in Opcode /\ op.id = opcount /\ op.cache = StackStore(br0)
    /\ Effect(op, StackStore(br))
Flowed == \E br, op : \E len \in Nat : FlowStep(Cur, br, op) /\ Append1(Opened, br, op, len)

(* The flags of an opcode that neither jumps nor folds.                    *)
Flagless(op) == ~op.isUnnecessary /\ ~op.isStaticJump /\ op.name \notin Jumps
LEMMA FlaglessEffect ==
  ASSUME NEW br0, NEW o, NEW br, NEW in \in Nat, NEW out \in Nat,
         Shifts(br0, o, br, in, out), NEW op, Core(op, o), Flagless(op),
         op.stackAddLoad = Beyond(op), op.breakGasGroup <=> op.isExitOpcode,
         op.isExitOpcode => op.name \in {"stop", "invalid", "call"},
         op.name \in {"stop", "invalid"} => op.isExitOpcode,
         op.name = "swap" => in = 1 /\ out = 1 /\ op.arg \in 1 .. 16,
         op.name = "dup" => in = 0 /\ out = 1 /\ op.arg \in 1 .. 16,
         NEW b1, Branch(b1), b1.opcodes = br0.opcodes, StackStore(b1) = AfterRefs(op)
  PROVE  FlowStep(br0, b1, op)
<1>1. /\ op \in Opcode /\ op.id = opcount /\ op.cache = StackStore(br0)
      /\ op.in = in /\ op.out = out
      /\ op.stackRefs = [n \in 1 .. op.in |-> ArgRef(op, n)]
      /\ op.stackLoad = IF op.in > Deep(op) THEN op.in - Deep(op) ELSE 0
  BY CoreEffect
<1>2. Effect(op, StackStore(b1))
  BY <1>1 DEF Effect, Flagless
<1> QED
  BY <1>1, <1>2 DEF FlowStep

LEMMA PushFlow ==
  ASSUME IndInv, NEW n \in 0 .. 32, NEW v \in Words, AppendPushN(n, v)
  PROVE  Flowed
<1> DEFINE gas == IF n = 0 THEN 2 ELSE 3
           op  == NewOpcode(Cur, "push", v, 0, 1, gas)
           br  == AfterOpcode(Cur, 0, 1)
<1>1. v \in Nat /\ gas \in Nat /\ "push" \in Names /\ Const(v) \in Ref
  BY LimitsAssumption DEF Words, Names, Const, Ref
<1>2. Shifts(Cur, op, br, 0, 1)
  <2> HIDE DEF gas
  <2> QED  BY <1>1, CurOK, ShiftOK
<1>3. /\ op.name = "push" /\ op.arg = v /\ op.stackAddLoad = 0 /\ ~op.isUnnecessary
      /\ ~op.isStaticJump /\ ~op.breakGasGroup /\ ~op.isExitOpcode
  BY DEF NewOpcode
<1>4. Append1(Opened, SetRef(br, 1, Const(v)), op, 1 + n) /\ 1 + n \in Nat
  BY DEF AppendPushN
<1> HIDE DEF op, br
<1>5. Core(op, op) /\ NewRef(op, 1) = Const(v) /\ ~Lifted(op)
  BY <1>2, <1>3, CoreRefl DEF Shifts, NewRef, Lifted
<1> DEFINE b1 == SetRef(br, 1, Const(v))
<1>6. StackStore(b1) = AfterRefs(op) /\ Branch(b1) /\ b1.opcodes = Cur.opcodes
  BY <1>1, <1>2, <1>5, SetAfter
<1>7. Flagless(op) /\ op.stackAddLoad = Beyond(op)
  BY <1>3 DEF Flagless, Jumps, Beyond
<1> HIDE DEF b1
<1>8. FlowStep(Cur, b1, op)
  BY <1>2, <1>3, <1>5, <1>6, <1>7, FlaglessEffect
<1> QED  BY <1>4, <1>8 DEF Flowed, b1

LEMMA PcFlow ==
  ASSUME IndInv, AppendPc
  PROVE  Flowed
<1> DEFINE op  == NewOpcode(Cur, "pc", 0, 0, 1, 2)
           br  == AfterOpcode(Cur, 0, 1)
<1>1. "pc" \in Names /\ Const(pccount) \in Ref
  BY CurOK DEF Names, Const, Ref
<1>2. Shifts(Cur, op, br, 0, 1)
  BY <1>1, CurOK, ShiftOK
<1>3. /\ op.name = "pc" /\ op.pc = pccount /\ op.stackAddLoad = 0 /\ ~op.isUnnecessary
      /\ ~op.isStaticJump /\ ~op.breakGasGroup /\ ~op.isExitOpcode
  BY DEF NewOpcode
<1>4. Append1(Opened, SetRef(br, 1, Const(pccount)), op, 1)
  BY DEF AppendPc
<1> HIDE DEF op, br
<1>5. Core(op, op) /\ NewRef(op, 1) = Const(pccount) /\ ~Lifted(op)
  BY <1>2, <1>3, CoreRefl DEF Shifts, NewRef, Lifted
<1> DEFINE b1 == SetRef(br, 1, Const(pccount))
<1>6. StackStore(b1) = AfterRefs(op) /\ Branch(b1) /\ b1.opcodes = Cur.opcodes
  BY <1>1, <1>2, <1>5, SetAfter
<1>7. Flagless(op) /\ op.stackAddLoad = Beyond(op)
  BY <1>3 DEF Flagless, Jumps, Beyond
<1> HIDE DEF b1
<1>8. FlowStep(Cur, b1, op)
  BY <1>2, <1>3, <1>5, <1>6, <1>7, FlaglessEffect
<1> QED  BY <1>4, <1>8 DEF Flowed, b1

(* POP, GAS, DEBUG, JUMPDEST, callbacks, STOP and INVALID.                 *)
LEMMA FlagFlowStep ==
  ASSUME NEW br0, Branch(br0), opcount \in Nat, pccount \in Nat,
         NEW name \in {"pop", "gas", "debug", "call", "stop", "invalid", "jumpdest"},
         NEW arg \in Nat, NEW in \in Nat, NEW out \in Nat, NEW gas \in Nat,
         NEW op, NEW flags \in BOOLEAN,
         \/ op = NewOpcode(br0, name, arg, in, out, gas) /\ name \notin {"stop", "invalid"}
         \/ /\ op = [NewOpcode(br0, name, arg, in, out, gas) EXCEPT
                       !.breakGasGroup = flags, !.isExitOpcode = flags]
            /\ flags => name \in {"stop", "invalid", "call"}
            /\ name \in {"stop", "invalid"} => flags
  PROVE  FlowStep(br0, AfterOpcode(br0, in, out), op)
<1> DEFINE o  == NewOpcode(br0, name, arg, in, out, gas)
           br == AfterOpcode(br0, in, out)
<1>1. name \in Names
  BY DEF Names
<1>2. Shifts(br0, o, br, in, out)
  BY <1>1, ShiftOK
<1>3. /\ ~o.isUnnecessary /\ o.name = name /\ o.stackAddLoad = 0
      /\ ~o.isStaticJump /\ ~o.breakGasGroup /\ ~o.isExitOpcode
  BY DEF NewOpcode
<1>4. o \in Opcode
  BY <1>2 DEF Shifts
<1>5. \/ op = o /\ name \notin {"stop", "invalid"}
      \/ /\ op = [o EXCEPT !.breakGasGroup = flags, !.isExitOpcode = flags]
         /\ flags => name \in {"stop", "invalid", "call"}
         /\ name \in {"stop", "invalid"} => flags
  OBVIOUS
<1> HIDE DEF o, br
<1>7. /\ Core(op, o) /\ ~op.isUnnecessary /\ op.name = name
      /\ op.stackAddLoad = 0 /\ ~op.isStaticJump
      /\ op.breakGasGroup <=> op.isExitOpcode
      /\ op.isExitOpcode => op.name \in {"stop", "invalid", "call"}
      /\ op.name \in {"stop", "invalid"} => op.isExitOpcode
  <2>1. CASE op = o /\ name \notin {"stop", "invalid"}
    BY <1>3, <1>4, <2>1, CoreRefl
  <2>2. CASE /\ op = [o EXCEPT !.breakGasGroup = flags, !.isExitOpcode = flags]
             /\ flags => name \in {"stop", "invalid", "call"}
             /\ name \in {"stop", "invalid"} => flags
    <3>1. op \in Opcode
      BY <1>4, <2>2 DEF Opcode
    <3>2. /\ op.id = o.id /\ op.name = o.name /\ op.in = o.in /\ op.out = o.out
          /\ op.arg = o.arg
          /\ op.stackRefs = o.stackRefs /\ op.stackLoad = o.stackLoad
          /\ op.cache = o.cache /\ op.stackCheck = o.stackCheck
          /\ op.isUnnecessary = o.isUnnecessary
          /\ op.stackAddLoad = o.stackAddLoad
          /\ op.isStaticJump = o.isStaticJump
          /\ op.breakGasGroup = flags /\ op.isExitOpcode = flags
      BY <1>4, <2>2 DEF Opcode
    <3> QED  BY <1>3, <2>2, <3>1, <3>2 DEF Core
  <2> QED  BY <1>5, <2>1, <2>2
<1>8. StackStore(br) = AfterRefs(op)
  BY <1>2, <1>7, PlainAfter
<1>9. Flagless(op) /\ op.stackAddLoad = Beyond(op)
  BY <1>7 DEF Flagless, Jumps, Beyond
<1>10. Branch(br) /\ br.opcodes = br0.opcodes
  BY <1>2 DEF Shifts
<1>11. FlowStep(br0, br, op)
  BY <1>2, <1>7, <1>8, <1>9, <1>10, FlaglessEffect
<1> QED  BY <1>11 DEF br

(* Arithmetic and logic, folded or not.                                    *)
LEMMA AluFlow ==
  ASSUME IndInv, NEW name \in AluOps, AppendAlu(name)
  PROVE  Flowed
<1> DEFINE in   == AluIn(name)
           br   == AfterOpcode(Cur, in, 1)
           o    == NewOpcode(Cur, name, 0, in, 1, AluGas(name))
           args == o.stackRefs
           fold == name \in Foldable /\ \A k \in 1 .. in : IsConst(args[k])
           val  == Fold(name, [k \in 1 .. in |-> args[k][2]])
           op   == [o EXCEPT !.isUnnecessary = fold]
<1>1. /\ name \in Foldable \cup Unfolded /\ in \in Nat \ {0} /\ AluGas(name) \in Nat
      /\ name \in Names
      /\ name \notin {"push", "pc", "dup", "swap", "jump", "jumpi", "stop", "invalid", "call"}
  BY InputsAssumption DEF AluIn, AluGas, Names, Foldable, Unfolded
<1>2. Shifts(Cur, o, br, in, 1)
  <2> HIDE DEF in
  <2>1. AluGas(name) \in Nat
    BY <1>1
  <2> QED  BY <1>1, <2>1, CurOK, ShiftOK
<1>3. Append1(Opened, IF fold THEN SetRef(br, 1, Const(val)) ELSE br, op, 1)
  BY DEF AppendAlu
<1>4. /\ o.name = name /\ o.stackAddLoad = 0 /\ ~o.isStaticJump
      /\ ~o.breakGasGroup /\ ~o.isExitOpcode
  BY DEF NewOpcode
<1>5. /\ o \in Opcode /\ o.in = in /\ Branch(br) /\ br.opcodes = Cur.opcodes
      /\ args \in [1 .. in -> Ref]
  <2> HIDE DEF o, br
  <2>1. o \in Opcode /\ args = [k \in 1 .. in |-> ArgRef(o, k)]
    BY <1>2 DEF Shifts
  <2>2. args \in Seq(Ref) /\ DOMAIN args = 1 .. in
    BY <2>1 DEF Opcode
  <2> QED  BY <1>2, <2>1, <2>2, LenProperties DEF Shifts
<1>6. fold \in BOOLEAN
  OBVIOUS
<1> HIDE DEF o, br
<1>7. /\ Core(op, o) /\ op.isUnnecessary = fold /\ op.name = name
      /\ op.stackAddLoad = 0 /\ ~op.isStaticJump
      /\ ~op.breakGasGroup /\ ~op.isExitOpcode
  <2> HIDE DEF fold
  <2>1. op \in Opcode
    BY <1>5, <1>6 DEF Opcode
  <2>2. /\ op.id = o.id /\ op.name = o.name /\ op.in = o.in /\ op.out = o.out
        /\ op.arg = o.arg
        /\ op.stackRefs = o.stackRefs /\ op.stackLoad = o.stackLoad
        /\ op.cache = o.cache /\ op.stackCheck = o.stackCheck
        /\ op.isUnnecessary = fold
        /\ op.stackAddLoad = o.stackAddLoad
        /\ op.isStaticJump = o.isStaticJump
        /\ op.breakGasGroup = o.breakGasGroup /\ op.isExitOpcode = o.isExitOpcode
    BY <1>5 DEF Opcode
  <2> HIDE DEF op, in
  <2> QED
    BY <1>4, <2>1, <2>2 DEF Core
<1>8. ~Lifted(op) /\ op.stackAddLoad = Beyond(op) /\ op.name \notin Jumps
  BY <1>1, <1>7 DEF Lifted, Beyond, Jumps
<1>9. CASE fold
  <2>1. val \in Words
    <3>1. [k \in 1 .. in |-> args[k][2]] \in [1 .. AluIn(name) -> Words]
      <4>1. \A r \in Ref : IsConst(r) => r[2] \in Words
        BY DEF Ref, IsConst
      <4> QED  BY <1>5, <1>9, <4>1
    <3>2. name \in AluOps \cap Foldable
      BY <1>9
    <3> QED  BY <3>1, <3>2, FoldAssumption
  <2>2. Const(val) \in Ref
    BY <2>1 DEF Const, Ref
  <2>3. op.in = in /\ op.stackRefs = args
    <3> HIDE DEF op, in
    <3> QED  BY <1>5, <1>7 DEF Core
  <2>4. \A n \in 1 .. op.in : IsConst(op.stackRefs[n])
    <3> HIDE DEF op, in
    <3> QED  BY <1>9, <2>3
  <2>5. NewRef(op, 1) = Const(val)
    <3> HIDE DEF op, in
    <3> QED  BY <1>1, <1>7, <1>8, <1>9, <2>3 DEF NewRef
  <2> DEFINE b1 == SetRef(br, 1, Const(val))
  <2> HIDE DEF op, val, fold
  <2>6. StackStore(b1) = AfterRefs(op) /\ Branch(b1) /\ b1.opcodes = Cur.opcodes
    BY <1>1, <1>2, <1>7, <1>8, <2>2, <2>5, SetAfter
  <2> HIDE DEF b1
  <2>7. /\ op \in Opcode /\ op.id = opcount /\ op.cache = StackStore(Cur)
        /\ op.stackRefs = [n \in 1 .. op.in |-> ArgRef(op, n)]
        /\ op.stackLoad = IF op.in > Deep(op) THEN op.in - Deep(op) ELSE 0
    BY <1>1, <1>2, <1>7, CoreEffect
  <2>8. Effect(op, StackStore(b1))
    BY <1>1, <1>7, <1>8, <1>9, <2>4, <2>6, <2>7 DEF Effect, fold
  <2>9. FlowStep(Cur, b1, op)
    BY <2>6, <2>7, <2>8 DEF FlowStep
  <2> QED  BY <1>3, <1>9, <2>9 DEF Flowed, b1
<1>10. CASE ~fold
  <2> HIDE DEF op, fold, in
  <2>1. Flagless(op)
    BY <1>7, <1>8, <1>10 DEF Flagless
  <2>2. StackStore(br) = AfterRefs(op)
    BY <1>1, <1>2, <1>7, <1>10, PlainAfter
  <2>3. FlowStep(Cur, br, op)
    BY <1>1, <1>2, <1>5, <1>7, <1>8, <2>1, <2>2, FlaglessEffect
  <2> QED  BY <1>3, <1>10, <2>3 DEF Flowed
<1> QED  BY <1>9, <1>10

(* The word n + 1 below the top of the branch a DUPn or SWAPn has pushed   *)
(* on, when the cache is that deep.                                        *)
LEMMA SourceIs ==
  ASSUME NEW br0, NEW o, NEW br, NEW in \in 0 .. 1, Shifts(br0, o, br, in, 1),
         NEW n \in 1 .. 16, n + 1 <= (0 - br.heapPos) + br.stackPos
  PROVE  /\ RefAt(br, br.stackPos - (n + 1)) = o.cache[Deep(o) + 1 - in - n]
         /\ LowLen(o) = Deep(o) - in /\ n <= Deep(o) - in
         /\ o.cache \in Seq(Ref)
<1>1. /\ Branch(br) /\ Deep(o) \in Nat /\ o.in = in /\ o.out = 1
      /\ br.stackPos - br.heapPos = LowLen(o) + 1 /\ o \in Opcode
      /\ StackStore(br) = [k \in 1 .. LowLen(o) + 1 |->
            IF k <= LowLen(o) THEN o.cache[k] ELSE Res(o.id, k - LowLen(o) - 1)]
  BY DEF Shifts
<1>2. br.stackPos \in Int /\ br.heapPos \in Int
  BY <1>1, StoreIs
<1>3. n <= LowLen(o) /\ n + 1 \in 1 .. (br.stackPos - br.heapPos)
  <2>1. (0 - br.heapPos) + br.stackPos = br.stackPos - br.heapPos
    BY <1>2
  <2>2. LowLen(o) \in Nat
    BY <1>1 DEF LowLen
  <2> QED
    BY <1>1, <2>1, <2>2
<1>4. LowLen(o) = Deep(o) - in
  BY <1>1, <1>3 DEF LowLen
<1>5. RefAt(br, br.stackPos - (n + 1)) =
        StackStore(br)[br.stackPos - br.heapPos + 1 - (n + 1)]
  BY <1>1, <1>3, StoreIs
<1>6. br.stackPos - br.heapPos + 1 - (n + 1) = LowLen(o) + 1 - n
  <2>1. \A d \in Int : d + 1 + 1 - (n + 1) = d + 1 - n
    OBVIOUS
  <2>2. LowLen(o) \in Int
    BY <1>1, <1>4
  <2> QED
    BY <1>1, <2>1, <2>2
<1>7. LowLen(o) + 1 - n \in 1 .. LowLen(o) + 1 /\ LowLen(o) + 1 - n <= LowLen(o)
  BY <1>1, <1>3, <1>4
<1>8. LowLen(o) + 1 - n = Deep(o) + 1 - in - n
  BY <1>1, <1>4
<1>9. o.cache \in Seq(Ref)
  BY <1>1 DEF Opcode
<1> QED
  BY <1>1, <1>3, <1>4, <1>5, <1>6, <1>7, <1>8, <1>9

LEMMA DupFlow ==
  ASSUME IndInv, NEW n \in 1 .. 16, AppendDupN(n)
  PROVE  Flowed
<1> DEFINE br    == AfterOpcode(Cur, 0, 1)
           local == (0 - br.heapPos) + br.stackPos
           src   == RefAt(br, br.stackPos - (n + 1))
           o     == NewOpcode(Cur, "dup", n, 0, 1, 3)
           add   == IF n + 1 > local THEN n + 1 - local ELSE 0
           op    == [o EXCEPT !.stackAddLoad = add]
<1>1. Shifts(Cur, o, br, 0, 1) /\ Appended(Cur, o, br, 0, 1)
  <2>1. "dup" \in Names /\ n \in Nat
    BY DEF Names
  <2> QED  BY <2>1, CurOK, ShiftOK, AppendOpcodeOK
<1>2. /\ o.name = "dup" /\ o.arg = n /\ ~o.isUnnecessary /\ ~o.isStaticJump
      /\ ~o.breakGasGroup /\ ~o.isExitOpcode
  BY DEF NewOpcode
<1>3. Append1(Opened, IF n + 1 > local \/ src = NoRef THEN br ELSE SetRef(br, 1, src), op, 1)
  BY DEF AppendDupN
<1> HIDE DEF br, o
<1>4. /\ local \in Int /\ add \in Nat /\ o \in Opcode /\ o.in = 0 /\ o.out = 1
      /\ local = LowLen(o) + 1 /\ LowLen(o) = Deep(o) /\ Deep(o) \in Nat
      /\ Branch(br) /\ br.opcodes = Cur.opcodes
  <2>1. br.stackPos \in Int /\ br.heapPos \in Int /\ Branch(br)
    BY <1>1, StoreIs DEF Shifts
  <2>2. /\ o \in Opcode /\ o.in = 0 /\ o.out = 1 /\ Deep(o) \in Nat
        /\ br.stackPos - br.heapPos = LowLen(o) + 1 /\ br.opcodes = Cur.opcodes
    BY <1>1 DEF Shifts
  <2>3. LowLen(o) = Deep(o)
    BY <2>2 DEF LowLen
  <2>4. local = br.stackPos - br.heapPos
    BY <2>1
  <2> QED  BY <2>1, <2>2, <2>3, <2>4
<1> HIDE DEF add
<1>5. /\ Core(op, o) /\ op.isUnnecessary = o.isUnnecessary
      /\ op.stackAddLoad = add /\ op.isStaticJump = o.isStaticJump
      /\ op.breakGasGroup = o.breakGasGroup /\ op.isExitOpcode = o.isExitOpcode
  <2>1. op.breakGasGroup = o.breakGasGroup /\ op.isExitOpcode = o.isExitOpcode
    BY <1>4 DEF Opcode
  <2> QED
    BY <2>1, <1>4, AddLoadOK
<1> HIDE DEF op
<1>6. /\ op.name = "dup" /\ op.arg = n /\ op.cache = o.cache /\ Deep(op) = Deep(o)
      /\ op.in = 0 /\ op.out = 1 /\ op.id = o.id /\ LowLen(op) = Deep(o)
  BY <1>2, <1>4, <1>5 DEF Core, Deep, LowLen
<1>7. Flagless(op) /\ ~Lifted(op) /\ ~op.breakGasGroup /\ ~op.isExitOpcode
  BY <1>2, <1>5, <1>6 DEF Flagless, Lifted, Jumps
<1>8. op.stackAddLoad = Beyond(op)
  BY <1>4, <1>5, <1>6 DEF Beyond, add
<1>9. ASSUME NEW b1, Branch(b1), b1.opcodes = Cur.opcodes, StackStore(b1) = AfterRefs(op)
      PROVE  FlowStep(Cur, b1, op)
  BY <1>1, <1>5, <1>6, <1>7, <1>8, <1>9, FlaglessEffect
<1>10. CASE n + 1 > local
  <2>1. StackStore(br) = AfterRefs(op)
    <3>1. StackStore(br) = [k \in 1 .. LowLen(o) + 1 |->
            IF k <= LowLen(o) THEN o.cache[k] ELSE Res(o.id, k - LowLen(o) - 1)]
      BY <1>1 DEF Shifts
    <3>2. ~(op.arg <= Deep(op))
      BY <1>4, <1>6, <1>10
    <3>3. \A k \in 1 .. LowLen(op) + op.out :
            (IF k <= LowLen(op) THEN LowRef(op, k) ELSE NewRef(op, k - LowLen(op)))
            = (IF k <= LowLen(o) THEN o.cache[k] ELSE Res(o.id, k - LowLen(o) - 1))
      BY <1>4, <1>6, <1>7, <3>2 DEF LowRef, NewRef, Flagless
    <3> QED
      BY <3>1, <3>3, <1>4, <1>6 DEF AfterRefs
  <2>2. FlowStep(Cur, br, op)
    BY <1>4, <1>9, <2>1
  <2> HIDE DEF local, src
  <2> QED  BY <1>3, <1>10, <2>2 DEF Flowed
<1>11. CASE ~(n + 1 > local)
  <2>1. n + 1 <= local
    BY <1>4, <1>11
  <2>2. src = o.cache[Deep(o) + 1 - 0 - n] /\ n <= Deep(o) - 0
    BY <1>1, <2>1, SourceIs
  <2>3. src \in Ref /\ src # NoRef
    BY <1>1, <2>1, SourceOK
  <2> HIDE DEF local, src
  <2>4. NewRef(op, 1) = src
    BY <1>4, <1>6, <2>2 DEF NewRef
  <2> DEFINE b1 == SetRef(br, 1, src)
  <2>5. StackStore(b1) = AfterRefs(op) /\ Branch(b1) /\ b1.opcodes = Cur.opcodes
    BY <1>1, <1>5, <1>7, <2>3, <2>4, SetAfter
  <2> HIDE DEF b1
  <2>6. FlowStep(Cur, b1, op)
    BY <1>9, <2>5
  <2> QED  BY <1>3, <1>11, <2>3, <2>6 DEF Flowed, b1
<1> QED  BY <1>10, <1>11

LEMMA SwapFlow ==
  ASSUME IndInv, NEW n \in 1 .. 16, AppendSwapN(n)
  PROVE  Flowed
<1> DEFINE br    == AfterOpcode(Cur, 1, 1)
           local == (0 - br.heapPos) + br.stackPos
           src   == RefAt(br, br.stackPos - (n + 1))
           o     == NewOpcode(Cur, "swap", n, 1, 1, 3)
           add   == IF n + 1 > local THEN n + 1 - local ELSE 0
           op    == [o EXCEPT !.stackAddLoad = add]
           top   == op.stackRefs[1]
           sb    == SetRef(br, 1, src)
<1>1. Shifts(Cur, o, br, 1, 1) /\ Appended(Cur, o, br, 1, 1)
  <2>1. "swap" \in Names /\ n \in Nat
    BY DEF Names
  <2> QED  BY <2>1, CurOK, ShiftOK, AppendOpcodeOK
<1>2. /\ o.name = "swap" /\ o.arg = n /\ ~o.isUnnecessary /\ ~o.isStaticJump
      /\ ~o.breakGasGroup /\ ~o.isExitOpcode
  BY DEF NewOpcode
<1>3. Append1(Opened,
              IF n + 1 > local THEN br
              ELSE IF src = NoRef THEN SetRef(br, 1, top)
              ELSE SetRef(sb, n + 1, top), op, 1)
  BY DEF AppendSwapN
<1> HIDE DEF br, o, sb
<1>4. /\ local \in Int /\ add \in Nat /\ o \in Opcode /\ o.in = 1 /\ o.out = 1
      /\ local = LowLen(o) + 1 /\ Deep(o) \in Nat /\ local = br.stackPos - br.heapPos
      /\ LowLen(o) = (IF Deep(o) = 0 THEN 0 ELSE Deep(o) - 1)
      /\ Branch(br) /\ br.opcodes = Cur.opcodes
  <2>1. br.stackPos \in Int /\ br.heapPos \in Int /\ Branch(br)
    BY <1>1, StoreIs DEF Shifts
  <2>2. /\ o \in Opcode /\ o.in = 1 /\ o.out = 1 /\ Deep(o) \in Nat
        /\ br.stackPos - br.heapPos = LowLen(o) + 1 /\ br.opcodes = Cur.opcodes
    BY <1>1 DEF Shifts
  <2>3. LowLen(o) = (IF Deep(o) = 0 THEN 0 ELSE Deep(o) - 1)
    BY <2>2 DEF LowLen
  <2>4. local = br.stackPos - br.heapPos
    BY <2>1
  <2> QED  BY <2>1, <2>2, <2>3, <2>4
<1> HIDE DEF add
<1>5. /\ Core(op, o) /\ op.isUnnecessary = o.isUnnecessary
      /\ op.stackAddLoad = add /\ op.isStaticJump = o.isStaticJump
      /\ op.breakGasGroup = o.breakGasGroup /\ op.isExitOpcode = o.isExitOpcode
  <2>1. op.breakGasGroup = o.breakGasGroup /\ op.isExitOpcode = o.isExitOpcode
    BY <1>4 DEF Opcode
  <2> QED
    BY <2>1, <1>4, AddLoadOK
<1> HIDE DEF op
<1>6. /\ op.name = "swap" /\ op.arg = n /\ op.cache = o.cache /\ Deep(op) = Deep(o)
      /\ op.in = 1 /\ op.out = 1 /\ op.id = o.id /\ LowLen(op) = LowLen(o)
      /\ op.stackRefs = o.stackRefs
  BY <1>2, <1>4, <1>5 DEF Core, Deep, LowLen
<1>7. Flagless(op) /\ ~op.breakGasGroup /\ ~op.isExitOpcode
  BY <1>2, <1>5, <1>6 DEF Flagless, Jumps
<1>8. op.stackAddLoad = Beyond(op) /\ (Lifted(op) <=> ~(n + 1 > local))
  BY <1>4, <1>5, <1>6 DEF Beyond, add, Lifted
<1>9. ASSUME NEW b1, Branch(b1), b1.opcodes = Cur.opcodes, StackStore(b1) = AfterRefs(op)
      PROVE  FlowStep(Cur, b1, op)
  BY <1>1, <1>5, <1>6, <1>7, <1>8, <1>9, FlaglessEffect
<1>12. StackStore(br) = [k \in 1 .. LowLen(o) + 1 |->
         IF k <= LowLen(o) THEN o.cache[k] ELSE Res(o.id, k - LowLen(o) - 1)]
  BY <1>1 DEF Shifts
<1>10. CASE n + 1 > local
  <2>1. StackStore(br) = AfterRefs(op)
    <3>2. ~Lifted(op)
      BY <1>8, <1>10
    <3>3. \A k \in 1 .. LowLen(op) + op.out :
            (IF k <= LowLen(op) THEN LowRef(op, k) ELSE NewRef(op, k - LowLen(op)))
            = (IF k <= LowLen(o) THEN o.cache[k] ELSE Res(o.id, k - LowLen(o) - 1))
      BY <1>4, <1>6, <1>7, <3>2 DEF LowRef, NewRef, Flagless
    <3> QED
      BY <1>12, <3>3, <1>4, <1>6 DEF AfterRefs
  <2>2. FlowStep(Cur, br, op)
    BY <1>4, <1>9, <2>1
  <2> HIDE DEF local, src
  <2> QED  BY <1>3, <1>10, <2>2 DEF Flowed
<1>11. CASE ~(n + 1 > local)
  <2> DEFINE D == Deep(o)
  <2>1. n + 1 <= local
    BY <1>4, <1>11
  <2>2. src = o.cache[D + 1 - 1 - n] /\ n <= D - 1 /\ LowLen(o) = D - 1
        /\ o.cache \in Seq(Ref)
    BY <1>1, <2>1, SourceIs
  <2>3. src \in Ref /\ src # NoRef
    BY <1>1, <2>1, SourceOK
  <2>4. top = o.cache[D] /\ top \in Ref
    <3>1. o.stackRefs = [m \in 1 .. 1 |-> ArgRef(o, m)] /\ Len(o.cache) = D
      BY <1>1 DEF Shifts, Deep
    <3>2. o.stackRefs[1] = ArgRef(o, 1) /\ 1 <= D /\ D + 1 - 1 = D /\ D \in 1 .. D
      BY <1>4, <2>2, <3>1
    <3>3. o.stackRefs[1] = o.cache[D]
      BY <3>2 DEF ArgRef
    <3>4. o.cache[D] \in Ref
      BY <2>2, <3>1, <3>2
    <3> QED
      BY <3>3, <3>4, <1>6
  <2> HIDE DEF local, src, top, D
  <2>10. D \in Nat /\ D = Deep(o)
    BY <1>4 DEF D
  <2>5. /\ Branch(sb) /\ sb.opcodes = Cur.opcodes
        /\ sb.stackPos - sb.heapPos = D
        /\ StackStore(sb) = [k \in 1 .. D |-> IF k = D THEN src ELSE StackStore(br)[k]]
    <3>1. 1 \in 1 .. (br.stackPos - br.heapPos) /\ br.stackPos - br.heapPos = D
      BY <1>4, <2>2, <2>10
    <3>2. LET d == br.stackPos - br.heapPos
          IN  StackStore(SetRef(br, 1, src)) =
                [k \in 1 .. d |-> IF k = d + 1 - 1 THEN src ELSE StackStore(br)[k]]
      BY <1>4, <2>3, <3>1, SetRefStore
    <3>3. D + 1 - 1 = D
      BY <2>10
    <3>4. StackStore(sb) = [k \in 1 .. D |-> IF k = D THEN src ELSE StackStore(br)[k]]
      BY <3>1, <3>2, <3>3 DEF sb
    <3>5. /\ Branch(sb) /\ sb.opcodes = br.opcodes
          /\ sb.stackPos = br.stackPos /\ sb.heapPos = br.heapPos
      BY <1>4, <2>3, <3>1, SetRefOK DEF sb
    <3> QED
      BY <3>1, <3>4, <3>5, <1>4
  <2> DEFINE b1 == SetRef(sb, n + 1, top)
  <2>6. /\ Branch(b1) /\ b1.opcodes = Cur.opcodes
        /\ StackStore(b1) = [k \in 1 .. D |-> IF k = D - n THEN top ELSE StackStore(sb)[k]]
    <3>1. n + 1 \in 1 .. (sb.stackPos - sb.heapPos)
      BY <2>2, <2>5, <2>10
    <3> DEFINE m == n + 1
    <3>5. m \in 1 .. (sb.stackPos - sb.heapPos) /\ Branch(sb) /\ top \in Ref
      BY <3>1, <2>4, <2>5
    <3> HIDE DEF m
    <3>2. LET d == sb.stackPos - sb.heapPos
          IN  StackStore(SetRef(sb, m, top)) =
                [k \in 1 .. d |-> IF k = d + 1 - m THEN top ELSE StackStore(sb)[k]]
      BY <3>5, SetRefStore
    <3>3. D + 1 - (n + 1) = D - n
      BY <2>10
    <3>4. Branch(SetRef(sb, m, top)) /\ SetRef(sb, m, top).opcodes = sb.opcodes
      BY <3>5, SetRefOK
    <3> QED
      BY <3>2, <3>3, <3>4, <2>5 DEF m
  <2>7. /\ NewRef(op, 1) = src /\ LowLen(op) + op.out = D
        /\ \A k \in 1 .. D - 1 : LowRef(op, k) = IF k = D - n THEN top ELSE o.cache[k]
    <3>1. Lifted(op) /\ LowLen(op) = D - 1 /\ Deep(op) = D /\ D + 1 - 1 - n = D - n
      BY <1>8, <1>11, <1>6, <2>2, <2>10
    <3>2. NewRef(op, 1) = src
      BY <3>1, <1>6, <2>2 DEF NewRef
    <3>3. \A k \in 1 .. D - 1 : LowRef(op, k) = IF k = D - n THEN top ELSE o.cache[k]
      BY <3>1, <1>6, <2>4 DEF LowRef
    <3> QED
      BY <3>1, <3>2, <3>3, <1>6, <2>10
  <2> HIDE DEF b1
  <2>8. StackStore(b1) = AfterRefs(op)
    <3>1. \A k \in 1 .. D :
            (IF k <= LowLen(op) THEN LowRef(op, k) ELSE NewRef(op, k - LowLen(op)))
            = (IF k = D - n THEN top ELSE StackStore(sb)[k])
      <4> TAKE k \in 1 .. D
      <4>0. LowLen(op) = D - 1
        BY <1>6, <2>2
      <4>1. CASE k = D
        <5>1. ~(k <= LowLen(op)) /\ k - LowLen(op) = 1 /\ k # D - n
          BY <4>0, <4>1, <2>10
        <5> QED
          BY <5>1, <4>1, <2>5, <2>7
      <4>2. CASE k # D
        <5>1. k <= LowLen(op) /\ k \in 1 .. D - 1 /\ k <= LowLen(o) /\ k \in 1 .. LowLen(o) + 1
          BY <4>0, <4>2, <2>2, <2>10
        <5>2. StackStore(sb)[k] = o.cache[k]
          BY <5>1, <4>2, <2>5, <1>12
        <5> QED
          BY <5>1, <5>2, <2>7
      <4> QED
        BY <4>1, <4>2
    <3> QED
      BY <3>1, <2>6, <2>7 DEF AfterRefs
  <2>9. FlowStep(Cur, b1, op)
    BY <1>9, <2>6, <2>8
  <2> QED  BY <1>3, <1>11, <2>3, <2>9 DEF Flowed, b1
<1> QED  BY <1>10, <1>11

LEMMA JumpFlow ==
  ASSUME IndInv, NEW name \in Jumps, NEW in \in Nat, NEW gas \in Nat,
         AppendJumpOp(name, in, gas), in > 0
  PROVE  Flowed
<1> DEFINE br  == AfterOpcode(Cur, in, 0)
           o   == NewOpcode(Cur, name, 0, in, 0, gas)
           dst == o.stackRefs[1]
           st  == StackStore(br)
           pc  == IF IsConst(dst) THEN JumpPc(dst[2]) ELSE 0
           op  == [o EXCEPT !.stackStore = st, !.breakGasGroup = TRUE,
                            !.isStaticJump = IsConst(dst), !.staticJumpPc = pc]
<1>1. Shifts(Cur, o, br, in, 0)
  <2>1. name \in Names /\ 0 \in Nat
    BY DEF Names, Jumps
  <2> QED  BY <2>1, CurOK, ShiftOK
<1>2. /\ o.name = name /\ ~o.isUnnecessary /\ o.stackAddLoad = 0 /\ ~o.isExitOpcode
  BY DEF NewOpcode
<1>3. Append1(Opened, br, op, 1)
  BY DEF AppendJumpOp
<1> HIDE DEF br, o
<1>4. o \in Opcode /\ Branch(br) /\ dst \in Ref /\ br.opcodes = Cur.opcodes
  <2>1. /\ o \in Opcode /\ Branch(br) /\ br.opcodes = Cur.opcodes
        /\ o.stackRefs = [k \in 1 .. in |-> ArgRef(o, k)]
    BY <1>1 DEF Shifts
  <2>2. o.stackRefs \in Seq(Ref) /\ 1 \in DOMAIN o.stackRefs
    BY <2>1 DEF Opcode
  <2> QED  BY <2>1, <2>2, LenProperties
<1>5. pc \in 0 .. PcLimit - 1
  <2>1. IsConst(dst) => dst[2] \in Nat
    BY <1>4, LimitsAssumption DEF Ref, IsConst, Words
  <2>2. ASSUME NEW v \in Nat PROVE JumpPc(v) \in 0 .. PcLimit - 1
    BY LimitsAssumption DEF JumpPc
  <2> QED  BY <2>1, <2>2, LimitsAssumption
<1>6. st \in Seq(Ref)
  BY <1>4, StackStoreOK
<1>8. IsConst(dst) \in BOOLEAN
  BY DEF IsConst
<1> HIDE DEF st, pc
<1>9. /\ Core(op, o) /\ op.stackStore = st /\ ~op.isUnnecessary
      /\ op.name = name /\ op.stackAddLoad = 0 /\ ~op.isExitOpcode /\ op.breakGasGroup
      /\ op.isStaticJump = IsConst(dst) /\ op.staticJumpPc = pc
  <2> DEFINE static == IsConst(dst)
  <2>1. static \in BOOLEAN
    BY <1>8
  <2> HIDE DEF static, dst
  <2>2. op \in Opcode
    BY <1>4, <1>5, <1>6, <2>1 DEF Opcode, static
  <2>3. /\ op.id = o.id /\ op.name = o.name /\ op.in = o.in /\ op.out = o.out
        /\ op.arg = o.arg
        /\ op.stackRefs = o.stackRefs /\ op.stackLoad = o.stackLoad
        /\ op.cache = o.cache /\ op.stackCheck = o.stackCheck
        /\ op.stackStore = st
        /\ op.isUnnecessary = o.isUnnecessary
        /\ op.stackAddLoad = o.stackAddLoad
        /\ op.breakGasGroup /\ op.isExitOpcode = o.isExitOpcode
        /\ op.isStaticJump = static /\ op.staticJumpPc = pc
    BY <1>4 DEF Opcode, static
  <2> HIDE DEF op
  <2> QED  BY <1>2, <2>2, <2>3 DEF Core, static
<1> HIDE DEF op
<1>10. st = AfterRefs(op)
  <2>1. op.name \notin {"push", "pc", "dup", "swap"}
    BY <1>9 DEF Jumps
  <2> QED
    BY <2>1, <1>1, <1>9, PlainAfter DEF st
<1>11. /\ op \in Opcode /\ op.id = opcount /\ op.cache = StackStore(Cur)
       /\ op.stackRefs = [n \in 1 .. op.in |-> ArgRef(op, n)]
       /\ op.stackLoad = IF op.in > Deep(op) THEN op.in - Deep(op) ELSE 0
  BY <1>1, <1>9, CoreEffect
<1>12. op.stackRefs[1] = dst
  BY <1>9 DEF Core
<1>13. /\ op.isStaticJump <=> (op.name \in Jumps /\ IsConst(op.stackRefs[1]))
       /\ op.isStaticJump => op.staticJumpPc = JumpPc(op.stackRefs[1][2])
  <2> HIDE DEF dst
  <2> QED
    BY <1>9, <1>12 DEF pc
<1>14. op.stackAddLoad = Beyond(op) /\ op.name \notin {"stop", "invalid", "dup", "swap"}
  BY <1>9 DEF Beyond, Jumps
<1>15. Effect(op, st)
  BY <1>9, <1>10, <1>11, <1>13, <1>14 DEF Effect
<1>16. FlowStep(Cur, br, op)
  BY <1>4, <1>11, <1>15 DEF FlowStep, st
<1> QED  BY <1>3, <1>16 DEF Flowed

LEMMA NextFlow ==
  ASSUME IndInv, Next
  PROVE  Flowed \/ AppendNop \/ AppendJumpDest
<1>0. Branch(Cur) /\ opcount \in Nat /\ pccount \in Nat
  BY CurOK
<1>1. CASE \E p \in Pushes : AppendPushN(p[1], p[2])
  <2>1. \A p \in Pushes : p[1] \in 0 .. 32 /\ p[2] \in Words
    BY InputsAssumption
  <2> QED  BY <1>1, <2>1, PushFlow
<1>2. CASE \E n \in Depths : AppendDupN(n)
  BY <1>2, InputsAssumption, DupFlow
<1>3. CASE \E n \in Depths : AppendSwapN(n)
  BY <1>3, InputsAssumption, SwapFlow
<1>5. CASE \E name \in AluOps : AppendAlu(name)
  BY <1>5, AluFlow
<1>12. ASSUME NEW name \in {"pop", "gas", "debug"}, NEW in \in Nat, NEW out \in Nat,
              NEW gas \in Nat, NEW len \in Nat,
              Append1(Opened, AfterOpcode(Cur, in, out),
                      NewOpcode(Cur, name, 0, in, out, gas), len)
       PROVE  Flowed
  <2> DEFINE op == NewOpcode(Cur, name, 0, in, out, gas)
  <2>1. FlowStep(Cur, AfterOpcode(Cur, in, out), op)
    BY <1>0, <1>12, FlagFlowStep
  <2> QED
    BY <1>12, <2>1 DEF Flowed
<1>4. CASE AppendPop
  BY <1>4, <1>12 DEF AppendPop
<1>7. CASE AppendDebugOpcode
  BY <1>7, <1>12 DEF AppendDebugOpcode
<1>11. CASE AppendGas
  BY <1>11, <1>12 DEF AppendGas
<1>13. ASSUME NEW name \in {"call", "stop", "invalid"}, NEW arg \in Nat, NEW in \in Nat,
              NEW out \in Nat, NEW gas \in Nat, NEW flags \in BOOLEAN,
              name = "call" \/ flags,
              Append1(Opened, AfterOpcode(Cur, in, out),
                      [NewOpcode(Cur, name, arg, in, out, gas) EXCEPT
                         !.breakGasGroup = flags, !.isExitOpcode = flags], 1)
       PROVE  Flowed
  <2> DEFINE op == [NewOpcode(Cur, name, arg, in, out, gas) EXCEPT
                         !.breakGasGroup = flags, !.isExitOpcode = flags]
  <2>1. FlowStep(Cur, AfterOpcode(Cur, in, out), op)
    BY <1>0, <1>13, FlagFlowStep
  <2> QED
    BY <1>13, <2>1 DEF Flowed
<1>6. CASE \E h \in HighOps : AppendHighOpcode(h)
  <2>1. PICK h \in HighOps : AppendHighOpcode(h)
    BY <1>6
  <2>2. /\ h.op \in Nat /\ h.in \in Nat /\ h.out \in Nat /\ h.gas \in Nat
        /\ h.stop \in BOOLEAN
    BY InputsAssumption
  <2>3. Append1(Opened, AfterOpcode(Cur, h.in, h.out),
                [NewOpcode(Cur, "call", h.op, h.in, h.out, h.gas) EXCEPT
                   !.breakGasGroup = h.stop, !.isExitOpcode = h.stop], 1)
    BY <2>1 DEF AppendHighOpcode
  <2> QED  BY <2>2, <2>3, <1>13
<1>8. CASE AppendJump \/ AppendJumpI
  BY <1>8, JumpFlow DEF AppendJump, AppendJumpI, Jumps
<1>9. CASE AppendStop \/ AppendInvalid
  <2>1. ASSUME NEW name \in {"stop", "invalid"}, AppendExit(name)
        PROVE  Flowed
    <3>1. Append1(Opened, AfterOpcode(Cur, 0, 0),
                  [NewOpcode(Cur, name, 0, 0, 0, 0) EXCEPT
                     !.breakGasGroup = TRUE, !.isExitOpcode = TRUE], 1)
      BY <2>1 DEF AppendExit
    <3> QED  BY <3>1, <1>13
  <2> QED  BY <1>9, <2>1 DEF AppendStop, AppendInvalid
<1>10. CASE AppendPc
  BY <1>10, PcFlow
<1> QED  BY <1>1, <1>2, <1>3, <1>4, <1>5, <1>6, <1>7, <1>8, <1>9, <1>10, <1>11
         DEF Next

LEMMA JumpDestFlow ==
  ASSUME IndInv, AppendJumpDest
  PROVE  \E br, op : /\ FlowStep(NewBranch(pccount), br, op)
                     /\ branches' = Append(branches, With(br, op))
<1> DEFINE b0 == NewBranch(pccount)
           br == AfterOpcode(b0, 0, 0)
           op == NewOpcode(b0, "jumpdest", 0, 0, 0, 1)
<1>1. Branch(b0) /\ b0.opcodes = <<>> /\ opcount \in Nat /\ pccount \in Nat
  BY CurOK, NewBranchOK
<1>2. branches' = Append(branches, [br EXCEPT !.opcodes = <<op>>])
  BY DEF AppendJumpDest
<1> HIDE DEF b0
<1>3. FlowStep(b0, br, op)
  BY <1>1, FlagFlowStep
<1> HIDE DEF br, op
<1>8. [br EXCEPT !.opcodes = <<op>>] = With(br, op)
  <2>1. br.opcodes = <<>>
    BY <1>1, <1>3 DEF FlowStep
  <2>2. Append(br.opcodes, op) = <<op>>
    BY <2>1
  <2> QED  BY <2>2 DEF With
<1>9. FlowStep(b0, br, op) /\ branches' = Append(branches, With(br, op))
  BY <1>2, <1>3, <1>8
<1> QED  BY <1>9 DEF b0

(* What an opcode leaves in the cache is a constant, was there, or is its  *)
(* own.                                                                    *)
LEMMA AfterOlder ==
  ASSUME NEW br0, NEW br, NEW op, FlowStep(br0, br, op), opcount \in Nat,
         \A k \in DOMAIN StackStore(br0) : Older(StackStore(br0)[k], opcount)
  PROVE  /\ \A k \in DOMAIN op.cache : Older(op.cache[k], op.id)
         /\ \A k \in DOMAIN StackStore(br) : Older(StackStore(br)[k], opcount + 1)
<1>1. /\ op \in Opcode /\ op.id = opcount /\ op.cache = StackStore(br0)
      /\ StackStore(br) = AfterRefs(op)
      /\ op.isUnnecessary => op.name \in Foldable
      /\ op.name = "swap" => op.in = 1 /\ op.out = 1 /\ op.arg \in 1 .. 16
      /\ op.name = "dup" => op.in = 0 /\ op.out = 1 /\ op.arg \in 1 .. 16
  BY DEF FlowStep, Effect
<1>2. /\ op.cache \in Seq(Ref) /\ DOMAIN op.cache = 1 .. Deep(op) /\ Deep(op) \in Nat
      /\ op.in \in Nat /\ op.out \in Nat /\ op.arg \in Nat
      /\ \A k \in 1 .. Deep(op) : op.cache[k] \in Ref
  BY <1>1 DEF Deep, Opcode
<1>3. \A k \in 1 .. Deep(op) : Older(op.cache[k], op.id)
  BY <1>1, <1>2
<1>4. \A r \in Ref : Older(r, op.id) => Older(r, opcount + 1)
  BY <1>1, LimitsAssumption DEF Older, Ref, IsConst, Words
<1>5. LowLen(op) \in Nat /\ LowLen(op) <= Deep(op)
  BY <1>2 DEF LowLen
<1>6. \A k \in 1 .. LowLen(op) : \E j \in 1 .. Deep(op) : LowRef(op, k) = op.cache[j]
  BY <1>2, <1>5 DEF LowRef, Lifted
<1>7. ASSUME NEW k \in 1 .. LowLen(op) + op.out
      PROVE  \/ \E j \in 1 .. Deep(op) : AfterRefs(op)[k] = op.cache[j]
             \/ IsConst(AfterRefs(op)[k]) \/ \E j \in Int : AfterRefs(op)[k] = Res(op.id, j)
  <2>1. CASE k <= LowLen(op)
    <3>1. k \in 1 .. LowLen(op) /\ AfterRefs(op)[k] = LowRef(op, k)
      BY <2>1, <1>5 DEF AfterRefs
    <3> QED
      BY <3>1, <1>6
  <2>2. CASE ~(k <= LowLen(op))
    <3> DEFINE j == k - LowLen(op)
    <3>1. /\ AfterRefs(op)[k] = NewRef(op, j) /\ j - 1 \in Int /\ j \in 1 .. op.out
      BY <2>2, <1>2, <1>5 DEF AfterRefs
    <3> HIDE DEF j
    <3>2. CASE op.name \in {"push", "pc"}
      BY <3>1, <3>2 DEF NewRef, Const, IsConst
    <3>3. CASE op.name = "dup" /\ op.arg <= Deep(op)
      <4>3. op.arg \in 1 .. 16 /\ op.arg <= Deep(op)
        BY <3>3, <1>1
      <4>4. \A d \in Nat : \A a \in 1 .. 16 : a <= d => d + 1 - a \in 1 .. d
        OBVIOUS
      <4>1. Deep(op) + 1 - op.arg \in 1 .. Deep(op)
        BY <4>3, <4>4, <1>2
      <4>2. NewRef(op, j) = op.cache[Deep(op) + 1 - op.arg]
        BY <3>3 DEF NewRef
      <4> QED
        BY <4>1, <4>2, <3>1
    <3>4. CASE Lifted(op)
      <4>1. Deep(op) - op.arg \in 1 .. Deep(op) /\ op.name = "swap"
        BY <3>4, <1>2 DEF Lifted
      <4>2. NewRef(op, j) = op.cache[Deep(op) - op.arg]
        BY <3>4, <4>1 DEF NewRef
      <4> QED
        BY <4>1, <4>2, <3>1
    <3>5. CASE /\ op.name \notin {"push", "pc"} /\ ~Lifted(op)
               /\ ~(op.name = "dup" /\ op.arg <= Deep(op))
      BY <3>1, <3>5 DEF NewRef, Const, IsConst
    <3> QED
      BY <3>2, <3>3, <3>4, <3>5
  <2> QED
    BY <2>1, <2>2
<1>8. \A k \in 1 .. LowLen(op) + op.out : Older(AfterRefs(op)[k], opcount + 1)
  <2> TAKE k \in 1 .. LowLen(op) + op.out
  <2>1. CASE \E j \in 1 .. Deep(op) : AfterRefs(op)[k] = op.cache[j]
    BY <2>1, <1>2, <1>3, <1>4
  <2>2. CASE IsConst(AfterRefs(op)[k])
    BY <2>2 DEF Older
  <2>3. CASE \E j \in Int : AfterRefs(op)[k] = Res(op.id, j)
    <3>1. PICK j \in Int : AfterRefs(op)[k] = Res(op.id, j)
      BY <2>3
    <3>2. Res(op.id, j)[2] = op.id
      BY DEF Res
    <3>3. op.id < opcount + 1
      BY <1>1
    <3> QED
      BY <3>1, <3>2, <3>3 DEF Older
  <2> QED
    BY <1>7, <2>1, <2>2, <2>3
<1>9. DOMAIN StackStore(br) = 1 .. LowLen(op) + op.out
  BY <1>1 DEF AfterRefs
<1> QED
  BY <1>1, <1>2, <1>3, <1>8, <1>9

(* A step of the builder leaves a branch alone, or has an opcode's effect  *)
(* on it or on a new one.                                                  *)
FlowGrown(nb, old) ==
    \E b0, br, op : /\ Branch(b0) /\ FlowStep(b0, br, op) /\ nb = With(br, op)
                    /\ b0 \in old \/ \E pc \in Nat : b0 = NewBranch(pc)

LEMMA FlowGrows ==
  ASSUME IndInv, [Next]_vars
  PROVE  /\ opcount' \in Nat /\ opcount <= opcount'
         /\ \A b \in DOMAIN branches' :
              \/ b \in DOMAIN branches /\ branches'[b] = branches[b]
              \/ /\ FlowGrown(branches'[b], {branches[j] : j \in DOMAIN branches})
                 /\ opcount' = opcount + 1
<1> DEFINE old == {branches[j] : j \in DOMAIN branches}
<1>0. opcount \in Nat
  BY CurOK
<1>1. CASE Flowed
  <2>1. PICK br, op : \E len \in Nat : FlowStep(Cur, br, op) /\ Append1(Opened, br, op, len)
    BY <1>1 DEF Flowed
  <2> DEFINE L  == Len(Opened)
  <2>2. /\ FlowStep(Cur, br, op) /\ branches' = [Opened EXCEPT ![L] = With(br, op)]
        /\ opcount' = opcount + 1
    BY <2>1 DEF Append1, With
  <2>3. /\ L \in Nat \ {0} /\ DOMAIN Opened = 1 .. L
        /\ Opened \in [1 .. L -> {Opened[b] : b \in DOMAIN Opened}]
        /\ Branch(Cur)
    BY OpenedOK DEF IndInv
  <2>4. Cur = Opened[L]
    BY DEF Cur
  <2> HIDE DEF L
  <2>5. /\ DOMAIN branches' = 1 .. L
        /\ \A b \in 1 .. L : branches'[b] = IF b = L THEN With(br, op) ELSE Opened[b]
    BY <2>2, <2>3
  <2>6. CASE branches = <<>>
    <3>1. Opened = <<NewBranch(0)>> /\ L = 1 /\ Cur = NewBranch(0)
      BY <2>6 DEF Opened, L, Cur
    <3>2. FlowGrown(With(br, op), old)
      BY <2>2, <2>3, <3>1 DEF FlowGrown
    <3> QED  BY <1>0, <2>2, <2>5, <3>1, <3>2
  <2>7. CASE branches # <<>>
    <3>1. Opened = branches /\ Cur \in old
      BY <2>3, <2>4, <2>7 DEF Opened
    <3>2. FlowGrown(With(br, op), old)
      BY <2>2, <2>3, <3>1 DEF FlowGrown
    <3>3. \A b \in 1 .. L : b = L \/ (b \in DOMAIN branches /\ branches'[b] = branches[b])
      BY <2>3, <2>5, <3>1
    <3>4. opcount' \in Nat /\ opcount <= opcount'
      BY <1>0, <2>2
    <3> QED  BY <2>2, <2>5, <3>2, <3>3, <3>4
  <2> QED  BY <2>6, <2>7
<1>2. CASE AppendJumpDest
  <2>1. PICK br, op : /\ FlowStep(NewBranch(pccount), br, op)
                     /\ branches' = Append(branches, With(br, op))
    BY <1>2, JumpDestFlow
  <2>2. branches \in Seq({branches[b] : b \in DOMAIN branches})
    BY DEF IndInv, TypeOK
  <2>3. /\ Len(branches) \in Nat /\ DOMAIN branches' = 1 .. Len(branches) + 1
        /\ \A b \in 1 .. Len(branches) : branches'[b] = branches[b]
        /\ branches'[Len(branches) + 1] = With(br, op)
        /\ DOMAIN branches = 1 .. Len(branches)
    BY <2>1, <2>2, AppendOK
  <2>4. FlowGrown(With(br, op), old)
    BY <2>1, CurOK, NewBranchOK DEF FlowGrown
  <2>5. opcount' = opcount + 1
    BY <1>2 DEF AppendJumpDest
  <2>6. opcount' \in Nat /\ opcount <= opcount'
    BY <1>0, <2>5
  <2>7. \A b \in DOMAIN branches' :
           \/ b \in DOMAIN branches /\ branches'[b] = branches[b]
           \/ branches'[b] = With(br, op)
    BY <2>3
  <2> QED  BY <2>4, <2>5, <2>6, <2>7
<1>3. CASE AppendNop \/ UNCHANGED vars
  BY <1>0, <1>3 DEF AppendNop, vars
<1> QED  BY <1>1, <1>2, <1>3, NextFlow

LEMMA FlowKept ==
  ASSUME NEW b0, Branch(b0), Flowing(b0), Young(b0), opcount \in Nat,
         NEW br, NEW op, FlowStep(b0, br, op)
  PROVE  /\ Flowing(With(br, op))
         /\ \A k \in DOMAIN StackStore(With(br, op)) :
               Older(StackStore(With(br, op))[k], opcount + 1)
<1> DEFINE nb == With(br, op)
           N  == Len(b0.opcodes)
<1>1. /\ Branch(br) /\ op \in Opcode /\ br.opcodes = b0.opcodes
      /\ Effect(op, StackStore(br)) /\ op.cache = StackStore(b0)
  BY DEF FlowStep
<1>2. nb.opcodes = Append(b0.opcodes, op)
  BY <1>1, RecordOK DEF With
<1>3. StackStore(nb) = StackStore(br)
  <2>1. /\ nb.stackPos = br.stackPos /\ nb.heapPos = br.heapPos
        /\ nb.stackRefs = br.stackRefs
    BY <1>1 DEF With, Branch, IsBranch
  <2> QED
    BY <2>1 DEF StackStore, RefAt
<1>4. b0.opcodes \in Seq(Opcode)
  BY DEF Branch, IsBranch
<1> HIDE DEF nb
<1>5. /\ N \in Nat /\ DOMAIN b0.opcodes = 1 .. N
      /\ DOMAIN nb.opcodes = 1 .. N + 1 /\ Len(nb.opcodes) = N + 1
      /\ \A n \in 1 .. N : nb.opcodes[n] = b0.opcodes[n]
      /\ nb.opcodes[N + 1] = op
  BY <1>1, <1>2, <1>4
<1> HIDE DEF N
<1>6. \A n \in 1 .. N + 1 : CacheAt(nb, n) = CacheAt(b0, n)
  <2> TAKE n \in 1 .. N + 1
  <2>1. CASE n <= N
    BY <1>5, <2>1 DEF CacheAt, N
  <2>2. CASE n = N + 1
    BY <1>1, <1>5, <2>2 DEF CacheAt, N
  <2> QED
    BY <1>5, <2>1, <2>2
<1>7. CacheAt(nb, N + 2) = StackStore(br)
  BY <1>3, <1>5 DEF CacheAt
<1>8. CacheAt(nb, 1) = <<>>
  BY <1>5, <1>6 DEF Flowing
<1>9. /\ \A k \in DOMAIN op.cache : Older(op.cache[k], op.id)
      /\ \A k \in DOMAIN StackStore(br) : Older(StackStore(br)[k], opcount + 1)
  BY AfterOlder DEF Young
<1>10. ASSUME NEW n \in DOMAIN nb.opcodes
       PROVE  /\ Effect(nb.opcodes[n], CacheAt(nb, n + 1))
              /\ \A k \in DOMAIN nb.opcodes[n].cache :
                    Older(nb.opcodes[n].cache[k], nb.opcodes[n].id)
  <2>1. CASE n \in 1 .. N
    <3>1. n + 1 \in 1 .. N + 1 /\ n \in DOMAIN b0.opcodes
      BY <1>5, <2>1
    <3>2. CacheAt(nb, n + 1) = CacheAt(b0, n + 1) /\ nb.opcodes[n] = b0.opcodes[n]
      BY <3>1, <1>5, <1>6, <2>1
    <3>3. /\ Effect(b0.opcodes[n], CacheAt(b0, n + 1))
          /\ \A k \in DOMAIN b0.opcodes[n].cache :
                Older(b0.opcodes[n].cache[k], b0.opcodes[n].id)
      BY <3>1 DEF Flowing
    <3> QED
      BY <3>2, <3>3
  <2>2. CASE n = N + 1
    <3>1. n + 1 = N + 2
      BY <1>5, <2>2
    <3> QED
      BY <3>1, <1>1, <1>5, <1>7, <1>9, <2>2
  <2> QED
    BY <1>5, <2>1, <2>2
<1> QED
  BY <1>3, <1>8, <1>9, <1>10 DEF Flowing, nb

LEMMA NewFlowing ==
  ASSUME NEW pc \in Nat
  PROVE  Flowing(NewBranch(pc)) /\ Young(NewBranch(pc))
<1>1. StackStore(NewBranch(pc)) = <<>>
  <2>1. Branch(NewBranch(pc)) /\ NewBranch(pc).stackPos - NewBranch(pc).heapPos = 0
    BY NewBranchOK DEF NewBranch
  <2>2. StackStore(NewBranch(pc)) \in Seq(Ref) /\ Len(StackStore(NewBranch(pc))) = 0
    BY <2>1, StoreIs, StackStoreOK
  <2> QED
    BY <2>2, EmptySeq
<1>2. NewBranch(pc).opcodes = <<>>
  BY NewBranchOK
<1> QED
  BY <1>1, <1>2 DEF Flowing, Young, CacheAt

LEMMA StepFlows ==
  ASSUME IndInv, Flows, [Next]_vars
  PROVE  Flows'
<1>0. opcount \in Nat /\ \A b \in DOMAIN branches : Branch(branches[b])
  BY CurOK DEF IndInv, TypeOK, CacheContiguous, Branch
<1>1. opcount' \in Nat /\ opcount <= opcount'
  BY FlowGrows
<1> SUFFICES ASSUME NEW b \in DOMAIN branches'
             PROVE  Flowing(branches'[b]) /\ Young(branches[b])'
  BY DEF Flows
<1>2. CASE b \in DOMAIN branches /\ branches'[b] = branches[b]
  <2>1. Flowing(branches[b]) /\ Young(branches[b])
    BY <1>2 DEF Flows
  <2>2. \A r : Older(r, opcount) /\ r \in Ref => Older(r, opcount')
    BY <1>0, <1>1, LimitsAssumption DEF Older, Ref, IsConst, Words
  <2>3. \A k \in DOMAIN StackStore(branches[b]) : StackStore(branches[b])[k] \in Ref
    <3>1. StackStore(branches[b]) \in Seq(Ref)
      BY <1>0, <1>2, StackStoreOK
    <3> QED
      BY <3>1
  <2> QED
    BY <1>2, <2>1, <2>2, <2>3 DEF Young
<1>3. CASE /\ FlowGrown(branches'[b], {branches[j] : j \in DOMAIN branches})
           /\ opcount' = opcount + 1
  <2>1. PICK b0, br, op :
           /\ Branch(b0) /\ FlowStep(b0, br, op) /\ branches'[b] = With(br, op)
           /\ b0 \in {branches[j] : j \in DOMAIN branches} \/ \E pc \in Nat : b0 = NewBranch(pc)
    BY <1>3 DEF FlowGrown
  <2>2. Flowing(b0) /\ Young(b0)
    BY <2>1, NewFlowing DEF Flows
  <2>3. /\ Flowing(With(br, op))
        /\ \A k \in DOMAIN StackStore(With(br, op)) :
               Older(StackStore(With(br, op))[k], opcount + 1)
    BY <1>0, <2>1, <2>2, FlowKept
  <2> QED
    BY <1>3, <2>1, <2>3 DEF Young
<1> QED
  BY <1>2, <1>3, FlowGrows

(* Every opcode moves the cache as its instruction moves the stack: the    *)
(* operands it was given are the words on top, cached or loaded, and the   *)
(* cache the next opcode finds has its results in their place.             *)
THEOREM CacheFlows == Spec => []Flows
<1>1. Init => Flows
  BY DEF Init, Flows
<1>2. IndInv /\ Flows /\ [Next]_vars => Flows'
  BY StepFlows
<1> QED  BY <1>1, <1>2, Inductive, PTL DEF Spec

=============================================================================
