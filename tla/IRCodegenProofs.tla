-------------------------- MODULE IRCodegenProofs ---------------------------
(***************************************************************************)
(* Proofs about the code generator, for every instance of its constants.   *)
(***************************************************************************)
EXTENDS IRCodegen, IRFunctionProofs

-----------------------------------------------------------------------------
(* Largest and smallest members.                                           *)

LEMMA MaxOK ==
  ASSUME NEW a \in Int, NEW b \in Int, NEW S \in SUBSET (a .. b), S # {}
  PROVE  Max(S) \in S /\ \A y \in S : y <= Max(S)
<1> DEFINE f == [n \in a .. b |-> IF n \in S THEN n ELSE a - 1]
<1> PICK s \in S : TRUE
  OBVIOUS
<1>1. s \in a .. b /\ a <= b
  OBVIOUS
<1>2. \A n \in a .. b : f[n] \in Int /\ f[n] = IF n \in S THEN n ELSE a - 1
  OBVIOUS
<1> HIDE DEF f
<1>3. PICK m \in a .. b : \A n \in a .. b : f[n] <= f[m]
  BY <1>1, <1>2, Largest
<1>4. m \in S
  <2>1. f[s] <= f[m] /\ f[s] = s /\ s >= a
    BY <1>1, <1>2, <1>3
  <2> QED  BY <1>2, <2>1
<1>5. \A y \in S : y <= m
  BY <1>2, <1>3, <1>4
<1>6. \E x \in S : \A y \in S : x >= y
  BY <1>4, <1>5
<1> QED  BY <1>6 DEF Max

LEMMA MinOK ==
  ASSUME NEW a \in Int, NEW b \in Int, NEW S \in SUBSET (a .. b), S # {}
  PROVE  Min(S) \in S /\ \A y \in S : Min(S) <= y
<1> DEFINE f == [n \in a .. b |-> IF n \in S THEN 0 - n ELSE (0 - b) - 1]
<1> PICK s \in S : TRUE
  OBVIOUS
<1>1. s \in a .. b /\ a <= b
  OBVIOUS
<1>2. \A n \in a .. b : f[n] \in Int /\ f[n] = IF n \in S THEN 0 - n ELSE (0 - b) - 1
  OBVIOUS
<1> HIDE DEF f
<1>3. PICK m \in a .. b : \A n \in a .. b : f[n] <= f[m]
  BY <1>1, <1>2, Largest
<1>4. m \in S
  <2>1. f[s] <= f[m] /\ f[s] = 0 - s /\ s <= b
    BY <1>1, <1>2, <1>3
  <2> QED  BY <1>2, <2>1
<1>5. \A y \in S : m <= y
  BY <1>2, <1>3, <1>4
<1>6. \E x \in S : \A y \in S : x <= y
  BY <1>4, <1>5
<1> QED  BY <1>6 DEF Min

(* The same for the values of a function on an interval.                   *)
LEMMA MaxOfOK ==
  ASSUME NEW a \in Int, NEW b \in Int, a <= b, NEW f, \A n \in a .. b : f[n] \in Int
  PROVE  LET S == {f[n] : n \in a .. b}
         IN  Max(S) \in S /\ \A y \in S : y <= Max(S)
<1> DEFINE S == {f[n] : n \in a .. b}
<1>1. PICK m \in a .. b : \A n \in a .. b : f[n] <= f[m]
  BY Largest
<1>2. \E x \in S : \A y \in S : x >= y
  BY <1>1
<1>3. Max(S) \in S /\ \A y \in S : Max(S) >= y
  BY <1>2 DEF Max
<1> QED  BY <1>3

-----------------------------------------------------------------------------
(* The batched check of a run of opcodes.                                  *)

(* What the builder leaves of a branch's opcodes; marking them leaves it.  *)
Ready(ops) ==
    /\ ops \in Seq(Opcode)
    /\ \A n \in DOMAIN ops : HeightChecked(ops, n) /\ Needs(ops[n])
    /\ \A m, n \in DOMAIN ops :
          (m < n /\ ops[m].stackCheck > 0 /\ ops[n].stackCheck > 0)
              => ops[m].stackCheck < ops[n].stackCheck

LEMMA ReadyFields ==
  ASSUME NEW ops, Ready(ops)
  PROVE  /\ Len(ops) \in Nat /\ DOMAIN ops = 1 .. Len(ops)
         /\ \A n \in 1 .. Len(ops) :
               /\ ops[n] \in Opcode
               /\ ops[n].gas \in Nat /\ ops[n].stackLoad \in Nat
               /\ ops[n].stackAddLoad \in Nat /\ ops[n].stackCheck \in Nat
               /\ ops[n].in \in Nat /\ ops[n].out \in Nat
               /\ Len(ops[n].cache) \in Nat /\ Takes(ops[n]) \in Nat
               /\ LoadOf(ops)[n] = ops[n].stackLoad /\ GasOf(ops)[n] = ops[n].gas
               /\ LoadOf(ops)[n] \in Nat /\ GasOf(ops)[n] \in Nat
         /\ \A n \in Int : LoadsTo(ops, n) = Total(LoadOf(ops), 1, n)
<1>1. Len(ops) \in Nat /\ DOMAIN ops = 1 .. Len(ops)
      /\ \A n \in 1 .. Len(ops) : ops[n] \in Opcode
  BY LenProperties, ElementOfSeq DEF Ready
<1>2. \A o \in Opcode :
        /\ o.gas \in Nat /\ o.stackLoad \in Nat /\ o.stackAddLoad \in Nat
        /\ o.stackCheck \in Nat /\ o.in \in Nat /\ o.out \in Nat /\ o.arg \in Nat
        /\ o.cache \in Seq(Ref)
  BY DEF Opcode
<1>3. \A o \in Opcode : Len(o.cache) \in Nat /\ Takes(o) \in Nat
  BY <1>2, LenProperties DEF Takes
<1>4. \A n \in 1 .. Len(ops) : /\ LoadOf(ops)[n] = ops[n].stackLoad
                               /\ GasOf(ops)[n] = ops[n].gas
  BY <1>1 DEF LoadOf, GasOf
<1>5. EmittedLoads(ops) = LoadOf(ops)
  <2>1. \A n \in DOMAIN ops : ops[n].isUnnecessary => ops[n].stackLoad = 0
    BY DEF Ready, Needs
  <2> QED  BY <2>1 DEF EmittedLoads, LoadOf
<1> QED  BY <1>1, <1>2, <1>3, <1>4, <1>5 DEF LoadsTo

(* Sums over a run starting at k.                                          *)
LEMMA RunSums ==
  ASSUME NEW x, NEW k \in Nat \ {0}, NEW e \in Nat, \A n \in 1 .. e : x[n] \in Nat
  PROVE  /\ Total(x, k, k - 1) = 0
         /\ \A n \in k .. e :
               /\ Total(x, k, n - 1) \in Nat /\ Total(x, k, n) \in Nat
               /\ Total(x, k, n) = Total(x, k, n - 1) + x[n]
               /\ Total(x, 1, n - 1) = Total(x, 1, k - 1) + Total(x, k, n - 1)
         /\ \A m, n \in k .. e : m <= n => Total(x, k, m) <= Total(x, k, n)
         /\ Total(x, 1, k - 1) \in Nat \/ k > e + 1
<1>1. Total(x, k, k - 1) = 0
  BY TotalRec
<1>2. ASSUME NEW n \in k .. e
      PROVE  /\ Total(x, k, n - 1) \in Nat /\ Total(x, k, n) \in Nat
             /\ Total(x, k, n) = Total(x, k, n - 1) + x[n]
             /\ Total(x, 1, n - 1) = Total(x, 1, k - 1) + Total(x, k, n - 1)
  <2>1. Total(x, k, n) = Total(x, k, n - 1) + x[n]
    BY TotalRec
  <2>2. Total(x, k, n - 1) \in Nat /\ Total(x, k, n) \in Nat
    <3>1. n - 1 \in Int /\ n - 1 >= k - 1 /\ n >= k - 1
          /\ (\A i \in k .. n - 1 : x[i] \in Nat) /\ (\A i \in k .. n : x[i] \in Nat)
      OBVIOUS
    <3> QED  BY <3>1, TotalNat
  <2>3. Total(x, 1, n - 1) = Total(x, 1, k - 1) + Total(x, k, n - 1)
    <3> DEFINE mid == k - 1
               to == n - 1
    <3>1. mid \in Int /\ to \in Int /\ 1 - 1 <= mid /\ mid <= to
          /\ (\A i \in 1 .. to : x[i] \in Nat) /\ mid + 1 = k
      OBVIOUS
    <3> HIDE DEF mid, to
    <3>2. Total(x, 1, to) = Total(x, 1, mid) + Total(x, mid + 1, to)
      BY <3>1, TotalSplit
    <3> QED  BY <3>1, <3>2 DEF mid, to
  <2> QED  BY <2>1, <2>2, <2>3
<1>3. ASSUME NEW m \in k .. e, NEW n \in k .. e, m <= n
      PROVE  Total(x, k, m) <= Total(x, k, n)
  <2>1. Total(x, k, n) = Total(x, k, m) + Total(x, m + 1, n)
    <3>1. k - 1 <= m /\ m <= n /\ \A i \in k .. n : x[i] \in Nat
      BY <1>3
    <3> QED  BY <3>1, TotalSplit
  <2>2. Total(x, m + 1, n) \in Nat
    <3>1. m + 1 \in Int /\ n >= m + 1 - 1 /\ \A i \in m + 1 .. n : x[i] \in Nat
      BY <1>3
    <3> QED  BY <3>1, TotalNat
  <2> QED  BY <1>2, <2>1, <2>2
<1>4. Total(x, 1, k - 1) \in Nat \/ k > e + 1
  <2>1. CASE k <= e + 1
    <3>1. k - 1 \in Int /\ k - 1 >= 1 - 1 /\ \A i \in 1 .. k - 1 : x[i] \in Nat
      BY <2>1
    <3> QED  BY <3>1, TotalNat
  <2> QED  BY <2>1
<1> QED  BY <1>1, <1>2, <1>3, <1>4

(* A run k .. e of a branch and what it finds: sp words in the memory      *)
(* stack, which the branch has not overflowed so far, and gas g.           *)
RunAt(ops, k, e, sp, g) ==
    /\ Ready(ops) /\ k \in 1 .. Len(ops) /\ e \in k .. Len(ops)
    /\ sp \in 0 .. StackSize /\ g \in 0 .. CountLimit - 1
    /\ sp + LoadedBefore(ops, k) + MaxBefore(ops, k) <= StackSize

Left(ops, k, g, n)   == g - Total(GasOf(ops), k, n - 1)
Poor(ops, k, g, n)   == Left(ops, k, g, n) < ops[n].gas
Under(ops, k, sp, n) == Height(ops, k, n, sp) < Takes(ops[n])
Grew(ops, k, sp, n)  == Height(ops, k, n, sp) - ops[n].in + ops[n].out > StackSize
Bad(ops, k, e, sp, g) ==
    {n \in k .. e : Poor(ops, k, g, n) \/ Under(ops, k, sp, n) \/ Grew(ops, k, sp, n)}

LEMMA SteppedIs ==
  ASSUME NEW ops, NEW k, NEW e, NEW sp, NEW g
  PROVE  LET bad == Bad(ops, k, e, sp, g)
             n   == Min(bad)
         IN  StepByStep(ops, k, e, sp, g) =
               IF bad = {} THEN Go(Left(ops, k, g, e + 1))
               ELSE IF Poor(ops, k, g, n) THEN Fail(-13, ops[n].pc, Left(ops, k, g, n))
               ELSE Fail(IF Under(ops, k, sp, n) THEN -10 ELSE -11, ops[n].pc,
                         Left(ops, k, g, n + 1))
BY DEF StepByStep, Bad, Poor, Under, Grew, Left

(* Gas: the sum up to an opcode is missing exactly when some opcode up to  *)
(* it is poor.                                                             *)
LEMMA RunFacts ==
  ASSUME NEW ops, NEW k, NEW e, NEW sp, NEW g, RunAt(ops, k, e, sp, g)
  PROVE  /\ k \in Nat /\ k >= 1 /\ e \in Nat /\ k <= e /\ e <= Len(ops) /\ Len(ops) \in Nat
         /\ DOMAIN ops = 1 .. Len(ops)
         /\ sp \in Nat /\ g \in Nat /\ g < CountLimit /\ sp <= StackSize
         /\ StackSize \in Nat /\ CountLimit \in Nat /\ StackSize < CountLimit
         /\ LoadedBefore(ops, k) \in Nat
         /\ Total(LoadOf(ops), k, k - 1) = 0 /\ Total(GasOf(ops), k, k - 1) = 0
         /\ \A n \in k .. e :
               /\ Total(LoadOf(ops), k, n - 1) \in Nat
               /\ Total(GasOf(ops), k, n - 1) \in Nat
               /\ Total(LoadOf(ops), k, n) = Total(LoadOf(ops), k, n - 1) + ops[n].stackLoad
               /\ Total(GasOf(ops), k, n) = Total(GasOf(ops), k, n - 1) + ops[n].gas
               /\ LoadsTo(ops, n - 1)
                     = LoadedBefore(ops, k) + Total(LoadOf(ops), k, n - 1)
         /\ \A m, n \in k .. e : m <= n =>
               /\ Total(LoadOf(ops), k, m) <= Total(LoadOf(ops), k, n)
               /\ Total(GasOf(ops), k, m) <= Total(GasOf(ops), k, n)
<1>1. /\ Len(ops) \in Nat /\ DOMAIN ops = 1 .. Len(ops)
      /\ \A n \in 1 .. Len(ops) :
            /\ LoadOf(ops)[n] \in Nat /\ GasOf(ops)[n] \in Nat
            /\ LoadOf(ops)[n] = ops[n].stackLoad /\ GasOf(ops)[n] = ops[n].gas
      /\ \A n \in Int : LoadsTo(ops, n) = Total(LoadOf(ops), 1, n)
  BY ReadyFields DEF RunAt
<1>2. /\ k \in Nat \ {0} /\ e \in Nat /\ k <= e /\ e <= Len(ops)
      /\ sp \in 0 .. StackSize /\ g \in 0 .. CountLimit - 1
  BY <1>1 DEF RunAt
<1>3. \A n \in 1 .. e : LoadOf(ops)[n] \in Nat /\ GasOf(ops)[n] \in Nat
  BY <1>1, <1>2
<1> DEFINE lo == LoadOf(ops)
           ga == GasOf(ops)
<1> HIDE DEF lo, ga
<1>4. /\ Total(lo, k, k - 1) = 0
      /\ \A n \in k .. e :
            /\ Total(lo, k, n - 1) \in Nat
            /\ Total(lo, k, n) = Total(lo, k, n - 1) + lo[n]
            /\ Total(lo, 1, n - 1) = Total(lo, 1, k - 1) + Total(lo, k, n - 1)
      /\ \A m, n \in k .. e : m <= n => Total(lo, k, m) <= Total(lo, k, n)
      /\ Total(lo, 1, k - 1) \in Nat
  <2>1. \A n \in 1 .. e : lo[n] \in Nat
    BY <1>3 DEF lo
  <2>2. ~(k > e + 1)
    BY <1>2
  <2> QED  BY <1>2, <2>1, <2>2, RunSums
<1>5. /\ Total(ga, k, k - 1) = 0
      /\ \A n \in k .. e :
            /\ Total(ga, k, n - 1) \in Nat
            /\ Total(ga, k, n) = Total(ga, k, n - 1) + ga[n]
      /\ \A m, n \in k .. e : m <= n => Total(ga, k, m) <= Total(ga, k, n)
  <2>1. \A n \in 1 .. e : ga[n] \in Nat
    BY <1>3 DEF ga
  <2> QED  BY <1>2, <2>1, RunSums
<1>6. \A n \in k .. e : /\ n \in 1 .. Len(ops) /\ n - 1 \in Int
                        /\ lo[n] = ops[n].stackLoad /\ ga[n] = ops[n].gas
  BY <1>1, <1>2 DEF lo, ga
<1>7. \A n \in Int : LoadsTo(ops, n) = Total(lo, 1, n)
  BY <1>1 DEF lo
<1>8. LoadedBefore(ops, k) = Total(lo, 1, k - 1)
  BY DEF LoadedBefore, lo
<1>9. StackSize \in Nat /\ CountLimit \in Nat /\ StackSize < CountLimit
  BY CountAssumption
<1>10. sp \in Nat /\ g \in Nat /\ g < CountLimit /\ sp <= StackSize
  BY <1>2, <1>9
<1> QED  BY <1>1, <1>2, <1>4, <1>5, <1>6, <1>7, <1>8, <1>9, <1>10 DEF lo, ga

LEMMA OpFacts ==
  ASSUME NEW ops, NEW k, NEW e, NEW sp, NEW g, RunAt(ops, k, e, sp, g), NEW n \in k .. e
  PROVE  /\ ops[n].gas \in Nat /\ ops[n].stackLoad \in Nat
         /\ ops[n].stackAddLoad \in Nat /\ ops[n].stackCheck \in Nat
         /\ ops[n].in \in Nat /\ ops[n].out \in Nat
         /\ Len(ops[n].cache) \in Nat /\ Takes(ops[n]) \in Nat
         /\ HeightChecked(ops, n) /\ Fetches(ops[n])
<1>1. n \in 1 .. Len(ops) /\ DOMAIN ops = 1 .. Len(ops) /\ Ready(ops)
  BY RunFacts DEF RunAt
<1> QED  BY <1>1, ReadyFields DEF Ready, Needs

(* An opcode is poor exactly when its minGas is missing.                   *)
LEMMA PoorIs ==
  ASSUME NEW ops, NEW k, NEW e, NEW sp, NEW g, RunAt(ops, k, e, sp, g), NEW n \in k .. e
  PROVE  /\ OpCheck(ops, k, n).minGas = Total(GasOf(ops), k, n)
         /\ Total(GasOf(ops), k, n) \in Nat
         /\ Poor(ops, k, g, n) <=> g < Total(GasOf(ops), k, n)
         /\ ~Poor(ops, k, g, n) => Left(ops, k, g, n + 1) \in 0 .. CountLimit - 1
         /\ Left(ops, k, g, n + 1) = g - Total(GasOf(ops), k, n)
<1>1. /\ ops[n].gas \in Nat /\ g \in Nat /\ g < CountLimit /\ CountLimit \in Nat
      /\ Total(GasOf(ops), k, n - 1) \in Nat /\ n \in Int
      /\ Total(GasOf(ops), k, n) = Total(GasOf(ops), k, n - 1) + ops[n].gas
  BY OpFacts, RunFacts, SMTT(30)
<1>2. n + 1 - 1 = n
  BY <1>1
<1>3. Left(ops, k, g, n + 1) = g - Total(GasOf(ops), k, n)
  BY <1>2 DEF Left
<1>4. OpCheck(ops, k, n).minGas = Total(GasOf(ops), k, n)
  BY DEF OpCheck
<1> QED  BY <1>1, <1>3, <1>4 DEF Poor, Left

(* An opcode that lacks a word has less than its StackIn; it lacks one if  *)
(* it is the first with less than its StackIn.                             *)
LEMMA UnderIs ==
  ASSUME NEW ops, NEW k, NEW e, NEW sp, NEW g, RunAt(ops, k, e, sp, g), NEW n \in k .. e
  PROVE  /\ StackIn(ops, k, n) \in Nat
         /\ Under(ops, k, sp, n) => sp < StackIn(ops, k, n)
         /\ (sp < StackIn(ops, k, n) /\ \A i \in k .. n - 1 : StackIn(ops, k, i) <= sp)
               => Under(ops, k, sp, n)
<1> DEFINE T    == Total(LoadOf(ops), k, n - 1)
           load == ops[n].stackLoad
           add  == ops[n].stackAddLoad
           len  == Len(ops[n].cache)
           tk   == Takes(ops[n])
<1>1. /\ T \in Nat /\ load \in Nat /\ add \in Nat /\ len \in Nat /\ tk \in Nat
      /\ Total(LoadOf(ops), k, n) = T + load
      /\ sp \in Nat /\ n \in Int /\ k \in Nat /\ n >= k /\ e \in Nat /\ n <= e
  BY OpFacts, RunFacts, SMTT(30)
<1>2. load + add = IF tk > len THEN tk - len ELSE 0
  BY OpFacts DEF Fetches
<1>3. StackIn(ops, k, n) = T + load + add
  BY <1>1 DEF StackIn
<1>4. Under(ops, k, sp, n) <=> (sp - T) + len < tk
  BY DEF Under, Height
<1>5. ASSUME \A i \in k .. n - 1 : StackIn(ops, k, i) <= sp
      PROVE  T <= sp
  <2>1. CASE n = k
    BY <1>1, <2>1, RunFacts
  <2>2. CASE n # k
    <3>1. n - 1 \in k .. n - 1 /\ n - 1 \in k .. e
      BY <1>1, <2>2
    <3>2. StackIn(ops, k, n - 1) = T + ops[n - 1].stackAddLoad
      BY DEF StackIn
    <3>3. ops[n - 1].stackAddLoad \in Nat
      BY <3>1, OpFacts
    <3> QED  BY <1>1, <1>5, <3>1, <3>2, <3>3
  <2> QED  BY <2>1, <2>2
<1> HIDE DEF T, load, add, len, tk
<1> QED  BY <1>1, <1>2, <1>3, <1>4, <1>5

(* If some opcode up to n has less than its StackIn, one up to n lacks a   *)
(* word.                                                                   *)
LEMMA FirstUnder ==
  ASSUME NEW ops, NEW k, NEW e, NEW sp, NEW g, RunAt(ops, k, e, sp, g), NEW n \in k .. e,
         sp < StackIn(ops, k, n)
  PROVE  \E i \in k .. n : Under(ops, k, sp, i)
<1> DEFINE S == {i \in k .. n : sp < StackIn(ops, k, i)}
           m == Min(S)
<1>1. /\ k \in Int /\ n \in Int /\ e \in Int /\ n \in S /\ S \in SUBSET (k .. n)
      /\ sp \in Nat
  BY RunFacts
<1> HIDE DEF S
<1>2. m \in S /\ \A y \in S : m <= y
  BY <1>1, MinOK
<1> HIDE DEF m
<1>3. m \in k .. n /\ m \in k .. e /\ sp < StackIn(ops, k, m)
  BY <1>1, <1>2 DEF S
<1>4. \A i \in k .. m - 1 : i \notin S /\ i \in k .. n /\ i \in k .. e
  BY <1>1, <1>2, <1>3
<1>5. \A i \in k .. m - 1 : StackIn(ops, k, i) <= sp
  <2> TAKE i \in k .. m - 1
  <2>1. ~(sp < StackIn(ops, k, i)) /\ StackIn(ops, k, i) \in Nat
    BY <1>4, UnderIs DEF S
  <2> QED  BY <1>1, <2>1
<1>6. Under(ops, k, sp, m)
  BY <1>3, <1>5, UnderIs
<1> QED  BY <1>3, <1>6

(* The height an opcode reaches.                                           *)
LEMMA GrewIs ==
  ASSUME NEW ops, NEW k, NEW e, NEW sp, NEW g, RunAt(ops, k, e, sp, g), NEW n \in k .. e
  PROVE  /\ HeightAfter(ops, n) \in Int
         /\ Grew(ops, k, sp, n)
              <=> sp + LoadedBefore(ops, k) + HeightAfter(ops, n) > StackSize
<1>1. /\ Total(LoadOf(ops), k, n - 1) \in Nat /\ Len(ops[n].cache) \in Nat
      /\ ops[n].in \in Nat /\ ops[n].out \in Nat
      /\ LoadsTo(ops, n - 1) = LoadedBefore(ops, k) + Total(LoadOf(ops), k, n - 1)
      /\ LoadedBefore(ops, k) \in Nat /\ sp \in Nat /\ StackSize \in Nat
  BY OpFacts, RunFacts, SMTT(30)
<1> DEFINE T   == Total(LoadOf(ops), k, n - 1)
           len == Len(ops[n].cache)
           in  == ops[n].in
           out == ops[n].out
<1>2. HeightAfter(ops, n) = len - LoadsTo(ops, n - 1) - in + out
  BY DEF HeightAfter
<1>3. Grew(ops, k, sp, n) <=> ((sp - T) + len) - in + out > StackSize
  BY DEF Grew, Height
<1> HIDE DEF T, len, in, out
<1>4. HeightAfter(ops, n) = len - (LoadedBefore(ops, k) + T) - in + out
  BY <1>1, <1>2 DEF T
<1>5. T \in Nat /\ len \in Nat /\ in \in Nat /\ out \in Nat
  BY <1>1 DEF T, len, in, out
<1>6. LoadedBefore(ops, k) \in Nat /\ sp \in Nat /\ StackSize \in Nat
  BY <1>1
<1> DEFINE h == HeightAfter(ops, n)
           L == LoadedBefore(ops, k)
<1>7. h = len - (L + T) - in + out /\ L \in Nat
  BY <1>4, <1>6
<1> HIDE DEF h, L
<1>8. h \in Int
  BY <1>5, <1>7
<1>9. sp + L + h = ((sp - T) + len) - in + out
  BY <1>5, <1>6, <1>7
<1> QED  BY <1>3, <1>8, <1>9 DEF h, L

(* The template's bound never finds an overflow where there is none, and   *)
(* finds it if the bound does not wrap.                                    *)
LEMMA OverIs ==
  ASSUME NEW sp \in 0 .. StackSize, NEW max \in Nat
  PROVE  /\ Over(sp, max) => max > 0 /\ sp + max > StackSize
         /\ (max > 0 /\ max <= StackSize /\ sp + max > StackSize) => Over(sp, max)
<1>1. StackSize \in Nat /\ CountLimit \in Nat /\ StackSize < CountLimit
  BY CountAssumption
<1>2. CASE max > StackSize
  BY <1>1, <1>2 DEF Over
<1>3. CASE max <= StackSize
  <2>1. Sub(StackSize, max) = StackSize - max
    <3> DEFINE d == StackSize - max
    <3>1. d \in 0 .. CountLimit - 1
      BY <1>1, <1>3
    <3> HIDE DEF d
    <3>2. d % CountLimit = d
      BY <1>1, <3>1
    <3> QED  BY <3>2 DEF Sub, d
  <2> QED  BY <1>1, <1>3, <2>1 DEF Over
<1> QED  BY <1>1, <1>2, <1>3

(* The parameters of the template.                                         *)
LEMMA ChecksAre ==
  ASSUME NEW ops, NEW k, NEW e, NEW sp, NEW g, RunAt(ops, k, e, sp, g)
  PROVE  LET c == Checks(ops, k, e)
         IN  /\ c.gas = Total(GasOf(ops), k, e)
             /\ \E n \in k .. e : c.min = StackIn(ops, k, n)
             /\ \A n \in k .. e : StackIn(ops, k, n) <= c.min
             /\ c.max \in Nat
             /\ c.max > 0 => \E n \in k .. e : c.max = ops[n].stackCheck
             /\ \A n \in k .. e : ops[n].stackCheck <= c.max
             /\ DOMAIN c.ops = {n \in k .. e : MayFail(OpCheck(ops, k, n))}
             /\ \A n \in DOMAIN c.ops : c.ops[n] = OpCheck(ops, k, n)
<1> DEFINE c    == Checks(ops, k, e)
           outs == {n \in k .. e : ops[n].stackCheck > 0}
           f    == [n \in k .. e |-> StackIn(ops, k, n)]
<1>1. /\ k \in Int /\ e \in Int /\ k <= e /\ k >= 1 /\ DOMAIN ops = 1 .. Len(ops)
      /\ e <= Len(ops) /\ Len(ops) \in Nat
  BY RunFacts
<1>2. \A n \in k .. e : StackIn(ops, k, n) \in Int /\ ops[n].stackCheck \in Nat
  BY UnderIs, OpFacts
<1>3. c.gas = Total(GasOf(ops), k, e)
  BY DEF Checks
<1>4. c.min = Max({StackIn(ops, k, n) : n \in k .. e})
  BY DEF Checks
<1>5. c.max = IF outs = {} THEN 0 ELSE ops[Max(outs)].stackCheck
  BY DEF Checks
<1>6. c.ops = [n \in {m \in k .. e : MayFail(OpCheck(ops, k, m))} |-> OpCheck(ops, k, n)]
  BY DEF Checks
<1> HIDE DEF c
<1>7. /\ \E n \in k .. e : c.min = StackIn(ops, k, n)
      /\ \A n \in k .. e : StackIn(ops, k, n) <= c.min
  <2>1. \A n \in k .. e : f[n] \in Int /\ f[n] = StackIn(ops, k, n)
    BY <1>2
  <2> HIDE DEF f
  <2>2. Max({f[n] : n \in k .. e}) \in {f[n] : n \in k .. e}
        /\ \A y \in {f[n] : n \in k .. e} : y <= Max({f[n] : n \in k .. e})
    BY <1>1, <2>1, MaxOfOK, ZenonT(30)
  <2>3. {f[n] : n \in k .. e} = {StackIn(ops, k, n) : n \in k .. e}
    BY <2>1
  <2> QED  BY <1>4, <2>1, <2>2, <2>3
<1>8. /\ c.max \in Nat
      /\ c.max > 0 => \E n \in k .. e : c.max = ops[n].stackCheck
      /\ \A n \in k .. e : ops[n].stackCheck <= c.max
  <2>1. CASE outs = {}
    BY <1>2, <1>5, <2>1
  <2>2. CASE outs # {}
    <3> DEFINE m == Max(outs)
    <3>1. outs \in SUBSET (k .. e)
      OBVIOUS
    <3> HIDE DEF outs
    <3>2. m \in outs /\ \A y \in outs : y <= m
      BY <1>1, <2>2, <3>1, MaxOK
    <3>3. c.max = ops[m].stackCheck /\ m \in k .. e /\ ops[m].stackCheck > 0
      BY <1>5, <2>2, <3>2 DEF outs
    <3> HIDE DEF m
    <3>4. ASSUME NEW n \in k .. e, ops[n].stackCheck > 0
          PROVE  ops[n].stackCheck <= ops[m].stackCheck
      <4>1. n <= m
        BY <3>2, <3>4 DEF outs
      <4>2. CASE n = m
        BY <1>2, <3>4, <4>2
      <4>3. CASE n < m
        <5>1. n \in DOMAIN ops /\ m \in DOMAIN ops
          BY <1>1, <3>3
        <5>2. ops[n].stackCheck < ops[m].stackCheck
          BY <3>3, <3>4, <4>3, <5>1 DEF RunAt, Ready
        <5> QED  BY <1>2, <3>3, <5>2
      <4> QED  BY <1>1, <3>3, <4>1, <4>2, <4>3
    <3> QED  BY <1>2, <3>3, <3>4
  <2> QED  BY <2>1, <2>2
<1>9. /\ DOMAIN c.ops = {n \in k .. e : MayFail(OpCheck(ops, k, n))}
      /\ \A n \in DOMAIN c.ops : c.ops[n] = OpCheck(ops, k, n)
  BY <1>6
<1> QED  BY <1>3, <1>7, <1>8, <1>9 DEF c

(* An opcode with a new maximum that the words exceed overflows.           *)
LEMMA OverGrew ==
  ASSUME NEW ops, NEW k, NEW e, NEW sp, NEW g, RunAt(ops, k, e, sp, g), NEW n \in k .. e,
         Over(sp, ops[n].stackCheck)
  PROVE  Grew(ops, k, sp, n)
<1>1. /\ ops[n].stackCheck \in Nat /\ sp \in 0 .. StackSize
      /\ LoadedBefore(ops, k) \in Nat /\ sp \in Nat /\ StackSize \in Nat
  BY OpFacts, RunFacts DEF RunAt
<1>2. ops[n].stackCheck > 0 /\ sp + ops[n].stackCheck > StackSize
  BY <1>1, OverIs
<1>3. ops[n].stackCheck = HeightAfter(ops, n)
  BY <1>2, OpFacts DEF HeightChecked
<1> QED  BY <1>1, <1>2, <1>3, GrewIs

(* What the template blames, some opcode of the run up to there has done.  *)
LEMMA BlamesBad ==
  ASSUME NEW ops, NEW k, NEW e, NEW sp, NEW g, RunAt(ops, k, e, sp, g), NEW n \in k .. e,
         Blames(OpCheck(ops, k, n), sp, g)
  PROVE  \E i \in k .. n : i \in Bad(ops, k, e, sp, g)
<1>1. k \in Int /\ e \in Int /\ n \in k .. n /\ n <= e /\ sp \in Nat
  BY RunFacts
<1>2. CASE g < OpCheck(ops, k, n).minGas
  BY <1>1, <1>2, PoorIs DEF Bad
<1>3. CASE sp < OpCheck(ops, k, n).minStack
  <2>1. sp < StackIn(ops, k, n)
    <3>1. OpCheck(ops, k, n).minStack = StackIn(ops, k, n)
          \/ OpCheck(ops, k, n).minStack = 0
      BY DEF OpCheck
    <3> QED  BY <1>1, <1>3, <3>1
  <2>2. PICK i \in k .. n : Under(ops, k, sp, i)
    BY <2>1, FirstUnder
  <2>3. i \in k .. e
    BY <1>1
  <2> QED  BY <2>2, <2>3 DEF Bad
<1>4. CASE Over(sp, OpCheck(ops, k, n).maxStack)
  <2>1. Over(sp, ops[n].stackCheck)
    BY <1>4 DEF OpCheck
  <2> QED  BY <1>1, <2>1, OverGrew DEF Bad
<1> QED  BY <1>2, <1>3, <1>4 DEF Blames

LEMMA TripsBad ==
  ASSUME NEW ops, NEW k, NEW e, NEW sp, NEW g, RunAt(ops, k, e, sp, g),
         Trips(Checks(ops, k, e), sp, g)
  PROVE  Bad(ops, k, e, sp, g) # {}
<1> DEFINE c == Checks(ops, k, e)
<1>1. k \in Int /\ e \in k .. e /\ e \in Int /\ sp \in Nat
  BY RunFacts
<1>2. /\ c.gas = Total(GasOf(ops), k, e)
      /\ \E n \in k .. e : c.min = StackIn(ops, k, n)
      /\ c.max \in Nat
      /\ c.max > 0 => \E n \in k .. e : c.max = ops[n].stackCheck
  BY ChecksAre
<1> HIDE DEF c
<1>3. CASE g < c.gas
  BY <1>1, <1>2, <1>3, PoorIs DEF Bad
<1>4. CASE sp < c.min
  <2>1. PICK n \in k .. e : sp < StackIn(ops, k, n)
    BY <1>2, <1>4
  <2>2. PICK i \in k .. n : Under(ops, k, sp, i)
    BY <2>1, FirstUnder
  <2>3. i \in k .. e
    BY <1>1
  <2> QED  BY <2>2, <2>3 DEF Bad
<1>5. CASE Over(sp, c.max)
  <2>1. c.max > 0
    BY <1>5 DEF Over
  <2>2. PICK n \in k .. e : c.max = ops[n].stackCheck
    BY <1>2, <2>1
  <2> QED  BY <1>5, <2>2, OverGrew DEF Bad
<1> QED  BY <1>3, <1>4, <1>5 DEF Trips, c

(* If the template trips and blames the first bad opcode, it blames no     *)
(* other.                                                                  *)
LEMMA BlamesFirst ==
  ASSUME NEW ops, NEW k, NEW e, NEW sp, NEW g, RunAt(ops, k, e, sp, g), NEW n \in k .. e,
         \A i \in Bad(ops, k, e, sp, g) : n <= i,
         Blames(OpCheck(ops, k, n), sp, g), Trips(Checks(ops, k, e), sp, g)
  PROVE  Verdict(Checks(ops, k, e), sp, g) = Blame(OpCheck(ops, k, n), sp, g)
<1> DEFINE c      == Checks(ops, k, e)
           blamed == {i \in DOMAIN c.ops : Blames(c.ops[i], sp, g)}
<1>1. /\ k \in Int /\ e \in Int /\ n \in Int /\ sp \in Nat /\ g \in Nat
  BY RunFacts
<1>2. /\ DOMAIN c.ops = {i \in k .. e : MayFail(OpCheck(ops, k, i))}
      /\ \A i \in DOMAIN c.ops : c.ops[i] = OpCheck(ops, k, i)
  BY ChecksAre
<1>3. MayFail(OpCheck(ops, k, n))
  <2>1. CASE g < OpCheck(ops, k, n).minGas
    BY <1>1, <2>1, PoorIs DEF MayFail
  <2>2. CASE sp < OpCheck(ops, k, n).minStack
    <3>1. OpCheck(ops, k, n).minStack \in Nat
      BY UnderIs DEF OpCheck
    <3> QED  BY <1>1, <2>2, <3>1 DEF MayFail
  <2>3. CASE Over(sp, OpCheck(ops, k, n).maxStack)
    BY <2>3 DEF MayFail, Over
  <2> QED  BY <2>1, <2>2, <2>3 DEF Blames
<1>4. Verdict(c, sp, g) = IF Trips(c, sp, g) /\ blamed # {}
                          THEN Blame(c.ops[Min(blamed)], sp, g) ELSE Go(Sub(g, c.gas))
  BY DEF Verdict
<1> HIDE DEF c
<1>5. n \in blamed /\ blamed \in SUBSET (k .. e)
  BY <1>2, <1>3
<1>6. ASSUME NEW i \in blamed PROVE n <= i
  <2>1. i \in k .. e /\ Blames(OpCheck(ops, k, i), sp, g)
    BY <1>2
  <2>2. PICK j \in k .. i : j \in Bad(ops, k, e, sp, g)
    BY <2>1, BlamesBad
  <2> QED  BY <1>1, <2>1, <2>2
<1> DEFINE m == Min(blamed)
<1> HIDE DEF blamed
<1>7. m \in blamed /\ \A y \in blamed : m <= y
  BY <1>1, <1>5, MinOK
<1>8. m = n
  <2>1. m \in k .. e /\ n <= m /\ m <= n
    BY <1>5, <1>6, <1>7
  <2> QED  BY <1>1, <2>1
<1>9. c.ops[n] = OpCheck(ops, k, n)
  BY <1>2, <1>3
<1>10. Trips(c, sp, g)
  BY DEF c
<1> HIDE DEF m
<1> QED  BY <1>4, <1>5, <1>8, <1>9, <1>10 DEF m, c

(* Gas that is enough is taken without wrapping.                           *)
LEMMA SubIs ==
  ASSUME NEW x \in Int, NEW y \in Int, x - y \in 0 .. CountLimit - 1
  PROVE  Sub(x, y) = x - y
<1> DEFINE d == x - y
<1>1. d \in 0 .. CountLimit - 1 /\ CountLimit \in Nat
  BY CountAssumption
<1> HIDE DEF d
<1>2. d % CountLimit = d
  BY <1>1
<1> QED  BY <1>2 DEF Sub, d

(* When every opcode is good, so is the run.                               *)
LEMMA BatchGoes ==
  ASSUME NEW ops, NEW k, NEW e, NEW sp, NEW g, RunAt(ops, k, e, sp, g),
         Bad(ops, k, e, sp, g) = {}
  PROVE  Verdict(Checks(ops, k, e), sp, g) = StepByStep(ops, k, e, sp, g)
<1> DEFINE c == Checks(ops, k, e)
<1>1. ~Trips(c, sp, g)
  BY TripsBad
<1>2. c.gas = Total(GasOf(ops), k, e)
  BY ChecksAre
<1>3. Verdict(c, sp, g) = Go(Sub(g, c.gas))
  BY <1>1 DEF Verdict
<1>4. StepByStep(ops, k, e, sp, g) = Go(Left(ops, k, g, e + 1))
  BY SteppedIs
<1> HIDE DEF c
<1>5. e \in k .. e /\ g \in Int
  BY RunFacts
<1>6. ~Poor(ops, k, g, e)
  BY <1>5 DEF Bad
<1>7. /\ Left(ops, k, g, e + 1) = g - Total(GasOf(ops), k, e)
      /\ g - Total(GasOf(ops), k, e) \in 0 .. CountLimit - 1
      /\ Total(GasOf(ops), k, e) \in Int
  BY <1>5, <1>6, PoorIs
<1>8. Sub(g, c.gas) = Left(ops, k, g, e + 1)
  BY <1>2, <1>5, <1>7, SubIs
<1> QED  BY <1>3, <1>4, <1>8 DEF c

(* The first bad opcode, and what the opcodes before it are not.           *)
LEMMA FirstBad ==
  ASSUME NEW ops, NEW k, NEW e, NEW sp, NEW g, RunAt(ops, k, e, sp, g),
         Bad(ops, k, e, sp, g) # {}
  PROVE  LET bad == Bad(ops, k, e, sp, g)
             n   == Min(bad)
         IN  /\ n \in k .. e /\ n \in bad /\ \A i \in bad : n <= i
             /\ \A i \in k .. n - 1 : i \in k .. e /\ i \notin bad
             /\ \A i \in k .. n - 1 : StackIn(ops, k, i) <= sp
             /\ Left(ops, k, g, n) \in 0 .. CountLimit - 1
<1> DEFINE bad == Bad(ops, k, e, sp, g)
           n   == Min(bad)
<1>1. /\ k \in Int /\ e \in Int /\ sp \in Nat /\ g \in 0 .. CountLimit - 1
      /\ Total(GasOf(ops), k, k - 1) = 0 /\ CountLimit \in Nat
  <2>1. g \in 0 .. CountLimit - 1
    BY DEF RunAt
  <2> QED  BY <2>1, RunFacts
<1>2. bad \in SUBSET (k .. e) /\ bad # {}
  BY DEF Bad
<1> HIDE DEF bad
<1>3. n \in bad /\ \A i \in bad : n <= i
  BY <1>1, <1>2, MinOK
<1> HIDE DEF n
<1>4. n \in k .. e
  BY <1>2, <1>3
<1>5. \A i \in k .. n - 1 : i \in k .. e /\ i \notin bad
  BY <1>1, <1>3, <1>4
<1>6. ASSUME NEW i \in k .. n - 1 PROVE StackIn(ops, k, i) <= sp
  <2>1. i \in k .. e /\ i \in Int
    BY <1>1, <1>5
  <2>2. \A j \in k .. i : j \in k .. n - 1
    BY <1>1, <1>4
  <2>3. \A j \in k .. i : ~Under(ops, k, sp, j)
    BY <1>5, <2>2 DEF bad, Bad
  <2>4. ~(sp < StackIn(ops, k, i))
    BY <2>1, <2>3, FirstUnder
  <2>5. StackIn(ops, k, i) \in Nat
    BY <2>1, UnderIs
  <2> QED  BY <1>1, <2>4, <2>5
<1>7. Left(ops, k, g, n) \in 0 .. CountLimit - 1
  <2>1. CASE n = k
    <3>1. Left(ops, k, g, n) = g
      BY <1>1, <2>1 DEF Left
    <3> QED  BY <1>1, <3>1
  <2>2. CASE n # k
    <3>1. n - 1 \in k .. n - 1 /\ n - 1 + 1 = n
      BY <1>1, <1>4, <2>2
    <3>2. ~Poor(ops, k, g, n - 1) /\ n - 1 \in k .. e
      BY <1>5, <3>1 DEF bad, Bad
    <3> QED  BY <3>1, <3>2, PoorIs
  <2> QED  BY <2>1, <2>2
<1> QED  BY <1>3, <1>4, <1>5, <1>6, <1>7 DEF n, bad

(* Gas or words that are missing are found as opcode by opcode.            *)
LEMMA BatchFails ==
  ASSUME NEW ops, NEW k, NEW e, NEW sp, NEW g, RunAt(ops, k, e, sp, g),
         Bad(ops, k, e, sp, g) # {},
         LET n == Min(Bad(ops, k, e, sp, g))
         IN  Poor(ops, k, g, n) \/ Under(ops, k, sp, n)
  PROVE  Verdict(Checks(ops, k, e), sp, g) = StepByStep(ops, k, e, sp, g)
<1> DEFINE bad == Bad(ops, k, e, sp, g)
           n   == Min(bad)
           c   == Checks(ops, k, e)
           oc  == OpCheck(ops, k, n)
<1>1. /\ n \in k .. e /\ n \in bad /\ \A i \in bad : n <= i
      /\ \A i \in k .. n - 1 : StackIn(ops, k, i) <= sp /\ i \in k .. e
      /\ Left(ops, k, g, n) \in 0 .. CountLimit - 1
  BY FirstBad
<1>2. Poor(ops, k, g, n) \/ Under(ops, k, sp, n)
  OBVIOUS
<1>3. StepByStep(ops, k, e, sp, g) =
        IF Poor(ops, k, g, n) THEN Fail(-13, ops[n].pc, Left(ops, k, g, n))
        ELSE Fail(IF Under(ops, k, sp, n) THEN -10 ELSE -11, ops[n].pc,
                  Left(ops, k, g, n + 1))
  BY SteppedIs
<1>4. /\ sp \in Nat /\ g \in Nat /\ n \in Int /\ e \in k .. e
      /\ \A i, j \in k .. e : i <= j => Total(GasOf(ops), k, i) <= Total(GasOf(ops), k, j)
  BY <1>1, RunFacts, SMTT(30)
<1>5. /\ c.gas = Total(GasOf(ops), k, e)
      /\ \A i \in k .. e : StackIn(ops, k, i) <= c.min
      /\ \E i \in k .. e : c.min = StackIn(ops, k, i)
  BY ChecksAre
<1> HIDE DEF n, bad, c
<1>6. /\ oc.minGas = Total(GasOf(ops), k, n) /\ Total(GasOf(ops), k, n) \in Nat
      /\ Poor(ops, k, g, n) <=> g < Total(GasOf(ops), k, n)
      /\ ~Poor(ops, k, g, n) => Left(ops, k, g, n + 1) \in 0 .. CountLimit - 1
      /\ Left(ops, k, g, n + 1) = g - Total(GasOf(ops), k, n)
  BY <1>1, PoorIs
<1>7. oc.pc = ops[n].pc /\ oc.opGas = ops[n].gas
  BY DEF OpCheck
<1>8. CASE Poor(ops, k, g, n)
  <2>1. Blames(oc, sp, g)
    BY <1>6, <1>8 DEF Blames
  <2>2. Trips(c, sp, g)
    <3>1. /\ Total(GasOf(ops), k, n) <= Total(GasOf(ops), k, e)
          /\ Total(GasOf(ops), k, e) \in Nat
      BY <1>1, <1>4, PoorIs
    <3>2. g < c.gas
      BY <1>4, <1>5, <1>6, <1>8, <3>1
    <3> QED  BY <3>2 DEF Trips
  <2>3. Verdict(c, sp, g) = Blame(oc, sp, g)
    BY <1>1, <2>1, <2>2, BlamesFirst DEF bad, c
  <2>4. Blame(oc, sp, g) = Fail(-13, ops[n].pc, Sub(g, oc.minGas - oc.opGas))
    BY <1>6, <1>7, <1>8 DEF Blame
  <2>5. Sub(g, oc.minGas - oc.opGas) = Left(ops, k, g, n)
    <3>1. /\ Total(GasOf(ops), k, n) = Total(GasOf(ops), k, n - 1) + ops[n].gas
          /\ Total(GasOf(ops), k, n - 1) \in Nat /\ ops[n].gas \in Nat
      BY <1>1, RunFacts, OpFacts
    <3>2. oc.minGas - oc.opGas = Total(GasOf(ops), k, n - 1)
      BY <1>6, <1>7, <3>1
    <3>3. Left(ops, k, g, n) = g - Total(GasOf(ops), k, n - 1)
      BY DEF Left
    <3> QED  BY <1>1, <1>4, <3>1, <3>2, <3>3, SubIs
  <2> QED  BY <1>3, <1>8, <2>3, <2>4, <2>5 DEF c
<1>9. CASE ~Poor(ops, k, g, n)
  <2>1. Under(ops, k, sp, n)
    BY <1>2, <1>9
  <2>2. sp < StackIn(ops, k, n) /\ StackIn(ops, k, n) \in Nat
    BY <1>1, <2>1, UnderIs
  <2>3. oc.minStack = StackIn(ops, k, n)
    <3>1. \A i \in k .. n - 1 : StackIn(ops, k, n) > StackIn(ops, k, i)
      <4> TAKE i \in k .. n - 1
      <4>1. StackIn(ops, k, i) <= sp /\ StackIn(ops, k, i) \in Nat
        BY <1>1, UnderIs
      <4> QED  BY <1>4, <2>2, <4>1
    <3> QED  BY <3>1 DEF OpCheck
  <2>4. Blames(oc, sp, g)
    BY <2>2, <2>3 DEF Blames
  <2>5. Trips(c, sp, g)
    <3>1. StackIn(ops, k, n) <= c.min /\ c.min \in Nat
      BY <1>1, <1>5, UnderIs
    <3> QED  BY <1>4, <2>2, <3>1 DEF Trips
  <2>6. Verdict(c, sp, g) = Blame(oc, sp, g)
    BY <1>1, <2>4, <2>5, BlamesFirst DEF bad, c
  <2>7. Blame(oc, sp, g) = Fail(-10, ops[n].pc, Sub(g, oc.minGas))
    BY <1>6, <1>7, <1>9, <2>2, <2>3 DEF Blame
  <2>8. Sub(g, oc.minGas) = Left(ops, k, g, n + 1)
    BY <1>4, <1>6, <1>9, SubIs
  <2> QED  BY <1>3, <1>9, <2>1, <2>6, <2>7, <2>8 DEF c
<1> QED  BY <1>8, <1>9

(* So are overflows, of a run before which the branch loads nothing.       *)
LEMMA BatchOverflows ==
  ASSUME NEW ops, NEW k, NEW e, NEW sp, NEW g, RunAt(ops, k, e, sp, g),
         LoadedBefore(ops, k) = 0, Checks(ops, k, e).max <= StackSize,
         Bad(ops, k, e, sp, g) # {},
         LET n == Min(Bad(ops, k, e, sp, g))
         IN  ~Poor(ops, k, g, n) /\ ~Under(ops, k, sp, n)
  PROVE  Verdict(Checks(ops, k, e), sp, g) = StepByStep(ops, k, e, sp, g)
<1> DEFINE bad == Bad(ops, k, e, sp, g)
           n   == Min(bad)
           c   == Checks(ops, k, e)
           oc  == OpCheck(ops, k, n)
<1>1. /\ n \in k .. e /\ n \in bad /\ \A i \in bad : n <= i
      /\ \A i \in k .. n - 1 : StackIn(ops, k, i) <= sp /\ i \in k .. e /\ i \notin bad
  BY FirstBad
<1>2. ~Poor(ops, k, g, n) /\ ~Under(ops, k, sp, n)
  OBVIOUS
<1>3. StepByStep(ops, k, e, sp, g) = Fail(-11, ops[n].pc, Left(ops, k, g, n + 1))
  BY SteppedIs
<1>4. /\ sp \in Nat /\ sp \in 0 .. StackSize /\ g \in Nat /\ n \in Int
      /\ k \in Nat /\ k >= 1 /\ StackSize \in Nat /\ Len(ops) \in Nat /\ e <= Len(ops)
      /\ n <= e /\ e \in Nat /\ k <= n
  <2>1. sp \in 0 .. StackSize
    BY DEF RunAt
  <2> QED  BY <1>1, <2>1, RunFacts
<1>5. /\ c.max \in Nat /\ c.max <= StackSize
      /\ ops[n].stackCheck <= c.max
  BY <1>1, ChecksAre
<1>6. Grew(ops, k, sp, n)
  BY <1>1, <1>2 DEF Bad
<1> HIDE DEF n, bad, c
<1>7. /\ oc.minGas = Total(GasOf(ops), k, n) /\ Total(GasOf(ops), k, n) \in Nat
      /\ g >= Total(GasOf(ops), k, n)
      /\ Left(ops, k, g, n + 1) \in 0 .. CountLimit - 1
      /\ Left(ops, k, g, n + 1) = g - Total(GasOf(ops), k, n)
  BY <1>1, <1>2, <1>4, PoorIs
<1> DEFINE h == HeightAfter(ops, n)
<1>8. h \in Int /\ sp + h > StackSize /\ HeightChecked(ops, n) /\ ops[n].stackCheck \in Nat
  BY <1>1, <1>4, <1>6, GrewIs, OpFacts
<1>9. ops[n].stackCheck = h
  <2> SUFFICES ASSUME ops[n].stackCheck = 0 PROVE FALSE
    BY <1>8 DEF HeightChecked
  <2>1. PICK m \in 1 .. n - 1 : h <= ops[m].stackCheck
    BY <1>4, <1>8 DEF HeightChecked
  <2>2. m \in 1 .. Len(ops) /\ Ready(ops)
    BY <1>4 DEF RunAt
  <2>3. ops[m].stackCheck \in Nat /\ HeightChecked(ops, m)
    BY <2>2, ReadyFields DEF Ready
  <2>4. ops[m].stackCheck > 0 /\ sp + ops[m].stackCheck > StackSize
    BY <1>4, <1>8, <2>1, <2>3
  <2>5. CASE m >= k
    <3>1. m \in k .. n - 1 /\ m \in k .. e /\ m \notin bad
      BY <1>1, <1>4, <2>1, <2>5
    <3>2. ops[m].stackCheck = HeightAfter(ops, m)
      BY <2>3, <2>4 DEF HeightChecked
    <3>3. Grew(ops, k, sp, m)
      BY <1>4, <2>3, <2>4, <3>1, <3>2, GrewIs
    <3> QED  BY <3>1, <3>3 DEF bad, Bad
  <2>6. CASE m < k
    <3> DEFINE S == {0} \cup {ops[i].stackCheck : i \in 1 .. (k - 1)}
               f == [i \in 0 .. k - 1 |-> IF i = 0 THEN 0 ELSE ops[i].stackCheck]
    <3>1. \A i \in 0 .. k - 1 : f[i] \in Int
      <4>1. \A i \in 1 .. k - 1 : i \in 1 .. Len(ops)
        BY <1>4
      <4>2. \A i \in 1 .. Len(ops) : ops[i].stackCheck \in Nat
        BY <2>2, ReadyFields
      <4> QED  BY <4>1, <4>2
    <3>2. S = {f[i] : i \in 0 .. k - 1}
      <4>1. 0 .. k - 1 = {0} \cup 1 .. k - 1
        BY <1>4
      <4>2. \A i \in 1 .. k - 1 : f[i] = ops[i].stackCheck
        BY <1>4
      <4>3. f[0] = 0
        BY <1>4
      <4> QED  BY <4>1, <4>2, <4>3
    <3> HIDE DEF f
    <3>3. /\ Max({f[i] : i \in 0 .. k - 1}) \in {f[i] : i \in 0 .. k - 1}
          /\ \A y \in {f[i] : i \in 0 .. k - 1} : y <= Max({f[i] : i \in 0 .. k - 1})
      <4>1. 0 \in Int /\ k - 1 \in Int /\ 0 <= k - 1
        BY <1>4
      <4> QED  BY <3>1, <4>1, MaxOfOK
    <3>4. MaxBefore(ops, k) = Max(S)
      BY DEF MaxBefore
    <3>5. ops[m].stackCheck \in S
      BY <1>4, <2>1, <2>6
    <3> HIDE DEF S
    <3>6. MaxBefore(ops, k) \in Int /\ ops[m].stackCheck <= MaxBefore(ops, k)
      BY <3>1, <3>2, <3>3, <3>4, <3>5
    <3>7. sp + 0 + MaxBefore(ops, k) <= StackSize
      BY DEF RunAt
    <3> QED  BY <1>4, <2>3, <2>4, <3>6, <3>7
  <2> QED  BY <1>4, <2>1, <2>5, <2>6
<1>10. ops[n].stackCheck > 0 /\ ops[n].stackCheck <= StackSize /\ c.max > 0
       /\ sp + ops[n].stackCheck > StackSize /\ sp + c.max > StackSize
  BY <1>4, <1>5, <1>8, <1>9
<1>11. Over(sp, ops[n].stackCheck) /\ Over(sp, c.max)
  BY <1>4, <1>5, <1>8, <1>10, OverIs
<1>12. Blames(oc, sp, g) /\ Trips(c, sp, g)
  BY <1>11 DEF Blames, Trips, OpCheck
<1>13. Verdict(c, sp, g) = Blame(oc, sp, g)
  BY <1>1, <1>12, BlamesFirst DEF bad, c
<1>14. ~(sp < oc.minStack)
  <2> SUFFICES ASSUME sp < oc.minStack PROVE FALSE
    OBVIOUS
  <2>1. oc.minStack = StackIn(ops, k, n) \/ oc.minStack = 0
    BY DEF OpCheck
  <2>2. sp < StackIn(ops, k, n)
    BY <1>4, <2>1
  <2> QED  BY <1>1, <1>2, <2>2, UnderIs
<1>15. ~(g < oc.minGas)
  BY <1>4, <1>7
<1>16. Blame(oc, sp, g) = Fail(-11, ops[n].pc, Sub(g, oc.minGas))
  BY <1>14, <1>15 DEF Blame, OpCheck
<1>17. Sub(g, oc.minGas) = Left(ops, k, g, n + 1)
  BY <1>4, <1>7, SubIs
<1> QED  BY <1>3, <1>13, <1>16, <1>17 DEF c

-----------------------------------------------------------------------------
(* Marking opcodes.  It changes nothing a check, a height or a jump is     *)
(* computed from.                                                          *)

SameOp(x, y) ==
    /\ x.id = y.id /\ x.pc = y.pc /\ x.name = y.name /\ x.arg = y.arg /\ x.gas = y.gas
    /\ x.in = y.in /\ x.out = y.out /\ x.stackRefs = y.stackRefs
    /\ x.stackLoad = y.stackLoad /\ x.stackAddLoad = y.stackAddLoad
    /\ x.stackCheck = y.stackCheck /\ x.cache = y.cache
    /\ x.isExitOpcode = y.isExitOpcode /\ x.isUnnecessary = y.isUnnecessary
    /\ x.isStaticJump = y.isStaticJump /\ x.staticJumpPc = y.staticJumpPc
    /\ x.stackStore = y.stackStore /\ x.breakGasGroup = y.breakGasGroup
SameOps(xs, ys) ==
    /\ xs \in Seq(Opcode) /\ ys \in Seq(Opcode)
    /\ Len(xs) \in Nat /\ Len(ys) = Len(xs)
    /\ DOMAIN xs = 1 .. Len(xs) /\ DOMAIN ys = 1 .. Len(xs)
    /\ \A n \in DOMAIN xs : SameOp(xs[n], ys[n])

LEMMA SameRefl ==
  ASSUME NEW ops \in Seq(Opcode)
  PROVE  SameOps(ops, ops)
BY LenProperties DEF SameOps, SameOp

LEMMA MarkedSame ==
  ASSUME NEW ops \in Seq(Opcode), NEW k
  PROVE  SameOps(ops, Marked(ops, k))
<1> DEFINE m == Marked(ops, k)
<1>1. /\ Len(ops) \in Nat /\ DOMAIN ops = 1 .. Len(ops)
      /\ \A n \in 1 .. Len(ops) : ops[n] \in Opcode
  BY LenProperties, ElementOfSeq
<1>2. DOMAIN m = 1 .. Len(ops)
  BY <1>1 DEF Marked
<1>3. \A o \in Opcode : /\ [o EXCEPT !.skipGasCheck = TRUE] \in Opcode
                        /\ SameOp(o, [o EXCEPT !.skipGasCheck = TRUE])
                        /\ SameOp(o, o)
  <2> TAKE o \in Opcode
  <2> DEFINE x == [o EXCEPT !.skipGasCheck = TRUE]
  <2>1. x \in Opcode
    BY DEF Opcode
  <2>2. SameOp(o, x)
    BY DEF Opcode, SameOp
  <2> QED  BY <2>1, <2>2 DEF SameOp
<1>4. \A n \in 1 .. Len(ops) :
        m[n] = ops[n] \/ m[n] = [ops[n] EXCEPT !.skipGasCheck = TRUE]
  BY <1>1 DEF Marked
<1> HIDE DEF m
<1>5. \A n \in 1 .. Len(ops) : m[n] \in Opcode /\ SameOp(ops[n], m[n])
  <2> TAKE n \in 1 .. Len(ops)
  <2>1. CASE m[n] = ops[n]
    BY <1>1, <1>3, <2>1
  <2>2. CASE m[n] = [ops[n] EXCEPT !.skipGasCheck = TRUE]
    BY <1>1, <1>3, <2>2
  <2> QED  BY <1>4, <2>1, <2>2
<1>6. m = [n \in 1 .. Len(ops) |-> m[n]]
  BY <1>1 DEF m, Marked
<1>7. m \in [1 .. Len(ops) -> Opcode]
  BY <1>5, <1>6
<1>8. m \in Seq(Opcode) /\ Len(m) = Len(ops)
  <2>1. m \in Seq(Opcode)
    BY <1>1, <1>7, SeqDef
  <2> QED  BY <1>1, <1>2, <2>1, LenProperties
<1> QED  BY <1>1, <1>2, <1>5, <1>8 DEF SameOps, m

LEMMA SameFunctions ==
  ASSUME NEW xs, NEW ys, SameOps(xs, ys)
  PROVE  /\ LoadOf(xs) = LoadOf(ys) /\ GasOf(xs) = GasOf(ys)
         /\ EmittedLoads(xs) = EmittedLoads(ys)
BY DEF SameOps, SameOp, LoadOf, GasOf, EmittedLoads

LEMMA SameChecks ==
  ASSUME NEW xs, NEW ys, SameOps(xs, ys),
         NEW k \in 1 .. Len(xs), NEW e \in k .. Len(xs)
  PROVE  Checks(xs, k, e) = Checks(ys, k, e)
<1>1. /\ LoadOf(xs) = LoadOf(ys) /\ GasOf(xs) = GasOf(ys)
  BY SameFunctions
<1>2. \A n \in k .. e : n \in DOMAIN xs /\ SameOp(xs[n], ys[n])
  BY DEF SameOps
<1>3. \A n \in k .. e : StackIn(xs, k, n) = StackIn(ys, k, n)
  BY <1>1, <1>2 DEF StackIn, SameOp
<1>4. ASSUME NEW n \in k .. e
      PROVE  OpCheck(xs, k, n) = OpCheck(ys, k, n)
  <2>1. \A i \in k .. n - 1 : i \in k .. e
    BY DEF SameOps
  <2>2. (\A i \in k .. n - 1 : StackIn(xs, k, n) > StackIn(xs, k, i))
          <=> (\A i \in k .. n - 1 : StackIn(ys, k, n) > StackIn(ys, k, i))
    BY <1>3, <2>1
  <2>3. StackIn(xs, k, n) = StackIn(ys, k, n)
    BY <1>3
  <2>4. SameOp(xs[n], ys[n])
    BY <1>2
  <2> QED  BY <1>1, <2>2, <2>3, <2>4 DEF OpCheck, SameOp
<1>5. {n \in k .. e : xs[n].stackCheck > 0} = {n \in k .. e : ys[n].stackCheck > 0}
  BY <1>2 DEF SameOp
<1>6. {StackIn(xs, k, n) : n \in k .. e} = {StackIn(ys, k, n) : n \in k .. e}
  BY <1>3
<1> DEFINE outs == {n \in k .. e : xs[n].stackCheck > 0}
<1>7. (IF outs = {} THEN 0 ELSE xs[Max(outs)].stackCheck)
        = (IF outs = {} THEN 0 ELSE ys[Max(outs)].stackCheck)
  <2>1. CASE outs = {}
    BY <2>1
  <2>2. CASE outs # {}
    <3>1. outs \in SUBSET (k .. e) /\ k \in Int /\ e \in Int
      BY DEF SameOps
    <3> HIDE DEF outs
    <3>2. Max(outs) \in k .. e
      BY <2>2, <3>1, MaxOK
    <3> QED  BY <1>2, <3>2 DEF SameOp
  <2> QED  BY <2>1, <2>2
<1>8. {m \in k .. e : MayFail(OpCheck(xs, k, m))} = {m \in k .. e : MayFail(OpCheck(ys, k, m))}
  BY <1>4
<1>9. [n \in {m \in k .. e : MayFail(OpCheck(xs, k, m))} |-> OpCheck(xs, k, n)]
        = [n \in {m \in k .. e : MayFail(OpCheck(ys, k, m))} |-> OpCheck(ys, k, n)]
  BY <1>4, <1>8
<1> QED  BY <1>1, <1>5, <1>6, <1>7, <1>9 DEF Checks

(* The builder's facts about a branch survive.                             *)
LEMMA SameFacts ==
  ASSUME NEW xs, NEW ys, SameOps(xs, ys)
  PROVE  /\ \A n \in DOMAIN xs : HeightChecked(xs, n) => HeightChecked(ys, n)
         /\ \A n \in DOMAIN xs : Needs(xs[n]) => Needs(ys[n])
         /\ \A n : LoadsTo(xs, n) = LoadsTo(ys, n)
<1>1. \A n : LoadsTo(xs, n) = LoadsTo(ys, n)
  BY SameFunctions DEF LoadsTo
<1>2. ASSUME NEW n \in DOMAIN xs, HeightChecked(xs, n)
      PROVE  HeightChecked(ys, n)
  <2>1. SameOp(xs[n], ys[n]) /\ \A m \in 1 .. n - 1 : SameOp(xs[m], ys[m])
    BY DEF SameOps
  <2>2. HeightAfter(xs, n) = HeightAfter(ys, n)
    BY <1>1, <2>1 DEF HeightAfter, SameOp
  <2> QED  BY <1>2, <2>1, <2>2 DEF HeightChecked, SameOp
<1>3. ASSUME NEW n \in DOMAIN xs, Needs(xs[n])
      PROVE  Needs(ys[n])
  <2>1. SameOp(xs[n], ys[n])
    BY DEF SameOps
  <2> QED  BY <1>3, <2>1 DEF Needs, Fetches, Takes, SameOp
<1> QED  BY <1>1, <1>2, <1>3

(* The opcodes that are marked.                                            *)
LEMMA GroupEndOK ==
  ASSUME NEW ops \in Seq(Opcode), NEW k \in 1 .. Len(ops)
  PROVE  /\ GroupEnd(ops, k) \in k .. Len(ops)
         /\ \A n \in k + 1 .. GroupEnd(ops, k) : ~ops[n].skipGasCheck
<1> DEFINE S == {n \in k .. Len(ops) : \A i \in k .. n : Batches(ops, k, i)}
<1>1. k \in Int /\ Len(ops) \in Int /\ k <= Len(ops)
  BY LenProperties
<1>2. k \in S /\ S \in SUBSET (k .. Len(ops))
  <2>1. \A i \in k .. k : Batches(ops, k, i)
    BY <1>1 DEF Batches
  <2> QED  BY <1>1, <2>1
<1>3. GroupEnd(ops, k) = Max(S)
  BY DEF GroupEnd
<1> HIDE DEF S
<1>4. Max(S) \in S
  BY <1>1, <1>2, MaxOK
<1>5. GroupEnd(ops, k) \in k .. Len(ops)
      /\ \A i \in k .. GroupEnd(ops, k) : Batches(ops, k, i)
  BY <1>3, <1>4 DEF S
<1>6. ASSUME NEW n \in k + 1 .. GroupEnd(ops, k)
      PROVE  ~ops[n].skipGasCheck
  <2>1. n \in k .. GroupEnd(ops, k) /\ n > k
    BY <1>1, <1>5
  <2> QED  BY <1>5, <2>1 DEF Batches
<1> QED  BY <1>5, <1>6

-----------------------------------------------------------------------------
(* Rendering leaves the branches as they are, but for the marks.           *)

KeptBranch(x, y) ==
    /\ Branch(y) /\ SameOps(x.opcodes, y.opcodes)
    /\ x.pc = y.pc /\ x.stackMax = y.stackMax /\ x.heapPos = y.heapPos
    /\ StackStore(y) = StackStore(x)
Kept(bs, cs) ==
    /\ cs \in Seq({cs[i] : i \in DOMAIN cs})
    /\ DOMAIN cs = DOMAIN bs /\ Len(cs) = Len(bs)
    /\ \A i \in DOMAIN bs : KeptBranch(bs[i], cs[i])

(* What holds of the builder's variables in every phase.                   *)
Built == IndInv /\ AllTracked /\ AllRising /\ PcsRise

LEMMA BuiltFacts ==
  ASSUME Built
  PROVE  /\ Len(branches) \in Nat /\ DOMAIN branches = 1 .. Len(branches)
         /\ branches \in Seq({branches[i] : i \in DOMAIN branches})
         /\ \A i \in DOMAIN branches :
               /\ Branch(branches[i]) /\ branches[i].pc \in Nat
               /\ branches[i].opcodes \in Seq(Opcode)
               /\ Ready(branches[i].opcodes)
<1>1. /\ branches \in Seq({branches[i] : i \in DOMAIN branches})
      /\ \A i \in DOMAIN branches : Branch(branches[i])
  BY DEF Built, IndInv, TypeOK, CacheContiguous, Branch
<1>2. \A i \in DOMAIN branches : /\ branches[i].pc \in Nat
                                 /\ branches[i].opcodes \in Seq(Opcode)
  BY <1>1 DEF Branch, IsBranch
<1>3. \A i \in DOMAIN branches : Ready(branches[i].opcodes)
  BY <1>2 DEF Built, AllTracked, AllRising, Tracked, Rising, Ready
<1> QED  BY <1>1, <1>2, <1>3, LenProperties

LEMMA KeptRefl ==
  ASSUME Built
  PROVE  Kept(branches, branches)
BY BuiltFacts, SameRefl DEF Kept, KeptBranch

LEMMA EmitKeeps ==
  ASSUME Built, NEW b \in DOMAIN branches, NEW k, EmitOpcode(b, k)
  PROVE  /\ Kept(branches, branches')
         /\ \A i \in DOMAIN branches : i # b => branches'[i] = branches[i]
         /\ branches'[b].opcodes = IF branches[b].opcodes[k].skipGasCheck
                                   THEN branches[b].opcodes
                                   ELSE Marked(branches[b].opcodes, k)
<1> DEFINE br  == branches[b]
           ops == br.opcodes
           m   == Marked(ops, k)
           nb  == [br EXCEPT !.opcodes = m]
<1>1. /\ Len(branches) \in Nat /\ DOMAIN branches = 1 .. Len(branches)
      /\ branches \in Seq({branches[i] : i \in DOMAIN branches})
      /\ \A i \in DOMAIN branches : Branch(branches[i]) /\ branches[i].opcodes \in Seq(Opcode)
  BY BuiltFacts
<1>2. CASE ops[k].skipGasCheck
  <2>1. branches' = branches
    BY <1>2 DEF EmitOpcode
  <2> QED  BY <1>2, <2>1, KeptRefl
<1>3. CASE ~ops[k].skipGasCheck
  <2>1. branches' = [branches EXCEPT ![b] = nb]
    BY <1>3 DEF EmitOpcode
  <2>2. SameOps(ops, m)
    BY <1>1, MarkedSame
  <2> DEFINE D == [DOMAIN br.stackRefs -> Ref]
  <2>3. br \in [pc : Nat, opcodes : Seq(Opcode), stackPos : Int, heapPos : Int,
               stackMin : Int, stackMax : Nat, stackRefs : D] /\ Contiguous(br)
    BY <1>1 DEF Branch, IsBranch
  <2>4. m \in Seq(Opcode)
    BY <2>2 DEF SameOps
  <2> HIDE DEF m
  <2>5. /\ nb.stackPos = br.stackPos /\ nb.heapPos = br.heapPos
        /\ nb.stackMin = br.stackMin /\ nb.stackMax = br.stackMax
        /\ nb.stackRefs = br.stackRefs /\ nb.opcodes = m /\ nb.pc = br.pc
    BY <2>3
  <2>6. nb \in [pc : Nat, opcodes : Seq(Opcode), stackPos : Int, heapPos : Int,
               stackMin : Int, stackMax : Nat, stackRefs : D]
    <3> HIDE DEF D
    <3> QED  BY <2>3, <2>4
  <2>7. IsBranch(nb)
    BY <2>5, <2>6 DEF IsBranch
  <2>8. Branch(nb)
    BY <2>3, <2>5, <2>7 DEF Branch, Contiguous
  <2>15. StackStore(nb) = StackStore(br)
    BY <2>5 DEF StackStore, RefAt
  <2> HIDE DEF nb, D
  <2>9. KeptBranch(br, nb)
    BY <2>2, <2>5, <2>8, <2>15 DEF KeptBranch
  <2>10. /\ DOMAIN branches' = DOMAIN branches
         /\ \A i \in DOMAIN branches : branches'[i] = IF i = b THEN nb ELSE branches[i]
    BY <2>1
  <2>11. \A i \in DOMAIN branches : KeptBranch(branches[i], branches'[i])
    BY <2>9, <2>10, KeptRefl DEF Kept
  <2>12. branches' \in Seq({branches'[i] : i \in DOMAIN branches'})
         /\ Len(branches') = Len(branches)
    <3> DEFINE S == {branches'[i] : i \in DOMAIN branches'}
    <3>1. branches' = [i \in 1 .. Len(branches) |-> branches'[i]]
      BY <1>1, <2>1, <2>10
    <3>2. branches' \in [1 .. Len(branches) -> S]
      BY <1>1, <2>10, <3>1
    <3> HIDE DEF S
    <3>3. branches' \in Seq(S)
      BY <1>1, <3>2, SeqDef, SMTT(30)
    <3>4. Len(branches') = Len(branches)
      BY <1>1, <2>10, <3>3, LenProperties
    <3> QED  BY <3>3, <3>4 DEF S
  <2>13. Kept(branches, branches')
    BY <2>10, <2>11, <2>12 DEF Kept
  <2>14. branches'[b].opcodes = m
    BY <2>5, <2>10
  <2> QED  BY <1>3, <2>10, <2>13, <2>14 DEF m
<1> QED  BY <1>2, <1>3

LEMMA BuiltKept ==
  ASSUME Built, Kept(branches, branches'),
         UNCHANGED <<pccount, opcount, noinitjump, hasdynjumps, err>>
  PROVE  Built'
<1>1. \A i \in DOMAIN branches' : Branch(branches'[i])
  BY DEF Kept, KeptBranch
<1>2. IndInv'
  <2>1. TypeOK'
    BY <1>1 DEF Built, IndInv, TypeOK, Kept, Branch
  <2>2. CacheContiguous'
    BY <1>1 DEF CacheContiguous, Branch
  <2> QED  BY <2>1, <2>2 DEF Built, IndInv, NoNilSource
<1>3. ASSUME NEW i \in DOMAIN branches, Tracked(branches[i]), Rising(branches[i])
      PROVE  Tracked(branches'[i]) /\ Rising(branches'[i])
  <2> DEFINE x == branches[i]
             y == branches'[i]
  <2>1. SameOps(x.opcodes, y.opcodes) /\ x.heapPos = y.heapPos /\ x.stackMax = y.stackMax
    BY DEF Kept, KeptBranch
  <2> HIDE DEF x, y
  <2>2. /\ \A n \in DOMAIN x.opcodes :
              HeightChecked(x.opcodes, n) => HeightChecked(y.opcodes, n)
        /\ \A n \in DOMAIN x.opcodes : Needs(x.opcodes[n]) => Needs(y.opcodes[n])
        /\ \A n : LoadsTo(x.opcodes, n) = LoadsTo(y.opcodes, n)
    BY <2>1, SameFacts
  <2>3. /\ DOMAIN x.opcodes = DOMAIN y.opcodes /\ Len(x.opcodes) = Len(y.opcodes)
        /\ \A n \in DOMAIN x.opcodes : x.opcodes[n].stackCheck = y.opcodes[n].stackCheck
    BY <2>1 DEF SameOps, SameOp
  <2>4. Tracked(x) /\ Rising(x)
    BY <1>3 DEF x
  <2>5. Tracked(y)
    BY <2>1, <2>2, <2>3, <2>4 DEF Tracked
  <2>6. Rising(y)
    BY <2>1, <2>3, <2>4 DEF Rising
  <2> QED  BY <2>5, <2>6 DEF y
<1>4. AllTracked' /\ AllRising'
  BY <1>3 DEF Built, AllTracked, AllRising, Kept
<1>5. PcsRise'
  BY DEF Built, PcsRise, Kept, KeptBranch
<1> QED  BY <1>2, <1>4, <1>5 DEF Built

(* So the jumps, the dead branches and the labels stay what they are.      *)
LEMMA JumpsKept ==
  ASSUME Built, Kept(branches, branches'), UNCHANGED <<noinitjump, hasdynjumps>>
  PROVE  /\ \A pc : BranchesAt(pc)' = BranchesAt(pc)
         /\ \A b \in DOMAIN branches : Dead(b)' = Dead(b) /\ Labelled(b)' = Labelled(b)
<1>1. /\ DOMAIN branches' = DOMAIN branches
      /\ \A i \in DOMAIN branches :
            branches'[i].pc = branches[i].pc
            /\ SameOps(branches[i].opcodes, branches'[i].opcodes)
  BY DEF Kept, KeptBranch
<1>2. \A pc : BranchesAt(pc)' = BranchesAt(pc)
  BY <1>1 DEF BranchesAt
<1>3. \A i \in DOMAIN branches :
        /\ DOMAIN branches'[i].opcodes = DOMAIN branches[i].opcodes
        /\ \A k \in DOMAIN branches[i].opcodes :
              /\ branches'[i].opcodes[k].isStaticJump = branches[i].opcodes[k].isStaticJump
              /\ branches'[i].opcodes[k].staticJumpPc = branches[i].opcodes[k].staticJumpPc
  BY <1>1 DEF SameOps, SameOp
<1>4. ASSUME NEW b \in DOMAIN branches
      PROVE  Dead(b)' = Dead(b) /\ Labelled(b)' = Labelled(b)
  <2>1. Referenced(b)' = Referenced(b)
    BY <1>1, <1>2, <1>3 DEF Referenced
  <2>2. branches'[b].pc = branches[b].pc
    BY <1>1
  <2> QED  BY <2>1, <2>2 DEF Dead, Labelled
<1> QED  BY <1>2, <1>4

-----------------------------------------------------------------------------
(* The units of a block, of whose branch b the opcodes ops before lim have *)
(* been passed: they charge disjoint runs, the marked opcodes are those a  *)
(* run goes on to, and every emitted opcode is in a run.                   *)

Span(u)  == u.index .. u.last
Marks(u) == u.index + 1 .. u.last
UnitOK(u, b, ops) ==
    /\ u.branch = b /\ u.index \in 1 .. Len(ops) /\ u.last \in Nat
    /\ SameOp(ops[u.index], u.op)
    /\ u.last # 0 => /\ u.last \in u.index .. Len(ops)
                     /\ u.check = Checks(ops, u.index, u.last)
Arrives(ops, n) == \A k \in 1 .. n - 1 : ~ops[k].isExitOpcode
UnitsOK(us, b, ops, lim) ==
    /\ us \in Seq({us[j] : j \in DOMAIN us})
    /\ \A j \in DOMAIN us : UnitOK(us[j], b, ops) /\ us[j].index < lim
    /\ \A i, j \in DOMAIN us : i # j => \A n \in Span(us[i]) : n \notin Span(us[j])
    /\ \A n \in 1 .. Len(ops) :
          ops[n].skipGasCheck => \E j \in DOMAIN us : n \in Marks(us[j])
    /\ \A j \in DOMAIN us : \A n \in Marks(us[j]) : ops[n].skipGasCheck
    /\ \A n \in 1 .. Len(ops) :
          (n < lim /\ ~ops[n].isUnnecessary /\ Arrives(ops, n))
             => \E j \in DOMAIN us : n \in Span(us[j])

(* A new block has no units, and an opened branch no marks.                *)
LEMMA UnitsNone ==
  ASSUME NEW b, NEW ops \in Seq(Opcode), \A n \in DOMAIN ops : ~ops[n].skipGasCheck
  PROVE  UnitsOK(<<>>, b, ops, 1)
<1>1. DOMAIN ops = 1 .. Len(ops) /\ <<>> \in Seq({<<>>[j] : j \in DOMAIN <<>>})
  BY LenProperties, EmptySeq
<1> QED  BY <1>1 DEF UnitsOK

(* A folded opcode needs no run.                                           *)
LEMMA UnitsSkip ==
  ASSUME NEW us, NEW b, NEW ops, NEW k \in Nat, UnitsOK(us, b, ops, k),
         ops[k].isUnnecessary, ops \in Seq(Opcode)
  PROVE  UnitsOK(us, b, ops, k + 1)
<1>1. \A j \in DOMAIN us : us[j].index \in Nat
  BY LenProperties DEF UnitsOK, UnitOK
<1>2. \A j \in DOMAIN us : us[j].index < k + 1
  BY <1>1 DEF UnitsOK
<1>3. \A n \in 1 .. Len(ops) : n < k + 1 /\ ~ops[n].isUnnecessary => n < k
  BY LenProperties
<1> QED  BY <1>2, <1>3 DEF UnitsOK

(* At the end of the branch, or behind an opcode that ends it.             *)
LEMMA UnitsEnd ==
  ASSUME NEW us, NEW b, NEW ops \in Seq(Opcode), NEW lim \in Nat, UnitsOK(us, b, ops, lim),
         \/ lim > Len(ops)
         \/ lim - 1 \in 1 .. Len(ops) /\ ops[lim - 1].isExitOpcode
  PROVE  UnitsOK(us, b, ops, Len(ops) + 1)
<1>1. Len(ops) \in Nat
  BY LenProperties
<1>2. \A j \in DOMAIN us : us[j].index < Len(ops) + 1
  BY <1>1 DEF UnitsOK, UnitOK
<1>3. ASSUME NEW n \in 1 .. Len(ops), Arrives(ops, n)
      PROVE  n < lim
  <2>1. CASE lim > Len(ops)
    BY <1>1, <2>1
  <2>2. CASE lim - 1 \in 1 .. Len(ops) /\ ops[lim - 1].isExitOpcode
    BY <1>1, <1>3, <2>2 DEF Arrives
  <2> QED  BY <2>1, <2>2
<1> QED  BY <1>2, <1>3 DEF UnitsOK

(* An emitted opcode, and the marks it makes.                              *)
LEMMA UnitsEmit ==
  ASSUME NEW us, NEW b, NEW ops \in Seq(Opcode), NEW k \in 1 .. Len(ops),
         UnitsOK(us, b, ops, k),
         NEW ops2, ops2 = IF ops[k].skipGasCheck THEN ops ELSE Marked(ops, k)
  PROVE  UnitsOK(Append(us, Unit(ops, k, b)), b, ops2, k + 1)
<1> DEFINE u  == Unit(ops, k, b)
           ws == Append(us, u)
           N  == Len(us)
           E  == GroupEnd(ops, k)
<1>1. /\ Len(ops) \in Nat /\ DOMAIN ops = 1 .. Len(ops) /\ k \in Nat /\ k >= 1
      /\ \A n \in 1 .. Len(ops) : ops[n] \in Opcode
  BY LenProperties, ElementOfSeq
<1>2. /\ N \in Nat /\ DOMAIN us = 1 .. N /\ DOMAIN ws = 1 .. N + 1
      /\ \A j \in 1 .. N : ws[j] = us[j]
      /\ ws[N + 1] = u
      /\ ws \in Seq({ws[j] : j \in DOMAIN ws})
  <2> HIDE DEF u
  <2>1. us \in Seq({us[j] : j \in DOMAIN us})
    BY DEF UnitsOK
  <2> QED  BY <2>1, AppendOK, SMTT(30)
<1>3. SameOps(ops, ops2)
  BY SameRefl, MarkedSame
<1>4. Len(ops2) = Len(ops) /\ \A n \in 1 .. Len(ops) : SameOp(ops[n], ops2[n])
  BY <1>1, <1>3 DEF SameOps
<1>5. /\ E \in k .. Len(ops) /\ \A n \in k + 1 .. E : ~ops[n].skipGasCheck
  BY GroupEndOK
<1>6. /\ u.branch = b /\ u.index = k /\ u.op = ops[k]
      /\ u.last = IF ops[k].skipGasCheck THEN 0 ELSE E
      /\ u.check = IF ops[k].skipGasCheck THEN NoChecks ELSE Checks(ops, k, E)
  BY DEF Unit
<1>7. /\ \A n \in 1 .. Len(ops) : ops2[n].skipGasCheck =>
              ops[n].skipGasCheck \/ (~ops[k].skipGasCheck /\ n \in k + 1 .. E)
      /\ \A n \in 1 .. Len(ops) : ops[n].skipGasCheck => ops2[n].skipGasCheck
      /\ ~ops[k].skipGasCheck => \A n \in k + 1 .. E : ops2[n].skipGasCheck
  <2>1. CASE ops[k].skipGasCheck
    BY <2>1
  <2>2. CASE ~ops[k].skipGasCheck
    <3>1. \A o \in Opcode : [o EXCEPT !.skipGasCheck = TRUE].skipGasCheck
      BY DEF Opcode
    <3>2. \A n \in 1 .. Len(ops) :
            ops2[n] = IF n \in k + 1 .. E THEN [ops[n] EXCEPT !.skipGasCheck = TRUE]
                      ELSE ops[n]
      BY <1>1, <2>2 DEF Marked
    <3>3. \A n \in 1 .. Len(ops) : n \in k + 1 .. E => ops2[n].skipGasCheck
      BY <1>1, <3>1, <3>2
    <3>4. \A n \in 1 .. Len(ops) : n \notin k + 1 .. E => ops2[n] = ops[n]
      BY <3>2
    <3>5. \A n \in k + 1 .. E : n \in 1 .. Len(ops)
      BY <1>1, <1>5
    <3> QED  BY <2>2, <3>3, <3>4, <3>5
  <2> QED  BY <2>1, <2>2
<1> HIDE DEF u, ws, N, E
<1>8. ASSUME NEW v, UnitOK(v, b, ops)
      PROVE  UnitOK(v, b, ops2)
  <2>1. v.last # 0 => v.last \in v.index .. Len(ops)
    BY <1>8 DEF UnitOK
  <2>2. v.index \in 1 .. Len(ops)
    BY <1>8 DEF UnitOK
  <2>3. v.last # 0 => Checks(ops, v.index, v.last) = Checks(ops2, v.index, v.last)
    BY <1>3, <2>1, <2>2, SameChecks
  <2>4. SameOp(ops2[v.index], v.op)
    BY <1>4, <1>8, <2>2 DEF UnitOK, SameOp
  <2> QED  BY <1>4, <1>8, <2>3, <2>4 DEF UnitOK
<1>9. UnitOK(u, b, ops)
  <2>1. SameOp(ops[k], ops[k])
    BY DEF SameOp
  <2>2. E \in Nat /\ E # 0 /\ 0 \in Nat
    BY <1>1, <1>5
  <2> QED  BY <1>5, <1>6, <2>1, <2>2 DEF UnitOK
<1>10. \A j \in 1 .. N : UnitOK(us[j], b, ops) /\ us[j].index < k
  BY <1>2 DEF UnitsOK
<1>11. \A j \in DOMAIN ws : UnitOK(ws[j], b, ops2) /\ ws[j].index < k + 1
  <2> TAKE j \in DOMAIN ws
  <2>1. CASE j \in 1 .. N
    <3>1. us[j].index \in Int
      BY <1>1, <1>10, <2>1 DEF UnitOK
    <3> QED  BY <1>1, <1>2, <1>8, <1>10, <2>1, <3>1
  <2>2. CASE j = N + 1
    BY <1>1, <1>2, <1>6, <1>8, <1>9, <2>2
  <2> QED  BY <1>2, <2>1, <2>2
<1>12. ASSUME NEW j \in 1 .. N, NEW n \in Span(us[j])
       PROVE  n \notin Span(u)
  <2> SUFFICES ASSUME n \in Span(u) PROVE FALSE
    OBVIOUS
  <2>1. us[j].index \in Nat /\ us[j].last \in Nat /\ us[j].index < k
    BY <1>1, <1>10 DEF UnitOK
  <2>2. ~ops[k].skipGasCheck /\ n \in k .. E
    <3>1. n \in k .. u.last
      BY <1>6 DEF Span
    <3> QED  BY <1>1, <1>6, <3>1
  <2>3. n \in Marks(us[j]) /\ n \in 1 .. Len(ops)
    BY <1>1, <1>5, <2>1, <2>2 DEF Span, Marks
  <2>4. ops[n].skipGasCheck
    BY <1>2, <2>3 DEF UnitsOK
  <2>5. n \in k + 1 .. E
    BY <1>1, <1>5, <2>2, <2>4
  <2> QED  BY <1>5, <2>4, <2>5
<1>13. \A i, j \in DOMAIN ws : i # j => \A n \in Span(ws[i]) : n \notin Span(ws[j])
  <2> TAKE i, j \in DOMAIN ws
  <2> HAVE i # j
  <2>1. CASE i \in 1 .. N /\ j \in 1 .. N
    BY <1>2, <2>1 DEF UnitsOK
  <2>2. CASE i \in 1 .. N /\ j = N + 1
    BY <1>2, <1>12, <2>2
  <2>3. CASE i = N + 1 /\ j \in 1 .. N
    BY <1>2, <1>12, <2>3
  <2> QED  BY <1>2, <2>1, <2>2, <2>3
<1>14. /\ \A n \in 1 .. Len(ops2) :
             ops2[n].skipGasCheck => \E j \in DOMAIN ws : n \in Marks(ws[j])
       /\ \A j \in DOMAIN ws : \A n \in Marks(ws[j]) : ops2[n].skipGasCheck
  <2>1. ASSUME NEW n \in 1 .. Len(ops2), ops2[n].skipGasCheck
        PROVE  \E j \in DOMAIN ws : n \in Marks(ws[j])
    <3>1. CASE ops[n].skipGasCheck
      <4>1. PICK j \in 1 .. N : n \in Marks(us[j])
        BY <1>2, <1>4, <3>1 DEF UnitsOK
      <4> QED  BY <1>2, <4>1
    <3>2. CASE ~ops[n].skipGasCheck
      <4>1. ~ops[k].skipGasCheck /\ n \in k + 1 .. E
        BY <1>4, <1>7, <2>1, <3>2
      <4>2. n \in Marks(ws[N + 1])
        BY <1>2, <1>6, <4>1 DEF Marks
      <4> QED  BY <1>2, <4>2
    <3> QED  BY <3>1, <3>2
  <2>2. ASSUME NEW j \in DOMAIN ws, NEW n \in Marks(ws[j])
        PROVE  ops2[n].skipGasCheck
    <3>1. CASE j \in 1 .. N
      <4>1. us[j].index \in 1 .. Len(ops) /\ us[j].last \in Nat
            /\ (us[j].last # 0 => us[j].last <= Len(ops))
        BY <1>1, <1>10, <3>1 DEF UnitOK
      <4>2. n \in Marks(us[j])
        BY <1>2, <3>1
      <4>3. n \in 1 .. Len(ops)
        BY <1>1, <4>1, <4>2 DEF Marks
      <4>4. ops[n].skipGasCheck
        BY <1>2, <3>1, <4>2 DEF UnitsOK
      <4> QED  BY <1>7, <4>3, <4>4
    <3>2. CASE j = N + 1
      <4>1. n \in k + 1 .. u.last
        BY <1>2, <1>6, <3>2 DEF Marks
      <4>2. ~ops[k].skipGasCheck
        BY <1>1, <1>6, <4>1
      <4> QED  BY <1>6, <1>7, <4>1, <4>2
    <3> QED  BY <1>2, <3>1, <3>2
  <2> QED  BY <2>1, <2>2
<1>15. \A n \in 1 .. Len(ops2) :
         (n < k + 1 /\ ~ops2[n].isUnnecessary /\ Arrives(ops2, n))
            => \E j \in DOMAIN ws : n \in Span(ws[j])
  <2> TAKE n \in 1 .. Len(ops2)
  <2> HAVE n < k + 1 /\ ~ops2[n].isUnnecessary /\ Arrives(ops2, n)
  <2>1. n \in 1 .. Len(ops) /\ ~ops[n].isUnnecessary /\ Arrives(ops, n)
    <3>1. \A i \in 1 .. n - 1 : i \in 1 .. Len(ops)
      BY <1>1, <1>4
    <3> QED  BY <1>4, <3>1 DEF SameOp, Arrives
  <2>2. CASE n < k
    <3>1. PICK j \in DOMAIN us : n \in Span(us[j])
      BY <2>1, <2>2 DEF UnitsOK
    <3> QED  BY <1>2, <3>1
  <2>3. CASE n = k
    <3>1. CASE ops[k].skipGasCheck
      <4>1. PICK j \in DOMAIN us : k \in Marks(us[j])
        BY <3>1 DEF UnitsOK
      <4>2. us[j].index \in Nat /\ us[j].last \in Nat
        BY <1>1, <1>2, <1>10, <4>1 DEF UnitOK
      <4>3. k \in Span(us[j])
        BY <4>1, <4>2 DEF Marks, Span
      <4> QED  BY <1>2, <2>3, <4>1, <4>3
    <3>2. CASE ~ops[k].skipGasCheck
      <4>1. k \in Span(ws[N + 1])
        BY <1>1, <1>2, <1>5, <1>6, <3>2 DEF Span
      <4> QED  BY <1>2, <2>3, <4>1
    <3> QED  BY <3>1, <3>2
  <2> QED  BY <1>1, <2>1, <2>2, <2>3
<1> QED  BY <1>2, <1>11, <1>13, <1>14, <1>15 DEF UnitsOK, ws, u

-----------------------------------------------------------------------------
(* String walks the branches: of those it has passed the live ones have a  *)
(* block, the others have no marks yet, and at is where it stands.         *)

Passed(b) == b < at[1] \/ (b = at[1] /\ at[2] > 0)
(* The first opcode of branch b that the walk has not passed.              *)
Lim(b) == IF b = at[1] THEN at[2] ELSE Len(branches[b].opcodes) + 1

Loop ==
    /\ phase \in {"build", "emit", "done"}
    /\ at \in (Nat \ {0}) \X Nat
    /\ phase = "build" => at = <<1, 0>> /\ code = <<>>
    /\ phase = "done" => at[1] > Len(branches)
    /\ at[2] > 0 => at[1] <= Len(branches)

Block(x) ==
    /\ x = [branch |-> x.branch, pc |-> x.pc, label |-> x.label,
            units |-> x.units, store |-> x.store]
    /\ x.branch \in DOMAIN branches /\ Passed(x.branch)
    /\ x.pc = branches[x.branch].pc
    /\ x.label = Labelled(x.branch)
    /\ UnitsOK(x.units, x.branch, branches[x.branch].opcodes, Lim(x.branch))
Blocks ==
    /\ code \in Seq({code[i] : i \in DOMAIN code})
    /\ \A i \in DOMAIN code : Block(code[i])
    /\ \A i, j \in DOMAIN code : i < j => code[i].branch < code[j].branch
    /\ at[2] > 0 => Len(code) \in DOMAIN code /\ code[Len(code)].branch = at[1]

Visited ==
    \A b \in DOMAIN branches :
        IF Passed(b) THEN Dead(b) \/ \E i \in DOMAIN code : code[i].branch = b
        ELSE Unmarked(branches[b])

GenInv == Built /\ Loop /\ Blocks /\ Visited

LEMMA StartOK == GenInit => GenInv
<1> SUFFICES ASSUME GenInit PROVE GenInv
  OBVIOUS
<1>1. IndInv /\ branches = <<>> /\ phase = "build" /\ at = <<1, 0>> /\ code = <<>>
  BY InitInv DEF GenInit, Init
<1>2. DOMAIN branches = {} /\ DOMAIN code = {} /\ Len(branches) = 0
  BY <1>1
<1>3. Built
  BY <1>1, <1>2 DEF Built, AllTracked, AllRising, PcsRise
<1>4. at \in (Nat \ {0}) \X Nat /\ at[1] = 1 /\ at[2] = 0
  BY <1>1
<1>5. Loop
  BY <1>1, <1>4 DEF Loop
<1>6. code \in Seq({code[i] : i \in DOMAIN code})
  BY <1>1, EmptySeq
<1>7. Blocks
  BY <1>2, <1>4, <1>6 DEF Blocks
<1>8. Visited
  BY <1>2 DEF Visited
<1> QED  BY <1>3, <1>5, <1>7, <1>8 DEF GenInv

LEMMA BuildOK == GenInv /\ Build => GenInv'
<1> SUFFICES ASSUME GenInv, Build PROVE GenInv'
  OBVIOUS
<1>1. /\ phase = "build" /\ phase' = phase /\ at' = at /\ code' = code
      /\ at = <<1, 0>> /\ code = <<>> /\ [Next]_vars
  BY DEF GenInv, Loop, Build, genvars
<1>2. at[1] = 1 /\ at[2] = 0 /\ at \in (Nat \ {0}) \X Nat /\ DOMAIN code = {}
  BY <1>1
<1>3. Built'
  BY <1>1, StepInv, StepTracked, StepRising, StepPcs DEF GenInv, Built
<1>4. DOMAIN branches = 1 .. Len(branches) /\ Len(branches) \in Nat
  BY BuiltFacts DEF GenInv
<1>5. AllUnmarked
  <2>1. \A b \in DOMAIN branches : ~Passed(b)
    BY <1>2, <1>4 DEF Passed
  <2> QED  BY <2>1 DEF GenInv, Visited, AllUnmarked
<1>6. AllUnmarked'
  BY <1>1, <1>5, StepUnmarked DEF GenInv, Built
<1>7. (DOMAIN branches = 1 .. Len(branches) /\ Len(branches) \in Nat)'
  BY <1>3, BuiltFacts, PTL
<1>8. Visited'
  <2>1. \A b \in DOMAIN branches' : ~Passed(b)'
    BY <1>1, <1>2, <1>7 DEF Passed
  <2> QED  BY <1>6, <2>1 DEF Visited, AllUnmarked
<1>9. Loop'
  BY <1>1, <1>2 DEF Loop
<1>10. Blocks'
  BY <1>1, <1>2, EmptySeq DEF Blocks
<1> QED  BY <1>3, <1>8, <1>9, <1>10 DEF GenInv

LEMMA StillBuilt ==
  ASSUME Built, UNCHANGED vars
  PROVE  Built' /\ Kept(branches, branches')
<1>1. Kept(branches, branches')
  BY KeptRefl DEF vars
<1> QED  BY <1>1, BuiltKept DEF vars

LEMMA BlockStays ==
  ASSUME Built, Kept(branches, branches'), UNCHANGED <<noinitjump, hasdynjumps>>,
         NEW x, Block(x), branches'[x.branch] = branches[x.branch],
         Passed(x.branch)', Lim(x.branch)' = Lim(x.branch)
  PROVE  Block(x)'
<1>1. x.branch \in DOMAIN branches /\ x.branch \in DOMAIN branches'
  BY DEF Block, Kept
<1>2. Labelled(x.branch)' = Labelled(x.branch)
  BY <1>1, JumpsKept
<1> QED  BY <1>1, <1>2 DEF Block

LEMMA GenerateOK == GenInv /\ (Generate \/ Finish \/ UNCHANGED allvars) => GenInv'
<1> SUFFICES ASSUME GenInv, Generate \/ Finish \/ UNCHANGED allvars PROVE GenInv'
  OBVIOUS
<1>1. /\ UNCHANGED vars /\ at' = at /\ code' = code
      /\ \/ phase' = "emit"
         \/ phase' = "done" /\ at[1] > Len(branches)
         \/ phase' = phase
  BY DEF Generate, Finish, allvars, genvars
<1>2. Built' /\ Kept(branches, branches')
  BY <1>1, StillBuilt DEF GenInv
<1>3. Loop'
  BY <1>1 DEF GenInv, Loop, vars
<1>4. \A c : Passed(c)' = Passed(c) /\ Lim(c)' = Lim(c)
  BY <1>1 DEF Passed, Lim, vars
<1>5. ASSUME NEW i \in DOMAIN code
      PROVE  Block(code[i])'
  <2>1. Block(code[i])
    BY DEF GenInv, Blocks
  <2>2. Passed(code[i].branch)
    BY <2>1 DEF Block
  <2> QED  BY <1>1, <1>2, <1>4, <2>1, <2>2, BlockStays DEF GenInv, vars
<1>6. Blocks'
  BY <1>1, <1>5 DEF GenInv, Blocks
<1>7. Visited'
  <2>1. \A b \in DOMAIN branches : Dead(b)' = Dead(b)
    BY <1>1, <1>2, JumpsKept DEF GenInv, vars
  <2> QED  BY <1>1, <1>4, <2>1 DEF GenInv, Visited, vars
<1> QED  BY <1>2, <1>3, <1>6, <1>7 DEF GenInv

(* Where the walk stands.                                                  *)
LEMMA Standing ==
  ASSUME GenInv
  PROVE  /\ at[1] \in Nat \ {0} /\ at[2] \in Nat /\ at = <<at[1], at[2]>>
         /\ Len(branches) \in Nat /\ DOMAIN branches = 1 .. Len(branches)
         /\ Len(code) \in Nat /\ DOMAIN code = 1 .. Len(code)
         /\ \A i \in DOMAIN code : /\ code[i].branch \in DOMAIN branches
                                   /\ Block(code[i])
         /\ at[2] = 0 => \A i \in DOMAIN code : code[i].branch < at[1]
         /\ at[2] > 0 => /\ Len(code) \in DOMAIN code /\ code[Len(code)].branch = at[1]
                         /\ \A i \in DOMAIN code : i # Len(code) => code[i].branch < at[1]
<1>1. at[1] \in Nat \ {0} /\ at[2] \in Nat /\ at = <<at[1], at[2]>>
  BY DEF GenInv, Loop
<1>2. Len(branches) \in Nat /\ DOMAIN branches = 1 .. Len(branches)
  BY BuiltFacts DEF GenInv
<1>3. Len(code) \in Nat /\ DOMAIN code = 1 .. Len(code)
  BY LenProperties DEF GenInv, Blocks
<1>4. \A i \in DOMAIN code : code[i].branch \in DOMAIN branches /\ Block(code[i])
  BY DEF GenInv, Blocks, Block
<1>5. at[2] = 0 => \A i \in DOMAIN code : code[i].branch < at[1]
  BY <1>4 DEF Block, Passed
<1>6. at[2] > 0 => /\ Len(code) \in DOMAIN code /\ code[Len(code)].branch = at[1]
                   /\ \A i \in DOMAIN code : i # Len(code) => code[i].branch < at[1]
  <2>1. \A i \in DOMAIN code : i # Len(code) => i < Len(code)
    BY <1>3
  <2> QED  BY <2>1 DEF GenInv, Blocks
<1> QED  BY <1>1, <1>2, <1>3, <1>4, <1>5, <1>6

LEMMA SkipDeadOK ==
  ASSUME GenInv, SkipDeadBranch(at[1])
  PROVE  GenInv'
<1> DEFINE b == at[1]
<1>1. /\ phase = "emit" /\ b <= Len(branches) /\ at[2] = 0 /\ Dead(b)
      /\ at' = <<b + 1, 0>> /\ code' = code /\ phase' = phase /\ UNCHANGED vars
  BY DEF SkipDeadBranch, Emitting
<1>2. /\ b \in Nat \ {0} /\ Len(branches) \in Nat /\ DOMAIN branches = 1 .. Len(branches)
      /\ \A i \in DOMAIN code : code[i].branch \in 1 .. Len(branches) /\ Block(code[i])
      /\ \A i \in DOMAIN code : code[i].branch < b
  BY <1>1, Standing
<1>3. Built' /\ Kept(branches, branches')
  BY <1>1, StillBuilt DEF GenInv
<1>4. at'[1] = b + 1 /\ at'[2] = 0 /\ at' \in (Nat \ {0}) \X Nat
  BY <1>1, <1>2
<1>5. Loop'
  BY <1>1, <1>4 DEF Loop
<1>6. \A c \in 1 .. Len(branches) : Passed(c)' <=> (Passed(c) \/ c = b)
  BY <1>1, <1>2, <1>4 DEF Passed
<1>7. \A c \in 1 .. Len(branches) : c < b => Lim(c)' = Lim(c)
  BY <1>1, <1>2, <1>4 DEF Lim, vars
<1>8. ASSUME NEW i \in DOMAIN code
      PROVE  Block(code[i])'
  <2>1. Block(code[i]) /\ code[i].branch \in 1 .. Len(branches) /\ code[i].branch < b
    BY <1>2
  <2>2. Passed(code[i].branch)
    BY <2>1 DEF Block
  <2> QED  BY <1>1, <1>3, <1>6, <1>7, <2>1, <2>2, BlockStays DEF GenInv, vars
<1>9. Blocks'
  BY <1>1, <1>4, <1>8 DEF GenInv, Blocks
<1>10. Visited'
  <2>1. \A c \in DOMAIN branches : Dead(c)' = Dead(c)
    BY <1>1, <1>3, JumpsKept DEF GenInv, vars
  <2> QED  BY <1>1, <1>2, <1>6, <2>1 DEF GenInv, Visited, vars
<1> QED  BY <1>3, <1>5, <1>9, <1>10 DEF GenInv

LEMMA OpenOK ==
  ASSUME GenInv, OpenBranch(at[1])
  PROVE  GenInv'
<1> DEFINE b == at[1]
           N == Len(code)
           x == [branch |-> b, pc |-> branches[b].pc, label |-> Labelled(b),
                 units |-> <<>>, store |-> <<>>]
<1>1. /\ phase = "emit" /\ b <= Len(branches) /\ at[2] = 0 /\ ~Dead(b)
      /\ at' = <<b, 1>> /\ code' = Append(code, x) /\ phase' = phase /\ UNCHANGED vars
  BY DEF OpenBranch, Emitting
<1>2. /\ b \in Nat \ {0} /\ Len(branches) \in Nat /\ DOMAIN branches = 1 .. Len(branches)
      /\ \A i \in DOMAIN code : code[i].branch \in 1 .. Len(branches) /\ Block(code[i])
      /\ \A i \in DOMAIN code : code[i].branch < b
  BY <1>1, Standing
<1>3. Built' /\ Kept(branches, branches')
  BY <1>1, StillBuilt DEF GenInv
<1>4. at'[1] = b /\ at'[2] = 1 /\ at' \in (Nat \ {0}) \X Nat
  BY <1>1, <1>2
<1>5. Loop'
  BY <1>1, <1>4 DEF Loop, vars
<1>6. \A c \in 1 .. Len(branches) : Passed(c)' <=> (Passed(c) \/ c = b)
  BY <1>1, <1>2, <1>4 DEF Passed
<1>7. \A c \in 1 .. Len(branches) : c < b => Lim(c)' = Lim(c)
  BY <1>1, <1>2, <1>4 DEF Lim, vars
<1>8. ASSUME NEW i \in DOMAIN code, NEW v, v = code[i]
      PROVE  Block(v)'
  <2>1. Block(code[i]) /\ code[i].branch \in 1 .. Len(branches) /\ code[i].branch < b
    BY <1>2
  <2>2. Passed(code[i].branch)
    BY <2>1 DEF Block
  <2> QED  BY <1>1, <1>3, <1>6, <1>7, <1>8, <2>1, <2>2, BlockStays DEF GenInv, vars
<1>9. ASSUME NEW v, v = x
      PROVE  Block(v)'
  <2>1. Unmarked(branches[b]) /\ branches[b].opcodes \in Seq(Opcode)
    <3>1. ~Passed(b)
      BY <1>1, <1>2 DEF Passed
    <3> QED  BY <1>1, <1>2, <3>1, BuiltFacts DEF GenInv, Visited
  <2>2. UnitsOK(<<>>, b, branches[b].opcodes, 1)
    BY <2>1, UnitsNone DEF Unmarked
  <2>3. Labelled(b)' = Labelled(b)
    BY <1>1 DEF Labelled, vars
  <2>4. Lim(b)' = 1 /\ Passed(b)'
    BY <1>4 DEF Lim, Passed
  <2> QED  BY <1>1, <1>2, <1>9, <2>2, <2>3, <2>4 DEF Block, vars
<1>10. /\ N \in Nat /\ DOMAIN code = 1 .. N /\ DOMAIN code' = 1 .. N + 1
       /\ \A i \in 1 .. N : code'[i] = code[i]
       /\ code'[N + 1] = x
       /\ code' \in Seq({code'[i] : i \in DOMAIN code'})
       /\ Len(code') = N + 1
  <2>1. code \in Seq({code[i] : i \in DOMAIN code})
    BY DEF GenInv, Blocks
  <2> DEFINE new == Append(code, x)
  <2> HIDE DEF x
  <2>2. /\ N \in Nat /\ DOMAIN code = 1 .. N /\ DOMAIN new = 1 .. N + 1
        /\ \A i \in 1 .. N : new[i] = code[i]
        /\ new[N + 1] = x
        /\ new \in Seq({new[i] : i \in DOMAIN new})
    BY <2>1, AppendOK
  <2>3. code' = new
    BY <1>1
  <2> HIDE DEF new
  <2>4. Len(new) = N + 1
    BY <2>2, LenProperties
  <2> QED  BY <2>2, <2>3, <2>4
<1>11. x.branch = b
  OBVIOUS
<1> HIDE DEF x
<1>12. Blocks'
  <2>1. \A i \in DOMAIN code' : Block(code[i])'
    <3> TAKE i \in DOMAIN code'
    <3>1. CASE i \in 1 .. N
      BY <1>8, <1>10, <3>1
    <3>2. CASE i = N + 1
      BY <1>9, <1>10, <3>2
    <3> QED  BY <1>10, <3>1, <3>2
  <2>2. \A i, j \in DOMAIN code' : i < j => code'[i].branch < code'[j].branch
    <3> TAKE i, j \in DOMAIN code'
    <3> HAVE i < j
    <3>1. i \in 1 .. N /\ (j \in 1 .. N \/ j = N + 1)
      BY <1>10
    <3>2. CASE j \in 1 .. N
      BY <1>10, <3>1, <3>2 DEF GenInv, Blocks
    <3>3. CASE j = N + 1
      BY <1>2, <1>10, <1>11, <3>1, <3>3
    <3> QED  BY <3>1, <3>2, <3>3
  <2>3. Len(code') \in DOMAIN code' /\ code'[Len(code')].branch = at'[1]
    BY <1>4, <1>10, <1>11
  <2> QED  BY <1>10, <2>1, <2>2, <2>3 DEF Blocks
<1>13. Visited'
  <2>1. \A c \in DOMAIN branches : Dead(c)' = Dead(c)
    BY <1>1, <1>3, JumpsKept DEF GenInv, vars
  <2>2. code'[N + 1].branch = b /\ N + 1 \in DOMAIN code'
    BY <1>10, <1>11
  <2>3. \A i \in DOMAIN code : i \in DOMAIN code' /\ code'[i].branch = code[i].branch
    BY <1>10
  <2>4. ASSUME NEW c \in DOMAIN branches, c # b
        PROVE  IF Passed(c)' THEN Dead(c)' \/ \E i \in DOMAIN code' : code'[i].branch = c
               ELSE Unmarked(branches'[c])
    <3>1. Passed(c)' <=> Passed(c)
      BY <1>2, <1>6, <2>4
    <3> QED  BY <1>1, <2>1, <2>3, <3>1 DEF GenInv, Visited, vars
  <2>5. Passed(b)'
    BY <1>4 DEF Passed
  <2> QED  BY <1>1, <2>2, <2>4, <2>5 DEF Visited, vars
<1> QED  BY <1>3, <1>5, <1>12, <1>13 DEF GenInv

(* A step inside branch at[1], which changes the branch's block to y.      *)
LEMMA InsideOK ==
  ASSUME GenInv, NEW b, b = at[1], phase = "emit", phase' = phase, at[2] > 0,
         Kept(branches, branches'),
         UNCHANGED <<pccount, opcount, noinitjump, hasdynjumps, err>>,
         \A c \in DOMAIN branches : c # b => branches'[c] = branches[c],
         at' = <<b, at[2] + 1>> \/ at' = <<b + 1, 0>>,
         NEW y, code' = [code EXCEPT ![Len(code)] = y],
         y = [branch |-> y.branch, pc |-> y.pc, label |-> y.label,
              units |-> y.units, store |-> y.store],
         y.branch = b, y.pc = code[Len(code)].pc, y.label = code[Len(code)].label,
         UnitsOK(y.units, b, branches'[b].opcodes,
                 IF at' = <<b, at[2] + 1>> THEN at[2] + 1
                 ELSE Len(branches'[b].opcodes) + 1)
  PROVE  GenInv'
<1> DEFINE N == Len(code)
<1>1. /\ b \in Nat \ {0} /\ at[2] \in Nat /\ at = <<b, at[2]>>
      /\ Len(branches) \in Nat /\ DOMAIN branches = 1 .. Len(branches)
      /\ N \in Nat /\ DOMAIN code = 1 .. N
      /\ \A i \in DOMAIN code : code[i].branch \in 1 .. Len(branches) /\ Block(code[i])
      /\ N \in DOMAIN code /\ code[N].branch = b
      /\ \A i \in DOMAIN code : i # N => code[i].branch < b
  BY Standing
<1>2. Built' /\ DOMAIN branches' = DOMAIN branches /\ Len(branches') = Len(branches)
  BY BuiltKept DEF GenInv, Kept
<1>3. /\ at' \in (Nat \ {0}) \X Nat
      /\ \/ at'[1] = b /\ at'[2] = at[2] + 1
         \/ at'[1] = b + 1 /\ at'[2] = 0
  BY <1>1
<1>4. b \in 1 .. Len(branches)
  BY <1>1
<1>5. Loop'
  BY <1>1, <1>2, <1>3, <1>4 DEF Loop
<1>6. \A c \in 1 .. Len(branches) : Passed(c)' <=> Passed(c)
  BY <1>1, <1>3 DEF Passed
<1>7. \A c \in 1 .. Len(branches) : c < b => Lim(c)' = Lim(c)
  BY <1>1, <1>3 DEF Lim
<1>8. /\ DOMAIN code' = 1 .. N /\ code'[N] = y
      /\ \A i \in 1 .. N : i # N => code'[i] = code[i]
      /\ code' \in Seq({code'[i] : i \in DOMAIN code'}) /\ Len(code') = N
  <2> DEFINE new == [code EXCEPT ![N] = y]
             S   == {new[i] : i \in DOMAIN new}
  <2>1. code = [i \in 1 .. N |-> code[i]]
    <3>1. code \in Seq({code[i] : i \in DOMAIN code})
      BY DEF GenInv, Blocks
    <3> QED  BY <1>1, <3>1, LenProperties
  <2>2. /\ DOMAIN new = 1 .. N /\ new[N] = y
        /\ \A i \in 1 .. N : i # N => new[i] = code[i]
        /\ new = [i \in 1 .. N |-> new[i]]
    BY <1>1, <2>1
  <2>3. code' = new
    OBVIOUS
  <2> HIDE DEF new
  <2>4. new \in Seq(S) /\ Len(new) = N
    <3>1. new \in [1 .. N -> S]
      BY <2>2
    <3> HIDE DEF S
    <3>2. new \in Seq(S)
      BY <1>1, <3>1, SeqDef
    <3> QED  BY <1>1, <2>2, <3>2, LenProperties
  <2>5. {code'[i] : i \in DOMAIN code'} = S
    BY ONLY <2>3
  <2> HIDE DEF S
  <2>6. code' \in Seq({code'[i] : i \in DOMAIN code'})
    BY ONLY <2>3, <2>4, <2>5
  <2> QED  BY <2>2, <2>3, <2>4, <2>6
<1>9. ASSUME NEW i \in 1 .. N, i # N, NEW v, v = code[i]
      PROVE  Block(v)'
  <2>1. Block(code[i]) /\ code[i].branch \in 1 .. Len(branches) /\ code[i].branch < b
    BY <1>1, <1>9
  <2>2. Passed(code[i].branch)
    BY <2>1 DEF Block
  <2>3. branches'[code[i].branch] = branches[code[i].branch]
    BY <1>1, <2>1
  <2> QED  BY <1>6, <1>7, <1>9, <2>1, <2>2, <2>3, BlockStays DEF GenInv
<1>10. ASSUME NEW v, v = y
       PROVE  Block(v)'
  <2>1. code[N].pc = branches[b].pc /\ code[N].label = Labelled(b)
    BY <1>1 DEF Block
  <2>2. branches'[b].pc = branches[b].pc /\ Labelled(b)' = Labelled(b)
    BY <1>1, <1>4, JumpsKept DEF Kept, KeptBranch, GenInv
  <2>3. Passed(b)'
    BY <1>1, <1>3 DEF Passed
  <2>4. Lim(b)' = IF at' = <<b, at[2] + 1>> THEN at[2] + 1
                 ELSE Len(branches'[b].opcodes) + 1
    BY <1>1, <1>3 DEF Lim
  <2>5. b \in DOMAIN branches'
    BY <1>1, <1>2, <1>4
  <2> QED  BY <1>10, <2>1, <2>2, <2>3, <2>4, <2>5 DEF Block
<1>11. Blocks'
  <2>1. \A i \in DOMAIN code' : Block(code[i])'
    <3> TAKE i \in DOMAIN code'
    <3>1. CASE i # N
      BY <1>8, <1>9, <3>1
    <3>2. CASE i = N
      BY <1>8, <1>10, <3>2
    <3> QED  BY <1>8, <3>1, <3>2
  <2>2. \A i \in 1 .. N : code'[i].branch = code[i].branch
    BY <1>1, <1>8
  <2>3. \A i, j \in DOMAIN code' : i < j => code'[i].branch < code'[j].branch
    BY <1>1, <1>8, <2>2, ZenonT(30) DEF GenInv, Blocks
  <2>4. at'[2] > 0 => Len(code') \in DOMAIN code' /\ code'[Len(code')].branch = at'[1]
    BY <1>1, <1>3, <1>8
  <2> QED  BY <1>8, <2>1, <2>3, <2>4 DEF Blocks
<1>12. Visited'
  <2>1. \A c \in DOMAIN branches : Dead(c)' = Dead(c)
    BY JumpsKept DEF GenInv
  <2>2. \A i \in DOMAIN code : i \in DOMAIN code' /\ code'[i].branch = code[i].branch
    BY <1>1, <1>8
  <2>3. Passed(b)
    BY <1>1 DEF Passed
  <2>4. ASSUME NEW c \in DOMAIN branches
        PROVE  IF Passed(c)' THEN Dead(c)' \/ \E i \in DOMAIN code' : code'[i].branch = c
               ELSE Unmarked(branches'[c])
    <3>1. CASE Passed(c)
      BY <1>1, <1>6, <2>1, <2>2, <3>1 DEF GenInv, Visited
    <3>2. CASE ~Passed(c)
      <4>1. ~Passed(c)' /\ Unmarked(branches[c])
        BY <1>1, <1>6, <3>2 DEF GenInv, Visited
      <4>2. branches'[c] = branches[c]
        BY <2>3, <3>2
      <4> QED  BY <4>1, <4>2
    <3> QED  BY <3>1, <3>2
  <2> QED  BY <1>2, <2>4 DEF Visited
<1> QED  BY <1>2, <1>5, <1>11, <1>12 DEF GenInv

(* The block the walk is in.                                               *)
LEMMA InBlock ==
  ASSUME GenInv, at[2] > 0
  PROVE  /\ at[1] \in DOMAIN branches
         /\ branches[at[1]].opcodes \in Seq(Opcode)
         /\ Len(code) \in DOMAIN code
         /\ code[Len(code)] = [branch |-> at[1], pc |-> code[Len(code)].pc,
                               label |-> code[Len(code)].label,
                               units |-> code[Len(code)].units,
                               store |-> code[Len(code)].store]
         /\ UnitsOK(code[Len(code)].units, at[1], branches[at[1]].opcodes, at[2])
<1> DEFINE x == code[Len(code)]
<1>1. Len(code) \in DOMAIN code /\ x.branch = at[1] /\ Block(x) /\ x.branch \in DOMAIN branches
  BY Standing
<1>2. branches[at[1]].opcodes \in Seq(Opcode)
  BY <1>1, BuiltFacts DEF GenInv
<1>3. Lim(at[1]) = at[2]
  BY DEF Lim
<1> HIDE DEF x
<1>4. /\ x = [branch |-> at[1], pc |-> x.pc, label |-> x.label,
              units |-> x.units, store |-> x.store]
      /\ UnitsOK(x.units, at[1], branches[at[1]].opcodes, at[2])
  BY <1>1, <1>3 DEF Block
<1> QED  BY <1>1, <1>2, <1>4 DEF x

LEMMA SkipUnnecessaryOK ==
  ASSUME GenInv, SkipUnnecessary(at[1], at[2])
  PROVE  GenInv'
<1> DEFINE b   == at[1]
           k   == at[2]
           ops == branches[b].opcodes
           x   == code[Len(code)]
<1>1. /\ phase = "emit" /\ phase' = phase /\ k \in DOMAIN ops /\ ops[k].isUnnecessary
      /\ at' = <<b, k + 1>> /\ code' = code /\ UNCHANGED vars /\ b <= Len(branches)
  BY DEF SkipUnnecessary, Emitting
<1>2. /\ b \in Nat \ {0} /\ k \in Nat /\ Len(branches) \in Nat
      /\ DOMAIN branches = 1 .. Len(branches)
  BY Standing
<1>3. ops \in Seq(Opcode)
  BY <1>1, <1>2, BuiltFacts DEF GenInv
<1>4. k > 0
  BY <1>1, <1>2, <1>3, LenProperties
<1>5. /\ Len(code) \in DOMAIN code
      /\ x = [branch |-> b, pc |-> x.pc, label |-> x.label, units |-> x.units, store |-> x.store]
      /\ UnitsOK(x.units, b, ops, k)
  BY <1>4, InBlock
<1>6. UnitsOK(x.units, b, ops, k + 1)
  BY <1>1, <1>2, <1>3, <1>5, UnitsSkip
<1>7. Kept(branches, branches') /\ branches' = branches
  BY <1>1, StillBuilt DEF GenInv, vars
<1>8. code' = [code EXCEPT ![Len(code)] = x]
  <2>1. code \in Seq({code[i] : i \in DOMAIN code})
    BY DEF GenInv, Blocks
  <2>2. code = [i \in 1 .. Len(code) |-> code[i]]
    BY <2>1, LenProperties
  <2> QED  BY <1>1, <2>2
<1>9. UNCHANGED <<pccount, opcount, noinitjump, hasdynjumps, err>>
  BY <1>1 DEF vars
<1>10. x.branch = b
  BY <1>5
<1> HIDE DEF x, b, k, ops
<1>11. UnitsOK(x.units, b, branches'[b].opcodes, IF at' = <<b, k + 1>> THEN k + 1
                 ELSE Len(branches'[b].opcodes) + 1)
  BY <1>1, <1>6, <1>7 DEF ops
<1>12. b = at[1] /\ k = at[2]
  BY DEF b, k
<1> QED  BY <1>1, <1>4, <1>5, <1>7, <1>8, <1>9, <1>10, <1>11, <1>12, InsideOK DEF x

LEMMA CloseOK ==
  ASSUME GenInv, CloseBranch(at[1])
  PROVE  GenInv'
<1> DEFINE b   == at[1]
           k   == at[2]
           ops == branches[b].opcodes
           x   == code[Len(code)]
           y   == [x EXCEPT !.store = StackStore(branches[b])]
<1>1. /\ phase = "emit" /\ phase' = phase /\ k > Len(ops)
      /\ at' = <<b + 1, 0>> /\ code' = [code EXCEPT ![Len(code)] = y]
      /\ UNCHANGED vars /\ b <= Len(branches)
  BY DEF CloseBranch, Emitting
<1>2. /\ b \in Nat \ {0} /\ k \in Nat /\ Len(branches) \in Nat
      /\ DOMAIN branches = 1 .. Len(branches)
  BY Standing
<1>3. ops \in Seq(Opcode)
  BY <1>1, <1>2, BuiltFacts DEF GenInv
<1>4. k > 0
  BY <1>1, <1>2, <1>3, LenProperties
<1>5. /\ Len(code) \in DOMAIN code
      /\ x = [branch |-> b, pc |-> x.pc, label |-> x.label, units |-> x.units, store |-> x.store]
      /\ UnitsOK(x.units, b, ops, k)
  BY <1>4, InBlock
<1>6. UnitsOK(x.units, b, ops, Len(ops) + 1)
  BY <1>1, <1>2, <1>3, <1>5, UnitsEnd
<1>7. Kept(branches, branches') /\ branches' = branches
  BY <1>1, StillBuilt DEF GenInv, vars
<1>8. /\ y = [branch |-> y.branch, pc |-> y.pc, label |-> y.label,
              units |-> y.units, store |-> y.store]
      /\ y.branch = b /\ y.pc = x.pc /\ y.label = x.label /\ y.units = x.units
  BY <1>5
<1>9. UNCHANGED <<pccount, opcount, noinitjump, hasdynjumps, err>>
  BY <1>1 DEF vars
<1>10. at' # <<b, k + 1>>
  BY <1>1, <1>2
<1> HIDE DEF x, y, b, k, ops
<1>11. UnitsOK(y.units, b, branches'[b].opcodes, IF at' = <<b, k + 1>> THEN k + 1
                 ELSE Len(branches'[b].opcodes) + 1)
  BY <1>6, <1>7, <1>8, <1>10 DEF ops
<1>12. b = at[1] /\ k = at[2]
  BY DEF b, k
<1> QED  BY <1>1, <1>4, <1>5, <1>7, <1>8, <1>9, <1>11, <1>12, InsideOK DEF x

LEMMA EmitOK ==
  ASSUME GenInv, EmitOpcode(at[1], at[2])
  PROVE  GenInv'
<1> DEFINE b   == at[1]
           k   == at[2]
           ops == branches[b].opcodes
           x   == code[Len(code)]
           u   == Unit(ops, k, b)
           y   == [x EXCEPT !.units = Append(@, u)]
<1>1. /\ phase = "emit" /\ phase' = phase /\ k \in DOMAIN ops /\ b <= Len(branches)
      /\ at' = IF ops[k].isExitOpcode THEN <<b + 1, 0>> ELSE <<b, k + 1>>
      /\ code' = [code EXCEPT ![Len(code)] = y]
      /\ UNCHANGED <<pccount, opcount, noinitjump, hasdynjumps, err>>
  BY DEF EmitOpcode, Emitting
<1>2. /\ b \in Nat \ {0} /\ k \in Nat /\ Len(branches) \in Nat
      /\ DOMAIN branches = 1 .. Len(branches)
  BY Standing
<1>3. ops \in Seq(Opcode) /\ b \in DOMAIN branches
  BY <1>1, <1>2, BuiltFacts DEF GenInv
<1>4. k > 0 /\ k \in 1 .. Len(ops)
  BY <1>1, <1>2, <1>3, LenProperties
<1>5. /\ Len(code) \in DOMAIN code
      /\ x = [branch |-> b, pc |-> x.pc, label |-> x.label, units |-> x.units, store |-> x.store]
      /\ UnitsOK(x.units, b, ops, k)
  BY <1>4, InBlock
<1>6. /\ Kept(branches, branches')
      /\ \A i \in DOMAIN branches : i # b => branches'[i] = branches[i]
      /\ SameOps(ops, branches'[at[1]].opcodes)
      /\ branches'[at[1]].opcodes = IF ops[k].skipGasCheck THEN ops ELSE Marked(ops, k)
  <2>1. PICK c \in DOMAIN branches : c = b
    BY <1>3
  <2>2. EmitOpcode(c, k)
    BY <2>1
  <2>3. /\ Kept(branches, branches')
        /\ \A i \in DOMAIN branches : i # c => branches'[i] = branches[i]
        /\ branches'[c].opcodes = IF branches[c].opcodes[k].skipGasCheck
                                  THEN branches[c].opcodes
                                  ELSE Marked(branches[c].opcodes, k)
    BY <2>2, EmitKeeps DEF GenInv
  <2>4. SameOps(branches[c].opcodes, branches'[c].opcodes)
    BY <2>3 DEF Kept, KeptBranch
  <2> QED  BY <2>1, <2>3, <2>4
<1>7. /\ y = [branch |-> y.branch, pc |-> y.pc, label |-> y.label,
              units |-> y.units, store |-> y.store]
      /\ y.branch = b /\ y.pc = x.pc /\ y.label = x.label
      /\ y.units = Append(x.units, u)
  <2> DEFINE us == Append(x.units, u)
  <2>1. y = [x EXCEPT !.units = us]
    OBVIOUS
  <2> HIDE DEF us, x, b, y
  <2>2. y = [branch |-> b, pc |-> x.pc, label |-> x.label, units |-> us, store |-> x.store]
    BY <1>5, <2>1
  <2>3. y.branch = b /\ y.pc = x.pc /\ y.label = x.label /\ y.units = us /\ y.store = x.store
    BY <2>2
  <2> QED  BY <2>2, <2>3 DEF us
<1> DEFINE ops2 == branches'[at[1]].opcodes
<1>8. UnitsOK(y.units, b, ops2, k + 1)
  <2> HIDE DEF ops, ops2, y, x
  <2>1. UnitsOK(Append(x.units, Unit(ops, k, b)), b, ops2, k + 1)
    BY <1>3, <1>4, <1>5, <1>6, UnitsEmit DEF ops2
  <2> QED  BY <1>7, <2>1
<1>9. ops[k].isExitOpcode => UnitsOK(y.units, b, ops2, Len(ops2) + 1)
  <2> SUFFICES ASSUME ops[k].isExitOpcode
               PROVE  UnitsOK(y.units, b, ops2, Len(ops2) + 1)
    OBVIOUS
  <2>1. ops2[k].isExitOpcode /\ ops2 \in Seq(Opcode) /\ k \in 1 .. Len(ops2)
    BY <1>1, <1>4, <1>6 DEF SameOps, SameOp
  <2>2. (k + 1) - 1 = k /\ k + 1 \in Nat
    BY <1>2
  <2> HIDE DEF ops2, y, k, b, ops
  <2> DEFINE lim == k + 1
  <2>4. lim - 1 \in 1 .. Len(ops2) /\ ops2[lim - 1].isExitOpcode /\ lim \in Nat
    BY <2>1, <2>2
  <2>5. UnitsOK(y.units, b, ops2, lim)
    BY <1>8
  <2> HIDE DEF lim
  <2> QED  BY <2>1, <2>4, <2>5, UnitsEnd
<1>10. at' = <<b, k + 1>> <=> ~ops[k].isExitOpcode
  BY <1>1, <1>2
<1>11. UnitsOK(y.units, b, ops2, IF at' = <<b, k + 1>> THEN k + 1 ELSE Len(ops2) + 1)
  <2> HIDE DEF ops, ops2, y, x, b, k
  <2> QED  BY <1>8, <1>9, <1>10
<1> HIDE DEF x, y, b, k, ops
<1>12. b = at[1] /\ k = at[2]
  BY DEF b, k
<1>13. at' = <<b, k + 1>> \/ at' = <<b + 1, 0>>
  BY <1>1
<1>14. UnitsOK(y.units, b, branches'[b].opcodes, IF at' = <<b, k + 1>> THEN k + 1
                 ELSE Len(branches'[b].opcodes) + 1)
  BY <1>11, <1>12
<1> QED  BY <1>1, <1>4, <1>5, <1>6, <1>7, <1>12, <1>13, <1>14, InsideOK DEF x

LEMMA GenStep == GenInv /\ [GenNext]_allvars => GenInv'
<1> SUFFICES ASSUME GenInv, [GenNext]_allvars PROVE GenInv'
  OBVIOUS
<1>1. CASE Build
  BY <1>1, BuildOK
<1>2. CASE Generate \/ Finish \/ UNCHANGED allvars
  BY <1>2, GenerateOK
<1>3. CASE Walk(at[1], at[2])
  BY <1>3, SkipDeadOK, OpenOK, CloseOK, SkipUnnecessaryOK, EmitOK DEF Walk
<1> QED  BY <1>1, <1>2, <1>3 DEF GenNext

LEMMA GenInductive == GenSpec => []GenInv
BY StartOK, GenStep, PTL DEF GenSpec

-----------------------------------------------------------------------------
(* What the text that String has written does.                             *)

LEMMA GroupOK ==
  ASSUME GenInv, NEW u \in Groups
  PROVE  /\ Ready(BlockOps(u)) /\ u.index \in 1 .. Len(BlockOps(u))
         /\ u.last \in u.index .. Len(BlockOps(u))
         /\ u.check = Checks(BlockOps(u), u.index, u.last)
<1>1. PICK i \in DOMAIN code : \E j \in DOMAIN code[i].units : u = code[i].units[j]
  BY DEF Groups
<1>2. PICK j \in DOMAIN code[i].units : u = code[i].units[j]
  BY <1>1
<1>3. Block(code[i])
  BY DEF GenInv, Blocks
<1>4. UnitOK(u, code[i].branch, branches[code[i].branch].opcodes)
      /\ code[i].branch \in DOMAIN branches
  BY <1>2, <1>3 DEF Block, UnitsOK
<1>5. u.branch = code[i].branch /\ u.last # 0
  BY <1>4 DEF UnitOK, Groups
<1>6. Ready(BlockOps(u))
  BY <1>4, <1>5, BuiltFacts DEF GenInv, BlockOps
<1> QED  BY <1>4, <1>5, <1>6 DEF UnitOK, BlockOps

LEMMA GroupRun ==
  ASSUME GenInv, NEW u \in Groups, NEW sp \in 0 .. StackSize, Fits(u, sp),
         NEW g \in GasAmounts(u)
  PROVE  RunAt(BlockOps(u), u.index, u.last, sp, g)
<1>1. g \in 0 .. CountLimit - 1
  BY DEF GasAmounts
<1> QED  BY <1>1, GroupOK DEF RunAt, Fits

(* Out of gas, underflows and success: the check in front of a run of      *)
(* opcodes answers what checking each of them in turn would, with the same *)
(* gas left and the error at the same opcode, whatever the branch, however *)
(* high the memory stack and however much gas there is.                    *)
THEOREM BatchingIsExact == GenSpec => []BatchExact
<1>1. GenInv => BatchExact
  <2> SUFFICES ASSUME GenInv, NEW u \in Groups, NEW sp \in 0 .. StackSize, Fits(u, sp),
                      NEW g \in GasAmounts(u), Stepped(u, sp, g).code # -11
               PROVE  Batched(u, sp, g) = Stepped(u, sp, g)
    BY DEF BatchExact
  <2> DEFINE ops == BlockOps(u)
             k   == u.index
             e   == u.last
             bad == Bad(ops, k, e, sp, g)
             n   == Min(bad)
  <2>1. RunAt(ops, k, e, sp, g)
    BY GroupRun
  <2>2. u.check = Checks(ops, k, e)
    BY GroupOK
  <2>3. Verdict(Checks(ops, k, e), sp, g) = StepByStep(ops, k, e, sp, g)
    <3>1. CASE bad = {}
      BY <2>1, <3>1, BatchGoes
    <3>2. CASE bad # {} /\ (Poor(ops, k, g, n) \/ Under(ops, k, sp, n))
      BY <2>1, <3>2, BatchFails
    <3>3. CASE bad # {} /\ ~Poor(ops, k, g, n) /\ ~Under(ops, k, sp, n)
      <4>1. StepByStep(ops, k, e, sp, g) = Fail(-11, ops[n].pc, Left(ops, k, g, n + 1))
        BY <3>3, SteppedIs
      <4>2. Stepped(u, sp, g).code = -11
        BY <4>1 DEF Stepped, Fail
      <4> QED  BY <4>2
    <3> QED  BY <3>1, <3>2, <3>3
  <2> QED  BY <2>2, <2>3 DEF Batched, Stepped
<1> QED  BY <1>1, GenInductive, PTL

(* Overflows, of a run before which its branch has loaded nothing and that *)
(* does not push more than the whole stack holds.                          *)
THEOREM OverflowsAreCaught == GenSpec => []OverflowsCaught
<1>1. GenInv => OverflowsCaught
  <2> SUFFICES ASSUME GenInv, NEW u \in Groups, NEW sp \in 0 .. StackSize, Fits(u, sp),
                      u.check.max <= StackSize,
                      LoadedBefore(BlockOps(u), u.index) = 0,
                      NEW g \in GasAmounts(u)
               PROVE  Batched(u, sp, g) = Stepped(u, sp, g)
    BY DEF OverflowsCaught
  <2> DEFINE ops == BlockOps(u)
             k   == u.index
             e   == u.last
             bad == Bad(ops, k, e, sp, g)
             n   == Min(bad)
  <2>1. RunAt(ops, k, e, sp, g)
    BY GroupRun
  <2>2. u.check = Checks(ops, k, e)
    BY GroupOK
  <2>3. Checks(ops, k, e).max <= StackSize /\ LoadedBefore(ops, k) = 0
    BY <2>2
  <2>4. Verdict(Checks(ops, k, e), sp, g) = StepByStep(ops, k, e, sp, g)
    <3>1. CASE bad = {}
      BY <2>1, <3>1, BatchGoes
    <3>2. CASE bad # {} /\ (Poor(ops, k, g, n) \/ Under(ops, k, sp, n))
      BY <2>1, <3>2, BatchFails
    <3>3. CASE bad # {} /\ ~Poor(ops, k, g, n) /\ ~Under(ops, k, sp, n)
      BY <2>1, <2>3, <3>3, BatchOverflows
    <3> QED  BY <3>1, <3>2, <3>3
  <2> QED  BY <2>2, <2>4 DEF Batched, Stepped
<1> QED  BY <1>1, GenInductive, PTL

(* In the end every branch is passed.                                      *)
LEMMA AllPassed ==
  ASSUME GenInv, phase = "done"
  PROVE  /\ \A b \in DOMAIN branches : Passed(b) /\ Lim(b) = Len(branches[b].opcodes) + 1
         /\ DOMAIN branches = 1 .. Len(branches) /\ Len(branches) \in Nat
<1>1. /\ at[1] \in Nat /\ DOMAIN branches = 1 .. Len(branches) /\ Len(branches) \in Nat
      /\ at[1] > Len(branches)
  BY Standing DEF GenInv, Loop
<1> QED  BY <1>1 DEF Passed, Lim

(* Gas is charged once: for every opcode control reaches in a block there  *)
(* is exactly one run that charges it, or none if it was folded away.      *)
THEOREM GasIsChargedOnce == GenSpec => []ChargedOnce
<1>1. GenInv => ChargedOnce
  <2> SUFFICES ASSUME GenInv, phase = "done", NEW i \in DOMAIN code, NEW n \in Reached(i)
               PROVE  \/ Cardinality(Charges(i, n)) = 1
                      \/ BlockBranch(i)[n].isUnnecessary /\ Charges(i, n) = {}
    BY DEF ChargedOnce
  <2> DEFINE ops == BlockBranch(i)
             us  == code[i].units
  <2>1. /\ code[i].branch \in DOMAIN branches
        /\ UnitsOK(us, code[i].branch, ops, Len(ops) + 1)
    <3>1. Block(code[i])
      BY DEF GenInv, Blocks
    <3>2. code[i].branch \in DOMAIN branches
      BY <3>1 DEF Block
    <3>3. Lim(code[i].branch) = Len(ops) + 1
      BY <3>2, AllPassed DEF BlockBranch
    <3> QED  BY <3>1, <3>2, <3>3 DEF Block, BlockBranch
  <2>2. Len(ops) \in Nat /\ DOMAIN ops = 1 .. Len(ops)
    BY <2>1, BuiltFacts, LenProperties DEF GenInv, BlockBranch
  <2>3. n \in 1 .. Len(ops) /\ Arrives(ops, n)
    BY <2>2 DEF Reached, Arrives
  <2>4. ASSUME NEW j \in DOMAIN us, n \in Span(us[j])
        PROVE  Charges(i, n) = {us[j]}
    <3>1. \A m \in DOMAIN us : n \in Span(us[m]) => m = j
      BY <2>1, <2>4 DEF UnitsOK
    <3> QED  BY <2>4, <3>1 DEF Charges, Span
  <2>5. CASE \E j \in DOMAIN us : n \in Span(us[j])
    <3>1. PICK j \in DOMAIN us : n \in Span(us[j])
      BY <2>5
    <3>2. Cardinality({us[j]}) = 1
      BY FS_Singleton
    <3> QED  BY <2>4, <3>1, <3>2
  <2>6. CASE ~\E j \in DOMAIN us : n \in Span(us[j])
    <3>1. Charges(i, n) = {}
      BY <2>6 DEF Charges, Span
    <3>2. n < Len(ops) + 1
      BY <2>2, <2>3
    <3>3. ops[n].isUnnecessary
      BY <2>1, <2>3, <2>6, <3>2 DEF UnitsOK
    <3> QED  BY <3>1, <3>3
  <2> QED  BY <2>5, <2>6
<1> QED  BY <1>1, GenInductive, PTL

(* A branch that is not dropped and has a label is the only one found      *)
(* there.                                                                  *)
LEMMA OneLabel ==
  ASSUME GenInv, phase = "done", NEW c \in DOMAIN branches, ~Dead(c), Labelled(c)
  PROVE  /\ Cardinality(LabelsAt(branches[c].pc)) = 1
         /\ BranchesAt(branches[c].pc) = {c}
<1>1. /\ \A b \in DOMAIN branches : Passed(b)
      /\ DOMAIN branches = 1 .. Len(branches) /\ Len(branches) \in Nat
  BY AllPassed
<1>2. PICK i \in DOMAIN code : code[i].branch = c
  BY <1>1 DEF GenInv, Visited
<1>3. \A b \in DOMAIN branches : branches[b].pc \in Nat
  BY BuiltFacts DEF GenInv
<1>4. ASSUME NEW d \in DOMAIN branches, branches[d].pc = branches[c].pc
      PROVE  d = c
  <2>1. branches[c].pc > 0 \/ ~noinitjump
    BY DEF Labelled
  <2>2. ~(c < d) /\ ~(d < c)
    BY <1>3, <1>4, <2>1 DEF GenInv, Built, PcsRise
  <2> QED  BY <1>1, <2>2
<1>5. \A j \in DOMAIN code : Block(code[j])
  BY DEF GenInv, Blocks
<1>6. ASSUME NEW j \in LabelsAt(branches[c].pc)
      PROVE  j = i
  <2>1. j \in DOMAIN code /\ code[j].branch = c
    BY <1>4, <1>5 DEF LabelsAt, Block
  <2>2. i \in Int /\ j \in Int
    BY <2>1, Standing
  <2>3. ~(i < j) /\ ~(j < i)
    <3>1. c \in Int
      BY <1>1
    <3> QED  BY <1>2, <2>1, <3>1 DEF GenInv, Blocks
  <2> QED  BY <2>2, <2>3
<1>7. i \in LabelsAt(branches[c].pc)
  BY <1>2, <1>5 DEF LabelsAt, Block
<1>8. LabelsAt(branches[c].pc) = {i}
  BY <1>6, <1>7
<1> QED  BY <1>4, <1>8, FS_Singleton, ZenonT(30) DEF BranchesAt

(* Every branch instruction finds its label: dead branches are dropped and *)
(* the entry's label is left out only where no jump names them.            *)
THEOREM JumpsFindLabels == GenSpec => []TargetsLabelled
<1>1. GenInv => TargetsLabelled
  <2> SUFFICES ASSUME GenInv, phase = "done" PROVE TargetsLabelled
    BY DEF TargetsLabelled
  <2>1. ASSUME NEW op \in Static, op.stackRefs[1][2] \in 1 .. PcLimit - 1
        PROVE  Cardinality(LabelsAt(op.stackRefs[1][2])) = 1
    <3> DEFINE v == op.stackRefs[1][2]
    <3>1. op \in Emitted /\ op.isStaticJump /\ BranchesAt(op.staticJumpPc) # {}
      BY DEF Static, IsValidTarget
    <3>2. PICK i \in DOMAIN code : \E j \in DOMAIN code[i].units : op = code[i].units[j].op
      BY <3>1 DEF Emitted
    <3>3. PICK j \in DOMAIN code[i].units : op = code[i].units[j].op
      BY <3>2
    <3> DEFINE b   == code[i].branch
               ops == branches[b].opcodes
               k   == code[i].units[j].index
    <3>4. b \in DOMAIN branches /\ k \in 1 .. Len(ops) /\ SameOp(ops[k], op)
      <4>1. Block(code[i])
        BY DEF GenInv, Blocks
      <4> QED  BY <3>3, <4>1 DEF Block, UnitsOK, UnitOK
    <3>5. Ready(ops)
      BY <3>4, BuiltFacts DEF GenInv
    <3>6. k \in DOMAIN ops /\ Needs(ops[k])
      BY <3>4, <3>5, ReadyFields DEF Ready
    <3> HIDE DEF b, ops, k
    <3>7. op.staticJumpPc = JumpPc(v) /\ ops[k].isStaticJump /\ ops[k].staticJumpPc = JumpPc(v)
      BY <3>1, <3>4, <3>6 DEF Needs, SameOp
    <3>8. v \in Nat /\ v < PcLimit /\ v >= 1 /\ PcLimit \in Nat /\ IntLimit \in Nat
          /\ PcLimit <= IntLimit
      BY <2>1, LimitsAssumption
    <3> HIDE DEF v
    <3>9. JumpPc(v) = v
      <4>1. v < IntLimit
        BY <3>8
      <4>2. v % PcLimit = v
        BY <3>8
      <4> QED  BY <4>1, <4>2 DEF JumpPc
    <3>10. PICK c \in DOMAIN branches : branches[c].pc = v
      BY <3>1, <3>7, <3>9 DEF BranchesAt
    <3>11. ASSUME NEW d \in DOMAIN branches, branches[d].pc = v
           PROVE  d = c
      <4>1. ~(c < d) /\ ~(d < c)
        BY <3>8, <3>10, <3>11 DEF GenInv, Built, PcsRise
      <4> QED  BY <4>1, AllPassed
    <3>12. c = Max(BranchesAt(v))
      <4>1. BranchesAt(v) = {c} /\ c \in Int
        BY <3>10, <3>11, AllPassed DEF BranchesAt
      <4>2. {c} \in SUBSET (c .. c) /\ {c} # {}
        BY <4>1
      <4>3. Max({c}) \in {c}
        BY <4>1, <4>2, MaxOK
      <4> QED  BY <4>1, <4>3
    <3>13. ~Dead(c) /\ Labelled(c)
      <4>1. Referenced(c)
        BY <3>4, <3>6, <3>7, <3>9, <3>10, <3>12 DEF Referenced, ops
      <4>2. branches[c].pc > 0
        BY <3>8, <3>10
      <4> QED  BY <4>1, <4>2 DEF Dead, Labelled
    <3> QED  BY <3>10, <3>13, OneLabel DEF v
  <2>2. ASSUME NEW pc \in JumpTable
        PROVE  Cardinality(LabelsAt(pc)) = 1
    <3>1. PICK c \in DOMAIN branches :
            /\ pc = branches[c].pc /\ hasdynjumps
            /\ ~(branches[c].pc = 0 /\ noinitjump)
      BY DEF JumpTable
    <3>2. branches[c].pc \in Nat
      BY BuiltFacts DEF GenInv
    <3>3. ~Dead(c) /\ Labelled(c)
      BY <3>1, <3>2 DEF Dead, Labelled
    <3> QED  BY <3>1, <3>3, OneLabel
  <2> QED  BY <2>1, <2>2 DEF TargetsLabelled
<1> QED  BY <1>1, GenInductive, PTL

-----------------------------------------------------------------------------
(* Marking an opcode changes neither its effect nor the caches.            *)
LEMMA KeptFlows ==
  ASSUME Built, Flows, Kept(branches, branches'), opcount' = opcount
  PROVE  Flows'
<1> SUFFICES ASSUME NEW b \in DOMAIN branches'
             PROVE  Flowing(branches'[b]) /\ Young(branches[b])'
  BY DEF Flows
<1> DEFINE x == branches[b]
           y == branches'[b]
<1>1. b \in DOMAIN branches /\ KeptBranch(x, y)
  BY DEF Kept
<1>2. Flowing(x) /\ Young(x)
  BY <1>1 DEF Flows
<1> HIDE DEF x, y
<1>3. SameOps(x.opcodes, y.opcodes) /\ StackStore(y) = StackStore(x)
  BY <1>1 DEF KeptBranch
<1>4. /\ Len(x.opcodes) \in Nat /\ Len(y.opcodes) = Len(x.opcodes)
      /\ DOMAIN x.opcodes = 1 .. Len(x.opcodes)
      /\ DOMAIN y.opcodes = 1 .. Len(x.opcodes)
      /\ \A n \in DOMAIN x.opcodes : SameOp(x.opcodes[n], y.opcodes[n])
  BY <1>3 DEF SameOps
<1>5. \A n \in Nat \ {0} : CacheAt(y, n) = CacheAt(x, n)
  <2> TAKE n \in Nat \ {0}
  <2>1. CASE n <= Len(x.opcodes)
    <3>1. SameOp(x.opcodes[n], y.opcodes[n])
      BY <1>4, <2>1
    <3>2. x.opcodes[n].cache = y.opcodes[n].cache
      BY <3>1 DEF SameOp
    <3> QED
      BY <3>2, <1>4, <2>1 DEF CacheAt
  <2>2. CASE ~(n <= Len(x.opcodes))
    BY <1>3, <1>4, <2>2 DEF CacheAt
  <2> QED
    BY <2>1, <2>2
<1>6. ASSUME NEW o, NEW p, SameOp(o, p), NEW after, Effect(o, after)
      PROVE  Effect(p, after)
  <2>1. /\ o.id = p.id /\ o.pc = p.pc /\ o.name = p.name /\ o.arg = p.arg
        /\ o.in = p.in /\ o.out = p.out /\ o.stackRefs = p.stackRefs
        /\ o.stackLoad = p.stackLoad /\ o.stackAddLoad = p.stackAddLoad
        /\ o.cache = p.cache
        /\ o.isExitOpcode = p.isExitOpcode /\ o.isUnnecessary = p.isUnnecessary
        /\ o.isStaticJump = p.isStaticJump /\ o.staticJumpPc = p.staticJumpPc
        /\ o.stackStore = p.stackStore /\ o.breakGasGroup = p.breakGasGroup
    BY <1>6 DEF SameOp
  <2>2. /\ Deep(p) = Deep(o) /\ LowLen(p) = LowLen(o) /\ (Lifted(p) <=> Lifted(o))
        /\ Beyond(p) = Beyond(o)
    BY <2>1 DEF Deep, LowLen, Lifted, Beyond
  <2>3. \A n : ArgRef(p, n) = ArgRef(o, n) /\ LowRef(p, n) = LowRef(o, n)
    BY <2>1, <2>2 DEF ArgRef, LowRef
  <2>4. \A n : NewRef(p, n) = NewRef(o, n)
    BY <2>1, <2>2 DEF NewRef
  <2>5. AfterRefs(p) = AfterRefs(o)
    BY <2>1, <2>2, <2>3, <2>4 DEF AfterRefs
  <2>6. [n \in 1 .. p.in |-> ArgRef(p, n)] = [n \in 1 .. o.in |-> ArgRef(o, n)]
    BY <2>1, <2>3
  <2> QED
    BY <1>6, <2>1, <2>2, <2>5, <2>6 DEF Effect
<1>7. ASSUME NEW n \in DOMAIN y.opcodes
      PROVE  /\ Effect(y.opcodes[n], CacheAt(y, n + 1))
             /\ \A k \in DOMAIN y.opcodes[n].cache :
                  Older(y.opcodes[n].cache[k], y.opcodes[n].id)
  <2>1. SameOp(x.opcodes[n], y.opcodes[n]) /\ n \in DOMAIN x.opcodes /\ n + 1 \in Nat \ {0}
    BY <1>4
  <2>2. /\ x.opcodes[n].cache = y.opcodes[n].cache /\ x.opcodes[n].id = y.opcodes[n].id
    BY <2>1 DEF SameOp
  <2>3. /\ Effect(x.opcodes[n], CacheAt(x, n + 1))
        /\ \A k \in DOMAIN x.opcodes[n].cache :
              Older(x.opcodes[n].cache[k], x.opcodes[n].id)
    BY <2>1, <1>2 DEF Flowing
  <2>4. Effect(y.opcodes[n], CacheAt(x, n + 1))
    BY <2>1, <2>3, <1>6
  <2> QED
    BY <2>1, <2>2, <2>3, <2>4, <1>5
<1>8. CacheAt(y, 1) = <<>>
  BY <1>2, <1>5 DEF Flowing
<1>9. Flowing(y)
  BY <1>7, <1>8 DEF Flowing
<1>10. Young(x)'
  <2>1. \A k \in DOMAIN StackStore(y) : Older(StackStore(y)[k], opcount)
    BY <1>2, <1>3 DEF Young
  <2> QED
    BY <2>1 DEF Young, x, y
<1> QED
  BY <1>9, <1>10 DEF x, y

(* What a step of the generator leaves of the branches.                    *)
LEMMA WalkKeeps ==
  ASSUME GenInv, [GenNext]_allvars
  PROVE  \/ phase = "build" /\ [Next]_vars /\ UNCHANGED genvars
         \/ /\ Kept(branches, branches')
            /\ UNCHANGED <<pccount, opcount, noinitjump, hasdynjumps, err>>
<1>1. Built
  BY DEF GenInv
<1>2. CASE UNCHANGED vars
  BY <1>1, <1>2, StillBuilt DEF vars
<1>3. CASE Build
  BY <1>3 DEF Build
<1>4. CASE EmitOpcode(at[1], at[2])
  <2>1. at[1] \in DOMAIN branches
    BY <1>4, Standing DEF EmitOpcode, Emitting
  <2> QED
    BY <1>1, <1>4, <2>1, EmitKeeps DEF EmitOpcode
<1>5. CASE \/ Generate \/ Finish \/ UNCHANGED allvars \/ SkipDeadBranch(at[1])
           \/ OpenBranch(at[1]) \/ CloseBranch(at[1]) \/ SkipUnnecessary(at[1], at[2])
  BY <1>5, <1>2 DEF Generate, Finish, allvars, SkipDeadBranch, OpenBranch, CloseBranch,
     SkipUnnecessary
<1> QED
  BY <1>2, <1>3, <1>4, <1>5 DEF GenNext, Walk

LEMMA GenFlows == GenInv /\ Flows /\ [GenNext]_allvars => Flows'
<1> SUFFICES ASSUME GenInv, Flows, [GenNext]_allvars
             PROVE  Flows'
  OBVIOUS
<1>1. Built /\ IndInv
  BY DEF GenInv, Built
<1>2. CASE [Next]_vars
  BY <1>1, <1>2, StepFlows
<1>3. CASE /\ Kept(branches, branches')
           /\ UNCHANGED <<pccount, opcount, noinitjump, hasdynjumps, err>>
  BY <1>1, <1>3, KeptFlows
<1> QED
  BY <1>2, <1>3, WalkKeeps

-----------------------------------------------------------------------------
(* What is written of the opcodes ops of a branch, of which those before   *)
(* lim have been passed: each that is neither folded nor behind an exit    *)
(* has one unit, with its own checks or within the run of another unit,    *)
(* and no run goes on behind an opcode that may leave the branch.          *)
Listing(us, ops, lim) ==
    /\ \A j, k \in DOMAIN us : us[j].index = us[k].index => j = k
    /\ \A j \in DOMAIN us :
          /\ us[j].valid = IsValidTarget(us[j].op)
          /\ ~us[j].op.isUnnecessary
          /\ us[j].last = 0 => /\ us[j].check = NoChecks
                               /\ \E i \in DOMAIN us : us[j].index \in Marks(us[i])
          /\ \A n \in Marks(us[j]) : ~ops[n - 1].breakGasGroup
    /\ \A n \in 1 .. Len(ops) :
          (n < lim /\ ~ops[n].isUnnecessary /\ Arrives(ops, n))
             => \E j \in DOMAIN us : us[j].index = n

(* A block that is closed stores the cache its branch ends with.           *)
Stored(x) ==
    (/\ x.branch < at[1]
     /\ \A n \in DOMAIN branches[x.branch].opcodes :
           ~branches[x.branch].opcodes[n].isExitOpcode)
       => x.store = StackStore(branches[x.branch])

Rendered ==
    \A i \in DOMAIN code :
        /\ Listing(code[i].units, branches[code[i].branch].opcodes, Lim(code[i].branch))
        /\ Stored(code[i])

LEMMA GroupUnbroken ==
  ASSUME NEW ops \in Seq(Opcode), NEW k \in 1 .. Len(ops)
  PROVE  \A n \in k + 1 .. GroupEnd(ops, k) : ~ops[n - 1].breakGasGroup
<1> DEFINE S == {n \in k .. Len(ops) : \A i \in k .. n : Batches(ops, k, i)}
<1>1. k \in Int /\ Len(ops) \in Int /\ k <= Len(ops)
  BY LenProperties
<1>2. k \in S /\ S \in SUBSET (k .. Len(ops))
  <2>1. \A i \in k .. k : Batches(ops, k, i)
    BY <1>1 DEF Batches
  <2> QED  BY <1>1, <2>1
<1>3. GroupEnd(ops, k) = Max(S)
  BY DEF GroupEnd
<1> HIDE DEF S
<1>4. Max(S) \in S
  BY <1>1, <1>2, MaxOK
<1>5. GroupEnd(ops, k) \in k .. Len(ops)
      /\ \A i \in k .. GroupEnd(ops, k) : Batches(ops, k, i)
  BY <1>3, <1>4 DEF S
<1> TAKE n \in k + 1 .. GroupEnd(ops, k)
<1>6. n \in k .. GroupEnd(ops, k) /\ n > k
  BY <1>1, <1>5
<1> QED
  BY <1>5, <1>6 DEF Batches

(* A block keeps what is written, of however many more opcodes that need   *)
(* no unit the walk passes.                                                *)
LEMMA ListingStays ==
  ASSUME Built, Kept(branches, branches'), UNCHANGED <<noinitjump, hasdynjumps>>,
         NEW b \in DOMAIN branches, NEW us, NEW lim, NEW lim2,
         \A j \in DOMAIN us : UnitOK(us[j], b, branches[b].opcodes),
         Listing(us, branches[b].opcodes, lim),
         \A n \in 1 .. Len(branches[b].opcodes) :
            n < lim2 => \/ n < lim \/ branches[b].opcodes[n].isUnnecessary
                        \/ ~Arrives(branches[b].opcodes, n),
         NEW ops2, ops2 = branches'[b].opcodes
  PROVE  Listing(us, ops2, lim2)'
<1> DEFINE ops == branches[b].opcodes
<1>1. SameOps(ops, ops2)
  BY DEF Kept, KeptBranch
<1>2. \A op : IsValidTarget(op)' = IsValidTarget(op)
  BY JumpsKept DEF IsValidTarget
<1> HIDE DEF ops
<1>3. /\ Len(ops) \in Nat /\ Len(ops2) = Len(ops)
      /\ \A n \in 1 .. Len(ops) : /\ ops2[n].isUnnecessary = ops[n].isUnnecessary
                                  /\ ops2[n].isExitOpcode = ops[n].isExitOpcode
                                  /\ ops2[n].breakGasGroup = ops[n].breakGasGroup
  BY <1>1 DEF SameOps, SameOp
<1>4. \A n \in 1 .. Len(ops) : Arrives(ops2, n) => Arrives(ops, n)
  <2> TAKE n \in 1 .. Len(ops)
  <2>1. \A k \in 1 .. n - 1 : k \in 1 .. Len(ops)
    BY <1>3
  <2> QED
    BY <2>1, <1>3 DEF Arrives
<1>5. Listing(us, ops, lim) /\ \A j \in DOMAIN us : UnitOK(us[j], b, ops)
  BY DEF ops
<1>6. ASSUME NEW j \in DOMAIN us, NEW n \in Marks(us[j])
      PROVE  ~ops2[n - 1].breakGasGroup
  <2>1. ~ops[n - 1].breakGasGroup
    BY <1>5 DEF Listing
  <2>2. us[j].index \in 1 .. Len(ops) /\ us[j].last \in Nat
        /\ (us[j].last # 0 => us[j].last \in us[j].index .. Len(ops))
    BY <1>5 DEF UnitOK
  <2>3. n - 1 \in 1 .. Len(ops)
    BY <1>3, <2>2 DEF Marks
  <2> QED
    BY <1>3, <2>1, <2>3
<1>7. ASSUME NEW n \in 1 .. Len(ops2), n < lim2, ~ops2[n].isUnnecessary, Arrives(ops2, n)
      PROVE  \E j \in DOMAIN us : us[j].index = n
  <2>1. n \in 1 .. Len(ops) /\ ~ops[n].isUnnecessary /\ Arrives(ops, n)
    BY <1>3, <1>4, <1>7
  <2>2. n < lim
    BY <2>1, <1>7 DEF ops
  <2> QED
    BY <2>1, <2>2, <1>5 DEF Listing
<1>8. /\ \A j, k \in DOMAIN us : us[j].index = us[k].index => j = k
      /\ \A j \in DOMAIN us :
            /\ us[j].valid = IsValidTarget(us[j].op)'
            /\ ~us[j].op.isUnnecessary
            /\ us[j].last = 0 => /\ us[j].check = NoChecks
                                 /\ \E i \in DOMAIN us : us[j].index \in Marks(us[i])
  BY <1>2, <1>5 DEF Listing
<1> QED
  BY <1>6, <1>7, <1>8 DEF Listing

(* Writing an opcode.                                                      *)
LEMMA ListingEmit ==
  ASSUME NEW us, NEW b, NEW ops \in Seq(Opcode), NEW k \in 1 .. Len(ops),
         UnitsOK(us, b, ops, k), Listing(us, ops, k), ~ops[k].isUnnecessary
  PROVE  Listing(Append(us, Unit(ops, k, b)), ops, k + 1)
<1> DEFINE u == Unit(ops, k, b)
           vs == Append(us, u)
           m  == Len(us) + 1
<1>1. /\ us \in Seq({us[j] : j \in DOMAIN us})
      /\ \A j \in DOMAIN us : us[j].index \in 1 .. Len(ops) /\ us[j].index < k
  BY DEF UnitsOK, UnitOK
<1>2. /\ Len(us) \in Nat /\ DOMAIN us = 1 .. Len(us) /\ DOMAIN vs = 1 .. m
      /\ vs[m] = u /\ \A j \in DOMAIN us : vs[j] = us[j]
  BY <1>1, AppendProperties, LenProperties
<1>3. DOMAIN vs = DOMAIN us \cup {m} /\ m \notin DOMAIN us
  BY <1>2
<1>4. /\ u.index = k /\ u.valid = IsValidTarget(u.op) /\ u.op = ops[k]
      /\ ops[k].skipGasCheck => u.last = 0 /\ u.check = NoChecks
      /\ ~ops[k].skipGasCheck => u.last = GroupEnd(ops, k)
  BY DEF Unit
<1>5. GroupEnd(ops, k) \in k .. Len(ops) /\ Len(ops) \in Nat
  BY GroupEndOK, LenProperties
<1> HIDE DEF u, vs, m
<1>6. \A j, l \in DOMAIN vs : vs[j].index = vs[l].index => j = l
  <2>1. \A j, l \in DOMAIN us : us[j].index = us[l].index => j = l
    BY DEF Listing
  <2>2. \A j \in DOMAIN us : us[j].index # k
    BY <1>1
  <2> QED
    BY <2>1, <2>2, <1>2, <1>3, <1>4
<1>7. u.last = 0 => /\ u.check = NoChecks
                    /\ \E i \in DOMAIN vs : u.index \in Marks(vs[i])
  <2> SUFFICES ASSUME u.last = 0
               PROVE  u.check = NoChecks /\ \E i \in DOMAIN vs : u.index \in Marks(vs[i])
    OBVIOUS
  <2>1. ops[k].skipGasCheck
    BY <1>4, <1>5
  <2>2. PICK i \in DOMAIN us : k \in Marks(us[i])
    BY <2>1 DEF UnitsOK
  <2> QED
    BY <2>1, <2>2, <1>2, <1>3, <1>4
<1>8. \A n \in Marks(u) : ~ops[n - 1].breakGasGroup
  <2> TAKE n \in Marks(u)
  <2>1. n \in k + 1 .. GroupEnd(ops, k)
    BY <1>4, <1>5 DEF Marks
  <2> QED
    BY <2>1, GroupUnbroken
<1>9. ASSUME NEW j \in DOMAIN vs
      PROVE  /\ vs[j].valid = IsValidTarget(vs[j].op)
             /\ ~vs[j].op.isUnnecessary
             /\ vs[j].last = 0 => /\ vs[j].check = NoChecks
                                  /\ \E i \in DOMAIN vs : vs[j].index \in Marks(vs[i])
             /\ \A n \in Marks(vs[j]) : ~ops[n - 1].breakGasGroup
  <2>1. CASE j = m
    BY <2>1, <1>2, <1>4, <1>7, <1>8
  <2>2. CASE j \in DOMAIN us
    <3>1. /\ us[j].valid = IsValidTarget(us[j].op)
          /\ ~us[j].op.isUnnecessary
          /\ us[j].last = 0 => /\ us[j].check = NoChecks
                               /\ \E i \in DOMAIN us : us[j].index \in Marks(us[i])
          /\ \A n \in Marks(us[j]) : ~ops[n - 1].breakGasGroup
      BY <2>2 DEF Listing
    <3>2. (\E i \in DOMAIN us : us[j].index \in Marks(us[i]))
             => \E i \in DOMAIN vs : us[j].index \in Marks(vs[i])
      BY <1>2, <1>3
    <3> QED
      BY <2>2, <3>1, <3>2, <1>2
  <2> QED
    BY <2>1, <2>2, <1>3
<1>10. ASSUME NEW n \in 1 .. Len(ops), n < k + 1, ~ops[n].isUnnecessary, Arrives(ops, n)
       PROVE  \E j \in DOMAIN vs : vs[j].index = n
  <2>1. CASE n = k
    BY <2>1, <1>2, <1>3, <1>4
  <2>2. CASE n # k
    <3>1. n < k
      BY <2>2, <1>10, <1>5
    <3>2. PICK j \in DOMAIN us : us[j].index = n
      BY <3>1, <1>10 DEF Listing
    <3> QED
      BY <3>2, <1>2, <1>3
  <2> QED
    BY <2>1, <2>2
<1>11. Listing(vs, ops, k + 1)
  BY <1>6, <1>9, <1>10 DEF Listing
<1> QED
  BY <1>11 DEF vs, u

LEMMA RenderStep == GenInv /\ Rendered /\ [GenNext]_allvars => Rendered'
<1> SUFFICES ASSUME GenInv, Rendered, [GenNext]_allvars
             PROVE  Rendered'
  OBVIOUS
<1>1. Built /\ Loop /\ Blocks
  BY DEF GenInv
<1>2. CASE phase = "build"
  <2>1. code = <<>> /\ code' = code
    BY <1>1, <1>2 DEF Loop, GenNext, Build, Generate, Walk, SkipDeadBranch, OpenBranch,
       CloseBranch, SkipUnnecessary, EmitOpcode, Emitting, Finish, allvars, genvars
  <2> QED
    BY <2>1 DEF Rendered
<1>3. CASE phase # "build"
  <2>1. /\ Kept(branches, branches')
        /\ UNCHANGED <<pccount, opcount, noinitjump, hasdynjumps, err>>
    BY <1>3, WalkKeeps
  <2>2. /\ at[1] \in Nat \ {0} /\ at[2] \in Nat /\ at = <<at[1], at[2]>>
        /\ Len(branches) \in Nat /\ DOMAIN branches = 1 .. Len(branches)
        /\ Len(code) \in Nat /\ DOMAIN code = 1 .. Len(code)
        /\ \A i \in DOMAIN code : /\ code[i].branch \in DOMAIN branches
                                  /\ Block(code[i])
        /\ at[2] = 0 => \A i \in DOMAIN code : code[i].branch < at[1]
        /\ at[2] > 0 => /\ Len(code) \in DOMAIN code /\ code[Len(code)].branch = at[1]
                        /\ \A i \in DOMAIN code : i # Len(code) => code[i].branch < at[1]
    BY Standing
  <2>3. \A b \in DOMAIN branches :
           /\ branches[b].opcodes \in Seq(Opcode)
           /\ SameOps(branches[b].opcodes, branches'[b].opcodes)
           /\ StackStore(branches[b])' = StackStore(branches[b])
           /\ Len(branches[b].opcodes) \in Nat
           /\ Len(branches'[b].opcodes) = Len(branches[b].opcodes)
    <3>1. \A b \in DOMAIN branches :
             /\ branches[b].opcodes \in Seq(Opcode)
             /\ SameOps(branches[b].opcodes, branches'[b].opcodes)
             /\ StackStore(branches'[b]) = StackStore(branches[b])
      BY <1>1, <2>1, BuiltFacts DEF Kept, KeptBranch
    <3>2. \A b \in DOMAIN branches : StackStore(branches[b])' = StackStore(branches'[b])
      BY DEF StackStore
    <3> QED
      BY <3>1, <3>2 DEF SameOps
  (* A block keeps what is written while the walk passes no opcode that   *)
  (* needs a unit, and what it stores while it is not closed.              *)
  <2>4. ASSUME NEW b \in DOMAIN branches, NEW us, NEW lim,
               \A j \in DOMAIN us : UnitOK(us[j], b, branches[b].opcodes),
               Listing(us, branches[b].opcodes, lim),
               \A n \in 1 .. Len(branches[b].opcodes) :
                  n < Lim(b)' => \/ n < lim \/ branches[b].opcodes[n].isUnnecessary
                                 \/ ~Arrives(branches[b].opcodes, n)
        PROVE  Listing(us, branches[b].opcodes, Lim(b))'
    <3>1. PICK ops2 : ops2 = branches'[b].opcodes
      OBVIOUS
    <3>2. PICK lim2 : lim2 = Lim(b)'
      OBVIOUS
    <3>3. Listing(us, ops2, lim2)'
      BY <1>1, <2>1, <2>4, <3>1, <3>2, ListingStays
    <3> QED
      BY <3>1, <3>2, <3>3
  <2>5. ASSUME NEW i \in DOMAIN code, NEW x, x.branch = code[i].branch,
               x.store = code[i].store, x.branch < at'[1] => x.branch < at[1]
        PROVE  Stored(x)'
    <3> DEFINE b == x.branch
    <3>1. b \in DOMAIN branches
      BY <2>2, <2>5
    <3>2. Stored(code[i])
      BY DEF Rendered
    <3>3. SUFFICES ASSUME b < at'[1],
                          \A n \in DOMAIN branches'[b].opcodes :
                             ~branches'[b].opcodes[n].isExitOpcode
                   PROVE  x.store = StackStore(branches[b])'
      BY DEF Stored
    <3>4. \A n \in DOMAIN branches[b].opcodes : ~branches[b].opcodes[n].isExitOpcode
      BY <2>3, <3>1, <3>3 DEF SameOps, SameOp
    <3> QED
      BY <2>3, <2>5, <3>1, <3>2, <3>3, <3>4 DEF Stored
  <2>6. \A i \in DOMAIN code :
           /\ UnitsOK(code[i].units, code[i].branch, branches[code[i].branch].opcodes,
                      Lim(code[i].branch))
           /\ \A j \in DOMAIN code[i].units :
                 UnitOK(code[i].units[j], code[i].branch, branches[code[i].branch].opcodes)
           /\ Listing(code[i].units, branches[code[i].branch].opcodes, Lim(code[i].branch))
    BY <2>2 DEF Block, UnitsOK, Rendered
  (* A block the walk is not in, or passes a folded opcode of.             *)
  <2>7. ASSUME NEW i \in DOMAIN code, NEW x, x = code[i], x.branch < at'[1] => x.branch < at[1],
               \A n \in 1 .. Len(branches[x.branch].opcodes) :
                  n < Lim(x.branch)' => \/ n < Lim(x.branch)
                                        \/ branches[x.branch].opcodes[n].isUnnecessary
        PROVE  /\ Listing(x.units, branches[x.branch].opcodes, Lim(x.branch))'
               /\ Stored(x)'
    <3>1. PICK b \in DOMAIN branches : b = x.branch
      BY <2>2, <2>7
    <3>2. PICK us : us = x.units
      OBVIOUS
    <3>3. PICK lim : lim = Lim(b)
      OBVIOUS
    <3>4. Listing(us, branches[b].opcodes, Lim(b))'
      BY <2>4, <2>6, <2>7, <3>1, <3>2, <3>3
    <3> QED
      BY <2>5, <2>7, <3>1, <3>2, <3>4
  <2>8. \A i \in DOMAIN code : code[i].branch \in Nat
                /\ Lim(code[i].branch) \in Nat
    BY <2>2, <2>3 DEF Lim
  <2>9. SUFFICES ASSUME NEW i \in DOMAIN code', NEW x, x = code'[i]
                 PROVE  /\ Listing(x.units, branches[x.branch].opcodes, Lim(x.branch))'
                        /\ Stored(x)'
    BY DEF Rendered
  <2>10. CASE Generate \/ Finish \/ UNCHANGED allvars
    <3>1. code' = code /\ at' = at /\ branches' = branches
      BY <2>10 DEF Generate, Finish, allvars, genvars, vars
    <3>2. Lim(x.branch)' = Lim(x.branch)
      BY <3>1 DEF Lim
    <3> QED
      BY <2>7, <2>9, <3>1, <3>2
  <2>11. CASE SkipDeadBranch(at[1])
    <3>1. code' = code /\ at[2] = 0 /\ at' = <<at[1] + 1, 0>> /\ branches' = branches
      BY <2>11 DEF SkipDeadBranch, Emitting, vars
    <3>2. x.branch < at[1] /\ x.branch \in Nat
      BY <2>2, <2>9, <3>1
    <3>3. Lim(x.branch)' = Lim(x.branch)
      BY <2>2, <3>1, <3>2 DEF Lim
    <3> QED
      BY <2>7, <2>9, <3>1, <3>2, <3>3
  <2>12. CASE SkipUnnecessary(at[1], at[2])
    <3>1. /\ code' = code /\ at' = <<at[1], at[2] + 1>> /\ branches' = branches
          /\ branches[at[1]].opcodes[at[2]].isUnnecessary
      BY <2>12 DEF SkipUnnecessary, Emitting, vars
    <3>2. /\ x.branch # at[1] => Lim(x.branch)' = Lim(x.branch)
          /\ x.branch = at[1] => Lim(x.branch)' = at[2] + 1 /\ Lim(x.branch) = at[2]
      BY <2>2, <3>1 DEF Lim
    <3>3. x.branch \in DOMAIN branches
      BY <2>2, <2>9, <3>1
    <3>4. \A n \in 1 .. Len(branches[x.branch].opcodes) :
             n < Lim(x.branch)' => \/ n < Lim(x.branch)
                                   \/ branches[x.branch].opcodes[n].isUnnecessary
      <4>1. CASE x.branch # at[1]
        BY <3>2, <4>1
      <4>2. CASE x.branch = at[1]
        <5>1. \A n \in Nat : n < at[2] + 1 => n < at[2] \/ n = at[2]
          BY <2>2
        <5> QED
          BY <3>1, <3>2, <4>2, <5>1
      <4> QED
        BY <4>1, <4>2
    <3> QED
      BY <2>2, <2>7, <2>9, <3>1, <3>4
  <2>13. CASE OpenBranch(at[1])
    <3> DEFINE y == [branch |-> at[1], pc |-> branches[at[1]].pc,
                     label |-> Labelled(at[1]), units |-> <<>>, store |-> <<>>]
    <3>1. /\ at[2] = 0 /\ code' = Append(code, y) /\ at' = <<at[1], 1>> /\ branches' = branches
          /\ at[1] \in DOMAIN branches
      BY <2>2, <2>13 DEF OpenBranch, Emitting, vars
    <3>2. y.branch = at[1] /\ y.units = <<>> /\ y.store = <<>>
      OBVIOUS
    <3> HIDE DEF y
    <3>3. (i \in DOMAIN code /\ x = code[i]) \/ x = y
      <4>1. code \in Seq({code[j] : j \in DOMAIN code})
        BY <1>1 DEF Blocks
      <4> QED
        BY <2>2, <2>9, <3>1, <4>1, AppendProperties
    <3>4. CASE i \in DOMAIN code /\ x = code[i]
      <4>1. x.branch < at[1] /\ x.branch \in Nat
        BY <2>2, <3>1, <3>4
      <4>2. Lim(x.branch)' = Lim(x.branch)
        BY <2>2, <3>1, <4>1 DEF Lim
      <4> QED
        BY <2>7, <3>1, <3>4, <4>1, <4>2
    <3>5. CASE x = y
      <4>2. PICK b \in DOMAIN branches : b = at[1]
        BY <3>1
      <4>1. Lim(b)' = 1
        BY <2>2, <3>1, <4>2 DEF Lim
      <4>3. PICK us : us = <<>>
        OBVIOUS
      <4>4. Listing(us, branches[b].opcodes, 1) /\ DOMAIN us = {}
        BY <2>3, <4>2, <4>3 DEF Listing
      <4>5. Listing(us, branches[b].opcodes, Lim(b))'
        <5>1. PICK lim : lim = 1
          OBVIOUS
        <5>2. \A j \in DOMAIN us : UnitOK(us[j], b, branches[b].opcodes)
          BY <4>4
        <5>3. \A n \in 1 .. Len(branches[b].opcodes) : ~(n < Lim(b)')
          BY <2>3, <4>1
        <5>4. Listing(us, branches[b].opcodes, lim)
          BY <4>4, <5>1
        <5> QED
          BY <2>4, <4>1, <5>2, <5>3, <5>4
      <4>6. Stored(x)'
        BY <2>2, <3>1, <3>2, <3>5 DEF Stored
      <4> QED
        BY <3>2, <3>5, <4>2, <4>3, <4>5, <4>6
    <3> QED
      BY <3>3, <3>4, <3>5
  <2>14. CASE CloseBranch(at[1])
    <3>1. /\ at[2] > Len(branches[at[1]].opcodes) /\ at' = <<at[1] + 1, 0>>
          /\ code' = [code EXCEPT ![Len(code)].store = StackStore(branches[at[1]])]
          /\ branches' = branches /\ at[1] \in DOMAIN branches
      BY <2>2, <2>14 DEF CloseBranch, Emitting, vars
    <3>2. /\ at[2] > 0
          /\ i \in DOMAIN code /\ DOMAIN code' = DOMAIN code
      BY <2>2, <2>3, <2>9, <3>1
    <3>3. /\ Len(code) \in DOMAIN code /\ code[Len(code)].branch = at[1]
          /\ \A j \in DOMAIN code : j # Len(code) => code[j].branch < at[1]
      BY <2>2, <3>2
    <3>4. CASE i # Len(code)
      <4>1. x = code[i] /\ x.branch < at[1] /\ x.branch \in Nat
        BY <2>2, <2>9, <3>1, <3>2, <3>3, <3>4
      <4>2. Lim(x.branch)' = Lim(x.branch)
        BY <2>2, <3>1, <4>1 DEF Lim
      <4> QED
        BY <2>7, <3>2, <4>1, <4>2
    <3>5. CASE i = Len(code)
      <4>1. /\ x.branch = at[1] /\ x.units = code[i].units
            /\ x.store = StackStore(branches[at[1]])
        <5>1. PICK z : z = code[i]
          OBVIOUS
        <5>2. z = [branch |-> z.branch, pc |-> z.pc, label |-> z.label, units |-> z.units,
                   store |-> z.store]
          BY <2>2, <3>2, <5>1 DEF Block
        <5>3. x = [z EXCEPT !.store = StackStore(branches[at[1]])]
          BY <2>9, <3>1, <3>2, <3>5, <5>1
        <5>4. /\ x.branch = z.branch /\ x.units = z.units
              /\ x.store = StackStore(branches[at[1]])
          BY <5>2, <5>3
        <5> QED
          BY <3>3, <3>5, <5>1, <5>4
      <4>3. PICK b \in DOMAIN branches : b = at[1]
        BY <3>1
      <4>2. Lim(b)' = Len(branches[b].opcodes) + 1 /\ Lim(b) = at[2]
        BY <2>2, <3>1, <4>3 DEF Lim
      <4>4. PICK us : us = x.units
        OBVIOUS
      <4>5. PICK lim : lim = Lim(b)
        OBVIOUS
      <4>6. \A n \in 1 .. Len(branches[b].opcodes) : n < lim
        BY <2>2, <2>3, <3>1, <4>2, <4>3, <4>5
      <4>7. Listing(us, branches[b].opcodes, Lim(b))'
        BY <2>4, <2>6, <3>2, <3>3, <3>5, <4>1, <4>3, <4>4, <4>5, <4>6
      <4>8. Stored(x)'
        <5>1. StackStore(branches[b])' = StackStore(branches[b])
          BY <2>3
        <5> QED
          BY <4>1, <4>3, <5>1 DEF Stored
      <4> QED
        BY <4>1, <4>3, <4>4, <4>7, <4>8
    <3> QED
      BY <3>4, <3>5
  <2>15. CASE EmitOpcode(at[1], at[2])
    <3>1. PICK b \in DOMAIN branches : b = at[1]
      BY <2>2, <2>15 DEF EmitOpcode, Emitting
    <3>2. PICK k : k = at[2]
      OBVIOUS
    <3>3. PICK ops : ops = branches[b].opcodes
      OBVIOUS
    <3>4. /\ k \in DOMAIN ops /\ ~ops[k].isUnnecessary
          /\ code' = [code EXCEPT ![Len(code)].units = Append(@, Unit(ops, k, b))]
          /\ at' = IF ops[k].isExitOpcode THEN <<b + 1, 0>> ELSE <<b, k + 1>>
      BY <2>15, <3>1, <3>2, <3>3 DEF EmitOpcode
    <3>5. ops \in Seq(Opcode) /\ Len(ops) \in Nat /\ k \in 1 .. Len(ops) /\ k \in Nat /\ k > 0
      BY <2>2, <2>3, <3>2, <3>3, <3>4, LenProperties
    <3>6. /\ i \in DOMAIN code /\ DOMAIN code' = DOMAIN code
          /\ Len(code) \in DOMAIN code /\ code[Len(code)].branch = b
          /\ \A j \in DOMAIN code : j # Len(code) => code[j].branch < b
      BY <2>2, <2>9, <3>1, <3>2, <3>4, <3>5
    <3>7. CASE i # Len(code)
      <4>1. x = code[i] /\ x.branch < b /\ x.branch \in Nat
        BY <2>2, <2>9, <3>4, <3>6, <3>7
      <4>2. Lim(x.branch)' = Lim(x.branch)
        <5>1. PICK c \in DOMAIN branches : c = x.branch
          BY <2>2, <3>6, <4>1
        <5>2. c # at[1] /\ c # at'[1]
          BY <2>2, <3>1, <3>4, <4>1, <5>1
        <5>3. Len(branches'[c].opcodes) = Len(branches[c].opcodes)
          BY <2>3
        <5> QED
          BY <5>1, <5>2, <5>3 DEF Lim
      <4> QED
        BY <2>7, <3>1, <3>6, <4>1, <4>2
    <3>8. CASE i = Len(code)
      <4>1. PICK z : z = code[i]
        OBVIOUS
      <4>2. PICK us : us = Append(z.units, Unit(ops, k, b))
        OBVIOUS
      <4>3. x.branch = b /\ x.units = us /\ x.store = z.store
        <5>1. z = [branch |-> z.branch, pc |-> z.pc, label |-> z.label, units |-> z.units,
                   store |-> z.store]
          BY <2>2, <3>6, <4>1 DEF Block
        <5>2. x = [z EXCEPT !.units = us]
          BY <2>9, <3>4, <3>6, <3>8, <4>1, <4>2
        <5>3. x.branch = z.branch /\ x.units = us /\ x.store = z.store
          BY <5>1, <5>2
        <5> QED
          BY <3>6, <3>8, <4>1, <5>3
      <4>4. Lim(b) = k /\ UnitsOK(z.units, b, ops, k) /\ Listing(z.units, ops, k)
        BY <2>6, <3>1, <3>2, <3>3, <3>6, <3>8, <4>1 DEF Lim
      <4>5. Listing(us, ops, k + 1)
        BY <3>4, <3>5, <4>2, <4>4, ListingEmit
      <4>6. \A j \in DOMAIN us : UnitOK(us[j], b, ops)
        <5>1. UnitsOK(us, b, IF ops[k].skipGasCheck THEN ops ELSE Marked(ops, k), k + 1)
          BY <3>5, <4>2, <4>4, UnitsEmit
        <5>2. z.units \in Seq({z.units[j] : j \in DOMAIN z.units})
          BY <4>4 DEF UnitsOK
        <5>3. \A j \in DOMAIN us : \/ j \in DOMAIN z.units /\ us[j] = z.units[j]
                                  \/ us[j] = Unit(ops, k, b)
          BY <4>2, <5>2, AppendProperties, LenProperties
        <5>4. UnitOK(Unit(ops, k, b), b, ops)
          <6>1. GroupEnd(ops, k) \in k .. Len(ops)
            BY <3>5, GroupEndOK
          <6>2. SameOp(ops[k], ops[k])
            BY DEF SameOp
          <6> QED
            BY <3>5, <6>1, <6>2 DEF UnitOK, Unit
        <5> QED
          BY <4>4, <5>3, <5>4 DEF UnitsOK
      <4>7. \A n \in 1 .. Len(ops) : n < Lim(b)' => n < k + 1 \/ ~Arrives(ops, n)
        <5>1. CASE ~ops[k].isExitOpcode
          <6>1. Lim(b)' = k + 1
            BY <2>2, <3>1, <3>4, <5>1 DEF Lim
          <6> QED
            BY <6>1
        <5>2. CASE ops[k].isExitOpcode
          <6>1. \A n \in 1 .. Len(ops) : ~(n < k + 1) => k \in 1 .. n - 1
            BY <3>5
          <6> QED
            BY <5>2, <6>1 DEF Arrives
        <5> QED
          BY <5>1, <5>2
      <4>8. Listing(us, branches[b].opcodes, Lim(b))'
        <5>1. PICK lim : lim = k + 1
          OBVIOUS
        <5>2. Listing(us, branches[b].opcodes, lim)
          BY <3>3, <4>5, <5>1
        <5>3. \A j \in DOMAIN us : UnitOK(us[j], b, branches[b].opcodes)
          BY <3>3, <4>6
        <5>4. \A n \in 1 .. Len(branches[b].opcodes) :
                 n < Lim(b)' => n < lim \/ ~Arrives(branches[b].opcodes, n)
          BY <3>3, <4>7, <5>1
        <5> QED
          BY <2>4, <5>2, <5>3, <5>4
      <4>9. Stored(x)'
        <5>1. SUFFICES ASSUME x.branch < at'[1],
                              \A n \in DOMAIN branches'[b].opcodes :
                                 ~branches'[b].opcodes[n].isExitOpcode
                       PROVE  FALSE
          BY <4>3 DEF Stored
        <5>2. ~ops[k].isExitOpcode
          BY <2>3, <3>3, <3>4, <5>1 DEF SameOps, SameOp
        <5> QED
          BY <2>2, <3>1, <3>4, <4>3, <5>1, <5>2
      <4> QED
        BY <4>3, <4>8, <4>9
    <3> QED
      BY <3>7, <3>8
  <2> QED
    BY <1>3, <2>10, <2>11, <2>12, <2>13, <2>14, <2>15 DEF GenNext, Build, Walk
<1> QED
  BY <1>2, <1>3

(* So every rendered function is rendered from branches whose opcodes do   *)
(* to the cache what their names say, and a block has the units, in the    *)
(* runs, and the store that its branch asks for.                           *)
LEMMA RenderedInit == GenInit => Rendered
BY DEF GenInit, Rendered

THEOREM AllRendered == GenSpec => [](GenInv /\ Flows /\ Rendered)
<1>1. GenInit => Flows
  BY DEF GenInit, Init, Flows
<1>2. GenInv /\ Flows /\ Rendered /\ [GenNext]_allvars => (Flows /\ Rendered)'
  BY GenFlows, RenderStep
<1> QED
  BY <1>1, <1>2, RenderedInit, GenInductive, PTL DEF GenSpec

=============================================================================
