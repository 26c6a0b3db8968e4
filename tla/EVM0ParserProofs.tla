-------------------------- MODULE EVM0ParserProofs -------------------------
(***************************************************************************)
(* Proofs about the parser, for every bytecode.                            *)
(***************************************************************************)
EXTENDS EVM0Parser, IRCodegenProofs

-----------------------------------------------------------------------------
(* Where instructions start.                                               *)

Linked(c, s, o) == o = 0 \/ \E p \in 0 .. o - 1 : p + Size(c[p + 1]) = o /\ s[p]
IsStarts(c, m, s) == s = [o \in 0 .. m |-> Linked(c, s, o)]

LEMMA LinkedSame ==
  ASSUME NEW c, NEW s, NEW t, NEW o \in Nat, \A p \in 0 .. o - 1 : s[p] = t[p]
  PROVE  Linked(c, s, o) <=> Linked(c, t, o)
BY DEF Linked

LEMMA StartsExists ==
  ASSUME NEW c
  PROVE  \A m \in Nat : \E s : IsStarts(c, m, s)
<1> DEFINE S == {m \in Nat : \E s : IsStarts(c, m, s)}
<1>1. 0 \in S
  <2> DEFINE t == [o \in 0 .. 0 |-> TRUE]
  <2>1. \A o \in 0 .. 0 : Linked(c, t, o)
    BY DEF Linked
  <2>2. t = [o \in 0 .. 0 |-> Linked(c, t, o)]
    BY <2>1, Zenon
  <2> QED  BY <2>2 DEF IsStarts
<1>2. ASSUME NEW m \in S PROVE m + 1 \in S
  <2>1. PICK s : s = [o \in 0 .. m |-> Linked(c, s, o)]
    BY <1>2 DEF IsStarts
  <2> DEFINE t == [o \in 0 .. m + 1 |-> Linked(c, s, o)]
  <2>2. \A p \in 0 .. m : p \in 0 .. m + 1
    OBVIOUS
  <2>3. \A p \in 0 .. m : s[p] = t[p]
    BY <2>1, <2>2, Zenon
  <2>4. t = [o \in 0 .. m + 1 |-> t[o]] /\ \A o \in 0 .. m + 1 : t[o] = Linked(c, s, o)
    BY Zenon
  <2> HIDE DEF t
  <2>5. \A o \in 0 .. m + 1 : Linked(c, s, o) <=> Linked(c, t, o)
    <3> TAKE o \in 0 .. m + 1
    <3>1. o \in Nat /\ \A p \in 0 .. o - 1 : p \in 0 .. m
      OBVIOUS
    <3> QED  BY <2>3, <3>1, LinkedSame
  <2>6. t = [o \in 0 .. m + 1 |-> Linked(c, t, o)]
    <3>1. ASSUME NEW o \in 0 .. m + 1 PROVE t[o] = Linked(c, t, o)
      <4>1. (Linked(c, s, o) <=> Linked(c, t, o)) => Linked(c, s, o) = Linked(c, t, o)
        BY Zenon DEF Linked
      <4> QED  BY ONLY o \in 0 .. m + 1, <2>4, <2>5, <4>1, Zenon
    <3>2. [o \in 0 .. m + 1 |-> t[o]] = [o \in 0 .. m + 1 |-> Linked(c, t, o)]
      BY <3>1, Zenon
    <3> QED  BY ONLY <2>4, <3>2, Zenon
  <2> QED  BY <2>6 DEF IsStarts
<1>3. S \in SUBSET Nat
  OBVIOUS
<1> HIDE DEF S
<1>4. \A m \in Nat : m \in S
  BY <1>1, <1>2, <1>3, Induct
<1> QED  BY <1>4 DEF S

(* An instruction starts at 0 and behind every other.                      *)
LEMMA StartsRec ==
  ASSUME NEW c, Len(c) \in Nat
  PROVE  /\ Starts(c) \subseteq 0 .. Len(c) - 1
         /\ \A o \in 0 .. Len(c) - 1 :
               o \in Starts(c) <=>
                  (o = 0 \/ \E p \in Starts(c) : p < o /\ p + Size(c[p + 1]) = o)
<1> DEFINE N == Len(c)
           s == CHOOSE s : IsStarts(c, N - 1, s)
<1>1. Starts(c) = {o \in 0 .. N - 1 : s[o]}
  BY DEF Starts, IsStarts, Linked
<1>2. CASE N = 0
  BY <1>1, <1>2
<1>3. CASE N # 0
  <2>1. IsStarts(c, N - 1, s)
    <3>1. N - 1 \in Nat
      BY <1>3
    <3> QED  BY <3>1, StartsExists
  <2> HIDE DEF s, N
  <2>2. \A o \in 0 .. N - 1 : s[o] = Linked(c, s, o)
    BY <2>1, Zenon DEF IsStarts
  <2>3. N \in Nat
    BY DEF N
  <2>4. \A o \in 0 .. N - 1 : o \in Starts(c) <=> Linked(c, s, o)
    BY <1>1, <2>2, Zenon
  <2>5. ASSUME NEW o \in 0 .. N - 1
        PROVE  o \in Starts(c) <=>
                 (o = 0 \/ \E p \in Starts(c) : p < o /\ p + Size(c[p + 1]) = o)
    <3>1. \A p \in 0 .. o - 1 : s[p] <=> p \in Starts(c)
      <4>1. \A p \in 0 .. o - 1 : p \in 0 .. N - 1
        BY <2>3
      <4> QED  BY <1>1, <4>1, Zenon
    <3>2. Starts(c) \subseteq 0 .. N - 1
      BY <1>1
    <3>3. Linked(c, s, o) <=> (o = 0 \/ \E p \in 0 .. o - 1 : p + Size(c[p + 1]) = o /\ p \in Starts(c))
      BY <3>1 DEF Linked
    <3>4. \A p \in Starts(c) : p < o => p \in 0 .. o - 1
      BY <2>3, <3>2
    <3>5. \A p \in 0 .. o - 1 : p < o
      BY <2>3
    <3> HIDE DEF N
    <3> QED  BY <2>4, <3>3, <3>4, <3>5
  <2> QED  BY <1>1, <2>5 DEF N
<1> QED  BY <1>2, <1>3

LEMMA SizeOK ==
  ASSUME NEW b
  PROVE  Size(b) \in Nat /\ Size(b) >= 1 /\ (b \in PushBytes => Size(b) = b - 94)
BY DEF Size, PushSize, PushBytes

(* Nothing starts inside an instruction.                                   *)
LEMMA NoStartInside ==
  ASSUME NEW c, Len(c) \in Nat, NEW p \in Starts(c), NEW o \in Starts(c), p < o
  PROVE  p + Size(c[p + 1]) <= o
<1> DEFINE Inside(x) == x \in Starts(c) /\ \E q \in Starts(c) : q < x /\ x < q + Size(c[q + 1])
           S == {n \in Nat : \A x \in 0 .. n : ~Inside(x)}
<1>1. Starts(c) \subseteq Nat /\ \A q : Size(q) \in Nat /\ Size(q) >= 1
  BY StartsRec, SizeOK
<1>2. 0 \in S
  BY <1>1
<1>3. ASSUME NEW n \in S PROVE n + 1 \in S
  <2> SUFFICES ASSUME Inside(n + 1) PROVE FALSE
    OBVIOUS
  <2> DEFINE x == n + 1
  <2>1. PICK q \in Starts(c) : q < x /\ x < q + Size(c[q + 1])
    OBVIOUS
  <2>2. x \in Starts(c) /\ x # 0
    OBVIOUS
  <2>3. PICK r \in Starts(c) : r < x /\ r + Size(c[r + 1]) = x
    BY <2>2, StartsRec
  <2>4. q \in Nat /\ r \in Nat /\ x \in Nat /\ Size(c[q + 1]) \in Nat
    BY <1>1
  <2>5. q # r
    BY <2>1, <2>3
  <2>6. CASE r < q
    <3>1. Inside(q) /\ q \in 0 .. n
      BY <2>1, <2>3, <2>4, <2>6
    <3> QED  BY <3>1
  <2>7. CASE q < r
    <3>1. Inside(r) /\ r \in 0 .. n
      BY <2>1, <2>3, <2>4, <2>7
    <3> QED  BY <3>1
  <2> QED  BY <2>4, <2>5, <2>6, <2>7
<1>4. S \in SUBSET Nat
  OBVIOUS
<1>5. o \in S
  <2> HIDE DEF S
  <2> QED  BY <1>1, <1>2, <1>3, <1>4, Induct
<1>6. ~(o < p + Size(c[p + 1]))
  BY <1>1, <1>5
<1> QED  BY <1>1, <1>6
-----------------------------------------------------------------------------
(* Immediates.                                                             *)

LEMMA ImmediateOfTwo ==
  ASSUME NEW data, Len(data) = 2, data[1] \in Nat, data[2] \in Nat
  PROVE  Immediate(data) = (256 * data[1] + data[2]) % WordLimit
<1> DEFINE IsValue(v) == v = [n \in 0 .. 2 |-> IF n = 0 THEN 0 ELSE 256 * v[n - 1] + data[n]]
           w == [n \in 0 .. 2 |-> IF n = 0 THEN 0 ELSE IF n = 1 THEN data[1]
                                  ELSE 256 * data[1] + data[2]]
           u == CHOOSE v : IsValue(v)
<1>1. \A n \in 0 .. 2 : w[n] = IF n = 0 THEN 0 ELSE 256 * w[n - 1] + data[n]
  <2>1. w[0] = 0 /\ w[1] = data[1] /\ w[2] = 256 * data[1] + data[2]
    OBVIOUS
  <2>2. w[1] = 256 * w[1 - 1] + data[1] /\ w[2] = 256 * w[2 - 1] + data[2]
    BY <2>1
  <2> HIDE DEF w
  <2>3. \A n \in 0 .. 2 : n = 0 \/ n = 1 \/ n = 2
    OBVIOUS
  <2> QED  BY <2>1, <2>2, <2>3
<1>2. w = [n \in 0 .. 2 |-> IF n = 0 THEN 0 ELSE 256 * w[n - 1] + data[n]]
  BY <1>1
<1>3. IsValue(w)
  BY <1>2
<1> HIDE DEF w
<1>4. IsValue(u)
  BY <1>3
<1>5. u[0] = 0 /\ u[1] = 256 * u[0] + data[1] /\ u[2] = 256 * u[1] + data[2]
  <2>1. \A n \in 0 .. 2 : u[n] = IF n = 0 THEN 0 ELSE 256 * u[n - 1] + data[n]
    BY <1>4, ZenonT(30)
  <2> HIDE DEF u
  <2>2. 0 \in 0 .. 2 /\ 1 \in 0 .. 2 /\ 2 \in 0 .. 2 /\ 1 - 1 = 0 /\ 2 - 1 = 1
    OBVIOUS
  <2> QED  BY <2>1, <2>2
<1>6. u[2] = 256 * data[1] + data[2]
  <2> HIDE DEF u
  <2> QED  BY <1>5
<1>7. Immediate(data) = u[2] % WordLimit
  BY Zenon DEF Immediate
<1> QED  BY <1>6, <1>7

-----------------------------------------------------------------------------
(* What has been built from the bytes read so far.  It needs no types: of  *)
(* a branch only its pc and its opcodes matter, of an opcode its name, pc  *)
(* and argument.                                                           *)

IsSeq(s)   == s \in Seq({s[n] : n \in DOMAIN s})
Shaped(br) == {"pc", "opcodes"} \subseteq DOMAIN br
IsBuilt(br) == Shaped(br) /\ IsSeq(br.opcodes) /\ br.opcodes # <<>>

(* Opcode k of branch b is there.                                          *)
Has(bs, b, k) == b \in DOMAIN bs /\ k \in DOMAIN bs[b].opcodes

(* op is what the code reads the instruction at op.pc as.                  *)
Reads(op, c) ==
    /\ op.name = "jumpdest" <=> c[op.pc + 1] = 91
    /\ op.name = "push" /\ c[op.pc + 1] = 97 =>
          op.arg = (256 * c[op.pc + 2] + c[op.pc + 3]) % WordLimit
    /\ op.name = "invalid" => c[op.pc + 1] \notin KnownBytes

(* The parser stands at the start of an instruction, which is where the    *)
(* builder counts, or has read a PUSH whose data is cut off.               *)
Position ==
    /\ i \in 0 .. Len(bytecode)
    /\ i < Len(bytecode) => i \in Starts(bytecode)
    /\ \/ pccount = i
       \/ /\ i = Len(bytecode) /\ pccount \in Starts(bytecode)
          /\ pccount + Size(bytecode[pccount + 1]) > Len(bytecode)

(* The opcodes are the instructions that start below pccount, one each.    *)
OpcodesAreRead ==
    /\ \A b, k : Has(branches, b, k) =>
          LET op == branches[b].opcodes[k] IN
          /\ op.pc \in Starts(bytecode) /\ op.pc < pccount
          /\ Reads(op, bytecode)
          /\ op.name = "jumpdest" => k = 1 /\ branches[b].pc = op.pc
    /\ \A b, k, d, m : 
          (Has(branches, b, k) /\ Has(branches, d, m)
             /\ branches[b].opcodes[k].pc = branches[d].opcodes[m].pc) => b = d /\ k = m
    /\ \A o \in Starts(bytecode) : o < pccount =>
          \E b, k : Has(branches, b, k) /\ branches[b].opcodes[k].pc = o

Read ==
    /\ IsSeq(branches) /\ \A b \in DOMAIN branches : IsBuilt(branches[b])
    /\ Position /\ OpcodesAreRead

ReadInv == bytecode \in Codes /\ (phase = "build" /\ ~err => Read)

LEMMA SeqFacts ==
  ASSUME NEW s, IsSeq(s)
  PROVE  /\ Len(s) \in Nat /\ DOMAIN s = 1 .. Len(s)
         /\ s # <<>> => Len(s) >= 1
<1> DEFINE T == {s[n] : n \in DOMAIN s}
<1>1. s \in Seq(T)
  BY DEF IsSeq
<1> HIDE DEF T
<1> QED  BY <1>1

LEMMA SeqAppend ==
  ASSUME NEW s, IsSeq(s), NEW x
  PROVE  /\ IsSeq(Append(s, x)) /\ Append(s, x) # <<>>
         /\ Len(Append(s, x)) = Len(s) + 1
         /\ Append(s, x)[Len(s) + 1] = x
         /\ \A n \in DOMAIN s : Append(s, x)[n] = s[n]
<1> DEFINE T == {s[n] : n \in DOMAIN s} \cup {x}
           a == Append(s, x)
<1>1. s \in Seq(T) /\ x \in T
  <2>1. s \in Seq({s[n] : n \in DOMAIN s})
    BY DEF IsSeq
  <2>2. \A n \in DOMAIN s : s[n] \in T
    OBVIOUS
  <2> HIDE DEF T
  <2>3. Len(s) \in Nat /\ s = [n \in 1 .. Len(s) |-> s[n]] /\ DOMAIN s = 1 .. Len(s)
    BY <2>1
  <2>4. s \in Seq(T)
    BY ONLY <2>2, <2>3, SMT
  <2> QED  BY <2>4 DEF T
<1> HIDE DEF T
<1>2. /\ a \in Seq(T) /\ Len(a) = Len(s) + 1 /\ Len(s) \in Nat
      /\ \A n \in 1 .. Len(s) : a[n] = s[n]
      /\ a[Len(s) + 1] = x /\ DOMAIN s = 1 .. Len(s) /\ DOMAIN a = 1 .. Len(a)
  BY <1>1
<1> HIDE DEF a
<1>3. a = [n \in 1 .. Len(a) |-> a[n]] /\ Len(a) \in Nat
  BY <1>2
<1>4. IsSeq(a)
  <2>1. \A n \in 1 .. Len(a) : a[n] \in {a[m] : m \in 1 .. Len(a)}
    OBVIOUS
  <2>2. a \in Seq({a[m] : m \in 1 .. Len(a)})
    BY <1>3, <2>1
  <2> QED  BY <1>2, <2>2 DEF IsSeq
<1>5. a # <<>>
  BY <1>2
<1> QED  BY <1>2, <1>4, <1>5 DEF a

(* A sequence with its last element replaced.                              *)
LEMMA SeqExcept ==
  ASSUME NEW s, IsSeq(s), NEW j \in DOMAIN s, NEW x
  PROVE  /\ IsSeq([s EXCEPT ![j] = x])
         /\ Len([s EXCEPT ![j] = x]) = Len(s)
         /\ [s EXCEPT ![j] = x][j] = x
         /\ \A n \in DOMAIN s : n # j => [s EXCEPT ![j] = x][n] = s[n]
<1> DEFINE e == [s EXCEPT ![j] = x]
<1>1. Len(s) \in Nat /\ DOMAIN s = 1 .. Len(s)
  BY SeqFacts
<1>2. /\ e = [n \in 1 .. Len(s) |-> e[n]] /\ e[j] = x
      /\ \A n \in DOMAIN s : n # j => e[n] = s[n]
  BY <1>1
<1> HIDE DEF e
<1>3. \A n \in 1 .. Len(s) : e[n] \in {e[m] : m \in 1 .. Len(s)}
  OBVIOUS
<1>4. e \in Seq({e[m] : m \in 1 .. Len(s)})
  BY <1>1, <1>2, <1>3
<1>5. DOMAIN e = 1 .. Len(s)
  BY <1>2
<1>6. Len(e) = Len(s)
  BY <1>1, <1>4, <1>5
<1>7. IsSeq(e)
  BY <1>4, <1>5 DEF IsSeq
<1> QED  BY <1>2, <1>6, <1>7 DEF e

(* The builder's helpers leave a branch's pc and opcodes alone.            *)
SameShape(x, y) == Shaped(x) /\ x.opcodes = y.opcodes /\ x.pc = y.pc

LEMMA AfterShape ==
  ASSUME NEW br, Shaped(br), NEW in, NEW out
  PROVE  SameShape(AfterOpcode(br, in, out), br)
<1>1. SameShape(Popped(br, in), br)
  BY DEF Popped, SameShape, Shaped
<1> DEFINE x == Popped(br, in)
<1> HIDE DEF x
<1>2. Shaped(x) => SameShape(Pushed(x, out, opcount), x)
  BY DEF Pushed, SameShape, Shaped
<1> QED  BY <1>1, <1>2 DEF AfterOpcode, SameShape, x

LEMMA SetRefShape ==
  ASSUME NEW br, Shaped(br), NEW k, NEW r
  PROVE  SameShape(SetRef(br, k, r), br)
BY DEF SetRef, SameShape, Shaped

LEMMA NewShape ==
  ASSUME NEW pc
  PROVE  Shaped(NewBranch(pc)) /\ NewBranch(pc).opcodes = <<>> /\ NewBranch(pc).pc = pc
BY DEF NewBranch, Shaped

(* The one opcode an AppendXxx call adds: to the last branch, which        *)
(* appendOpcode may have to open, or in a branch of its own.               *)
Added(op) ==
    /\ IsSeq(branches') /\ Len(branches') \in {Len(branches), Len(branches) + 1}
    /\ Len(branches') >= 1
    /\ \A b \in DOMAIN branches : b < Len(branches') => branches'[b] = branches[b]
    /\ LET n == Len(branches') IN
       /\ Shaped(branches'[n])
       /\ Len(branches) = n =>
             /\ branches'[n].opcodes = Append(branches[n].opcodes, op)
             /\ branches'[n].pc = branches[n].pc
             /\ op.name # "jumpdest" /\ (noinitjump' <=> noinitjump)
       /\ Len(branches) # n =>
             /\ branches'[n].opcodes = <<op>>
             /\ op.name = "jumpdest" => branches'[n].pc = op.pc /\ (noinitjump' <=> noinitjump)
             /\ op.name # "jumpdest" => n = 1 /\ branches'[n].pc = 0 /\ noinitjump'

(* What an opcode is: its name and argument, the words it takes and gives, *)
(* its gas and whether it ends the code.                                   *)
Form(op) == <<op.name, op.arg, op.in, op.out, op.gas, op.isExitOpcode>>

Sequences == IsSeq(branches) /\ \A b \in DOMAIN branches : IsBuilt(branches[b])

LEMMA OpenedShape ==
  ASSUME Sequences
  PROVE  /\ IsSeq(Opened) /\ Len(Opened) >= 1 /\ Len(Opened) \in Nat /\ Shaped(Cur)
         /\ IsSeq(Cur.opcodes)
         /\ IF branches = <<>> THEN /\ Len(Opened) = 1 /\ Cur.opcodes = <<>>
                                    /\ Len(branches) = 0 /\ Cur.pc = 0 /\ Opened # branches
            ELSE Opened = branches /\ Cur = branches[Len(branches)]
<1>1. CASE branches = <<>>
  <2>1. IsSeq(<<NewBranch(0)>>) /\ IsSeq(<<>>)
    BY DEF IsSeq
  <2>2. Opened = <<NewBranch(0)>> /\ Cur = NewBranch(0) /\ Len(Opened) = 1
    BY <1>1 DEF Opened, Cur
  <2> QED  BY <1>1, <2>1, <2>2, NewShape
<1>2. CASE branches # <<>>
  <2>1. Opened = branches /\ Cur = branches[Len(branches)]
    BY <1>2 DEF Opened, Cur
  <2>2. Len(branches) \in Nat /\ Len(branches) >= 1 /\ Len(branches) \in DOMAIN branches
    BY <1>2, SeqFacts DEF Sequences
  <2> QED  BY <1>2, <2>1, <2>2 DEF Sequences, IsBuilt
<1> QED  BY <1>1, <1>2

LEMMA AppendAdds ==
  ASSUME Sequences, NEW br, SameShape(br, Cur), NEW op, op.name # "jumpdest", NEW len,
         Append1(Opened, br, op, len)
  PROVE  Added(op)
<1> DEFINE n == Len(Opened)
           nb == [br EXCEPT !.opcodes = Append(@, op)]
<1>1. /\ IsSeq(Opened) /\ n >= 1 /\ n \in Nat /\ n \in DOMAIN Opened
      /\ IsSeq(Cur.opcodes) /\ n = Len(Opened)
  BY OpenedShape, SeqFacts
<1>2. Shaped(nb) /\ nb.opcodes = Append(Cur.opcodes, op) /\ nb.pc = Cur.pc
  BY DEF SameShape, Shaped
<1> HIDE DEF nb
<1>3. branches' = [Opened EXCEPT ![n] = nb] /\ noinitjump' = (noinitjump \/ Opened # branches)
  BY DEF Append1, nb
<1> HIDE DEF n
<1>4. /\ IsSeq(branches') /\ Len(branches') = n /\ branches'[n] = nb
      /\ \A b \in DOMAIN Opened : b # n => branches'[b] = Opened[b]
  <2> DEFINE e == [Opened EXCEPT ![n] = nb]
  <2>1. /\ IsSeq(e) /\ Len(e) = Len(Opened) /\ e[n] = nb
        /\ \A b \in DOMAIN Opened : b # n => e[b] = Opened[b]
    BY ONLY <1>1, SeqExcept, ZenonT(30)
  <2> QED  BY <1>1, <1>3, <2>1
<1>5. CASE branches = <<>>
  <2>1. /\ n = 1 /\ Len(branches) = 0 /\ DOMAIN branches = {} /\ nb.opcodes = <<op>>
        /\ nb.pc = 0 /\ Opened # branches
    <3>1. n = 1 /\ Len(branches) = 0 /\ Cur.opcodes = <<>> /\ Cur.pc = 0 /\ Opened # branches
      BY <1>5, OpenedShape DEF n
    <3>2. DOMAIN branches = {}
      BY ONLY <1>5
    <3>3. Append(<<>>, op) = <<op>>
      OBVIOUS
    <3> QED  BY <1>2, <3>1, <3>2, <3>3
  <2>2. noinitjump' <=> TRUE
    BY <1>3, <2>1, Zenon
  <2> QED  BY <1>2, <1>4, <2>1, <2>2 DEF Added
<1>6. CASE branches # <<>>
  <2>1. Opened = branches /\ Cur = branches[n] /\ n = Len(branches)
    BY <1>6, OpenedShape DEF n
  <2>2. DOMAIN branches \subseteq Nat
    BY SeqFacts DEF Sequences
  <2>3. noinitjump' <=> noinitjump
    <3>1. noinitjump' = (noinitjump \/ FALSE)
      BY <1>3, <2>1, Zenon
    <3> QED  BY <3>1, Zenon
  <2> QED  BY <1>1, <1>2, <1>4, <2>1, <2>2, <2>3 DEF Added
<1> QED  BY <1>5, <1>6

LEMMA JumpDestAdds ==
  ASSUME Sequences, AppendJumpDest
  PROVE  /\ pccount' = pccount + 1
         /\ \E op : /\ Added(op) /\ op.pc = pccount
                    /\ Form(op) = <<"jumpdest", 0, 0, 0, 1, FALSE>>
<1> DEFINE br == NewBranch(pccount)
           op == NewOpcode(br, "jumpdest", 0, 0, 0, 1)
           nb == [AfterOpcode(br, 0, 0) EXCEPT !.opcodes = <<op>>]
<1>1. branches' = Append(branches, nb) /\ pccount' = pccount + 1 /\ noinitjump' = noinitjump
  BY DEF AppendJumpDest
<1>2. /\ op.pc = pccount /\ op.name = "jumpdest"
      /\ Form(op) = <<"jumpdest", 0, 0, 0, 1, FALSE>>
  BY DEF NewOpcode, Form
<1>3. SameShape(AfterOpcode(br, 0, 0), br) /\ br.pc = pccount
  BY NewShape, AfterShape
<1>4. Shaped(nb) /\ nb.opcodes = <<op>> /\ nb.pc = pccount
  <2> DEFINE ab == AfterOpcode(br, 0, 0)
  <2> HIDE DEF br, op
  <2>1. SameShape(ab, br) /\ br.pc = pccount
    BY <1>3
  <2> HIDE DEF ab
  <2>2. LET x == [ab EXCEPT !.opcodes = <<op>>]
        IN  Shaped(x) /\ x.opcodes = <<op>> /\ x.pc = pccount
    BY <2>1 DEF SameShape, Shaped
  <2> QED  BY <2>2 DEF ab
<1> HIDE DEF nb, op, br
<1>5. /\ IsSeq(branches') /\ Len(branches') = Len(branches) + 1
      /\ branches'[Len(branches) + 1] = nb
      /\ \A b \in DOMAIN branches : branches'[b] = branches[b]
      /\ Len(branches) \in Nat
  BY <1>1, SeqAppend, SeqFacts DEF Sequences
<1>6. Added(op)
  <2>1. noinitjump' <=> noinitjump
    BY <1>1
  <2> QED  BY <1>2, <1>4, <1>5, <2>1 DEF Added
<1> QED  BY <1>1, <1>2, <1>6

(* The added opcode is the only new one, and the last of its branch.       *)
LEMMA AddedFacts ==
  ASSUME Sequences, NEW op, Added(op)
  PROVE  /\ Sequences'
         /\ \E n, m :
              /\ ~Has(branches, n, m) /\ branches'[n].opcodes[m] = op
              /\ \A b, k : Has(branches', b, k) <=> (Has(branches, b, k) \/ (b = n /\ k = m))
              /\ \A b, k : Has(branches, b, k) =>
                    /\ branches'[b].opcodes[k] = branches[b].opcodes[k]
                    /\ branches'[b].pc = branches[b].pc
              /\ op.name = "jumpdest" => m = 1 /\ branches'[n].pc = op.pc
<1> DEFINE n == Len(branches')
           old == IF Len(branches) = n THEN branches[n].opcodes ELSE <<>>
           m == Len(old) + 1
<1>1. /\ Len(branches) \in Nat /\ DOMAIN branches = 1 .. Len(branches)
      /\ n \in Nat /\ n >= 1 /\ DOMAIN branches' = 1 .. n
      /\ Len(branches) = n \/ Len(branches) = n - 1
  BY SeqFacts DEF Added, Sequences
<1>0. n = Len(branches')
  OBVIOUS
<1> HIDE DEF n
<1> DEFINE len == Len(branches)
<1>a. n \in Nat /\ n >= 1 /\ len \in Nat /\ (len = n \/ len = n - 1)
  BY <1>1
<1>b. DOMAIN branches = 1 .. len /\ DOMAIN branches' = 1 .. n
  BY <1>1, Zenon
<1>2. IsSeq(<<>>) /\ Len(<<>>) = 0 /\ Append(<<>>, op) = <<op>>
  BY DEF IsSeq
<1>3. IsSeq(old) /\ (Len(branches) = n => old # <<>>)
  <2>1. CASE Len(branches) = n
    <3>1. n \in DOMAIN branches /\ old = branches[n].opcodes
      BY <1>1, <2>1
    <3> QED  BY <2>1, <3>1 DEF Sequences, IsBuilt
  <2>2. CASE Len(branches) # n
    BY <1>2, <2>2
  <2> QED  BY <2>1, <2>2
<1>4. branches'[n].opcodes = Append(old, op) /\ Shaped(branches'[n])
  BY <1>0, <1>2 DEF Added
<1> HIDE DEF old
<1>5. Len(old) \in Nat /\ DOMAIN old = 1 .. Len(old)
  BY <1>3, SeqFacts
<1>6. /\ IsSeq(Append(old, op)) /\ Append(old, op) # <<>> /\ Len(Append(old, op)) = m
      /\ Append(old, op)[m] = op /\ \A k \in DOMAIN old : Append(old, op)[k] = old[k]
      /\ DOMAIN Append(old, op) = 1 .. m
  <2>1. /\ IsSeq(Append(old, op)) /\ Append(old, op) # <<>> /\ Len(Append(old, op)) = m
        /\ Append(old, op)[m] = op /\ \A k \in DOMAIN old : Append(old, op)[k] = old[k]
    BY <1>3, SeqAppend
  <2> QED  BY <2>1, SeqFacts
<1>7. \A b \in 1 .. n - 1 : b \in DOMAIN branches /\ branches'[b] = branches[b]
  <2>1. \A b \in 1 .. n - 1 : b \in DOMAIN branches /\ b < n
    <3> HIDE DEF len
    <3> QED  BY <1>a, <1>b
  <2> QED  BY <1>0, <2>1 DEF Added
<1>8. /\ Len(branches) = n =>
            n \in DOMAIN branches /\ branches[n].opcodes = old /\ branches[n].pc = branches'[n].pc
      /\ Len(branches) # n => old = <<>> /\ n \notin DOMAIN branches
  <2>1. len = n => n \in 1 .. len
    BY <1>a
  <2>2. len # n => n \notin 1 .. len
    BY <1>a
  <2> HIDE DEF len
  <2>3. Len(branches) = len
    BY DEF len
  <2> QED  BY <1>0, <1>b, <2>1, <2>2, <2>3 DEF old, Added
<1>9. op.name = "jumpdest" => m = 1 /\ branches'[n].pc = op.pc
  <2> SUFFICES ASSUME op.name = "jumpdest" PROVE m = 1 /\ branches'[n].pc = op.pc
    OBVIOUS
  <2>1. Len(branches) # n /\ branches'[n].pc = op.pc
    BY <1>0 DEF Added
  <2> QED  BY <1>2, <1>8, <2>1
<1>10. Sequences'
  <2>1. \A b \in 1 .. n : b = n \/ b \in 1 .. n - 1
    BY <1>a
  <2>2. IsBuilt(branches'[n])
    BY <1>4, <1>6 DEF IsBuilt
  <2>3. \A b \in DOMAIN branches' : IsBuilt(branches'[b])
    BY <1>1, <1>7, <2>1, <2>2 DEF Sequences
  <2>4. IsSeq(branches')
    BY DEF Added
  <2> QED  BY <2>3, <2>4 DEF Sequences, IsSeq, IsBuilt, Shaped
<1> HIDE DEF m
<1>11. \A b : b \in DOMAIN branches' <=> b \in 1 .. n - 1 \/ b = n
  <2>1. \A b : b \in 1 .. n <=> b \in 1 .. n - 1 \/ b = n
    BY <1>a
  <2> QED  BY <1>b, <2>1
<1>12. \A b : b \in DOMAIN branches => b \in DOMAIN branches'
  <2>1. \A b : b \in 1 .. len => b \in 1 .. n
    <3> HIDE DEF len
    <3> QED  BY <1>a
  <2> QED  BY <1>b, <2>1, Zenon
<1>13. n \notin 1 .. n - 1
  BY <1>a
<1>14. DOMAIN branches'[n].opcodes = DOMAIN old \cup {m} /\ m \notin DOMAIN old
  BY <1>4, <1>5, <1>6 DEF m
<1>15. \A k : Has(branches, n, k) <=> (k \in DOMAIN old)
  <2>1. CASE Len(branches) = n
    BY <1>8, <2>1 DEF Has
  <2>2. CASE Len(branches) # n
    <3>1. DOMAIN old = {}
      BY <1>2, <1>5, <1>8, <2>2
    <3> QED  BY <1>8, <2>2, <3>1 DEF Has
  <2> QED  BY <2>1, <2>2
<1>16. \A b, k : Has(branches', b, k) <=> (Has(branches, b, k) \/ (b = n /\ k = m))
  <2> TAKE b, k
  <2>1. CASE b = n
    BY <1>11, <1>14, <1>15, <2>1 DEF Has
  <2>2. CASE b # n
    BY <1>7, <1>11, <1>12, <2>2 DEF Has
  <2> QED  BY <2>1, <2>2
<1>17. ASSUME NEW b, NEW k, Has(branches, b, k)
       PROVE  branches'[b].opcodes[k] = branches[b].opcodes[k] /\ branches'[b].pc = branches[b].pc
  <2>1. b \in DOMAIN branches
    BY <1>17 DEF Has
  <2>2. CASE b = n
    <3>1. Len(branches) = n /\ k \in DOMAIN old
      BY <1>8, <1>15, <1>17, <2>1, <2>2
    <3> QED  BY <1>4, <1>6, <1>8, <2>2, <3>1
  <2>3. CASE b # n
    BY <1>7, <1>11, <1>12, <2>1, <2>3
  <2> QED  BY <2>2, <2>3
<1>18. ~Has(branches, n, m) /\ branches'[n].opcodes[m] = op
  BY <1>4, <1>6, <1>14, <1>15
<1> QED  BY <1>9, <1>10, <1>16, <1>17, <1>18

(* Reading an instruction that appends op.                                 *)
LEMMA ReadOne ==
  ASSUME Read, Len(bytecode) \in Nat, i < Len(bytecode), pccount = i, NEW op, Added(op),
         op.pc = pccount, Reads(op, bytecode),
         i' = i + Size(bytecode[i + 1]), pccount' = i', i' <= Len(bytecode),
         bytecode' = bytecode
  PROVE  Read'
<1> DEFINE c == bytecode
<1>1. /\ i \in Starts(c) /\ i \in Nat /\ Len(c) \in Nat /\ Starts(c) \subseteq Nat
      /\ Size(c[i + 1]) \in Nat /\ Size(c[i + 1]) >= 1 /\ i' \in Nat
      /\ Starts(c) \subseteq 0 .. Len(c) - 1
  BY StartsRec, SizeOK DEF Read, Position
<1>2. Position'
  <2>1. i' < Len(c) => i' \in Starts(c)
    <3> SUFFICES ASSUME i' < Len(c) PROVE i' \in Starts(c)
      OBVIOUS
    <3>1. i' \in 0 .. Len(c) - 1 /\ i < i' /\ i + Size(c[i + 1]) = i'
      BY <1>1
    <3> QED  BY <1>1, <3>1, StartsRec
  <2>2. i' \in 0 .. Len(c)
    BY <1>1
  <2>3. Starts(bytecode) = Starts(bytecode')
    OBVIOUS
  <2> HIDE DEF c
  <2>4. c' = c
    BY DEF c
  <2>5. i' \in 0 .. Len(bytecode') /\ (i' < Len(bytecode') => i' \in Starts(bytecode')) /\ pccount' = i'
    BY <2>1, <2>2 DEF c
  <2> QED  BY <2>5 DEF Position
<1>3. Sequences
  BY DEF Read, Sequences
<1>4. PICK n, m :
              /\ ~Has(branches, n, m) /\ branches'[n].opcodes[m] = op
              /\ \A b, k : Has(branches', b, k) <=> (Has(branches, b, k) \/ (b = n /\ k = m))
              /\ \A b, k : Has(branches, b, k) =>
                    /\ branches'[b].opcodes[k] = branches[b].opcodes[k]
                    /\ branches'[b].pc = branches[b].pc
              /\ op.name = "jumpdest" => m = 1 /\ branches'[n].pc = op.pc
  BY <1>3, AddedFacts
<1>5. Sequences'
  BY <1>3, AddedFacts
<1>6. ASSUME NEW b, NEW k, Has(branches', b, k)
      PROVE  LET x == branches'[b].opcodes[k] IN
             /\ x.pc \in Starts(c) /\ x.pc < pccount' /\ Reads(x, c)
             /\ x.name = "jumpdest" => k = 1 /\ branches'[b].pc = x.pc
  <2>1. CASE Has(branches, b, k)
    <3> DEFINE x == branches[b].opcodes[k]
    <3>1. /\ x.pc \in Starts(c) /\ x.pc < pccount /\ Reads(x, c)
          /\ x.name = "jumpdest" => k = 1 /\ branches[b].pc = x.pc
      BY <2>1 DEF Read, OpcodesAreRead
    <3>2. branches'[b].opcodes[k] = x /\ branches'[b].pc = branches[b].pc
      BY <1>4, <2>1
    <3> HIDE DEF x
    <3>3. x.pc < pccount'
      BY <1>1, <3>1
    <3> QED  BY <3>1, <3>2, <3>3
  <2>2. CASE b = n /\ k = m
    <3>1. i < pccount'
      BY <1>1
    <3> QED  BY <1>1, <1>4, <2>2, <3>1
  <2> QED  BY <1>4, <1>6, <2>1, <2>2
<1>7. ASSUME NEW b, NEW k, NEW d, NEW l, Has(branches', b, k), Has(branches', d, l),
             branches'[b].opcodes[k].pc = branches'[d].opcodes[l].pc
      PROVE  b = d /\ k = l
  <2>1. \A x, y : Has(branches, x, y) =>
            branches[x].opcodes[y].pc < i /\ branches[x].opcodes[y].pc # i
    <3> TAKE x, y
    <3> HAVE Has(branches, x, y)
    <3>1. branches[x].opcodes[y].pc \in Starts(c) /\ branches[x].opcodes[y].pc < i
      BY DEF Read, OpcodesAreRead
    <3> QED  BY <1>1, <3>1
  <2>2. \A x, y : Has(branches, x, y) => branches'[x].opcodes[y].pc = branches[x].opcodes[y].pc
    BY <1>4
  <2>3. CASE Has(branches, b, k) /\ Has(branches, d, l)
    <3>1. branches[b].opcodes[k].pc = branches[d].opcodes[l].pc
      BY <1>7, <2>2, <2>3
    <3> QED  BY <2>3, <3>1 DEF Read, OpcodesAreRead
  <2>4. CASE Has(branches, b, k) /\ ~Has(branches, d, l)
    <3>1. branches'[d].opcodes[l].pc = i
      BY <1>4, <1>7, <2>4
    <3> QED  BY <1>7, <2>1, <2>2, <2>4, <3>1
  <2>5. CASE ~Has(branches, b, k) /\ Has(branches, d, l)
    <3>1. branches'[b].opcodes[k].pc = i
      BY <1>4, <1>7, <2>5
    <3>2. branches'[d].opcodes[l].pc # i
      BY <2>1, <2>2, <2>5
    <3> QED  BY <1>7, <3>1, <3>2
  <2>6. CASE ~Has(branches, b, k) /\ ~Has(branches, d, l)
    BY <1>4, <1>7, <2>6
  <2> QED  BY <2>3, <2>4, <2>5, <2>6
<1>8. ASSUME NEW o \in Starts(c), o < pccount'
      PROVE  \E b, k : Has(branches', b, k) /\ branches'[b].opcodes[k].pc = o
  <2>1. CASE o < i
    <3>1. PICK b, k : Has(branches, b, k) /\ branches[b].opcodes[k].pc = o
      BY <2>1 DEF Read, OpcodesAreRead
    <3> QED  BY <1>4, <3>1
  <2>2. CASE o = i
    <3>1. Has(branches', n, m) /\ branches'[n].opcodes[m].pc = o
      BY <1>4, <2>2
    <3> QED  BY <3>1
  <2>3. CASE i < o
    <3>1. i + Size(c[i + 1]) <= o
      BY <1>1, <2>3, NoStartInside
    <3> QED  BY <1>1, <1>8, <3>1
  <2>4. o \in Nat
    BY <1>1
  <2> QED  BY <1>1, <2>1, <2>2, <2>3, <2>4
<1>9. OpcodesAreRead'
  <2> DEFINE bs == branches'
  <2>1. \A b, k : Has(bs, b, k) =>
             LET x == bs[b].opcodes[k] IN
             /\ x.pc \in Starts(bytecode') /\ x.pc < pccount' /\ Reads(x, bytecode')
             /\ x.name = "jumpdest" => k = 1 /\ bs[b].pc = x.pc
    BY <1>6
  <2>2. \A b, k, d, l : (Has(bs, b, k) /\ Has(bs, d, l)
             /\ bs[b].opcodes[k].pc = bs[d].opcodes[l].pc) => b = d /\ k = l
    BY <1>7
  <2>3. \A o \in Starts(bytecode') : o < pccount' =>
          \E b, k : Has(bs, b, k) /\ bs[b].opcodes[k].pc = o
    BY <1>8
  <2> HIDE DEF bs
  <2>4. \A b, k : Has(bs, b, k) <=> Has(branches, b, k)'
    BY DEF bs, Has
  <2>5. bs = branches'
    BY DEF bs
  <2>6. \A x : Reads(x, bytecode') <=> Reads(x, bytecode)'
    BY DEF Reads
  <2> HIDE DEF c
  <2> QED  BY ONLY <2>1, <2>2, <2>3, <2>4, <2>5, <2>6 DEF OpcodesAreRead, Has, Reads
<1> QED  BY <1>2, <1>5, <1>9 DEF Read, Sequences

-----------------------------------------------------------------------------
(* What each AppendXxx call appends.                                       *)

Appends(form, len) ==
    /\ pccount' = pccount + len
    /\ \E op : Added(op) /\ op.pc = pccount /\ Form(op) = form

LEMMA Appends1 ==
  ASSUME Sequences, NEW br, SameShape(br, Cur), NEW op, op.name # "jumpdest",
         op.pc = pccount, NEW len, Append1(Opened, br, op, len)
  PROVE  Appends(Form(op), len)
BY AppendAdds DEF Appends, Append1

LEMMA CurShape ==
  ASSUME Sequences
  PROVE  /\ Shaped(Cur)
         /\ \A in, out : SameShape(AfterOpcode(Cur, in, out), Cur)
         /\ \A in, out, k, r : SameShape(SetRef(AfterOpcode(Cur, in, out), k, r), Cur)
         /\ \A in, out, k, r, l, q :
               SameShape(SetRef(SetRef(AfterOpcode(Cur, in, out), k, r), l, q), Cur)
<1>1. Shaped(Cur)
  BY OpenedShape
<1>2. \A in, out : SameShape(AfterOpcode(Cur, in, out), Cur)
  BY <1>1, AfterShape
<1>3. \A x, y, k, r : SameShape(x, y) => SameShape(SetRef(x, k, r), y)
  BY SetRefShape DEF SameShape
<1> QED  BY <1>1, <1>2, <1>3

LEMMA NewOpcodeIs ==
  ASSUME NEW br, NEW name, NEW arg, NEW in, NEW out, NEW gas
  PROVE  LET op == NewOpcode(br, name, arg, in, out, gas) IN
         /\ op.pc = pccount /\ op.name = name
         /\ Form(op) = <<name, arg, in, out, gas, FALSE>>
         /\ {"pc", "name", "arg", "in", "out", "gas", "isExitOpcode"} \subseteq DOMAIN op
BY DEF NewOpcode, Form

LEMMA PushAppends ==
  ASSUME Sequences, NEW n, NEW v, AppendPushN(n, v)
  PROVE  Appends(<<"push", v, 0, 1, IF n = 0 THEN 2 ELSE 3, FALSE>>, 1 + n)
<1> DEFINE op == NewOpcode(Cur, "push", v, 0, 1, IF n = 0 THEN 2 ELSE 3)
           br == SetRef(AfterOpcode(Cur, 0, 1), 1, Const(v))
<1>1. Append1(Opened, br, op, 1 + n)
  BY DEF AppendPushN
<1>2. op.pc = pccount /\ op.name = "push" /\ SameShape(br, Cur)
      /\ Form(op) = <<"push", v, 0, 1, IF n = 0 THEN 2 ELSE 3, FALSE>>
  BY CurShape DEF NewOpcode, Form
<1> HIDE DEF op, br
<1>3. Appends(Form(op), 1 + n)
  BY <1>1, <1>2, Appends1
<1> QED  BY <1>2, <1>3

LEMMA DupAppends ==
  ASSUME Sequences, NEW n, AppendDupN(n)
  PROVE  Appends(<<"dup", n, 0, 1, 3, FALSE>>, 1)
<1> DEFINE ab    == AfterOpcode(Cur, 0, 1)
           local == (0 - ab.heapPos) + ab.stackPos
           src   == RefAt(ab, ab.stackPos - (n + 1))
           new   == NewOpcode(Cur, "dup", n, 0, 1, 3)
           op    == [new EXCEPT !.stackAddLoad = IF n + 1 > local THEN n + 1 - local ELSE 0]
           br    == IF n + 1 > local \/ src = NoRef THEN ab ELSE SetRef(ab, 1, src)
<1>1. Append1(Opened, br, op, 1)
  BY DEF AppendDupN
<1>2. /\ new.pc = pccount /\ Form(new) = <<"dup", n, 0, 1, 3, FALSE>>
      /\ {"pc", "name", "arg", "in", "out", "gas", "isExitOpcode"} \subseteq DOMAIN new
  BY DEF NewOpcode, Form
<1>3. SameShape(ab, Cur) /\ SameShape(SetRef(ab, 1, src), Cur)
  BY CurShape
<1> HIDE DEF local, src, new, ab
<1>4. op.pc = pccount /\ op.name = "dup" /\ Form(op) = <<"dup", n, 0, 1, 3, FALSE>>
  BY <1>2 DEF Form
<1>5. SameShape(br, Cur)
  BY <1>3
<1> HIDE DEF op, br
<1>6. Appends(Form(op), 1)
  BY <1>1, <1>4, <1>5, Appends1
<1> QED  BY <1>4, <1>6

LEMMA SwapAppends ==
  ASSUME Sequences, NEW n, AppendSwapN(n)
  PROVE  Appends(<<"swap", n, 1, 1, 3, FALSE>>, 1)
<1> DEFINE ab    == AfterOpcode(Cur, 1, 1)
           local == (0 - ab.heapPos) + ab.stackPos
           src   == RefAt(ab, ab.stackPos - (n + 1))
           new   == NewOpcode(Cur, "swap", n, 1, 1, 3)
           op    == [new EXCEPT !.stackAddLoad = IF n + 1 > local THEN n + 1 - local ELSE 0]
           top   == op.stackRefs[1]
           br    == IF n + 1 > local THEN ab
                    ELSE IF src = NoRef THEN SetRef(ab, 1, top)
                    ELSE SetRef(SetRef(ab, 1, src), n + 1, top)
<1>1. Append1(Opened, br, op, 1)
  BY DEF AppendSwapN
<1>2. /\ new.pc = pccount /\ Form(new) = <<"swap", n, 1, 1, 3, FALSE>>
      /\ {"pc", "name", "arg", "in", "out", "gas", "isExitOpcode"} \subseteq DOMAIN new
  BY DEF NewOpcode, Form
<1>3. /\ SameShape(ab, Cur) /\ SameShape(SetRef(ab, 1, top), Cur)
      /\ SameShape(SetRef(SetRef(ab, 1, src), n + 1, top), Cur)
  BY CurShape
<1> HIDE DEF local, src, new, ab
<1>4. op.pc = pccount /\ op.name = "swap" /\ Form(op) = <<"swap", n, 1, 1, 3, FALSE>>
  BY <1>2 DEF Form
<1> HIDE DEF top
<1>5. SameShape(br, Cur)
  BY <1>3
<1> HIDE DEF op, br
<1>6. Appends(Form(op), 1)
  BY <1>1, <1>4, <1>5, Appends1
<1> QED  BY <1>4, <1>6

LEMMA AluAppends ==
  ASSUME Sequences, NEW name, name # "jumpdest", AppendAlu(name)
  PROVE  Appends(<<name, 0, AluIn(name), 1, AluGas(name), FALSE>>, 1)
<1> DEFINE in   == AluIn(name)
           ab   == AfterOpcode(Cur, in, 1)
           new  == NewOpcode(Cur, name, 0, in, 1, AluGas(name))
           args == new.stackRefs
           fold == name \in Foldable /\ \A k \in 1 .. in : IsConst(args[k])
           val  == Fold(name, [k \in 1 .. in |-> args[k][2]])
           op   == [new EXCEPT !.isUnnecessary = fold]
           br   == IF fold THEN SetRef(ab, 1, Const(val)) ELSE ab
<1>1. Append1(Opened, br, op, 1)
  BY DEF AppendAlu
<1>2. /\ new.pc = pccount /\ Form(new) = <<name, 0, AluIn(name), 1, AluGas(name), FALSE>>
      /\ {"pc", "name", "arg", "in", "out", "gas", "isExitOpcode"} \subseteq DOMAIN new
  BY DEF NewOpcode, Form
<1>3. SameShape(ab, Cur) /\ SameShape(SetRef(ab, 1, Const(val)), Cur)
  BY CurShape
<1> HIDE DEF in, val, fold, new, ab
<1>4. op.pc = pccount /\ op.name = name /\ Form(op) = <<name, 0, AluIn(name), 1, AluGas(name), FALSE>>
  BY <1>2 DEF Form
<1>5. SameShape(br, Cur)
  BY <1>3
<1> HIDE DEF op, br
<1>6. Appends(Form(op), 1)
  BY <1>1, <1>4, <1>5, Appends1
<1> QED  BY <1>4, <1>6

LEMMA HighAppends ==
  ASSUME Sequences, NEW h, AppendHighOpcode(h)
  PROVE  Appends(<<"call", h.op, h.in, h.out, h.gas, h.stop>>, 1)
<1> DEFINE new == NewOpcode(Cur, "call", h.op, h.in, h.out, h.gas)
           op  == [new EXCEPT !.breakGasGroup = h.stop, !.isExitOpcode = h.stop]
           br  == AfterOpcode(Cur, h.in, h.out)
<1>1. Append1(Opened, br, op, 1)
  BY DEF AppendHighOpcode
<1>2. /\ new.pc = pccount /\ Form(new) = <<"call", h.op, h.in, h.out, h.gas, FALSE>>
      /\ {"pc", "name", "arg", "in", "out", "gas", "isExitOpcode"} \subseteq DOMAIN new
  BY DEF NewOpcode, Form
<1>3. SameShape(br, Cur)
  BY CurShape
<1> HIDE DEF new, br
<1>4. op.pc = pccount /\ op.name = "call" /\ Form(op) = <<"call", h.op, h.in, h.out, h.gas, h.stop>>
  BY <1>2 DEF Form
<1> HIDE DEF op
<1>6. Appends(Form(op), 1)
  BY <1>1, <1>3, <1>4, Appends1
<1> QED  BY <1>4, <1>6

LEMMA JumpAppends ==
  ASSUME Sequences, NEW name, name # "jumpdest", NEW in, NEW gas, AppendJumpOp(name, in, gas)
  PROVE  Appends(<<name, 0, in, 0, gas, FALSE>>, 1)
<1> DEFINE new == NewOpcode(Cur, name, 0, in, 0, gas)
           br  == AfterOpcode(Cur, in, 0)
           dst == new.stackRefs[1]
           pc  == IF IsConst(dst) THEN JumpPc(dst[2]) ELSE 0
           sts == StackStore(br)
           op  == [new EXCEPT !.stackStore = sts, !.breakGasGroup = TRUE,
                              !.isStaticJump = IsConst(dst), !.staticJumpPc = pc]
<1>1. Append1(Opened, br, op, 1)
  BY DEF AppendJumpOp
<1>2. /\ new.pc = pccount /\ Form(new) = <<name, 0, in, 0, gas, FALSE>>
      /\ {"pc", "name", "arg", "in", "out", "gas", "isExitOpcode"} \subseteq DOMAIN new
  BY DEF NewOpcode, Form
<1>3. SameShape(br, Cur)
  BY CurShape
<1> HIDE DEF new, br, pc, sts, dst
<1>4. op.pc = pccount /\ op.name = name /\ Form(op) = <<name, 0, in, 0, gas, FALSE>>
  BY <1>2 DEF Form
<1> HIDE DEF op
<1>6. Appends(Form(op), 1)
  BY <1>1, <1>3, <1>4, Appends1
<1> QED  BY <1>4, <1>6

LEMMA ExitAppends ==
  ASSUME Sequences, NEW name, name # "jumpdest", AppendExit(name)
  PROVE  Appends(<<name, 0, 0, 0, 0, TRUE>>, 1)
<1> DEFINE new == NewOpcode(Cur, name, 0, 0, 0, 0)
           op  == [new EXCEPT !.breakGasGroup = TRUE, !.isExitOpcode = TRUE]
           br  == AfterOpcode(Cur, 0, 0)
<1>1. Append1(Opened, br, op, 1)
  BY DEF AppendExit
<1>2. /\ new.pc = pccount /\ Form(new) = <<name, 0, 0, 0, 0, FALSE>>
      /\ {"pc", "name", "arg", "in", "out", "gas", "isExitOpcode"} \subseteq DOMAIN new
  BY DEF NewOpcode, Form
<1>3. SameShape(br, Cur)
  BY CurShape
<1> HIDE DEF new, br
<1>4. op.pc = pccount /\ op.name = name /\ Form(op) = <<name, 0, 0, 0, 0, TRUE>>
  BY <1>2 DEF Form
<1> HIDE DEF op
<1>6. Appends(Form(op), 1)
  BY <1>1, <1>3, <1>4, Appends1
<1> QED  BY <1>4, <1>6

LEMMA PlainAppends ==
  ASSUME Sequences
  PROVE  /\ AppendPop => Appends(<<"pop", 0, 1, 0, 2, FALSE>>, 1)
         /\ AppendGas => Appends(<<"gas", 0, 0, 1, 2, FALSE>>, 1)
         /\ AppendPc => Appends(<<"pc", 0, 0, 1, 2, FALSE>>, 1)
         /\ AppendJumpDest => Appends(<<"jumpdest", 0, 0, 0, 1, FALSE>>, 1)
<1>1. ASSUME NEW br, SameShape(br, Cur), NEW name, name # "jumpdest", NEW in, NEW out, NEW gas,
             Append1(Opened, br, NewOpcode(Cur, name, 0, in, out, gas), 1)
      PROVE  Appends(<<name, 0, in, out, gas, FALSE>>, 1)
  <2> DEFINE op == NewOpcode(Cur, name, 0, in, out, gas)
  <2>1. op.pc = pccount /\ op.name = name /\ Form(op) = <<name, 0, in, out, gas, FALSE>>
    BY DEF NewOpcode, Form
  <2>2. Append1(Opened, br, op, 1)
    BY <1>1
  <2> HIDE DEF op
  <2>3. Appends(Form(op), 1)
    BY <1>1, <2>1, <2>2, Appends1
  <2> QED  BY <2>1, <2>3
<1>2. AppendPop => Appends(<<"pop", 0, 1, 0, 2, FALSE>>, 1)
  BY <1>1, CurShape DEF AppendPop
<1>3. AppendGas => Appends(<<"gas", 0, 0, 1, 2, FALSE>>, 1)
  BY <1>1, CurShape DEF AppendGas
<1>4. AppendPc => Appends(<<"pc", 0, 0, 1, 2, FALSE>>, 1)
  BY <1>1, CurShape DEF AppendPc
<1>5. AppendJumpDest => Appends(<<"jumpdest", 0, 0, 0, 1, FALSE>>, 1)
  BY JumpDestAdds DEF Appends
<1> QED  BY <1>2, <1>3, <1>4, <1>5

-----------------------------------------------------------------------------
(* parseOpcode.                                                            *)

LEMMA ByteTables ==
  /\ \A a \in AluBytes :
        /\ a[1] \in KnownBytes /\ a[1] \notin PushBytes /\ a[1] # 91
        /\ a[2] \notin {"jumpdest", "push", "invalid"}
  /\ \A h \in HighOpcodes : h.op \in KnownBytes /\ h.op \notin PushBytes /\ h.op # 91
  /\ PushBytes \subseteq KnownBytes /\ 91 \notin PushBytes /\ 91 \in KnownBytes
<1>1. \A a \in AluBytes : a[1] \notin PushBytes /\ a[1] # 91
  BY DEF AluBytes, PushBytes
<1>2. \A a \in AluBytes : a[2] \notin {"jumpdest", "push", "invalid"}
  BY DEF AluBytes
<1>3. \A s \in HighShapes : \A b \in s[1] : b \notin PushBytes /\ b # 91
  BY DEF HighShapes, PushBytes
<1>4. \A h \in HighOpcodes : \E s \in HighShapes : h.op \in s[1]
  BY DEF HighOpcodes
<1>5. \A h \in HighOpcodes : h.op \notin PushBytes /\ h.op # 91
  BY <1>3, <1>4
<1>6. /\ \A a \in AluBytes : a[1] \in KnownBytes
      /\ \A h \in HighOpcodes : h.op \in KnownBytes
      /\ PushBytes \subseteq KnownBytes /\ 91 \in KnownBytes
  BY DEF KnownBytes
<1>7. 91 \notin PushBytes
  BY DEF PushBytes
<1> QED  BY <1>1, <1>2, <1>5, <1>6, <1>7

LEMMA SeqOf ==
  ASSUME NEW S, NEW s \in Seq(S)
  PROVE  /\ Len(s) \in Nat /\ \A n \in 1 .. Len(s) : s[n] \in S
         /\ \A m \in 1 .. Len(s) + 1 : SubSeq(s, m, Len(s)) \in Seq(S)
OBVIOUS

LEMMA BytesOf ==
  ASSUME bytecode \in Seq(0 .. 255)
  PROVE  /\ Len(bytecode) \in Nat
         /\ \A n \in 1 .. Len(bytecode) : bytecode[n] \in 0 .. 255
BY SeqOf

(* An instruction that is not cut off is consumed as one.                  *)
LEMMA Consumed ==
  ASSUME bytecode \in Seq(0 .. 255), i \in Nat, i < Len(bytecode)
  PROVE  LET b == bytecode[i + 1] IN
         /\ b \in 0 .. 255
         /\ Len(Rest) = Len(bytecode) - i - 1
         /\ \A n \in 1 .. Len(Rest) : Rest[n] = bytecode[i + 1 + n]
         /\ ~Truncated(b) => Used(b) = Size(b) /\ i + Size(b) <= Len(bytecode)
         /\ Truncated(b) => i + Used(b) = Len(bytecode) /\ i + Size(b) > Len(bytecode)
<1> DEFINE b == bytecode[i + 1]
<1>1. b \in 0 .. 255 /\ Len(bytecode) \in Nat
  <2>1. i + 1 \in 1 .. Len(bytecode)
    BY BytesOf
  <2> QED  BY <2>1, BytesOf
<1>2. /\ Len(Rest) = Len(bytecode) - i - 1
      /\ \A n \in 1 .. Len(Rest) : Rest[n] = bytecode[i + 1 + n]
  <2>1. i + 2 \in 1 .. Len(bytecode) + 1
    BY <1>1
  <2>2. /\ Len(Rest) = Len(bytecode) - (i + 2) + 1
        /\ \A n \in 1 .. Len(bytecode) - (i + 2) + 1 : Rest[n] = bytecode[i + 2 + n - 1]
    BY <1>1, <2>1 DEF Rest
  <2>3. \A n \in Int : i + 2 + n - 1 = i + 1 + n
    OBVIOUS
  <2> QED  BY <1>1, <2>2, <2>3
<1> HIDE DEF b
<1>3. ~Truncated(b) => Used(b) = Size(b) /\ i + Size(b) <= Len(bytecode)
  <2>1. CASE b \in PushBytes
    BY <1>1, <1>2, <2>1 DEF Truncated, Used, Size, PushSize
  <2>2. CASE b \notin PushBytes
    BY <1>1, <2>2 DEF Truncated, Used, Size
  <2> QED  BY <2>1, <2>2
<1>4. Truncated(b) => i + Used(b) = Len(bytecode) /\ i + Size(b) > Len(bytecode)
  BY <1>1, <1>2 DEF Truncated, Used, Size, PushSize
<1> QED  BY <1>1, <1>2, <1>3, <1>4 DEF b

(* What the instruction with byte b and immediate v is to the builder.     *)
Denotes(form, b, v) ==
    \/ b = 0 /\ form = <<"stop", 0, 0, 0, 0, TRUE>>
    \/ \E a \in AluBytes : b = a[1] /\ form = <<a[2], 0, AluIn(a[2]), 1, AluGas(a[2]), FALSE>>
    \/ \E h \in HighOpcodes : b = h.op /\ form = <<"call", h.op, h.in, h.out, h.gas, h.stop>>
    \/ b = 80 /\ form = <<"pop", 0, 1, 0, 2, FALSE>>
    \/ b = 86 /\ form = <<"jump", 0, 1, 0, 8, FALSE>>
    \/ b = 87 /\ form = <<"jumpi", 0, 2, 0, 10, FALSE>>
    \/ b = 88 /\ form = <<"pc", 0, 0, 1, 2, FALSE>>
    \/ b = 90 /\ form = <<"gas", 0, 0, 1, 2, FALSE>>
    \/ b = 91 /\ form = <<"jumpdest", 0, 0, 0, 1, FALSE>>
    \/ b = 95 /\ form = <<"push", 0, 0, 1, 2, FALSE>>
    \/ b \in PushBytes /\ form = <<"push", v, 0, 1, 3, FALSE>>
    \/ b \in DupBytes /\ form = <<"dup", b - 127, 0, 1, 3, FALSE>>
    \/ b \in SwapBytes /\ form = <<"swap", b - 143, 1, 1, 3, FALSE>>
    \/ b \notin KnownBytes /\ form = <<"invalid", 0, 0, 0, 0, TRUE>>

(* The data of the PUSH at o.                                              *)
DataAt(c, o) == SubSeq(c, o + 2, o + 1 + PushSize(c[o + 1]))

(* op is the instruction of c at op.pc.                                    *)
Means(op, c) ==
    /\ op.pc + Size(c[op.pc + 1]) <= Len(c)
    /\ Denotes(Form(op), c[op.pc + 1], Immediate(DataAt(c, op.pc)))

LEMMA Cut ==
  ASSUME NEW S, NEW s \in Seq(S), NEW lo \in 1 .. Len(s), NEW hi \in lo .. Len(s)
  PROVE  /\ SubSeq(s, lo, hi) \in Seq(S) /\ Len(SubSeq(s, lo, hi)) = hi - lo + 1
         /\ \A n \in 1 .. hi - lo + 1 : SubSeq(s, lo, hi)[n] = s[lo + n - 1]
OBVIOUS

LEMMA DataOf ==
  ASSUME bytecode \in Seq(0 .. 255), i \in Nat, i < Len(bytecode),
         bytecode[i + 1] \in PushBytes, ~Truncated(bytecode[i + 1])
  PROVE  /\ SubSeq(Rest, 1, PushSize(bytecode[i + 1])) = DataAt(bytecode, i)
         /\ DataAt(bytecode, i) \in Seq(0 .. 255)
         /\ Len(DataAt(bytecode, i)) = PushSize(bytecode[i + 1])
         /\ \A n \in 1 .. PushSize(bytecode[i + 1]) :
               DataAt(bytecode, i)[n] = bytecode[i + 1 + n]
<1> DEFINE m == PushSize(bytecode[i + 1])
           x == SubSeq(Rest, 1, m)
           y == DataAt(bytecode, i)
<1>1. /\ Len(bytecode) \in Nat /\ Rest \in Seq(0 .. 255) /\ Len(Rest) = Len(bytecode) - i - 1
      /\ \A n \in 1 .. Len(Rest) : Rest[n] = bytecode[i + 1 + n]
  <2>1. i + 2 \in 1 .. Len(bytecode) + 1 /\ Len(bytecode) \in Nat
    BY BytesOf
  <2> QED  BY <2>1, Consumed, SeqOf DEF Rest
<1>2. m \in 1 .. 32 /\ m <= Len(Rest)
  <2>1. \A z \in 96 .. 127 : z - 95 \in 1 .. 32
    OBVIOUS
  <2>2. m \in 1 .. 32
    BY <2>1 DEF PushBytes, PushSize
  <2>3. ~(Len(Rest) < m)
    BY DEF Truncated
  <2> HIDE DEF m
  <2> QED  BY <1>1, <2>2, <2>3
<1> HIDE DEF m
<1>3. x \in Seq(0 .. 255) /\ Len(x) = m /\ \A n \in 1 .. m : x[n] = Rest[n]
  <2>1. /\ SubSeq(Rest, 1, m) \in Seq(0 .. 255) /\ Len(SubSeq(Rest, 1, m)) = m - 1 + 1
        /\ \A n \in 1 .. m - 1 + 1 : SubSeq(Rest, 1, m)[n] = Rest[1 + n - 1]
    <3>1. 1 \in 1 .. Len(Rest) /\ m \in 1 .. Len(Rest)
      BY <1>1, <1>2
    <3> HIDE DEF x, y
    <3>2. PICK rest : rest = Rest
      OBVIOUS
    <3>3. PICK B : B = 0 .. 255
      OBVIOUS
    <3>4. rest \in Seq(B) /\ 1 \in 1 .. Len(rest) /\ m \in 1 .. Len(rest)
      BY <1>1, <3>1, <3>2, <3>3
    <3>5. /\ SubSeq(rest, 1, m) \in Seq(B) /\ Len(SubSeq(rest, 1, m)) = m - 1 + 1
          /\ \A n \in 1 .. m - 1 + 1 : SubSeq(rest, 1, m)[n] = rest[1 + n - 1]
      BY <3>4
    <3> QED  BY <3>2, <3>3, <3>5
  <2>2. m - 1 + 1 = m /\ \A n \in 1 .. m : 1 + n - 1 = n
    BY <1>2
  <2> QED  BY <2>1, <2>2
<1>4. y \in Seq(0 .. 255) /\ Len(y) = m /\ \A n \in 1 .. m : y[n] = bytecode[i + 1 + n]
  <2> DEFINE lo == i + 2
             hi == i + 1 + m
  <2>1. lo \in 1 .. Len(bytecode) /\ hi \in lo .. Len(bytecode) /\ hi - lo + 1 = m
        /\ \A n \in 1 .. m : lo + n - 1 = i + 1 + n
    <3>1. \A k, l \in Nat : k \in 1 .. 32 /\ k <= l - i - 1 =>
             /\ i + 2 \in 1 .. l /\ i + 1 + k \in i + 2 .. l /\ i + 1 + k - (i + 2) + 1 = k
             /\ \A n \in 1 .. k : i + 2 + n - 1 = i + 1 + n
      OBVIOUS
    <3> QED  BY <1>1, <1>2, <3>1
  <2>2. y = SubSeq(bytecode, lo, hi)
    BY DEF DataAt, m
  <2> HIDE DEF lo, hi, y
  <2>3. /\ SubSeq(bytecode, lo, hi) \in Seq(0 .. 255)
        /\ Len(SubSeq(bytecode, lo, hi)) = hi - lo + 1
        /\ \A n \in 1 .. hi - lo + 1 : SubSeq(bytecode, lo, hi)[n] = bytecode[lo + n - 1]
    <3>1. PICK c, B : c = bytecode /\ B = 0 .. 255
      OBVIOUS
    <3>2. c \in Seq(B) /\ lo \in 1 .. Len(c) /\ hi \in lo .. Len(c)
      BY <2>1, <3>1
    <3>3. /\ SubSeq(c, lo, hi) \in Seq(B) /\ Len(SubSeq(c, lo, hi)) = hi - lo + 1
          /\ \A n \in 1 .. hi - lo + 1 : SubSeq(c, lo, hi)[n] = c[lo + n - 1]
      BY <3>2
    <3> QED  BY <3>1, <3>3
  <2> QED  BY <2>1, <2>2, <2>3
<1> HIDE DEF x, y
<1>5. x = y
  <2>1. DOMAIN x = 1 .. m /\ DOMAIN y = 1 .. m
    BY <1>3, <1>4, LenProperties
  <2>2. \A n \in 1 .. m : n \in 1 .. Len(Rest)
    BY <1>1, <1>2
  <2>3. \A n \in 1 .. m : x[n] = y[n]
    BY <1>1, <1>3, <1>4, <2>2
  <2> QED  BY <1>3, <1>4, <2>1, <2>3
<1> QED  BY <1>4, <1>5 DEF x, y, m

(* parseOpcode appends the instruction it reads, or skips a PUSH that is   *)
(* cut off.                                                                *)
LEMMA OpcodeAdded ==
  ASSUME Sequences, pccount = i, bytecode \in Seq(0 .. 255), i \in Nat, i < Len(bytecode),
         AppendOpcode(bytecode[i + 1])
  PROVE  \/ Truncated(bytecode[i + 1]) /\ UNCHANGED vars
         \/ /\ ~Truncated(bytecode[i + 1])
            /\ pccount' = pccount + Size(bytecode[i + 1])
            /\ \E op : Added(op) /\ op.pc = pccount /\ Means(op, bytecode)
<1> DEFINE b == bytecode[i + 1]
           v == Immediate(DataAt(bytecode, i))
<1>1. /\ Len(bytecode) \in Nat /\ b \in 0 .. 255
      /\ ~Truncated(b) => i + Size(b) <= Len(bytecode)
  BY Consumed
<1>2. ASSUME ~Truncated(b), NEW form, Appends(form, Size(b)), Denotes(form, b, v)
      PROVE  /\ ~Truncated(bytecode[i + 1])
             /\ pccount' = pccount + Size(bytecode[i + 1])
             /\ \E op : Added(op) /\ op.pc = pccount /\ Means(op, bytecode)
  <2>1. pccount' = pccount + Size(b)
    BY <1>2 DEF Appends
  <2>2. PICK op : Added(op) /\ op.pc = pccount /\ Form(op) = form
    BY <1>2 DEF Appends
  <2>3. Means(op, bytecode)
    BY <1>1, <1>2, <2>2 DEF Means
  <2> QED  BY <1>2, <2>1, <2>2, <2>3
<1> HIDE DEF v
<1>3. b \notin PushBytes => ~Truncated(b) /\ Size(b) = 1
  BY DEF Truncated, Size
<1>4. /\ b \in DupBytes \cup SwapBytes \cup {0, 80, 86, 87, 88, 90, 91, 95} => b \notin PushBytes
      /\ \A a \in AluBytes : b = a[1] => b \notin PushBytes
      /\ \A h \in HighOpcodes : b = h.op => b \notin PushBytes
      /\ b \notin KnownBytes => b \notin PushBytes
  <2> HIDE DEF b
  <2>1. b \in DupBytes \cup SwapBytes \cup {0, 80, 86, 87, 88, 90, 91, 95} => b \notin PushBytes
    BY DEF DupBytes, SwapBytes, PushBytes
  <2> QED  BY <2>1, ByteTables
<1>5. CASE b = 0 /\ AppendStop
  <2>1. Appends(<<"stop", 0, 0, 0, 0, TRUE>>, 1)
    BY <1>5, ExitAppends DEF AppendStop
  <2> QED  BY <1>2, <1>3, <1>4, <1>5, <2>1 DEF Denotes
<1>6. CASE \E a \in AluBytes : b = a[1] /\ AppendAlu(a[2])
  <2>1. PICK a \in AluBytes : b = a[1] /\ AppendAlu(a[2])
    BY <1>6
  <2>2. b \notin PushBytes /\ a[2] # "jumpdest"
    BY <2>1, ByteTables
  <2>3. Appends(<<a[2], 0, AluIn(a[2]), 1, AluGas(a[2]), FALSE>>, 1)
    BY <2>1, <2>2, AluAppends
  <2>4. Denotes(<<a[2], 0, AluIn(a[2]), 1, AluGas(a[2]), FALSE>>, b, v)
    BY <2>1 DEF Denotes
  <2> QED  BY <1>2, <1>3, <2>2, <2>3, <2>4
<1>7. CASE \E h \in HighOpcodes : b = h.op /\ AppendHighOpcode(h)
  <2>1. PICK h \in HighOpcodes : b = h.op /\ AppendHighOpcode(h)
    BY <1>7
  <2>2. Appends(<<"call", h.op, h.in, h.out, h.gas, h.stop>>, 1)
    BY <2>1, HighAppends
  <2>3. Denotes(<<"call", h.op, h.in, h.out, h.gas, h.stop>>, b, v)
    BY <2>1 DEF Denotes
  <2> QED  BY <1>2, <1>3, <1>4, <2>1, <2>2, <2>3
<1>8. CASE b = 80 /\ AppendPop
  <2>1. Appends(<<"pop", 0, 1, 0, 2, FALSE>>, 1)
    BY <1>8, PlainAppends
  <2>2. Denotes(<<"pop", 0, 1, 0, 2, FALSE>>, b, v)
    BY <1>8 DEF Denotes
  <2> QED  BY <1>2, <1>3, <1>4, <1>8, <2>1, <2>2
<1>9. CASE b = 86 /\ AppendJump
  <2>1. Appends(<<"jump", 0, 1, 0, 8, FALSE>>, 1)
    BY <1>9, JumpAppends DEF AppendJump
  <2> QED  BY <1>2, <1>3, <1>4, <1>9, <2>1 DEF Denotes
<1>10. CASE b = 87 /\ AppendJumpI
  <2>1. Appends(<<"jumpi", 0, 2, 0, 10, FALSE>>, 1)
    BY <1>10, JumpAppends DEF AppendJumpI
  <2> QED  BY <1>2, <1>3, <1>4, <1>10, <2>1 DEF Denotes
<1>11. CASE b = 88 /\ AppendPc
  <2>1. Appends(<<"pc", 0, 0, 1, 2, FALSE>>, 1)
    BY <1>11, PlainAppends
  <2>2. Denotes(<<"pc", 0, 0, 1, 2, FALSE>>, b, v)
    BY <1>11 DEF Denotes
  <2> QED  BY <1>2, <1>3, <1>4, <1>11, <2>1, <2>2
<1>12. CASE b = 90 /\ AppendGas
  <2>1. Appends(<<"gas", 0, 0, 1, 2, FALSE>>, 1)
    BY <1>12, PlainAppends
  <2>2. Denotes(<<"gas", 0, 0, 1, 2, FALSE>>, b, v)
    BY <1>12 DEF Denotes
  <2> QED  BY <1>2, <1>3, <1>4, <1>12, <2>1, <2>2
<1>13. CASE b = 91 /\ AppendJumpDest
  <2>1. Appends(<<"jumpdest", 0, 0, 0, 1, FALSE>>, 1)
    BY <1>13, PlainAppends
  <2>2. Denotes(<<"jumpdest", 0, 0, 0, 1, FALSE>>, b, v)
    BY <1>13 DEF Denotes
  <2> QED  BY <1>2, <1>3, <1>4, <1>13, <2>1, <2>2
<1>14. CASE b = 95 /\ AppendPushN(0, 0)
  <2>1. Appends(<<"push", 0, 0, 1, IF 0 = 0 THEN 2 ELSE 3, FALSE>>, 1 + 0)
    BY <1>14, PushAppends
  <2>2. Appends(<<"push", 0, 0, 1, 2, FALSE>>, 1)
    BY <2>1
  <2>3. Denotes(<<"push", 0, 0, 1, 2, FALSE>>, b, v)
    BY <1>14 DEF Denotes
  <2> QED  BY <1>2, <1>3, <1>4, <1>14, <2>2, <2>3
<1>15. CASE b \in PushBytes /\ ~Truncated(b)
             /\ AppendPushN(PushSize(b), Immediate(SubSeq(Rest, 1, PushSize(b))))
  <2>1. AppendPushN(PushSize(b), v)
    BY <1>15, DataOf DEF v
  <2>2. Appends(<<"push", v, 0, 1, IF PushSize(b) = 0 THEN 2 ELSE 3, FALSE>>, 1 + PushSize(b))
    BY <2>1, PushAppends
  <2>3. PushSize(b) # 0 /\ Size(b) = 1 + PushSize(b)
    <3>1. \A x \in 96 .. 127 : x - 95 # 0
      OBVIOUS
    <3> QED  BY <1>15, <3>1 DEF PushSize, Size, PushBytes
  <2>4. Appends(<<"push", v, 0, 1, 3, FALSE>>, Size(b))
    BY <2>2, <2>3
  <2>5. Denotes(<<"push", v, 0, 1, 3, FALSE>>, b, v)
    BY <1>15 DEF Denotes
  <2> QED  BY <1>2, <1>15, <2>4, <2>5
<1>16. CASE Truncated(b) /\ UNCHANGED vars
  BY <1>16
<1>17. CASE b \in DupBytes /\ AppendDupN(b - 127)
  <2>1. Appends(<<"dup", b - 127, 0, 1, 3, FALSE>>, 1)
    BY <1>17, DupAppends
  <2> QED  BY <1>2, <1>3, <1>4, <1>17, <2>1 DEF Denotes
<1>18. CASE b \in SwapBytes /\ AppendSwapN(b - 143)
  <2>1. Appends(<<"swap", b - 143, 1, 1, 3, FALSE>>, 1)
    BY <1>18, SwapAppends
  <2> QED  BY <1>2, <1>3, <1>4, <1>18, <2>1 DEF Denotes
<1>19. CASE b \notin KnownBytes /\ AppendInvalid
  <2>1. Appends(<<"invalid", 0, 0, 0, 0, TRUE>>, 1)
    BY <1>19, ExitAppends DEF AppendInvalid
  <2> QED  BY <1>2, <1>3, <1>4, <1>19, <2>1 DEF Denotes
<1> QED  BY <1>5, <1>6, <1>7, <1>8, <1>9, <1>10, <1>11, <1>12, <1>13, <1>14, <1>15,
            <1>16, <1>17, <1>18, <1>19 DEF AppendOpcode

(* What an opcode's form says of its name and argument.                    *)
LEMMA MeansReads ==
  ASSUME bytecode \in Seq(0 .. 255), i \in Nat, i < Len(bytecode), ~Truncated(bytecode[i + 1]),
         NEW op, op.pc = i, Means(op, bytecode)
  PROVE  Reads(op, bytecode)
<1> DEFINE b == bytecode[i + 1]
           v == Immediate(DataAt(bytecode, i))
<1>1. Denotes(Form(op), b, v) /\ Form(op)[1] = op.name /\ Form(op)[2] = op.arg
  BY DEF Means, Form
<1>2. b = 97 => v = (256 * bytecode[i + 2] + bytecode[i + 3]) % WordLimit
  <2> SUFFICES ASSUME b = 97
               PROVE  v = (256 * bytecode[i + 2] + bytecode[i + 3]) % WordLimit
    OBVIOUS
  <2> DEFINE data == DataAt(bytecode, i)
  <2>1. b \in PushBytes /\ PushSize(b) = 2
    BY DEF PushBytes, PushSize
  <2>2. /\ Len(data) = 2 /\ data \in Seq(0 .. 255)
        /\ \A n \in 1 .. 2 : data[n] = bytecode[i + 1 + n]
    BY <2>1, DataOf
  <2>3. data[1] = bytecode[i + 2] /\ data[2] = bytecode[i + 3] /\ data[1] \in Nat /\ data[2] \in Nat
    <3>1. i + 1 + 1 = i + 2 /\ i + 1 + 2 = i + 3
      OBVIOUS
    <3>2. data[1] \in 0 .. 255 /\ data[2] \in 0 .. 255
      <4>1. 1 \in 1 .. Len(data) /\ 2 \in 1 .. Len(data)
        BY <2>2
      <4>2. PICK d, B : d = data /\ B = 0 .. 255
        OBVIOUS
      <4>3. d \in Seq(B) /\ Len(d) = 2
        BY <2>2, <4>2
      <4>6. d \in Seq(B)
        BY <4>3
      <4>7. \A n \in 1 .. Len(d) : d[n] \in B
        BY <4>6
      <4>5. (\A n \in 1 .. Len(d) : d[n] \in B) /\ 1 \in 1 .. Len(d) /\ 2 \in 1 .. Len(d)
        BY <4>3, <4>7
      <4>4. d[1] \in B /\ d[2] \in B
        BY <4>5
      <4> QED  BY <4>2, <4>4
    <3>3. \A n \in 0 .. 255 : n \in Nat
      OBVIOUS
    <3>4. data[1] = bytecode[i + 1 + 1] /\ data[2] = bytecode[i + 1 + 2]
      <4> HIDE DEF data
      <4> QED  BY <2>2
    <3> QED  BY <3>1, <3>2, <3>3, <3>4
  <2> HIDE DEF data
  <2>4. Immediate(data) = (256 * data[1] + data[2]) % WordLimit
    BY <2>2, <2>3, ImmediateOfTwo
  <2> QED  BY <2>3, <2>4 DEF data
<1> HIDE DEF b, v
<1>6. \/ b = 0 /\ op.name = "stop"
      \/ \E a \in AluBytes : b = a[1] /\ op.name = a[2]
      \/ \E h \in HighOpcodes : b = h.op /\ op.name = "call"
      \/ b = 80 /\ op.name = "pop"
      \/ b = 86 /\ op.name = "jump"
      \/ b = 87 /\ op.name = "jumpi"
      \/ b = 88 /\ op.name = "pc"
      \/ b = 90 /\ op.name = "gas"
      \/ b = 91 /\ op.name = "jumpdest"
      \/ b = 95 /\ op.name = "push"
      \/ b \in PushBytes /\ op.name = "push" /\ op.arg = v
      \/ b \in DupBytes /\ op.name = "dup"
      \/ b \in SwapBytes /\ op.name = "swap"
      \/ b \notin KnownBytes /\ op.name = "invalid"
  <2>1. PICK f : f = Form(op)
    OBVIOUS
  <2>2. Denotes(f, b, v) /\ f[1] = op.name /\ f[2] = op.arg
    BY <1>1, <2>1
  <2> HIDE <1>1
  <2>3. CASE \E a \in AluBytes : b = a[1] /\ f = <<a[2], 0, AluIn(a[2]), 1, AluGas(a[2]), FALSE>>
    <3>1. PICK a \in AluBytes : b = a[1] /\ f = <<a[2], 0, AluIn(a[2]), 1, AluGas(a[2]), FALSE>>
      BY <2>3
    <3>2. f[1] = a[2]
      BY <3>1
    <3> QED  BY <2>2, <3>1, <3>2
  <2>4. CASE \E h \in HighOpcodes : b = h.op /\ f = <<"call", h.op, h.in, h.out, h.gas, h.stop>>
    <3>1. PICK h \in HighOpcodes : b = h.op /\ f = <<"call", h.op, h.in, h.out, h.gas, h.stop>>
      BY <2>4
    <3>2. f[1] = "call"
      BY <3>1
    <3> QED  BY <2>2, <3>1, <3>2
  <2>5. CASE /\ ~\E a \in AluBytes : b = a[1] /\ f = <<a[2], 0, AluIn(a[2]), 1, AluGas(a[2]), FALSE>>
             /\ ~\E h \in HighOpcodes : b = h.op /\ f = <<"call", h.op, h.in, h.out, h.gas, h.stop>>
    <3>1. CASE b = 0 /\ f = <<"stop", 0, 0, 0, 0, TRUE>>
      <4> f[1] = "stop" /\ f[2] = 0
        BY <3>1
      <4> QED  BY <2>2, <3>1
    <3>2. CASE b = 80 /\ f = <<"pop", 0, 1, 0, 2, FALSE>>
      <4> f[1] = "pop" /\ f[2] = 0
        BY <3>2
      <4> QED  BY <2>2, <3>2
    <3>3. CASE b = 86 /\ f = <<"jump", 0, 1, 0, 8, FALSE>>
      <4> f[1] = "jump" /\ f[2] = 0
        BY <3>3
      <4> QED  BY <2>2, <3>3
    <3>4. CASE b = 87 /\ f = <<"jumpi", 0, 2, 0, 10, FALSE>>
      <4> f[1] = "jumpi" /\ f[2] = 0
        BY <3>4
      <4> QED  BY <2>2, <3>4
    <3>5. CASE b = 88 /\ f = <<"pc", 0, 0, 1, 2, FALSE>>
      <4> f[1] = "pc" /\ f[2] = 0
        BY <3>5
      <4> QED  BY <2>2, <3>5
    <3>6. CASE b = 90 /\ f = <<"gas", 0, 0, 1, 2, FALSE>>
      <4> f[1] = "gas" /\ f[2] = 0
        BY <3>6
      <4> QED  BY <2>2, <3>6
    <3>7. CASE b = 91 /\ f = <<"jumpdest", 0, 0, 0, 1, FALSE>>
      <4> f[1] = "jumpdest" /\ f[2] = 0
        BY <3>7
      <4> QED  BY <2>2, <3>7
    <3>8. CASE b = 95 /\ f = <<"push", 0, 0, 1, 2, FALSE>>
      <4> f[1] = "push" /\ f[2] = 0
        BY <3>8
      <4> QED  BY <2>2, <3>8
    <3>9. CASE b \in PushBytes /\ f = <<"push", v, 0, 1, 3, FALSE>>
      <4> f[1] = "push" /\ f[2] = v
        BY <3>9
      <4> QED  BY <2>2, <3>9
    <3>10. CASE b \in DupBytes /\ f = <<"dup", b - 127, 0, 1, 3, FALSE>>
      <4> f[1] = "dup" /\ f[2] = b - 127
        BY <3>10
      <4> QED  BY <2>2, <3>10
    <3>11. CASE b \in SwapBytes /\ f = <<"swap", b - 143, 1, 1, 3, FALSE>>
      <4> f[1] = "swap" /\ f[2] = b - 143
        BY <3>11
      <4> QED  BY <2>2, <3>11
    <3>12. CASE b \notin KnownBytes /\ f = <<"invalid", 0, 0, 0, 0, TRUE>>
      <4> f[1] = "invalid" /\ f[2] = 0
        BY <3>12
      <4> QED  BY <2>2, <3>12
    <3> QED  BY <2>2, <2>5, <3>1, <3>2, <3>3, <3>4, <3>5, <3>6, <3>7, <3>8, <3>9, <3>10, <3>11, <3>12 DEF Denotes
  <2> QED  BY <2>3, <2>4, <2>5
<1>7. 91 \notin DupBytes /\ 91 \notin SwapBytes
  BY DEF DupBytes, SwapBytes
<1>3. op.name = "jumpdest" <=> b = 91
  <2>1. (\E h \in HighOpcodes : b = h.op) => b # 91
    BY ByteTables
  <2>2. \A a \in AluBytes : b = a[1] => b # 91 /\ a[2] # "jumpdest"
    BY ByteTables
  <2>3. b \in PushBytes \/ b \notin KnownBytes => b # 91
    BY ByteTables
  <2> QED  BY <1>6, <1>7, <2>1, <2>2, <2>3
<1>4. op.name = "push" /\ b = 97 => op.arg = v
  BY <1>6, ByteTables
<1>5. op.name = "invalid" => b \notin KnownBytes
  BY <1>6, ByteTables
<1> QED  BY <1>2, <1>3, <1>4, <1>5 DEF Reads, b

LEMMA ReadTruncated ==
  ASSUME Read, bytecode \in Seq(0 .. 255), i < Len(bytecode), Truncated(bytecode[i + 1]),
         i' = i + Used(bytecode[i + 1]), bytecode' = bytecode, UNCHANGED vars
  PROVE  Read'
<1>1. i \in Nat /\ i \in Starts(bytecode) /\ pccount = i /\ Len(bytecode) \in Nat
  BY DEF Read, Position
<1>2. i' = Len(bytecode) /\ i + Size(bytecode[i + 1]) > Len(bytecode)
  BY <1>1, Consumed
<1>3. branches' = branches /\ pccount' = pccount
  BY DEF vars
<1>4. Position'
  <2>1. /\ bytecode[pccount + 1]' = bytecode[i + 1] /\ i' = Len(bytecode')
        /\ Len(bytecode') \in Nat
        /\ pccount' \in Starts(bytecode')
        /\ pccount' + Size(bytecode'[pccount' + 1]) > Len(bytecode')
    BY <1>1, <1>2, <1>3
  <2>2. i' \in 0 .. Len(bytecode') /\ ~(i' < Len(bytecode'))
    <3>1. \A n \in Nat : n \in 0 .. n /\ ~(n < n)
      OBVIOUS
    <3> QED  BY <2>1, <3>1
  <2> QED  BY <2>1, <2>2 DEF Position
<1>5. OpcodesAreRead'
  BY <1>3 DEF Read, OpcodesAreRead, Has, Reads
<1> QED  BY <1>3, <1>4, <1>5, ZenonT(30) DEF Read, IsSeq, IsBuilt, Shaped

LEMMA ReadStep ==
  ASSUME Read, bytecode \in Seq(0 .. 255), i < Len(bytecode), bytecode' = bytecode,
         AppendOpcode(bytecode[i + 1]), i' = i + Used(bytecode[i + 1])
  PROVE  Read'
<1>1. /\ i \in Nat /\ Len(bytecode) \in Nat /\ Sequences /\ pccount = i
  BY Consumed DEF Read, Position, Sequences
<1>2. CASE Truncated(bytecode[i + 1]) /\ UNCHANGED vars
  BY <1>2, ReadTruncated
<1>3. CASE /\ ~Truncated(bytecode[i + 1])
           /\ pccount' = pccount + Size(bytecode[i + 1])
           /\ \E op : Added(op) /\ op.pc = pccount /\ Means(op, bytecode)
  <2>1. PICK op : Added(op) /\ op.pc = pccount /\ Means(op, bytecode)
    BY <1>3
  <2>2. Reads(op, bytecode)
    BY <1>1, <1>3, <2>1, MeansReads
  <2>3. Used(bytecode[i + 1]) = Size(bytecode[i + 1]) /\ i + Size(bytecode[i + 1]) <= Len(bytecode)
    BY <1>1, <1>3, Consumed
  <2> QED  BY <1>1, <1>3, <2>1, <2>2, <2>3, ReadOne
<1> QED  BY <1>1, <1>2, <1>3, OpcodeAdded

-----------------------------------------------------------------------------
(* ParseCodeSection.                                                       *)

LEMMA CodeIsBytes ==
  ASSUME bytecode \in Codes
  PROVE  bytecode \in Seq(0 .. 255) /\ Len(bytecode) \in Nat
BY CodesAssumption, BytesOf

LEMMA ReadStart == ParseInit => ReadInv
<1> SUFFICES ASSUME ParseInit PROVE Read
  BY DEF ParseInit, ReadInv
<1>1. branches = <<>> /\ pccount = 0 /\ i = 0 /\ Len(bytecode) \in Nat
  BY CodeIsBytes DEF ParseInit, GenInit, Init
<1>2. IsSeq(branches) /\ DOMAIN branches = {}
  BY <1>1 DEF IsSeq
<1>3. Len(bytecode) > 0 => 0 \in Starts(bytecode)
  BY <1>1, StartsRec
<1>4. Position
  BY <1>1, <1>3 DEF Position
<1>5. \A o \in Starts(bytecode) : ~(o < 0)
  BY <1>1, StartsRec
<1> QED  BY <1>1, <1>2, <1>4, <1>5 DEF Read, OpcodesAreRead, Has

LEMMA ReadNext == ReadInv /\ [ParseNext]_parsevars => ReadInv'
<1> SUFFICES ASSUME ReadInv, [ParseNext]_parsevars PROVE ReadInv'
  OBVIOUS
<1>1. CASE ParseOpcode
  <2>1. phase = "build" /\ ~err /\ bytecode' = bytecode /\ bytecode \in Codes
    BY <1>1 DEF ParseOpcode, ReadInv
  <2>2. Read'
    BY <1>1, <2>1, CodeIsBytes, ReadStep DEF ParseOpcode, ReadInv
  <2> QED  BY <2>1, <2>2 DEF ReadInv
<1>2. CASE AddFunction
  BY <1>2 DEF AddFunction, Generate, ReadInv
<1>3. CASE Render
  <2>1. bytecode' = bytecode /\ (Walk(at[1], at[2]) \/ Finish)
    BY <1>3 DEF Render
  <2>2. phase' # "build"
    BY <2>1 DEF Walk, Finish, SkipDeadBranch, OpenBranch, CloseBranch, SkipUnnecessary,
                EmitOpcode, Emitting
  <2> QED  BY <2>1, <2>2 DEF ReadInv
<1>4. CASE UNCHANGED parsevars
  <2>1. /\ bytecode' = bytecode /\ i' = i /\ branches' = branches /\ pccount' = pccount
        /\ phase' = phase /\ err' = err
    BY <1>4 DEF parsevars, allvars, vars, genvars
  <2>2. Read' <=> Read
    BY <2>1 DEF Read, IsSeq, IsBuilt, Shaped, Position, OpcodesAreRead, Has, Reads
  <2> QED  BY <2>1, <2>2 DEF ReadInv
<1> QED  BY <1>1, <1>2, <1>3, <1>4 DEF ParseNext

LEMMA ReadInductive == ParseSpec => []ReadInv
BY ReadStart, ReadNext, PTL DEF ParseSpec

(* When the whole bytecode is read, its instructions are the opcodes.      *)
LEMMA ReadAll ==
  ASSUME Read, bytecode \in Codes, i >= Len(bytecode)
  PROVE  \A o \in Starts(bytecode) : o + Size(bytecode[o + 1]) <= Len(bytecode) =>
            \E b, k : Has(branches, b, k) /\ branches[b].opcodes[k].pc = o
<1>1. /\ Len(bytecode) \in Nat /\ Starts(bytecode) \subseteq 0 .. Len(bytecode) - 1
      /\ i = Len(bytecode)
  BY CodeIsBytes, StartsRec DEF Read, Position
<1> SUFFICES ASSUME NEW o \in Starts(bytecode),
                    o + Size(bytecode[o + 1]) <= Len(bytecode)
             PROVE  o < pccount
  BY DEF Read, OpcodesAreRead
<1>2. CASE pccount = i
  BY <1>1, <1>2
<1>3. CASE /\ pccount \in Starts(bytecode)
           /\ pccount + Size(bytecode[pccount + 1]) > Len(bytecode)
  <2>1. pccount # o /\ pccount \in Nat /\ o \in Nat
    <3>1. \A x : Size(x) \in Nat
      BY SizeOK
    <3>2. pccount \in Nat /\ o \in Nat
      BY <1>1, <1>3
    <3> QED  BY <1>1, <1>3, <3>1, <3>2
  <2>2. ~(pccount < o)
    <3> SUFFICES ASSUME pccount < o PROVE FALSE
      OBVIOUS
    <3>1. pccount + Size(bytecode[pccount + 1]) <= o
      BY <1>1, <1>3, NoStartInside
    <3> QED  BY <1>1, <1>3, <2>1, <3>1, SizeOK
  <2> QED  BY <2>1, <2>2
<1> QED  BY <1>2, <1>3 DEF Read, Position

(* For every bytecode, the branches of the parsed function begin exactly   *)
(* at the JUMPDEST bytes that start an instruction: data of a PUSH is      *)
(* never a jump target, and no JUMPDEST is missed behind it.               *)
THEOREM TargetsAreReal == ParseSpec => []TargetsAreJumpDests
<1>1. ReadInv => TargetsAreJumpDests
  <2> SUFFICES ASSUME ReadInv, AllRead PROVE BranchPcs = JumpDests(bytecode)
    BY DEF TargetsAreJumpDests
  <2>1. Read /\ bytecode \in Codes /\ i >= Len(bytecode)
    BY DEF ReadInv, AllRead
  <2>2. Len(bytecode) \in Nat /\ Starts(bytecode) \subseteq 0 .. Len(bytecode) - 1
    BY <2>1, CodeIsBytes, StartsRec
  <2>3. \A b \in DOMAIN branches : Has(branches, b, 1)
    <3> TAKE b \in DOMAIN branches
    <3>1. IsSeq(branches[b].opcodes) /\ branches[b].opcodes # <<>>
      BY <2>1 DEF Read, IsBuilt
    <3> QED  BY <3>1, SeqFacts DEF Has
  <2>4. ASSUME NEW b \in DOMAIN branches, branches[b].opcodes[1].name = "jumpdest"
        PROVE  branches[b].pc \in JumpDests(bytecode)
    BY <2>1, <2>3, <2>4 DEF Read, OpcodesAreRead, Reads, JumpDests
  <2>5. ASSUME NEW o \in JumpDests(bytecode)
        PROVE  \E b \in DOMAIN branches :
                  branches[b].opcodes[1].name = "jumpdest" /\ branches[b].pc = o
    <3>1. o \in Starts(bytecode) /\ bytecode[o + 1] = 91
      BY DEF JumpDests
    <3>2. Size(bytecode[o + 1]) = 1
      BY <3>1, ByteTables DEF Size
    <3>3. o + Size(bytecode[o + 1]) <= Len(bytecode)
      BY <2>2, <3>1, <3>2
    <3>4. PICK b, k : Has(branches, b, k) /\ branches[b].opcodes[k].pc = o
      BY <2>1, <3>1, <3>3, ReadAll
    <3>5. branches[b].opcodes[k].name = "jumpdest"
      BY <2>1, <3>1, <3>4 DEF Read, OpcodesAreRead, Reads
    <3>6. k = 1 /\ branches[b].pc = o
      BY <2>1, <3>4, <3>5 DEF Read, OpcodesAreRead
    <3> QED  BY <3>4, <3>5, <3>6 DEF Has
  <2> QED  BY <2>4, <2>5 DEF BranchPcs
<1> QED  BY <1>1, ReadInductive, PTL

(* For every bytecode, an instruction that is not cut off becomes exactly  *)
(* one opcode, no opcode comes from anywhere else, and its pc is the       *)
(* offset of the instruction.                                              *)
THEOREM PcsAreOffsets == ParseSpec => []PcIsOffset
<1>1. ReadInv => PcIsOffset
  <2> SUFFICES ASSUME ReadInv, AllRead
               PROVE  /\ \A o \in Starts(bytecode) :
                            o + Size(bytecode[o + 1]) <= Len(bytecode)
                              => Cardinality(OpcodeAt(o)) = 1
                      /\ \A b \in DOMAIN branches : \A k \in DOMAIN branches[b].opcodes :
                            /\ branches[b].opcodes[k].pc \in Starts(bytecode)
                            /\ Reads(branches[b].opcodes[k], bytecode)
    BY DEF PcIsOffset, Reads
  <2>1. Read /\ bytecode \in Codes /\ i >= Len(bytecode)
    BY DEF ReadInv, AllRead
  <2>2. ASSUME NEW b \in DOMAIN branches, NEW k \in DOMAIN branches[b].opcodes
        PROVE  /\ branches[b].opcodes[k].pc \in Starts(bytecode)
               /\ Reads(branches[b].opcodes[k], bytecode)
    BY <2>1 DEF Read, OpcodesAreRead, Has
  <2>3. ASSUME NEW o \in Starts(bytecode), o + Size(bytecode[o + 1]) <= Len(bytecode)
        PROVE  Cardinality(OpcodeAt(o)) = 1
    <3>1. PICK b, k : Has(branches, b, k) /\ branches[b].opcodes[k].pc = o
      BY <2>1, <2>3, ReadAll
    <3> DEFINE op == branches[b].opcodes[k]
    <3>2. op \in OpcodeAt(o)
      BY <3>1 DEF OpcodeAt, Has
    <3>3. ASSUME NEW x \in OpcodeAt(o) PROVE x = op
      <4>1. PICK d \in DOMAIN branches : \E l \in DOMAIN branches[d].opcodes :
               x = branches[d].opcodes[l] /\ x.pc = o
        BY DEF OpcodeAt
      <4>2. PICK l \in DOMAIN branches[d].opcodes : x = branches[d].opcodes[l] /\ x.pc = o
        BY <4>1
      <4>3. b = d /\ k = l
        BY <2>1, <3>1, <4>2 DEF Read, OpcodesAreRead, Has
      <4> QED  BY <4>2, <4>3
    <3> HIDE DEF op
    <3>4. OpcodeAt(o) = {op}
      BY <3>2, <3>3
    <3> QED  BY <3>4, FS_Singleton
  <2> QED  BY <2>2, <2>3
<1> QED  BY <1>1, ReadInductive, PTL

-----------------------------------------------------------------------------
(* The parser uses the builder and the code generator as their             *)
(* specifications allow: IRCodegen's theorems hold of every bytecode.      *)

(* IRFunction leaves its inputs to constants; these are the parser's.      *)
ParserInputs ==
    /\ {a[2] : a \in AluBytes} \subseteq AluOps
    /\ HighOpcodes \subseteq HighOps
    /\ 1 .. 16 \subseteq Depths
    /\ (0 .. 32) \X Words \subseteq Pushes

IsValue(data, m, v) ==
    v = [n \in 0 .. m |-> IF n = 0 THEN 0 ELSE 256 * v[n - 1] + data[n]]

LEMMA ValueExists ==
  ASSUME NEW data, NEW len \in Nat, \A n \in 1 .. len : data[n] \in Nat
  PROVE  \A m \in Nat : m <= len =>
            \E v : IsValue(data, m, v) /\ \A n \in 0 .. m : v[n] \in Nat
<1> DEFINE S == {m \in Nat : m <= len =>
                    \E v : IsValue(data, m, v) /\ \A n \in 0 .. m : v[n] \in Nat}
<1>1. 0 \in S
  <2> DEFINE w == [n \in 0 .. 0 |-> 0]
  <2>1. IsValue(data, 0, w) /\ \A n \in 0 .. 0 : w[n] \in Nat
    BY DEF IsValue
  <2> QED  BY <2>1
<1>2. ASSUME NEW m \in S PROVE m + 1 \in S
  <2> SUFFICES ASSUME m + 1 <= len
               PROVE  \E v : IsValue(data, m + 1, v) /\ \A n \in 0 .. m + 1 : v[n] \in Nat
    OBVIOUS
  <2>1. PICK v : IsValue(data, m, v) /\ \A n \in 0 .. m : v[n] \in Nat
    BY <1>2
  <2> DEFINE w == [n \in 0 .. m + 1 |-> IF n = m + 1 THEN 256 * v[m] + data[m + 1] ELSE v[n]]
  <2>2. w[m + 1] = 256 * v[m] + data[m + 1] /\ \A n \in 0 .. m : w[n] = v[n]
    OBVIOUS
  <2>3. \A n \in 0 .. m + 1 : n = m + 1 \/ n \in 0 .. m
    OBVIOUS
  <2>4. \A n \in 0 .. m + 1 : w[n] \in Nat
    <3>1. v[m] \in Nat /\ data[m + 1] \in Nat
      BY <2>1
    <3>2. w[m + 1] \in Nat
      BY <2>2, <3>1
    <3> HIDE DEF w
    <3> QED  BY <2>1, <2>2, <2>3, <3>2
  <2>5. \A n \in 0 .. m + 1 : w[n] = IF n = 0 THEN 0 ELSE 256 * w[n - 1] + data[n]
    <3>1. \A n \in 0 .. m : v[n] = IF n = 0 THEN 0 ELSE 256 * v[n - 1] + data[n]
      BY <2>1 DEF IsValue
    <3>2. \A n \in 0 .. m : n # 0 => n - 1 \in 0 .. m
      OBVIOUS
    <3>3. m \in 0 .. m /\ m + 1 - 1 = m /\ m + 1 # 0
      OBVIOUS
    <3> HIDE DEF w
    <3>4. ASSUME NEW n \in 0 .. m + 1
          PROVE  w[n] = IF n = 0 THEN 0 ELSE 256 * w[n - 1] + data[n]
      <4>1. CASE n = m + 1
        BY <2>2, <3>3, <4>1
      <4>2. CASE n \in 0 .. m
        BY <2>2, <3>1, <3>2, <4>2
      <4> QED  BY <2>3, <4>1, <4>2
    <3> QED  BY <3>4
  <2>6. w = [n \in 0 .. m + 1 |-> w[n]]
    OBVIOUS
  <2> HIDE DEF w
  <2>7. IsValue(data, m + 1, w)
    BY <2>5, <2>6, Zenon DEF IsValue
  <2> QED  BY <2>4, <2>7
<1>3. S \in SUBSET Nat
  OBVIOUS
<1> HIDE DEF S
<1>4. \A m \in Nat : m \in S
  BY <1>1, <1>2, <1>3, Induct
<1> QED  BY <1>4 DEF S

(* The value of any data is a word.                                        *)
LEMMA ImmediateIsWord ==
  ASSUME NEW data, Len(data) \in Nat, \A n \in 1 .. Len(data) : data[n] \in Nat
  PROVE  Immediate(data) \in Words
<1> DEFINE len == Len(data)
           u == CHOOSE v : IsValue(data, len, v)
<1>1. PICK v : IsValue(data, len, v)
  <2>1. len \in Nat /\ len <= len /\ \A n \in 1 .. len : data[n] \in Nat
    OBVIOUS
  <2> HIDE DEF len
  <2> QED  BY <2>1, ValueExists
<1>2. IsValue(data, len, u)
  BY <1>1
<1>3. Immediate(data) = u[len] % WordLimit
  BY Zenon DEF Immediate, IsValue
<1> HIDE DEF u, len
<1>4. len \in Nat /\ \A n \in 1 .. len : data[n] \in Nat
  BY DEF len
<1> DEFINE S == {m \in Nat : m <= len => u[m] \in Nat}
<1>5. \A n \in 0 .. len : u[n] = IF n = 0 THEN 0 ELSE 256 * u[n - 1] + data[n]
  BY <1>2, Zenon DEF IsValue
<1>6. 0 \in S
  BY <1>4, <1>5
<1>7. ASSUME NEW m \in S PROVE m + 1 \in S
  <2> SUFFICES ASSUME m + 1 <= len PROVE u[m + 1] \in Nat
    OBVIOUS
  <2>1. m + 1 \in 0 .. len /\ m + 1 # 0 /\ m + 1 - 1 = m /\ m + 1 \in 1 .. len
    BY <1>4
  <2>2. u[m] \in Nat
    BY <1>4, <1>7
  <2>3. u[m + 1] = 256 * u[m] + data[m + 1]
    BY <1>5, <2>1
  <2> QED  BY <1>4, <2>1, <2>2, <2>3
<1>8. S \in SUBSET Nat
  OBVIOUS
<1>9. u[len] \in Nat
  <2> HIDE DEF S
  <2>1. len \in S
    BY <1>4, <1>6, <1>7, <1>8, Induct
  <2> QED  BY <2>1 DEF S
<1>10. WordLimit \in Nat \ {0}
  BY LimitsAssumption
<1>11. \A x, y : (x \in Nat /\ y \in Nat \ {0}) => x % y \in 0 .. y - 1
  OBVIOUS
<1> QED  BY <1>3, <1>9, <1>10, <1>11 DEF Words

LEMMA AppendIsNext ==
  ASSUME ParserInputs, bytecode \in Seq(0 .. 255), i \in Nat, i < Len(bytecode),
         AppendOpcode(bytecode[i + 1])
  PROVE  [Next]_vars
<1> DEFINE b == bytecode[i + 1]
<1>1. /\ b \in 0 .. 255 /\ Len(bytecode) \in Nat
      /\ Len(Rest) = Len(bytecode) - i - 1
      /\ \A n \in 1 .. Len(Rest) : Rest[n] = bytecode[i + 1 + n]
  BY Consumed
<1> HIDE DEF b
<1>2. \A n \in 0 .. 32, v \in Words : AppendPushN(n, v) => Next
  <2> SUFFICES ASSUME NEW n \in 0 .. 32, NEW v \in Words, AppendPushN(n, v) PROVE Next
    OBVIOUS
  <2>1. <<n, v>> \in Pushes
    BY DEF ParserInputs
  <2>2. <<n, v>>[1] = n /\ <<n, v>>[2] = v
    OBVIOUS
  <2> QED  BY <2>1, <2>2 DEF Next
<1>3. CASE \E a \in AluBytes : b = a[1] /\ AppendAlu(a[2])
  BY <1>3 DEF Next, ParserInputs
<1>4. CASE \E h \in HighOpcodes : b = h.op /\ AppendHighOpcode(h)
  BY <1>4 DEF Next, ParserInputs
<1>5. CASE AppendPushN(0, 0)
  <2>1. 0 \in 0 .. 32 /\ 0 \in Words
    BY LimitsAssumption DEF Words
  <2> QED  BY <1>2, <1>5, <2>1
<1>6. CASE b \in PushBytes /\ ~Truncated(b)
             /\ AppendPushN(PushSize(b), Immediate(SubSeq(Rest, 1, PushSize(b))))
  <2> DEFINE k == PushSize(b)
             data == SubSeq(Rest, 1, k)
  <2>1. k \in 1 .. 32
    BY <1>6 DEF PushSize, PushBytes
  <2>2. Rest \in Seq(0 .. 255)
    <3>1. i + 2 \in 1 .. Len(bytecode) + 1
      BY <1>1
    <3> QED  BY <3>1, SeqOf DEF Rest
  <2>3. Len(Rest) \in Nat /\ k <= Len(Rest)
    <3>1. Len(Rest) \in Nat /\ ~(Len(Rest) < k)
      BY <1>6, <2>2, SeqOf DEF Truncated
    <3> HIDE DEF k
    <3> QED  BY <2>1, <3>1
  <2> HIDE DEF k
  <2>4. Len(data) = k /\ \A n \in 1 .. k : data[n] = Rest[n]
    BY <2>1, <2>2, <2>3
  <2> HIDE DEF data
  <2>5. \A n \in 1 .. k : data[n] \in Nat
    <3>1. \A n \in 1 .. k : n \in 1 .. Len(Rest)
      BY <2>1, <2>3
    <3>2. \A n \in 1 .. k : Rest[n] \in 0 .. 255
      BY <2>2, <3>1, SeqOf
    <3>3. \A n \in 0 .. 255 : n \in Nat
      OBVIOUS
    <3> QED  BY <2>4, <3>2, <3>3
  <2>6. Immediate(data) \in Words
    <3>1. Len(data) \in Nat
      BY <2>1, <2>4
    <3> QED  BY <2>4, <2>5, <3>1, ImmediateIsWord
  <2>7. k \in 0 .. 32
    BY <2>1
  <2> QED  BY <1>2, <1>6, <2>6, <2>7 DEF k, data
<1>7. CASE b \in DupBytes /\ AppendDupN(b - 127)
  <2>1. b - 127 \in 1 .. 16
    BY <1>7 DEF DupBytes
  <2> QED  BY <1>7, <2>1 DEF Next, ParserInputs
<1>8. CASE b \in SwapBytes /\ AppendSwapN(b - 143)
  <2>1. b - 143 \in 1 .. 16
    BY <1>8 DEF SwapBytes
  <2> QED  BY <1>8, <2>1 DEF Next, ParserInputs
<1>9. CASE \/ AppendStop \/ AppendPop \/ AppendJump \/ AppendJumpI \/ AppendPc \/ AppendGas
           \/ AppendJumpDest \/ AppendInvalid
  BY <1>9 DEF Next
<1> QED  BY <1>3, <1>4, <1>5, <1>6, <1>7, <1>8, <1>9 DEF AppendOpcode, b

(* A parse followed by a rendering is a behaviour of the code generator.   *)
THEOREM ParserDrivesCodegen ==
  ASSUME ParserInputs
  PROVE  ParseSpec => GenSpec
<1>1. ParseInit => GenInit
  BY DEF ParseInit
<1>2. ReadInv /\ [ParseNext]_parsevars => [GenNext]_allvars
  <2> SUFFICES ASSUME ReadInv, [ParseNext]_parsevars PROVE [GenNext]_allvars
    OBVIOUS
  <2>1. CASE ParseOpcode
    <3>1. /\ phase = "build" /\ ~err /\ i < Len(bytecode) /\ bytecode \in Codes
          /\ AppendOpcode(bytecode[i + 1]) /\ UNCHANGED genvars
      BY <2>1 DEF ParseOpcode, ReadInv
    <3>2. i \in Nat
      BY <3>1, CodeIsBytes DEF ReadInv, Read, Position
    <3>3. [Next]_vars
      BY <3>1, <3>2, CodeIsBytes, AppendIsNext
    <3> QED  BY <3>1, <3>3 DEF GenNext, Build, allvars
  <2>2. CASE AddFunction
    BY <2>2 DEF AddFunction, GenNext
  <2>3. CASE Render
    BY <2>3 DEF Render, GenNext
  <2>4. CASE UNCHANGED parsevars
    BY <2>4 DEF parsevars
  <2> QED  BY <2>1, <2>2, <2>3, <2>4 DEF ParseNext
<1> QED  BY <1>1, <1>2, ReadInductive, PTL DEF ParseSpec, GenSpec

(* Whatever the bytecode: no AppendXxx call fails, and the text written    *)
(* charges the gas once, batches the checks exactly, notices every         *)
(* overflow and gives every jump its label, as far as the properties of    *)
(* IRCodegen say.                                                          *)
THEOREM ParsedCodeIsSound ==
  ASSUME ParserInputs
  PROVE  ParseSpec => [](NoNilSource /\ BatchExact /\ OverflowsCaught /\ ChargedOnce
                           /\ TargetsLabelled)
<1>1. GenInv => NoNilSource
  BY DEF GenInv, Built, IndInv
<1> QED  BY <1>1, ParserDrivesCodegen, GenInductive, BatchingIsExact, OverflowsAreCaught,
            GasIsChargedOnce, JumpsFindLabels, PTL

-----------------------------------------------------------------------------
(* The opcodes are the instructions, one behind the other.                 *)

(* Where the code behind opcode k of branch b starts.                      *)
NextPc(b, k) == IF k < Len(branches[b].opcodes) THEN branches[b].opcodes[k + 1].pc
                ELSE IF b < Len(branches) THEN branches[b + 1].pc ELSE pccount

Told ==
    /\ \A b, k : Has(branches, b, k) =>
          LET op == branches[b].opcodes[k] IN
          Means(op, bytecode) /\ NextPc(b, k) = op.pc + Size(bytecode[op.pc + 1])
    /\ \A b \in DOMAIN branches :
          /\ branches[b].opcodes[1].pc = branches[b].pc
          /\ branches[b].opcodes[1].name = "jumpdest" <=> ~(b = 1 /\ noinitjump)
    /\ branches # <<>> => branches[1].pc = 0
    /\ branches = <<>> => pccount = 0 /\ ~noinitjump

LEMMA TellOne ==
  ASSUME Sequences, Told, NEW op, Added(op), op.pc = pccount, Means(op, bytecode),
         pccount' = pccount + Size(bytecode[pccount + 1]), bytecode' = bytecode
  PROVE  Told'
<1> DEFINE len == Len(branches)
           old == IF len = Len(branches') THEN branches[len].opcodes ELSE <<>>
<1>0. PICK n : n = Len(branches')
  OBVIOUS
<1>1. /\ len \in Nat /\ DOMAIN branches = 1 .. len
      /\ n \in Nat /\ n >= 1 /\ DOMAIN branches' = 1 .. n
      /\ len = n \/ len = n - 1
  BY <1>0, SeqFacts DEF Added, Sequences
<1>2. IsSeq(<<>>) /\ Len(<<>>) = 0 /\ Append(<<>>, op) = <<op>>
  BY DEF IsSeq
<1>3. IsSeq(old) /\ (len = n => old # <<>>) /\ (len # n => old = <<>>)
      /\ (len = n => old = branches[n].opcodes)
  <2>1. CASE len = n
    <3>1. n \in DOMAIN branches /\ old = branches[n].opcodes
      BY <1>0, <1>1, <2>1
    <3> QED  BY <2>1, <3>1 DEF Sequences, IsBuilt
  <2>2. CASE len # n
    BY <1>0, <1>2, <2>2
  <2> QED  BY <2>1, <2>2
<1>4. branches'[n].opcodes = Append(old, op)
  BY <1>0, <1>2 DEF Added
<1> HIDE DEF old
<1>5. PICK m : m = Len(old) + 1
  OBVIOUS
<1>6. /\ Len(old) \in Nat /\ m = Len(old) + 1 /\ Len(branches'[n].opcodes) = m
      /\ branches'[n].opcodes[m] = op
      /\ \A k \in 1 .. m - 1 : branches'[n].opcodes[k] = old[k]
      /\ DOMAIN branches'[n].opcodes = 1 .. m /\ DOMAIN old = 1 .. m - 1
      /\ (len = n => m > 1)
  <2>1. /\ IsSeq(Append(old, op)) /\ Len(Append(old, op)) = Len(old) + 1
        /\ Append(old, op)[Len(old) + 1] = op
        /\ \A k \in DOMAIN old : Append(old, op)[k] = old[k]
    BY <1>3, SeqAppend
  <2>2. Len(old) \in Nat /\ DOMAIN old = 1 .. Len(old) /\ (old # <<>> => Len(old) >= 1)
    BY <1>3, SeqFacts
  <2>3. DOMAIN Append(old, op) = 1 .. Len(old) + 1
    BY <2>1, SeqFacts
  <2>4. m - 1 = Len(old)
    BY <1>5, <2>2
  <2> QED  BY <1>3, <1>4, <1>5, <2>1, <2>2, <2>3, <2>4
<1>7. \A b \in 1 .. n - 1 : b \in DOMAIN branches /\ branches'[b] = branches[b] /\ b < n
  <2>1. \A b \in 1 .. n - 1 : b \in DOMAIN branches /\ b < n
    <3> HIDE DEF len
    <3> QED  BY <1>1
  <2> QED  BY <1>0, <2>1 DEF Added
<1>8. len # n => branches'[n].pc = pccount /\ (n # 1 => op.name = "jumpdest")
                 /\ (op.name # "jumpdest" => n = 1 /\ noinitjump')
                 /\ (op.name = "jumpdest" => (noinitjump' <=> noinitjump))
  <2>1. len = 0 => branches = <<>>
    BY DEF Sequences, IsSeq
  <2>2. n = 1 /\ len # n => len = 0
    BY <1>1
  <2> QED  BY <1>0, <2>1, <2>2 DEF Added, Told
<1>9. len = n => branches'[n].pc = branches[n].pc /\ n \in DOMAIN branches
                 /\ (noinitjump' <=> noinitjump) /\ n \in 1 .. len
  BY <1>0, <1>1 DEF Added
<1>10. branches # <<>> => len >= 1
  BY SeqFacts DEF Sequences
<1>11. /\ \A b \in 1 .. n - 1 : b + 1 \in 1 .. n - 1 \/ (b + 1 = n /\ b = len) \/ (b + 1 = n /\ len = n)
       /\ \A b \in 1 .. n - 1 : b < len \/ (b = len /\ b + 1 = n)
       /\ \A b \in 1 .. n : b \in 1 .. n - 1 \/ b = n
  <2> HIDE DEF len
  <2> QED  BY <1>1
<1> HIDE DEF len
<1>12. ASSUME NEW b \in 1 .. n - 1, NEW k, k \in DOMAIN branches[b].opcodes
       PROVE  NextPc(b, k)' = NextPc(b, k)
  <2>1. branches'[b] = branches[b] /\ b < n /\ (b < len \/ (b = len /\ b + 1 = n))
    BY <1>7, <1>11
  <2>2. CASE k < Len(branches[b].opcodes)
    BY <2>1, <2>2 DEF NextPc
  <2>3. CASE ~(k < Len(branches[b].opcodes)) /\ b < len
    <3>1. NextPc(b, k)' = branches'[b + 1].pc /\ NextPc(b, k) = branches[b + 1].pc
      BY <1>0, <2>1, <2>3 DEF NextPc, len
    <3>2. b + 1 \in 1 .. n - 1 \/ (b + 1 = n /\ len = n)
      BY <1>1, <1>11, <2>3
    <3> QED  BY <1>7, <1>9, <3>1, <3>2
  <2>4. CASE ~(k < Len(branches[b].opcodes)) /\ b = len /\ b + 1 = n /\ ~(b < len)
    <3>1. NextPc(b, k)' = branches'[b + 1].pc /\ NextPc(b, k) = pccount
      BY <1>0, <2>1, <2>4 DEF NextPc, len
    <3>2. len # n
      BY <1>1, <2>4
    <3> QED  BY <1>8, <2>4, <3>1, <3>2
  <2> QED  BY <2>1, <2>2, <2>3, <2>4
<1>13. ASSUME len = n, NEW k \in 1 .. m - 1
       PROVE  NextPc(n, k)' = NextPc(n, k)
  <2>1. Len(branches[n].opcodes) = m - 1 /\ k < m /\ (k < m - 1 \/ k = m - 1)
        /\ Len(branches'[n].opcodes) = m
    <3>1. Len(branches[n].opcodes) = m - 1 /\ Len(branches'[n].opcodes) = m
      BY <1>3, <1>6, <1>13
    <3>2. m \in Int
      BY <1>6
    <3>3. k < m /\ (k < m - 1 \/ k = m - 1)
      BY <3>2
    <3> QED  BY <3>1, <3>3
  <2>2. CASE k < m - 1
    <3>1. NextPc(n, k)' = branches'[n].opcodes[k + 1].pc /\ NextPc(n, k) = branches[n].opcodes[k + 1].pc
      BY <2>1, <2>2 DEF NextPc
    <3>2. k + 1 \in 1 .. m - 1
      BY <1>6, <2>2
    <3> QED  BY <1>3, <1>6, <1>13, <3>1, <3>2
  <2>3. CASE k = m - 1
    <3>1. k + 1 = m /\ ~(k < m - 1) /\ ~(n < len)
      BY <1>1, <1>6, <1>13, <2>3
    <3>2. NextPc(n, k)' = branches'[n].opcodes[m].pc /\ NextPc(n, k) = pccount
      BY <2>1, <3>1 DEF NextPc, len
    <3> QED  BY <1>6, <3>2
  <2> QED  BY <2>1, <2>2, <2>3
<1>14. NextPc(n, m)' = pccount'
  <2>1. ~(m < m) /\ ~(n < n)
    BY <1>1, <1>6
  <2> QED  BY <1>0, <1>6, <2>1 DEF NextPc
<1>15. ASSUME NEW b, NEW k, Has(branches', b, k)
       PROVE  /\ Means(branches'[b].opcodes[k], bytecode')
              /\ NextPc(b, k)' = branches'[b].opcodes[k].pc
                                   + Size(bytecode'[branches'[b].opcodes[k].pc + 1])
  <2>1. b \in 1 .. n - 1 \/ b = n
    BY <1>1, <1>11, <1>15 DEF Has
  <2>2. CASE b \in 1 .. n - 1
    <3>1. Has(branches, b, k) /\ branches'[b] = branches[b]
      BY <1>7, <1>15, <2>2 DEF Has
    <3>2. NextPc(b, k)' = NextPc(b, k)
      BY <1>12, <2>2, <3>1 DEF Has
    <3> QED  BY <3>1, <3>2 DEF Told
  <2>3. CASE b = n
    <3>1. k \in 1 .. m - 1 \/ k = m
      BY <1>6, <1>15, <2>3 DEF Has
    <3>2. CASE k = m
      BY <1>6, <1>14, <2>3, <3>2
    <3>3. CASE k \in 1 .. m - 1
      <4>1. len = n
        BY <1>2, <1>3, <1>6, <3>3
      <4>2. Has(branches, b, k) /\ branches'[b].opcodes[k] = branches[b].opcodes[k]
        BY <1>3, <1>6, <1>9, <2>3, <3>3, <4>1 DEF Has
      <4>3. NextPc(b, k)' = NextPc(b, k)
        BY <1>13, <2>3, <3>3, <4>1
      <4> QED  BY <4>2, <4>3 DEF Told
    <3> QED  BY <3>1, <3>2, <3>3
  <2> QED  BY <2>1, <2>2, <2>3
<1>16. ASSUME NEW b \in DOMAIN branches'
       PROVE  /\ branches'[b].opcodes[1].pc = branches'[b].pc
              /\ branches'[b].opcodes[1].name = "jumpdest" <=> ~(b = 1 /\ noinitjump')
  <2>1. b \in 1 .. n - 1 \/ b = n
    BY <1>1, <1>11
  <2>2. CASE b \in 1 .. n - 1
    <3>1. b \in DOMAIN branches /\ branches'[b] = branches[b]
      BY <1>7, <2>2
    <3>2. noinitjump' <=> noinitjump
      <4>1. n # 1
        BY <1>1, <2>2
      <4> QED  BY <1>8, <1>9, <4>1
    <3> QED  BY <3>1, <3>2 DEF Told
  <2>3. CASE b = n /\ len = n
    <3>1. 1 \in 1 .. m - 1 /\ b \in DOMAIN branches
      BY <1>6, <1>9, <2>3
    <3>2. branches'[b].opcodes[1] = branches[b].opcodes[1]
      BY <1>3, <1>6, <2>3, <3>1
    <3> QED  BY <1>9, <2>3, <3>1, <3>2 DEF Told
  <2>4. CASE b = n /\ len # n
    <3>1. m = 1 /\ branches'[b].opcodes[1] = op /\ branches'[b].pc = pccount
      BY <1>2, <1>3, <1>6, <1>8, <2>4
    <3>2. op.name = "jumpdest" /\ n = 1 => ~noinitjump'
      <4>1. n = 1 => branches = <<>>
        BY <1>1, <1>10, <2>4
      <4> QED  BY <1>8, <2>4, <4>1 DEF Told
    <3> QED  BY <1>8, <2>4, <3>1, <3>2
  <2> QED  BY <2>1, <2>2, <2>3, <2>4
<1>17. branches' # <<>> /\ branches'[1].pc = 0
  <2>1. CASE 1 \in 1 .. n - 1
    <3>1. branches # <<>> /\ branches'[1] = branches[1]
      BY <1>7, <2>1
    <3> QED  BY <1>1, <2>1, <3>1 DEF Told
  <2>2. CASE n = 1 /\ len = n
    <3>1. branches # <<>>
      BY <1>9, <2>2
    <3> QED  BY <1>1, <1>9, <2>2, <3>1 DEF Told
  <2>3. CASE n = 1 /\ len # n
    <3>1. branches = <<>>
      BY <1>1, <1>10, <2>3
    <3> QED  BY <1>1, <1>8, <2>3, <3>1 DEF Told
  <2> QED  BY <1>1, <2>1, <2>2, <2>3
<1> QED  BY <1>15, <1>16, <1>17 DEF Told

LEMMA SeqIs ==
  ASSUME NEW S, NEW s \in Seq(S)
  PROVE  IsSeq(s) /\ DOMAIN s = 1 .. Len(s)
<1>1. s \in [1 .. Len(s) -> S] /\ Len(s) \in Nat
  OBVIOUS
<1>2. DOMAIN s = 1 .. Len(s) /\ \A n \in 1 .. Len(s) : s[n] \in {s[k] : k \in DOMAIN s}
  BY <1>1
<1>3. s \in Seq({s[k] : k \in DOMAIN s})
  BY <1>2
<1> QED  BY <1>2, <1>3 DEF IsSeq

(* Marking opcodes leaves them the instructions they are.                  *)
LEMMA ToldKept ==
  ASSUME Read, Told, Kept(branches, branches'),
         UNCHANGED <<pccount, noinitjump, bytecode, i>>
  PROVE  Read' /\ Told'
<1>1. /\ pccount' = pccount /\ (noinitjump' <=> noinitjump) /\ bytecode' = bytecode /\ i' = i
      /\ DOMAIN branches' = DOMAIN branches /\ Len(branches') = Len(branches)
      /\ branches' \in Seq({branches'[b] : b \in DOMAIN branches'})
  BY DEF Kept
<1>2. ASSUME NEW b \in DOMAIN branches
      PROVE  /\ branches'[b].pc = branches[b].pc /\ IsBuilt(branches'[b])
             /\ DOMAIN branches'[b].opcodes = DOMAIN branches[b].opcodes
             /\ Len(branches'[b].opcodes) = Len(branches[b].opcodes)
             /\ 1 \in DOMAIN branches[b].opcodes
             /\ \A k \in DOMAIN branches[b].opcodes :
                   SameOp(branches[b].opcodes[k], branches'[b].opcodes[k])
  <2>1. KeptBranch(branches[b], branches'[b]) /\ IsBuilt(branches[b])
    BY DEF Kept, Read
  <2>2. /\ SameOps(branches[b].opcodes, branches'[b].opcodes)
        /\ branches'[b].pc = branches[b].pc /\ Branch(branches'[b])
    BY <2>1 DEF KeptBranch
  <2>3. /\ branches'[b].opcodes \in Seq(Opcode) /\ Len(branches[b].opcodes) \in Nat
        /\ Len(branches'[b].opcodes) = Len(branches[b].opcodes)
        /\ DOMAIN branches'[b].opcodes = DOMAIN branches[b].opcodes
        /\ DOMAIN branches[b].opcodes = 1 .. Len(branches[b].opcodes)
        /\ \A k \in DOMAIN branches[b].opcodes :
                   SameOp(branches[b].opcodes[k], branches'[b].opcodes[k])
    BY <2>2 DEF SameOps
  <2>4. Len(branches[b].opcodes) >= 1
    BY <2>1, SeqFacts DEF IsBuilt
  <2>5. branches'[b].opcodes # <<>> /\ 1 \in DOMAIN branches[b].opcodes
    BY <2>3, <2>4
  <2>6. Shaped(branches'[b])
    BY <2>2 DEF Branch, IsBranch, Shaped
  <2> QED  BY <2>2, <2>3, <2>5, <2>6, SeqIs DEF IsBuilt
<1>3. \A b, k : Has(branches', b, k) <=> Has(branches, b, k)
  BY <1>1, <1>2 DEF Has
<1>4. \A b, k : Has(branches, b, k) =>
         LET op == branches[b].opcodes[k]
             oq == branches'[b].opcodes[k]
         IN  /\ oq.pc = op.pc /\ oq.name = op.name /\ oq.arg = op.arg /\ Form(oq) = Form(op)
             /\ branches'[b].pc = branches[b].pc
  BY <1>2 DEF Has, SameOp, Form
<1>5. \A b, k : Has(branches, b, k) => NextPc(b, k)' = NextPc(b, k)
  <2> TAKE b, k
  <2> HAVE Has(branches, b, k)
  <2>0. b \in DOMAIN branches /\ k \in DOMAIN branches[b].opcodes
    BY DEF Has
  <2>1. DOMAIN branches = 1 .. Len(branches) /\ Len(branches) \in Nat
        /\ DOMAIN branches[b].opcodes = 1 .. Len(branches[b].opcodes)
        /\ Len(branches[b].opcodes) \in Nat
    BY <2>0, SeqFacts DEF Read, IsBuilt
  <2>2. CASE k < Len(branches[b].opcodes)
    <3>1. k + 1 \in DOMAIN branches[b].opcodes
      BY <2>0, <2>1, <2>2
    <3>2. branches'[b].opcodes[k + 1].pc = branches[b].opcodes[k + 1].pc
      BY <2>0, <3>1, <1>4 DEF Has
    <3> QED  BY <1>2, <2>0, <2>2, <3>2 DEF NextPc
  <2>3. CASE ~(k < Len(branches[b].opcodes)) /\ b < Len(branches)
    <3>1. b + 1 \in DOMAIN branches
      BY <2>0, <2>1, <2>3
    <3>2. branches'[b + 1].pc = branches[b + 1].pc
      BY <3>1, <1>2
    <3> QED  BY <1>1, <1>2, <2>0, <2>3, <3>2 DEF NextPc
  <2>4. CASE ~(k < Len(branches[b].opcodes)) /\ ~(b < Len(branches))
    BY <1>1, <1>2, <2>0, <2>4 DEF NextPc
  <2> QED  BY <2>2, <2>3, <2>4
<1>6. Read'
  <2>1. IsSeq(branches') /\ \A b \in DOMAIN branches' : IsBuilt(branches'[b])
    BY <1>1, <1>2 DEF IsSeq
  <2>2. Position'
    BY <1>1 DEF Read, Position
  <2>3. ASSUME NEW b, NEW k, Has(branches, b, k)
        PROVE  LET op == branches'[b].opcodes[k] IN
               /\ op.pc \in Starts(bytecode) /\ op.pc < pccount
               /\ Reads(op, bytecode)
               /\ op.name = "jumpdest" => k = 1 /\ branches'[b].pc = op.pc
    BY <1>4, <2>3 DEF Read, OpcodesAreRead, Reads
  <2>4. \A b, k, d, m :
          (Has(branches', b, k) /\ Has(branches', d, m)
             /\ branches'[b].opcodes[k].pc = branches'[d].opcodes[m].pc) => b = d /\ k = m
    <3>1. \A b, k, d, m :
          (Has(branches, b, k) /\ Has(branches, d, m)
             /\ branches[b].opcodes[k].pc = branches[d].opcodes[m].pc) => b = d /\ k = m
      BY DEF Read, OpcodesAreRead
    <3> QED  BY <1>3, <1>4, <3>1
  <2>5. \A o \in Starts(bytecode) : o < pccount =>
          \E b, k : Has(branches', b, k) /\ branches'[b].opcodes[k].pc = o
    <3>1. \A o \in Starts(bytecode) : o < pccount =>
            \E b, k : Has(branches, b, k) /\ branches[b].opcodes[k].pc = o
      BY DEF Read, OpcodesAreRead
    <3> QED  BY <1>3, <1>4, <3>1
  <2>6. OpcodesAreRead'
    BY <1>1, <1>3, <2>3, <2>4, <2>5 DEF OpcodesAreRead
  <2> QED  BY <2>1, <2>2, <2>6 DEF Read
<1>7. ASSUME NEW b, NEW k, Has(branches', b, k)
      PROVE  /\ Means(branches'[b].opcodes[k], bytecode')
             /\ NextPc(b, k)' = branches'[b].opcodes[k].pc
                                  + Size(bytecode'[branches'[b].opcodes[k].pc + 1])
  <2>1. Has(branches, b, k)
    BY <1>3, <1>7
  <2>2. /\ Means(branches[b].opcodes[k], bytecode)
        /\ NextPc(b, k) = branches[b].opcodes[k].pc + Size(bytecode[branches[b].opcodes[k].pc + 1])
    BY <2>1 DEF Told
  <2> QED  BY <1>1, <1>4, <1>5, <2>1, <2>2 DEF Means
<1>8. ASSUME NEW b \in DOMAIN branches'
      PROVE  /\ branches'[b].opcodes[1].pc = branches'[b].pc
             /\ branches'[b].opcodes[1].name = "jumpdest" <=> ~(b = 1 /\ noinitjump')
  <2>1. b \in DOMAIN branches /\ Has(branches, b, 1)
    BY <1>1, <1>2 DEF Has
  <2> QED  BY <1>1, <1>4, <2>1 DEF Told
<1>9. /\ branches' # <<>> => branches # <<>> /\ branches'[1].pc = 0
      /\ branches' = <<>> => pccount' = 0 /\ ~noinitjump'
  <2>1. branches = <<>> <=> branches' = <<>>
    BY <1>1 DEF Read, IsSeq
  <2>2. branches # <<>> => 1 \in DOMAIN branches
    BY SeqFacts DEF Read
  <2> QED  BY <1>1, <1>2, <2>1, <2>2 DEF Told
<1> QED  BY <1>6, <1>7, <1>8, <1>9 DEF Told

Faithful ==
    /\ bytecode \in Codes /\ Read /\ Told
    /\ phase # "build" => i >= Len(bytecode)

LEMMA FaithfulStart == ParseInit => Faithful
<1> SUFFICES ASSUME ParseInit PROVE Faithful
  OBVIOUS
<1>1. branches = <<>> /\ pccount = 0 /\ ~noinitjump /\ phase = "build" /\ ~err
  BY DEF ParseInit, GenInit, Init
<1>2. ReadInv
  BY ReadStart
<1> QED  BY <1>1, <1>2 DEF Faithful, ReadInv, Told, Has

LEMMA FaithfulNext ==
  ASSUME GenInv, Faithful, [ParseNext]_parsevars
  PROVE  Faithful'
<1>1. CASE ParseOpcode
  <2>1. /\ phase = "build" /\ bytecode' = bytecode /\ phase' = phase /\ i < Len(bytecode)
        /\ AppendOpcode(bytecode[i + 1]) /\ i' = i + Used(bytecode[i + 1])
    BY <1>1 DEF ParseOpcode, genvars
  <2>2. bytecode \in Seq(0 .. 255) /\ bytecode \in Codes
    BY CodeIsBytes DEF Faithful
  <2>3. Read'
    BY <2>1, <2>2, ReadStep DEF Faithful
  <2>4. Sequences /\ pccount = i /\ i \in Nat /\ Told
    BY <2>1, <2>2 DEF Faithful, Read, Position, Sequences
  <2>5. Told'
    <3>1. CASE UNCHANGED vars
      <4>1. branches' = branches /\ pccount' = pccount /\ noinitjump' = noinitjump
        BY <3>1 DEF vars
      <4> QED  BY <2>1, <2>4, <4>1 DEF Told, Has, NextPc, Means
    <3>2. CASE /\ pccount' = pccount + Size(bytecode[i + 1])
               /\ \E op : Added(op) /\ op.pc = pccount /\ Means(op, bytecode)
      <4>1. PICK op : Added(op) /\ op.pc = pccount /\ Means(op, bytecode)
        BY <3>2
      <4> QED  BY <2>1, <2>4, <3>2, <4>1, TellOne
    <3> QED  BY <2>1, <2>2, <2>4, <3>1, <3>2, OpcodeAdded
  <2> QED  BY <2>1, <2>2, <2>3, <2>5 DEF Faithful
<1>2. CASE AddFunction \/ UNCHANGED parsevars
  <2>1. /\ branches' = branches /\ pccount' = pccount /\ noinitjump' = noinitjump
        /\ bytecode' = bytecode /\ i' = i
        /\ phase' = phase \/ i >= Len(bytecode)
    BY <1>2 DEF AddFunction, Generate, parsevars, allvars, vars, genvars
  <2>2. Told'
    BY <2>1 DEF Faithful, Told, Has, NextPc, Means
  <2>3. Read' <=> Read
    BY <2>1 DEF Read, IsSeq, IsBuilt, Shaped, Position, OpcodesAreRead, Has, Reads
  <2> QED  BY <2>1, <2>2, <2>3 DEF Faithful
<1>3. CASE Render
  <2>1. bytecode' = bytecode /\ i' = i /\ (Walk(at[1], at[2]) \/ Finish)
    BY <1>3 DEF Render
  <2>2. phase # "build" /\ phase' # "build" /\ GenNext
    BY <2>1 DEF Walk, Finish, SkipDeadBranch, OpenBranch, CloseBranch, SkipUnnecessary,
                EmitOpcode, Emitting, GenNext
  <2>3. Kept(branches, branches') /\ UNCHANGED <<pccount, noinitjump>>
    BY <2>2, WalkKeeps
  <2>4. Read' /\ Told'
    BY <2>1, <2>3, ToldKept DEF Faithful
  <2> QED  BY <2>1, <2>2, <2>4 DEF Faithful
<1> QED  BY <1>1, <1>2, <1>3 DEF ParseNext

LEMMA StaysFaithful ==
  ASSUME ParserInputs
  PROVE  ParseSpec => []Faithful
<1>1. ParseSpec => GenSpec
  BY ParserDrivesCodegen
<1>2. GenInv /\ Faithful /\ [ParseNext]_parsevars => Faithful'
  BY FaithfulNext
<1> QED  BY <1>1, <1>2, FaithfulStart, GenInductive, PTL DEF ParseSpec

(* Opcodes are instructions: whatever the bytecode, and before, during and *)
(* after rendering, every opcode has the operation, the operand counts,    *)
(* the gas and the immediate of the instruction at its pc, and the opcode, *)
(* branch or end behind it is where that instruction ends.                 *)
THEOREM OpcodesAreInstructions ==
  ASSUME ParserInputs
  PROVE  ParseSpec => []Told
<1>1. Faithful => Told
  BY DEF Faithful
<1> QED  BY <1>1, StaysFaithful, PTL

-----------------------------------------------------------------------------
(* A jump whose target is not a constant is remembered.                    *)
DynamicKnown ==
    \A b, k : Has(branches, b, k) =>
       (branches[b].opcodes[k].name \in {"jump", "jumpi"} =>
          branches[b].opcodes[k].isStaticJump \/ hasdynjumps)

LEMMA AddedOnce ==
  ASSUME Sequences, NEW p, Added(p), NEW q, Added(q)
  PROVE  p = q
<1> DEFINE n == Len(branches')
<1>1. CASE Len(branches) = n
  <2>1. n \in DOMAIN branches
    <3>1. DOMAIN branches = 1 .. Len(branches) /\ Len(branches) \in Nat /\ n >= 1
      BY SeqFacts DEF Sequences, Added
    <3> QED  BY <1>1, <3>1
  <2>2. Append(branches[n].opcodes, p) = Append(branches[n].opcodes, q)
    BY <1>1 DEF Added
  <2>3. IsSeq(branches[n].opcodes)
    BY <2>1 DEF Sequences, IsBuilt
  <2> QED  BY <2>2, <2>3, SeqAppend
<1>2. CASE Len(branches) # n
  <2>1. <<p>> = <<q>>
    BY <1>2 DEF Added
  <2> QED  BY <2>1
<1> QED  BY <1>1, <1>2

LEMMA JumpKnown ==
  ASSUME Sequences, NEW name, name # "jumpdest", NEW in, NEW gas, AppendJumpOp(name, in, gas)
  PROVE  \E op : Added(op) /\ (op.isStaticJump \/ hasdynjumps')
<1> DEFINE new == NewOpcode(Cur, name, 0, in, 0, gas)
           br  == AfterOpcode(Cur, in, 0)
           dst == new.stackRefs[1]
           pc  == IF IsConst(dst) THEN JumpPc(dst[2]) ELSE 0
           sts == StackStore(br)
           op  == [new EXCEPT !.stackStore = sts, !.breakGasGroup = TRUE,
                              !.isStaticJump = IsConst(dst), !.staticJumpPc = pc]
<1>1. Append1(Opened, br, op, 1) /\ hasdynjumps' = (hasdynjumps \/ ~IsConst(dst))
  BY DEF AppendJumpOp
<1>2. new.name = name /\ {"name", "isStaticJump"} \subseteq DOMAIN new
  BY DEF NewOpcode
<1>3. SameShape(br, Cur)
  BY CurShape
<1> HIDE DEF new, br, pc, sts, dst
<1>4. op.name = name /\ op.isStaticJump = IsConst(dst)
  BY <1>2
<1> HIDE DEF op
<1>5. Added(op)
  BY <1>1, <1>3, <1>4, AppendAdds
<1>6. op.isStaticJump \/ hasdynjumps'
  BY <1>1, <1>4
<1> QED  BY <1>5, <1>6

LEMMA DynamicStays ==
  ASSUME NEW b, AppendOpcode(b)
  PROVE  hasdynjumps => hasdynjumps'
BY DEF AppendOpcode, AppendStop, AppendExit, AppendAlu, AppendHighOpcode, AppendPop, AppendJump,
   AppendJumpI, AppendJumpOp, AppendPc, AppendGas, AppendJumpDest, AppendPushN, AppendDupN,
   AppendSwapN, AppendInvalid, vars

(* What an opcode that stands for byte b looks like, part by part.          *)
Shows(op, b, v) ==
    LET Is(name, arg, in, out, gas, exits) ==
            /\ op.name = name /\ op.arg = arg /\ op.in = in /\ op.out = out
            /\ op.gas = gas /\ op.isExitOpcode = exits
    IN  \/ b = 0 /\ Is("stop", 0, 0, 0, 0, TRUE)
        \/ \E a \in AluBytes : b = a[1] /\ Is(a[2], 0, AluIn(a[2]), 1, AluGas(a[2]), FALSE)
        \/ \E h \in HighOpcodes : b = h.op /\ Is("call", h.op, h.in, h.out, h.gas, h.stop)
        \/ b = 80 /\ Is("pop", 0, 1, 0, 2, FALSE)
        \/ b = 86 /\ Is("jump", 0, 1, 0, 8, FALSE)
        \/ b = 87 /\ Is("jumpi", 0, 2, 0, 10, FALSE)
        \/ b = 88 /\ Is("pc", 0, 0, 1, 2, FALSE)
        \/ b = 90 /\ Is("gas", 0, 0, 1, 2, FALSE)
        \/ b = 91 /\ Is("jumpdest", 0, 0, 0, 1, FALSE)
        \/ b = 95 /\ Is("push", 0, 0, 1, 2, FALSE)
        \/ b \in PushBytes /\ Is("push", v, 0, 1, 3, FALSE)
        \/ b \in DupBytes /\ Is("dup", b - 127, 0, 1, 3, FALSE)
        \/ b \in SwapBytes /\ Is("swap", b - 143, 1, 1, 3, FALSE)
        \/ b \notin KnownBytes /\ Is("invalid", 0, 0, 0, 0, TRUE)

LEMMA Shown ==
  ASSUME NEW op, NEW b, NEW v, Denotes(Form(op), b, v)
  PROVE  Shows(op, b, v)
<1> DEFINE f == Form(op)
           Is(name, arg, in, out, gas, exits) ==
             /\ op.name = name /\ op.arg = arg /\ op.in = in /\ op.out = out
             /\ op.gas = gas /\ op.isExitOpcode = exits
<1>1. \A name, arg, in, out, gas, exits :
         f = <<name, arg, in, out, gas, exits>> => Is(name, arg, in, out, gas, exits)
  BY DEF Form
<1>0. Denotes(f, b, v)
  OBVIOUS
<1> HIDE DEF f, Is
<1>2. CASE b = 0 /\ f = <<"stop", 0, 0, 0, 0, TRUE>>
  <2>1. Is("stop", 0, 0, 0, 0, TRUE)
    BY <1>1, <1>2
  <2> QED  BY <2>1, <1>2, Zenon DEF Shows, Is
<1>3. CASE b = 80 /\ f = <<"pop", 0, 1, 0, 2, FALSE>>
  <2>1. Is("pop", 0, 1, 0, 2, FALSE)
    BY <1>1, <1>3
  <2> QED  BY <2>1, <1>3, Zenon DEF Shows, Is
<1>4. CASE b = 86 /\ f = <<"jump", 0, 1, 0, 8, FALSE>>
  <2>1. Is("jump", 0, 1, 0, 8, FALSE)
    BY <1>1, <1>4
  <2> QED  BY <2>1, <1>4, Zenon DEF Shows, Is
<1>5. CASE b = 87 /\ f = <<"jumpi", 0, 2, 0, 10, FALSE>>
  <2>1. Is("jumpi", 0, 2, 0, 10, FALSE)
    BY <1>1, <1>5
  <2> QED  BY <2>1, <1>5, Zenon DEF Shows, Is
<1>6. CASE b = 88 /\ f = <<"pc", 0, 0, 1, 2, FALSE>>
  <2>1. Is("pc", 0, 0, 1, 2, FALSE)
    BY <1>1, <1>6
  <2> QED  BY <2>1, <1>6, Zenon DEF Shows, Is
<1>7. CASE b = 90 /\ f = <<"gas", 0, 0, 1, 2, FALSE>>
  <2>1. Is("gas", 0, 0, 1, 2, FALSE)
    BY <1>1, <1>7
  <2> QED  BY <2>1, <1>7, Zenon DEF Shows, Is
<1>8. CASE b = 91 /\ f = <<"jumpdest", 0, 0, 0, 1, FALSE>>
  <2>1. Is("jumpdest", 0, 0, 0, 1, FALSE)
    BY <1>1, <1>8
  <2> QED  BY <2>1, <1>8, Zenon DEF Shows, Is
<1>9. CASE b = 95 /\ f = <<"push", 0, 0, 1, 2, FALSE>>
  <2>1. Is("push", 0, 0, 1, 2, FALSE)
    BY <1>1, <1>9
  <2> QED  BY <2>1, <1>9, Zenon DEF Shows, Is
<1>10. CASE b \in PushBytes /\ f = <<"push", v, 0, 1, 3, FALSE>>
  <2>1. Is("push", v, 0, 1, 3, FALSE)
    BY <1>1, <1>10, Zenon
  <2> QED  BY <2>1, <1>10, Zenon DEF Shows, Is
<1>11. CASE b \in DupBytes /\ f = <<"dup", b - 127, 0, 1, 3, FALSE>>
  <2>1. Is("dup", b - 127, 0, 1, 3, FALSE)
    BY <1>1, <1>11
  <2> QED  BY <2>1, <1>11, Zenon DEF Shows, Is
<1>12. CASE b \in SwapBytes /\ f = <<"swap", b - 143, 1, 1, 3, FALSE>>
  <2>1. Is("swap", b - 143, 1, 1, 3, FALSE)
    BY <1>1, <1>12, Zenon
  <2> QED  BY <2>1, <1>12, Zenon DEF Shows, Is
<1>13. CASE b \notin KnownBytes /\ f = <<"invalid", 0, 0, 0, 0, TRUE>>
  <2>1. Is("invalid", 0, 0, 0, 0, TRUE)
    BY <1>1, <1>13
  <2> QED  BY <2>1, <1>13, Zenon DEF Shows, Is
<1>14. ASSUME NEW a \in AluBytes, b = a[1], f = <<a[2], 0, AluIn(a[2]), 1, AluGas(a[2]), FALSE>>
      PROVE  Shows(op, b, v)
  <2>1. Is(a[2], 0, AluIn(a[2]), 1, AluGas(a[2]), FALSE)
    BY <1>1, <1>14, Zenon
  <2> QED  BY <2>1, <1>14, Zenon DEF Shows, Is
<1>15. ASSUME NEW h \in HighOpcodes, b = h.op, f = <<"call", h.op, h.in, h.out, h.gas, h.stop>>
      PROVE  Shows(op, b, v)
  <2>1. Is("call", h.op, h.in, h.out, h.gas, h.stop)
    BY <1>1, <1>15, Zenon
  <2>2. \E h2 \in HighOpcodes : b = h2.op /\ Is("call", h2.op, h2.in, h2.out, h2.gas, h2.stop)
    BY <2>1, <1>15, Zenon
  <2> QED  BY ONLY <2>2, Zenon DEF Shows, Is
<1> QED
  BY <1>0, <1>2, <1>3, <1>4, <1>5, <1>6, <1>7, <1>8, <1>9,
     <1>10, <1>11, <1>12, <1>13, <1>14, <1>15, Zenon DEF Denotes

LEMMA JumpBytes ==
  ASSUME NEW op, NEW b, NEW v, Shows(op, b, v), op.name \in {"jump", "jumpi"}
  PROVE  b = 86 \/ b = 87
<1>1. \A a \in AluBytes : a[2] # "jump" /\ a[2] # "jumpi"
  BY DEF AluBytes
<1> QED  BY <1>1 DEF Shows

LEMMA DynamicAdded ==
  ASSUME Sequences, bytecode \in Seq(0 .. 255), i \in Nat, i < Len(bytecode), pccount = i,
         AppendOpcode(bytecode[i + 1]), NEW op, Added(op), op.pc = pccount, Means(op, bytecode)
  PROVE  op.name \in {"jump", "jumpi"} => op.isStaticJump \/ hasdynjumps'
<1> SUFFICES ASSUME op.name \in {"jump", "jumpi"} PROVE op.isStaticJump \/ hasdynjumps'
  OBVIOUS
<1> DEFINE b == bytecode[i + 1]
<1>0. PICK v : v = Immediate(DataAt(bytecode, i))
  OBVIOUS
<1>3. b = 86 \/ b = 87
  BY <1>0, Shown, JumpBytes DEF Means
<1> HIDE DEF b
<1>4. b \notin {0, 80, 88, 90, 91, 95} /\ b \notin PushBytes /\ b \notin DupBytes
      /\ b \notin SwapBytes /\ b \in KnownBytes
      /\ (\A a \in AluBytes : b # a[1]) /\ (\A h \in HighOpcodes : b # h.op)
  <2>0. PICK x : x = b
    OBVIOUS
  <2>1. x = 86 \/ x = 87
    BY ONLY <1>3, <2>0
  <2>2. x \notin {0, 80, 88, 90, 91, 95} /\ x \notin PushBytes /\ x \notin DupBytes
        /\ x \notin SwapBytes /\ x \in KnownBytes
    BY ONLY <2>1 DEF PushBytes, DupBytes, SwapBytes, KnownBytes
  <2>3. \A a \in AluBytes : 86 # a[1] /\ 87 # a[1]
    BY ONLY TRUE DEF AluBytes
  <2>4. \A s \in HighShapes : 86 \notin s[1] /\ 87 \notin s[1]
    BY ONLY TRUE DEF HighShapes
  <2>5. \A h \in HighOpcodes : 86 # h.op /\ 87 # h.op
    BY <2>4 DEF HighOpcodes
  <2> QED  BY ONLY <2>0, <2>1, <2>2, <2>3, <2>5
<1>5. ~Truncated(b)
  BY <1>4 DEF Truncated
<1>6. AppendJump \/ AppendJumpI
  BY <1>4, <1>5 DEF AppendOpcode, b
<1>7. \E p : Added(p) /\ (p.isStaticJump \/ hasdynjumps')
  <2>1. AppendJump => AppendJumpOp("jump", 1, 8)
    BY DEF AppendJump
  <2>2. AppendJumpI => AppendJumpOp("jumpi", 2, 10)
    BY DEF AppendJumpI
  <2> QED  BY <1>6, <2>1, <2>2, JumpKnown
<1> QED  BY <1>7, AddedOnce

LEMMA DynamicNext ==
  ASSUME GenInv, Faithful, DynamicKnown, [ParseNext]_parsevars
  PROVE  DynamicKnown'
<1>1. CASE ParseOpcode
  <2>1. /\ phase = "build" /\ bytecode' = bytecode /\ phase' = phase /\ i < Len(bytecode)
        /\ AppendOpcode(bytecode[i + 1])
    BY <1>1 DEF ParseOpcode, genvars
  <2>2. bytecode \in Seq(0 .. 255) /\ bytecode \in Codes
    BY CodeIsBytes DEF Faithful
  <2>3. Sequences /\ pccount = i /\ i \in Nat
    BY <2>1, <2>2 DEF Faithful, Read, Position, Sequences
  <2>4. CASE UNCHANGED vars
    <3>1. branches' = branches /\ hasdynjumps' = hasdynjumps
      BY <2>4 DEF vars
    <3> QED  BY <3>1 DEF DynamicKnown, Has
  <2>5. CASE \E op : Added(op) /\ op.pc = pccount /\ Means(op, bytecode)
    <3>1. PICK op : Added(op) /\ op.pc = pccount /\ Means(op, bytecode)
      BY <2>5
    <3>2. op.name \in {"jump", "jumpi"} => op.isStaticJump \/ hasdynjumps'
      BY <2>1, <2>2, <2>3, <3>1, DynamicAdded
    <3>3. PICK n, m :
              /\ ~Has(branches, n, m) /\ branches'[n].opcodes[m] = op
              /\ \A b, k : Has(branches', b, k) <=> (Has(branches, b, k) \/ (b = n /\ k = m))
              /\ \A b, k : Has(branches, b, k) =>
                    branches'[b].opcodes[k] = branches[b].opcodes[k]
      BY <2>3, <3>1, AddedFacts
    <3>4. hasdynjumps => hasdynjumps'
      BY <2>1, DynamicStays
    <3> QED  BY <3>2, <3>3, <3>4 DEF DynamicKnown
  <2> QED  BY <2>1, <2>2, <2>3, <2>4, <2>5, OpcodeAdded
<1>2. CASE AddFunction \/ UNCHANGED parsevars
  <2>1. branches' = branches /\ hasdynjumps' = hasdynjumps
    BY <1>2 DEF AddFunction, Generate, parsevars, allvars, vars, genvars
  <2> QED  BY <2>1 DEF DynamicKnown, Has
<1>3. CASE Render
  <2>1. bytecode' = bytecode /\ i' = i /\ (Walk(at[1], at[2]) \/ Finish)
    BY <1>3 DEF Render
  <2>2. phase # "build" /\ GenNext
    BY <2>1 DEF Walk, Finish, SkipDeadBranch, OpenBranch, CloseBranch, SkipUnnecessary,
                EmitOpcode, Emitting, GenNext
  <2>3. Kept(branches, branches') /\ UNCHANGED hasdynjumps
    BY <2>2, WalkKeeps
  <2>4. \A b, k : Has(branches', b, k) =>
           Has(branches, b, k) /\ SameOp(branches[b].opcodes[k], branches'[b].opcodes[k])
    <3> TAKE b, k
    <3> HAVE Has(branches', b, k)
    <3>1. b \in DOMAIN branches /\ KeptBranch(branches[b], branches'[b])
      BY <2>3 DEF Has, Kept
    <3>2. SameOps(branches[b].opcodes, branches'[b].opcodes)
      BY <3>1 DEF KeptBranch
    <3>3. k \in DOMAIN branches[b].opcodes
      BY <3>2 DEF Has, SameOps
    <3> QED  BY <3>1, <3>2, <3>3 DEF Has, SameOps
  <2> QED  BY <2>3, <2>4 DEF DynamicKnown, SameOp
<1> QED  BY <1>1, <1>2, <1>3 DEF ParseNext

LEMMA StaysDynamic ==
  ASSUME ParserInputs
  PROVE  ParseSpec => []DynamicKnown
<1>1. ParseSpec => GenSpec
  BY ParserDrivesCodegen
<1>2. GenInv /\ Faithful /\ DynamicKnown /\ [ParseNext]_parsevars => DynamicKnown'
  BY DynamicNext
<1>3. ParseInit => DynamicKnown
  BY DEF ParseInit, GenInit, Init, DynamicKnown, Has
<1> QED  BY <1>1, <1>2, <1>3, StaysFaithful, GenInductive, PTL DEF ParseSpec

=============================================================================
