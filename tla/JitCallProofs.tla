---------------------------- MODULE JitCallProofs ----------------------------
(***************************************************************************)
(* A compiled function implements the EVM: proofs about JitCall.           *)
(*                                                                         *)
(* The refinement mapping puts a stack back together that is half in       *)
(* memory and half in registers, and gas that was taken in advance.  The   *)
(* proof has an invariant of a call (JitInv), what the mapping shows at    *)
(* each kind of position (BarsXxx), and one lemma for every action,        *)
(* StepXxx: it is a step of Evm, or one the mapping does not see.  Fine is *)
(* what the builder, the parser and the code generator have been proved to *)
(* leave behind.                                                           *)
(***************************************************************************)
EXTENDS JitBlockProofs

-----------------------------------------------------------------------------
(* The invariant of a call.                                                *)
RunInv ==
    /\ Covered
    /\ blk \in 1 .. Len(code) + 1
    /\ sp \in 0 .. StackSize /\ gasleft \in 0 .. CountLimit - 1 /\ gasleft \in Words
    /\ ctxpc \in 0 .. Len(bytecode)
    /\ blk \in DOMAIN code =>
         /\ next \in 1 .. Len(Ops(blk)) + 1
         /\ Arrives(Ops(blk), next) /\ \A k \in 1 .. next - 1 : Ops(blk)[k].name # "jump"
         /\ Holds(CacheAt(branches[code[blk].branch], next), regs)
         /\ Sized(blk, next, sp)

JitInv ==
    /\ mem \in Memory /\ blk \in Nat /\ returned \in BOOLEAN
    /\ phase # "done" => blk = 0
    /\ ~returned => exitcode = 0
    /\ blk = 0 => ~returned /\ gasleft = 0 /\ ctxpc = 0
    /\ Alive => RunInv

(* The parser and the code generator are done with.                        *)
LEMMA ParsedStays ==
  ASSUME UNCHANGED parsevars
  PROVE  /\ branches' = branches /\ code' = code /\ phase' = phase /\ bytecode' = bytecode
         /\ pccount' = pccount /\ hasdynjumps' = hasdynjumps /\ noinitjump' = noinitjump
  BY DEF parsevars, allvars, vars, genvars

(* The refinement mapping, in front of opcode next + 1 of the block ...    *)
LEMMA BarsNext ==
  ASSUME Fine, Running, blk \in DOMAIN code, NEW ops, ops = Ops(blk),
         NEW b, b = code[blk].branch, NEW n, n = next, n \in 1 .. Len(ops),
         UNCHANGED parsevars, blk' = blk, next' = n + 1, returned' = returned,
         Arrives(ops, n + 1)
  PROVE  /\ StackBar' = Stk(mem', sp', CacheAt(branches[b], n + 1), regs')
         /\ PcBar' = NextPc(b, n)
         /\ GasBar' = gasleft' + PrepaidAt(blk, n + 1)
         /\ StatusBar' = "running"
<1>1. /\ branches' = branches /\ code' = code /\ phase' = phase /\ bytecode' = bytecode
      /\ pccount' = pccount
  BY ParsedStays
<1>2. /\ b \in DOMAIN branches /\ ops = branches[b].opcodes
      /\ Len(ops) \in Nat \ {0} /\ DOMAIN ops = 1 .. Len(ops)
      /\ (\A k \in DOMAIN ops : ~ops[k].isExitOpcode) => code[blk].store = StackStore(branches[b])
  BY BlockFacts DEF Running
<1>3. phase = "done" /\ ~returned /\ blk # 0 /\ blk > 0
  <2>1. DOMAIN code = 1 .. Len(code)
    BY DEF Fine, GenInv, Blocks
  <2> QED BY <2>1 DEF Running
<1>4. /\ Ops(blk)' = ops /\ Running' /\ Alive' /\ Inside'
  BY <1>1, <1>2, <1>3 DEF Ops, BlockBranch, Running, Alive, Inside
<1>5. Cached' = CacheAt(branches[b], n + 1)
  <2>1. CASE n + 1 <= Len(ops)
    <3>1. n + 1 \in DOMAIN ops
      BY <2>1, <1>2
    <3> QED BY <2>1, <3>1, <1>1, <1>2, <1>4 DEF Cached, CacheAt
  <2>2. CASE ~(n + 1 <= Len(ops))
    <3>1. n + 1 \notin DOMAIN ops /\ n = Len(ops)
      BY <2>2, <1>2
    <3>2. \A k \in DOMAIN ops : ~ops[k].isExitOpcode
      <4>1. \A k \in 1 .. n + 1 - 1 : ~ops[k].isExitOpcode
        BY DEF Arrives
      <4>2. n + 1 - 1 = n
        BY <1>2
      <4> QED BY <4>1, <4>2, <3>1, <1>2
    <3> QED BY <2>2, <3>1, <3>2, <1>1, <1>2, <1>4 DEF Cached, CacheAt
  <2> QED BY <2>1, <2>2
<1>6. StackBar' = Stk(mem', sp', CacheAt(branches[b], n + 1), regs')
  <2>1. StackBar' = Stk(mem', sp', Cached', regs')
    BY <1>4 DEF StackBar, Stk
  <2> QED BY <2>1, <1>5
<1>7. PcBar' = NextPc(b, n)
  <2>1. CASE n < Len(ops)
    <3>1. n + 1 \in DOMAIN ops
      BY <2>1, <1>2
    <3>2. Within'
      BY <3>1, <1>4 DEF Within, Inside
    <3> QED BY <2>1, <3>2, <1>2, <1>4 DEF PcBar, NextPc
  <2>2. CASE ~(n < Len(ops))
    <3>1. n + 1 \notin DOMAIN ops
      BY <2>2, <1>2
    <3>2. ~Within'
      BY <3>1, <1>4 DEF Within
    <3> QED BY <2>2, <3>2, <1>1, <1>2, <1>4 DEF PcBar, NextPc
  <2> QED BY <2>1, <2>2
<1>8. GasBar' = gasleft' + PrepaidAt(blk, n + 1)
  <2>1. OpenUnits' = OpenAt(blk, n + 1)
    BY <1>1 DEF OpenUnits, OpenAt, UnitsOf
  <2>2. Prepaid' = PrepaidAt(blk, n + 1)
    BY <2>1, <1>4 DEF Prepaid, PrepaidAt
  <2> QED BY <2>2 DEF GasBar
<1>9. StatusBar' = "running"
  BY <1>3, <1>4 DEF StatusBar, Running
<1> QED
  BY <1>6, <1>7, <1>8, <1>9

LEMMA BarsHere ==
  ASSUME Fine, Within, NEW ops, ops = Ops(blk), NEW n, n = next
  PROVE  /\ StackBar = Stk(mem, sp, ops[n].cache, regs)
         /\ PcBar = ops[n].pc /\ GasBar = gasleft + PrepaidAt(blk, n)
         /\ StatusBar = "running"
<1>1. /\ phase = "done" /\ ~returned /\ blk # 0 /\ blk > 0 /\ blk \in DOMAIN code
      /\ n \in DOMAIN ops
  <2>1. DOMAIN code = 1 .. Len(code)
    BY DEF Fine, GenInv, Blocks
  <2> QED BY <2>1 DEF Within, Running
<1>2. Running /\ Alive /\ Inside
  BY <1>1 DEF Running, Alive, Inside
<1>3. Cached = ops[n].cache
  BY <1>1, <1>2 DEF Cached
<1>4. StackBar = Stk(mem, sp, ops[n].cache, regs)
  BY <1>2, <1>3 DEF StackBar, Stk
<1>5. PcBar = ops[n].pc
  BY <1>2 DEF PcBar
<1>6. GasBar = gasleft + PrepaidAt(blk, n)
  <2>1. OpenUnits = OpenAt(blk, n)
    BY DEF OpenUnits, OpenAt
  <2>2. Prepaid = PrepaidAt(blk, n)
    BY <2>1, <1>2 DEF Prepaid, PrepaidAt
  <2> QED BY <2>2 DEF GasBar
<1>7. StatusBar = "running"
  BY <1>1 DEF StatusBar
<1> QED
  BY <1>4, <1>5, <1>6, <1>7

(* ... in front of a block, ...                                            *)
EntryPc(j) == IF j \in DOMAIN code THEN code[j].pc ELSE pccount

LEMMA BarsEnter ==
  ASSUME Fine, Running, UNCHANGED parsevars, NEW j \in 1 .. Len(code) + 1,
         blk' = j, next' = 1, regs' = <<>>, returned' = returned
  PROVE  /\ StackBar' = Stk(mem', sp', <<>>, <<>>)
         /\ PcBar' = EntryPc(j)
         /\ GasBar' = gasleft' + 0
         /\ StatusBar' = "running" /\ Alive'
<1>1. /\ branches' = branches /\ code' = code /\ phase' = phase /\ bytecode' = bytecode
      /\ pccount' = pccount
  BY ParsedStays
<1>2. DOMAIN code = 1 .. Len(code) /\ Len(code) \in Nat
  <2>1. code \in Seq({code[k] : k \in DOMAIN code})
    BY DEF Fine, GenInv, Blocks
  <2> QED BY <2>1
<1>3. phase = "done" /\ ~returned /\ j # 0 /\ j > 0
  BY DEF Running
<1>4. Running' /\ Alive'
  BY <1>1, <1>3 DEF Running, Alive
<1>5. StatusBar' = "running"
  BY <1>3, <1>4 DEF StatusBar, Running
<1>6. CASE j \in DOMAIN code
  <2>0. PICK b, ops : b = code[j].branch /\ ops = Ops(j)
    OBVIOUS
  <2>1. /\ b \in DOMAIN branches /\ ops = branches[b].opcodes
        /\ Len(ops) \in Nat \ {0} /\ DOMAIN ops = 1 .. Len(ops)
        /\ code[j].pc = branches[b].pc /\ ops[1].pc = branches[b].pc
        /\ Flowing(branches[b])
    BY <1>3, <1>6, <2>0, BlockFacts
  <2>2. Inside' /\ Ops(blk)' = ops
    BY <1>1, <1>4, <1>6, <2>0 DEF Inside, Ops, BlockBranch
  <2>3. 1 \in DOMAIN ops /\ Within'
    <3>1. 1 \in DOMAIN ops
      BY <2>1
    <3> QED BY <3>1, <1>1, <1>4, <1>6, <2>2 DEF Within
  <2>4. Cached' = ops[1].cache
    BY <2>2, <2>3 DEF Cached
  <2>5. ops[1].cache = <<>>
    BY <2>1 DEF Flowing, CacheAt
  <2>6. StackBar' = Stk(mem', sp', <<>>, <<>>)
    <3>1. StackBar' = Stk(mem', sp', Cached', regs')
      BY <1>4 DEF StackBar, Stk
    <3> QED BY <2>4, <2>5, <3>1
  <2>7. PcBar' = EntryPc(j)
    BY <1>4, <1>6, <2>1, <2>2, <2>3 DEF PcBar, EntryPc
  <2>8. GasBar' = gasleft' + 0
    <3>1. OpenUnits' = OpenAt(j, 1)
      BY <1>1 DEF OpenUnits, OpenAt, UnitsOf
    <3>2. Prepaid' = 0
      BY <1>3, <1>6, <3>1, <2>2, NoneOpen DEF Prepaid
    <3> QED BY <3>2 DEF GasBar
  <2> QED BY <1>4, <1>5, <2>6, <2>7, <2>8
<1>7. CASE j \notin DOMAIN code
  <2>1. ~Inside' /\ ~Within'
    BY <1>1, <1>7 DEF Inside, Within
  <2>2. Cached' = <<>> /\ Prepaid' = 0
    BY <2>1 DEF Cached, Prepaid
  <2>3. StackBar' = Stk(mem', sp', <<>>, <<>>)
    <3>1. StackBar' = Stk(mem', sp', Cached', regs')
      BY <1>4 DEF StackBar, Stk
    <3> QED BY <2>2, <3>1
  <2>4. PcBar' = EntryPc(j)
    BY <1>1, <1>4, <1>7, <2>1 DEF PcBar, EntryPc
  <2> QED BY <1>4, <1>5, <2>2, <2>3, <2>4 DEF GasBar
<1> QED
  BY <1>6, <1>7

(* ... and when the function has returned.                                 *)
LEMMA BarsReturn ==
  ASSUME returned'
  PROVE  /\ StackBar' = <<>> /\ PcBar' = 0 /\ GasBar' = gasleft' + 0 /\ StatusBar' = "exited"
         /\ ErrPcBar' = IF exitcode' = 0 THEN 0 ELSE ctxpc'
<1>1. ~Running' /\ ~Alive' /\ ~Inside'
  BY DEF Running, Alive, Inside
<1> QED
  BY <1>1 DEF StackBar, PcBar, GasBar, Prepaid, StatusBar, ErrPcBar

-----------------------------------------------------------------------------
(* The opcode at the current position.                                     *)
After1 == CacheAt(branches[code[blk].branch], next + 1)

LEMMA OpHere ==
  ASSUME Fine, RunInv, Within, NEW ops, ops = Ops(blk), NEW n, n = next,
         NEW b, b = code[blk].branch, NEW op, op = ops[n]
  PROVE  /\ Ready4Call /\ blk \in DOMAIN code /\ n \in 1 .. Len(ops) /\ Running
         /\ b \in DOMAIN branches /\ ops = branches[b].opcodes /\ Len(ops) \in Nat /\ Ready(ops)
         /\ DOMAIN ops = 1 .. Len(ops)
         /\ op \in Opcode /\ Says(op) /\ Evm!After(op.pc) = NextPc(b, n)
         /\ Arrives(ops, n) /\ Sized(blk, n, sp) /\ Holds(op.cache, regs)
         /\ Effect(op, After1) /\ After1 \in Seq(Ref)
         /\ \A k \in DOMAIN op.cache : Older(op.cache[k], op.id)
<1>1. Running /\ blk \in DOMAIN code /\ n \in DOMAIN ops /\ phase = "done"
  BY DEF Within, Running
<1>2. Ready4Call
  BY <1>1 DEF Ready4Call, RunInv
<1>3. /\ b \in DOMAIN branches /\ ops = branches[b].opcodes /\ Branch(branches[b])
      /\ ops \in Seq(Opcode) /\ Ready(ops) /\ Len(ops) \in Nat \ {0}
      /\ DOMAIN ops = 1 .. Len(ops) /\ Flowing(branches[b])
      /\ \A k \in 1 .. Len(ops) : Says(ops[k]) /\ Evm!After(ops[k].pc) = NextPc(b, k)
  BY <1>1, BlockFacts
<1>4. n \in 1 .. Len(ops) /\ op \in Opcode
  BY <1>1, <1>3
<1>5. /\ Arrives(ops, n) /\ Sized(blk, n, sp) /\ Holds(CacheAt(branches[b], n), regs)
  BY <1>1 DEF RunInv
<1>6. CacheAt(branches[b], n) = op.cache
  BY <1>3, <1>4 DEF CacheAt
<1>7. /\ Effect(op, CacheAt(branches[b], n + 1))
      /\ \A k \in DOMAIN op.cache : Older(op.cache[k], op.id)
  BY <1>3, <1>4 DEF Flowing
<1>8. CacheAt(branches[b], n + 1) \in Seq(Ref)
  <2>1. CASE n + 1 <= Len(ops)
    <3>1. n + 1 \in 1 .. Len(ops)
      BY <2>1, <1>4
    <3>2. ops[n + 1] \in Opcode
      BY <3>1, <1>3
    <3>3. CacheAt(branches[b], n + 1) = ops[n + 1].cache
      BY <2>1, <1>3 DEF CacheAt
    <3> QED BY <3>2, <3>3 DEF Opcode
  <2>2. CASE ~(n + 1 <= Len(ops))
    <3>1. StackStore(branches[b]) \in Seq(Ref)
      BY <1>3, StackStoreOK
    <3> QED BY <2>2, <3>1, <1>3 DEF CacheAt
  <2> QED BY <2>1, <2>2
<1>9. After1 = CacheAt(branches[b], n + 1)
  BY DEF After1
<1> QED
  BY <1>1, <1>2, <1>3, <1>4, <1>5, <1>6, <1>7, <1>8, <1>9

(* Control passes opcode op with left gas.                                 *)
Goes(op, left) ==
    /\ Stands(op, After1, mem, sp, regs)
    /\ Sized(blk, next + 1, sp - op.stackLoad)
    /\ left \in 0 .. CountLimit - 1 /\ left <= gasleft
    /\ PrepaidAt(blk, next + 1) \in Nat
    /\ GasBar - op.gas = left + PrepaidAt(blk, next + 1)
    /\ Evm!Trouble(Evm!At(PcBar), GasBar, Len(StackBar)) = 0
    /\ sp \in Nat /\ sp <= StackSize

LEMMA GoesIf ==
  ASSUME Fine, RunInv, mem \in Memory, Within, NEW ops, ops = Ops(blk), NEW n, n = next,
         NEW op, op = ops[n], NEW left \in 0 .. CountLimit - 1, left <= gasleft,
         gasleft + PrepaidAt(blk, n) = op.gas + left + PrepaidAt(blk, n + 1),
         Room(ops, n, n, sp),
         \A w \in OpenAt(blk, n + 1) : \A m \in n + 1 .. w.last : Room(ops, n, m, sp)
  PROVE  Goes(op, left)
<1>1. /\ Ready4Call /\ blk \in DOMAIN code /\ n \in 1 .. Len(ops)
      /\ op \in Opcode /\ Says(op)
      /\ Arrives(ops, n) /\ Sized(blk, n, sp) /\ Holds(op.cache, regs)
      /\ Effect(op, After1) /\ After1 \in Seq(Ref)
      /\ \A k \in DOMAIN op.cache : Older(op.cache[k], op.id)
  BY OpHere
<1>2. /\ StackBar = Stk(mem, sp, op.cache, regs)
      /\ PcBar = op.pc /\ GasBar = gasleft + PrepaidAt(blk, n)
  BY BarsHere
<1>3. PICK load, add, d, in, out, takes, g, gas, pre, pre1, H :
         /\ load = op.stackLoad /\ add = op.stackAddLoad /\ d = Len(op.cache)
         /\ in = op.in /\ out = op.out /\ takes = Takes(op) /\ g = gasleft /\ gas = op.gas
         /\ pre = PrepaidAt(blk, n) /\ pre1 = PrepaidAt(blk, n + 1) /\ H = Len(StackBar)
  OBVIOUS
<1>4. /\ Sized(blk, n + 1, sp - load) /\ load \in Nat /\ add \in Nat /\ load + add <= sp
      /\ takes <= sp + d /\ sp + d - in + out <= StackSize
  BY <1>1, <1>3, SizedStep
<1>5. pre \in Nat /\ pre1 \in Nat
  BY <1>1, <1>3, PrepaidStep
<1>6. /\ d \in Nat /\ in \in Nat /\ out \in Nat /\ gas \in Nat /\ op.arg \in Nat /\ Long(op.cache, d)
      /\ op.stackLoad = load
  <2>1. op.gas \in Nat
    BY <1>1 DEF Opcode
  <2> QED BY <2>1, <1>1, <1>3, OpcodeNumbers DEF Long
<1>7. takes \in Nat
  <2>1. takes = IF op.name = "dup" THEN op.arg ELSE IF op.name = "swap" THEN op.arg + 1 ELSE in
    BY <1>3 DEF Takes
  <2> QED BY <2>1, <1>6
<1>8. sp \in Nat /\ sp <= StackSize /\ g \in Nat /\ StackSize \in Nat /\ left \in Nat
  BY <1>3, CountAssumption DEF RunInv
<1>9. /\ \A a \in 0 .. sp - 1 : mem[a] \in Words
  <2>1. \A a \in 0 .. sp - 1 : a \in 0 .. StackSize - 1
    BY <1>8
  <2> QED BY <2>1 DEF Memory
<1>10. Stands(op, After1, mem, sp, regs)
  <2>1. op.stackLoad + op.stackAddLoad <= sp
    BY <1>3, <1>4
  <2> QED BY <2>1, <1>1, <1>8, <1>9 DEF Stands
<1>11. H = sp + d
  <2>1. Joined(StackBar, mem, sp, op.cache, d, regs)
    BY <1>2, <1>6, <1>8, StkIs
  <2> QED BY <2>1, <1>3 DEF Joined
<1>12. g + pre = gas + left + pre1
  BY <1>3
<1>13. GasBar = g + pre
  BY <1>2, <1>3
<1>14. GasBar - op.gas = left + pre1 /\ ~(GasBar < op.gas)
  <2>1. PICK G : G = GasBar
    OBVIOUS
  <2>2. G = g + pre /\ g + pre = gas + left + pre1
    BY <2>1, <1>12, <1>13
  <2>3. G - gas = left + pre1 /\ ~(G < gas)
    BY <2>2, <1>5, <1>6, <1>8
  <2> QED BY <2>1, <2>3, <1>3
<1>15. Evm!Trouble(Evm!At(PcBar), GasBar, Len(StackBar)) = 0
  <2>1. PICK c : c = Evm!At(PcBar)
    OBVIOUS
  <2>2. /\ c.gas = op.gas /\ c.in = takes /\ c.out = takes - in + out
    BY <2>1, <1>1, <1>2, <1>3 DEF Says, SaysAs
  <2>3. ~(H < c.in)
    BY <2>2, <1>4, <1>6, <1>7, <1>8, <1>11
  <2>4. ~(H - c.in + c.out > StackSize)
    <3>1. H - takes + (takes - in + out) = sp + d - in + out
      BY <1>6, <1>7, <1>8, <1>11
    <3>2. ~(H - takes + (takes - in + out) > StackSize)
      BY <3>1, <1>4, <1>6, <1>8
    <3> QED BY <2>2, <3>2
  <2>5. ~(GasBar < c.gas)
    BY <2>2, <1>14
  <2>6. Evm!Trouble(c, GasBar, H) = 0
    BY <2>3, <2>4, <2>5 DEF Evm!Trouble
  <2> QED BY <2>1, <2>6, <1>3
<1> QED
  BY <1>3, <1>4, <1>5, <1>8, <1>10, <1>14, <1>15 DEF Goes

LEMMA CoveredStays ==
  ASSUME UNCHANGED parsevars, Covered
  PROVE  Covered'
<1>1. /\ branches' = branches /\ code' = code /\ phase' = phase /\ bytecode' = bytecode
      /\ pccount' = pccount /\ hasdynjumps' = hasdynjumps /\ noinitjump' = noinitjump
  BY ParsedStays
<1>2. WellFormedIR'
  <2>1. JumpTable' = JumpTable
    BY <1>1 DEF JumpTable
  <2>2. \A pc : LabelsAt(pc)' = LabelsAt(pc)
    BY <1>1 DEF LabelsAt
  <2>3. Emitted' = Emitted
    BY <1>1 DEF Emitted
  <2>4. \A op : IsValidTarget(op)' <=> IsValidTarget(op)
    BY <1>1 DEF IsValidTarget, BranchesAt
  <2>5. Static' = Static
    BY <1>1, <2>3, <2>4 DEF Static
  <2> QED BY <1>1, <2>1, <2>2, <2>5 DEF Covered, WellFormedIR
<1>3. LiveBranchesKept'
  BY <1>1 DEF Covered, LiveBranchesKept, FallsThrough
<1>4. FoldedCharged'
  BY <1>1 DEF Covered, FoldedCharged, Reached, Charges, BlockBranch
<1>5. Groups' = Groups
  BY <1>1 DEF Groups
<1>6. \A u : BlockOps(u)' = BlockOps(u)
  BY <1>1 DEF BlockOps
<1>7. \A u : LoadedBefore(BlockOps(u), u.index)' = LoadedBefore(BlockOps(u), u.index)
  BY <1>6 DEF LoadedBefore
<1>8. \A b : UnitsOf(b)' = UnitsOf(b)
  BY <1>1 DEF UnitsOf
<1> QED
  BY <1>1, <1>2, <1>3, <1>4, <1>5, <1>7, <1>8 DEF Covered

(* What the invariant says of a position depends on the code alone.        *)
LEMMA CodeStays ==
  ASSUME UNCHANGED parsevars
  PROVE  /\ \A j : Ops(j)' = Ops(j)
         /\ \A j, n, p : Sized(j, n, p)' <=> Sized(j, n, p)
         /\ \A b, n : CacheAt(branches[b], n)' = CacheAt(branches[b], n)
<1>1. branches' = branches /\ code' = code
  BY ParsedStays
<1>2. \A j : Ops(j)' = Ops(j)
  BY <1>1 DEF Ops, BlockBranch
<1>3. \A j, n : OpenAt(j, n)' = OpenAt(j, n)
  BY <1>1 DEF OpenAt, UnitsOf
<1>4. \A b, n : CacheAt(branches[b], n)' = CacheAt(branches[b], n)
  BY <1>1 DEF CacheAt
<1>5. \A j, n, p : Sized(j, n, p)' <=> Sized(j, n, p)
  BY <1>1, <1>2, <1>3, <1>4 DEF Sized
<1> QED  BY <1>2, <1>4, <1>5

LEMMA InvNext ==
  ASSUME Fine, JitInv, RunInv, Within, NEW op, op = Ops(blk)[next], NEW left, Goes(op, left),
         ~op.isExitOpcode, op.name # "jump",
         UNCHANGED parsevars, blk' = blk, next' = next + 1, returned' = returned,
         exitcode' = exitcode, sp' = sp - op.stackLoad, gasleft' \in 0 .. left,
         Holds(After1, regs'), mem' \in Memory, ctxpc' \in 0 .. Len(bytecode)
  PROVE  JitInv' /\ RunInv'
<1>1. /\ branches' = branches /\ code' = code /\ phase' = phase /\ bytecode' = bytecode
  BY ParsedStays
<1>2. PICK ops, n, b, q : ops = Ops(blk) /\ n = next /\ b = code[blk].branch /\ q = sp - op.stackLoad
  OBVIOUS
<1>3. /\ blk \in DOMAIN code /\ n \in 1 .. Len(ops) /\ Running /\ Len(ops) \in Nat /\ Arrives(ops, n)
      /\ blk \in 1 .. Len(code) + 1
  BY <1>2, OpHere DEF RunInv
<1>4. Covered'
  BY CoveredStays DEF RunInv
<1>5. /\ Sized(blk, n + 1, q) /\ left \in 0 .. CountLimit - 1 /\ left <= gasleft
  BY <1>2 DEF Goes
<1>6. q \in 0 .. StackSize
  BY <1>5 DEF Sized
<1>7. gasleft' \in 0 .. CountLimit - 1 /\ gasleft' \in Words
  <2>1. gasleft \in 0 .. CountLimit - 1 /\ gasleft \in Words /\ CountLimit \in Nat
        /\ left \in Nat /\ gasleft' \in 0 .. left
    BY <1>5, CountAssumption DEF RunInv
  <2>2. \A g, h \in Nat : h <= g /\ g \in Words => h \in Words
    BY LimitsAssumption DEF Words
  <2>3. gasleft' \in Nat /\ gasleft \in Nat /\ gasleft' <= gasleft
    BY <2>1, <1>5
  <2> QED BY <2>1, <2>2, <2>3
<1>8. Ops(blk)' = ops
  BY <1>1, <1>2 DEF Ops, BlockBranch
<1>9. Arrives(ops, n + 1)
  <2>1. \A k \in 1 .. n + 1 - 1 : k \in 1 .. n - 1 \/ k = n
    BY <1>3
  <2> QED BY <2>1, <1>2, <1>3 DEF Arrives
<1>10. \A k \in 1 .. n + 1 - 1 : ops[k].name # "jump"
  <2>1. \A k \in 1 .. n + 1 - 1 : k \in 1 .. n - 1 \/ k = n
    BY <1>3
  <2>2. \A k \in 1 .. n - 1 : ops[k].name # "jump"
    BY <1>2, <1>3 DEF RunInv
  <2> QED BY <2>1, <2>2, <1>2
<1>11. Sized(blk, n + 1, q)'
  <2>1. PICK j : j = blk
    OBVIOUS
  <2>2. Sized(j, n + 1, q)'
    BY <2>1, <1>5, CodeStays
  <2> QED BY <2>1, <2>2
<1>12. Sized(blk, next, sp)'
  BY <1>2, <1>11
<1>13. Holds(CacheAt(branches[code[blk].branch], next), regs)'
  <2>1. CacheAt(branches[b], n + 1)' = CacheAt(branches[b], n + 1)
    BY CodeStays
  <2>2. CacheAt(branches[code[blk].branch], next)' = CacheAt(branches[b], n + 1)'
    BY <1>1, <1>2
  <2>3. CacheAt(branches[b], n + 1) = After1
    BY <1>2 DEF After1
  <2> QED BY <2>1, <2>2, <2>3
<1>14. n + 1 \in 1 .. Len(ops) + 1
  BY <1>3
<1>15. RunInv'
  BY <1>1, <1>2, <1>3, <1>4, <1>6, <1>7, <1>8, <1>9, <1>10, <1>12, <1>13, <1>14 DEF RunInv
<1>16. JitInv'
  BY <1>1, <1>3, <1>15 DEF JitInv, Running
<1> QED  BY <1>15, <1>16

LEMMA SizedFirst ==
  ASSUME Fine, phase = "done", NEW j \in DOMAIN code, NEW p \in 0 .. StackSize
  PROVE  Sized(j, 1, p)
<1>1. PICK b, ops : b = code[j].branch /\ ops = Ops(j)
  OBVIOUS
<1>2. /\ b \in DOMAIN branches /\ ops = branches[b].opcodes /\ Ready(ops)
      /\ Len(ops) \in Nat \ {0} /\ Flowing(branches[b])
  BY <1>1, BlockFacts
<1>3. CacheAt(branches[b], 1) = <<>> /\ Len(<<>>) = 0
  BY <1>2 DEF Flowing
<1>4. LoadedBefore(ops, 1) = 0
  <2>1. LoadedBefore(ops, 1) = Total(LoadOf(ops), 1, 0)
    BY DEF LoadedBefore
  <2>2. \A n \in 1 .. 0 : LoadOf(ops)[n] \in Nat
    OBVIOUS
  <2> QED BY <2>1, <2>2, TotalRec
<1>5. MaxBefore(ops, 1) = 0
  <2>1. MaxBefore(ops, 1) = 0 \/ \E m \in 1 .. 1 - 1 : MaxBefore(ops, 1) = ops[m].stackCheck
    <3>1. 1 \in Nat \ {0} /\ 1 <= Len(ops) + 1
      BY <1>2
    <3> QED BY <3>1, <1>2, MaxBeforeIs
  <2> QED BY <2>1
<1>6. OpenAt(j, 1) = {}
  BY NoneOpen
<1>7. p \in Nat /\ p <= StackSize
  BY CountAssumption
<1> QED
  BY <1>1, <1>3, <1>4, <1>5, <1>6, <1>7 DEF Sized

LEMMA InvEnter ==
  ASSUME JitInv, Fine, Running, Covered, UNCHANGED parsevars, NEW j \in 1 .. Len(code) + 1,
         blk' = j, next' = 1, regs' = <<>>, returned' = returned, exitcode' = exitcode,
         exitcode = 0, sp' \in 0 .. StackSize, gasleft' \in 0 .. CountLimit - 1, gasleft' \in Words,
         mem' \in Memory, ctxpc' \in 0 .. Len(bytecode)
  PROVE  JitInv'
<1>1. /\ branches' = branches /\ code' = code /\ phase' = phase /\ bytecode' = bytecode
  BY ParsedStays
<1>2. Covered'
  BY CoveredStays
<1>3. phase = "done" /\ ~returned
  BY DEF Running
<1>6. blk' \in Nat /\ blk' # 0
  OBVIOUS
<1>7. returned' = FALSE /\ exitcode' = 0
  BY <1>3 DEF JitInv
<1>4. CASE j \in DOMAIN code
  <2>1. PICK b, ops, p : b = code[j].branch /\ ops = Ops(j) /\ p = sp'
    OBVIOUS
  <2>2. Len(ops) \in Nat \ {0} /\ Flowing(branches[b])
    BY <1>3, <1>4, <2>1, BlockFacts
  <2>3. Sized(j, 1, p)
    BY <1>3, <1>4, <2>1, SizedFirst
  <2>4. Sized(blk, next, sp)'
    <3>1. Sized(j, 1, p)'
      BY <2>3, CodeStays
    <3> QED BY <3>1, <2>1
  <2>5. Holds(CacheAt(branches[code[blk].branch], next), regs)'
    <3>1. CacheAt(branches[b], 1)' = CacheAt(branches[b], 1)
      BY CodeStays
    <3>2. CacheAt(branches[b], 1) = <<>>
      BY <2>2 DEF Flowing
    <3>3. CacheAt(branches[code[blk].branch], next)' = CacheAt(branches[b], 1)'
      BY <1>1, <2>1
    <3> QED BY <3>1, <3>2, <3>3 DEF Holds
  <2>6. Ops(blk)' = ops
    BY <1>1, <2>1 DEF Ops, BlockBranch
  <2>7. 1 \in 1 .. Len(ops) + 1 /\ Arrives(ops, 1) /\ \A k \in 1 .. 1 - 1 : ops[k].name # "jump"
    BY <2>2 DEF Arrives
  <2>8. RunInv'
    BY <1>1, <1>2, <2>4, <2>5, <2>6, <2>7 DEF RunInv
  <2> QED BY <1>1, <1>3, <1>6, <1>7, <2>8 DEF JitInv
<1>5. CASE j \notin DOMAIN code
  <2>1. RunInv'
    BY <1>1, <1>2, <1>5 DEF RunInv
  <2> QED BY <1>1, <1>3, <1>6, <1>7, <2>1 DEF JitInv
<1> QED
  BY <1>4, <1>5

LEMMA InvReturn ==
  ASSUME JitInv, Running, UNCHANGED parsevars, blk # 0, blk' = blk, returned' = TRUE, mem' \in Memory
  PROVE  JitInv'
<1>1. phase' = phase
  BY ParsedStays
<1> QED
  BY <1>1 DEF JitInv, Running, Alive

-----------------------------------------------------------------------------
(* Control passes a folded opcode, which the run that is open has paid.    *)
LEMMA FoldedGoes ==
  ASSUME Fine, RunInv, mem \in Memory, Within, NEW op, op = Ops(blk)[next], op.isUnnecessary
  PROVE  Goes(op, gasleft)
<1>1. PICK ops, n, g : ops = Ops(blk) /\ n = next /\ g = gasleft
  OBVIOUS
<1>2. /\ Ready4Call /\ blk \in DOMAIN code /\ n \in 1 .. Len(ops) /\ Running
      /\ Arrives(ops, n) /\ Sized(blk, n, sp)
  BY <1>1, OpHere
<1>3. PICK pre, pre1, gas : pre = PrepaidAt(blk, n) /\ pre1 = PrepaidAt(blk, n + 1) /\ gas = op.gas
  OBVIOUS
<1>4. /\ OpenAt(blk, n) # {} /\ pre = gas + pre1 /\ OpenAt(blk, n + 1) \subseteq OpenAt(blk, n)
      /\ pre \in Nat /\ pre1 \in Nat
  BY <1>1, <1>2, <1>3, PrepaidStep
<1>5. op.gas \in Nat
  BY <1>1, OpHere DEF Opcode
<1>6. g \in 0 .. CountLimit - 1 /\ g \in Nat /\ g <= g
  BY <1>1, CountAssumption DEF RunInv
<1>7. \A u \in OpenAt(blk, n) : \A m \in n .. u.last : Room(ops, n, m, sp)
  BY <1>1 , <1>2 DEF Sized
<1>8. Room(ops, n, n, sp)
  <2>1. PICK u \in OpenAt(blk, n) : TRUE
    BY <1>4
  <2>2. u.last \in n .. Len(ops) /\ n \in n .. u.last
    <3>1. /\ n \in (u.index + 1) .. u.last /\ u.last \in u.index .. Len(Ops(blk))
          /\ u.index \in 1 .. Len(Ops(blk))
      BY <1>1, <1>2, <2>1, OneOpen DEF Ready4Call
    <3> QED BY <3>1, <1>1, <1>2
  <2> QED BY <2>1, <2>2, <1>7
<1>9. \A w \in OpenAt(blk, n + 1) : \A m \in n + 1 .. w.last : Room(ops, n, m, sp)
  <2> TAKE w \in OpenAt(blk, n + 1)
  <2> TAKE m \in n + 1 .. w.last
  <2>1. w \in OpenAt(blk, n)
    BY <1>4
  <2>2. w.last \in Int /\ n \in Int
    <3>1. w.last \in w.index .. Len(Ops(blk))
      BY <1>1, <1>2, <2>1, OneOpen DEF Ready4Call
    <3> QED BY <3>1, <1>1, <1>2
  <2>3. m \in n .. w.last
    BY <2>2
  <2> QED BY <2>1, <2>3, <1>7
<1>10. g + pre = gas + g + pre1
  BY <1>3, <1>4, <1>5, <1>6
<1>11. gasleft + PrepaidAt(blk, n) = op.gas + g + PrepaidAt(blk, n + 1)
  BY <1>1, <1>3, <1>10
<1>12. g <= gasleft /\ op = ops[n]
  BY <1>1, <1>6
<1>13. Goes(op, g)
  BY <1>1, <1>6, <1>8, <1>9, <1>11, <1>12, GoesIf
<1> QED
  BY <1>1, <1>13

(* The checks of an emitted opcode.                                        *)
LEMMA EmitsChecked ==
  ASSUME Fine, RunInv, Emits, NEW op, op = Ops(blk)[next]
  PROVE  \E u \in UnitsOf(blk) : /\ u.index = next /\ Unit1 = u /\ SameOp(op, u.op)
                                 /\ u.valid = IsValidTarget(u.op)
                                 /\ Checked = Verdict(u.check, sp, gasleft)
<1>1. PICK ops, n : ops = Ops(blk) /\ n = next
  OBVIOUS
<1>2. Within /\ ~ops[n].isUnnecessary
  BY <1>1 DEF Emits
<1>3. blk \in DOMAIN code /\ n \in 1 .. Len(ops) /\ Arrives(ops, n) /\ phase = "done"
  BY <1>1, <1>2, OpHere DEF Running
<1>4. PICK u \in UnitsOf(blk) : u.index = n
  BY <1>1, <1>2, <1>3, UnitFacts
<1>5. UnitHere = {u}
  <2>1. \A v \in UnitsOf(blk) : v.index = n => v = u
    BY <1>1, <1>3, <1>4, UnitFacts
  <2> QED BY <2>1, <1>1, <1>4 DEF UnitHere
<1>6. Unit1 = u
  BY <1>5 DEF Unit1
<1>7. Checked = Verdict(u.check, sp, gasleft)
  <2>1. {Verdict(v.check, sp, gasleft) : v \in UnitHere} = {Verdict(u.check, sp, gasleft)}
    BY <1>5
  <2> QED BY <2>1 DEF Checked
<1>8. SameOp(op, u.op) /\ u.valid = IsValidTarget(u.op)
  BY <1>1, <1>3, <1>4, UnitFacts
<1> QED
  BY <1>1, <1>4, <1>6, <1>7, <1>8

LEMMA EmitsGoes ==
  ASSUME Fine, RunInv, mem \in Memory, Emits, Checked.code = 0, NEW op, op = Ops(blk)[next]
  PROVE  Goes(op, Checked.gas)
<1>1. PICK ops, n, v : ops = Ops(blk) /\ n = next /\ v = Checked
  OBVIOUS
<1>2. PICK u \in UnitsOf(blk) : u.index = n /\ v = Verdict(u.check, sp, gasleft)
  BY <1>1, EmitsChecked
<1>3. Within
  BY DEF Emits
<1>4. /\ Ready4Call /\ blk \in DOMAIN code /\ n \in 1 .. Len(ops)
      /\ Arrives(ops, n) /\ Sized(blk, n, sp)
  BY <1>1, <1>3, OpHere
<1>5. gasleft \in 0 .. CountLimit - 1
  BY DEF RunInv
<1>6. /\ v.gas \in 0 .. CountLimit - 1 /\ v.gas <= gasleft
      /\ gasleft + PrepaidAt(blk, n) = ops[n].gas + v.gas + PrepaidAt(blk, n + 1)
      /\ Room(ops, n, n, sp)
      /\ \A w \in OpenAt(blk, n + 1) : \A m \in n + 1 .. w.last : Room(ops, n, m, sp)
  BY <1>1, <1>2, <1>4, <1>5, CheckPasses
<1>7. Goes(op, v.gas)
  BY <1>1, <1>3, <1>6, GoesIf
<1> QED
  BY <1>1, <1>7

-----------------------------------------------------------------------------
(* The steps of an opcode are the steps of its instruction.                *)
Here(op, left) ==
    /\ Fine /\ JitInv /\ RunInv /\ Within /\ op = Ops(blk)[next] /\ Goes(op, left)
    /\ UNCHANGED parsevars
Advancing(op, left) ==
    /\ blk' = blk /\ next' = next + 1 /\ returned' = returned /\ exitcode' = exitcode
    /\ sp' = sp - op.stackLoad /\ gasleft' = left
    /\ mem' \in Memory /\ ctxpc' \in 0 .. Len(bytecode)

LEMMA Executing ==
  ASSUME NEW op, NEW left, Here(op, left)
  PROVE  /\ Evm!Executes(Kind(op)) /\ Evm!At(PcBar) = Evm!At(op.pc) /\ SaysAs(op, Evm!At(PcBar))
         /\ Says(op) /\ PcBar = op.pc /\ Evm!After(PcBar) = NextPc(code[blk].branch, next)
         /\ StackBar = Stk(mem, sp, op.cache, regs)
         /\ Evm!Left = left + PrepaidAt(blk, next + 1)
         /\ Stands(op, After1, mem, sp, regs) /\ exitcode = 0 /\ ErrPcBar = 0
<1>1. PICK ops, n, b : ops = Ops(blk) /\ n = next /\ b = code[blk].branch
  OBVIOUS
<1>2. op = ops[n]
  BY <1>1 DEF Here
<1>3. /\ Fine /\ RunInv /\ Within /\ JitInv
  BY DEF Here
<1>4. /\ Says(op) /\ Evm!After(op.pc) = NextPc(b, n) /\ Running
  BY <1>1, <1>2, <1>3, OpHere
<1>5. /\ StackBar = Stk(mem, sp, op.cache, regs)
      /\ PcBar = op.pc /\ GasBar = gasleft + PrepaidAt(blk, n) /\ StatusBar = "running"
  BY <1>1, <1>2, <1>3, BarsHere
<1>6. /\ Evm!At(PcBar).name = Kind(op) /\ ~Evm!Ended(PcBar) /\ Evm!At(PcBar).gas = op.gas
  BY <1>4, <1>5 DEF Says, SaysAs
<1>7. /\ Evm!Trouble(Evm!At(PcBar), GasBar, Len(StackBar)) = 0
      /\ GasBar - op.gas = left + PrepaidAt(blk, n + 1)
      /\ Stands(op, After1, mem, sp, regs)
  BY <1>1 DEF Here, Goes
<1>8. bytecode' = bytecode
  BY ParsedStays DEF Here
<1>9. Evm!Executes(Kind(op))
  BY <1>5, <1>6, <1>7, <1>8 DEF Evm!Executes
<1>10. Evm!Left = left + PrepaidAt(blk, next + 1)
  BY <1>1, <1>6, <1>7 DEF Evm!Left
<1>11. exitcode = 0 /\ ErrPcBar = 0
  BY <1>3, <1>4 DEF JitInv, Running, ErrPcBar
<1>12. SaysAs(op, Evm!At(PcBar)) /\ Evm!At(PcBar) = Evm!At(op.pc)
  BY <1>4, <1>5 DEF Says
<1> QED
  BY <1>1, <1>4, <1>5, <1>7, <1>9, <1>10, <1>11, <1>12

LEMMA Advance ==
  ASSUME NEW op, NEW left, Here(op, left), Advancing(op, left), ~op.isExitOpcode,
         op.name # "jump", NEW after, after = After1, Holds(after, regs'),
         NEW T, T = Stk(mem', sp', after, regs')
  PROVE  Evm!Goto(Evm!After(PcBar), T) /\ JitInv'
<1>1. PICK ops, n, b : ops = Ops(blk) /\ n = next /\ b = code[blk].branch
  OBVIOUS
<1>2. /\ Fine /\ RunInv /\ Within /\ JitInv /\ UNCHANGED parsevars /\ op = ops[n]
      /\ Goes(op, left) /\ op = Ops(blk)[next]
  BY <1>1 DEF Here
<1>3. left \in 0 .. CountLimit - 1 /\ left \in 0 .. left /\ gasleft' = left
  BY <1>2 DEF Goes, Advancing
<1>4. JitInv' /\ RunInv'
  BY <1>2, <1>3, InvNext DEF Advancing
<1>5. /\ Evm!After(PcBar) = NextPc(b, n) /\ Evm!Left = left + PrepaidAt(blk, n + 1)
      /\ exitcode = 0 /\ ErrPcBar = 0 /\ Evm!Executes(Kind(op))
  BY <1>1, Executing
<1>6. /\ Running /\ blk \in DOMAIN code /\ n \in 1 .. Len(ops)
  BY <1>1, <1>2, OpHere
<1>7. Arrives(ops, n + 1)
  <2>1. Arrives(ops, n) /\ ~op.isExitOpcode
    BY <1>1, <1>2, OpHere
  <2>2. n \in 1 .. Len(ops) /\ Len(ops) \in Nat
    BY <1>1, <1>2, OpHere
  <2>3. op = ops[n]
    BY <1>2
  <2>4. \A k \in 1 .. n : k \in 1 .. n - 1 \/ k = n
    BY <2>2
  <2>5. (n + 1) - 1 = n
    BY <2>2
  <2>6. \A k \in 1 .. n : ~ops[k].isExitOpcode
    BY <2>1, <2>3, <2>4 DEF Arrives
  <2> QED BY <2>5, <2>6 DEF Arrives
<1>8. /\ StackBar' = Stk(mem', sp', CacheAt(branches[b], n + 1), regs')
      /\ PcBar' = NextPc(b, n)
      /\ GasBar' = gasleft' + PrepaidAt(blk, n + 1)
      /\ StatusBar' = "running"
  BY <1>1, <1>2, <1>6, <1>7, BarsNext DEF Advancing
<1>9. after = CacheAt(branches[b], n + 1)
  BY <1>1 DEF After1
<1>10. StatusBar = "running"
  BY <1>5 DEF Evm!Executes
<1>11. exitcode' = exitcode /\ ErrPcBar' = ErrPcBar
  BY <1>5 DEF Advancing, ErrPcBar
<1> QED
  BY <1>3, <1>4, <1>5, <1>8, <1>9, <1>10, <1>11 DEF Evm!Goto

-----------------------------------------------------------------------------
(* An emitted opcode whose checks pass.                                    *)
Sound == Fine /\ JitInv /\ UNCHANGED parsevars

LEMMA AliveInv ==
  ASSUME JitInv, Running, blk # 0
  PROVE  RunInv /\ mem \in Memory
<1>1. blk > 0
  BY DEF JitInv
<1> QED
  BY <1>1 DEF JitInv, Alive

LEMMA WithinInv ==
  ASSUME Sound, Within
  PROVE  RunInv /\ mem \in Memory /\ Running /\ blk # 0
<1>1. Ready4Call \/ TRUE
  OBVIOUS
<1>2. Running /\ blk \in 1 .. Len(code)
  BY DEF Within, Sound, Fine, GenInv
<1> QED
  BY <1>2, AliveInv DEF Sound

LEMMA EmitsHere ==
  ASSUME Sound, Emits, Checked.code = 0, NEW op, op = Op
  PROVE  Here(op, Checked.gas) /\ ~op.isUnnecessary
<1>1. Within /\ op = Ops(blk)[next]
  BY DEF Emits, Op
<1>2. RunInv /\ mem \in Memory
  BY <1>1, WithinInv
<1>3. Goes(op, Checked.gas)
  BY <1>1, <1>2, EmitsGoes DEF Sound
<1> QED
  BY <1>1, <1>2, <1>3 DEF Here, Sound, Emits

LEMMA Continues ==
  ASSUME NEW op, op = Op, NEW f, Here(op, Checked.gas), Continue(f), mem' \in Memory,
         ctxpc' = ctxpc
  PROVE  Advancing(op, Checked.gas) /\ regs' = Resulting(f, op, mem, sp, regs)
<1>1. ctxpc \in 0 .. Len(bytecode)
  BY DEF Here, RunInv
<1>2. RegsAfterLoad = LoadedRegs(op, mem, sp, regs)
  BY DEF RegsAfterLoad, LoadedRegs
<1> QED
  BY <1>1, <1>2 DEF Continue, Advancing, Resulting, SpAfterLoad

(* A reference in the cache behind an opcode.                              *)
LEMMA NewRefIs ==
  ASSUME NEW op, NEW after, NEW m, NEW p, NEW rs, Stands(op, after, m, p, rs), op.out = 1
  PROVE  NewRef(op, 1) \in Ref
<1>1. /\ after = AfterRefs(op) /\ after \in Seq(Ref) /\ op \in Opcode
  BY DEF Stands, Effect
<1>2. Deep(op) \in Nat /\ op.in \in Nat
  BY <1>1, OpcodeNumbers
<1>3. PICK l \in Nat : l = LowLen(op)
  BY <1>2 DEF LowLen
<1>4. DOMAIN after = 1 .. l + 1
  BY <1>1, <1>3 DEF AfterRefs
<1>5. l + 1 \in DOMAIN after /\ ~(l + 1 <= l) /\ (l + 1) - l = 1
  BY <1>3, <1>4
<1>6. l + 1 \in 1 .. LowLen(op) + op.out
  BY <1>3
<1>7. after[l + 1] = NewRef(op, (l + 1) - l)
  BY <1>1, <1>3, <1>5, <1>6 DEF AfterRefs
<1>8. after[l + 1] \in Ref
  BY <1>1, <1>5, ElementOfSeq
<1> QED
  BY <1>5, <1>7, <1>8

LEMMA ConstRef ==
  ASSUME NEW v, Const(v) \in Ref
  PROVE  v \in Words
BY DEF Const, Ref

LEMMA GivesStep ==
  ASSUME NEW op, NEW left, Here(op, left), Advancing(op, left), ~op.isExitOpcode,
         op.name # "jump", mem' = mem, NEW out, Gives(op, After1, mem, sp, regs, regs', out)
  PROVE  /\ JitInv'
         /\ \E T : Outcome(op, StackBar, T, out) /\ Evm!Goto(Evm!After(PcBar), T)
<1>1. PICK after, rs2, m : after = After1 /\ rs2 = regs' /\ m = mem'
  OBVIOUS
<1>2. PICK S : S = Stk(mem, sp, op.cache, regs)
  OBVIOUS
<1>3. PICK T : T = Stk(mem, sp - op.stackLoad, after, rs2)
  OBVIOUS
<1>4. Holds(after, rs2) /\ Outcome(op, S, T, out)
  BY <1>1, <1>2, <1>3, GivesStk
<1>5. S = StackBar
  BY <1>2, Executing
<1>6. T = Stk(mem', sp', after, regs')
  BY <1>1, <1>3 DEF Advancing
<1>7. Evm!Goto(Evm!After(PcBar), T) /\ JitInv'
  BY <1>1, <1>4, <1>6, Advance
<1> QED
  BY <1>4, <1>5, <1>7

LEMMA StepNoCode ==
  ASSUME Sound, NoCode
  PROVE  Evm!EvmNext /\ JitInv'
<1>1. PICK op : op = Op
  OBVIOUS
<1>2. /\ Emits /\ Checked.code = 0 /\ op.name \in {"push", "pc", "pop", "jumpdest"}
      /\ Continue(<<>>) /\ mem' = mem /\ ctxpc' = ctxpc
  BY <1>1 DEF NoCode, Runs
<1>3. Here(op, Checked.gas) /\ ~op.isUnnecessary
  BY <1>1, <1>2, EmitsHere
<1>4. PICK left : left = Checked.gas
  OBVIOUS
<1>14. Here(op, left)
  BY <1>3, <1>4
<1>5. mem \in Memory
  BY <1>3 DEF Here, JitInv
<1>6. Advancing(op, left) /\ regs' = Resulting(<<>>, op, mem, sp, regs)
  BY <1>1, <1>2, <1>3, <1>4, <1>5, Continues
<1>7. /\ Stands(op, After1, mem, sp, regs) /\ Says(op) /\ PcBar = op.pc
      /\ SaysAs(op, Evm!At(PcBar)) /\ Evm!Executes(Kind(op))
  BY <1>3, <1>4, Executing
<1>8. ~op.isExitOpcode /\ ~Lifted(op)
  BY <1>2, <1>7 DEF Stands, Effect, Lifted
<1>9. Kind(op) = op.name
  BY <1>2 DEF Kind
<1>10. Extends(regs', regs, op.id)
  BY <1>6, NothingExtends
<1>11. PICK rs2 : rs2 = regs'
  OBVIOUS
<1>12. CASE op.name = "push" \/ op.name = "pc"
  <2>1. PICK v : v = IF op.name = "push" THEN op.arg ELSE op.pc
    OBVIOUS
  <2>2. op.in = 0 /\ op.out = 1
    BY <1>7, <1>12 DEF SaysAs
  <2>3. NewRef(op, 1) = Const(v)
    BY <1>12, <2>1 DEF NewRef
  <2>4. v \in Words
    BY <1>7, <2>2, <2>3, NewRefIs, ConstRef
  <2>5. Gives(op, After1, mem, sp, regs, rs2, <<v>>)
    BY <1>7, <1>8, <1>10, <1>11, <2>2, <2>3, <2>4, ConstGives
  <2>6. Gives(op, After1, mem, sp, regs, regs', <<v>>)
    BY <1>11, <2>5
  <2>7. op.name # "jump"
    BY <1>2
  <2>8. JitInv' /\ \E T : Outcome(op, StackBar, T, <<v>>) /\ Evm!Goto(Evm!After(PcBar), T)
    BY <1>2, <1>14, <1>6, <1>8, <2>6, <2>7, GivesStep
  <2>9. PICK T : Outcome(op, StackBar, T, <<v>>) /\ Evm!Goto(Evm!After(PcBar), T)
    BY <2>8
  <2>10. T = Append(StackBar, v)
    BY <2>2, <2>9 DEF Outcome
  <2>11. CASE op.name = "push"
    <3>1. v = Evm!Value(PcBar)
      BY <1>7, <2>1, <2>11 DEF Says
    <3>2. Evm!Push
      BY <1>7, <1>9, <2>9, <2>10, <2>11, <3>1 DEF Evm!Push
    <3> QED BY <2>8, <3>2 DEF Evm!EvmNext
  <2>12. CASE op.name = "pc"
    <3>1. v = PcBar
      BY <1>7, <2>1, <2>12
    <3>2. v % WordLimit = v
      BY <2>4, LimitsAssumption DEF Words
    <3>3. Evm!Pc
      BY <1>7, <1>9, <2>9, <2>10, <2>12, <3>1, <3>2 DEF Evm!Pc
    <3> QED BY <2>8, <3>3 DEF Evm!EvmNext
  <2> QED BY <1>12, <2>11, <2>12
<1>13. CASE op.name = "pop" \/ op.name = "jumpdest"
  <2>1. op.out = 0 /\ op.in = IF op.name = "pop" THEN 1 ELSE 0
    BY <1>7, <1>13 DEF SaysAs
  <2>2. Gives(op, After1, mem, sp, regs, rs2, <<>>)
    BY <1>7, <1>8, <1>10, <1>11, <2>1, NothingGives
  <2>3. Gives(op, After1, mem, sp, regs, regs', <<>>)
    BY <1>11, <2>2
  <2>4. op.name # "jump"
    BY <1>2
  <2>5. JitInv' /\ \E T : Outcome(op, StackBar, T, <<>>) /\ Evm!Goto(Evm!After(PcBar), T)
    BY <1>2, <1>14, <1>6, <1>8, <2>3, <2>4, GivesStep
  <2>6. PICK T : Outcome(op, StackBar, T, <<>>) /\ Evm!Goto(Evm!After(PcBar), T)
    BY <2>5
  <2>7. CASE op.name = "pop"
    <3>1. T = Evm!Below(1)
      BY <2>1, <2>6, <2>7 DEF Outcome, Evm!Below
    <3>2. Evm!Pop
      BY <1>7, <1>9, <2>6, <2>7, <3>1 DEF Evm!Pop
    <3> QED BY <2>5, <3>2 DEF Evm!EvmNext
  <2>8. CASE op.name = "jumpdest"
    <3>1. T = StackBar
      BY <2>1, <2>6, <2>8 DEF Outcome
    <3>2. Evm!JumpDest
      BY <1>7, <1>9, <2>6, <2>8, <3>1 DEF Evm!JumpDest
    <3> QED BY <2>5, <3>2 DEF Evm!EvmNext
  <2> QED BY <1>13, <2>7, <2>8
<1> QED
  BY <1>2, <1>12, <1>13

LEMMA StepGas ==
  ASSUME Sound, Gas
  PROVE  Evm!EvmNext /\ JitInv'
<1>1. PICK op, left : op = Op /\ left = Checked.gas
  OBVIOUS
<1>2. /\ Emits /\ Checked.code = 0 /\ op.name = "gas"
      /\ Continue(Result(left)) /\ mem' = mem /\ ctxpc' = ctxpc
  BY <1>1 DEF Gas, Runs
<1>3. Here(op, left) /\ ~op.isUnnecessary
  BY <1>1, <1>2, EmitsHere
<1>4. mem \in Memory
  BY <1>3 DEF Here, JitInv
<1>5. Result(left) = OneResult(op.id, left)
  BY <1>1 DEF Result, OneResult
<1>6. Advancing(op, left) /\ regs' = Resulting(OneResult(op.id, left), op, mem, sp, regs)
  BY <1>1, <1>2, <1>3, <1>4, <1>5, Continues
<1>7. /\ Stands(op, After1, mem, sp, regs) /\ SaysAs(op, Evm!At(PcBar))
      /\ Evm!Executes(Kind(op)) /\ Evm!Left = left + PrepaidAt(blk, next + 1)
  BY <1>3, Executing
<1>8. ~op.isExitOpcode /\ op.in = 0 /\ op.out = 1 /\ Kind(op) = op.name
  BY <1>2, <1>7 DEF Stands, Effect, SaysAs, Kind
<1>9. left \in Words /\ left \in Nat /\ left <= Evm!Left /\ Evm!Left \in Nat
  <2>1. left \in 0 .. CountLimit - 1 /\ left <= gasleft /\ PrepaidAt(blk, next + 1) \in Nat
    BY <1>3 DEF Here, Goes
  <2>2. gasleft \in Words
    BY <1>3 DEF Here, RunInv
  <2> QED BY <1>7, <2>1, <2>2, LimitsAssumption DEF Words
<1>10. PICK rs2 : rs2 = regs'
  OBVIOUS
<1>11. /\ Extends(rs2, regs, op.id) /\ Val(Res(op.id, 0), rs2) = left
       /\ Res(op.id, 0) \in DOMAIN rs2
  BY <1>6, <1>10, ResultExtends
<1>12. Gives(op, After1, mem, sp, regs, rs2, <<left>>)
  <2>1. /\ <<left>> \in Seq(Words) /\ Len(<<left>>) = op.out
    BY <1>8, <1>9
  <2>2. \A k \in 1 .. op.out : /\ Res(op.id, k - 1) \in DOMAIN rs2
                               /\ Val(Res(op.id, k - 1), rs2) = <<left>>[k]
    BY <1>8, <1>11
  <2>3. op.name \notin {"push", "pc", "dup", "swap"}
    BY <1>2
  <2> QED BY <1>3, <1>7, <1>11, <2>1, <2>2, <2>3, ResultsGive
<1>13. Gives(op, After1, mem, sp, regs, regs', <<left>>)
  BY <1>10, <1>12
<1>14. op.name # "jump"
  BY <1>2
<1>15. JitInv' /\ \E T : Outcome(op, StackBar, T, <<left>>) /\ Evm!Goto(Evm!After(PcBar), T)
  BY <1>2, <1>3, <1>6, <1>8, <1>13, <1>14, GivesStep
<1>16. PICK T : Outcome(op, StackBar, T, <<left>>) /\ Evm!Goto(Evm!After(PcBar), T)
  BY <1>15
<1>17. T = Append(StackBar, left)
  BY <1>8, <1>16 DEF Outcome
<1>18. left \in 0 .. Evm!Left
  BY <1>9
<1>19. Evm!Gas
  BY <1>2, <1>7, <1>8, <1>16, <1>17, <1>18 DEF Evm!Gas
<1> QED
  BY <1>15, <1>19 DEF Evm!EvmNext

-----------------------------------------------------------------------------
(* Arithmetic and logic.  The builder's constant folders compute what the  *)
(* EVM asks for, and so do the templates but for the Faulty operands.      *)
Exact ==
    \A name \in Foldable \cup Unfolded : \A args \in [1 .. AluIn(name) -> Words] :
       /\ Meaning(name, args) \in Words
       /\ name \in Foldable => Fold(name, args) = Meaning(name, args)
       /\ ~Faulty(name, args) => Apply(name, args) = {Meaning(name, args)}
TopOf(S, k) == [n \in 1 .. k |-> S[Len(S) + 1 - n]]
OperandsOf(op, m, p, rs) == [n \in 1 .. op.in |-> Val(op.stackRefs[n], LoadedRegs(op, m, p, rs))]

LEMMA TopIs ==
  ASSUME NEW op, NEW after, NEW m, NEW p, NEW rs, Stands(op, after, m, p, rs),
         NEW S, S = Stk(m, p, op.cache, rs)
  PROVE  /\ OperandsOf(op, m, p, rs) = TopOf(S, op.in)
         /\ TopOf(S, op.in) \in [1 .. op.in -> Words]
         /\ S \in Seq(Words) /\ op.in \in Nat /\ op.in <= Len(S)
<1>1. PICK d : d = Deep(op)
  OBVIOUS
<1>2. /\ d \in Nat /\ Len(S) = p + d /\ DOMAIN S = 1 .. p + d /\ S \in Seq(Words)
      /\ op.in <= p + d
      /\ \A n \in 1 .. op.in :
              Val(op.stackRefs[n], LoadedRegs(op, m, p, rs)) = S[p + d + 1 - n]
  BY <1>1, ArgsOnTop
<1>3. op.in \in Nat /\ p \in Nat
  BY OpcodeNumbers DEF Stands
<1>4. \A n \in 1 .. op.in : /\ Val(op.stackRefs[n], LoadedRegs(op, m, p, rs)) = S[Len(S) + 1 - n]
                            /\ S[Len(S) + 1 - n] \in Words
  <2> TAKE n \in 1 .. op.in
  <2>1. p + d + 1 - n \in 1 .. p + d
    BY <1>2, <1>3
  <2>2. S[p + d + 1 - n] \in Words
    BY <1>2, <2>1, ElementOfSeq
  <2> QED BY <1>2, <2>2
<1>5. OperandsOf(op, m, p, rs) = TopOf(S, op.in)
  BY <1>4 DEF OperandsOf, TopOf
<1>6. TopOf(S, op.in) \in [1 .. op.in -> Words]
  BY <1>4 DEF TopOf
<1> QED
  BY <1>2, <1>3, <1>5, <1>6

LEMMA AluIs ==
  ASSUME Exact, NEW op, NEW left, Here(op, left), Advancing(op, left), mem' = mem,
         op.name \in Foldable \cup Unfolded,
         NEW w, w = Meaning(op.name, TopOf(StackBar, op.in)),
         w \in Words => Gives(op, After1, mem, sp, regs, regs', <<w>>)
  PROVE  Evm!EvmNext /\ JitInv'
<1>1. /\ Stands(op, After1, mem, sp, regs) /\ SaysAs(op, Evm!At(PcBar))
      /\ Evm!Executes(Kind(op)) /\ StackBar = Stk(mem, sp, op.cache, regs)
  BY Executing
<1>2. /\ op.in = AluIn(op.name) /\ op.out = 1
  BY <1>1 DEF SaysAs
<1>3. op.name \notin {"dup", "swap", "call", "push", "pc", "gas", "pop", "jump",
                      "jumpi", "jumpdest", "stop", "invalid"}
  BY AluApart
<1>4. ~op.isExitOpcode /\ Kind(op) = op.name
  BY <1>1, <1>3 DEF Stands, Effect, Kind
<1>5. Evm!At(PcBar).name = op.name /\ Evm!At(PcBar).in = op.in
  BY <1>1, <1>3, <1>4 DEF SaysAs, Takes
<1>6. TopOf(StackBar, op.in) \in [1 .. op.in -> Words]
  BY <1>1, TopIs
<1>7. w \in Words
  BY <1>2, <1>6 DEF Exact
<1>8. op.name # "jump"
  BY <1>3
<1>9. JitInv' /\ \E T : Outcome(op, StackBar, T, <<w>>) /\ Evm!Goto(Evm!After(PcBar), T)
  BY <1>4, <1>7, <1>8, GivesStep
<1>10. PICK T : Outcome(op, StackBar, T, <<w>>) /\ Evm!Goto(Evm!After(PcBar), T)
  BY <1>9
<1>11. T = Append(Evm!Below(op.in), w)
  BY <1>2, <1>10 DEF Outcome, Evm!Below
<1>12. Evm!Top(op.in) = TopOf(StackBar, op.in)
  BY DEF Evm!Top, TopOf
<1>13. Evm!Foldable \cup Evm!Unfolded = Foldable \cup Unfolded
  BY SameTables
<1>14. Evm!Alu
  BY <1>1, <1>4, <1>5, <1>10, <1>11, <1>12, <1>13 DEF Evm!Alu
<1> QED
  BY <1>9, <1>14 DEF Evm!EvmNext

LEMMA StepFolded ==
  ASSUME Exact, Sound, SkipFolded
  PROVE  Evm!EvmNext /\ JitInv'
<1>1. PICK op : op = Ops(blk)[next]
  OBVIOUS
<1>2. Within /\ op.isUnnecessary
  BY <1>1 DEF SkipFolded
<1>3. RunInv /\ mem \in Memory
  BY <1>2, WithinInv
<1>4. Goes(op, gasleft)
  BY <1>1, <1>2, <1>3, FoldedGoes DEF Sound
<1>5. PICK left : left = gasleft
  OBVIOUS
<1>6. Here(op, left)
  BY <1>1, <1>2, <1>3, <1>4, <1>5 DEF Here, Sound
<1>7. /\ Stands(op, After1, mem, sp, regs) /\ StackBar = Stk(mem, sp, op.cache, regs)
      /\ SaysAs(op, Evm!At(PcBar))
  BY <1>6, Executing
<1>8. op.name \in Foldable
  BY <1>2, <1>7 DEF Stands, Effect
<1>9. op.in = AluIn(op.name) /\ op.out = 1
  BY <1>7, <1>8 DEF SaysAs
<1>10. op.name \notin {"push", "pc", "dup", "swap"}
  BY <1>8, AluApart
<1>11. PICK S : S = StackBar
  OBVIOUS
<1>12. TopOf(S, op.in) \in [1 .. op.in -> Words]
  BY <1>7, <1>11, TopIs
<1>13. PICK v : v = Fold(op.name, TopOf(S, op.in))
  OBVIOUS
<1>14. v = Meaning(op.name, TopOf(S, op.in)) /\ v \in Words
  BY <1>8, <1>9, <1>12, <1>13 DEF Exact
<1>15. op.stackLoad = 0 /\ Gives(op, After1, mem, sp, regs, regs, <<v>>)
  BY <1>2, <1>7, <1>9, <1>10, <1>11, <1>13, <1>14, FoldGives DEF TopOf
<1>16. /\ mem' = mem /\ regs' = regs /\ sp' = sp /\ gasleft' = gasleft /\ ctxpc' = ctxpc
       /\ blk' = blk /\ next' = next + 1 /\ returned' = returned /\ exitcode' = exitcode
  BY DEF SkipFolded
<1>17. Advancing(op, left)
  <2>1. sp' = sp - op.stackLoad
    <3>1. sp \in Int
      BY <1>4 DEF Goes
    <3> QED BY <1>15, <1>16, <3>1
  <2>2. ctxpc \in 0 .. Len(bytecode)
    BY <1>3 DEF RunInv
  <2> QED BY <1>3, <1>5, <1>16, <2>1, <2>2 DEF Advancing
<1>18. Gives(op, After1, mem, sp, regs, regs', <<v>>)
  BY <1>15, <1>16
<1> QED
  BY <1>6, <1>8, <1>11, <1>14, <1>16, <1>17, <1>18, AluIs

LEMMA StepAlu ==
  ASSUME Exact, Sound, Alu, ExactHere
  PROVE  Evm!EvmNext /\ JitInv'
<1>1. PICK op, left : op = Op /\ left = Checked.gas
  OBVIOUS
<1>2. Emits /\ Checked.code = 0 /\ op.name \in Foldable \cup Unfolded /\ mem' = mem /\ ctxpc' = ctxpc
  BY <1>1 DEF Alu, Runs
<1>3. Here(op, left) /\ ~op.isUnnecessary
  BY <1>1, <1>2, EmitsHere
<1>4. mem \in Memory /\ RunInv /\ Within /\ blk \in DOMAIN code
  BY <1>3 DEF Here, JitInv, Within
<1>5. /\ Stands(op, After1, mem, sp, regs) /\ StackBar = Stk(mem, sp, op.cache, regs)
      /\ SaysAs(op, Evm!At(PcBar))
  BY <1>3, Executing
<1>6. op.in = AluIn(op.name) /\ op.out = 1
  BY <1>2, <1>5 DEF SaysAs
<1>7. [n \in 1 .. Op.in |-> Arg(n)] = OperandsOf(op, mem, sp, regs)
  BY <1>1 DEF Arg, OperandsOf, RegsAfterLoad, LoadedRegs
<1>8. PICK args : args = TopOf(StackBar, op.in)
  OBVIOUS
<1>9. OperandsOf(op, mem, sp, regs) = args /\ args \in [1 .. op.in -> Words]
  BY <1>5, <1>8, TopIs
<1>10. PICK w : w \in Apply(op.name, args) /\ Continue(Result(w))
  BY <1>1, <1>7, <1>9 DEF Alu
<1>11. ~Faulty(op.name, args)
  BY <1>1, <1>7, <1>9 DEF Alu, ExactHere
<1>12. w = Meaning(op.name, args) /\ w \in Words
  BY <1>2, <1>6, <1>9, <1>10, <1>11 DEF Exact
<1>13. Result(w) = OneResult(op.id, w)
  BY <1>1 DEF Result, OneResult
<1>14. Continue(OneResult(op.id, w))
  BY <1>10, <1>13
<1>15. Advancing(op, left) /\ regs' = Resulting(OneResult(op.id, w), op, mem, sp, regs)
  BY <1>1, <1>2, <1>3, <1>4, <1>14, Continues
<1>16. PICK rs2 : rs2 = regs'
  OBVIOUS
<1>17. /\ Extends(rs2, regs, op.id) /\ Val(Res(op.id, 0), rs2) = w
       /\ Res(op.id, 0) \in DOMAIN rs2
  BY <1>15, <1>16, ResultExtends
<1>18. Gives(op, After1, mem, sp, regs, rs2, <<w>>)
  <2>1. /\ <<w>> \in Seq(Words) /\ Len(<<w>>) = op.out
    BY <1>6, <1>12
  <2>2. \A k \in 1 .. op.out : /\ Res(op.id, k - 1) \in DOMAIN rs2
                               /\ Val(Res(op.id, k - 1), rs2) = <<w>>[k]
    BY <1>6, <1>17
  <2>3. op.name \notin {"push", "pc", "dup", "swap"}
    BY <1>2, AluApart
  <2> QED BY <1>3, <1>5, <1>17, <2>1, <2>2, <2>3, ResultsGive
<1>19. Gives(op, After1, mem, sp, regs, regs', <<w>>)
  BY <1>16, <1>18
<1> QED
  BY <1>2, <1>3, <1>8, <1>12, <1>15, <1>19, AluIs

LEMMA HasOperands ==
  ASSUME NEW op, NEW left, Here(op, left)
  PROVE  Takes(op) \in Nat /\ Takes(op) <= Len(StackBar) /\ Evm!At(PcBar).in = Takes(op)
<1>1. /\ Stands(op, After1, mem, sp, regs) /\ StackBar = Stk(mem, sp, op.cache, regs)
      /\ SaysAs(op, Evm!At(PcBar))
  BY Executing
<1>2. Takes(op) \in Nat
  BY <1>1, OpcodeNumbers DEF Stands, Takes
<1>3. PICK c, h : c = Evm!At(PcBar) /\ h = Len(StackBar)
  OBVIOUS
<1>4. Evm!Trouble(c, GasBar, h) = 0
  BY <1>3 DEF Here, Goes
<1>5. ~(h < c.in)
  BY <1>4 DEF Evm!Trouble
<1>6. StackBar \in Seq(Words)
  BY <1>1, TopIs
<1>7. h \in Nat
  BY <1>3, <1>6
<1>8. c.in = Takes(op)
  BY <1>1, <1>3 DEF SaysAs
<1> QED
  BY <1>2, <1>3, <1>5, <1>7, <1>8

LEMMA StepDup ==
  ASSUME Sound, Dup
  PROVE  Evm!EvmNext /\ JitInv'
<1>1. PICK op, left : op = Op /\ left = Checked.gas
  OBVIOUS
<1>2. Emits /\ Checked.code = 0 /\ op.name = "dup" /\ mem' = mem /\ ctxpc' = ctxpc
  BY <1>1 DEF Dup, Runs
<1>3. Here(op, left) /\ ~op.isUnnecessary
  BY <1>1, <1>2, EmitsHere
<1>4. mem \in Memory
  BY <1>3 DEF Here, JitInv
<1>5. /\ Stands(op, After1, mem, sp, regs) /\ StackBar = Stk(mem, sp, op.cache, regs)
      /\ SaysAs(op, Evm!At(PcBar)) /\ Evm!Executes(Kind(op))
  BY <1>3, Executing
<1>6. op.in = 0 /\ op.out = 1 /\ Kind(op) = op.name /\ ~op.isExitOpcode /\ Takes(op) = op.arg
  BY <1>2, <1>5 DEF SaysAs, Kind, Stands, Effect, Takes
<1>7. PICK low, f : /\ low = sp - op.stackLoad - op.stackAddLoad
                    /\ f = IF op.stackAddLoad > 0 THEN OneResult(op.id, mem[low]) ELSE <<>>
  OBVIOUS
<1>8. Continue(f)
  BY <1>1, <1>7 DEF Dup, Below, SpAfterLoad, Result, OneResult
<1>9. Advancing(op, left) /\ regs' = Resulting(f, op, mem, sp, regs)
  BY <1>1, <1>2, <1>3, <1>4, <1>8, Continues
<1>10. PICK rs2, S : rs2 = regs' /\ S = StackBar
  OBVIOUS
<1>11. op.arg <= Len(S) /\ Evm!At(PcBar).in = op.arg
  BY <1>3, <1>6, <1>10, HasOperands
<1>12. rs2 = IF op.stackAddLoad > 0
             THEN Resulting(OneResult(op.id, mem[low]), op, mem, sp, regs)
             ELSE Resulting(<<>>, op, mem, sp, regs)
  BY <1>7, <1>9, <1>10
<1>13. Gives(op, After1, mem, sp, regs, rs2, <<S[Len(S) + 1 - op.arg]>>)
  BY <1>2, <1>3, <1>5, <1>7, <1>10, <1>11, <1>12, DupGives
<1>14. PICK v : v = S[Len(S) + 1 - op.arg]
  OBVIOUS
<1>15. Gives(op, After1, mem, sp, regs, regs', <<v>>)
  BY <1>10, <1>13, <1>14
<1>16. op.name # "jump"
  BY <1>2
<1>17. JitInv' /\ \E T : Outcome(op, StackBar, T, <<v>>) /\ Evm!Goto(Evm!After(PcBar), T)
  BY <1>2, <1>3, <1>6, <1>9, <1>15, <1>16, GivesStep
<1>18. PICK T : Outcome(op, StackBar, T, <<v>>) /\ Evm!Goto(Evm!After(PcBar), T)
  BY <1>17
<1>19. T = Append(StackBar, v)
  BY <1>6, <1>18 DEF Outcome
<1>20. Evm!Dup
  BY <1>2, <1>5, <1>6, <1>10, <1>11, <1>14, <1>18, <1>19 DEF Evm!Dup
<1> QED
  BY <1>17, <1>20 DEF Evm!EvmNext

LEMMA StepSwap ==
  ASSUME Sound, Swap
  PROVE  Evm!EvmNext /\ JitInv'
<1>1. PICK op, left : op = Op /\ left = Checked.gas
  OBVIOUS
<1>2. Emits /\ Checked.code = 0 /\ op.name = "swap" /\ ctxpc' = ctxpc
  BY <1>1 DEF Swap, Runs
<1>3. Here(op, left) /\ ~op.isUnnecessary
  BY <1>1, <1>2, EmitsHere
<1>4. mem \in Memory /\ sp \in Nat /\ sp <= StackSize
  BY <1>3 DEF Here, JitInv, Goes
<1>5. /\ Stands(op, After1, mem, sp, regs) /\ StackBar = Stk(mem, sp, op.cache, regs)
      /\ SaysAs(op, Evm!At(PcBar)) /\ Evm!Executes(Kind(op))
  BY <1>3, Executing
<1>6. /\ op.in = 1 /\ op.out = 1 /\ Kind(op) = op.name /\ ~op.isExitOpcode
      /\ Takes(op) = op.arg + 1 /\ op.arg \in 1 .. 16
  BY <1>2, <1>5 DEF SaysAs, Kind, Stands, Effect, Takes
<1>7. PICK low, f : /\ low = sp - op.stackLoad - op.stackAddLoad
                    /\ f = IF op.stackAddLoad > 0 THEN OneResult(op.id, mem[low]) ELSE <<>>
  OBVIOUS
<1>8. PICK a : a = Val(op.stackRefs[1], LoadedRegs(op, mem, sp, regs))
  OBVIOUS
<1>9. /\ Continue(f)
      /\ mem' = IF op.stackAddLoad > 0 THEN [mem EXCEPT ![low] = a] ELSE mem
  BY <1>1, <1>7, <1>8 DEF Swap, Below, SpAfterLoad, Result, OneResult, Arg, RegsAfterLoad, LoadedRegs
<1>10. a \in Words
  <2>1. PICK S1, k : S1 = StackBar /\ k = op.in
    OBVIOUS
  <2>2. OperandsOf(op, mem, sp, regs) \in [1 .. op.in -> Words]
    <3>1. OperandsOf(op, mem, sp, regs) = TopOf(S1, op.in) /\ TopOf(S1, op.in) \in [1 .. op.in -> Words]
      BY <1>5, <2>1, TopIs
    <3> QED BY <3>1
  <2>3. OperandsOf(op, mem, sp, regs)[1] \in Words
    BY <1>6, <2>2
  <2> QED BY <1>6, <1>8, <2>3 DEF OperandsOf
<1>11. /\ mem' \in Memory
       /\ \A x \in 0 .. sp - 1 : mem'[x] = IF op.stackAddLoad > 0 /\ x = low THEN a ELSE mem[x]
  <2>1. \A x \in 0 .. sp - 1 : x \in 0 .. StackSize - 1
    BY <1>4, CountAssumption
  <2>2. CASE op.stackAddLoad > 0
    <3>1. mem' = [mem EXCEPT ![low] = a]
      BY <1>9, <2>2
    <3> QED BY <1>4, <1>10, <2>1, <2>2, <3>1 DEF Memory
  <2>3. CASE ~(op.stackAddLoad > 0)
    <3>1. mem' = mem
      BY <1>9, <2>3
    <3> QED BY <1>4, <2>3, <3>1
  <2> QED BY <2>2, <2>3
<1>12. Advancing(op, left) /\ regs' = Resulting(f, op, mem, sp, regs)
  BY <1>1, <1>2, <1>3, <1>9, <1>11, Continues
<1>13. PICK rs2, S, m2 : rs2 = regs' /\ S = StackBar /\ m2 = mem'
  OBVIOUS
<1>14. rs2 = IF op.stackAddLoad > 0
             THEN Resulting(OneResult(op.id, mem[low]), op, mem, sp, regs)
             ELSE Resulting(<<>>, op, mem, sp, regs)
  BY <1>7, <1>12, <1>13
<1>15. Swapping(op, After1, mem, sp, regs, m2, rs2, low)
  BY <1>2, <1>3, <1>5, <1>7, <1>8, <1>11, <1>13, <1>14 DEF Swapping
<1>16. op.arg < Len(S) /\ Evm!At(PcBar).in = op.arg + 1
  <2>1. Takes(op) \in Nat /\ Takes(op) <= Len(S) /\ Evm!At(PcBar).in = Takes(op)
    BY <1>3, <1>13, HasOperands
  <2>2. S \in Seq(Words)
    BY <1>5, <1>13, TopIs
  <2> QED BY <1>6, <2>1, <2>2
<1>17. PICK after : after = After1
  OBVIOUS
<1>18. PICK T : T = Stk(m2, sp - op.stackLoad, after, rs2)
  OBVIOUS
<1>19. /\ Holds(after, rs2) /\ S \in Seq(Words) /\ T = Swapped(S, op.arg)
  BY <1>5, <1>13, <1>15, <1>16, <1>17, <1>18, SwapStk
<1>20. T = Stk(mem', sp', after, regs')
  BY <1>12, <1>13, <1>18 DEF Advancing
<1>21. op.name # "jump"
  BY <1>2
<1>22. Evm!Goto(Evm!After(PcBar), T) /\ JitInv'
  BY <1>3, <1>6, <1>12, <1>13, <1>17, <1>19, <1>20, <1>21, Advance
<1>23. Len(S) + 1 - Evm!At(PcBar).in = Len(S) - op.arg
  <2>1. PICK l, n, c : l = Len(S) /\ n = op.arg /\ c = Evm!At(PcBar).in
    OBVIOUS
  <2>2. l \in Nat
    BY <1>19, <2>1, LenProperties
  <2>3. n \in Nat /\ c = n + 1
    BY <1>6, <1>16, <2>1
  <2>4. l + 1 - c = l - n
    BY ONLY <2>2, <2>3
  <2> QED BY <2>1, <2>4
<1>24. Evm!Swap
  BY <1>2, <1>5, <1>6, <1>13, <1>19, <1>22, <1>23 DEF Evm!Swap, Swapped
<1> QED
  BY <1>22, <1>24 DEF Evm!EvmNext

-----------------------------------------------------------------------------
(* Checks that fail.                                                       *)
FirstAhead == [pc |-> PcBar, gas |-> GasBar, height |-> Len(StackBar), ok |-> ~Evm!Ended(PcBar)]
Onward(a) ==
    IF ~a.ok \/ Evm!Trouble(Evm!At(a.pc), a.gas, a.height) # 0 \/ Evm!Breaks(Evm!At(a.pc))
    THEN [a EXCEPT !.ok = FALSE]
    ELSE [pc |-> Evm!After(a.pc), gas |-> a.gas - Evm!At(a.pc).gas,
          height |-> a.height - Evm!At(a.pc).in + Evm!At(a.pc).out,
          ok |-> ~Evm!Ended(Evm!After(a.pc))]
IsAhead(f, L) == f = [n \in 0 .. L |-> IF n = 0 THEN FirstAhead ELSE Onward(f[n - 1])]

LEMMA AheadIs ==
  Evm!Ahead = CHOOSE f : IsAhead(f, Len(bytecode))
BY DEF Evm!Ahead, IsAhead, Onward, FirstAhead

LEMMA AheadExists == \A L \in Nat : \E f : IsAhead(f, L)
<1> DEFINE S == {L \in Nat : \E f : IsAhead(f, L)}
<1>1. 0 \in S
  <2> DEFINE f == [n \in 0 .. 0 |-> FirstAhead]
  <2>1. f = [n \in 0 .. 0 |-> IF n = 0 THEN FirstAhead ELSE Onward(f[n - 1])]
    OBVIOUS
  <2> QED BY <2>1 DEF IsAhead
<1>2. ASSUME NEW L \in S PROVE L + 1 \in S
  <2>1. PICK f : f = [n \in 0 .. L |-> IF n = 0 THEN FirstAhead ELSE Onward(f[n - 1])]
    BY DEF IsAhead
  <2>2. PICK x : x = Onward(f[L])
    OBVIOUS
  <2> DEFINE g == [n \in 0 .. L + 1 |-> IF n = L + 1 THEN x ELSE f[n]]
  <2>3. L \in Nat
    OBVIOUS
  <2>4. \A n \in 0 .. L + 1 : g[n] = IF n = 0 THEN FirstAhead ELSE Onward(g[n - 1])
    <3> TAKE n \in 0 .. L + 1
    <3>1. CASE n = 0
      BY <2>1, <2>3, <3>1
    <3>2. CASE n # 0
      <4>1. n - 1 \in 0 .. L /\ n - 1 \in 0 .. L + 1 /\ n - 1 # L + 1
        BY <2>3, <3>2
      <4>2. g[n - 1] = f[n - 1]
        BY <4>1
      <4>3. g[n] = Onward(f[n - 1])
        <5>1. CASE n = L + 1
          BY <2>2, <2>3, <5>1
        <5>2. CASE n # L + 1
          <6>1. n \in 0 .. L
            BY <2>3, <5>2
          <6>2. g[n] = f[n]
            BY <5>2
          <6>3. f[n] = Onward(f[n - 1])
            BY <2>1, <3>2, <6>1
          <6> QED BY <6>2, <6>3
        <5> QED BY <5>1, <5>2
      <4> QED BY <3>2, <4>2, <4>3
    <3> QED BY <3>1, <3>2
  <2>5. g = [n \in 0 .. L + 1 |-> g[n]]
    OBVIOUS
  <2> HIDE DEF g
  <2>6. g = [n \in 0 .. L + 1 |-> IF n = 0 THEN FirstAhead ELSE Onward(g[n - 1])]
    BY <2>4, <2>5
  <2> QED BY <2>3, <2>6 DEF IsAhead
<1>3. S \in SUBSET Nat
  OBVIOUS
<1> HIDE DEF S
<1>4. \A L \in Nat : L \in S
  BY <1>1, <1>2, <1>3, Induct
<1> QED
  BY <1>4 DEF S

LEMMA AheadRec ==
  ASSUME NEW L, L = Len(bytecode), L \in Nat
  PROVE  /\ DOMAIN Evm!Ahead = 0 .. L
         /\ Evm!Ahead[0] = FirstAhead
         /\ \A n \in 1 .. L : Evm!Ahead[n] = Onward(Evm!Ahead[n - 1])
<1>1. PICK f : f = Evm!Ahead
  OBVIOUS
<1>2. IsAhead(f, L)
  BY <1>1, AheadIs, AheadExists
<1>3. f = [n \in 0 .. L |-> IF n = 0 THEN FirstAhead ELSE Onward(f[n - 1])]
  BY <1>2 DEF IsAhead
<1>4. DOMAIN f = 0 .. L
  BY <1>3
<1>5. \A n \in 0 .. L : f[n] = IF n = 0 THEN FirstAhead ELSE Onward(f[n - 1])
  BY <1>3
<1>6. f[0] = FirstAhead
  BY <1>5
<1>7. \A n \in 1 .. L : f[n] = Onward(f[n - 1])
  BY <1>5
<1> QED
  BY <1>1, <1>4, <1>6, <1>7

LEMMA CacheGrows ==
  ASSUME NEW op \in Opcode, NEW after \in Seq(Ref), Effect(op, after)
  PROVE  Len(after) = Len(op.cache) + op.stackLoad - op.in + op.out
<1>1. PICK d, in, out, l : d = Deep(op) /\ in = op.in /\ out = op.out /\ l = LowLen(op)
  OBVIOUS
<1>2. d \in Nat /\ in \in Nat /\ out \in Nat /\ Len(op.cache) = d
  BY <1>1, OpcodeNumbers DEF Deep
<1>3. l = IF in <= d THEN d - in ELSE 0
  BY <1>1 DEF LowLen
<1>4. op.stackLoad = IF in > d THEN in - d ELSE 0
  BY <1>1 DEF Effect
<1>5. DOMAIN after = 1 .. l + out
  BY <1>1 DEF Effect, AfterRefs
<1>6. DOMAIN after = 1 .. Len(after) /\ Len(after) \in Nat
  OBVIOUS
<1>7. l + out \in Nat
  BY <1>2, <1>3
<1>8. Len(after) = l + out
  BY <1>5, <1>6, <1>7
<1> QED
  BY <1>1, <1>2, <1>3, <1>4, <1>8
AheadAt(ops, n, q, p, g) ==
    [pc |-> ops[q].pc, gas |-> Left(ops, n, g, q), height |-> Height(ops, n, q, p), ok |-> TRUE]

LEMMA TroubleIs ==
  ASSUME NEW ops, NEW n, NEW q, NEW e, NEW p, NEW g, RunAt(ops, n, e, p, g), q \in n .. e,
         Says(ops[q])
  PROVE  /\ Evm!Trouble(Evm!At(ops[q].pc), Left(ops, n, g, q), Height(ops, n, q, p))
              = IF Poor(ops, n, g, q) THEN -13 ELSE IF Under(ops, n, p, q) THEN -10
                ELSE IF Grew(ops, n, p, q) THEN -11 ELSE 0
         /\ q \in Bad(ops, n, e, p, g)
              <=> Poor(ops, n, g, q) \/ Under(ops, n, p, q) \/ Grew(ops, n, p, q)
<1>1. PICK op, c, l, h : op = ops[q] /\ c = Evm!At(op.pc) /\ l = Left(ops, n, g, q) /\ h = Height(ops, n, q, p)
  OBVIOUS
<1>2. c.gas = op.gas /\ c.in = Takes(op) /\ c.out = Takes(op) - op.in + op.out
  BY <1>1 DEF Says, SaysAs
<1>3. Takes(op) \in Nat /\ op.in \in Nat /\ op.out \in Nat
  BY <1>1, OpFacts
<1>4. h \in Int
  <2>1. p \in Nat /\ Total(LoadOf(ops), n, q - 1) \in Nat
    BY RunFacts
  <2>2. Len(ops[q].cache) \in Nat
    BY OpFacts
  <2> QED BY <1>1, <2>1, <2>2 DEF Height
<1>5. h - c.in + c.out = h - op.in + op.out
  BY <1>2, <1>3, <1>4
<1>6. Evm!Trouble(c, l, h) = IF l < op.gas THEN -13 ELSE IF h < Takes(op) THEN -10
                             ELSE IF h - op.in + op.out > StackSize THEN -11 ELSE 0
  BY <1>2, <1>5 DEF Evm!Trouble
<1> QED
  BY <1>1, <1>6 DEF Poor, Under, Grew, Bad

LEMMA OnwardOp ==
  ASSUME Ready4Call, NEW j \in DOMAIN code, NEW ops, ops = Ops(j),
         NEW n, NEW e, NEW p, NEW g, RunAt(ops, n, e, p, g), NEW q \in n .. e, q # e,
         q \notin Bad(ops, n, e, p, g), ~ops[q].breakGasGroup
  PROVE  /\ Onward(AheadAt(ops, n, q, p, g)) = AheadAt(ops, n, q + 1, p, g)
         /\ ops[q].pc \in Nat /\ ops[q + 1].pc \in Nat /\ ops[q].pc < ops[q + 1].pc
<1>1. /\ n \in Nat /\ n >= 1 /\ e \in Nat /\ e <= Len(ops) /\ Len(ops) \in Nat
      /\ DOMAIN ops = 1 .. Len(ops)
      /\ p \in Nat
      /\ Total(LoadOf(ops), n, q - 1) \in Nat /\ Total(GasOf(ops), n, q - 1) \in Nat
      /\ Total(LoadOf(ops), n, q) = Total(LoadOf(ops), n, q - 1) + ops[q].stackLoad
      /\ Total(GasOf(ops), n, q) = Total(GasOf(ops), n, q - 1) + ops[q].gas
  BY RunFacts
<1>2. q \in 1 .. Len(ops) /\ q + 1 \in 1 .. Len(ops) /\ q < Len(ops) /\ q \in Nat /\ (q + 1) - 1 = q
  BY <1>1
<1>3. PICK b : b = code[j].branch
  OBVIOUS
<1>4. /\ ops = branches[b].opcodes /\ ops \in Seq(Opcode) /\ Flowing(branches[b])
      /\ Says(ops[q]) /\ Says(ops[q + 1]) /\ Evm!After(ops[q].pc) = NextPc(b, q)
  BY <1>2, <1>3, BlockFacts DEF Ready4Call
<1>5. Evm!After(ops[q].pc) = ops[q + 1].pc
  BY <1>2, <1>4 DEF NextPc
<1>6. PICK op, op2 : op = ops[q] /\ op2 = ops[q + 1]
  OBVIOUS
<1>7. op \in Opcode /\ op2 \in Opcode
  BY <1>2, <1>4, <1>6, ElementOfSeq
<1>8. Effect(op, op2.cache)
  <2>1. CacheAt(branches[b], q + 1) = op2.cache
    BY <1>2, <1>4, <1>6 DEF CacheAt
  <2>2. q \in DOMAIN branches[b].opcodes /\ branches[b].opcodes[q] = op
    BY <1>1, <1>2, <1>4, <1>6
  <2> QED BY <1>4, <2>1, <2>2 DEF Flowing
<1>9. Len(op2.cache) = Len(op.cache) + op.stackLoad - op.in + op.out
  <2>1. op2.cache \in Seq(Ref)
    BY <1>7, OpcodeNumbers
  <2> QED BY <1>7, <1>8, <2>1, CacheGrows
<1>10. PICK c, l, h : c = Evm!At(op.pc) /\ l = Left(ops, n, g, q) /\ h = Height(ops, n, q, p)
  OBVIOUS
<1>11. /\ c.name = Kind(op) /\ c.gas = op.gas /\ c.in = Takes(op) /\ c.out = Takes(op) - op.in + op.out
  BY <1>4, <1>6, <1>10 DEF Says, SaysAs
<1>12. Evm!Trouble(c, l, h) = 0
  BY <1>4, <1>6, <1>10, TroubleIs
<1>13. ~Evm!Breaks(c)
  <2>1. op.name \notin Jumps /\ ~op.isExitOpcode /\ op.name \notin {"stop", "invalid"}
    BY <1>6, <1>8 DEF Effect
  <2>2. op.name \in Names \ {"debug"}
    BY <1>4, <1>6 DEF Says, SaysAs
  <2>3. "exit" \notin Names
    BY DEF Names, Foldable, Unfolded
  <2>4. Kind(op) \notin {"jump", "jumpi", "stop", "invalid", "exit"}
    BY <2>1, <2>2, <2>3 DEF Kind, Jumps
  <2> QED BY <1>11, <2>4 DEF Evm!Breaks
<1>14. Left(ops, n, g, q + 1) = l - c.gas
  <2>1. g \in Nat /\ op.gas \in Nat
    BY <1>6, RunFacts, OpFacts
  <2> QED BY <1>1, <1>2, <1>6, <1>10, <1>11, <2>1 DEF Left
<1>15. Height(ops, n, q + 1, p) = h - c.in + c.out
  <2>1. /\ op.stackLoad \in Nat /\ op.in \in Nat /\ op.out \in Nat
        /\ Len(op.cache) \in Nat /\ Takes(op) \in Nat
    BY <1>6, OpFacts
  <2>2. PICK t, t2, d, d2, tk : /\ t = Total(LoadOf(ops), n, q - 1) /\ t2 = Total(LoadOf(ops), n, q)
                                /\ d = Len(op.cache) /\ d2 = Len(op2.cache) /\ tk = Takes(op)
    OBVIOUS
  <2>3. h = p - t + d /\ Height(ops, n, q + 1, p) = p - t2 + d2
    BY <1>2, <1>6, <1>10, <2>2 DEF Height
  <2>4. t2 = t + op.stackLoad /\ t \in Nat /\ d \in Nat /\ tk \in Nat
        /\ d2 = d + op.stackLoad - op.in + op.out
    BY <1>1, <1>6, <1>9, <2>1, <2>2
  <2>5. c.in = tk /\ c.out = tk - op.in + op.out
    BY <1>11, <2>2
  <2>6. PICK ld, in, out : ld = op.stackLoad /\ in = op.in /\ out = op.out
    OBVIOUS
  <2>7. ld \in Nat /\ in \in Nat /\ out \in Nat /\ t \in Nat /\ d \in Nat /\ tk \in Nat /\ p \in Nat
    BY <1>1, <2>1, <2>4, <2>6
  <2>8. t2 = t + ld /\ d2 = d + ld - in + out /\ c.in = tk /\ c.out = tk - in + out
    BY <2>4, <2>5, <2>6
  <2>9. p - t2 + d2 = (p - t + d) - tk + (tk - in + out)
    BY ONLY <2>7, <2>8
  <2> QED BY <2>3, <2>8, <2>9
<1>16. ~Evm!Ended(ops[q + 1].pc)
  BY <1>4 DEF Says
<1>17. Onward(AheadAt(ops, n, q, p, g))
         = [pc |-> Evm!After(op.pc), gas |-> l - c.gas, height |-> h - c.in + c.out,
            ok |-> ~Evm!Ended(Evm!After(op.pc))]
  BY <1>6, <1>10, <1>12, <1>13 DEF Onward, AheadAt
<1>18. (~Evm!Ended(Evm!After(op.pc))) = TRUE
  BY <1>5, <1>6, <1>16
<1>19. Onward(AheadAt(ops, n, q, p, g)) = AheadAt(ops, n, q + 1, p, g)
  BY <1>5, <1>6, <1>14, <1>15, <1>17, <1>18 DEF AheadAt
<1>20. ops[q].pc \in Nat /\ ops[q + 1].pc \in Nat
  BY <1>4 DEF Says
<1>21. ops[q].pc < ops[q + 1].pc
  <2>1. Evm!After(ops[q].pc) = ops[q].pc + Size(bytecode[ops[q].pc + 1])
    BY AfterIs
  <2>2. Size(bytecode[ops[q].pc + 1]) \in Nat \ {0}
    BY SizeOK
  <2> QED BY <1>5, <1>20, <2>1, <2>2
<1> QED
  BY <1>19, <1>20, <1>21

LEMMA AheadOps ==
  ASSUME Ready4Call, NEW j \in DOMAIN code, NEW ops, ops = Ops(j),
         NEW n, NEW e, NEW p, NEW g, RunAt(ops, n, e, p, g), NEW m \in n .. e,
         \A q \in n .. m - 1 : q \notin Bad(ops, n, e, p, g) /\ ~ops[q].breakGasGroup,
         FirstAhead = AheadAt(ops, n, n, p, g), NEW L, L = Len(bytecode), L \in Nat
  PROVE  /\ m - n \in 0 .. L /\ DOMAIN Evm!Ahead = 0 .. L
         /\ Evm!Ahead[m - n] = AheadAt(ops, n, m, p, g)
<1>1. /\ n \in Nat /\ n >= 1 /\ e \in Nat /\ e <= Len(ops) /\ Len(ops) \in Nat /\ m \in Nat
      /\ m - n \in Nat
  BY RunFacts
<1>2. \A q \in n .. m : q \in n .. e /\ q \in 1 .. Len(ops)
  BY <1>1
<1>3. \A q \in n .. m : ops[q].pc \in Nat /\ ops[q].pc < L
  <2>1. \A q \in 1 .. Len(ops) : Says(ops[q])
    BY BlockFacts DEF Ready4Call
  <2> QED BY <1>2, <2>1 DEF Says
<1>4. /\ DOMAIN Evm!Ahead = 0 .. L /\ Evm!Ahead[0] = FirstAhead
      /\ \A d \in 1 .. L : Evm!Ahead[d] = Onward(Evm!Ahead[d - 1])
  BY AheadRec
<1> DEFINE S == {d \in Nat : n + d <= m => /\ Evm!Ahead[d] = AheadAt(ops, n, n + d, p, g)
                                           /\ d <= ops[n + d].pc}
<1>5. 0 \in S
  <2>1. n + 0 = n /\ n \in n .. m
    BY <1>1
  <2> QED BY <1>3, <1>4, <2>1
<1>6. ASSUME NEW d \in S PROVE d + 1 \in S
  <2>1. d \in Nat
    OBVIOUS
  <2>2. SUFFICES ASSUME n + (d + 1) <= m
                 PROVE  /\ Evm!Ahead[d + 1] = AheadAt(ops, n, n + (d + 1), p, g)
                        /\ d + 1 <= ops[n + (d + 1)].pc
    BY <2>1
  <2>3. PICK q : q = n + d
    OBVIOUS
  <2>4. q + 1 = n + (d + 1) /\ q \in n .. m - 1 /\ q \in n .. e /\ q # e /\ q \in n .. m /\ q + 1 \in n .. m
        /\ n + d <= m
    BY <1>1, <2>1, <2>2, <2>3
  <2>5. Evm!Ahead[d] = AheadAt(ops, n, q, p, g) /\ d <= ops[q].pc
    BY <2>3, <2>4
  <2>6. /\ Onward(AheadAt(ops, n, q, p, g)) = AheadAt(ops, n, q + 1, p, g)
        /\ ops[q].pc \in Nat /\ ops[q + 1].pc \in Nat /\ ops[q].pc < ops[q + 1].pc
    BY <2>4, OnwardOp
  <2>7. d + 1 <= ops[q + 1].pc
    BY <2>1, <2>5, <2>6
  <2>8. d + 1 \in 1 .. L /\ (d + 1) - 1 = d
    <3>1. ops[q + 1].pc < L
      BY <1>3, <2>4
    <3> QED BY <2>1, <2>6, <2>7, <3>1
  <2>9. Evm!Ahead[d + 1] = Onward(Evm!Ahead[d])
    BY <1>4, <2>8
  <2> QED BY <2>4, <2>5, <2>6, <2>7, <2>9
<1>7. S \in SUBSET Nat
  OBVIOUS
<1> HIDE DEF S
<1>8. \A d \in Nat : d \in S
  BY <1>5, <1>6, <1>7, Induct
<1>9. PICK d : d = m - n
  OBVIOUS
<1>10. d \in Nat /\ n + d = m /\ n + d <= m
  BY <1>1, <1>9
<1>11. Evm!Ahead[d] = AheadAt(ops, n, m, p, g) /\ d <= ops[m].pc
  BY <1>8, <1>10 DEF S
<1>12. d \in 0 .. L
  <2>1. m \in n .. m
    BY <1>1
  <2> QED BY <1>3, <1>10, <1>11, <2>1
<1> QED
  BY <1>4, <1>9, <1>11, <1>12

LEMMA StepChecksFail ==
  ASSUME Sound, ChecksFail
  PROVE  Evm!EvmNext /\ JitInv'
<1>1. PICK op, ops, n, p, g : /\ ops = Ops(blk) /\ n = next /\ op = ops[n] /\ p = sp /\ g = gasleft
  OBVIOUS
<1>2. /\ Emits /\ Within /\ Checked.code # 0 /\ gasleft' = Checked.gas /\ ctxpc' = Checked.pc
      /\ returned' = TRUE /\ exitcode' = Checked.code /\ blk' = blk /\ mem' = mem
  BY DEF ChecksFail, Return, Emits
<1>3. RunInv /\ mem \in Memory /\ Running /\ blk # 0 /\ Fine /\ JitInv /\ UNCHANGED parsevars
  BY <1>2, WithinInv DEF Sound
<1>4. PICK u \in UnitsOf(blk) : u.index = n /\ Checked = Verdict(u.check, p, g)
  BY <1>1, <1>2, <1>3, EmitsChecked
<1>5. /\ Ready4Call /\ blk \in DOMAIN code /\ n \in 1 .. Len(ops) /\ Ready(ops)
      /\ Says(op) /\ Arrives(ops, n) /\ Sized(blk, n, p) /\ op \in Opcode
  BY <1>1, <1>2, <1>3, OpHere
<1>6. p \in 0 .. StackSize /\ g \in 0 .. CountLimit - 1
  BY <1>1, <1>3 DEF RunInv
<1>7. PICK v : v = Checked
  OBVIOUS
<1>8. v = Verdict(u.check, p, g) /\ v.code # 0
  BY <1>2, <1>4, <1>7
<1>9. PICK e : e = u.last
  OBVIOUS
<1>10. /\ PrepaidAt(blk, n) = 0 /\ RunAt(ops, n, e, p, g)
       /\ \E m \in n .. e :
              /\ m \in Bad(ops, n, e, p, g)
              /\ \A q \in n .. m - 1 : /\ q \notin Bad(ops, n, e, p, g)
                                       /\ ~ops[q].breakGasGroup
              /\ v = IF Poor(ops, n, g, m) THEN Fail(-13, ops[m].pc, Left(ops, n, g, m))
                     ELSE Fail(IF Under(ops, n, p, m) THEN -10 ELSE -11, ops[m].pc,
                               Left(ops, n, g, m + 1))
  BY <1>1, <1>4, <1>5, <1>6, <1>8, <1>9, CheckFails
<1>11. PICK m \in n .. e :
              /\ m \in Bad(ops, n, e, p, g)
              /\ \A q \in n .. m - 1 : /\ q \notin Bad(ops, n, e, p, g)
                                       /\ ~ops[q].breakGasGroup
              /\ v = IF Poor(ops, n, g, m) THEN Fail(-13, ops[m].pc, Left(ops, n, g, m))
                     ELSE Fail(IF Under(ops, n, p, m) THEN -10 ELSE -11, ops[m].pc,
                               Left(ops, n, g, m + 1))
  BY <1>10
<1>12. /\ StackBar = Stk(mem, sp, op.cache, regs)
       /\ PcBar = op.pc /\ GasBar = g + PrepaidAt(blk, n) /\ StatusBar = "running"
  BY <1>1, <1>2, <1>3, BarsHere
<1>13. FirstAhead = AheadAt(ops, n, n, p, g)
  <2>1. GasBar = Left(ops, n, g, n)
    <3>1. Total(GasOf(ops), n, n - 1) = 0
      BY <1>10, RunFacts
    <3> QED BY <1>6, <1>10, <1>12, <3>1 DEF Left
  <2>2. Len(StackBar) = Height(ops, n, n, p)
    <3>1. PICK refs, d : refs = op.cache /\ d = Len(op.cache)
      OBVIOUS
    <3>2. d \in Nat /\ Long(refs, d)
      BY <1>5, <3>1, OpcodeNumbers DEF Deep, Long
    <3>3. p \in Nat
      BY <1>6
    <3>4. PICK m1, rs, S : m1 = mem /\ rs = regs /\ S = Stk(m1, p, refs, rs)
      OBVIOUS
    <3>5. Joined(S, m1, p, refs, d, rs)
      BY <3>2, <3>3, <3>4, StkIs
    <3>6. Len(S) = p + d
      BY <3>5 DEF Joined
    <3>7. Height(ops, n, n, p) = p + Len(ops[n].cache)
      BY <1>5, <3>3, LoadedIs
    <3> QED BY <1>1, <1>12, <3>1, <3>4, <3>6, <3>7
  <2>3. (~Evm!Ended(PcBar)) = TRUE
    BY <1>5, <1>12 DEF Says
  <2>4. PcBar = ops[n].pc
    BY <1>1, <1>12
  <2> QED BY <2>1, <2>2, <2>3, <2>4 DEF FirstAhead, AheadAt
<1>14. PICK L : L = Len(bytecode)
  OBVIOUS
<1>15. L \in Nat
  BY <1>3, <1>14, CodeIsBytes DEF Fine, Faithful
<1>16. PICK d : d = m - n
  OBVIOUS
<1>17. d \in DOMAIN Evm!Ahead /\ Evm!Ahead[d] = AheadAt(ops, n, m, p, g)
  BY <1>1, <1>5, <1>10, <1>11, <1>13, <1>14, <1>15, <1>16, AheadOps
<1>18. m \in 1 .. Len(ops)
  BY <1>10, RunFacts
<1>19. Says(ops[m])
  BY <1>1, <1>5, <1>18, BlockFacts DEF Ready4Call
<1>20. PICK a, c, t : a = AheadAt(ops, n, m, p, g) /\ c = Evm!At(a.pc) /\ t = Evm!Trouble(c, a.gas, a.height)
  OBVIOUS
<1>21. /\ a.ok /\ a.pc = ops[m].pc /\ a.gas = Left(ops, n, g, m) /\ a.height = Height(ops, n, m, p)
  BY <1>20 DEF AheadAt
<1>22. /\ t = IF Poor(ops, n, g, m) THEN -13 ELSE IF Under(ops, n, p, m) THEN -10
              ELSE IF Grew(ops, n, p, m) THEN -11 ELSE 0
       /\ Poor(ops, n, g, m) \/ Under(ops, n, p, m) \/ Grew(ops, n, p, m)
  BY <1>10, <1>11, <1>19, <1>20, <1>21, TroubleIs
<1>23. Left(ops, n, g, m + 1) = a.gas - c.gas
  <2>1. /\ Left(ops, n, g, m + 1) = g - Total(GasOf(ops), n, m)
    BY <1>10, PoorIs
  <2>2. Total(GasOf(ops), n, m) = Total(GasOf(ops), n, m - 1) + ops[m].gas /\ Total(GasOf(ops), n, m - 1) \in Nat
        /\ g \in Nat
    BY <1>10, RunFacts
  <2>3. ops[m].gas \in Nat
    BY <1>10, OpFacts
  <2>4. c.gas = ops[m].gas
    BY <1>19, <1>20, <1>21 DEF Says, SaysAs
  <2> QED BY <1>21, <2>1, <2>2, <2>3, <2>4 DEF Left
<1>24. /\ v.code = t /\ v.pc = a.pc /\ v.gas = IF t = -13 THEN a.gas ELSE a.gas - c.gas
       /\ t # 0
  <2>1. CASE Poor(ops, n, g, m)
    BY <1>11, <1>21, <1>22, <2>1 DEF Fail
  <2>2. CASE ~Poor(ops, n, g, m)
    BY <1>11, <1>21, <1>22, <1>23, <2>2 DEF Fail
  <2> QED BY <2>1, <2>2
<1>25. /\ StackBar' = <<>> /\ PcBar' = 0 /\ GasBar' = gasleft' + 0 /\ StatusBar' = "exited"
       /\ ErrPcBar' = IF exitcode' = 0 THEN 0 ELSE ctxpc'
  BY <1>2, BarsReturn
<1>26. GasBar' = v.gas /\ ErrPcBar' = v.pc /\ exitcode' = v.code
  <2>1. v.gas \in Int
    <3>1. a.gas \in Int /\ c.gas \in Int
      <4>1. Total(GasOf(ops), n, m - 1) \in Nat /\ g \in Nat
        BY <1>10, RunFacts
      <4>2. ops[m].gas \in Nat
        BY <1>10, OpFacts
      <4>3. c.gas = ops[m].gas
        BY <1>19, <1>20, <1>21 DEF Says, SaysAs
      <4> QED BY <1>21, <4>1, <4>2, <4>3 DEF Left
    <3> QED BY <1>24, <3>1
  <2>2. gasleft' = v.gas /\ ctxpc' = v.pc /\ exitcode' = v.code /\ v.code # 0
    BY <1>2, <1>7
  <2>3. v.gas + 0 = v.gas
    BY <2>1
  <2>4. GasBar' = v.gas + 0
    BY <1>25, <2>2
  <2> QED BY <1>25, <2>2, <2>3, <2>4
<1>27. bytecode' = bytecode
  BY <1>3, ParsedStays
<1>28. Evm!Fail(t, a.pc, IF t = -13 THEN a.gas ELSE a.gas - c.gas)
  BY <1>24, <1>25, <1>26 DEF Evm!Fail, Evm!Leave
<1>29. Evm!Abort
  BY <1>12, <1>17, <1>20, <1>21, <1>24, <1>27, <1>28 DEF Evm!Abort
<1>30. JitInv'
  <2>1. mem' \in Memory
    BY <1>2, <1>3
  <2> QED BY <1>2, <1>3, <2>1, InvReturn
<1> QED
  BY <1>29, <1>30 DEF Evm!EvmNext

-----------------------------------------------------------------------------
(* Opcodes that end a run of opcodes.                                      *)
LEMMA Closes ==
  ASSUME NEW op, NEW left, Here(op, left), op.breakGasGroup
  PROVE  PrepaidAt(blk, next + 1) = 0 /\ Evm!Left = left /\ left \in Nat
<1>1. PICK ops, n : ops = Ops(blk) /\ n = next /\ op = ops[n]
  BY DEF Here
<1>2. Fine /\ RunInv /\ Within
  BY DEF Here
<1>3. Ready4Call /\ blk \in DOMAIN code /\ n \in 1 .. Len(ops) /\ Arrives(ops, n)
  BY <1>1, <1>2, OpHere
<1>4. OpenAt(blk, n + 1) = {}
  BY <1>1, <1>3, PrepaidStep
<1>5. PrepaidAt(blk, n + 1) = 0
  BY <1>4 DEF PrepaidAt
<1>6. Evm!Left = left + PrepaidAt(blk, next + 1)
  BY Executing
<1>7. left \in Nat
  <2>1. left \in 0 .. CountLimit - 1
    BY DEF Here, Goes
  <2> QED BY <2>1
<1> QED
  BY <1>1, <1>5, <1>6, <1>7

LEMMA Leaves ==
  ASSUME NEW op, NEW left, Here(op, left), blk' = blk, returned' = TRUE, mem' = mem
  PROVE  /\ JitInv'
         /\ StackBar' = <<>> /\ PcBar' = 0 /\ GasBar' = gasleft' + 0 /\ StatusBar' = "exited"
         /\ ErrPcBar' = IF exitcode' = 0 THEN 0 ELSE ctxpc'
<1>1. JitInv /\ RunInv /\ Within /\ UNCHANGED parsevars /\ Fine
  BY DEF Here
<1>2. mem' \in Memory /\ Running
  BY <1>1 DEF JitInv, Within
<1>3. blk # 0
  BY <1>1, WithinInv DEF Sound
<1>4. JitInv'
  BY <1>1, <1>2, <1>3, InvReturn
<1> QED
  BY <1>4, BarsReturn

LEMMA StepStop ==
  ASSUME Sound, Stop \/ Invalid
  PROVE  Evm!EvmNext /\ JitInv'
<1>1. PICK op, left, c : op = Op /\ left = Checked.gas /\ c = IF Stop THEN 0 ELSE -14
  OBVIOUS
<1>2. /\ Emits /\ Checked.code = 0 /\ op.name = (IF Stop THEN "stop" ELSE "invalid")
      /\ exitcode' = c /\ returned' = TRUE /\ blk' = blk /\ gasleft' = left
      /\ ctxpc' = op.pc /\ mem' = mem
  BY <1>1 DEF Stop, Invalid, Runs, Leave, Return
<1>3. Here(op, left)
  BY <1>1, <1>2, EmitsHere
<1>4. /\ Stands(op, After1, mem, sp, regs) /\ PcBar = op.pc
      /\ Evm!Executes(Kind(op)) /\ SaysAs(op, Evm!At(PcBar))
  BY <1>3, Executing
<1>5. op.isExitOpcode /\ op.breakGasGroup /\ Kind(op) = op.name
  BY <1>2, <1>4 DEF Stands, Effect, Kind
<1>6. Evm!Left = left /\ left \in Nat
  BY <1>3, <1>5, Closes
<1>7. /\ JitInv'
      /\ StackBar' = <<>> /\ PcBar' = 0 /\ GasBar' = gasleft' + 0 /\ StatusBar' = "exited"
      /\ ErrPcBar' = IF exitcode' = 0 THEN 0 ELSE ctxpc'
  BY <1>2, <1>3, Leaves
<1>8. GasBar' = Evm!Left
  BY <1>2, <1>6, <1>7
<1>9. CASE Stop
  <2>1. Evm!Halt(Evm!Left)
    BY <1>1, <1>2, <1>7, <1>8, <1>9 DEF Evm!Halt, Evm!Leave
  <2>2. Evm!Stop
    BY <1>2, <1>4, <1>5, <1>9, <2>1 DEF Evm!Stop
  <2> QED BY <1>7, <2>2 DEF Evm!EvmNext
<1>10. CASE ~Stop
  <2>1. exitcode' = -14 /\ ErrPcBar' = PcBar
    BY <1>1, <1>2, <1>4, <1>7, <1>10
  <2>2. Evm!Fail(-14, PcBar, Evm!Left)
    BY <1>7, <1>8, <2>1 DEF Evm!Fail, Evm!Leave
  <2>3. Evm!Invalid
    BY <1>2, <1>4, <1>5, <1>10, <2>2 DEF Evm!Invalid
  <2> QED BY <1>7, <2>3 DEF Evm!EvmNext
<1> QED
  BY <1>9, <1>10

-----------------------------------------------------------------------------
(* Callbacks.                                                              *)
LEMMA CallReturnsError ==
  ASSUME NEW op, NEW left, Here(op, left), op.name = "call", NEW use \in Uses, use <= left,
         NEW ret \in Rets, gasleft' = left - use, ctxpc' = op.pc, mem' = mem, Return(ret)
  PROVE  Evm!EvmNext /\ JitInv'
<1>1. /\ PcBar = op.pc /\ Evm!Executes(Kind(op)) /\ Evm!Left = left + PrepaidAt(blk, next + 1)
  BY Executing
<1>2. left \in Nat /\ use \in Nat /\ PrepaidAt(blk, next + 1) \in Nat
  <2>1. left \in 0 .. CountLimit - 1 /\ PrepaidAt(blk, next + 1) \in Nat
    BY DEF Here, Goes
  <2> QED BY <2>1, CallAssumption
<1>3. /\ JitInv'
      /\ StackBar' = <<>> /\ PcBar' = 0 /\ GasBar' = gasleft' + 0 /\ StatusBar' = "exited"
      /\ ErrPcBar' = IF exitcode' = 0 THEN 0 ELSE ctxpc'
  BY Leaves DEF Return
<1>4. PICK g : g = left - use
  OBVIOUS
<1>5. g \in 0 .. Evm!Left /\ GasBar' = g
  BY <1>1, <1>2, <1>3, <1>4
<1>6. exitcode' = ret /\ ret # 0
  BY CallAssumption DEF Return
<1>7. Evm!Fail(ret, PcBar, g)
  BY <1>1, <1>3, <1>5, <1>6 DEF Evm!Fail, Evm!Leave
<1>8. Evm!CallFails
  BY <1>5, <1>7 DEF Evm!CallFails
<1>9. Kind(op) = "call" \/ Kind(op) = "exit"
  BY DEF Kind
<1>10. Evm!Call \/ Evm!Exit
  BY <1>1, <1>8, <1>9 DEF Evm!Call, Evm!Exit
<1> QED
  BY <1>3, <1>10 DEF Evm!EvmNext

LEMMA CallExits ==
  ASSUME NEW op, NEW left, Here(op, left), op.name = "call", op.isExitOpcode,
         NEW use \in Uses, use <= left,
         gasleft' = left - use, mem' = mem, Return(0)
  PROVE  Evm!EvmNext /\ JitInv'
<1>1. /\ Evm!Executes(Kind(op)) /\ Stands(op, After1, mem, sp, regs)
  BY Executing
<1>2. op.breakGasGroup /\ Kind(op) = "exit"
  BY <1>1 DEF Stands, Effect, Kind
<1>3. Evm!Left = left /\ left \in Nat /\ use \in Nat
  BY <1>2, Closes, CallAssumption
<1>4. /\ JitInv'
      /\ StackBar' = <<>> /\ PcBar' = 0 /\ GasBar' = gasleft' + 0 /\ StatusBar' = "exited"
      /\ ErrPcBar' = IF exitcode' = 0 THEN 0 ELSE ctxpc'
  BY Leaves DEF Return
<1>5. exitcode' = 0 /\ ErrPcBar' = 0
  BY <1>4 DEF Return
<1>6. GasBar' = Evm!Left - use /\ use <= Evm!Left
  BY <1>3, <1>4
<1>7. Evm!Halt(Evm!Left - use)
  BY <1>4, <1>5, <1>6 DEF Evm!Halt, Evm!Leave
<1>8. Evm!Exit
  BY <1>1, <1>2, <1>6, <1>7 DEF Evm!Exit
<1> QED
  BY <1>4, <1>8 DEF Evm!EvmNext

LEMMA CallContinues ==
  ASSUME NEW op, NEW left, Here(op, left), op.name = "call", ~op.isExitOpcode,
         ~op.isUnnecessary,
         NEW use \in Uses, use <= left, NEW out \in [0 .. op.out - 1 -> Outs],
         gasleft' = left - use, sp' = sp - op.stackLoad, mem' = mem, ctxpc' = op.pc,
         next' = next + 1, blk' = blk, returned' = returned, exitcode' = exitcode,
         regs' = Resulting([r \in {Res(op.id, k) : k \in DOMAIN out} |-> out[r[3]]],
                           op, mem, sp, regs)
  PROVE  Evm!EvmNext /\ JitInv'
<1>1. PICK ops, n, b : ops = Ops(blk) /\ n = next /\ b = code[blk].branch
  OBVIOUS
<1>2. /\ Fine /\ RunInv /\ Within /\ JitInv /\ UNCHANGED parsevars /\ op = ops[n]
      /\ Goes(op, left) /\ op = Ops(blk)[next] /\ mem \in Memory
  BY <1>1 DEF Here, JitInv
<1>3. /\ Evm!After(PcBar) = NextPc(b, n) /\ Evm!Left = left + PrepaidAt(blk, n + 1)
      /\ exitcode = 0 /\ ErrPcBar = 0 /\ Evm!Executes(Kind(op)) /\ PcBar = op.pc
      /\ Stands(op, After1, mem, sp, regs) /\ StackBar = Stk(mem, sp, op.cache, regs)
      /\ SaysAs(op, Evm!At(PcBar)) /\ Says(op)
  BY <1>1, Executing
<1>4. /\ Kind(op) = "call" /\ op.in \in Nat /\ op.out \in Nat /\ op.id \in Nat
      /\ Evm!At(PcBar).in = op.in /\ Evm!At(PcBar).out = op.out
  <2>1. op.in \in Nat /\ op.out \in Nat /\ op.id \in Nat
    BY <1>3, OpcodeNumbers DEF Stands
  <2>2. Takes(op) = op.in
    BY DEF Takes
  <2> QED BY <1>3, <2>1, <2>2 DEF SaysAs, Kind
<1>5. PICK out2 : out2 = [k \in 1 .. op.out |-> out[k - 1]]
  OBVIOUS
<1>6. /\ out2 \in [1 .. op.out -> Outs] /\ out2 \in Seq(Words) /\ Len(out2) = op.out
      /\ \A k \in 1 .. op.out : k - 1 \in 0 .. op.out - 1 /\ out2[k] = out[k - 1]
  <2>1. PICK o : o = op.out /\ o \in Nat
    BY <1>4
  <2>2. \A k \in 1 .. o : k - 1 \in 0 .. o - 1
    BY <2>1
  <2>3. out2 \in [1 .. o -> Outs]
    BY <1>5, <2>1, <2>2
  <2>4. out2 \in [1 .. o -> Words]
    BY <2>3, CallAssumption
  <2>6. out2 \in UNION {[1 .. m -> Words] : m \in Nat}
    BY <2>1, <2>4
  <2>7. out2 \in Seq(Words)
    BY <2>6, SeqDef
  <2>5. out2 \in Seq(Words) /\ Len(out2) = o
    <3>1. DOMAIN out2 = 1 .. Len(out2) /\ Len(out2) \in Nat
      BY <2>7, LenProperties
    <3>2. DOMAIN out2 = 1 .. o
      BY <2>4
    <3>3. PICK l : l = Len(out2)
      OBVIOUS
    <3>4. 1 .. l = 1 .. o /\ l \in Nat /\ o \in Nat
      BY <2>1, <3>1, <3>2, <3>3
    <3>5. l = o
      BY ONLY <3>4
    <3> QED BY <2>7, <3>3, <3>5
  <2> QED BY <1>5, <2>1, <2>2, <2>3, <2>5
<1> DEFINE f == [r \in {Res(op.id, k) : k \in DOMAIN out} |-> out[r[3]]]
<1>7. /\ \A r \in DOMAIN f : r[2] = op.id /\ ~IsConst(r)
      /\ \A k \in 0 .. op.out - 1 : Res(op.id, k) \in DOMAIN f /\ f[Res(op.id, k)] = out[k]
  <2>1. DOMAIN out = 0 .. op.out - 1
    OBVIOUS
  <2> QED BY <2>1 DEF Res, IsConst
<1>8. PICK rs2 : rs2 = regs'
  OBVIOUS
<1>9. rs2 = Resulting(f, op, mem, sp, regs)
  BY <1>8
<1> HIDE DEF f
<1>10. /\ Extends(rs2, regs, op.id)
       /\ \A r \in DOMAIN f : Val(r, rs2) = f[r] /\ r \in DOMAIN rs2
  BY <1>7, <1>9, ResultingExtends
<1>11. \A k \in 1 .. op.out : /\ Res(op.id, k - 1) \in DOMAIN rs2
                              /\ Val(Res(op.id, k - 1), rs2) = out2[k]
  BY <1>6, <1>7, <1>10
<1>12. op.name \notin {"push", "pc", "dup", "swap"}
  OBVIOUS
<1>13. PICK after : after = After1
  OBVIOUS
<1>14. Stands(op, after, mem, sp, regs)
  BY <1>3, <1>13
<1>15. Gives(op, after, mem, sp, regs, rs2, out2)
  BY <1>6, <1>10, <1>11, <1>12, <1>14, ResultsGive
<1>16. PICK S, T : S = StackBar /\ T = Stk(mem, sp - op.stackLoad, after, rs2)
  OBVIOUS
<1>17. Holds(after, rs2) /\ Outcome(op, S, T, out2)
  BY <1>3, <1>15, <1>16, GivesStk
<1>18. left \in Nat /\ use \in Nat /\ PrepaidAt(blk, n + 1) \in Nat
  <2>1. left \in 0 .. CountLimit - 1 /\ PrepaidAt(blk, next + 1) \in Nat
    BY <1>2 DEF Goes
  <2> QED BY <1>1, <2>1, CallAssumption
<1>19. gasleft' \in 0 .. left
  BY <1>18
<1>20. ctxpc' \in 0 .. Len(bytecode)
  <2>1. op.pc \in Nat /\ op.pc < Len(bytecode)
    BY <1>3 DEF Says
  <2>2. Len(bytecode) \in Nat
    BY <1>2, CodeIsBytes DEF Fine, Faithful
  <2> QED BY <2>1, <2>2
<1>21. op.name # "jump" /\ mem' \in Memory
  BY <1>2
<1>22. Holds(After1, regs')
  BY <1>8, <1>13, <1>17
<1>23. JitInv' /\ RunInv'
  BY <1>2, <1>19, <1>20, <1>21, <1>22, InvNext
<1>24. /\ Running /\ blk \in DOMAIN code /\ n \in 1 .. Len(ops) /\ Len(ops) \in Nat /\ Arrives(ops, n)
  BY <1>1, <1>2, OpHere
<1>25. Arrives(ops, n + 1)
  <2>4. \A k \in 1 .. n : k \in 1 .. n - 1 \/ k = n
    BY <1>24
  <2>5. (n + 1) - 1 = n
    BY <1>24
  <2>6. \A k \in 1 .. n : ~ops[k].isExitOpcode
    BY <1>2, <1>24, <2>4 DEF Arrives
  <2> QED BY <2>5, <2>6 DEF Arrives
<1>26. /\ StackBar' = Stk(mem', sp', CacheAt(branches[b], n + 1), regs')
       /\ PcBar' = NextPc(b, n)
       /\ GasBar' = gasleft' + PrepaidAt(blk, n + 1)
       /\ StatusBar' = "running"
  BY <1>1, <1>2, <1>24, <1>25, BarsNext
<1>27. after = CacheAt(branches[b], n + 1)
  BY <1>1, <1>13 DEF After1
<1>28. StackBar' = T
  BY <1>8, <1>16, <1>26, <1>27
<1>29. StatusBar = "running"
  BY <1>3 DEF Evm!Executes
<1>30. exitcode' = exitcode /\ ErrPcBar' = ErrPcBar
  BY <1>3 DEF ErrPcBar
<1>31. GasBar' = Evm!Left - use /\ use <= Evm!Left
  BY <1>3, <1>18, <1>26
<1>32. T = Evm!Below(op.in) \o out2
  BY <1>16, <1>17 DEF Outcome, Evm!Below
<1>33. out2 \in [1 .. Evm!At(PcBar).out -> Outs]
  BY <1>4, <1>6
<1>34. Evm!Call
  BY <1>3, <1>4, <1>26, <1>28, <1>29, <1>30, <1>31, <1>32, <1>33 DEF Evm!Call
<1> QED
  BY <1>23, <1>34 DEF Evm!EvmNext

LEMMA StepCallback ==
  ASSUME Sound, Callback
  PROVE  Evm!EvmNext /\ JitInv'
<1>1. PICK op, left : op = Op /\ left = Checked.gas
  OBVIOUS
<1>2. /\ Emits /\ Checked.code = 0 /\ op.name = "call" /\ ctxpc' = op.pc /\ mem' = mem
  BY <1>1 DEF Callback, Runs
<1>3. Here(op, left) /\ ~op.isUnnecessary
  BY <1>1, <1>2, EmitsHere
<1>4. RunInv /\ Within /\ Fine /\ op = Ops(blk)[next]
  BY <1>3 DEF Here
<1>5. RegsAfterLoad = LoadedRegs(op, mem, sp, regs)
  BY <1>1 DEF RegsAfterLoad, LoadedRegs
<1>6. PICK use \in Uses :
        /\ use <= left
        /\ gasleft' = left - use /\ sp' = sp - op.stackLoad
        /\ \/ \E out \in [0 .. op.out - 1 -> Outs] :
                /\ ~op.isExitOpcode
                /\ next' = next + 1
                /\ regs' = Defining([r \in {Res(op.id, k) : k \in DOMAIN out} |-> out[r[3]]],
                                    RegsAfterLoad)
                /\ UNCHANGED <<blk, returned, exitcode>>
           \/ /\ op.isExitOpcode /\ 0 \in ExitRets
              /\ IF blk = Len(code) THEN Return(0) ELSE Enter(blk + 1)
           \/ \E ret \in (IF op.isExitOpcode THEN ExitRets \ {0} ELSE Rets) : Return(ret)
  BY <1>1 DEF Callback, SpAfterLoad
<1>7. CASE \E out \in [0 .. op.out - 1 -> Outs] :
                /\ ~op.isExitOpcode
                /\ next' = next + 1
                /\ regs' = Defining([r \in {Res(op.id, k) : k \in DOMAIN out} |-> out[r[3]]],
                                    RegsAfterLoad)
                /\ UNCHANGED <<blk, returned, exitcode>>
  <2>1. PICK out \in [0 .. op.out - 1 -> Outs] :
                /\ ~op.isExitOpcode
                /\ next' = next + 1
                /\ regs' = Defining([r \in {Res(op.id, k) : k \in DOMAIN out} |-> out[r[3]]],
                                    RegsAfterLoad)
                /\ UNCHANGED <<blk, returned, exitcode>>
    BY <1>7
  <2>2. regs' = Resulting([r \in {Res(op.id, k) : k \in DOMAIN out} |-> out[r[3]]],
                          op, mem, sp, regs)
    BY <1>5, <2>1 DEF Resulting
  <2> QED BY <1>2, <1>3, <1>6, <2>1, <2>2, CallContinues
<1>8. CASE op.isExitOpcode /\ 0 \in ExitRets /\ IF blk = Len(code) THEN Return(0) ELSE Enter(blk + 1)
  <2>1. PICK u \in UnitsOf(blk) : SameOp(op, u.op)
    BY <1>2, <1>4, EmitsChecked
  <2>2. u.op.name = "call" /\ u.op.isExitOpcode
    BY <1>2, <1>8, <2>1 DEF SameOp
  <2>3. blk \in DOMAIN code
    BY <1>4 DEF Within
  <2>4. blk = Len(code)
    BY <1>4, <1>8, <2>2, <2>3 DEF RunInv, Covered
  <2>5. Return(0)
    BY <1>8, <2>4
  <2> QED BY <1>2, <1>3, <1>6, <1>8, <2>5, CallExits
<1>9. CASE \E ret \in (IF op.isExitOpcode THEN ExitRets \ {0} ELSE Rets) : Return(ret)
  <2>1. PICK ret \in Rets : Return(ret)
    BY <1>9, CallAssumption
  <2> QED BY <1>2, <1>3, <1>6, <2>1, CallReturnsError
<1> QED
  BY <1>6, <1>7, <1>8, <1>9

-----------------------------------------------------------------------------
(* Branches, and where they start.                                         *)
LEMMA BranchStarts ==
  ASSUME Fine
  PROVE  /\ Read /\ bytecode \in Seq(0 .. 255) /\ Len(bytecode) \in Nat
         /\ Len(branches) \in Nat /\ DOMAIN branches = 1 .. Len(branches)
         /\ \A b \in DOMAIN branches :
              /\ Has(branches, b, 1) /\ branches[b].opcodes[1].pc = branches[b].pc
              /\ branches[b].pc \in Nat
              /\ branches[b].opcodes[1].name = "jumpdest" <=> ~(b = 1 /\ noinitjump)
         /\ branches # <<>> => branches[1].pc = 0
<1>1. Read /\ Told /\ bytecode \in Codes /\ Built
  BY DEF Fine, Faithful, GenInv
<1>2. bytecode \in Seq(0 .. 255) /\ Len(bytecode) \in Nat
  BY <1>1, CodeIsBytes
<1>3. /\ Len(branches) \in Nat /\ DOMAIN branches = 1 .. Len(branches)
      /\ \A b \in DOMAIN branches : branches[b].pc \in Nat
  BY <1>1, BuiltFacts
<1>4. \A b \in DOMAIN branches : Has(branches, b, 1)
  <2> TAKE b \in DOMAIN branches
  <2>1. IsSeq(branches[b].opcodes) /\ branches[b].opcodes # <<>>
    BY <1>1 DEF Read, IsBuilt
  <2> QED BY <2>1, SeqFacts DEF Has
<1> QED
  BY <1>1, <1>2, <1>3, <1>4 DEF Told

LEMMA PcsApart ==
  ASSUME Fine, NEW b \in DOMAIN branches, NEW d \in DOMAIN branches, branches[b].pc = branches[d].pc
  PROVE  b = d
<1>1. /\ Has(branches, b, 1) /\ Has(branches, d, 1)
      /\ branches[b].opcodes[1].pc = branches[d].opcodes[1].pc
  BY BranchStarts
<1>2. OpcodesAreRead
  BY BranchStarts DEF Read
<1> QED
  BY <1>1, <1>2 DEF OpcodesAreRead

(* The jump targets are the branches that have a label.                    *)
LEMMA TargetIs ==
  ASSUME Fine, phase = "done", NEW d
  PROVE  /\ d \in Evm!JumpTargets <=> \E b \in DOMAIN branches : branches[b].pc = d /\ Labelled(b)
         /\ d \in Evm!JumpTargets => d \in Nat /\ d < PcLimit /\ JumpPc(d) = d /\ d < JumpLimit
<1>1. /\ Read /\ bytecode \in Seq(0 .. 255) /\ Len(bytecode) \in Nat
      /\ \A b \in DOMAIN branches :
              /\ Has(branches, b, 1) /\ branches[b].opcodes[1].pc = branches[b].pc
              /\ branches[b].pc \in Nat
              /\ branches[b].opcodes[1].name = "jumpdest" <=> ~(b = 1 /\ noinitjump)
      /\ branches # <<>> => branches[1].pc = 0
      /\ DOMAIN branches = 1 .. Len(branches) /\ Len(branches) \in Nat
  BY BranchStarts
<1>2. OpcodesAreRead /\ bytecode \in Codes /\ i >= Len(bytecode)
  BY <1>1 DEF Read, Fine, Faithful
<1>3. Evm!JumpTargets = JumpDests(bytecode)
  BY TargetsAre
<1>4. Starts(bytecode) \subseteq 0 .. Len(bytecode) - 1
  BY <1>1, StartsRec
<1>5. \A b \in DOMAIN branches : Labelled(b) <=> ~(branches[b].pc = 0 /\ noinitjump)
  BY <1>1 DEF Labelled
<1>6. \A b \in DOMAIN branches : branches[b].pc = 0 => b = 1
  <2> TAKE b \in DOMAIN branches
  <2>1. branches # <<>> /\ 1 \in DOMAIN branches
    BY <1>1
  <2> QED BY <1>1, <2>1, PcsApart
<1>7. \A b \in DOMAIN branches : Labelled(b) <=> branches[b].opcodes[1].name = "jumpdest"
  <2> TAKE b \in DOMAIN branches
  <2>1. b = 1 => branches[b].pc = 0
    BY <1>1
  <2> QED BY <1>1, <1>5, <1>6, <2>1
<1>8. ASSUME NEW b \in DOMAIN branches, branches[b].pc = d, Labelled(b)
      PROVE  d \in JumpDests(bytecode)
  <2>1. branches[b].opcodes[1].name = "jumpdest" /\ Has(branches, b, 1) /\ branches[b].opcodes[1].pc = d
    BY <1>1, <1>7, <1>8
  <2>2. PICK op : op = branches[b].opcodes[1]
    OBVIOUS
  <2>3. op.pc \in Starts(bytecode) /\ Reads(op, bytecode)
    BY <1>2, <2>1, <2>2 DEF OpcodesAreRead
  <2>4. d \in Starts(bytecode) /\ bytecode[d + 1] = 91
    BY <2>1, <2>2, <2>3 DEF Reads
  <2> QED BY <2>4 DEF JumpDests
<1>9. ASSUME d \in JumpDests(bytecode)
      PROVE  /\ \E b \in DOMAIN branches : branches[b].pc = d /\ Labelled(b)
             /\ d \in Nat /\ d < Len(bytecode)
  <2>1. d \in Starts(bytecode) /\ bytecode[d + 1] = 91
    BY <1>9 DEF JumpDests
  <2>2. d \in Nat /\ d < Len(bytecode)
    BY <1>1, <1>4, <2>1
  <2>3. Size(bytecode[d + 1]) = 1
    BY <2>1 DEF Size, PushSize, PushBytes
  <2>4. d + Size(bytecode[d + 1]) <= Len(bytecode)
    BY <1>1, <2>2, <2>3
  <2>5. PICK b, k : Has(branches, b, k) /\ branches[b].opcodes[k].pc = d
    BY <1>1, <1>2, <2>1, <2>4, ReadAll
  <2>6. PICK op : op = branches[b].opcodes[k]
    OBVIOUS
  <2>7. Reads(op, bytecode) /\ (op.name = "jumpdest" => k = 1 /\ branches[b].pc = op.pc)
    BY <1>2, <2>5, <2>6 DEF OpcodesAreRead
  <2>8. op.name = "jumpdest"
    BY <2>1, <2>5, <2>6, <2>7 DEF Reads
  <2>9. b \in DOMAIN branches /\ k = 1 /\ branches[b].pc = d
    BY <2>5, <2>6, <2>7, <2>8 DEF Has
  <2>10. Labelled(b)
    BY <1>7, <2>6, <2>8, <2>9
  <2> QED BY <2>2, <2>9, <2>10
<1>10. d \in JumpDests(bytecode) => d \in Nat /\ d < PcLimit /\ JumpPc(d) = d /\ d < JumpLimit
  <2> SUFFICES ASSUME d \in JumpDests(bytecode)
               PROVE  d \in Nat /\ d < PcLimit /\ JumpPc(d) = d /\ d < JumpLimit
    OBVIOUS
  <2>1. d \in Nat /\ d < Len(bytecode)
    BY <1>9
  <2>2. Len(bytecode) <= MaxPc
    BY <1>2, CodesAssumption
  <2>3. /\ MaxPc \in Nat /\ MaxPc < PcLimit /\ PcLimit \in Nat \ {0} /\ PcLimit <= IntLimit
        /\ IntLimit \in Nat /\ JumpLimit \in Nat /\ PcLimit <= JumpLimit
    BY LimitsAssumption, CallAssumption
  <2>4. d < PcLimit /\ d < IntLimit /\ d < JumpLimit
    BY <1>1, <2>1, <2>2, <2>3
  <2>5. d % PcLimit = d
    BY <2>1, <2>3, <2>4
  <2> QED BY <2>1, <2>4, <2>5 DEF JumpPc
<1> QED
  BY <1>3, <1>8, <1>9, <1>10

LEMMA CodeFacts ==
  ASSUME Fine, phase = "done"
  PROVE  /\ Len(code) \in Nat /\ DOMAIN code = 1 .. Len(code)
         /\ \A j \in DOMAIN code : /\ code[j].branch \in DOMAIN branches
                                   /\ code[j].pc = branches[code[j].branch].pc
                                   /\ code[j].label = Labelled(code[j].branch)
         /\ \A j, k \in DOMAIN code : j < k => code[j].branch < code[k].branch
         /\ Len(branches) \in Nat /\ DOMAIN branches = 1 .. Len(branches)
         /\ \A b \in DOMAIN branches : Dead(b) \/ \E j \in DOMAIN code : code[j].branch = b
<1>1. Loop /\ Blocks /\ Visited
  BY DEF Fine, GenInv
<1>2. Len(code) \in Nat /\ DOMAIN code = 1 .. Len(code)
  BY <1>1, LenProperties DEF Blocks
<1>3. Len(branches) \in Nat /\ DOMAIN branches = 1 .. Len(branches)
  BY BranchStarts
<1>4. \A j \in DOMAIN code : /\ code[j].branch \in DOMAIN branches
                             /\ code[j].pc = branches[code[j].branch].pc
                             /\ code[j].label = Labelled(code[j].branch)
  BY <1>1 DEF Blocks, Block
<1>5. \A j, k \in DOMAIN code : j < k => code[j].branch < code[k].branch
  BY <1>1 DEF Blocks
<1>6. \A b \in DOMAIN branches : Passed(b)
  <2>1. at[1] > Len(branches) /\ at[1] \in Nat
    BY <1>1 DEF Loop
  <2> QED BY <1>3, <2>1 DEF Passed
<1>7. \A b \in DOMAIN branches : Dead(b) \/ \E j \in DOMAIN code : code[j].branch = b
  BY <1>1, <1>6 DEF Visited
<1> QED
  BY <1>2, <1>3, <1>4, <1>5, <1>7

(* The code begins with the block at 0, ...                                *)
LEMMA FirstEntry ==
  ASSUME Fine, phase = "done"
  PROVE  EntryPc(1) = 0
<1>1. /\ Len(code) \in Nat /\ DOMAIN code = 1 .. Len(code)
      /\ \A j \in DOMAIN code : /\ code[j].branch \in DOMAIN branches
                                /\ code[j].pc = branches[code[j].branch].pc
      /\ \A j, k \in DOMAIN code : j < k => code[j].branch < code[k].branch
      /\ Len(branches) \in Nat /\ DOMAIN branches = 1 .. Len(branches)
      /\ \A b \in DOMAIN branches : Dead(b) \/ \E j \in DOMAIN code : code[j].branch = b
  BY CodeFacts
<1>2. /\ Read /\ bytecode \in Seq(0 .. 255) /\ Len(bytecode) \in Nat
      /\ branches # <<>> => branches[1].pc = 0
  BY BranchStarts
<1>3. CASE 1 \in DOMAIN branches
  <2>1. branches # <<>> /\ branches[1].pc = 0
    BY <1>2, <1>3
  <2>2. ~Dead(1)
    BY <2>1 DEF Dead
  <2>3. PICK j \in DOMAIN code : code[j].branch = 1
    BY <1>1, <1>3, <2>2
  <2>4. 1 \in DOMAIN code /\ j >= 1 /\ j \in Nat
    BY <1>1, <2>3
  <2>5. j = 1
    <3>1. code[1].branch >= 1
      BY <1>1, <2>4
    <3>2. code[1].branch \in Nat
      BY <1>1, <2>4
    <3>3. ~(1 < j)
      BY <1>1, <2>3, <2>4, <3>1, <3>2
    <3> QED BY <2>4, <3>3
  <2> QED BY <1>1, <2>1, <2>3, <2>4, <2>5 DEF EntryPc
<1>4. CASE 1 \notin DOMAIN branches
  <2>1. DOMAIN branches = {}
    BY <1>1, <1>4
  <2>2. 1 \notin DOMAIN code
    BY <1>1, <2>1
  <2>3. Position /\ OpcodesAreRead /\ i >= Len(bytecode)
    BY <1>2 DEF Read, Fine, Faithful
  <2>4. /\ Starts(bytecode) \subseteq 0 .. Len(bytecode) - 1
        /\ \A o \in 0 .. Len(bytecode) - 1 : o = 0 => o \in Starts(bytecode)
    BY <1>2, StartsRec
  <2>5. \A o \in Starts(bytecode) : ~(o < pccount)
    BY <2>1, <2>3 DEF OpcodesAreRead, Has
  <2>6. pccount \in Nat
    BY <1>2, <2>3, <2>4 DEF Position
  <2>7. i = Len(bytecode)
    BY <1>2, <2>3 DEF Position
  <2>8. CASE Len(bytecode) = 0
    BY <1>2, <2>3, <2>4, <2>7, <2>8, <2>2 DEF Position, EntryPc
  <2>9. CASE Len(bytecode) # 0
    <3>1. 0 \in 0 .. Len(bytecode) - 1
      BY <1>2, <2>9
    <3>2. ~(0 < pccount)
      BY <2>4, <2>5, <3>1
    <3> QED BY <2>2, <2>6, <3>2 DEF EntryPc
  <2> QED BY <2>8, <2>9
<1> QED
  BY <1>3, <1>4

(* ... goes on from a block to the next if control does, ...               *)
LEMMA NextEntry ==
  ASSUME Ready4Call, NEW j \in DOMAIN code, NEW b, b = code[j].branch, FallsThrough(b)
  PROVE  /\ EntryPc(j + 1) = IF b < Len(branches) THEN branches[b + 1].pc ELSE pccount
         /\ j + 1 \in 1 .. Len(code) + 1
<1>1. /\ Len(code) \in Nat /\ DOMAIN code = 1 .. Len(code)
      /\ \A k \in DOMAIN code : /\ code[k].branch \in DOMAIN branches
                                /\ code[k].pc = branches[code[k].branch].pc
      /\ \A k, l \in DOMAIN code : k < l => code[k].branch < code[l].branch
      /\ Len(branches) \in Nat /\ DOMAIN branches = 1 .. Len(branches)
  BY CodeFacts DEF Ready4Call
<1>2. j \in Nat /\ j >= 1 /\ j <= Len(code) /\ b \in Nat /\ b >= 1 /\ b <= Len(branches)
      /\ b \in DOMAIN branches
  BY <1>1
<1>3. j + 1 \in 1 .. Len(code) + 1
  BY <1>1, <1>2
<1>4. CASE b < Len(branches)
  <2>1. b + 1 \in DOMAIN branches
    BY <1>1, <1>2, <1>4
  <2>2. PICK k \in DOMAIN code : code[k].pc = branches[b + 1].pc
    BY <1>4 DEF Ready4Call, Covered, LiveBranchesKept
  <2>3. PICK c : c = code[k].branch
    OBVIOUS
  <2>4. c \in DOMAIN branches /\ branches[c].pc = branches[b + 1].pc
    BY <1>1, <2>2, <2>3
  <2>5. c = b + 1
    BY <2>1, <2>4, PcsApart DEF Ready4Call
  <2>6. k \in Nat /\ k >= 1 /\ k <= Len(code)
    BY <1>1
  <2>7. ~(k < j) /\ k # j
    <3>1. k < j => c < b
      BY <1>1, <2>3
    <3>2. c # b /\ ~(c < b)
      BY <1>2, <2>5
    <3>3. k # j
      BY <2>3, <3>2
    <3> QED BY <3>1, <3>2, <3>3
  <2>8. k = j + 1
    <3>1. SUFFICES ASSUME j + 1 < k PROVE FALSE
      BY <1>2, <2>6, <2>7
    <3>2. j + 1 \in DOMAIN code /\ j < j + 1
      BY <1>1, <1>2, <2>6, <3>1
    <3>3. PICK a : a = code[j + 1].branch
      OBVIOUS
    <3>4. b < a /\ a < c /\ a \in Nat
      BY <1>1, <2>3, <3>1, <3>2, <3>3
    <3> QED BY <1>2, <2>5, <3>4
  <2> QED BY <1>3, <1>4, <2>2, <2>8 DEF EntryPc
<1>5. CASE ~(b < Len(branches))
  <2>1. j + 1 \notin DOMAIN code
    <3> SUFFICES ASSUME j + 1 \in DOMAIN code PROVE FALSE
      OBVIOUS
    <3>1. PICK a : a = code[j + 1].branch
      OBVIOUS
    <3>2. j < j + 1
      BY <1>2
    <3>3. b < a /\ a \in Nat /\ a <= Len(branches)
      BY <1>1, <3>1, <3>2
    <3> QED BY <1>1, <1>2, <1>5, <3>3
  <2> QED BY <1>3, <1>5, <2>1 DEF EntryPc
<1> QED
  BY <1>4, <1>5

(* ... and ends where the bytecode does.                                   *)
LEMMA EndsThere ==
  ASSUME Fine
  PROVE  phase # "build" => Evm!Ended(pccount)
<1> SUFFICES ASSUME phase # "build" PROVE Evm!Ended(pccount)
  OBVIOUS
<1>1. Position /\ i >= Len(bytecode) /\ Len(bytecode) \in Nat
  BY BranchStarts DEF Read, Fine, Faithful
<1>2. CASE pccount = i
  BY <1>1, <1>2 DEF Evm!Ended
<1>3. CASE pccount + Size(bytecode[pccount + 1]) > Len(bytecode)
  <2>1. Evm!After(pccount) = pccount + Size(bytecode[pccount + 1])
    BY AfterIs
  <2> QED BY <1>3, <2>1 DEF Evm!Ended
<1> QED
  BY <1>1, <1>2, <1>3 DEF Position

LEMMA StepGraceful ==
  ASSUME Sound, GracefulReturn
  PROVE  Evm!EvmNext /\ JitInv'
<1>1. /\ Running /\ blk > Len(code) /\ returned' = TRUE /\ exitcode' = 0 /\ blk' = blk
      /\ mem' = mem /\ gasleft' = gasleft
  BY DEF GracefulReturn, Return, Graceful
<1>2. Fine /\ JitInv /\ UNCHANGED parsevars /\ phase = "done" /\ ~returned
  BY <1>1 DEF Sound, Running
<1>3. Len(code) \in Nat /\ DOMAIN code = 1 .. Len(code) /\ blk \in Nat
  BY <1>2, CodeFacts DEF JitInv
<1>4. blk > 0 /\ blk # 0 /\ blk \notin DOMAIN code
  BY <1>1, <1>3
<1>5. RunInv /\ mem \in Memory
  BY <1>1, <1>2, <1>4, AliveInv
<1>6. PcBar = pccount /\ GasBar = gasleft + 0 /\ StatusBar = "running"
  BY <1>1, <1>2, <1>4 DEF PcBar, GasBar, StatusBar, Alive, Within, Inside, Prepaid
<1>7. Evm!Ended(PcBar)
  BY <1>2, <1>6, EndsThere
<1>8. /\ StackBar' = <<>> /\ PcBar' = 0 /\ GasBar' = gasleft' + 0 /\ StatusBar' = "exited"
      /\ ErrPcBar' = IF exitcode' = 0 THEN 0 ELSE ctxpc'
  BY <1>1, BarsReturn
<1>9. GasBar' = GasBar /\ ErrPcBar' = 0
  BY <1>1, <1>6, <1>8
<1>10. bytecode' = bytecode
  BY <1>2, ParsedStays
<1>11. Evm!End
  BY <1>1, <1>6, <1>7, <1>8, <1>9, <1>10 DEF Evm!End, Evm!Halt, Evm!Leave
<1>12. JitInv'
  BY <1>1, <1>2, <1>4, <1>5, InvReturn
<1> QED
  BY <1>11, <1>12 DEF Evm!EvmNext

LEMMA StepCall ==
  ASSUME Sound, Call, Covered
  PROVE  Evm!EvmNext /\ JitInv'
<1>1. PICK s \in Stacks, g \in GasLimits :
          /\ mem' = [a \in DOMAIN mem |-> IF a < Len(s) THEN s[a + 1] ELSE 0]
          /\ sp' = Len(s) /\ gasleft' = g
  BY DEF Call
<1>2. /\ Running /\ blk = 0 /\ blk' = 1 /\ next' = 1 /\ regs' = <<>>
      /\ returned' = returned /\ exitcode' = exitcode /\ ctxpc' = ctxpc
  BY DEF Call, Enter
<1>3. Fine /\ JitInv /\ UNCHANGED parsevars /\ phase = "done" /\ ~returned
  BY <1>2 DEF Sound, Running
<1>4. /\ s \in Seq(Words) /\ Len(s) \in Nat /\ Len(s) <= StackSize
      /\ g \in 0 .. CountLimit - 1 /\ g \in Words /\ StackSize \in Nat
  BY CallAssumption, CountAssumption
<1>5. exitcode = 0 /\ ctxpc = 0 /\ mem \in Memory
  BY <1>2, <1>3 DEF JitInv
<1>6. Len(code) \in Nat /\ Len(bytecode) \in Nat
  BY <1>3, CodeFacts, BranchStarts
<1>7. mem' \in Memory
  <2>1. DOMAIN mem = 0 .. StackSize - 1
    BY <1>5 DEF Memory
  <2>2. \A a \in 0 .. StackSize - 1 : (IF a < Len(s) THEN s[a + 1] ELSE 0) \in Words
    <3> TAKE a \in 0 .. StackSize - 1
    <3>1. CASE a < Len(s)
      <4>1. a + 1 \in 1 .. Len(s)
        BY <1>4, <3>1
      <4> QED BY <1>4, <3>1, <4>1, ElementOfSeq
    <3>2. CASE ~(a < Len(s))
      BY <3>2, LimitsAssumption DEF Words
    <3> QED BY <3>1, <3>2
  <2> QED BY <1>1, <2>1, <2>2 DEF Memory
<1>8. 1 \in 1 .. Len(code) + 1
  BY <1>6
<1>9. PICK j : j = 1 /\ j \in 1 .. Len(code) + 1
  BY <1>8
<1>10. /\ StackBar' = Stk(mem', sp', <<>>, <<>>)
       /\ PcBar' = EntryPc(j)
       /\ GasBar' = gasleft' + 0
       /\ StatusBar' = "running" /\ Alive'
  BY <1>2, <1>3, <1>9, BarsEnter
<1>11. PcBar = 0 /\ PcBar' = 0
  <2>1. EntryPc(1) = 0
    BY <1>3, FirstEntry
  <2> QED BY <1>2, <1>9, <1>10, <2>1 DEF PcBar, Alive
<1>12. Stk(mem', sp', <<>>, <<>>) = s
  <2>1. PICK m, p, T, e : m = mem' /\ p = sp' /\ e = <<>> /\ T = Stk(m, p, e, e)
    OBVIOUS
  <2>2. p = Len(s) /\ p \in Nat /\ p <= StackSize
    BY <1>1, <1>4, <2>1
  <2>3. Long(e, 0)
    BY <2>1 DEF Long
  <2>4. PICK z : z = 0 /\ z \in Nat
    OBVIOUS
  <2>5. Joined(T, m, p, e, z, e)
    BY <2>1, <2>2, <2>3, <2>4, StkIs
  <2>6. p + z = p
    BY <2>2, <2>4
  <2>7. /\ DOMAIN T = 1 .. p /\ IsFcn(T) /\ \A k \in 1 .. p : T[k] = m[k - 1]
    <3>1. \A k \in 1 .. p : k <= p
      BY <2>2
    <3> QED BY <2>5, <2>6, <3>1 DEF Joined
  <2>8. \A k \in 1 .. p : m[k - 1] = s[k]
    <3> TAKE k \in 1 .. p
    <3>1. k - 1 \in 0 .. StackSize - 1 /\ k - 1 < Len(s) /\ (k - 1) + 1 = k
      BY <1>4, <2>2
    <3>2. DOMAIN mem = 0 .. StackSize - 1
      BY <1>5 DEF Memory
    <3> QED BY <1>1, <2>1, <3>1, <3>2
  <2>9. DOMAIN s = 1 .. p /\ s = [k \in DOMAIN s |-> s[k]]
    BY <1>4, <2>2
  <2>10. T = s
    BY <2>7, <2>8, <2>9 DEF IsFcn
  <2> QED BY <2>1, <2>10
<1>13. GasBar' = g
  BY <1>1, <1>4, <1>10
<1>14. StatusBar = "idle"
  BY <1>2, <1>3 DEF StatusBar
<1>15. ErrPcBar' = ErrPcBar /\ exitcode' = exitcode
  BY <1>2, <1>5 DEF ErrPcBar
<1>16. bytecode' = bytecode
  BY <1>3, ParsedStays
<1>17. Evm!Start
  BY <1>10, <1>11, <1>12, <1>13, <1>14, <1>15, <1>16 DEF Evm!Start
<1>18. JitInv'
  <2>1. sp' \in 0 .. StackSize /\ gasleft' \in 0 .. CountLimit - 1 /\ gasleft' \in Words
    BY <1>1, <1>4
  <2>2. ctxpc' \in 0 .. Len(bytecode)
    BY <1>2, <1>5, <1>6
  <2>3. blk' = j
    BY <1>2, <1>9
  <2> QED BY <1>2, <1>3, <1>5, <1>7, <1>9, <2>1, <2>2, <2>3, InvEnter
<1> QED
  BY <1>17, <1>18 DEF Evm!EvmNext

(* The end of a block: the cached stack goes to memory, which the mapping  *)
(* does not tell apart.                                                    *)
LEMMA StepEndBlock ==
  ASSUME Sound, EndBlock
  PROVE  UNCHANGED Evm!evmvars /\ JitInv'
<1>1. PICK b, ops, n, st : b = code[blk].branch /\ ops = Ops(blk) /\ n = next /\ st = code[blk].store
  OBVIOUS
<1>2. /\ Running /\ blk \in DOMAIN code /\ n > Len(ops) /\ Store(st, regs, sp)
      /\ blk' = blk + 1 /\ next' = 1 /\ regs' = <<>> /\ returned' = returned
      /\ exitcode' = exitcode /\ gasleft' = gasleft /\ ctxpc' = ctxpc
  BY <1>1 DEF EndBlock, Enter
<1>3. Fine /\ JitInv /\ UNCHANGED parsevars /\ phase = "done" /\ ~returned
  BY <1>2 DEF Sound, Running
<1>4. /\ Len(code) \in Nat /\ DOMAIN code = 1 .. Len(code) /\ blk \in Nat /\ blk # 0 /\ blk > 0
  BY <1>2, <1>3, CodeFacts
<1>5. RunInv /\ mem \in Memory
  BY <1>2, <1>3, <1>4, AliveInv
<1>6. /\ b \in DOMAIN branches /\ ops = branches[b].opcodes /\ Branch(branches[b])
      /\ Len(ops) \in Nat /\ DOMAIN ops = 1 .. Len(ops) /\ Flowing(branches[b])
      /\ (\A k \in DOMAIN ops : ~ops[k].isExitOpcode) => st = StackStore(branches[b])
      /\ Ready4Call
  BY <1>1, <1>2, <1>3, <1>5, BlockFacts DEF Ready4Call, RunInv
<1>7. PICK L : L = Len(ops) + 1 /\ L \in Nat
  BY <1>6
<1>8. /\ n \in 1 .. L /\ Arrives(ops, n) /\ (\A k \in 1 .. n - 1 : ops[k].name # "jump")
      /\ Holds(CacheAt(branches[b], n), regs) /\ Sized(blk, n, sp)
      /\ sp \in 0 .. StackSize /\ gasleft \in 0 .. CountLimit - 1 /\ gasleft \in Words
      /\ ctxpc \in 0 .. Len(bytecode) /\ Covered
  BY <1>1, <1>2, <1>5, <1>7 DEF RunInv
<1>9. n = L /\ n - 1 = Len(ops) /\ ~(n <= Len(ops)) /\ n \notin DOMAIN ops
  <2>1. PICK l : l = Len(ops) /\ l \in Nat /\ DOMAIN ops = 1 .. l
    BY <1>6
  <2>2. n > l /\ L = l + 1 /\ n \in 1 .. L
    BY <1>2, <1>7, <1>8, <2>1
  <2>3. n = L /\ n - 1 = l /\ ~(n <= l) /\ n \notin 1 .. l
    BY <2>1, <2>2
  <2> QED BY <2>1, <2>3
<1>10. \A k \in DOMAIN ops : ~ops[k].isExitOpcode /\ ops[k].name # "jump"
  BY <1>6, <1>8, <1>9 DEF Arrives
<1>11. st = StackStore(branches[b]) /\ CacheAt(branches[b], n) = st
  BY <1>6, <1>9, <1>10 DEF CacheAt
<1>12. FallsThrough(b)
  BY <1>6, <1>10 DEF FallsThrough
<1>13. /\ EntryPc(blk + 1) = IF b < Len(branches) THEN branches[b + 1].pc ELSE pccount
       /\ blk + 1 \in 1 .. Len(code) + 1
  BY <1>1, <1>2, <1>6, <1>12, NextEntry
<1>14. PICK j : j = blk + 1
  OBVIOUS
<1>15. /\ StackBar' = Stk(mem', sp', <<>>, <<>>)
       /\ PcBar' = EntryPc(j)
       /\ GasBar' = gasleft' + 0
       /\ StatusBar' = "running"
  BY <1>2, <1>3, <1>13, <1>14, BarsEnter
<1>16. n \notin DOMAIN Ops(blk)
  BY <1>1, <1>9
<1>17. Alive /\ Inside /\ ~Within
  BY <1>1, <1>2, <1>4, <1>16 DEF Alive, Inside, Within
<1>18. StackBar = Stk(mem, sp, st, regs)
  BY <1>1, <1>16, <1>17 DEF StackBar, Cached, Stk
<1>19. PcBar = IF b < Len(branches) THEN branches[b + 1].pc ELSE pccount
  BY <1>1, <1>17 DEF PcBar
<1>20. PcBar' = PcBar
  BY <1>13, <1>14, <1>15, <1>19
<1>21. GasBar = gasleft + 0
  <2>1. OpenAt(blk, Len(Ops(blk)) + 1) = {}
    BY <1>2, <1>3, NoneOpen
  <2>2. OpenAt(blk, n) = {}
    BY <1>1, <1>7, <1>9, <2>1
  <2>3. OpenUnits = {}
    BY <1>1, <2>2 DEF OpenUnits, OpenAt
  <2> QED BY <2>3 DEF GasBar, Prepaid
<1>22. GasBar' = GasBar
  BY <1>2, <1>15, <1>21
<1>23. StatusBar = "running"
  BY <1>3, <1>4 DEF StatusBar
<1>24. PICK p, d, m, rs, m2 : p = sp /\ d = Len(st) /\ m = mem /\ rs = regs /\ m2 = mem'
  OBVIOUS
<1>25. st \in Seq(Ref)
  BY <1>6, <1>11, StoreIs, StackStoreOK
<1>26. d \in Nat /\ Long(st, d) /\ Len(st) = d
  BY <1>24, <1>25, LenProperties DEF Long
<1>27. p \in Nat /\ p + d <= StackSize
  <2>1. sp + Len(CacheAt(branches[code[blk].branch], n)) <= StackSize
    BY <1>8 DEF Sized
  <2> QED BY <1>1, <1>8, <1>11, <1>24, <2>1
<1>28. Holds(st, rs)
  BY <1>8, <1>11, <1>24
<1>29. Storing(m, m2, p, st, rs) /\ sp' = p + d
  BY <1>2, <1>24 DEF Store, Storing
<1>30. PICK e : e = <<>>
  OBVIOUS
<1>31. m2 \in Memory /\ Stk(m2, p + d, <<>>, e) = Stk(m, p, st, rs)
  BY <1>5, <1>24, <1>26, <1>27, <1>28, <1>29, StoreStk
<1>32. StackBar' = StackBar
  BY <1>15, <1>18, <1>24, <1>29, <1>30, <1>31
<1>33. exitcode = 0 /\ exitcode' = exitcode /\ ErrPcBar' = ErrPcBar
  BY <1>2, <1>3 DEF JitInv, ErrPcBar
<1>34. bytecode' = bytecode
  BY <1>3, ParsedStays
<1>35. UNCHANGED Evm!evmvars
  BY <1>15, <1>20, <1>22, <1>23, <1>32, <1>33, <1>34 DEF Evm!evmvars
<1>36. JitInv'
  <2>1. sp' \in 0 .. StackSize
    BY <1>26, <1>27, <1>29
  <2>2. mem' \in Memory /\ blk' = j /\ j \in 1 .. Len(code) + 1
    BY <1>2, <1>13, <1>14, <1>24, <1>31
  <2>3. gasleft' \in 0 .. CountLimit - 1 /\ gasleft' \in Words /\ ctxpc' \in 0 .. Len(bytecode)
    BY <1>2, <1>8
  <2> QED BY <1>2, <1>3, <1>8, <1>33, <2>1, <2>2, <2>3, InvEnter
<1> QED
  BY <1>35, <1>36

-----------------------------------------------------------------------------
(* The jumps.                                                              *)
Jumping(op, left, S) ==
    /\ Here(op, left) /\ op.name \in Jumps /\ op = Op /\ left = Checked.gas /\ S = StackBar

LEMMA JumpOperands ==
  ASSUME NEW op, NEW left, NEW S, Jumping(op, left, S)
  PROVE  /\ op.in \in {1, 2} /\ op.out = 0 /\ (op.name = "jump" <=> op.in = 1)
         /\ Evm!Executes(op.name) /\ op.breakGasGroup
         /\ Evm!Left = left /\ left \in Nat /\ PcBar = op.pc /\ PcBar \in 0 .. Len(bytecode)
         /\ S \in Seq(Words) /\ Evm!Below(op.in) = SubSeq(S, 1, Len(S) - op.in)
         /\ Arg(1) \in Words
         /\ op.in = 1 => Arg(1) = Evm!Top(1)[1]
         /\ op.in = 2 => Arg(1) = Evm!Top(2)[1] /\ Arg(2) = Evm!Top(2)[2]
<1>1. Here(op, left) /\ op.name \in {"jump", "jumpi"} /\ op = Op /\ S = StackBar
  BY DEF Jumping, Jumps
<1>2. /\ Stands(op, After1, mem, sp, regs) /\ StackBar = Stk(mem, sp, op.cache, regs)
      /\ SaysAs(op, Evm!At(PcBar)) /\ Evm!Executes(Kind(op)) /\ PcBar = op.pc
      /\ Says(op)
  BY <1>1, Executing
<1>3. op.out = 0 /\ (op.name = "jump" => op.in = 1) /\ (op.name = "jumpi" => op.in = 2)
  BY <1>1, <1>2 DEF SaysAs
<1>4. Kind(op) = op.name
  BY <1>1 DEF Kind
<1>5. op.breakGasGroup
  BY <1>1, <1>2 DEF Stands, Effect, Jumps
<1>6. Evm!Left = left /\ left \in Nat
  BY <1>1, <1>5, Closes
<1>7. /\ OperandsOf(op, mem, sp, regs) = TopOf(S, op.in) /\ S \in Seq(Words)
      /\ TopOf(S, op.in) \in [1 .. op.in -> Words]
  BY <1>1, <1>2, TopIs
<1>8. [n \in 1 .. Op.in |-> Arg(n)] = OperandsOf(op, mem, sp, regs)
  BY <1>1 DEF Arg, OperandsOf, RegsAfterLoad, LoadedRegs
<1>9. TopOf(S, op.in) = Evm!Top(op.in)
  BY <1>1 DEF TopOf, Evm!Top
<1>10. op.in \in {1, 2} /\ \A n \in 1 .. op.in : Arg(n) = TopOf(S, op.in)[n]
  BY <1>1, <1>3, <1>7, <1>8
<1>11. \A n \in 1 .. op.in : Arg(n) \in Words
  BY <1>7, <1>10
<1>12. 1 \in 1 .. op.in /\ (op.in = 2 => 2 \in 1 .. op.in)
  BY <1>10
<1>13. PcBar \in 0 .. Len(bytecode)
  <2>1. bytecode \in Seq(0 .. 255)
    BY <1>1, BranchStarts DEF Here
  <2>2. PICK l, pc : l = Len(bytecode) /\ pc = op.pc /\ l \in Nat /\ pc \in Nat /\ pc < l
    BY <1>2, <2>1, LenProperties DEF Says
  <2> QED BY <1>2, <2>2
<1>14. Evm!Below(op.in) = SubSeq(S, 1, Len(S) - op.in)
  BY <1>1 DEF Evm!Below
<1> QED
  BY <1>1, <1>2, <1>3, <1>4, <1>5, <1>6, <1>7, <1>9, <1>10, <1>11, <1>12, <1>13, <1>14

(* A jump that is taken moves the cached stack to memory.                  *)
LEMMA JumpStores ==
  ASSUME NEW op, NEW left, NEW S, Jumping(op, left, S),
         Store(Op.stackStore, RegsAfterLoad, SpAfterLoad)
  PROVE  /\ mem' \in Memory /\ sp' \in 0 .. StackSize
         /\ Stk(mem', sp', <<>>, <<>>) = Evm!Below(op.in)
<1>1. Here(op, left) /\ op.name \in {"jump", "jumpi"} /\ op = Op /\ S = StackBar
  BY DEF Jumping, Jumps
<1>2. PICK p, q, d, m, m2, rs, rs2, after :
         /\ p = sp /\ q = sp - op.stackLoad /\ m = mem /\ m2 = mem' /\ rs = regs
         /\ rs2 = RegsAfterLoad /\ after = After1 /\ d = Len(after)
  OBVIOUS
<1>3. Stands(op, after, m, p, rs) /\ S = Stk(m, p, op.cache, rs)
  BY <1>1, <1>2, Executing
<1>4. op.out = 0 /\ ~Lifted(op) /\ S \in Seq(Words) /\ Evm!Below(op.in) = SubSeq(S, 1, Len(S) - op.in)
  BY <1>1, JumpOperands DEF Lifted
<1>5. rs2 = LoadedRegs(op, m, p, rs)
  BY <1>1, <1>2 DEF RegsAfterLoad, LoadedRegs
<1>6. Extends(rs2, rs, op.id)
  BY <1>5, LoadingExtends
<1>7. Gives(op, after, m, p, rs, rs2, <<>>)
  BY <1>3, <1>4, <1>6, NothingGives
<1>8. PICK T : T = Stk(m, q, after, rs2)
  OBVIOUS
<1>9. Holds(after, rs2) /\ Outcome(op, S, T, <<>>)
  BY <1>2, <1>3, <1>7, <1>8, GivesStk
<1>10. T = Evm!Below(op.in)
  BY <1>4, <1>9 DEF Outcome
<1>11. op.stackStore = after /\ after \in Seq(Ref)
  BY <1>1, <1>3 DEF Stands, Effect, Jumps
<1>12. d \in Nat /\ Long(after, d) /\ Len(after) = d
  BY <1>2, <1>11, LenProperties DEF Long
<1>13. q \in 0 .. StackSize /\ q + d <= StackSize
  <2>1. Sized(blk, next + 1, q)
    BY <1>1, <1>2 DEF Here, Goes
  <2> QED BY <1>2, <2>1 DEF Sized, After1
<1>14. Storing(m, m2, q, after, rs2) /\ sp' = q + d
  BY <1>1, <1>2, <1>11 DEF Store, Storing, SpAfterLoad
<1>15. m \in Memory
  BY <1>1, <1>2 DEF Here, JitInv
<1>16. PICK e : e = <<>>
  OBVIOUS
<1>17. m2 \in Memory /\ Stk(m2, q + d, <<>>, e) = Stk(m, q, after, rs2)
  BY <1>9, <1>12, <1>13, <1>14, <1>15, StoreStk
<1>18. q + d \in 0 .. StackSize
  BY <1>12, <1>13
<1> QED
  BY <1>2, <1>8, <1>10, <1>14, <1>16, <1>17, <1>18

(* Control goes to a label.                                                *)
LEMMA JumpEnters ==
  ASSUME NEW op, NEW left, NEW S, Jumping(op, left, S), NEW dst, dst \in Evm!JumpTargets,
         Store(Op.stackStore, RegsAfterLoad, SpAfterLoad), gasleft' = left,
         NEW j, j \in LabelsAt(dst), Enter(j), ctxpc' \in 0 .. Len(bytecode)
  PROVE  Evm!JumpTo(dst, Evm!Below(op.in)) /\ JitInv'
<1>1. /\ Fine /\ JitInv /\ RunInv /\ Within /\ UNCHANGED parsevars /\ Running
      /\ phase = "done" /\ Goes(op, left)
  BY DEF Jumping, Here, Within, Running
<1>2. /\ mem' \in Memory /\ sp' \in 0 .. StackSize
      /\ Stk(mem', sp', <<>>, <<>>) = Evm!Below(op.in)
  BY JumpStores
<1>3. Evm!Left = left /\ left \in Nat
  BY JumpOperands
<1>4. /\ blk' = j /\ next' = 1 /\ regs' = <<>> /\ returned' = returned /\ exitcode' = exitcode
      /\ j \in DOMAIN code /\ code[j].pc = dst
  BY DEF Enter, LabelsAt
<1>5. Len(code) \in Nat /\ DOMAIN code = 1 .. Len(code)
  BY <1>1, CodeFacts
<1>6. j \in 1 .. Len(code) + 1
  BY <1>4, <1>5
<1>7. /\ StackBar' = Stk(mem', sp', <<>>, <<>>) /\ PcBar' = EntryPc(j)
      /\ GasBar' = gasleft' + 0 /\ StatusBar' = "running"
  BY <1>1, <1>4, <1>6, BarsEnter
<1>8. PcBar' = dst
  BY <1>4, <1>7 DEF EntryPc
<1>9. StatusBar = "running" /\ exitcode = 0 /\ ErrPcBar = 0 /\ ErrPcBar' = 0
  <2>1. Here(op, left)
    BY DEF Jumping
  <2>2. exitcode = 0 /\ ErrPcBar = 0
    BY <2>1, Executing
  <2>3. StatusBar = "running"
    BY <1>1, BarsHere
  <2> QED BY <1>4, <2>2, <2>3 DEF ErrPcBar
<1>10. Evm!Goto(dst, Evm!Below(op.in))
  BY <1>2, <1>3, <1>4, <1>7, <1>8, <1>9 DEF Evm!Goto
<1>11. left \in 0 .. CountLimit - 1 /\ left \in Words
  <2>1. left \in 0 .. CountLimit - 1 /\ left <= gasleft
    BY <1>1 DEF Goes
  <2>2. gasleft \in 0 .. CountLimit - 1 /\ gasleft \in 0 .. WordLimit - 1
    BY <1>1 DEF RunInv, Words
  <2>3. WordLimit \in Nat
    BY LimitsAssumption
  <2> QED BY <2>1, <2>2, <2>3, LimitsAssumption DEF Words
<1>12. Covered
  BY <1>1 DEF RunInv
<1>13. JitInv'
  BY <1>1, <1>2, <1>4, <1>6, <1>9, <1>11, <1>12, InvEnter
<1> QED
  BY <1>10, <1>13 DEF Evm!JumpTo

(* There is no such target.                                                *)
LEMMA JumpFails ==
  ASSUME NEW op, NEW left, NEW S, Jumping(op, left, S), NEW dst, dst \notin Evm!JumpTargets,
         Store(Op.stackStore, RegsAfterLoad, SpAfterLoad), gasleft' = left,
         Return(-12), ctxpc' \in 0 .. Len(bytecode), dst < JumpLimit => ctxpc' = op.pc
  PROVE  Evm!JumpTo(dst, Evm!Below(op.in)) /\ JitInv'
<1>1. JitInv /\ RunInv /\ Within /\ UNCHANGED parsevars /\ Running
  BY DEF Jumping, Here, Within
<1>2. mem' \in Memory
  BY JumpStores
<1>3. Evm!Left = left /\ left \in Nat /\ PcBar = op.pc
  BY JumpOperands
<1>4. blk' = blk /\ returned' = TRUE /\ exitcode' = -12
  BY DEF Return
<1>5. blk # 0
  <2>1. Fine /\ phase = "done" /\ blk \in DOMAIN code
    BY <1>1 DEF Jumping, Here, Within, Running
  <2> QED BY <2>1, CodeFacts
<1>6. JitInv'
  BY <1>1, <1>2, <1>4, <1>5, InvReturn
<1>7. /\ StackBar' = <<>> /\ PcBar' = 0 /\ GasBar' = gasleft' + 0 /\ StatusBar' = "exited"
      /\ ErrPcBar' = IF exitcode' = 0 THEN 0 ELSE ctxpc'
  BY <1>4, BarsReturn
<1>8. ErrPcBar' = ctxpc' /\ GasBar' = left
  BY <1>3, <1>4, <1>7
<1>9. PICK q : q = ctxpc'
  OBVIOUS
<1>10. Evm!Fail(-12, q, Evm!Left)
  BY <1>3, <1>4, <1>7, <1>8, <1>9 DEF Evm!Fail, Evm!Leave
<1>11. q \in (IF dst < JumpLimit THEN {PcBar} ELSE 0 .. Len(bytecode))
  BY <1>3, <1>9
<1> QED
  BY <1>6, <1>10, <1>11 DEF Evm!JumpTo

LEMMA LabelIsTarget ==
  ASSUME Fine, phase = "done", NEW d, NEW j \in LabelsAt(d)
  PROVE  d \in Evm!JumpTargets
<1>1. /\ j \in DOMAIN code /\ code[j].label /\ code[j].pc = d
  BY DEF LabelsAt
<1>2. PICK b : b = code[j].branch
  OBVIOUS
<1>3. b \in DOMAIN branches /\ branches[b].pc = d /\ Labelled(b)
  BY <1>1, <1>2, CodeFacts
<1> QED
  BY <1>3, TargetIs

LEMMA LabelFound ==
  ASSUME NEW d, Cardinality(LabelsAt(d)) = 1
  PROVE  BlockAt(d) \in LabelsAt(d)
<1>1. LabelsAt(d) # {}
  BY FS_EmptySet
<1> QED
  BY <1>1 DEF BlockAt

(* A jump is found valid if its target is one.                             *)
LEMMA StaticTarget ==
  ASSUME NEW op, NEW left, NEW S, Jumping(op, left, S), op.isStaticJump, NEW dst, dst = Arg(1)
  PROVE  /\ Unit1.valid => BlockAt(dst) \in LabelsAt(dst)
         /\ ~Unit1.valid => dst \notin Evm!JumpTargets
<1>1. /\ Fine /\ RunInv /\ Within /\ op = Ops(blk)[next] /\ op = Op /\ phase = "done"
      /\ Stands(op, After1, mem, sp, regs) /\ Emits /\ op.in \in {1, 2}
  <2>1. Here(op, left) /\ op = Op
    BY DEF Jumping
  <2>2. Stands(op, After1, mem, sp, regs) /\ op.in \in {1, 2}
    BY <2>1, Executing, JumpOperands
  <2>3. ~op.isUnnecessary
    <3>1. op.isUnnecessary => op.name \in Foldable
      BY <2>2 DEF Stands, Effect
    <3> QED BY <3>1 DEF Jumping, Jumps, Foldable
  <2> QED BY <2>1, <2>2, <2>3 DEF Here, Within, Running, Emits
<1>2. PICK u \in UnitsOf(blk) : Unit1 = u /\ SameOp(op, u.op) /\ u.valid = IsValidTarget(u.op)
  BY <1>1, EmitsChecked
<1>3. IsConst(op.stackRefs[1]) /\ op.staticJumpPc = JumpPc(op.stackRefs[1][2])
  BY <1>1 DEF Stands, Effect
<1>4. op.stackRefs[1][2] = dst
  BY <1>1, <1>3 DEF Arg, Val
<1>5. /\ u.op.isStaticJump /\ u.op.staticJumpPc = JumpPc(dst) /\ u.op.stackRefs[1][2] = dst
  BY <1>2, <1>3, <1>4 DEF SameOp
<1>6. ASSUME Unit1.valid PROVE BlockAt(dst) \in LabelsAt(dst)
  <2>1. u.op \in Emitted
    BY <1>1 DEF Emitted, UnitsOf, Within
  <2>2. u.op \in Static
    BY <1>2, <1>5, <1>6, <2>1 DEF Static
  <2>3. Cardinality(LabelsAt(u.op.stackRefs[1][2])) = 1
    BY <1>1, <2>2 DEF RunInv, Covered, WellFormedIR
  <2> QED BY <1>5, <2>3, LabelFound
<1>7. ASSUME ~Unit1.valid, dst \in Evm!JumpTargets PROVE FALSE
  <2>1. JumpPc(dst) = dst
    BY <1>1, <1>7, TargetIs
  <2>2. PICK b \in DOMAIN branches : branches[b].pc = dst
    BY <1>1, <1>7, TargetIs
  <2>3. b \in BranchesAt(u.op.staticJumpPc)
    BY <1>5, <2>1, <2>2 DEF BranchesAt
  <2>4. IsValidTarget(u.op)
    BY <1>5, <2>3 DEF IsValidTarget
  <2> QED BY <1>2, <1>7, <2>4
<1> QED
  BY <1>6, <1>7

(* The jump table has the targets.                                         *)
LEMMA DynamicTarget ==
  ASSUME NEW op, NEW left, NEW S, Jumping(op, left, S), ~op.isStaticJump, NEW dst
  PROVE  /\ dst \in JumpTable => BlockAt(dst) \in LabelsAt(dst)
         /\ dst \notin JumpTable => dst \notin Evm!JumpTargets
         /\ dst \in Evm!JumpTargets => dst < JumpLimit
<1>1. /\ Fine /\ RunInv /\ Within /\ op = Ops(blk)[next] /\ phase = "done"
  BY DEF Jumping, Here, Within, Running
<1>2. hasdynjumps
  <2>1. PICK b, n : b = code[blk].branch /\ n = next
    OBVIOUS
  <2>2. /\ b \in DOMAIN branches /\ Ops(blk) = branches[b].opcodes /\ n \in DOMAIN Ops(blk)
    BY <1>1, <2>1, BlockFacts DEF Within
  <2>3. Has(branches, b, n)
    BY <2>2 DEF Has
  <2>4. branches[b].opcodes[n] = op /\ op.name \in {"jump", "jumpi"}
    BY <1>1, <2>1, <2>2 DEF Jumping, Jumps
  <2> QED BY <1>1, <2>3, <2>4 DEF Fine, DynamicKnown
<1>3. dst \in JumpTable => BlockAt(dst) \in LabelsAt(dst)
  BY <1>1, LabelFound DEF RunInv, Covered, WellFormedIR
<1>4. ASSUME dst \in Evm!JumpTargets PROVE dst \in JumpTable /\ dst < JumpLimit
  <2>1. PICK b \in DOMAIN branches : branches[b].pc = dst /\ Labelled(b)
    BY <1>1, <1>4, TargetIs
  <2>2. dst < JumpLimit
    BY <1>1, <1>4, TargetIs
  <2>3. branches[b].pc \in Nat
    BY <1>1, BranchStarts
  <2>4. ~(branches[b].pc = 0 /\ noinitjump)
    BY <2>1, <2>3 DEF Labelled
  <2>5. dst \in JumpTable
    BY <1>2, <2>1, <2>4 DEF JumpTable
  <2> QED BY <2>2, <2>5
<1> QED
  BY <1>3, <1>4

LEMMA Jumped ==
  ASSUME NEW op, NEW left, NEW S, Jumping(op, left, S), NEW dst, dst = Arg(1), TakeJump
  PROVE  Evm!JumpTo(dst, Evm!Below(op.in)) /\ JitInv'
<1>1. /\ op = Op /\ left = Checked.gas /\ Fine /\ phase = "done"
      /\ ctxpc \in 0 .. Len(bytecode) /\ op.pc \in 0 .. Len(bytecode)
  <2>1. op = Op /\ left = Checked.gas /\ Fine /\ RunInv /\ Within
    BY DEF Jumping, Here
  <2>2. op.pc \in 0 .. Len(bytecode)
    BY JumpOperands
  <2> QED BY <2>1, <2>2 DEF RunInv, Within, Running
<1>2. Store(Op.stackStore, RegsAfterLoad, SpAfterLoad) /\ gasleft' = left
  BY <1>1 DEF TakeJump
<1>3. ASSUME NEW j, j = BlockAt(dst), j \in LabelsAt(dst), Enter(j),
             ctxpc' \in 0 .. Len(bytecode)
      PROVE  Evm!JumpTo(dst, Evm!Below(op.in)) /\ JitInv'
  <2>1. dst \in Evm!JumpTargets
    BY <1>1, <1>3, LabelIsTarget
  <2> QED BY <1>2, <1>3, <2>1, JumpEnters
<1>4. ASSUME dst \notin Evm!JumpTargets, Return(-12), ctxpc' \in 0 .. Len(bytecode),
             dst < JumpLimit => ctxpc' = op.pc
      PROVE  Evm!JumpTo(dst, Evm!Below(op.in)) /\ JitInv'
  BY <1>2, <1>4, JumpFails
<1>5. CASE op.isStaticJump
  <2>1. IF Unit1.valid THEN Enter(BlockAt(dst)) /\ ctxpc' = ctxpc
        ELSE Return(-12) /\ ctxpc' = op.pc
    BY <1>1, <1>5 DEF TakeJump
  <2>2. /\ Unit1.valid => BlockAt(dst) \in LabelsAt(dst)
        /\ ~Unit1.valid => dst \notin Evm!JumpTargets
    BY <1>5, StaticTarget
  <2>3. CASE Unit1.valid
    <3>1. PICK j : j = BlockAt(dst)
      OBVIOUS
    <3>2. j \in LabelsAt(dst) /\ Enter(j) /\ ctxpc' \in 0 .. Len(bytecode)
      BY <1>1, <2>1, <2>2, <2>3, <3>1
    <3> QED BY <1>3, <3>1, <3>2
  <2>4. CASE ~Unit1.valid
    BY <1>1, <1>4, <2>1, <2>2, <2>4
  <2> QED BY <2>3, <2>4
<1>6. CASE ~op.isStaticJump
  <2>1. /\ ctxpc' = IF dst < JumpLimit \/ op.name = "jumpi" THEN op.pc ELSE ctxpc
        /\ IF dst < JumpLimit /\ dst \in JumpTable THEN Enter(BlockAt(dst)) ELSE Return(-12)
    BY <1>1, <1>6 DEF TakeJump
  <2>2. /\ dst \in JumpTable => BlockAt(dst) \in LabelsAt(dst)
        /\ dst \notin JumpTable => dst \notin Evm!JumpTargets
        /\ dst \in Evm!JumpTargets => dst < JumpLimit
    BY <1>6, DynamicTarget
  <2>3. ctxpc' \in 0 .. Len(bytecode) /\ (dst < JumpLimit => ctxpc' = op.pc)
    BY <1>1, <2>1
  <2>4. CASE dst < JumpLimit /\ dst \in JumpTable
    <3>1. PICK j : j = BlockAt(dst)
      OBVIOUS
    <3>2. j \in LabelsAt(dst) /\ Enter(j)
      BY <2>1, <2>2, <2>4, <3>1
    <3> QED BY <1>3, <2>3, <3>1, <3>2
  <2>5. CASE ~(dst < JumpLimit /\ dst \in JumpTable)
    <3>1. Return(-12) /\ dst \notin Evm!JumpTargets
      BY <2>1, <2>2, <2>5
    <3> QED BY <1>4, <2>3, <3>1
  <2> QED BY <2>4, <2>5
<1> QED
  BY <1>5, <1>6

LEMMA StepJump ==
  ASSUME Sound, Jump
  PROVE  Evm!EvmNext /\ JitInv'
<1>1. PICK op, left, S, dst : op = Op /\ left = Checked.gas /\ S = StackBar /\ dst = Arg(1)
  OBVIOUS
<1>2. Emits /\ Checked.code = 0 /\ op.name = "jump" /\ TakeJump
  BY <1>1 DEF Jump, Runs
<1>3. Jumping(op, left, S)
  BY <1>1, <1>2, EmitsHere DEF Jumping, Jumps
<1>4. op.in = 1 /\ Evm!Executes("jump") /\ dst = Evm!Top(1)[1]
  BY <1>1, <1>2, <1>3, JumpOperands
<1>5. Evm!JumpTo(dst, Evm!Below(op.in)) /\ JitInv'
  BY <1>1, <1>2, <1>3, Jumped
<1>6. Evm!JumpTo(Evm!Top(1)[1], Evm!Below(1))
  BY <1>4, <1>5
<1>7. Evm!Jump
  BY <1>4, <1>6 DEF Evm!Jump
<1> QED
  BY <1>5, <1>7 DEF Evm!EvmNext

LEMMA StepJumpI ==
  ASSUME Sound, JumpI
  PROVE  Evm!EvmNext /\ JitInv'
<1>1. PICK op, left, S, dst : op = Op /\ left = Checked.gas /\ S = StackBar /\ dst = Arg(1)
  OBVIOUS
<1>2. /\ Emits /\ Checked.code = 0 /\ op.name = "jumpi"
      /\ IF Arg(2) # 0 THEN TakeJump ELSE Continue(<<>>) /\ mem' = mem /\ ctxpc' = ctxpc
  BY <1>1 DEF JumpI, Runs
<1>3. Jumping(op, left, S)
  BY <1>1, <1>2, EmitsHere DEF Jumping, Jumps
<1>4. /\ op.in = 2 /\ op.out = 0 /\ Evm!Executes("jumpi") /\ dst = Evm!Top(2)[1]
      /\ Arg(2) = Evm!Top(2)[2] /\ Evm!Below(op.in) = SubSeq(S, 1, Len(S) - op.in)
  BY <1>1, <1>2, <1>3, JumpOperands
<1>5. CASE Arg(2) # 0
  <2>1. Evm!JumpTo(dst, Evm!Below(op.in)) /\ JitInv'
    BY <1>1, <1>2, <1>3, <1>5, Jumped
  <2>2. Evm!JumpTo(Evm!Top(2)[1], Evm!Below(2))
    BY <1>4, <2>1
  <2>3. Evm!JumpI
    BY <1>4, <1>5, <2>2 DEF Evm!JumpI
  <2> QED BY <2>1, <2>3 DEF Evm!EvmNext
<1>6. CASE Arg(2) = 0
  <2>1. Continue(<<>>) /\ mem' = mem /\ ctxpc' = ctxpc
    BY <1>2, <1>6
  <2>2. Here(op, left) /\ mem \in Memory
    BY <1>3 DEF Jumping, Here, JitInv
  <2>3. Advancing(op, left) /\ regs' = Resulting(<<>>, op, mem, sp, regs)
    BY <1>1, <2>1, <2>2, Continues
  <2>4. Stands(op, After1, mem, sp, regs) /\ S = Stk(mem, sp, op.cache, regs)
        /\ SaysAs(op, Evm!At(PcBar))
    BY <1>1, <2>2, Executing
  <2>5. PICK rs2, after : rs2 = regs' /\ after = After1
    OBVIOUS
  <2>6. Extends(rs2, regs, op.id) /\ ~Lifted(op)
    BY <1>2, <2>3, <2>5, NothingExtends DEF Lifted
  <2>7. Gives(op, after, mem, sp, regs, rs2, <<>>)
    BY <1>4, <2>4, <2>5, <2>6, NothingGives
  <2>8. PICK T : T = Stk(mem, sp - op.stackLoad, after, rs2)
    OBVIOUS
  <2>9. Holds(after, rs2) /\ Outcome(op, S, T, <<>>)
    BY <2>4, <2>7, <2>8, GivesStk
  <2>10. T = Evm!Below(2)
    BY <1>4, <2>9 DEF Outcome
  <2>11. T = Stk(mem', sp', after, regs')
    BY <2>1, <2>3, <2>5, <2>8 DEF Advancing
  <2>12. ~op.isExitOpcode
    BY <1>2, <2>4 DEF Stands, Effect
  <2>13. Evm!Goto(Evm!After(PcBar), T) /\ JitInv'
    BY <1>2, <2>2, <2>3, <2>5, <2>9, <2>11, <2>12, Advance
  <2>14. Evm!Goto(Evm!After(PcBar), Evm!Below(2))
    BY <2>10, <2>13
  <2>15. Evm!JumpI
    BY <1>4, <1>6, <2>14 DEF Evm!JumpI
  <2> QED BY <2>13, <2>15 DEF Evm!EvmNext
<1> QED
  BY <1>5, <1>6

-----------------------------------------------------------------------------
(* All steps.  Before the code is complete nothing runs.                   *)
LEMMA CompileIdle ==
  ASSUME ParseNext
  PROVE  phase # "done" /\ bytecode' = bytecode
<1>1. CASE ParseOpcode
  BY <1>1 DEF ParseOpcode
<1>2. CASE AddFunction
  BY <1>2 DEF AddFunction, Generate
<1>3. CASE Render
  <2>1. phase = "emit"
    BY <1>3 DEF Render, Walk, Finish, Emitting, SkipDeadBranch, OpenBranch, CloseBranch,
                SkipUnnecessary, EmitOpcode
  <2>2. bytecode' = bytecode
    BY <1>3 DEF Render
  <2> QED BY <2>1, <2>2
<1> QED  BY <1>1, <1>2, <1>3 DEF ParseNext
Idle == ~Alive /\ StackBar = <<>> /\ PcBar = 0 /\ GasBar = gasleft + 0

LEMMA IdleBars == Fine /\ blk = 0 => Idle
<1> SUFFICES ASSUME Fine, blk = 0 PROVE Idle
  OBVIOUS
<1>1. ~Inside
  <2>1. Inside => Fine /\ phase = "done" /\ blk \in DOMAIN code
    BY DEF Inside, Running
  <2>2. Inside => blk \in 1 .. Len(code)
    BY <2>1, CodeFacts
  <2> QED BY <2>2
<1>2. ~Alive
  BY DEF Alive
<1> QED
  BY <1>1, <1>2 DEF Idle, StackBar, PcBar, GasBar, Prepaid

LEMMA IdleBarsNext == Fine' /\ (blk = 0)' => Idle'
<1> QED  BY IdleBars, PTL

LEMMA StepCompile ==
  ASSUME Fine, Fine', JitInv, Compile
  PROVE  UNCHANGED Evm!evmvars /\ JitInv'
<1>1. /\ blk' = blk /\ next' = next /\ mem' = mem /\ sp' = sp /\ gasleft' = gasleft
      /\ ctxpc' = ctxpc /\ returned' = returned /\ exitcode' = exitcode
      /\ phase # "done" /\ bytecode' = bytecode
  BY CompileIdle DEF Compile, runvars
<1>2. blk = 0 /\ blk' = 0
  BY <1>1 DEF JitInv
<1>3. ~Alive /\ StackBar = <<>> /\ PcBar = 0 /\ GasBar = gasleft + 0
  BY <1>2, IdleBars DEF Idle
<1>4. ~Alive' /\ StackBar' = <<>> /\ PcBar' = 0 /\ GasBar' = gasleft' + 0
  BY <1>2, IdleBarsNext DEF Idle
<1>5. StatusBar' = StatusBar /\ ErrPcBar' = ErrPcBar
  BY <1>1 DEF StatusBar, ErrPcBar
<1>6. UNCHANGED Evm!evmvars
  BY <1>1, <1>3, <1>4, <1>5 DEF Evm!evmvars
<1>7. JitInv'
  BY <1>1, <1>2, <1>4 DEF JitInv
<1> QED  BY <1>6, <1>7

LEMMA StepStutter ==
  ASSUME JitInv, UNCHANGED jitvars
  PROVE  UNCHANGED Evm!evmvars /\ JitInv'
<1>1. /\ UNCHANGED parsevars
      /\ blk' = blk /\ next' = next /\ mem' = mem /\ sp' = sp /\ gasleft' = gasleft
      /\ regs' = regs /\ ctxpc' = ctxpc /\ returned' = returned /\ exitcode' = exitcode
  BY DEF jitvars, runvars
<1>2. /\ branches' = branches /\ code' = code /\ phase' = phase /\ bytecode' = bytecode
      /\ pccount' = pccount
  BY <1>1, ParsedStays
<1>3. Running' = Running /\ Alive' = Alive /\ Inside' = Inside
  BY <1>1, <1>2 DEF Running, Alive, Inside
<1>4. Ops(blk)' = Ops(blk)
  BY <1>1, <1>2 DEF Ops, BlockBranch
<1>5. Within' = Within
  BY <1>1, <1>2, <1>3, <1>4 DEF Within
<1>6. Cached' = Cached
  BY <1>1, <1>2, <1>3, <1>4 DEF Cached
<1>7. OpenUnits' = OpenUnits
  BY <1>1, <1>2 DEF OpenUnits, UnitsOf
<1>8. StackBar' = StackBar
  BY <1>1, <1>3, <1>6 DEF StackBar
<1>9. PcBar' = PcBar
  BY <1>1, <1>2, <1>3, <1>4, <1>5 DEF PcBar
<1>10. Prepaid' = Prepaid
  BY <1>1, <1>3, <1>4, <1>7 DEF Prepaid
<1>11. GasBar' = GasBar /\ StatusBar' = StatusBar /\ ErrPcBar' = ErrPcBar
  BY <1>1, <1>10 DEF GasBar, StatusBar, ErrPcBar
<1>12. UNCHANGED Evm!evmvars
  BY <1>1, <1>2, <1>8, <1>9, <1>11 DEF Evm!evmvars
<1>13. ASSUME RunInv PROVE RunInv'
  <2>1. Covered'
    BY <1>1, <1>13, CoveredStays DEF RunInv
  <2>2. ASSUME blk \in DOMAIN code
        PROVE  Sized(blk, next, sp)' /\ Holds(CacheAt(branches[code[blk].branch], next), regs)'
    <3>1. PICK j, n, p, b : j = blk /\ n = next /\ p = sp /\ b = code[blk].branch
      OBVIOUS
    <3>2. Sized(j, n, p) /\ Holds(CacheAt(branches[b], n), regs)
      BY <1>13, <2>2, <3>1 DEF RunInv
    <3>3. Sized(j, n, p)' /\ CacheAt(branches[b], n)' = CacheAt(branches[b], n)
      BY <1>1, <3>2, CodeStays
    <3>4. Sized(blk, next, sp)'
      BY <1>1, <3>1, <3>3
    <3>5. CacheAt(branches[code[blk].branch], next)' = CacheAt(branches[b], n)'
      BY <1>1, <1>2, <3>1
    <3>6. Holds(CacheAt(branches[code[blk].branch], next), regs)'
      BY <1>1, <3>2, <3>3, <3>5
    <3> QED BY <3>4, <3>6
  <2> QED BY <1>1, <1>2, <1>4, <1>13, <2>1, <2>2 DEF RunInv
<1>14. JitInv'
  BY <1>1, <1>2, <1>3, <1>13 DEF JitInv
<1> QED  BY <1>12, <1>14

LEMMA StepExecute ==
  ASSUME Exact, Sound, ExactHere, Execute
  PROVE  (Evm!EvmNext \/ UNCHANGED Evm!evmvars) /\ JitInv'
<1>1. \/ SkipFolded \/ ChecksFail \/ NoCode \/ Dup \/ Swap \/ Alu \/ Gas
      \/ Callback \/ Jump \/ JumpI \/ Stop \/ Invalid \/ EndBlock
      \/ GracefulReturn
  BY DEF Execute
<1>2. CASE SkipFolded
  BY <1>2, StepFolded
<1>3. CASE ChecksFail
  BY <1>3, StepChecksFail
<1>4. CASE NoCode
  BY <1>4, StepNoCode
<1>5. CASE Dup
  BY <1>5, StepDup
<1>6. CASE Swap
  BY <1>6, StepSwap
<1>7. CASE Alu
  BY <1>7, StepAlu
<1>8. CASE Gas
  BY <1>8, StepGas
<1>9. CASE Callback
  BY <1>9, StepCallback
<1>10. CASE Jump
  BY <1>10, StepJump
<1>11. CASE JumpI
  BY <1>11, StepJumpI
<1>12. CASE Stop \/ Invalid
  BY <1>12, StepStop
<1>13. CASE EndBlock
  BY <1>13, StepEndBlock
<1>14. CASE GracefulReturn
  BY <1>14, StepGraceful
<1> QED
  BY <1>1, <1>2, <1>3, <1>4, <1>5, <1>6, <1>7, <1>8, <1>9, <1>10, <1>11, <1>12, <1>13, <1>14

LEMMA StepCovered ==
  ASSUME Exact, Fine, Fine', JitInv, [CoveredNext]_jitvars
  PROVE  [Evm!EvmNext]_Evm!evmvars /\ JitInv'
<1>1. CASE Compile
  BY <1>1, StepCompile
<1>2. CASE Running /\ (blk = 0 => Covered) /\ ExactHere /\ Run
  <2>1. CASE Call /\ UNCHANGED parsevars
    <3>1. Covered
      BY <1>2, <2>1 DEF Call
    <3>2. Sound
      BY <2>1 DEF Sound
    <3> QED BY <2>1, <3>1, <3>2, StepCall
  <2>2. CASE Execute
    <3>1. Sound
      BY <2>2 DEF Sound, Execute
    <3> QED BY <1>2, <2>2, <3>1, StepExecute
  <2> QED BY <1>2, <2>1, <2>2 DEF Run
<1>3. CASE UNCHANGED jitvars
  BY <1>3, StepStutter
<1> QED
  BY <1>1, <1>2, <1>3 DEF CoveredNext

LEMMA JitStart ==
  ASSUME Fine, JitInit
  PROVE  Evm!EvmInit /\ JitInv
<1>1. /\ blk = 0 /\ sp = 0 /\ gasleft = 0 /\ ctxpc = 0 /\ returned = FALSE /\ exitcode = 0
      /\ mem = [a \in 0 .. StackSize - 1 |-> 0] /\ bytecode \in Codes /\ phase = "build"
  BY DEF JitInit, ParseInit, GenInit
<1>2. ~Alive /\ StackBar = <<>> /\ PcBar = 0 /\ GasBar = gasleft + 0
  BY <1>1, IdleBars DEF Idle
<1>3. StatusBar = "idle" /\ ErrPcBar = 0
  BY <1>1 DEF StatusBar, ErrPcBar
<1>4. bytecode \in Seq(0 .. 255)
  BY <1>1, CodesAssumption
<1>5. Evm!EvmInit
  BY <1>1, <1>2, <1>3, <1>4 DEF Evm!EvmInit
<1>6. mem \in Memory
  BY <1>1, LimitsAssumption DEF Memory, Words
<1>7. JitInv
  BY <1>1, <1>2, <1>6 DEF JitInv
<1> QED  BY <1>5, <1>7

(* A call is preceded by a parse, so what was proved about parsing and     *)
(* rendering holds of it.                                                  *)
LEMMA CoveredParses == CoveredSpec => ParseSpec
<1>1. JitInit => ParseInit
  BY DEF JitInit
<1>2. [CoveredNext]_jitvars => [ParseNext]_parsevars
  BY DEF CoveredNext, Compile, Run, Execute, jitvars
<1> QED  BY <1>1, <1>2, PTL DEF CoveredSpec, ParseSpec

LEMMA StaysFine ==
  ASSUME ParserInputs
  PROVE  CoveredSpec => []Fine
<1>1. CoveredSpec => ParseSpec
  BY CoveredParses
<1>2. ParseSpec => GenSpec
  BY ParserDrivesCodegen
<1>3. GenSpec => [](GenInv /\ Flows /\ Rendered)
  BY AllRendered
<1>4. ParseSpec => []Faithful
  BY StaysFaithful
<1>5. ParseSpec => []DynamicKnown
  BY StaysDynamic
<1>6. (GenInv /\ Flows /\ Rendered) /\ Faithful /\ DynamicKnown => Fine
  BY DEF Fine
<1> QED  BY <1>1, <1>2, <1>3, <1>4, <1>5, <1>6, PTL

(* What holds throughout a call.  JitInv says that every register of the   *)
(* cache has a value and it is a word, that every opcode left in a group   *)
(* that was checked in advance will find its operands and room for its     *)
(* results, and that control is where the builder thought it could be.     *)
THEOREM CallInvariant ==
  ASSUME ParserInputs, Exact
  PROVE  CoveredSpec => []JitInv
<1>1. CoveredSpec => []Fine
  BY StaysFine
<1>2. JitInit /\ Fine => JitInv
  BY JitStart
<1>3. Fine /\ Fine' /\ JitInv /\ [CoveredNext]_jitvars => JitInv'
  BY StepCovered
<1> QED  BY <1>1, <1>2, <1>3, PTL DEF CoveredSpec

(* The EVM stack, the part in memory and the part in registers, always     *)
(* fits the stack of the context, whatever the bytecode, the stack a call  *)
(* starts with and the callbacks: no store, of a jump, at the end of a     *)
(* block or of a SWAPn, is beyond the array, and none is ever clipped.     *)
THEOREM StackFits ==
  ASSUME ParserInputs, Exact
  PROVE  CoveredSpec => [](Alive => sp \in Nat /\ sp <= StackSize
                                    /\ (Within => sp + Len(Op.cache) <= StackSize))
<1>1. ASSUME Fine, JitInv, Alive
      PROVE  sp \in Nat /\ sp <= StackSize /\ (Within => sp + Len(Op.cache) <= StackSize)
  <2>1. RunInv
    BY <1>1 DEF JitInv
  <2>2. sp \in Nat /\ sp <= StackSize
    BY <2>1, LimitsAssumption DEF RunInv
  <2>3. ASSUME Within PROVE sp + Len(Op.cache) <= StackSize
    <3>1. PICK ops, n, b : ops = Ops(blk) /\ n = next /\ b = code[blk].branch
      OBVIOUS
    <3>2. /\ ops = branches[b].opcodes /\ n \in 1 .. Len(ops) /\ Len(ops) \in Nat
          /\ Sized(blk, n, sp)
      BY <1>1, <2>1, <2>3, <3>1, OpHere
    <3>3. sp + Len(CacheAt(branches[b], n)) <= StackSize
      BY <3>1, <3>2 DEF Sized
    <3>4. n <= Len(ops)
      BY <3>2
    <3>5. CacheAt(branches[b], n) = Op.cache
      BY <3>1, <3>2, <3>4 DEF CacheAt, Op
    <3> QED BY <3>3, <3>5
  <2> QED BY <2>2, <2>3
<1>2. CoveredSpec => []Fine
  BY StaysFine
<1>3. CoveredSpec => []JitInv
  BY CallInvariant
<1> QED  BY <1>1, <1>2, <1>3, PTL

(* The compiled function implements the EVM.  Whatever the bytecode, the   *)
(* stack and the gas a call starts with, and what callbacks answer, every  *)
(* step of code that is Covered is a step of Evm under the mapping, or one *)
(* it does not see: the same stack, gas and pc behind every instruction,   *)
(* and the same code, gas and pc at every exit.                            *)
THEOREM Implements ==
  ASSUME ParserInputs, Exact
  PROVE  CoveredSpec => ImplementsEvm
<1>1. CoveredSpec => []Fine
  BY StaysFine
<1>2. CoveredSpec => []JitInv
  BY CallInvariant
<1>3. JitInit /\ Fine => Evm!EvmInit
  BY JitStart
<1>4. Fine /\ Fine' /\ JitInv /\ [CoveredNext]_jitvars => [Evm!EvmNext]_Evm!evmvars
  BY StepCovered
<1> QED  BY <1>1, <1>2, <1>3, <1>4, PTL DEF CoveredSpec, ImplementsEvm, Evm!EvmSpec
=============================================================================
