----------------------------- MODULE IRCodegen ------------------------------
(***************************************************************************)
(* Rendering a built IRFunction: String, updateJumpValidity and            *)
(* generateOpIRCode of irgen/builder/irfunc.go, with the "op-checks"       *)
(* template of irgen/irtpl/op-helper.ll they fill in.                      *)
(*                                                                         *)
(* The builder (module IRFunction) appends opcodes; at some point String   *)
(* is called and walks branches and opcodes in order.  The text it writes  *)
(* is a sequence of blocks, one per live branch; a block is a label, the   *)
(* emitted opcodes (each with the gas and stack check written in front of  *)
(* it) and the store of the cached stack at its end.                       *)
(***************************************************************************)
EXTENDS IRFunction, FiniteSetsExt

CONSTANTS
    StackSize,   \* IRFunction.maxstack: 1023 in the parser
    CountLimit   \* number of uint64 values: 2^64 in the templates

ASSUME CountAssumption ==
    /\ StackSize \in Nat /\ CountLimit \in Nat /\ StackSize < CountLimit

VARIABLES
    phase,   \* "build", then "emit" while String runs, then "done"
    at,      \* the loop variables of generateOpIRCode: <<branch, opcode>>
    code     \* the blocks written so far

genvars == <<phase, at, code>>
allvars == <<vars, genvars>>

-----------------------------------------------------------------------------
(* updateJumpValidity: a static jump is counted for the last branch with   *)
(* its target's pc.  Of the count jumpRefs only "is it 0" matters.         *)
BranchesAt(pc) == {b \in DOMAIN branches : branches[b].pc = pc}
Referenced(b) ==
    /\ b = Max(BranchesAt(branches[b].pc))
    /\ \E c \in DOMAIN branches : \E k \in DOMAIN branches[c].opcodes :
          /\ branches[c].opcodes[k].isStaticJump
          /\ branches[c].opcodes[k].staticJumpPc = branches[b].pc

DeadUnreferenced(b) ==  \* slip: dynamic jumps are forgotten
    ~Referenced(b) /\ branches[b].pc > 0

Dead(b) == ~hasdynjumps /\ ~Referenced(b) /\ branches[b].pc > 0

Labelled(b) == branches[b].pc > 0 \/ ~noinitjump

IsValidTarget(op) == op.isStaticJump /\ BranchesAt(op.staticJumpPc) # {}

(* The opcodes whose checks are batched with those of opcode k: from k to  *)
(* GroupEnd(ops, k).                                                       *)
Batches(ops, k, n) ==
    n > k => /\ ops[k].gas > 0 /\ ~ops[n - 1].breakGasGroup
             /\ ops[n].gas > 0 /\ ~ops[n].skipGasCheck
GroupEnd(ops, k) ==
    Max({n \in k .. Len(ops) : \A i \in k .. n : Batches(ops, k, i)})

GasOf(ops)  == [n \in DOMAIN ops |-> ops[n].gas]
LoadOf(ops) == [n \in DOMAIN ops |-> ops[n].stackLoad]

(* Words opcode n of the group of k needs in the memory stack when the     *)
(* group starts.                                                           *)
StackInOwn(ops, k, n) ==  \* slip: totalStackIn is not accumulated
    ops[n].stackLoad + ops[n].stackAddLoad
StackIn(ops, k, n) == Total(LoadOf(ops), k, n) + ops[n].stackAddLoad

OpCheck(ops, k, n) ==
    [id |-> ops[n].id, pc |-> ops[n].pc, opGas |-> ops[n].gas,
     minGas |-> Total(GasOf(ops), k, n),
     minStack |-> IF \A i \in k .. (n - 1) : StackIn(ops, k, n) > StackIn(ops, k, i)
                  THEN StackIn(ops, k, n) ELSE 0,
     maxStack |-> ops[n].stackCheck]

MayFail(c) == c.minStack > 0 \/ c.maxStack > 0 \/ c.minGas > 0

(* The parameters of the op-checks template for opcodes k to end, its list *)
(* of opcodes by their position in the branch.                             *)
ChecksFirstOut(ops, k, end) ==  \* slip: totalStackOut keeps the first stackCheck
    LET outs == {n \in k .. end : ops[n].stackCheck > 0}
    IN  [gas |-> Total(GasOf(ops), k, end),
         min |-> Max({StackIn(ops, k, n) : n \in k .. end}),
         max |-> IF outs = {} THEN 0 ELSE ops[Min(outs)].stackCheck,
         ops |-> [n \in {m \in k .. end : MayFail(OpCheck(ops, k, m))} |->
                     OpCheck(ops, k, n)]]
Checks(ops, k, end) ==
    LET outs == {n \in k .. end : ops[n].stackCheck > 0}
    IN  [gas |-> Total(GasOf(ops), k, end),
         min |-> Max({StackIn(ops, k, n) : n \in k .. end}),
         max |-> IF outs = {} THEN 0 ELSE ops[Max(outs)].stackCheck,
         ops |-> [n \in {m \in k .. end : MayFail(OpCheck(ops, k, m))} |->
                     OpCheck(ops, k, n)]]
NoChecks == [gas |-> 0, min |-> 0, max |-> 0, ops |-> <<>>]

-----------------------------------------------------------------------------
GenInit == Init /\ phase = "build" /\ at = <<1, 0>> /\ code = <<>>

Build == phase = "build" /\ Next /\ UNCHANGED genvars

Generate ==
    /\ phase = "build" /\ ~err
    /\ phase' = "emit"
    /\ UNCHANGED <<vars, at, code>>

Emitting(b) == phase = "emit" /\ at[1] = b /\ b <= Len(branches)

SkipDeadBranch(b) ==
    /\ Emitting(b) /\ at[2] = 0 /\ Dead(b)
    /\ at' = <<b + 1, 0>>
    /\ UNCHANGED <<vars, phase, code>>

OpenBranch(b) ==
    /\ Emitting(b) /\ at[2] = 0 /\ ~Dead(b)
    /\ code' = Append(code, [branch |-> b, pc |-> branches[b].pc,
                             label |-> Labelled(b), units |-> <<>>, store |-> <<>>])
    /\ at' = <<b, 1>>
    /\ UNCHANGED <<vars, phase>>

SkipUnnecessary(b, k) ==
    /\ Emitting(b) /\ at[2] = k /\ k \in DOMAIN branches[b].opcodes
    /\ branches[b].opcodes[k].isUnnecessary
    /\ at' = <<b, k + 1>>
    /\ UNCHANGED <<vars, phase, code>>

(* An emitted opcode: irhead, the batched checks unless an earlier opcode  *)
(* made them, stack-load, and the opcode's template.  The opcodes batched  *)
(* with it are marked; an exit opcode ends the branch.                     *)
Unit(ops, k, b) ==
    [op |-> ops[k], valid |-> IsValidTarget(ops[k]), branch |-> b, index |-> k,
     last |-> IF ops[k].skipGasCheck THEN 0 ELSE GroupEnd(ops, k),
     check |-> IF ops[k].skipGasCheck THEN NoChecks
              ELSE Checks(ops, k, GroupEnd(ops, k))]

MarkedNone(ops, k) == ops  \* slip: skipGasCheck is not set
Marked(ops, k) ==
    [n \in DOMAIN ops |->
        IF n \in (k + 1) .. GroupEnd(ops, k) THEN [ops[n] EXCEPT !.skipGasCheck = TRUE]
        ELSE ops[n]]

EmitOpcode(b, k) ==
    LET ops == branches[b].opcodes IN
    /\ Emitting(b) /\ at[2] = k /\ k \in DOMAIN ops /\ ~ops[k].isUnnecessary
    /\ code' = [code EXCEPT ![Len(code)].units = Append(@, Unit(ops, k, b))]
    /\ branches' = IF ops[k].skipGasCheck THEN branches
                   ELSE [branches EXCEPT ![b].opcodes = Marked(ops, k)]
    /\ at' = IF ops[k].isExitOpcode THEN <<b + 1, 0>> ELSE <<b, k + 1>>
    /\ UNCHANGED <<pccount, opcount, noinitjump, hasdynjumps, err, phase>>

CloseBranch(b) ==
    /\ Emitting(b) /\ at[2] > Len(branches[b].opcodes)
    /\ code' = [code EXCEPT ![Len(code)].store = StackStore(branches[b])]
    /\ at' = <<b + 1, 0>>
    /\ UNCHANGED <<vars, phase>>

Finish ==
    /\ phase = "emit" /\ at[1] > Len(branches)
    /\ phase' = "done"
    /\ UNCHANGED <<vars, at, code>>

Walk(b, k) ==
    \/ SkipDeadBranch(b) \/ OpenBranch(b) \/ CloseBranch(b)
    \/ SkipUnnecessary(b, k) \/ EmitOpcode(b, k)

GenNext == Build \/ Generate \/ Walk(at[1], at[2]) \/ Finish

GenSpec == GenInit /\ [][GenNext]_allvars

-----------------------------------------------------------------------------
(* What the op-checks template does with sp words in the memory stack and  *)
(* gas left g: go on, or return a code at a pc with some gas left.         *)

Sub(x, y) == (x - y) % CountLimit
Over(sp, max) == max > 0 /\ sp > Sub(StackSize, max)

Trips(c, sp, g) == g < c.gas \/ sp < c.min \/ Over(sp, c.max)
Blames(c, sp, g) == g < c.minGas \/ sp < c.minStack \/ Over(sp, c.maxStack)

Go(g) == [code |-> 0, pc |-> 0, gas |-> g]
Fail(c, pc, g) == [code |-> c, pc |-> pc, gas |-> g]

Blame(c, sp, g) ==
    IF g < c.minGas THEN Fail(-13, c.pc, Sub(g, c.minGas - c.opGas))
    ELSE Fail(IF sp < c.minStack THEN -10 ELSE -11, c.pc, Sub(g, c.minGas))

VerdictFree(c, sp, g) ==  \* slip: the gas is checked but not taken
    LET blamed == {i \in DOMAIN c.ops : Blames(c.ops[i], sp, g)}
    IN  IF Trips(c, sp, g) /\ blamed # {} THEN Blame(c.ops[Min(blamed)], sp, g)
        ELSE Go(g)
Verdict(c, sp, g) ==
    LET blamed == {i \in DOMAIN c.ops : Blames(c.ops[i], sp, g)}
    IN  IF Trips(c, sp, g) /\ blamed # {} THEN Blame(c.ops[Min(blamed)], sp, g)
        ELSE Go(Sub(g, c.gas))

(* The reference: the opcodes from k to end one at a time, each charged    *)
(* and then checked against the height of the whole EVM stack.             *)

Height(ops, k, n, sp) ==
    sp - Total(LoadOf(ops), k, n - 1) + Len(ops[n].cache)

StepByStep(ops, k, end, sp, g) ==
    LET left(n)  == g - Total(GasOf(ops), k, n - 1)
        poor(n)  == left(n) < ops[n].gas
        under(n) == Height(ops, k, n, sp) < Takes(ops[n])
        over(n)  == Height(ops, k, n, sp) - ops[n].in + ops[n].out > StackSize
        bad      == {n \in k .. end : poor(n) \/ under(n) \/ over(n)}
        n        == Min(bad)
    IN  IF bad = {} THEN Go(left(end + 1))
        ELSE IF poor(n) THEN Fail(-13, ops[n].pc, left(n))
        ELSE Fail(IF under(n) THEN -10 ELSE -11, ops[n].pc, left(n + 1))

(* Words loaded, and the height reached, by the opcodes before k, relative *)
(* to the start of the branch.                                             *)
LoadedBefore(ops, k) == Total(LoadOf(ops), 1, k - 1)
MaxBefore(ops, k) == Max({0} \cup {ops[n].stackCheck : n \in 1 .. (k - 1)})

Groups == {u \in UNION {{code[i].units[j] : j \in DOMAIN code[i].units} :
                          i \in DOMAIN code} : u.last # 0}
BlockOps(u) == branches[u.branch].opcodes
Fits(u, sp) ==
    sp + LoadedBefore(BlockOps(u), u.index) + MaxBefore(BlockOps(u), u.index)
        <= StackSize
(* The amounts of gas, an uint64, around which the answer changes.         *)
GasAmounts(u) ==
    LET charged(n) == Total(GasOf(BlockOps(u)), u.index, n)
    IN  (0 .. CountLimit - 1)
          \cap UNION {{charged(n) - 1, charged(n)} : n \in u.index .. u.last}

Batched(u, sp, g) == Verdict(u.check, sp, g)
Stepped(u, sp, g) == StepByStep(BlockOps(u), u.index, u.last, sp, g)

(* One check in front of a run of opcodes says what checking each of them  *)
(* in turn would: the same first failing opcode, the same error code, the  *)
(* same gas left, and success exactly when each succeeds.  Overflows are   *)
(* excepted: see OverflowsCaught.                                          *)
BatchExact ==
    phase = "done" =>
        \A u \in Groups : \A sp \in 0 .. StackSize :
            Fits(u, sp) =>
                \A g \in GasAmounts(u) :
                    LET s == Stepped(u, sp, g) IN s.code # -11 => Batched(u, sp, g) = s

(* The same for overflows, of the groups the branch reaches before it has  *)
(* loaded anything from the memory stack (see EveryOverflowCaught), and    *)
(* that do not push more than StackSize words by themselves: the template  *)
(* would compare with StackSize - max, which is unsigned and wraps.        *)
OverflowsCaught ==
    phase = "done" =>
        \A u \in Groups : \A sp \in 0 .. StackSize :
            (/\ Fits(u, sp) /\ u.check.max <= StackSize
             /\ LoadedBefore(BlockOps(u), u.index) = 0) =>
                \A g \in GasAmounts(u) :
                    LET s == Stepped(u, sp, g) IN s.code = -11 => Batched(u, sp, g) = s

(* The same for overflows of every group.                                  *)
EveryOverflowCaught ==
    phase = "done" =>
        \A u \in Groups : \A sp \in 0 .. StackSize :
            Fits(u, sp) =>
                \A g \in GasAmounts(u) :
                    LET s == Stepped(u, sp, g) IN s.code = -11 => Batched(u, sp, g) = s

(* The groups of a block in which opcode n of its branch is charged.       *)
Charges(i, n) == {u \in {code[i].units[j] : j \in DOMAIN code[i].units} :
                    n \in u.index .. u.last}
BlockBranch(i) == branches[code[i].branch].opcodes
Reached(i) ==
    LET ops == BlockBranch(i)
    IN  {n \in DOMAIN ops : \A k \in 1 .. (n - 1) : ~ops[k].isExitOpcode}

(* Every opcode that costs gas is charged by exactly one group of its      *)
(* block, whether it is emitted or folded away; a folded opcode in front   *)
(* of which no group is open is excepted (see FoldedCharged).              *)
ChargedOnce ==
    phase = "done" =>
        \A i \in DOMAIN code :
            \A n \in Reached(i) :
                LET op == BlockBranch(i)[n] IN
                op.gas > 0 => \/ Cardinality(Charges(i, n)) = 1
                              \/ op.isUnnecessary /\ Charges(i, n) = {}

(* An operation that constant folding removed still costs its gas.         *)
FoldedCharged ==
    phase = "done" =>
        \A i \in DOMAIN code :
            \A n \in Reached(i) :
                LET op == BlockBranch(i)[n] IN
                (op.isUnnecessary /\ op.gas > 0) => Charges(i, n) # {}

(* Labels.  A jump to a valid static target branches to the label named by *)
(* its constant; the jump table has an entry for every branch but an       *)
(* implicit entry branch.                                                  *)
LabelsAt(pc) == {i \in DOMAIN code : code[i].label /\ code[i].pc = pc}
Emitted == UNION {{code[i].units[j].op : j \in DOMAIN code[i].units} :
                    i \in DOMAIN code}
Static == {op \in Emitted : op.isStaticJump /\ IsValidTarget(op)}
JumpTable == IF hasdynjumps
             THEN {branches[b].pc : b \in {c \in DOMAIN branches :
                                            ~(branches[c].pc = 0 /\ noinitjump)}}
             ELSE {}

(* Dropping dead branches and leaving out the label of an implicit entry   *)
(* branch never removes a label some branch instruction names: every jump  *)
(* to a valid target that a program counter can hold and that is not 0,    *)
(* and every entry of the jump table, finds exactly one label.             *)
TargetsLabelled ==
    phase = "done" =>
        /\ \A op \in Static : op.stackRefs[1][2] \in 1 .. PcLimit - 1 =>
                Cardinality(LabelsAt(op.stackRefs[1][2])) = 1
        /\ \A pc \in JumpTable : Cardinality(LabelsAt(pc)) = 1

(* The IR is well formed: no branch instruction names a label that is      *)
(* missing, jump_invalid included (a dynamic jump names it, and it is only *)
(* written when the jump table has an entry).                              *)
WellFormedIR ==
    phase = "done" =>
        /\ \A op \in Static : Cardinality(LabelsAt(op.stackRefs[1][2])) = 1
        /\ \A pc \in JumpTable : Cardinality(LabelsAt(pc)) = 1
        /\ hasdynjumps => JumpTable # {}

(* Control leaves a branch for the next one unless its last opcode ends it *)
(* or jumps away.                                                          *)
FallsThrough(b) ==
    LET ops == branches[b].opcodes IN
    \A k \in DOMAIN ops : ~ops[k].isExitOpcode /\ ops[k].name # "jump"

(* A branch that the branch before it runs into is not dead code.          *)
LiveBranchesKept ==
    phase = "done" =>
        \A i \in DOMAIN code :
            LET b == code[i].branch IN
            (b < Len(branches) /\ FallsThrough(b)) =>
                \E j \in DOMAIN code : code[j].pc = branches[b + 1].pc
=============================================================================
