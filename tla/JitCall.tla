------------------------------ MODULE JitCall -------------------------------
(***************************************************************************)
(* A call of a compiled function: Module.Call of llvm/module.go, with a    *)
(* fresh context of llvm/callctx.go, executes the code IRCodegen rendered, *)
(* opcode by opcode, by the templates of irgen/irtpl.                      *)
(*                                                                         *)
(* The EVM stack is in two places.  Its lower part is in memory, in mem    *)
(* below sp; its upper part is in registers, those the builder has in the  *)
(* branch's cache, and reaches memory when the branch is left.  Gas is     *)
(* taken in advance for a whole group of opcodes.  The refinement mapping  *)
(* at the end puts both together again.                                    *)
(***************************************************************************)
EXTENDS EVM0Parser

CONSTANTS
    GasLimits, Stacks,  \* arguments of NewCallCtx: gaslimit, and stack words
    Apply(_, _),        \* the words a math or logic template may compute
    Meaning(_, _),      \* the word the EVM asks for
    Outs, Rets, Uses,   \* callbacks: words, non-zero results, gas used
    ExitRets,           \* results of the callbacks of RETURN and REVERT
    JumpLimit           \* number of i64 values, 2^64 in flow-jump.ll

ASSUME CallAssumption ==
    /\ GasLimits \subseteq 0 .. CountLimit - 1 /\ GasLimits \subseteq Words
    /\ Stacks \subseteq {s \in Seq(Words) : Len(s) <= StackSize}
    /\ Outs \subseteq Words /\ Rets \subseteq Int \ {0} /\ Uses \subseteq Nat
    /\ ExitRets \subseteq Rets \cup {0}
    /\ JumpLimit \in Nat /\ PcLimit <= JumpLimit

VARIABLES
    blk, next,  \* position: a block of code, the next opcode of its branch
    mem, sp,    \* evm_callctx.stack and .sp
    gasleft,    \* stack_gasleft_ptr, then evm_callctx.gasleft
    regs,       \* the LLVM registers of the current branch
    ctxpc,      \* evm_callctx.pc
    returned,   \* the function has returned
    exitcode    \* what it returned

runvars == <<blk, next, mem, sp, gasleft, regs, ctxpc, returned, exitcode>>
jitvars == <<parsevars, runvars>>

JitInit ==
    /\ ParseInit
    /\ blk = 0 /\ next = 0 /\ sp = 0 /\ gasleft = 0 /\ ctxpc = 0
    /\ mem = [a \in 0 .. StackSize - 1 |-> 0]
    /\ regs = <<>> /\ returned = FALSE /\ exitcode = 0

Compile == ParseNext /\ UNCHANGED runvars

-----------------------------------------------------------------------------
Running == phase = "done" /\ ~returned

(* Where control goes: out, or into block b; graceful_return is behind the *)
(* last one.                                                               *)
Return(c) == returned' = TRUE /\ exitcode' = c /\ UNCHANGED <<blk, next, regs>>
Enter(b) == blk' = b /\ next' = 1 /\ regs' = <<>> /\ UNCHANGED <<returned, exitcode>>
Graceful == blk > Len(code)

(* NewCallCtx and Module.Call.                                             *)
Call ==
    /\ Running /\ blk = 0
    /\ \E s \in Stacks, g \in GasLimits :
          /\ mem' = [a \in DOMAIN mem |-> IF a < Len(s) THEN s[a + 1] ELSE 0]
          /\ sp' = Len(s) /\ gasleft' = g
    /\ Enter(1)
    /\ UNCHANGED ctxpc

(* The opcode at the current position, with its checks and loads done.     *)
UnitsOf(b) == {code[b].units[j] : j \in DOMAIN code[b].units}
Ops(b) == BlockBranch(b)
Within == Running /\ blk \in DOMAIN code /\ next \in DOMAIN Ops(blk)
UnitHere == {u \in UnitsOf(blk) : u.index = next}
Unit1 == CHOOSE u \in UnitHere : TRUE
Op == Ops(blk)[next]
Checked == CHOOSE v \in {Verdict(u.check, sp, gasleft) : u \in UnitHere} : TRUE
SpAfterLoad == sp - Op.stackLoad
Defining(new, rs) ==  \* the registers rs and new, which LLVM names anew
    [r \in DOMAIN new \cup DOMAIN rs |-> IF r \in DOMAIN new THEN new[r] ELSE rs[r]]
RegsAfterLoad ==
    Defining([r \in {In(Op.id, k) : k \in 0 .. Op.stackLoad - 1} |-> mem[sp - r[3] - 1]],
             regs)
Val(r, rs) == IF IsConst(r) THEN r[2] ELSE rs[r]
Arg(n) == Val(Op.stackRefs[n], RegsAfterLoad)

(* stack-store: the values of refs go to memory at p.                      *)
StoreUnmoved(refs, rs, p) ==  \* slip: the stack pointer is not moved
    /\ mem' = [a \in DOMAIN mem |->
                 IF a \in p .. (p + Len(refs) - 1) THEN Val(refs[a - p + 1], rs)
                 ELSE mem[a]]
    /\ sp' = p
Store(refs, rs, p) ==
    /\ mem' = [a \in DOMAIN mem |->
                 IF a \in p .. (p + Len(refs) - 1) THEN Val(refs[a - p + 1], rs)
                 ELSE mem[a]]
    /\ sp' = p + Len(refs)

(* A folded opcode has no code; only the position moves.                   *)
SkipFolded ==
    /\ Within /\ Ops(blk)[next].isUnnecessary
    /\ next' = next + 1
    /\ UNCHANGED <<blk, mem, sp, gasleft, regs, ctxpc, returned, exitcode>>

Emits == Within /\ ~Ops(blk)[next].isUnnecessary

ChecksFail ==
    /\ Emits /\ Checked.code # 0
    /\ gasleft' = Checked.gas /\ ctxpc' = Checked.pc
    /\ Return(Checked.code)
    /\ UNCHANGED <<mem, sp>>

Runs(names) == Emits /\ Op.name \in names /\ Checked.code = 0
Continue(results) ==
    /\ next' = next + 1 /\ regs' = Defining(results, RegsAfterLoad)
    /\ sp' = SpAfterLoad /\ gasleft' = Checked.gas
    /\ UNCHANGED <<blk, returned, exitcode>>
Result(w) == [r \in {Res(Op.id, 0)} |-> w]

NoCode ==
    /\ Runs({"push", "pc", "pop", "jumpdest"})
    /\ Continue(<<>>) /\ UNCHANGED <<mem, ctxpc>>

(* stack-dupn.ll and stack-swapn.ll: code only if the other word is in     *)
(* memory, stackAddLoad below sp.                                          *)
Below == SpAfterLoad - Op.stackAddLoad
Dup ==
    /\ Runs({"dup"})
    /\ Continue(IF Op.stackAddLoad > 0 THEN Result(mem[Below]) ELSE <<>>)
    /\ UNCHANGED <<mem, ctxpc>>
Swap ==
    /\ Runs({"swap"})
    /\ IF Op.stackAddLoad > 0
       THEN Continue(Result(mem[Below])) /\ mem' = [mem EXCEPT ![Below] = Arg(1)]
       ELSE Continue(<<>>) /\ UNCHANGED mem
    /\ UNCHANGED ctxpc

Alu ==
    /\ Runs(Foldable \cup Unfolded)
    /\ \E w \in Apply(Op.name, [n \in 1 .. Op.in |-> Arg(n)]) : Continue(Result(w))
    /\ UNCHANGED <<mem, ctxpc>>

Gas == Runs({"gas"}) /\ Continue(Result(Checked.gas)) /\ UNCHANGED <<mem, ctxpc>>

(* evmc-call.ll.  A callback that returns 0 is followed by the code behind *)
(* it: for RETURN and REVERT, whose branch ends there without a store,     *)
(* that is the next block.                                                 *)
Callback ==
    /\ Runs({"call"}) /\ ctxpc' = Op.pc /\ UNCHANGED mem
    /\ \E use \in Uses :
        /\ use <= Checked.gas
        /\ gasleft' = Checked.gas - use /\ sp' = SpAfterLoad
        /\ \/ \E out \in [0 .. Op.out - 1 -> Outs] :
                /\ ~Op.isExitOpcode
                /\ next' = next + 1
                /\ regs' = Defining([r \in {Res(Op.id, k) : k \in DOMAIN out} |-> out[r[3]]],
                                    RegsAfterLoad)
                /\ UNCHANGED <<blk, returned, exitcode>>
           \/ /\ Op.isExitOpcode /\ 0 \in ExitRets
              /\ IF blk = Len(code) THEN Return(0) ELSE Enter(blk + 1)
           \/ \E ret \in (IF Op.isExitOpcode THEN ExitRets \ {0} ELSE Rets) : Return(ret)

(* flow-jump.ll and flow-jumpi.ll: store the cached stack, then branch to  *)
(* the label of a static target or look a dynamic one up in the table.     *)
(* jump stores the pc only on its way to the table, jumpi before.          *)
BlockAt(pc) == CHOOSE b \in LabelsAt(pc) : TRUE
TakeJump ==
    /\ Store(Op.stackStore, RegsAfterLoad, SpAfterLoad) /\ gasleft' = Checked.gas
    /\ LET dst == Arg(1) IN
       IF Op.isStaticJump
       THEN IF Unit1.valid THEN Enter(BlockAt(dst)) /\ UNCHANGED ctxpc
            ELSE Return(-12) /\ ctxpc' = Op.pc
       ELSE /\ ctxpc' = IF dst < JumpLimit \/ Op.name = "jumpi" THEN Op.pc ELSE ctxpc
            /\ IF dst < JumpLimit /\ dst \in JumpTable
               THEN Enter(BlockAt(dst)) ELSE Return(-12)
Jump == Runs({"jump"}) /\ TakeJump
JumpI ==
    /\ Runs({"jumpi"})
    /\ IF Arg(2) # 0 THEN TakeJump ELSE Continue(<<>>) /\ UNCHANGED <<mem, ctxpc>>

Leave(c) ==
    /\ Return(c) /\ gasleft' = Checked.gas /\ sp' = SpAfterLoad
    /\ ctxpc' = Op.pc /\ UNCHANGED mem
Stop == Runs({"stop"}) /\ Leave(0)
Invalid == Runs({"invalid"}) /\ Leave(-14)

EndBlock ==
    /\ Running /\ blk \in DOMAIN code /\ next > Len(Ops(blk))
    /\ Store(code[blk].store, regs, sp)
    /\ Enter(blk + 1)
    /\ UNCHANGED <<gasleft, ctxpc>>

GracefulReturn ==
    /\ Running /\ Graceful
    /\ Return(0) /\ UNCHANGED <<mem, sp, gasleft, ctxpc>>

Execute ==
    /\ \/ SkipFolded \/ ChecksFail \/ NoCode \/ Dup \/ Swap \/ Alu \/ Gas
       \/ Callback \/ Jump \/ JumpI \/ Stop \/ Invalid \/ EndBlock
       \/ GracefulReturn
    /\ UNCHANGED parsevars
Run == (Call /\ UNCHANGED parsevars) \/ Execute

JitNext == Compile \/ Run

(* Nothing blocks compiled code that was called, and callbacks return.     *)
JitSpec == JitInit /\ [][JitNext]_jitvars /\ WF_jitvars(Execute)

(* Calls of code that the known defects of the code generator do not       *)
(* affect (see the violations that MCIRCodegen and MCWordOps find): no     *)
(* missing label, no live branch dropped, no folded opcode uncharged, no   *)
(* lax or wrapped overflow check, and nothing behind a RETURN or REVERT    *)
(* that may return 0.                                                      *)
Covered ==
    /\ WellFormedIR /\ LiveBranchesKept /\ FoldedCharged
    /\ \A u \in Groups : u.check.max > 0 =>
          u.check.max <= StackSize /\ LoadedBefore(BlockOps(u), u.index) = 0
    /\ \A b \in DOMAIN code : \A u \in UnitsOf(b) :
          (u.op.name = "call" /\ u.op.isExitOpcode /\ 0 \in ExitRets) => b = Len(code)

(* Nor is any opcode executed with operands for which its template is not  *)
(* exact: a division by 0, a sum or a product that wraps before its        *)
(* remainder is taken.                                                     *)
Faulty(name, a) ==
    \/ name \in Ternary \cup {"div"} /\ a[AluIn(name)] = 0
    \/ name = "addmod" /\ a[1] + a[2] >= WordLimit
    \/ name = "mulmod" /\ a[1] * a[2] >= WordLimit
ExactHere ==
    Runs(Foldable \cup Unfolded) => ~Faulty(Op.name, [n \in 1 .. Op.in |-> Arg(n)])

CoveredNext == Compile \/ (Running /\ (blk = 0 => Covered) /\ ExactHere /\ Run)
CoveredSpec == JitInit /\ [][CoveredNext]_jitvars /\ WF_jitvars(ExactHere /\ Execute)

-----------------------------------------------------------------------------
(* The refinement mapping.                                                 *)
Alive  == Running /\ blk > 0
Inside == Running /\ blk \in DOMAIN code
Cached ==
    IF ~Inside THEN <<>>
    ELSE IF next \in DOMAIN Ops(blk) THEN Ops(blk)[next].cache ELSE code[blk].store

StackBar ==
    IF ~Alive THEN <<>>
    ELSE [k \in 1 .. sp |-> mem[k - 1]]
           \o [k \in DOMAIN Cached |-> Val(Cached[k], regs)]

PcBar ==
    IF ~Alive THEN 0
    ELSE IF Within THEN Ops(blk)[next].pc
    ELSE IF Inside /\ code[blk].branch < Len(branches)
         THEN branches[code[blk].branch + 1].pc
    ELSE pccount

(* Gas taken for opcodes of the current group that are still to come.      *)
OpenUnits == {u \in UnitsOf(blk) : next \in (u.index + 1) .. u.last}
Prepaid ==
    IF ~Inside \/ OpenUnits = {} THEN 0
    ELSE Total(GasOf(Ops(blk)), next, (CHOOSE u \in OpenUnits : TRUE).last)

GasBar    == gasleft + Prepaid
StatusBar == IF returned THEN "exited" ELSE IF blk = 0 THEN "idle" ELSE "running"
ErrPcBar  == IF exitcode = 0 THEN 0 ELSE ctxpc

Evm == INSTANCE Evm WITH
    Apply <- Meaning, pc <- PcBar, stack <- StackBar, gas <- GasBar,
    status <- StatusBar, exit <- exitcode, errpc <- ErrPcBar

(* The compiled function behaves as the EVM: whatever the bytecode, the    *)
(* stack it is entered with, the gas and what callbacks do, every opcode   *)
(* executed moves the whole stack, the gas and the pc as the instruction   *)
(* does, and every exit has the code, the gas left and the pc of the       *)
(* failing instruction that the EVM would give.                            *)
ImplementsEvm == Evm!EvmSpec

(* Gas bounds every execution: whatever loops the bytecode has, a call     *)
(* returns.                                                                *)
CallReturns == (blk > 0) ~> returned
=============================================================================
