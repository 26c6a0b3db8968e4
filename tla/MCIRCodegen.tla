---------------------------- MODULE MCIRCodegen -----------------------------
(* Small instances of the IR builder and of the code generator for TLC.    *)
EXTENDS IRCodegen, WordFold

MCPushes  == {<<0, 0>>, <<1, 3>>}
MCOnePush == {<<1, 5>>}
MCDepths  == {1, 2}
MCBatchOps ==
    {[op |-> 32, in |-> 2, out |-> 1, gas |-> 0, stop |-> FALSE],   \* KECCAK256
     [op |-> 243, in |-> 2, out |-> 0, gas |-> 0, stop |-> TRUE]}   \* RETURN
MCHighOps == MCBatchOps \cup
    {[op |-> 53, in |-> 1, out |-> 1, gas |-> 3, stop |-> FALSE],   \* CALLDATALOAD
     [op |-> 55, in |-> 3, out |-> 0, gas |-> 0, stop |-> FALSE]}   \* CALLDATACOPY

Idle == phase = "build" /\ UNCHANGED genvars
Emit == Generate \/ Walk(at[1], at[2]) \/ Finish
Pushing == \E p \in Pushes : AppendPushN(p[1], p[2])

EveryOpcode(Is(_)) ==
    \A b \in DOMAIN branches : \A k \in DOMAIN branches[b].opcodes :
        Is(branches[b].opcodes[k])

(* Programs with jumps: what String does with branches and labels.         *)
FlowOpcode(op) == op.name \in {"push", "pop", "jumpdest", "jump", "jumpi", "stop"}
FlowBuild ==
    /\ EveryOpcode(FlowOpcode)
    /\ \/ AppendJumpDest \/ AppendJump \/ AppendJumpI
       \/ opcount < 4 /\ (Pushing \/ AppendPop \/ AppendStop)

(* Straight-line programs: what the batched checks say.  The last opcode   *)
(* is one that only the stack's height can fail.                           *)
BatchOpcode(op) ==
    \/ op.name = "push" /\ op.arg = 0
    \/ op.name \in {"dup", "swap"} /\ op.arg = 1
    \/ op.name \in {"pop", "add"}
    \/ op.name = "call" /\ op.arg \in {h.op : h \in MCBatchOps}
BatchProgram == pccount = opcount /\ EveryOpcode(BatchOpcode)
BatchBuild ==
    /\ BatchProgram
    /\ \/ AppendPushN(0, 0) \/ AppendDupN(1) \/ AppendSwapN(1)
       \/ /\ opcount < 4
          /\ AppendPop \/ AppendAlu("add") \/ (\E h \in MCBatchOps : AppendHighOpcode(h))

(* All of these, and every program of up to AnyOps opcodes of any kind.    *)
(* Those of up to RenderedOps opcodes are rendered too.                    *)
AnyOps == 4
RenderedOps == 3
AnyBuild ==
    Idle /\ ((opcount < AnyOps /\ pccount < AnyOps /\ Next) \/ FlowBuild \/ BatchBuild)
Rendered == \/ opcount <= RenderedOps /\ pccount <= RenderedOps
            \/ EveryOpcode(FlowOpcode)
            \/ BatchProgram
AnyEmit == (Rendered /\ Generate) \/ Walk(at[1], at[2]) \/ Finish
AnySpec == GenInit /\ [][AnyBuild \/ AnyEmit]_allvars

FlowSpec  == GenInit /\ [][(Idle /\ FlowBuild) \/ Emit]_allvars
BatchSpec == GenInit /\ [][(Idle /\ BatchBuild) \/ Emit]_allvars

(* Constants folded on both sides of a conditional jump.                   *)
FoldBuild == Idle /\ (Pushing \/ (\E name \in AluOps : AppendAlu(name)) \/ AppendJumpI)
FoldSpec == GenInit /\ [][FoldBuild \/ Emit]_allvars
=============================================================================
