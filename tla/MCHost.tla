------------------------------- MODULE MCHost -------------------------------
(* Two goroutines, two templates, four LLVM modules and two contexts.      *)
EXTENDS Host
MCDefines(s) == IF s = "a" THEN {"main"} ELSE {"main", "other"}

(* Debug operations at a pc whose 16 low bits are zero and at one where    *)
(* they are not, and operations with and without words on the stack.       *)
Debug(pc) == [opcode |-> 238, pc |-> pc, in |-> 0, words |-> 0, debug |-> TRUE]
Op(in, words) == [opcode |-> 16, pc |-> 0, in |-> in, words |-> words, debug |-> FALSE]
MCOperations == {Debug(7), Debug(2 ^ 16), Op(0, 0), Op(2, 2)}

Context(owned, bindings, opcallback, dbg) ==
    [owned |-> owned, limit |-> 2, bindings |-> bindings, opcallback |-> opcallback,
     debug |-> dbg]
MCSetups == {
    Context(TRUE, {}, FALSE, FALSE), Context(FALSE, {16, 238}, FALSE, TRUE),
    Context(FALSE, {16}, TRUE, FALSE), Context(TRUE, {16}, FALSE, FALSE)}
=============================================================================
