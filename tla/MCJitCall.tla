------------------------------ MODULE MCJitCall -----------------------------
(* Small instances of compiled code for TLC.                               *)
EXTENDS JitCall, WordOps
LOCAL INSTANCE SequencesExt

(* Instructions.  3 is a word that is an offset and a jump target in some  *)
(* programs.                                                               *)
P(n)     == <<96, n>>
Push0    == <<95>>
Plain    == {<<b>> : b \in {0, 21, 53, 80, 86, 87, 88, 90, 91, 128, 144, 243}}
Alphabet == Plain \cup {P(3), Push0}
Moves    == {P(5), <<1>>, <<53>>, <<80>>, <<129>>, <<145>>}
Flow     == {P(3), <<86>>, <<87>>, <<91>>, <<80>>, <<0>>}

UpTo(n, instructions) == UNION {[1 .. k -> instructions] : k \in 0 .. n}
Programs(S) == {FlattenSeq(p) : p \in S}

(* Loops: back to 0, for ever until the gas is spent, and through a jump   *)
(* table with a target computed from the stack; a call in a loop; dynamic  *)
(* jumps beyond JumpLimit, behind a callback that has stored its pc.       *)
Loops ==
    {<<95, 91, 96, 1, 86>>,                                \* for ever
     <<95, 91, 80, 96, 2, 128, 96, 1, 87, 0>>,
     <<88, 91, 96, 64, 1, 128, 96, 1, 87, 90, 0>>,         \* until the sum wraps to 0
     <<95, 91, 128, 96, 3, 1, 86, 91, 96, 1, 86>>,
     <<95, 91, 53, 96, 1, 87, 91, 96, 9, 86, 91, 0>>,
     <<91, 96, 3, 53, 86, 91>>,
     <<91, 53, 25, 86>>, <<91, 53, 128, 25, 87>>}

Called ==
    Programs(UNION {UpTo(3, Alphabet), UpTo(4, Moves), UpTo(4, Flow), {<<l>> : l \in Loops}})
      \cup {<<b>> : b \in 0 .. 255}

(* Bytecodes that are only parsed and rendered: every sequence of up to    *)
(* five bytes that matter to the layout of code and data (PUSH1, PUSH2,    *)
(* PUSH3, JUMPDEST) with a PUSH among them.                                *)
PushHeads == {96, 97, 98}
Layout    == {91} \cup PushHeads
IsLayout(c) == (\A k \in DOMAIN c : c[k] \in Layout) /\ \E k \in DOMAIN c : c[k] \in PushHeads

MCCodes == Called \cup {c \in UpTo(5, Layout) : IsLayout(c)}

(* PUSH0 PUSH1 7 JUMPI PUSH0 PUSH0 RETURN JUMPDEST STOP.                         *)
MCReturn == {<<95, 96, 7, 87, 95, 95, 243, 91, 0>>}
MCRets == {-20}
MCExitRets == {0, -20}
MCStacks == {<<>>, <<2>>, <<7, 3>>, <<1, 3, 0>>}

CalledNext == CoveredNext /\ (phase = "done" => ~IsLayout(bytecode))
CalledSpec == JitInit /\ [][CalledNext]_jitvars /\ WF_jitvars(ExactHere /\ Execute)
=============================================================================
