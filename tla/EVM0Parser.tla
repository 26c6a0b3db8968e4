----------------------------- MODULE EVM0Parser -----------------------------
(***************************************************************************)
(* EVM0Parser.ParseCodeSection and parseOpcode of irgen/evm0.go: EVM       *)
(* bytecode is read from left to right, each instruction is appended to an *)
(* IRFunction (module IRFunction), which is then rendered (IRCodegen) by   *)
(* IRBuilder.AddFunction.                                                  *)
(***************************************************************************)
EXTENDS IRCodegen

CONSTANT Codes  \* the bytecodes a run parses

ASSUME CodesAssumption ==
    Codes \subseteq {c \in Seq(0 .. 255) : Len(c) <= MaxOps /\ Len(c) <= MaxPc}

VARIABLES
    bytecode,  \* the argument of ParseCodeSection
    i          \* its loop variable

parsevars == <<allvars, bytecode, i>>

(* u256: the immediate of a PUSHn, big-endian.                             *)
ImmediateLE(data) ==  \* slip: little-endian
    LET value[n \in 0 .. Len(data)] ==
            IF n = 0 THEN 0 ELSE 256 * value[n - 1] + data[Len(data) + 1 - n]
    IN  value[Len(data)] % WordLimit
Immediate(data) ==
    LET value[n \in 0 .. Len(data)] ==
            IF n = 0 THEN 0 ELSE 256 * value[n - 1] + data[n]
    IN  value[Len(data)] % WordLimit

PushSize(b) == b - 95
Rest == SubSeq(bytecode, i + 2, Len(bytecode))
Truncated(b) == b \in PushBytes /\ Len(Rest) < PushSize(b)

(* A PUSH whose data runs past the end of the bytecode is consumed and     *)
(* appends nothing.                                                        *)
UsedOne(b) == 1   \* slip: the data of a PUSH is parsed as instructions
Used(b) == IF b \notin PushBytes THEN 1
           ELSE IF Truncated(b) THEN 1 + Len(Rest) ELSE 1 + PushSize(b)

AppendOpcode(b) ==
    \/ b = 0 /\ AppendStop
    \/ \E a \in AluBytes : b = a[1] /\ AppendAlu(a[2])
    \/ \E h \in HighOpcodes : b = h.op /\ AppendHighOpcode(h)
    \/ b = 80 /\ AppendPop
    \/ b = 86 /\ AppendJump
    \/ b = 87 /\ AppendJumpI
    \/ b = 88 /\ AppendPc
    \/ b = 90 /\ AppendGas
    \/ b = 91 /\ AppendJumpDest
    \/ b = 95 /\ AppendPushN(0, 0)
    \/ b \in PushBytes /\ ~Truncated(b)
         /\ AppendPushN(PushSize(b), Immediate(SubSeq(Rest, 1, PushSize(b))))
    \/ Truncated(b) /\ UNCHANGED vars
    \/ b \in DupBytes /\ AppendDupN(b - 127)
    \/ b \in SwapBytes /\ AppendSwapN(b - 143)
    \/ b \notin KnownBytes /\ AppendInvalid

ParseInit == GenInit /\ bytecode \in Codes /\ i = 0

(* An error of an AppendXxx call ends the parse: Build is off for ever.    *)
ParseOpcode ==
    /\ phase = "build" /\ ~err /\ i < Len(bytecode)
    /\ AppendOpcode(bytecode[i + 1])
    /\ i' = i + Used(bytecode[i + 1])
    /\ UNCHANGED <<genvars, bytecode>>

AddFunction ==
    /\ i >= Len(bytecode) /\ Generate
    /\ UNCHANGED <<bytecode, i>>

Render ==
    /\ Walk(at[1], at[2]) \/ Finish
    /\ UNCHANGED <<bytecode, i>>

ParseNext == ParseOpcode \/ AddFunction \/ Render

ParseSpec == ParseInit /\ [][ParseNext]_parsevars

-----------------------------------------------------------------------------
(* The EVM's reading of a bytecode: where instructions start, and which    *)
(* offsets a jump may go to.                                               *)
Size(b) == IF b \in PushBytes THEN 1 + PushSize(b) ELSE 1
Starts(c) ==
    LET starts[o \in 0 .. Len(c) - 1] ==
            o = 0 \/ \E p \in 0 .. o - 1 : p + Size(c[p + 1]) = o /\ starts[p]
    IN  {o \in 0 .. Len(c) - 1 : starts[o]}
JumpDests(c) == {o \in Starts(c) : c[o + 1] = 91}

(* The whole bytecode has been read, and nothing is rendered yet.          *)
AllRead == phase = "build" /\ ~err /\ i >= Len(bytecode)

BranchPcs == {branches[b].pc : b \in {c \in DOMAIN branches :
                branches[c].opcodes[1].name = "jumpdest"}}

(* Exactly the JUMPDEST bytes that start an instruction begin a branch:    *)
(* a 0x5b in the data of a PUSH is no jump target, and no JUMPDEST is      *)
(* missed behind one.                                                      *)
TargetsAreJumpDests == AllRead => BranchPcs = JumpDests(bytecode)

OpcodeAt(pc) == {op \in UNION {{branches[b].opcodes[k] : k \in DOMAIN branches[b].opcodes} :
                                 b \in DOMAIN branches} : op.pc = pc}

(* Every instruction of the bytecode but a truncated PUSH becomes one      *)
(* opcode, whose pc is the instruction's offset and whose immediate is the *)
(* big-endian value of its data: the pcs reported in errors, pushed by PC  *)
(* and compared with jump targets are offsets into the bytecode.           *)
PcIsOffset ==
    AllRead =>
        /\ \A o \in Starts(bytecode) :
              o + Size(bytecode[o + 1]) <= Len(bytecode) => Cardinality(OpcodeAt(o)) = 1
        /\ \A b \in DOMAIN branches : \A k \in DOMAIN branches[b].opcodes :
              LET op == branches[b].opcodes[k] IN
              /\ op.pc \in Starts(bytecode)
              /\ op.name = "push" /\ bytecode[op.pc + 1] = 97 =>
                    op.arg = (256 * bytecode[op.pc + 2] + bytecode[op.pc + 3]) % WordLimit
              /\ op.name = "invalid" => bytecode[op.pc + 1] \notin KnownBytes
=============================================================================
