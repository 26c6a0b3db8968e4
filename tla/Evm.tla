-------------------------------- MODULE Evm ---------------------------------
(***************************************************************************)
(* What a compiled function promises: to run its bytecode as the EVM does, *)
(* one instruction at a time on one stack.  Callbacks (the operations      *)
(* README.md calls "Go Binding") are part of the environment: they return  *)
(* 0 and any words, or an error, and may use some of the gas.              *)
(*                                                                         *)
(* Four liberties are left to an implementation.  Three are consequences   *)
(* of charging a run of instructions in one go: it may fail an instruction *)
(* before it has executed the ones in front of it, once that failure is    *)
(* certain; the gas that GAS pushes may already lack what later            *)
(* instructions cost; and so may the gas left when a callback fails.  The  *)
(* fourth is that a jump to JumpLimit or above fails, but may be blamed on *)
(* another pc: flow-jump.ll refuses such a target before it stores its pc. *)
(***************************************************************************)
EXTENDS Integers, Sequences, FiniteSets, Opcodes

CONSTANTS
    GasLimits,    \* amounts of gas a call starts with
    Stacks,       \* stacks a call starts with, top last
    StackSize,    \* the most words a stack may hold
    WordLimit,    \* number of words
    JumpLimit,    \* offsets from here on are in no bytecode
    Apply(_, _),  \* arithmetic and logic: Apply(operation, operands)
    Outs,         \* words a callback may return
    Rets,         \* non-zero results of callbacks
    Uses          \* amounts of gas a callback may use

VARIABLES
    bytecode, pc, stack, gas,
    status,  \* "idle", then "running", then "exited"
    exit,    \* the exit code: 0 or an error
    errpc    \* the instruction an error is blamed on; 0 without an error

evmvars == <<bytecode, pc, stack, gas, status, exit, errpc>>

-----------------------------------------------------------------------------
(* Instructions: what a byte means and takes and gives.  DUPn and SWAPn    *)
(* are given the words they look at.                                       *)
Inst(name, in, out, cost, arg) ==
    [name |-> name, in |-> in, out |-> out, gas |-> cost, arg |-> arg]

Decode(b) ==
    CASE b = 0  -> Inst("stop", 0, 0, 0, 0)
      [] b = 80 -> Inst("pop", 1, 0, 2, 0)
      [] b = 86 -> Inst("jump", 1, 0, 8, 0)
      [] b = 87 -> Inst("jumpi", 2, 0, 10, 0)
      [] b = 88 -> Inst("pc", 0, 1, 2, 0)
      [] b = 90 -> Inst("gas", 0, 1, 2, 0)
      [] b = 91 -> Inst("jumpdest", 0, 0, 1, 0)
      [] b = 95 -> Inst("push", 0, 1, 2, 0)
      [] b \in PushBytes -> Inst("push", 0, 1, 3, b - 95)
      [] b \in DupBytes -> Inst("dup", b - 127, b - 126, 3, 0)
      [] b \in SwapBytes -> Inst("swap", b - 142, b - 142, 3, 0)
      [] b \in {a[1] : a \in AluBytes} ->
            LET name == (CHOOSE a \in AluBytes : a[1] = b)[2]
            IN  Inst(name, AluIn(name), 1, AluGas(name), 0)
      [] b \in {h.op : h \in HighOpcodes} ->
            LET h == CHOOSE g \in HighOpcodes : g.op = b
            IN  Inst(IF h.stop THEN "exit" ELSE "call", h.in, h.out, h.gas, b)
      [] OTHER -> Inst("invalid", 0, 0, 0, 0)

Width(b) == IF b \in PushBytes THEN b - 94 ELSE 1
At(p) == Decode(bytecode[p + 1])
After(p) == p + Width(bytecode[p + 1])

(* A bytecode ends with its last whole instruction.                        *)
Ended(p) == p >= Len(bytecode) \/ After(p) > Len(bytecode)

Value(p) ==
    LET n == At(p).arg
        v[k \in 0 .. n] == IF k = 0 THEN 0 ELSE 256 * v[k - 1] + bytecode[p + 1 + k]
    IN  v[n] % WordLimit

JumpTargets ==
    LET starts[p \in 0 .. Len(bytecode) - 1] ==
            p = 0 \/ \E q \in 0 .. p - 1 : After(q) = p /\ starts[q]
    IN  {p \in 0 .. Len(bytecode) - 1 : starts[p] /\ bytecode[p + 1] = 91}

(* What is wrong with executing instruction c with g gas and h words.      *)
Trouble(c, g, h) ==
    IF g < c.gas THEN -13
    ELSE IF h < c.in THEN -10
    ELSE IF h - c.in + c.out > StackSize THEN -11
    ELSE 0

-----------------------------------------------------------------------------
EvmInit ==
    /\ bytecode \in Seq(0 .. 255) /\ gas = 0 /\ stack = <<>>
    /\ pc = 0 /\ status = "idle" /\ exit = 0 /\ errpc = 0

Start ==
    /\ status = "idle" /\ status' = "running"
    /\ gas' \in GasLimits /\ stack' \in Stacks
    /\ UNCHANGED <<bytecode, pc, exit, errpc>>

(* An exit leaves no pc and no stack to speak of.                          *)
Leave(code, p, left) ==
    /\ status' = "exited" /\ exit' = code /\ errpc' = p /\ gas' = left
    /\ pc' = 0 /\ stack' = <<>>
Fail(code, p, left) == Leave(code, p, left)
Halt(left) == Leave(0, 0, left)

(* The run of instructions that follow one another for certain from pc on: *)
(* ahead[n] is where it is after n of them, and with how much gas and how  *)
(* many words, if none fails and no callback uses gas.                     *)
Breaks(c) == c.name \in {"jump", "jumpi", "stop", "invalid", "exit"}
Ahead ==
    LET ahead[n \in 0 .. Len(bytecode)] ==
        IF n = 0 THEN [pc |-> pc, gas |-> gas, height |-> Len(stack), ok |-> ~Ended(pc)]
        ELSE LET a == ahead[n - 1]
                 c == At(a.pc)
             IN  IF ~a.ok \/ Trouble(c, a.gas, a.height) # 0 \/ Breaks(c)
                 THEN [a EXCEPT !.ok = FALSE]
                 ELSE [pc |-> After(a.pc), gas |-> a.gas - c.gas,
                       height |-> a.height - c.in + c.out, ok |-> ~Ended(After(a.pc))]
    IN  ahead

Abort ==
    /\ status = "running"
    /\ \E n \in DOMAIN Ahead :
          LET a == Ahead[n]
              code == Trouble(At(a.pc), a.gas, a.height)
          IN  /\ a.ok /\ code # 0
              /\ Fail(code, a.pc, IF code = -13 THEN a.gas ELSE a.gas - At(a.pc).gas)
    /\ UNCHANGED bytecode

Top(n) == [k \in 1 .. n |-> stack[Len(stack) + 1 - k]]
Below(n) == SubSeq(stack, 1, Len(stack) - n)

(* Execute the instruction at pc, of the given name.                       *)
Executes(name) ==
    /\ status = "running" /\ ~Ended(pc)
    /\ At(pc).name = name /\ Trouble(At(pc), gas, Len(stack)) = 0
    /\ UNCHANGED bytecode
Left == gas - At(pc).gas
Goto(p, s) == pc' = p /\ stack' = s /\ gas' = Left /\ UNCHANGED <<status, exit, errpc>>

Push == Executes("push") /\ Goto(After(pc), Append(stack, Value(pc)))
Pop  == Executes("pop") /\ Goto(After(pc), Below(1))
Dup  == Executes("dup")
          /\ Goto(After(pc), Append(stack, stack[Len(stack) + 1 - At(pc).in]))
Swap ==
    /\ Executes("swap")
    /\ LET top == Len(stack)
           low == top + 1 - At(pc).in
       IN  Goto(After(pc), [stack EXCEPT ![top] = stack[low], ![low] = stack[top]])
Alu ==
    /\ \E name \in Foldable \cup Unfolded : Executes(name)
    /\ LET c == At(pc)
       IN  Goto(After(pc), Append(Below(c.in), Apply(c.name, Top(c.in))))
Pc  == Executes("pc") /\ Goto(After(pc), Append(stack, pc % WordLimit))
Gas == Executes("gas") /\ \E g \in 0 .. Left : Goto(After(pc), Append(stack, g))
JumpDest == Executes("jumpdest") /\ Goto(After(pc), stack)

JumpTo(p, s) ==
    IF p \in JumpTargets THEN Goto(p, s)
    ELSE \E q \in (IF p < JumpLimit THEN {pc} ELSE 0 .. Len(bytecode)) : Fail(-12, q, Left)
Jump  == Executes("jump") /\ JumpTo(Top(1)[1], Below(1))
JumpI ==
    /\ Executes("jumpi")
    /\ IF Top(2)[2] # 0 THEN JumpTo(Top(2)[1], Below(2)) ELSE Goto(After(pc), Below(2))

CallFails ==
    \E ret \in Rets : \E g \in 0 .. Left : Fail(ret, pc, g)
Call ==
    /\ Executes("call")
    /\ \/ \E use \in Uses, out \in [1 .. At(pc).out -> Outs] :
            /\ use <= Left
            /\ pc' = After(pc) /\ gas' = Left - use /\ stack' = Below(At(pc).in) \o out
            /\ UNCHANGED <<status, exit, errpc>>
       \/ CallFails
(* RETURN and REVERT.                                                      *)
Exit ==
    /\ Executes("exit")
    /\ \/ \E use \in Uses : use <= Left /\ Halt(Left - use)
       \/ CallFails

Stop == Executes("stop") /\ Halt(Left)
Invalid == Executes("invalid") /\ Fail(-14, pc, Left)
End == status = "running" /\ Ended(pc) /\ Halt(gas) /\ UNCHANGED bytecode

EvmNext ==
    \/ Start \/ Abort \/ Push \/ Pop \/ Dup \/ Swap \/ Alu \/ Pc \/ Gas \/ JumpDest
    \/ Jump \/ JumpI \/ Call \/ Exit \/ Stop \/ Invalid \/ End

EvmSpec == EvmInit /\ [][EvmNext]_evmvars
=============================================================================
