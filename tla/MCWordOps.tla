------------------------------ MODULE MCWordOps -----------------------------
(* Every operation on small words, for TLC: six bits in three bytes.       *)
EXTENDS Bindings

CONSTANTS
    Operations,  \* the operations a run computes
    Gas          \* the gas that is left when a bound operation is called

ASSUME OperationsAssumption ==
    Operations \subseteq Foldable \cup Unfolded \cup Bound /\ Gas \subseteq Nat

AllOperations == Foldable \cup Unfolded \cup Bound

(* All words; of the operations on three operands, those near the ends.    *)
Samples(o) ==
    IF o \in Ternary THEN {w \in AllWords : w < 8 \/ w > MaxWord - 8} ELSE AllWords

(* Around the cost of exponents of 0 to 3 bytes.                           *)
MCGas == UNION {{10 + 50 * n - 1, 10 + 50 * n} : n \in 0 .. 3}

-----------------------------------------------------------------------------
(* One operation, compiled or bound: operands come in, a result comes out. *)
VARIABLES op, args, gasleft, results, outcome

wordvars == <<op, args, gasleft, results, outcome>>

WordInit ==
    /\ op \in Operations
    /\ args \in [1 .. (IF op \in Bound THEN 2 ELSE AluIn(op)) -> Samples(op)]
    /\ gasleft \in IF op = "MathExp" THEN Gas ELSE {0}
    /\ results = {} /\ outcome = Returns(0, <<>>, 0)

Compute ==
    /\ op \notin Bound /\ results = {}
    /\ results' = Template(op, args)
    /\ UNCHANGED <<op, args, gasleft, outcome>>

CallBinding ==
    /\ op \in Bound /\ outcome.buffer = <<>>
    /\ outcome' = Binding(op, Buffer(args), gasleft)
    /\ UNCHANGED <<op, args, gasleft, results>>

WordSpec == WordInit /\ [][Compute \/ CallBinding]_wordvars

Computed == results # {}
Exact == results = {EvmWord(op, args)}

(* Compiled arithmetic is EVM arithmetic, at every boundary: shifts by the *)
(* word size and more, byte indices out of range, signs, wrap-around.      *)
(* Excepted are division by 0, and ADDMOD and MULMOD when the sum or       *)
(* product does not fit a word (see ModularExact).                         *)
ByZero == op \in Ternary \cup {"div"} /\ args[AluIn(op)] = 0
Overflows == IF op = "addmod" THEN args[1] + args[2] > MaxWord
             ELSE op = "mulmod" /\ args[1] * args[2] > MaxWord
ComputesEvm == (Computed /\ ~ByZero /\ ~Overflows) => Exact

(* ADDMOD and MULMOD give the same result at run time as when the builder  *)
(* folds them, for every sum and product.                                  *)
ModularExact == (Computed /\ ~ByZero) => Exact

(* A bound operation leaves in the shared buffer the word the EVM pushes,  *)
(* and takes the gas the EVM takes for the operands it was called with,    *)
(* although both are in one buffer, deepest operand first; out of gas, it  *)
(* takes nothing.                                                          *)
BindingsComputeEvm ==
    outcome.buffer # <<>> =>
        LET cost == EvmBoundGas(op, args[2]) IN
        IF cost > gasleft THEN outcome.ret = OutOfGas /\ outcome.gasleft = gasleft
        ELSE /\ outcome.ret = 0 /\ outcome.gasleft = gasleft - cost
             /\ Results(outcome.buffer, 1) = <<EvmBound(op, args[1], args[2])>>
=============================================================================
