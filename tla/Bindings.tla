------------------------------ MODULE Bindings ------------------------------
(***************************************************************************)
(* The callbacks of llvm/bindings/math.go, called as compiled code calls   *)
(* them: evmc-call.ll lays the operands out in a buffer, RunBinding of     *)
(* llvm/callctx.go hands that buffer to the callback as inputs and as      *)
(* output, and the results are loaded from it.  A buffer is a sequence;    *)
(* its first word is inputs[0] and output[0].                              *)
(***************************************************************************)
EXTENDS WordOps
LOCAL INSTANCE SequencesExt

Bound == {"MathDiv", "MathMod", "MathSDiv", "MathSMod", "MathExp"}

-----------------------------------------------------------------------------
(* uint256, whose operations read their operands before they write.        *)
Negative(x) == Signed(x) < 0
Negate(x)   == (Modulus - x) % Modulus
Abs(x)      == IF Negative(x) THEN Negate(x) ELSE x

SDiv(x, y) ==
    LET q == DivBy(Abs(x), Abs(y)) IN IF Negative(x) = Negative(y) THEN q ELSE Negate(q)
SMod(x, y) ==
    LET r == ModBy(Abs(x), Abs(y)) IN IF Negative(x) THEN Negate(r) ELSE r
Exp(x, n) ==  \* by squaring
    LET square[k \in 0 .. Bits] ==
            IF k = 0 THEN x ELSE (square[k - 1] * square[k - 1]) % Modulus
        power[k \in 0 .. Bits] ==
            IF k = 0 THEN 1
            ELSE IF Bit(n, k - 1) = 1 THEN (power[k - 1] * square[k - 1]) % Modulus
            ELSE power[k - 1]
    IN  power[Bits]
ByteLen(x) == Cardinality({k \in 0 .. Bytes - 1 : x >= 2 ^ (ByteBits * k)})

-----------------------------------------------------------------------------
(* a[1] is the top of the stack; the buffer has it last.                   *)
Buffer(a) == Reverse(a)
Results(buffer, n) == Reverse(SubSeq(buffer, 1, n))

Write(buffer, w) == <<w>> \o Tail(buffer)  \* the first word of the output

Returns(ret, buffer, gasleft) == [ret |-> ret, buffer |-> buffer, gasleft |-> gasleft]

OutOfGas == -13
ExpGas(exponent) == 10 + 50 * ByteLen(exponent)
MathExpLate(inputs, gasleft) ==  \* slip: charged by the word that is there afterwards
    LET written == Write(inputs, Exp(inputs[2], inputs[1]))
        total   == ExpGas(written[1])
    IN  IF gasleft < total THEN Returns(OutOfGas, written, gasleft)
        ELSE Returns(0, written, gasleft - total)
MathExp(inputs, gasleft) ==
    LET total == ExpGas(inputs[1]) IN
    IF gasleft < total THEN Returns(OutOfGas, inputs, gasleft)
    ELSE Returns(0, Write(inputs, Exp(inputs[2], inputs[1])), gasleft - total)

Binding(name, inputs, gasleft) ==
    LET writes(w) == Returns(0, Write(inputs, w), gasleft) IN
    CASE name = "MathDiv"  -> writes(DivBy(inputs[2], inputs[1]))
      [] name = "MathMod"  -> writes(ModBy(inputs[2], inputs[1]))
      [] name = "MathSDiv" -> writes(SDiv(inputs[2], inputs[1]))
      [] name = "MathSMod" -> writes(SMod(inputs[2], inputs[1]))
      [] name = "MathExp"  -> MathExp(inputs, gasleft)

-----------------------------------------------------------------------------
(* The EVM's definitions: signed division truncates, its remainder has the *)
(* sign of the dividend, and EXP costs by the bytes of the exponent.       *)
Magnitude(i) == IF i < 0 THEN -i ELSE i
Quotient(i, j) ==
    CHOOSE q \in -Modulus .. Modulus :
        LET r == i - q * j IN Magnitude(r) < Magnitude(j) /\ (r = 0 \/ (r < 0) = (i < 0))

EvmBound(name, x, y) ==
    CASE name = "MathDiv" -> DivBy(x, y)
      [] name = "MathMod" -> ModBy(x, y)
      [] name = "MathSDiv" ->
            IF y = 0 THEN 0 ELSE Quotient(Signed(x), Signed(y)) % Modulus
      [] name = "MathSMod" ->
            IF y = 0 THEN 0
            ELSE (Signed(x) - Quotient(Signed(x), Signed(y)) * Signed(y)) % Modulus
      [] name = "MathExp" ->
            LET times[k \in 0 .. y] == IF k = 0 THEN 1 ELSE (times[k - 1] * x) % Modulus
            IN  times[y]

EvmBoundGas(name, y) ==
    IF name # "MathExp" THEN 0
    ELSE 10 + 50 * (CHOOSE n \in 0 .. Bytes : y < 2 ^ (ByteBits * n)
                                               /\ (n = 0 \/ y >= 2 ^ (ByteBits * (n - 1))))
=============================================================================
