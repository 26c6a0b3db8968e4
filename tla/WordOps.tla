------------------------------ MODULE WordOps -------------------------------
(***************************************************************************)
(* Arithmetic and logic, computed at run time: what the templates math-*.ll*)
(* and logic-*.ll of irgen/irtpl do with their operands, next to what the  *)
(* EVM asks for.                                                           *)
(*                                                                         *)
(* A word has Bits bits in Bytes bytes of ByteBits bits; the 255, 256, 31, *)
(* 32 and 8 of the templates are Bits - 1, Bits, Bytes - 1, Bytes and      *)
(* ByteBits.                                                               *)
(***************************************************************************)
EXTENDS WordFold, Opcodes

CONSTANT ByteBits  \* width of a byte: 8 in the code

ASSUME BytesAssumption == ByteBits \in 1 .. Bits /\ Bits % ByteBits = 0

Bytes == Bits \div ByteBits
MaxWord == Modulus - 1
AllWords == 0 .. MaxWord

-----------------------------------------------------------------------------
(* LLVM instructions.                                                      *)
Signed(x)  == IF x >= 2 ^ (Bits - 1) THEN x - Modulus ELSE x
Shl(x, n)  == (x * 2 ^ n) % Modulus
LShr(x, n) == x \div 2 ^ n
AShr(x, n) == (Signed(x) \div 2 ^ n) % Modulus

(* udiv and urem by 0 are undefined, and so is the result: addmod and      *)
(* mulmod divide before they select, div does not even select.             *)
UDiv(x, n) == IF n = 0 THEN AllWords ELSE {x \div n}
URem(x, n) == IF n = 0 THEN AllWords ELSE {x % n}

ByteFromLow(i, x) ==      \* slip: bytes are counted from the low end
    IF i >= Bytes THEN 0 ELSE LShr(x, i * ByteBits) % 2 ^ ByteBits
SelectByte(i, x) ==
    IF i >= Bytes THEN 0
    ELSE LShr(x, (Bytes - 1 - i) * ByteBits) % 2 ^ ByteBits

SignExtend(b, x) ==
    LET last  == IF b >= Bytes - 1 THEN Bytes - 1 ELSE b
        shift == Bits - (last + 1) * ByteBits
    IN  IF b >= Bytes - 1 THEN x ELSE AShr(Shl(x, shift), shift)

ArithmeticShift(n, x) ==
    IF n >= Bits THEN IF LShr(x, Bits - 1) = 1 THEN MaxWord ELSE 0
    ELSE AShr(x, n)

(* The words a template may compute; a[1] is the top of the stack.         *)
Template(op, a) ==
    CASE op = "div"    -> UDiv(a[1], a[2])
      [] op = "addmod" -> URem((a[1] + a[2]) % Modulus, a[3])
      [] op = "mulmod" -> URem((a[1] * a[2]) % Modulus, a[3])
      [] op = "signextend" -> {SignExtend(a[1], a[2])}
      [] op = "slt"    -> {Truth(Signed(a[1]) < Signed(a[2]))}
      [] op = "sgt"    -> {Truth(Signed(a[1]) > Signed(a[2]))}
      [] op = "iszero" -> {Truth(a[1] = 0)}
      [] op = "byte"   -> {SelectByte(a[1], a[2])}
      [] op = "shl"    -> {IF a[1] >= Bits THEN 0 ELSE Shl(a[2], a[1])}
      [] op = "shr"    -> {IF a[1] >= Bits THEN 0 ELSE LShr(a[2], a[1])}
      [] op = "sar"    -> {ArithmeticShift(a[1], a[2])}
      [] op = "not"    -> {BitMap(LAMBDA p, q : (p + q) % 2, a[1], MaxWord)}
      [] OTHER         -> {FoldWord(op, a)}

-----------------------------------------------------------------------------
(* The EVM's definitions, bit by bit where the templates shift.  For the   *)
(* operations the builder folds, folding is the definition.                *)
FromBits(bit(_)) == MapThenSumSet(LAMBDA k : bit(k) * 2 ^ k, 0 .. Bits - 1)
SignOf(x) == Bit(x, Bits - 1)

EvmWord(op, a) ==
    CASE op = "slt" -> Truth(IF SignOf(a[1]) = SignOf(a[2]) THEN a[1] < a[2]
                             ELSE SignOf(a[1]) = 1)
      [] op = "sgt" -> Truth(IF SignOf(a[1]) = SignOf(a[2]) THEN a[1] > a[2]
                             ELSE SignOf(a[2]) = 1)
      [] op = "iszero" -> Truth(a[1] = 0)
      [] op = "byte" ->    \* byte 0 is the most significant
            FromBits(LAMBDA k : IF a[1] < Bytes /\ k < ByteBits
                                THEN Bit(a[2], Bits - (a[1] + 1) * ByteBits + k) ELSE 0)
      [] op = "signextend" ->  \* byte a[1], from the low end, has the sign
            FromBits(LAMBDA k : LET sign == (a[1] + 1) * ByteBits - 1
                                IN  Bit(a[2], IF a[1] < Bytes /\ k > sign THEN sign ELSE k))
      [] op = "shl" -> FromBits(LAMBDA k : IF k >= a[1] THEN Bit(a[2], k - a[1]) ELSE 0)
      [] op = "shr" -> FromBits(LAMBDA k : IF k + a[1] < Bits THEN Bit(a[2], k + a[1]) ELSE 0)
      [] op = "sar" -> FromBits(LAMBDA k : Bit(a[2], IF k + a[1] < Bits THEN k + a[1]
                                                     ELSE Bits - 1))
      [] OTHER -> FoldWord(op, a)

=============================================================================
