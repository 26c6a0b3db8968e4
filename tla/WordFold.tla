------------------------------ MODULE WordFold ------------------------------
(***************************************************************************)
(* The calcFn closures the AppendXxx methods of irgen/builder/irfunc.go    *)
(* hand to checkUnnecessaryOperation: what the builder computes when every *)
(* operand of an operation is a constant.  They call github.com/holiman/   *)
(* uint256, modelled by what its operations return on words of Bits bits.  *)
(***************************************************************************)
EXTENDS Integers, Sequences, FiniteSetsExt

CONSTANT Bits  \* width of a word: 256 in the code

ASSUME BitsAssumption == Bits \in Nat \ {0}

Modulus == 2 ^ Bits

Bit(x, i) == (x \div 2 ^ i) % 2
BitMap(f(_, _), x, y) ==
    MapThenSumSet(LAMBDA i : f(Bit(x, i), Bit(y, i)) * 2 ^ i, 0 .. Bits - 1)

Truth(b)  == IF b THEN 1 ELSE 0
DivBy(x, y) == IF y = 0 THEN 0 ELSE x \div y
ModBy(x, y) == IF y = 0 THEN 0 ELSE x % y

(* a[1] is the top of the stack.                                           *)
FoldWord(op, a) ==
    CASE op = "add"    -> (a[1] + a[2]) % Modulus
      [] op = "sub"    -> (a[1] - a[2]) % Modulus
      [] op = "mul"    -> (a[1] * a[2]) % Modulus
      [] op = "div"    -> DivBy(a[1], a[2])
      [] op = "addmod" -> ModBy(a[1] + a[2], a[3])
      [] op = "mulmod" -> ModBy(a[1] * a[2], a[3])
      [] op = "lt"     -> Truth(a[1] < a[2])
      [] op = "gt"     -> Truth(a[1] > a[2])
      [] op = "eq"     -> Truth(a[1] = a[2])
      [] op = "and"    -> BitMap(LAMBDA p, q : p * q, a[1], a[2])
      [] op = "or"     -> BitMap(LAMBDA p, q : p + q - p * q, a[1], a[2])
      [] op = "xor"    -> BitMap(LAMBDA p, q : (p + q) % 2, a[1], a[2])
      [] op = "not"    -> Modulus - 1 - a[1]
=============================================================================
