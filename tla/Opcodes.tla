------------------------------- MODULE Opcodes ------------------------------
(***************************************************************************)
(* The opcode tables: which byte is which operation (the switch of         *)
(* parseOpcode, irgen/evm0.go), and how many words each operation takes    *)
(* and gives and what it costs (there, and the arguments of appendOpcode   *)
(* in irgen/builder/irfunc.go).                                            *)
(***************************************************************************)
EXTENDS Integers

(* Arithmetic and logic.  The builder folds Foldable operations on         *)
(* constants.                                                              *)
Unary    == {"not", "iszero"}
Ternary  == {"addmod", "mulmod"}
Foldable == {"add", "sub", "mul", "div", "addmod", "mulmod", "lt", "gt",
             "eq", "and", "or", "xor", "not"}
Unfolded == {"signextend", "slt", "sgt", "iszero", "byte", "shl", "shr", "sar"}

AluIn(op)  == IF op \in Unary THEN 1 ELSE IF op \in Ternary THEN 3 ELSE 2
AluGas(op) == IF op \in Ternary THEN 8
              ELSE IF op \in {"mul", "div", "signextend"} THEN 5 ELSE 3

AluBytes ==
    {<<1, "add">>, <<2, "mul">>, <<3, "sub">>, <<8, "addmod">>, <<9, "mulmod">>,
     <<11, "signextend">>, <<16, "lt">>, <<17, "gt">>, <<18, "slt">>,
     <<19, "sgt">>, <<20, "eq">>, <<21, "iszero">>, <<22, "and">>, <<23, "or">>,
     <<24, "xor">>, <<25, "not">>, <<26, "byte">>, <<27, "shl">>, <<28, "shr">>,
     <<29, "sar">>}

(* Operations left to a Go callback: <<bytes, in, out, gas>>.              *)
HighShapes ==
    {<<4 .. 7, 2, 1, 5>>,                          \* DIV SDIV MOD SMOD
     <<{10, 32}, 2, 1, 0>>,                        \* EXP KECCAK256
     <<{48, 50, 51, 52, 54, 56, 58, 61, 65, 66, 67, 68, 69, 70, 72, 74, 89},
       0, 1, 2>>,                                  \* ADDRESS ORIGIN ... MSIZE
     <<{71}, 0, 1, 5>>,                            \* SELFBALANCE
     <<{49, 59, 63, 81, 84}, 1, 1, 0>>,            \* BALANCE ... MLOAD SLOAD
     <<{53, 73}, 1, 1, 3>>,                        \* CALLDATALOAD BLOBHASH
     <<{64}, 1, 1, 20>>, <<{92}, 1, 1, 100>>,      \* BLOCKHASH TLOAD
     <<{82, 83, 85, 160}, 2, 0, 0>>,               \* MSTORE MSTORE8 SSTORE LOG0
     <<{93}, 2, 0, 100>>,                          \* TSTORE
     <<{55, 57, 62, 94, 161}, 3, 0, 0>>,           \* xxxCOPY MCOPY LOG1
     <<{60, 162}, 4, 0, 0>>, <<{163}, 5, 0, 0>>, <<{164}, 6, 0, 0>>,
     <<{240}, 3, 1, 0>>, <<{245}, 4, 1, 0>>,       \* CREATE CREATE2
     <<{241, 242}, 7, 1, 0>>, <<{244, 250}, 6, 1, 0>>,  \* the four calls
     <<{243, 253}, 2, 0, 0>>, <<{255}, 1, 0, 0>>}  \* RETURN REVERT SELFDESTRUCT

(* Callbacks appended with stop = true.                                    *)
StopBytes == {243, 253}

HighOpcodes ==
    UNION {{[op |-> b, in |-> h[2], out |-> h[3], gas |-> h[4],
             stop |-> b \in StopBytes] : b \in h[1]} : h \in HighShapes}

PushBytes == 96 .. 127   \* PUSH1 .. PUSH32
DupBytes  == 128 .. 143
SwapBytes == 144 .. 159

KnownBytes == {0, 80, 86, 87, 88, 90, 91, 95} \cup PushBytes \cup DupBytes \cup SwapBytes
           \cup {a[1] : a \in AluBytes} \cup {h.op : h \in HighOpcodes}
=============================================================================
