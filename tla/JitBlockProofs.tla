--------------------------- MODULE JitBlockProofs ----------------------------
(***************************************************************************)
(* What the code of a block says, in terms of the instructions it was made *)
(* from: lemmas for JitCallProofs.                                         *)
(*                                                                         *)
(* An opcode and the instruction it stands for have their operation, their *)
(* operands and their gas in common (Says).  A run of opcodes is charged   *)
(* and checked in advance (PrepaidAt, Room, CheckPasses, CheckFails).  The *)
(* stack is in two parts, and each kind of opcode does to them what the    *)
(* instruction does to the whole (Gives).                                  *)
(***************************************************************************)
EXTENDS JitCall, EVM0ParserProofs

-----------------------------------------------------------------------------
(* Instructions and the opcodes that stand for them.  The abstract         *)
(* specification has tables of its own.                                    *)
LEMMA SameTables ==
  /\ Evm!PushBytes = PushBytes /\ Evm!DupBytes = DupBytes /\ Evm!SwapBytes = SwapBytes
  /\ Evm!AluBytes = AluBytes /\ Evm!HighOpcodes = HighOpcodes
  /\ \A n : Evm!AluIn(n) = AluIn(n) /\ Evm!AluGas(n) = AluGas(n)
  /\ Evm!Foldable = Foldable /\ Evm!Unfolded = Unfolded
<1>1. Evm!PushBytes = PushBytes /\ Evm!DupBytes = DupBytes /\ Evm!SwapBytes = SwapBytes
  BY DEF Evm!PushBytes, PushBytes, Evm!DupBytes, DupBytes, Evm!SwapBytes, SwapBytes
<1>2. Evm!AluBytes = AluBytes
  BY Zenon DEF Evm!AluBytes, AluBytes
<1>3. Evm!HighShapes = HighShapes /\ Evm!StopBytes = StopBytes
  BY Zenon DEF Evm!HighShapes, HighShapes, Evm!StopBytes, StopBytes
<1>4. Evm!HighOpcodes = HighOpcodes
  <2> DEFINE R(b, h, T) == [op |-> b, in |-> h[2], out |-> h[3], gas |-> h[4], stop |-> b \in T]
  <2>1. \A x : x \in HighOpcodes <=>
           \E h \in HighShapes : \E b \in h[1] : x = R(b, h, StopBytes)
    BY DEF HighOpcodes
  <2>2. \A x : x \in Evm!HighOpcodes <=>
           \E h \in Evm!HighShapes : \E b \in h[1] : x = R(b, h, Evm!StopBytes)
    BY DEF Evm!HighOpcodes
  <2> HIDE DEF R
  <2>3. \A x : x \in Evm!HighOpcodes <=> x \in HighOpcodes
    BY <2>1, <2>2, <1>3
  <2> QED
    BY <2>3
<1>5. \A n : Evm!AluIn(n) = AluIn(n) /\ Evm!AluGas(n) = AluGas(n)
  BY Zenon DEF Evm!AluIn, AluIn, Evm!AluGas, AluGas, Evm!Unary, Unary, Evm!Ternary, Ternary
<1>6. Evm!Foldable = Foldable /\ Evm!Unfolded = Unfolded
  BY Zenon DEF Evm!Foldable, Foldable, Evm!Unfolded, Unfolded
<1> QED
  BY <1>1, <1>2, <1>4, <1>5, <1>6

(* No byte is two instructions.                                            *)
Fixed == {0, 80, 86, 87, 88, 90, 91, 95}

LEMMA OneMeaning ==
  /\ \A a \in AluBytes : /\ a[1] \in 1 .. 29 /\ a[1] \notin {h.op : h \in HighOpcodes}
                         /\ \A c \in AluBytes : a[1] = c[1] => a = c
  /\ \A h \in HighOpcodes : /\ h.op \in (1 .. 94) \cup (160 .. 255)
                            /\ h.op \notin {0, 80, 86, 87, 88, 90, 91, 95}
                            /\ \A g \in HighOpcodes : g.op = h.op => g = h
<1> DEFINE shape(b) == IF b \in 4 .. 7 THEN <<2, 1, 5>>
      ELSE IF b \in {10, 32} THEN <<2, 1, 0>>
      ELSE IF b \in {48, 50, 51, 52, 54, 56, 58, 61, 65, 66, 67, 68, 69, 70, 72, 74, 89}
           THEN <<0, 1, 2>>
      ELSE IF b = 71 THEN <<0, 1, 5>>
      ELSE IF b \in {49, 59, 63, 81, 84} THEN <<1, 1, 0>>
      ELSE IF b \in {53, 73} THEN <<1, 1, 3>>
      ELSE IF b = 64 THEN <<1, 1, 20>> ELSE IF b = 92 THEN <<1, 1, 100>>
      ELSE IF b \in {82, 83, 85, 160} THEN <<2, 0, 0>>
      ELSE IF b = 93 THEN <<2, 0, 100>>
      ELSE IF b \in {55, 57, 62, 94, 161} THEN <<3, 0, 0>>
      ELSE IF b \in {60, 162} THEN <<4, 0, 0>>
      ELSE IF b = 163 THEN <<5, 0, 0>> ELSE IF b = 164 THEN <<6, 0, 0>>
      ELSE IF b = 240 THEN <<3, 1, 0>> ELSE IF b = 245 THEN <<4, 1, 0>>
      ELSE IF b \in {241, 242} THEN <<7, 1, 0>> ELSE IF b \in {244, 250} THEN <<6, 1, 0>>
      ELSE IF b \in {243, 253} THEN <<2, 0, 0>> ELSE <<1, 0, 0>>
<1>1. \A s \in HighShapes : \A b \in s[1] :
         /\ b \in (1 .. 94) \cup (160 .. 255) /\ b \notin Fixed
         /\ b \notin {1, 2, 3, 8, 9, 11, 16, 17, 18, 19, 20, 21, 22, 23, 24, 25, 26, 27, 28, 29}
         /\ shape(b) = <<s[2], s[3], s[4]>>
  BY SMTT(60) DEF HighShapes, Fixed
<1> HIDE DEF shape
<1>2. \A h \in HighOpcodes : \E s \in HighShapes :
         /\ h.op \in s[1]
         /\ h = [op |-> h.op, in |-> s[2], out |-> s[3], gas |-> s[4], stop |-> h.op \in StopBytes]
  BY DEF HighOpcodes
<1>3. \A h \in HighOpcodes :
         /\ h.op \in (1 .. 94) \cup (160 .. 255) /\ h.op \notin Fixed
         /\ h.op \notin {1, 2, 3, 8, 9, 11, 16, 17, 18, 19, 20, 21, 22, 23, 24, 25, 26, 27, 28, 29}
         /\ h = [op |-> h.op, in |-> shape(h.op)[1], out |-> shape(h.op)[2],
                 gas |-> shape(h.op)[3], stop |-> h.op \in StopBytes]
  BY <1>1, <1>2
<1>4. \A a \in AluBytes : a[1] \in 1 .. 29 /\ a[1] \in
        {1, 2, 3, 8, 9, 11, 16, 17, 18, 19, 20, 21, 22, 23, 24, 25, 26, 27, 28, 29}
  BY DEF AluBytes
<1>5. \A a, c \in AluBytes : a[1] = c[1] => a = c
  BY SMTT(60) DEF AluBytes
<1>6. \A a \in AluBytes : a[1] \notin {h.op : h \in HighOpcodes}
  BY <1>3, <1>4
<1> QED
  BY <1>3, <1>4, <1>5, <1>6 DEF Fixed

LEMMA DecodeIs ==
  ASSUME NEW b
  PROVE  /\ b = 0 => Evm!Decode(b) = Evm!Inst("stop", 0, 0, 0, 0)
         /\ b = 80 => Evm!Decode(b) = Evm!Inst("pop", 1, 0, 2, 0)
         /\ b = 86 => Evm!Decode(b) = Evm!Inst("jump", 1, 0, 8, 0)
         /\ b = 87 => Evm!Decode(b) = Evm!Inst("jumpi", 2, 0, 10, 0)
         /\ b = 88 => Evm!Decode(b) = Evm!Inst("pc", 0, 1, 2, 0)
         /\ b = 90 => Evm!Decode(b) = Evm!Inst("gas", 0, 1, 2, 0)
         /\ b = 91 => Evm!Decode(b) = Evm!Inst("jumpdest", 0, 0, 1, 0)
         /\ b = 95 => Evm!Decode(b) = Evm!Inst("push", 0, 1, 2, 0)
         /\ b \in PushBytes => Evm!Decode(b) = Evm!Inst("push", 0, 1, 3, b - 95)
         /\ b \in DupBytes => Evm!Decode(b) = Evm!Inst("dup", b - 127, b - 126, 3, 0)
         /\ b \in SwapBytes => Evm!Decode(b) = Evm!Inst("swap", b - 142, b - 142, 3, 0)
         /\ \A a \in AluBytes : b = a[1] =>
               Evm!Decode(b) = Evm!Inst(a[2], AluIn(a[2]), 1, AluGas(a[2]), 0)
         /\ \A h \in HighOpcodes : b = h.op =>
               Evm!Decode(b) = Evm!Inst(IF h.stop THEN "exit" ELSE "call",
                                        h.in, h.out, h.gas, b)
         /\ b \notin KnownBytes => Evm!Decode(b) = Evm!Inst("invalid", 0, 0, 0, 0)
<1> DEFINE A == {a[1] : a \in AluBytes}
           H == {h.op : h \in HighOpcodes}
           alu == CHOOSE a \in AluBytes : a[1] = b
           high == CHOOSE g \in HighOpcodes : g.op = b
           D == Evm!Decode(b)
           E1 == Evm!Inst(alu[2], AluIn(alu[2]), 1, AluGas(alu[2]), 0)
           E2 == Evm!Inst(IF high.stop THEN "exit" ELSE "call", high.in, high.out, high.gas, b)
<1>1. D =
        CASE b = 0  -> Evm!Inst("stop", 0, 0, 0, 0)
          [] b = 80 -> Evm!Inst("pop", 1, 0, 2, 0)
          [] b = 86 -> Evm!Inst("jump", 1, 0, 8, 0)
          [] b = 87 -> Evm!Inst("jumpi", 2, 0, 10, 0)
          [] b = 88 -> Evm!Inst("pc", 0, 1, 2, 0)
          [] b = 90 -> Evm!Inst("gas", 0, 1, 2, 0)
          [] b = 91 -> Evm!Inst("jumpdest", 0, 0, 1, 0)
          [] b = 95 -> Evm!Inst("push", 0, 1, 2, 0)
          [] b \in PushBytes -> Evm!Inst("push", 0, 1, 3, b - 95)
          [] b \in DupBytes -> Evm!Inst("dup", b - 127, b - 126, 3, 0)
          [] b \in SwapBytes -> Evm!Inst("swap", b - 142, b - 142, 3, 0)
          [] b \in A -> E1
          [] b \in H -> E2
          [] OTHER -> Evm!Inst("invalid", 0, 0, 0, 0)
  BY SameTables, Zenon DEF Evm!Decode
<1>2. /\ b \in A => alu \in AluBytes /\ alu[1] = b /\ b \in 1 .. 29
      /\ b \in H => high \in HighOpcodes /\ high.op = b /\ b \in (1 .. 94) \cup (160 .. 255)
                    /\ b \notin {0, 80, 86, 87, 88, 90, 91, 95}
      /\ b \in A => b \notin H
  BY OneMeaning
<1>3. /\ \A a \in AluBytes : b = a[1] => b \in A /\ a = alu
      /\ \A h \in HighOpcodes : b = h.op => b \in H /\ h = high
  BY <1>2, OneMeaning
<1>4. b \in KnownBytes <=> \/ b \in {0, 80, 86, 87, 88, 90, 91, 95}
                           \/ b \in PushBytes \/ b \in DupBytes \/ b \in SwapBytes
                           \/ b \in A \/ b \in H
  BY DEF KnownBytes
<1>5. /\ b \in PushBytes <=> b \in 96 .. 127
      /\ b \in DupBytes <=> b \in 128 .. 143
      /\ b \in SwapBytes <=> b \in 144 .. 159
  BY DEF PushBytes, DupBytes, SwapBytes
<1> DEFINE dup == Evm!Inst("dup", b - 127, b - 126, 3, 0)
           swap == Evm!Inst("swap", b - 142, b - 142, 3, 0)
           push == Evm!Inst("push", 0, 1, 3, b - 95)
<1>6. /\ \A a \in AluBytes : b = a[1] =>
               E1 = Evm!Inst(a[2], AluIn(a[2]), 1, AluGas(a[2]), 0)
      /\ \A h \in HighOpcodes : b = h.op =>
               E2 = Evm!Inst(IF h.stop THEN "exit" ELSE "call", h.in, h.out, h.gas, b)
  <2> HIDE DEF A, H, alu, high
  <2> QED
    BY <1>3
<1> HIDE DEF A, H, alu, high, D, E1, E2, dup, swap, push
<1>7. b \in A => D = E1
  BY <1>1, <1>2, <1>5 DEF dup, swap, push
<1>8. b \in H => D = E2
  BY <1>1, <1>2, <1>5 DEF dup, swap, push
<1>9. b \notin KnownBytes => D = Evm!Inst("invalid", 0, 0, 0, 0)
  BY <1>1, <1>4
<1>10. /\ b \in PushBytes => D = push
       /\ b \in DupBytes => D = dup
       /\ b \in SwapBytes => D = swap
  BY <1>1, <1>2, <1>5 DEF dup, swap, push
<1>11. /\ b = 0 => D = Evm!Inst("stop", 0, 0, 0, 0)
       /\ b = 80 => D = Evm!Inst("pop", 1, 0, 2, 0)
       /\ b = 86 => D = Evm!Inst("jump", 1, 0, 8, 0)
       /\ b = 87 => D = Evm!Inst("jumpi", 2, 0, 10, 0)
       /\ b = 88 => D = Evm!Inst("pc", 0, 1, 2, 0)
       /\ b = 90 => D = Evm!Inst("gas", 0, 1, 2, 0)
       /\ b = 91 => D = Evm!Inst("jumpdest", 0, 0, 1, 0)
       /\ b = 95 => D = Evm!Inst("push", 0, 1, 2, 0)
  BY <1>1, <1>2, <1>5
<1>12. /\ \A a \in AluBytes : b = a[1] => D = Evm!Inst(a[2], AluIn(a[2]), 1, AluGas(a[2]), 0)
       /\ \A h \in HighOpcodes : b = h.op =>
             D = Evm!Inst(IF h.stop THEN "exit" ELSE "call", h.in, h.out, h.gas, b)
  BY <1>3, <1>6, <1>7, <1>8
<1> QED
  BY <1>9, <1>10, <1>11, <1>12 DEF D, dup, swap, push

(* Callbacks that end the call are a kind of their own.                    *)
Kind(op) == IF op.name = "call" /\ op.isExitOpcode THEN "exit" ELSE op.name

(* What an opcode and the instruction c it stands for have in common.      *)
SaysAs(op, c) ==
    /\ c.name = Kind(op) /\ c.gas = op.gas
    /\ c.in = Takes(op) /\ c.out = Takes(op) - op.in + op.out
    /\ op.name \in Names \ {"debug"}
    /\ op.name \in {"push", "pc", "gas"} => op.in = 0 /\ op.out = 1
    /\ op.name \in Foldable \cup Unfolded => op.in = AluIn(op.name) /\ op.out = 1 /\ op.gas > 0
    /\ op.name = "pop" => op.in = 1 /\ op.out = 0
    /\ op.name = "jump" => op.in = 1 /\ op.out = 0
    /\ op.name = "jumpi" => op.in = 2 /\ op.out = 0
    /\ op.name \in {"jumpdest", "stop", "invalid"} => op.in = 0 /\ op.out = 0
    /\ op.name = "dup" => op.in = 0 /\ op.out = 1 /\ op.arg \in 1 .. 16
    /\ op.name = "swap" => op.in = 1 /\ op.out = 1 /\ op.arg \in 1 .. 16

LEMMA AluNames ==
  \A a \in AluBytes : /\ a[2] \in Foldable \cup Unfolded
                      /\ a[2] \notin {"dup", "swap", "call", "push", "pc", "gas", "pop", "jump",
                                      "jumpi", "jumpdest", "stop", "invalid", "debug"}
<1>1. \A a \in AluBytes : a[2] \in Foldable \cup Unfolded
  BY DEF AluBytes, Foldable, Unfolded
<1>2. \A n \in Foldable \cup Unfolded :
         n \notin {"dup", "swap", "call", "push", "pc", "gas", "pop", "jump",
                   "jumpi", "jumpdest", "stop", "invalid", "debug"}
  BY DEF Foldable, Unfolded
<1> QED  BY <1>1, <1>2

LEMMA AluApart ==
  \A n \in Foldable \cup Unfolded :
         /\ n \notin {"dup", "swap", "call", "push", "pc", "gas", "pop", "jump",
                   "jumpi", "jumpdest", "stop", "invalid", "debug", "exit"}
         /\ AluIn(n) \in 1 .. 3 /\ AluGas(n) \in 1 .. 8
  BY DEF Foldable, Unfolded, AluIn, AluGas, Unary, Ternary

LEMMA HighAre ==
  \A h \in HighOpcodes : h.in \in 0 .. 7 /\ h.out \in 0 .. 1 /\ h.gas \in Nat
<1>1. \A s \in HighShapes : s[2] \in 0 .. 7 /\ s[3] \in 0 .. 1 /\ s[4] \in Nat
  BY DEF HighShapes
<1> QED  BY <1>1 DEF HighOpcodes

LEMMA SaysByte ==
  ASSUME NEW op, NEW b \in 0 .. 255, NEW v, Shows(op, b, v)
  PROVE  SaysAs(op, Evm!Decode(b))
<1> DEFINE c == Evm!Decode(b)
           Is(name, arg, in, out, gas, exits) ==
             /\ op.name = name /\ op.arg = arg /\ op.in = in /\ op.out = out
             /\ op.gas = gas /\ op.isExitOpcode = exits
           As(name, in, out, cost) ==
             c.name = name /\ c.in = in /\ c.out = out /\ c.gas = cost
<1>0. \A name, in, out, cost, arg : c = Evm!Inst(name, in, out, cost, arg)
                                       => As(name, in, out, cost)
  BY DEF Evm!Inst
<1>1. \A n \in {"stop", "pop", "jump", "jumpi", "pc", "gas", "jumpdest", "push", "invalid",
                "dup", "swap", "call"} :
         n \notin Foldable \cup Unfolded /\ n \in Names \ {"debug"}
  BY AluApart DEF Names
<1> SUFFICES SaysAs(op, c)
  OBVIOUS
<1> HIDE DEF c
<1>2. CASE b = 0 /\ Is("stop", 0, 0, 0, 0, TRUE)
  <2>1. As("stop", 0, 0, 0)
    BY <1>0, <1>2, DecodeIs DEF c
  <2> QED  BY <1>1, <1>2, <2>1 DEF SaysAs, Takes, Kind
<1>3. CASE b = 80 /\ Is("pop", 0, 1, 0, 2, FALSE)
  <2>1. As("pop", 1, 0, 2)
    BY <1>0, <1>3, DecodeIs DEF c
  <2> QED  BY <1>1, <1>3, <2>1 DEF SaysAs, Takes, Kind
<1>4. CASE b = 86 /\ Is("jump", 0, 1, 0, 8, FALSE)
  <2>1. As("jump", 1, 0, 8)
    BY <1>0, <1>4, DecodeIs DEF c
  <2> QED  BY <1>1, <1>4, <2>1 DEF SaysAs, Takes, Kind
<1>5. CASE b = 87 /\ Is("jumpi", 0, 2, 0, 10, FALSE)
  <2>1. As("jumpi", 2, 0, 10)
    BY <1>0, <1>5, DecodeIs DEF c
  <2> QED  BY <1>1, <1>5, <2>1 DEF SaysAs, Takes, Kind
<1>6. CASE b = 88 /\ Is("pc", 0, 0, 1, 2, FALSE)
  <2>1. As("pc", 0, 1, 2)
    BY <1>0, <1>6, DecodeIs DEF c
  <2> QED  BY <1>1, <1>6, <2>1 DEF SaysAs, Takes, Kind
<1>7. CASE b = 90 /\ Is("gas", 0, 0, 1, 2, FALSE)
  <2>1. As("gas", 0, 1, 2)
    BY <1>0, <1>7, DecodeIs DEF c
  <2> QED  BY <1>1, <1>7, <2>1 DEF SaysAs, Takes, Kind
<1>8. CASE b = 91 /\ Is("jumpdest", 0, 0, 0, 1, FALSE)
  <2>1. As("jumpdest", 0, 0, 1)
    BY <1>0, <1>8, DecodeIs DEF c
  <2> QED  BY <1>1, <1>8, <2>1 DEF SaysAs, Takes, Kind
<1>9. CASE b = 95 /\ Is("push", 0, 0, 1, 2, FALSE)
  <2>1. As("push", 0, 1, 2)
    BY <1>0, <1>9, DecodeIs DEF c
  <2> QED  BY <1>1, <1>9, <2>1 DEF SaysAs, Takes, Kind
<1>10. CASE b \in PushBytes /\ Is("push", v, 0, 1, 3, FALSE)
  <2>1. As("push", 0, 1, 3)
    BY <1>0, <1>10, DecodeIs DEF c
  <2> QED  BY <1>1, <1>10, <2>1 DEF SaysAs, Takes, Kind
<1>11. CASE b \notin KnownBytes /\ Is("invalid", 0, 0, 0, 0, TRUE)
  <2>1. As("invalid", 0, 0, 0)
    BY <1>0, <1>11, DecodeIs DEF c
  <2> QED  BY <1>1, <1>11, <2>1 DEF SaysAs, Takes, Kind
<1>12. CASE b \in DupBytes /\ Is("dup", b - 127, 0, 1, 3, FALSE)
  <2>1. As("dup", b - 127, b - 126, 3)
    BY <1>0, <1>12, DecodeIs DEF c
  <2>2. b - 127 \in 1 .. 16
    BY <1>12 DEF DupBytes
  <2> QED  BY <1>1, <1>12, <2>1, <2>2 DEF SaysAs, Takes, Kind
<1>13. CASE b \in SwapBytes /\ Is("swap", b - 143, 1, 1, 3, FALSE)
  <2>1. As("swap", b - 142, b - 142, 3)
    BY <1>0, <1>13, DecodeIs DEF c
  <2>2. b - 143 \in 1 .. 16
    BY <1>13 DEF SwapBytes
  <2> QED  BY <1>1, <1>13, <2>1, <2>2 DEF SaysAs, Takes, Kind
<1>14. ASSUME NEW a \in AluBytes, b = a[1], Is(a[2], 0, AluIn(a[2]), 1, AluGas(a[2]), FALSE)
       PROVE  SaysAs(op, c)
  <2>1. As(a[2], AluIn(a[2]), 1, AluGas(a[2]))
    BY <1>0, <1>14, DecodeIs DEF c
  <2>2. PICK n : n = a[2]
    OBVIOUS
  <2>3. /\ n \notin {"dup", "swap", "call", "push", "pc", "gas", "pop", "jump",
                     "jumpi", "jumpdest", "stop", "invalid", "debug"}
        /\ n \in Names \ {"debug"} /\ AluIn(n) \in 1 .. 3 /\ AluGas(n) \in 1 .. 8
    BY <2>2, AluNames, AluApart DEF Names
  <2> QED  BY ONLY <1>14, <2>1, <2>2, <2>3 DEF SaysAs, Takes, Kind
<1>15. ASSUME NEW h \in HighOpcodes, b = h.op, Is("call", h.op, h.in, h.out, h.gas, h.stop)
       PROVE  SaysAs(op, c)
  <2>1. As(IF h.stop THEN "exit" ELSE "call", h.in, h.out, h.gas)
    BY <1>0, <1>15, DecodeIs DEF c
  <2>2. h.in \in Nat /\ h.out \in Nat
    BY HighAre
  <2> QED  BY <1>15, <1>1, <2>1, <2>2 DEF SaysAs, Takes, Kind
<1> QED
  BY <1>2, <1>3, <1>4, <1>5, <1>6, <1>7, <1>8, <1>9,
     <1>10, <1>11, <1>12, <1>13, <1>14, <1>15 DEF Shows, c

LEMMA WidthIs == \A b : Evm!Width(b) = Size(b)
<1> TAKE b
<1>1. Evm!PushBytes = PushBytes
  BY SameTables
<1>2. CASE b \in PushBytes
  BY <1>1, <1>2 DEF Evm!Width, Size, PushSize, PushBytes
<1>3. CASE b \notin PushBytes
  BY <1>1, <1>3 DEF Evm!Width, Size
<1> QED  BY <1>2, <1>3

LEMMA AfterIs == \A p : Evm!After(p) = p + Size(bytecode[p + 1])
  BY WidthIs DEF Evm!After

(* The JUMPDESTs of the parser are those of the EVM.                       *)
LEMMA TargetsAre == Evm!JumpTargets = JumpDests(bytecode)
<1> DEFINE D == 0 .. Len(bytecode) - 1
           V(s) == s = [p \in D |-> p = 0 \/ \E q \in 0 .. p - 1 : Evm!After(q) = p /\ s[q]]
           W(s) == s = [o \in D |-> o = 0 \/ \E p \in 0 .. o - 1 :
                                              p + Size(bytecode[p + 1]) = o /\ s[p]]
           v == CHOOSE s : V(s)
           w == CHOOSE s : W(s)
<1>1. \A s : V(s) <=> W(s)
  BY AfterIs
<1>2. Starts(bytecode) = {o \in D : w[o]}
  BY Zenon DEF Starts
<1>3. Evm!JumpTargets = {p \in D : v[p] /\ bytecode[p + 1] = 91}
  BY Zenon DEF Evm!JumpTargets
<1>4. v = w
  <2> HIDE DEF V, W
  <2> QED  BY <1>1, Zenon
<1> HIDE DEF v, w, D
<1> QED  BY <1>2, <1>3, <1>4 DEF JumpDests

(* The word a PUSH pushes.                                                 *)
LEMMA ValueIs ==
  ASSUME NEW p \in Nat, bytecode \in Seq(0 .. 255), p + Size(bytecode[p + 1]) <= Len(bytecode),
         bytecode[p + 1] \in PushBytes
  PROVE  Evm!Value(p) = Immediate(DataAt(bytecode, p))
<1> DEFINE b == bytecode[p + 1]
           n == b - 95
           d == DataAt(bytecode, p)
<1>1. b \in 96 .. 127 /\ n \in 1 .. 32 /\ p + 1 + n <= Len(bytecode) /\ Len(bytecode) \in Nat
  <2>1. b \in 96 .. 127
    BY DEF PushBytes
  <2>2. p + Size(b) <= Len(bytecode) /\ Size(b) = b - 94
    BY SizeOK
  <2>3. Len(bytecode) \in Nat
    OBVIOUS
  <2> HIDE DEF b
  <2> QED  BY ONLY p \in Nat, <2>1, <2>2, <2>3
<1>2. Len(d) = n /\ \A k \in 1 .. n : d[k] = bytecode[p + 1 + k]
  <2>1. PICK m, c, lo, hi : m = n /\ c = bytecode /\ lo = p + 2 /\ hi = p + 1 + m
    OBVIOUS
  <2>2. d = SubSeq(c, lo, hi)
    BY <2>1 DEF DataAt, PushSize
  <2>3. c \in Seq(0 .. 255) /\ lo \in 1 .. Len(c) /\ hi \in lo .. Len(c) /\ m \in 1 .. 32
    <3>1. m \in 1 .. 32 /\ p + 1 + m <= Len(c) /\ Len(c) \in Nat /\ c \in Seq(0 .. 255)
      BY <1>1, <2>1
    <3>2. lo = p + 2 /\ hi = p + 1 + m
      BY <2>1
    <3> QED  BY ONLY p \in Nat, <3>1, <3>2
  <2> HIDE DEF b, n, d
  <2>4. Len(d) = hi - lo + 1 /\ \A k \in 1 .. hi - lo + 1 : d[k] = c[lo + k - 1]
    BY ONLY <2>2, <2>3, Cut
  <2>5. hi - lo + 1 = m /\ \A k \in 1 .. m : lo + k - 1 = p + 1 + k
    BY <2>1, <2>3
  <2> QED  BY <2>1, <2>4, <2>5
<1>3. Evm!At(p).arg = n
  <2>1. Evm!At(p) = Evm!Inst("push", 0, 1, 3, n)
    BY DecodeIs DEF Evm!At
  <2> QED  BY <2>1 DEF Evm!Inst
<1> DEFINE V(v) == v = [k \in 0 .. n |-> IF k = 0 THEN 0 ELSE 256 * v[k - 1] + bytecode[p + 1 + k]]
           W(v) == v = [k \in 0 .. n |-> IF k = 0 THEN 0 ELSE 256 * v[k - 1] + d[k]]
<1> HIDE DEF b, n, d
<1>4. \A v : V(v) <=> W(v)
  <2> TAKE v
  <2>1. [k \in 0 .. n |-> IF k = 0 THEN 0 ELSE 256 * v[k - 1] + bytecode[p + 1 + k]]
          = [k \in 0 .. n |-> IF k = 0 THEN 0 ELSE 256 * v[k - 1] + d[k]]
    BY <1>1, <1>2
  <2> QED  BY ONLY <2>1, Zenon
<1>5. (CHOOSE v : V(v)) = (CHOOSE v : W(v))
  <2> HIDE DEF V, W
  <2> QED  BY <1>4, Zenon
<1>6. Evm!Value(p) = (CHOOSE v : V(v))[n] % WordLimit
  BY <1>3, Zenon DEF Evm!Value
<1>7. Immediate(d) = (CHOOSE v : W(v))[n] % WordLimit
  BY <1>2, Zenon DEF Immediate
<1> QED  BY <1>5, <1>6, <1>7 DEF d

LEMMA ValueOfNone ==
  ASSUME NEW p, bytecode[p + 1] = 95
  PROVE  Evm!Value(p) = 0
<1>1. Evm!At(p).arg = 0
  <2>1. Evm!At(p) = Evm!Inst("push", 0, 1, 2, 0)
    BY DecodeIs DEF Evm!At
  <2> QED  BY <2>1 DEF Evm!Inst
<1> DEFINE V(v) == v = [k \in 0 .. 0 |-> IF k = 0 THEN 0 ELSE 256 * v[k - 1] + bytecode[p + 1 + k]]
           u == CHOOSE v : V(v)
<1>2. Evm!Value(p) = u[0] % WordLimit
  BY <1>1, Zenon DEF Evm!Value
<1>3. V([k \in 0 .. 0 |-> 0])
  <2>1. \A k \in 0 .. 0 : k = 0
    OBVIOUS
  <2> QED  BY <2>1
<1>4. V(u)
  <2> HIDE DEF V
  <2> QED  BY <1>3, Zenon
<1> HIDE DEF u
<1>5. u[0] = 0
  <2>1. 0 \in 0 .. 0
    OBVIOUS
  <2> QED  BY <1>4, <2>1
<1> QED  BY <1>2, <1>5, LimitsAssumption

LEMMA Particular ==
  ASSUME NEW op, NEW b, NEW v, Shows(op, b, v)
  PROVE  /\ op.name = "push" => (b = 95 /\ op.arg = 0) \/ (b \in PushBytes /\ op.arg = v)
         /\ op.name = "jumpdest" => b = 91
BY AluNames DEF Shows

(* What every opcode has in common with its instruction.                   *)
Says(op) ==
    /\ SaysAs(op, Evm!At(op.pc)) /\ op.pc \in Nat /\ op.pc < Len(bytecode)
    /\ ~Evm!Ended(op.pc)
    /\ op.name = "push" => op.arg = Evm!Value(op.pc)

LEMMA OpcodeSays ==
  ASSUME Faithful, NEW b, NEW k, Has(branches, b, k)
  PROVE  /\ Says(branches[b].opcodes[k])
         /\ Evm!After(branches[b].opcodes[k].pc) = NextPc(b, k)
<1> DEFINE op == branches[b].opcodes[k]
<1>1. Means(op, bytecode) /\ NextPc(b, k) = op.pc + Size(bytecode[op.pc + 1])
  BY DEF Faithful, Told
<1>2. bytecode \in Seq(0 .. 255) /\ Len(bytecode) \in Nat
  BY CodeIsBytes DEF Faithful
<1>3. op.pc \in Starts(bytecode) /\ Starts(bytecode) \subseteq 0 .. Len(bytecode) - 1
  BY <1>2, StartsRec DEF Faithful, Read, OpcodesAreRead
<1> HIDE DEF op
<1>4. op.pc \in Nat /\ op.pc < Len(bytecode) /\ op.pc \in 0 .. Len(bytecode) - 1
  BY <1>2, <1>3
<1>5. PICK p, x, v : p = op.pc /\ x = bytecode[p + 1] /\ v = Immediate(DataAt(bytecode, op.pc))
  OBVIOUS
<1>6. x \in 0 .. 255
  <2>1. PICK c : c = bytecode
    OBVIOUS
  <2>2. p + 1 \in 1 .. Len(c) /\ c \in Seq(0 .. 255)
    BY <1>2, <1>4, <1>5, <2>1
  <2>3. c[p + 1] \in 0 .. 255
    <3>1. \A S, s : s \in Seq(S) => \A q \in 1 .. Len(s) : s[q] \in S
      OBVIOUS
    <3> QED  BY ONLY <2>2, <3>1
  <2> QED  BY <2>1, <2>3, <1>5
<1>7. Shows(op, x, v)
  BY <1>1, <1>5, Shown DEF Means
<1>8. SaysAs(op, Evm!At(op.pc))
  BY <1>5, <1>6, <1>7, SaysByte DEF Evm!At
<1>9. p + Size(x) <= Len(bytecode)
  BY <1>1, <1>5 DEF Means
<1>10. ~Evm!Ended(op.pc)
  <2>1. Evm!After(p) = p + Size(x)
    BY <1>5, AfterIs
  <2> QED  BY <2>1, <1>2, <1>4, <1>5, <1>9, SizeOK DEF Evm!Ended
<1>11. ASSUME op.name = "push" PROVE op.arg = Evm!Value(op.pc)
  <2>1. CASE x = 95 /\ op.arg = 0
    BY <1>5, <2>1, ValueOfNone
  <2>2. CASE x \in PushBytes /\ op.arg = v
    BY <1>2, <1>4, <1>5, <1>9, <2>2, ValueIs
  <2> QED  BY <1>7, <1>11, <2>1, <2>2, Particular
<1>12. Evm!After(op.pc) = NextPc(b, k)
  BY <1>1, AfterIs
<1> QED  BY <1>4, <1>8, <1>10, <1>11, <1>12 DEF Says, op

-----------------------------------------------------------------------------
(* A rendered function, and its blocks.                                    *)

Fine == GenInv /\ Flows /\ Rendered /\ Faithful /\ DynamicKnown
Ready4Call == Fine /\ phase = "done" /\ Covered

LEMMA BlockFacts ==
  ASSUME Fine, phase = "done", NEW j \in DOMAIN code, NEW b, b = code[j].branch,
         NEW ops, ops = Ops(j)
  PROVE  /\ b \in DOMAIN branches /\ ops = branches[b].opcodes /\ Branch(branches[b])
         /\ ops \in Seq(Opcode) /\ Ready(ops) /\ Len(ops) \in Nat \ {0}
         /\ DOMAIN ops = 1 .. Len(ops)
         /\ UnitsOK(code[j].units, b, ops, Len(ops) + 1)
         /\ Listing(code[j].units, ops, Len(ops) + 1)
         /\ Flowing(branches[b])
         /\ code[j].pc = branches[b].pc /\ code[j].label = Labelled(b)
         /\ (\A n \in DOMAIN ops : ~ops[n].isExitOpcode)
               => code[j].store = StackStore(branches[b])
         /\ ops[1].pc = branches[b].pc
         /\ \A n \in 1 .. Len(ops) : /\ Says(ops[n])
                                     /\ Evm!After(ops[n].pc) = NextPc(b, n)
<1>1. /\ b \in DOMAIN branches /\ ops = branches[b].opcodes
      /\ UnitsOK(code[j].units, b, ops, Lim(b))
      /\ code[j].pc = branches[b].pc /\ code[j].label = Labelled(b)
  BY DEF Fine, GenInv, Blocks, Block, Ops, BlockBranch
<1>2. Lim(b) = Len(ops) + 1 /\ Passed(b) /\ DOMAIN branches = 1 .. Len(branches) /\ Len(branches) \in Nat
  BY <1>1, AllPassed DEF Fine
<1>3. Branch(branches[b]) /\ ops \in Seq(Opcode) /\ Ready(ops)
  BY <1>1, BuiltFacts DEF Fine, GenInv
<1>4. Len(ops) \in Nat \ {0} /\ DOMAIN ops = 1 .. Len(ops)
  <2>1. ops # <<>> /\ IsSeq(ops)
    BY <1>1 DEF Fine, Faithful, Read, IsBuilt
  <2> QED  BY <2>1, SeqFacts
<1>5. Listing(code[j].units, ops, Len(ops) + 1)
  BY <1>1, <1>2 DEF Fine, Rendered
<1>6. Flowing(branches[b])
  BY <1>1 DEF Fine, Flows
<1>7. (\A n \in DOMAIN ops : ~ops[n].isExitOpcode) => code[j].store = StackStore(branches[b])
  <2>1. b < at[1]
    BY <1>1, <1>2 DEF Fine, GenInv, Loop
  <2>2. Stored(code[j])
    BY DEF Fine, Rendered
  <2> QED  BY <1>1, <2>1, <2>2 DEF Stored
<1>8. ops[1].pc = branches[b].pc
  BY <1>1 DEF Fine, Faithful, Told
<1>9. ASSUME NEW n \in 1 .. Len(ops)
      PROVE  Says(ops[n]) /\ Evm!After(ops[n].pc) = NextPc(b, n)
  <2>1. Has(branches, b, n)
    BY <1>1, <1>4 DEF Has
  <2> QED  BY <1>1, <2>1, OpcodeSays DEF Fine
<1> QED  BY <1>1, <1>2, <1>3, <1>4, <1>5, <1>6, <1>7, <1>8, <1>9

(* The run that charged opcode n of block j before control reached it, and *)
(* what it took for n and the opcodes behind.                              *)
OpenAt(j, n) == {u \in UnitsOf(j) : n \in (u.index + 1) .. u.last}
PrepaidAt(j, n) ==
    IF OpenAt(j, n) = {} THEN 0
    ELSE Total(GasOf(Ops(j)), n, (CHOOSE u \in OpenAt(j, n) : TRUE).last)

LEMMA UnitFacts ==
  ASSUME Fine, phase = "done", NEW j \in DOMAIN code, NEW ops, ops = Ops(j)
  PROVE  /\ \A u \in UnitsOf(j) :
              /\ u.index \in 1 .. Len(ops) /\ u.last \in Nat /\ u.last <= Len(ops)
              /\ ~ops[u.index].isUnnecessary /\ SameOp(ops[u.index], u.op)
              /\ u.branch = code[j].branch /\ u.valid = IsValidTarget(u.op)
              /\ u.last # 0 => /\ u \in Groups /\ u.last \in u.index .. Len(ops)
                               /\ u.check = Checks(ops, u.index, u.last)
              /\ u.last = 0 => /\ u.check = NoChecks
                               /\ OpenAt(j, u.index) # {}
              /\ \A n \in Marks(u) : ~ops[n - 1].breakGasGroup
         /\ \A u, v \in UnitsOf(j) : u # v => \A n \in Span(u) : n \notin Span(v)
         /\ \A u, v \in UnitsOf(j) : u.index = v.index => u = v
         /\ \A n \in 1 .. Len(ops) : (~ops[n].isUnnecessary /\ Arrives(ops, n))
               => \E u \in UnitsOf(j) : u.index = n
<1> DEFINE us == code[j].units
           b == code[j].branch
<1>1. /\ UnitsOK(us, b, ops, Len(ops) + 1) /\ Listing(us, ops, Len(ops) + 1)
      /\ ops \in Seq(Opcode) /\ Len(ops) \in Nat /\ DOMAIN ops = 1 .. Len(ops)
  BY BlockFacts
<1>2. \A u : u \in UnitsOf(j) <=> \E k \in DOMAIN us : u = us[k]
  BY DEF UnitsOf
<1>3. \A k \in DOMAIN us : us[k].last # 0 => us[k] \in Groups
  BY DEF Groups
<1> HIDE DEF us, b
<1>4. ASSUME NEW k \in DOMAIN us
      PROVE  /\ us[k].index \in 1 .. Len(ops) /\ us[k].last \in Nat
             /\ SameOp(ops[us[k].index], us[k].op) /\ us[k].branch = b
             /\ us[k].last # 0 => /\ us[k].last \in us[k].index .. Len(ops)
                                  /\ us[k].check = Checks(ops, us[k].index, us[k].last)
  BY <1>1 DEF UnitsOK, UnitOK
<1>5. ASSUME NEW k \in DOMAIN us
      PROVE  /\ us[k].valid = IsValidTarget(us[k].op) /\ ~us[k].op.isUnnecessary
             /\ us[k].last = 0 => /\ us[k].check = NoChecks
                                  /\ \E m \in DOMAIN us : us[k].index \in Marks(us[m])
             /\ \A n \in Marks(us[k]) : ~ops[n - 1].breakGasGroup
  BY <1>1 DEF Listing
<1>6. \A k, m \in DOMAIN us : us[k] # us[m] => \A n \in Span(us[k]) : n \notin Span(us[m])
  <2>1. \A k, m \in DOMAIN us : k # m => \A n \in Span(us[k]) : n \notin Span(us[m])
    BY <1>1 DEF UnitsOK
  <2> QED  BY <2>1
<1>7. \A k, m \in DOMAIN us : us[k].index = us[m].index => us[k] = us[m]
  <2>1. \A k, m \in DOMAIN us : us[k].index = us[m].index => k = m
    BY <1>1 DEF Listing
  <2> QED  BY <2>1
<1>8. \A n \in 1 .. Len(ops) : (~ops[n].isUnnecessary /\ Arrives(ops, n))
         => \E k \in DOMAIN us : us[k].index = n
  BY <1>1 DEF Listing
<1>9. ASSUME NEW u \in UnitsOf(j)
      PROVE  /\ u.index \in 1 .. Len(ops) /\ u.last \in Nat /\ u.last <= Len(ops)
             /\ ~ops[u.index].isUnnecessary /\ SameOp(ops[u.index], u.op)
             /\ u.branch = b /\ u.valid = IsValidTarget(u.op)
             /\ u.last # 0 => /\ u \in Groups /\ u.last \in u.index .. Len(ops)
                              /\ u.check = Checks(ops, u.index, u.last)
             /\ u.last = 0 => u.check = NoChecks /\ OpenAt(j, u.index) # {}
             /\ \A n \in Marks(u) : ~ops[n - 1].breakGasGroup
  <2>1. PICK k \in DOMAIN us : u = us[k]
    BY <1>2
  <2>2. ~ops[u.index].isUnnecessary
    BY <1>4, <1>5, <2>1 DEF SameOp
  <2>3. ASSUME u.last = 0 PROVE u.check = NoChecks /\ OpenAt(j, u.index) # {}
    <3>1. u.check = NoChecks /\ \E m \in DOMAIN us : u.index \in Marks(us[m])
      BY <1>5, <2>1, <2>3
    <3>2. PICK m \in DOMAIN us : u.index \in Marks(us[m])
      BY <3>1
    <3>3. us[m] \in OpenAt(j, u.index)
      BY <1>2, <3>2 DEF OpenAt, Marks
    <3> QED  BY <3>1, <3>3
  <2>4. u.last <= Len(ops)
    BY <1>1, <1>4, <2>1
  <2> QED  BY <1>3, <1>4, <1>5, <2>1, <2>2, <2>3, <2>4
<1>10. \A u, v \in UnitsOf(j) : u # v => \A n \in Span(u) : n \notin Span(v)
  BY <1>2, <1>6
<1>11. \A u, v \in UnitsOf(j) : u.index = v.index => u = v
  BY <1>2, <1>7
<1>12. \A n \in 1 .. Len(ops) : (~ops[n].isUnnecessary /\ Arrives(ops, n))
               => \E u \in UnitsOf(j) : u.index = n
  BY <1>2, <1>8
<1> QED  BY <1>9, <1>10, <1>11, <1>12 DEF b

(* At most one run is open.                                                *)
LEMMA OneOpen ==
  ASSUME Fine, phase = "done", NEW j \in DOMAIN code, NEW n \in Int, NEW u \in OpenAt(j, n)
  PROVE  /\ OpenAt(j, n) = {u} /\ u \in UnitsOf(j) /\ n \in (u.index + 1) .. u.last
         /\ u.index \in 1 .. Len(Ops(j)) /\ u.last \in u.index .. Len(Ops(j)) /\ u.last # 0
         /\ PrepaidAt(j, n) = Total(GasOf(Ops(j)), n, u.last)
<1>1. u \in UnitsOf(j) /\ n \in (u.index + 1) .. u.last
  BY DEF OpenAt
<1>2. u.index \in 1 .. Len(Ops(j)) /\ u.last \in Nat /\ (u.last # 0 => u.last \in u.index .. Len(Ops(j)))
  BY <1>1, UnitFacts
<1>3. u.last # 0
  BY <1>1, <1>2
<1>4. \A v \in OpenAt(j, n) : v = u
  <2> SUFFICES ASSUME NEW v \in OpenAt(j, n), v # u PROVE FALSE
    OBVIOUS
  <2>1. v \in UnitsOf(j) /\ n \in (v.index + 1) .. v.last
    BY DEF OpenAt
  <2>2. v.index \in Int /\ v.last \in Int
    BY <2>1, UnitFacts
  <2>3. n \in Span(u) /\ n \in Span(v)
    BY <1>1, <1>2, <2>1, <2>2 DEF Span
  <2> QED  BY <1>1, <2>1, <2>3, UnitFacts
<1>5. OpenAt(j, n) = {u}
  BY <1>4
<1>6. (CHOOSE v \in OpenAt(j, n) : TRUE) = u
  BY <1>5
<1> QED  BY <1>1, <1>2, <1>3, <1>5, <1>6 DEF PrepaidAt

(* A sum loses its first number.                                           *)
LEMMA TotalFirst ==
  ASSUME NEW x, NEW a \in Int, NEW b \in Int, a <= b, \A n \in a .. b : x[n] \in Nat
  PROVE  /\ Total(x, a, b) = x[a] + Total(x, a + 1, b)
         /\ Total(x, a, b) \in Nat /\ Total(x, a + 1, b) \in Nat /\ x[a] \in Nat
<1>1. Total(x, a, b) = Total(x, a, a) + Total(x, a + 1, b)
  BY TotalSplit
<1>2. Total(x, a, a) = Total(x, a, a - 1) + x[a] /\ Total(x, a, a - 1) = 0
  BY TotalRec
<1>3. Total(x, a + 1, b) \in Nat
  <2>1. a + 1 \in Int /\ b >= (a + 1) - 1 /\ \A n \in a + 1 .. b : x[n] \in Nat
    OBVIOUS
  <2> QED BY <2>1, TotalNat
<1>4. x[a] \in Nat
  OBVIOUS
<1> QED
  BY <1>1, <1>2, <1>3, <1>4

(* What is left of a run's gas when control passes an opcode.              *)
LEMMA PrepaidStep ==
  ASSUME Ready4Call, NEW j \in DOMAIN code, NEW ops, ops = Ops(j),
         NEW n \in 1 .. Len(ops), Arrives(ops, n)
  PROVE  /\ PrepaidAt(j, n) \in Nat /\ PrepaidAt(j, n + 1) \in Nat
         /\ OpenAt(j, n) # {} => /\ PrepaidAt(j, n) = ops[n].gas + PrepaidAt(j, n + 1)
                                 /\ OpenAt(j, n + 1) \subseteq OpenAt(j, n)
         /\ ops[n].isUnnecessary => OpenAt(j, n) # {}
         /\ \A u \in UnitsOf(j) : u.index = n =>
              /\ u.last = 0 => u.check = NoChecks /\ OpenAt(j, n) # {}
              /\ u.last # 0 => /\ OpenAt(j, n) = {} /\ PrepaidAt(j, n) = 0
                               /\ OpenAt(j, n + 1) \subseteq {u}
                               /\ Total(GasOf(ops), n, u.last)
                                    = ops[n].gas + PrepaidAt(j, n + 1)
         /\ ops[n].breakGasGroup => OpenAt(j, n + 1) = {}
<1> USE DEF Ready4Call
<1>1. /\ ops \in Seq(Opcode) /\ Ready(ops) /\ Len(ops) \in Nat \ {0} /\ DOMAIN ops = 1 .. Len(ops)
      /\ Says(ops[n])
      /\ Effect(ops[n], CacheAt(branches[code[j].branch], n + 1))
  <2> DEFINE b == code[j].branch
  <2>1. /\ ops = branches[b].opcodes /\ Flowing(branches[b])
        /\ ops \in Seq(Opcode) /\ Ready(ops) /\ Len(ops) \in Nat \ {0} /\ DOMAIN ops = 1 .. Len(ops)
        /\ \A m \in 1 .. Len(ops) : Says(ops[m])
    BY BlockFacts
  <2> QED
    BY <2>1 DEF Flowing
<1>2. \A m \in 1 .. Len(ops) : GasOf(ops)[m] = ops[m].gas /\ GasOf(ops)[m] \in Nat
  BY <1>1, ReadyFields
<1>3. /\ \A u \in UnitsOf(j) :
              /\ u.index \in 1 .. Len(ops) /\ u.last \in Nat /\ u.last <= Len(ops)
              /\ ~ops[u.index].isUnnecessary
              /\ u.last # 0 => u.last \in u.index .. Len(ops)
              /\ u.last = 0 => u.check = NoChecks /\ OpenAt(j, u.index) # {}
              /\ \A m \in Marks(u) : ~ops[m - 1].breakGasGroup
      /\ \A u, v \in UnitsOf(j) : u # v => \A m \in Span(u) : m \notin Span(v)
  <2>1. Fine /\ phase = "done"
    OBVIOUS
  <2> QED BY <2>1, UnitFacts
<1>4. n \in Int /\ n + 1 \in Int
  OBVIOUS
<1>5. \A m \in Int : \A u \in OpenAt(j, m) :
         /\ OpenAt(j, m) = {u} /\ u \in UnitsOf(j) /\ m \in (u.index + 1) .. u.last
         /\ u.index \in 1 .. Len(ops) /\ u.last \in u.index .. Len(ops) /\ u.last # 0
         /\ PrepaidAt(j, m) = Total(GasOf(ops), m, u.last)
  BY OneOpen
<1>6. \A m \in 1 .. Len(ops) : \A e \in m .. Len(ops) :
         /\ Total(GasOf(ops), m, e) = ops[m].gas + Total(GasOf(ops), m + 1, e)
         /\ Total(GasOf(ops), m, e) \in Nat /\ Total(GasOf(ops), m + 1, e) \in Nat
  <2> TAKE m \in 1 .. Len(ops)
  <2> TAKE e \in m .. Len(ops)
  <2>1. m \in Int /\ e \in Int /\ m <= e /\ \A q \in m .. e : GasOf(ops)[q] \in Nat
    BY <1>1, <1>2
  <2> QED BY <2>1, <1>2, TotalFirst
<1>7. \A m \in Int : PrepaidAt(j, m) \in Nat
  <2> TAKE m \in Int
  <2>1. CASE OpenAt(j, m) = {}
    BY <2>1 DEF PrepaidAt
  <2>2. CASE OpenAt(j, m) # {}
    <3>1. PICK u \in OpenAt(j, m) : TRUE
      BY <2>2
    <3>2. /\ u.index \in 1 .. Len(ops) /\ u.last \in u.index .. Len(ops)
          /\ m \in (u.index + 1) .. u.last /\ PrepaidAt(j, m) = Total(GasOf(ops), m, u.last)
      BY <1>5, <3>1
    <3>3. m \in 1 .. Len(ops) /\ u.last \in m .. Len(ops)
      BY <3>2, <1>1
    <3> QED BY <3>2, <3>3, <1>6
  <2> QED BY <2>1, <2>2

(* A unit open at m + 1 spans m.                                           *)
<1>8. \A v \in OpenAt(j, n + 1) : v \in UnitsOf(j) /\ n \in Span(v) /\ n + 1 \in Marks(v) /\ v.last >= n + 1
  <2> TAKE v \in OpenAt(j, n + 1)
  <2>1. v \in UnitsOf(j) /\ n + 1 \in (v.index + 1) .. v.last /\ v.index \in 1 .. Len(ops) /\ v.last \in v.index .. Len(ops)
    BY <1>4, <1>5
  <2> QED BY <2>1 DEF Span, Marks
<1>9. OpenAt(j, n) # {} => /\ PrepaidAt(j, n) = ops[n].gas + PrepaidAt(j, n + 1)
                           /\ OpenAt(j, n + 1) \subseteq OpenAt(j, n)
  <2> SUFFICES ASSUME NEW u \in OpenAt(j, n)
               PROVE  /\ PrepaidAt(j, n) = ops[n].gas + PrepaidAt(j, n + 1)
                      /\ OpenAt(j, n + 1) \subseteq OpenAt(j, n)
    OBVIOUS
  <2>1. /\ u \in UnitsOf(j) /\ n \in (u.index + 1) .. u.last
        /\ u.index \in 1 .. Len(ops) /\ u.last \in u.index .. Len(ops) /\ u.last # 0
        /\ PrepaidAt(j, n) = Total(GasOf(ops), n, u.last)
    BY <1>4, <1>5
  <2>2. n \in Span(u) /\ u.last \in n .. Len(ops)
    BY <2>1 DEF Span
  <2>3. \A v \in OpenAt(j, n + 1) : v = u
    BY <2>1, <2>2, <1>8, <1>3
  <2>4. CASE n = u.last
    <3>1. OpenAt(j, n + 1) = {}
      BY <2>3, <1>8, <2>4, <2>1
    <3>2. PrepaidAt(j, n + 1) = 0
      BY <3>1 DEF PrepaidAt
    <3>3. Total(GasOf(ops), n, n) = ops[n].gas + Total(GasOf(ops), n + 1, n)
      BY <1>6, <2>2, <2>4
    <3>4. Total(GasOf(ops), n + 1, n) = 0
      <4>1. n + 1 \in Int /\ n \in Int /\ n = (n + 1) - 1
        OBVIOUS
      <4> QED BY <4>1, TotalRec
    <3> QED BY <3>1, <3>2, <3>3, <3>4, <2>1, <2>4
  <2>5. CASE n # u.last
    <3>1. u \in OpenAt(j, n + 1)
      BY <2>1, <2>5 DEF OpenAt
    <3>2. PrepaidAt(j, n + 1) = Total(GasOf(ops), n + 1, u.last) /\ OpenAt(j, n + 1) = {u}
      BY <3>1, <1>4, <1>5
    <3> QED BY <3>2, <2>1, <2>2, <1>6
  <2> QED BY <2>4, <2>5
<1>10. ops[n].isUnnecessary => OpenAt(j, n) # {}
  <2> HAVE ops[n].isUnnecessary
  <2>1. ops[n].gas > 0
    <3>1. ops[n].name \in Foldable
      BY <1>1 DEF Effect
    <3> QED BY <3>1, <1>1 DEF Says, SaysAs
  <2>2. n \in Reached(j) /\ BlockBranch(j)[n] = ops[n]
    BY <1>1 DEF Reached, Arrives, Ops
  <2>3. Charges(j, n) # {}
    BY <2>1, <2>2 DEF Covered, FoldedCharged
  <2>4. PICK u \in UnitsOf(j) : n \in u.index .. u.last
    BY <2>3 DEF Charges, UnitsOf
  <2>5. u.index # n /\ u.index \in Int /\ u.last \in Int
    BY <1>3
  <2> QED BY <2>4, <2>5 DEF OpenAt
<1>11. ASSUME NEW u \in UnitsOf(j), u.index = n
       PROVE  /\ u.last = 0 => u.check = NoChecks /\ OpenAt(j, n) # {}
              /\ u.last # 0 => /\ OpenAt(j, n) = {} /\ PrepaidAt(j, n) = 0
                               /\ OpenAt(j, n + 1) \subseteq {u}
                               /\ Total(GasOf(ops), n, u.last)
                                    = ops[n].gas + PrepaidAt(j, n + 1)
  <2>1. u.last = 0 => u.check = NoChecks /\ OpenAt(j, n) # {}
    BY <1>3, <1>11
  <2>2. ASSUME u.last # 0
        PROVE  /\ OpenAt(j, n) = {} /\ PrepaidAt(j, n) = 0
               /\ OpenAt(j, n + 1) \subseteq {u}
               /\ Total(GasOf(ops), n, u.last) = ops[n].gas + PrepaidAt(j, n + 1)
    <3>1. u.last \in n .. Len(ops) /\ n \in Span(u)
      BY <1>3, <1>11, <2>2 DEF Span
    <3>2. OpenAt(j, n) = {}
      <4>1. ASSUME NEW v \in OpenAt(j, n) PROVE FALSE
        <5>1. v \in UnitsOf(j) /\ n \in (v.index + 1) .. v.last /\ v.index \in 1 .. Len(ops) /\ v.last \in v.index .. Len(ops)
          BY <1>4, <1>5
        <5>2. n \in Span(v) /\ v # u
          BY <5>1, <1>11 DEF Span
        <5> QED BY <5>1, <5>2, <3>1, <1>3
      <4> QED BY <4>1
    <3>3. PrepaidAt(j, n) = 0
      BY <3>2 DEF PrepaidAt
    <3>4. OpenAt(j, n + 1) \subseteq {u}
      BY <3>1, <1>8, <1>3
    <3>5. Total(GasOf(ops), n, u.last) = ops[n].gas + Total(GasOf(ops), n + 1, u.last)
      BY <3>1, <1>6
    <3>6. PrepaidAt(j, n + 1) = Total(GasOf(ops), n + 1, u.last)
      <4>1. CASE u.last = n
        <5>1. OpenAt(j, n + 1) = {}
          BY <3>4, <1>8, <4>1
        <5>2. PrepaidAt(j, n + 1) = 0
          BY <5>1 DEF PrepaidAt
        <5>3. n + 1 \in Int /\ n \in Int /\ n = (n + 1) - 1
          OBVIOUS
        <5>4. Total(GasOf(ops), n + 1, n) = 0
          BY <5>3, TotalRec
        <5> QED BY <5>2, <5>4, <4>1
      <4>2. CASE u.last # n
        <5>1. u \in OpenAt(j, n + 1)
          BY <3>1, <4>2, <1>11 DEF OpenAt
        <5> QED BY <5>1, <1>4, <1>5
      <4> QED BY <4>1, <4>2
    <3> QED BY <3>2, <3>3, <3>4, <3>5, <3>6
  <2> QED BY <2>1, <2>2
<1>12. ops[n].breakGasGroup => OpenAt(j, n + 1) = {}
  <2> HAVE ops[n].breakGasGroup
  <2>1. ASSUME NEW v \in OpenAt(j, n + 1) PROVE FALSE
    <3>1. v \in UnitsOf(j) /\ n + 1 \in Marks(v)
      BY <1>8
    <3>2. ~ops[(n + 1) - 1].breakGasGroup
      BY <3>1, <1>3
    <3>3. (n + 1) - 1 = n
      OBVIOUS
    <3> QED BY <3>2, <3>3
  <2> QED BY <2>1
<1> QED
  BY <1>4, <1>7, <1>9, <1>10, <1>11, <1>12

(* No run is open where a branch begins or ends.                           *)
LEMMA NoneOpen ==
  ASSUME Fine, phase = "done", NEW j \in DOMAIN code
  PROVE  /\ OpenAt(j, 1) = {} /\ PrepaidAt(j, 1) = 0
         /\ OpenAt(j, Len(Ops(j)) + 1) = {} /\ PrepaidAt(j, Len(Ops(j)) + 1) = 0
<1>0. Len(Ops(j)) \in Nat
  BY BlockFacts
<1>1. \A u \in UnitsOf(j) : u.index \in 1 .. Len(Ops(j)) /\ u.last \in Nat /\ u.last <= Len(Ops(j))
  BY UnitFacts
<1>2. OpenAt(j, 1) = {} /\ OpenAt(j, Len(Ops(j)) + 1) = {}
  BY <1>0, <1>1 DEF OpenAt
<1> QED BY <1>2 DEF PrepaidAt

(* Opcode n of a branch finds its operands, and room for its results, when *)
(* opcode k finds h words in memory.                                       *)
Room(ops, k, n, h) ==
    LET height == Height(ops, k, n, h)
    IN  height >= Takes(ops[n]) /\ height - ops[n].in + ops[n].out <= StackSize

(* How high the branch has got, and may go in the run that is open, with p *)
(* words in memory in front of opcode n.                                   *)
Sized(j, n, p) ==
    /\ p \in 0 .. StackSize
    /\ p + Len(CacheAt(branches[code[j].branch], n)) <= StackSize
    /\ p + LoadedBefore(Ops(j), n) + MaxBefore(Ops(j), n) <= StackSize
    /\ \A u \in OpenAt(j, n) : \A m \in n .. u.last : Room(Ops(j), n, m, p)

LEMMA MaxBeforeIs ==
  ASSUME NEW ops, Ready(ops), NEW k \in Nat \ {0}, k <= Len(ops) + 1
  PROVE  /\ MaxBefore(ops, k) \in Nat
         /\ MaxBefore(ops, k) = 0 \/ \E m \in 1 .. k - 1 : MaxBefore(ops, k) = ops[m].stackCheck
         /\ \A m \in 1 .. k - 1 : ops[m].stackCheck <= MaxBefore(ops, k)
<1> DEFINE f == [n \in 0 .. k - 1 |-> IF n = 0 THEN 0 ELSE ops[n].stackCheck]
           S == {f[n] : n \in 0 .. k - 1}
           R == {0} \cup {ops[n].stackCheck : n \in 1 .. (k - 1)}
<1>0. \A n \in 1 .. k - 1 : ops[n].stackCheck \in Nat /\ n \in 1 .. Len(ops)
  BY ReadyFields
<1>1. R = S
  <2>1. f[0] = 0 /\ \A n \in 1 .. k - 1 : f[n] = ops[n].stackCheck
    OBVIOUS
  <2>2. R \subseteq S
    <3>1. 0 \in S
      BY <2>1
    <3>2. \A n \in 1 .. k - 1 : ops[n].stackCheck \in S
      BY <2>1
    <3> QED BY <3>1, <3>2
  <2>3. S \subseteq R
    <3>1. \A n \in 0 .. k - 1 : n = 0 \/ n \in 1 .. k - 1
      OBVIOUS
    <3> QED BY <2>1, <3>1
  <2> QED BY <2>2, <2>3
<1>2. /\ Max(S) \in S /\ \A y \in S : y <= Max(S)
  <2>1. 0 \in Int /\ k - 1 \in Int /\ 0 <= k - 1 /\ \A n \in 0 .. k - 1 : f[n] \in Int
    BY <1>0
  <2> HIDE DEF f
  <2> QED BY <2>1, MaxOfOK
<1>3. MaxBefore(ops, k) = Max(R)
  BY DEF MaxBefore
<1>4. \A y \in R : y = 0 \/ \E n \in 1 .. k - 1 : y = ops[n].stackCheck
  OBVIOUS
<1>5. \A n \in 1 .. k - 1 : ops[n].stackCheck \in R
  OBVIOUS
<1> HIDE DEF f, S, R
<1>6. MaxBefore(ops, k) \in R /\ \A y \in R : y <= MaxBefore(ops, k)
  BY <1>1, <1>2, <1>3
<1> QED
  BY <1>0, <1>4, <1>5, <1>6

LEMMA LoadedIs ==
  ASSUME NEW ops, Ready(ops), NEW n \in 1 .. Len(ops)
  PROVE  /\ LoadedBefore(ops, n) \in Nat /\ LoadedBefore(ops, n + 1) \in Nat
         /\ LoadedBefore(ops, n + 1) = LoadedBefore(ops, n) + ops[n].stackLoad
         /\ ops[n].stackLoad \in Nat
         /\ \A p \in Int : Height(ops, n, n, p) = p + Len(ops[n].cache)
         /\ Len(ops[n].cache) \in Nat
<1>0. Len(ops) \in Nat /\ \A m \in 1 .. Len(ops) : LoadOf(ops)[m] \in Nat /\ LoadOf(ops)[m] = ops[m].stackLoad
      /\ Len(ops[m].cache) \in Nat
  BY ReadyFields
<1>1. Total(LoadOf(ops), 1, n - 1) \in Nat /\ Total(LoadOf(ops), 1, n) \in Nat
  <2>1. 1 \in Int /\ n - 1 \in Int /\ n - 1 >= 1 - 1 /\ \A m \in 1 .. n - 1 : LoadOf(ops)[m] \in Nat
    BY <1>0
  <2>2. n \in Int /\ n >= 1 - 1 /\ \A m \in 1 .. n : LoadOf(ops)[m] \in Nat
    BY <1>0
  <2> QED BY <2>1, <2>2, TotalNat
<1>2. Total(LoadOf(ops), 1, n) = Total(LoadOf(ops), 1, n - 1) + LoadOf(ops)[n]
  BY TotalRec
<1>3. Total(LoadOf(ops), n, n - 1) = 0
  BY TotalRec
<1>4. (n + 1) - 1 = n
  OBVIOUS
<1> QED
  BY <1>0, <1>1, <1>2, <1>3, <1>4 DEF LoadedBefore, Height

(* Heights do not depend on where they are counted from.                   *)
LEMMA RoomShift ==
  ASSUME NEW ops, Ready(ops), NEW k \in 1 .. Len(ops), NEW m \in k + 1 .. Len(ops), NEW p \in Int
  PROVE  Room(ops, k + 1, m, p - ops[k].stackLoad) <=> Room(ops, k, m, p)
<1>0. Len(ops) \in Nat /\ \A n \in 1 .. Len(ops) : LoadOf(ops)[n] \in Nat /\ LoadOf(ops)[n] = ops[n].stackLoad
      /\ Len(ops[n].cache) \in Nat
  BY ReadyFields
<1>1. /\ Total(LoadOf(ops), k, m - 1) = LoadOf(ops)[k] + Total(LoadOf(ops), k + 1, m - 1)
      /\ Total(LoadOf(ops), k, m - 1) \in Nat /\ Total(LoadOf(ops), k + 1, m - 1) \in Nat
  <2>1. k \in Int /\ m - 1 \in Int /\ k <= m - 1 /\ \A n \in k .. m - 1 : LoadOf(ops)[n] \in Nat
    BY <1>0
  <2> QED BY <2>1, TotalFirst
<1>2. Height(ops, k + 1, m, p - ops[k].stackLoad) = Height(ops, k, m, p)
  <2>1. PICK x, y, l, c : /\ x = Total(LoadOf(ops), k, m - 1)
                          /\ y = Total(LoadOf(ops), k + 1, m - 1)
                          /\ l = ops[k].stackLoad /\ c = Len(ops[m].cache)
    OBVIOUS
  <2>2. x = l + y /\ x \in Nat /\ y \in Nat /\ l \in Nat /\ c \in Nat
    BY <1>0, <1>1, <2>1
  <2>3. p - l - y + c = p - x + c
    BY ONLY <2>2, p \in Int
  <2>4. /\ Height(ops, k + 1, m, p - ops[k].stackLoad) = p - l - y + c
        /\ Height(ops, k, m, p) = p - x + c
    BY <2>1 DEF Height
  <2> QED BY <2>3, <2>4
<1> QED BY <1>2 DEF Room

(* An opcode that has room leaves room for what follows.                   *)
LEMMA SizedStep ==
  ASSUME Ready4Call, NEW j \in DOMAIN code, NEW ops, ops = Ops(j),
         NEW n \in 1 .. Len(ops), NEW p, Sized(j, n, p), Room(ops, n, n, p),
         \A u \in OpenAt(j, n + 1) : \A m \in n + 1 .. u.last : Room(ops, n, m, p)
  PROVE  /\ Sized(j, n + 1, p - ops[n].stackLoad)
         /\ ops[n].stackLoad \in Nat /\ ops[n].stackAddLoad \in Nat
         /\ ops[n].stackLoad + ops[n].stackAddLoad <= p
         /\ Takes(ops[n]) <= p + Len(ops[n].cache)
         /\ p + Len(ops[n].cache) - ops[n].in + ops[n].out <= StackSize
<1> DEFINE b == code[j].branch
<1>0. PICK op, D, load, add, check, in, out, takes :
         /\ op = ops[n] /\ D = Len(op.cache) /\ load = op.stackLoad /\ add = op.stackAddLoad
         /\ check = op.stackCheck /\ in = op.in /\ out = op.out /\ takes = Takes(op)
  OBVIOUS
<1>a. PICK lb, lb2, mb, mb2, low :
         /\ lb = LoadedBefore(ops, n) /\ lb2 = LoadedBefore(ops, n + 1)
         /\ mb = MaxBefore(ops, n) /\ mb2 = MaxBefore(ops, n + 1) /\ low = LowLen(op)
  OBVIOUS
<1> USE DEF Ready4Call
<1>1. /\ ops = branches[b].opcodes /\ Flowing(branches[b])
      /\ ops \in Seq(Opcode) /\ Ready(ops) /\ Len(ops) \in Nat \ {0} /\ DOMAIN ops = 1 .. Len(ops)
      /\ Says(op)
  BY <1>0, BlockFacts
<1>2. /\ load \in Nat /\ add \in Nat /\ check \in Nat /\ in \in Nat /\ out \in Nat
      /\ D \in Nat /\ takes \in Nat
  BY <1>0, <1>1, ReadyFields
<1>3. HeightChecked(ops, n) /\ Fetches(op)
  BY <1>0, <1>1 DEF Ready, Needs
<1>4. Effect(op, CacheAt(branches[b], n + 1))
  BY <1>0, <1>1 DEF Flowing
<1>5. CacheAt(branches[b], n) = op.cache
  BY <1>0, <1>1 DEF CacheAt
<1>6. p \in Nat /\ p <= StackSize /\ StackSize \in Nat
  BY CountAssumption DEF Sized
<1>7. Height(ops, n, n, p) = p + D
  <2>1. \A q \in Int : Height(ops, n, n, q) = q + Len(ops[n].cache)
    BY <1>1, LoadedIs
  <2>2. Height(ops, n, n, p) = p + Len(ops[n].cache)
    BY <2>1, <1>6
  <2> QED BY <2>2, <1>0
<1>8. takes <= p + D /\ p + D - in + out <= StackSize
  <2>1. /\ Height(ops, n, n, p) >= Takes(op)
        /\ Height(ops, n, n, p) - op.in + op.out <= StackSize
    BY <1>0 DEF Room
  <2>2. PICK h : h = Height(ops, n, n, p)
    OBVIOUS
  <2>3. h >= takes /\ h - in + out <= StackSize
    BY <2>1, <2>2, <1>0
  <2>4. h = p + D
    BY <2>2, <1>7
  <2> QED BY <2>3, <2>4, <1>2, <1>6
<1>9. load + add <= p
  <2>1. load + add = IF takes > D THEN takes - D ELSE 0
    BY <1>0, <1>3 DEF Fetches
  <2> QED BY <2>1, <1>2, <1>6, <1>8
<1>10. CacheAt(branches[b], n + 1) = AfterRefs(op) /\ load = IF in > D THEN in - D ELSE 0
  BY <1>0, <1>4 DEF Effect, Deep
<1>11. Len(AfterRefs(op)) = low + out /\ low = IF in <= D THEN D - in ELSE 0
  <2>1. low = IF in <= D THEN D - in ELSE 0
    BY <1>0, <1>a DEF LowLen, Deep
  <2>2. low + out \in Nat
    BY <2>1, <1>2
  <2>3. \A r, f : r \in Nat => Len([k \in 1 .. r |-> f[k]]) = r
    OBVIOUS
  <2>4. AfterRefs(op) = [k \in 1 .. low + out |-> AfterRefs(op)[k]]
    BY <1>0, <1>a DEF AfterRefs
  <2> QED BY <2>1, <2>2, <2>3, <2>4
<1>12. p - load + Len(CacheAt(branches[b], n + 1)) = p + D - in + out
  <2>1. p - load + (low + out) = p + D - in + out
    BY <1>2, <1>6, <1>10, <1>11
  <2> QED BY <2>1, <1>10, <1>11
<1>13. lb \in Nat /\ lb2 = lb + load
  BY <1>0, <1>a, <1>1, LoadedIs
<1>14. mb \in Nat /\ mb2 \in Nat /\ (mb2 <= mb \/ mb2 = check)
  <2>1. n \in Nat \ {0} /\ n <= Len(ops) + 1 /\ n + 1 \in Nat \ {0} /\ n + 1 <= Len(ops) + 1
    BY <1>1
  <2>2. mb \in Nat /\ \A m \in 1 .. n - 1 : ops[m].stackCheck <= mb
    BY <2>1, <1>1, <1>a, MaxBeforeIs
  <2>3. mb2 \in Nat /\ (mb2 = 0 \/ \E m \in 1 .. (n + 1) - 1 : mb2 = ops[m].stackCheck)
    BY <2>1, <1>1, <1>a, MaxBeforeIs
  <2>4. \A m \in 1 .. (n + 1) - 1 : m = n \/ m \in 1 .. n - 1
    OBVIOUS
  <2> QED BY <1>0, <2>2, <2>3, <2>4
<1>15. check > 0 => check + lb = D - in + out
  <2>1. LoadsTo(ops, n - 1) = lb
    BY <1>1, <1>a, ReadyFields DEF LoadedBefore
  <2>2. check > 0 => check = D - lb - in + out
    BY <1>0, <1>3, <2>1 DEF HeightChecked, HeightAfter
  <2> QED BY <1>2, <1>13, <2>2
<1>16. p + lb + mb <= StackSize
  BY <1>a DEF Sized
<1>17. (p - load) + lb2 + mb2 <= StackSize
  <2>2. CASE mb2 <= mb
    BY <2>2, <1>16, <1>14, <1>13, <1>6, <1>2
  <2>3. CASE mb2 = check /\ check > 0
    BY <2>3, <1>15, <1>8, <1>13, <1>6, <1>2
  <2>4. CASE check = 0 /\ mb2 = check
    BY <2>4, <1>16, <1>14, <1>13, <1>6, <1>2
  <2> QED BY <2>2, <2>3, <2>4, <1>14, <1>2
<1>18. \A u \in OpenAt(j, n + 1) : \A m \in n + 1 .. u.last : Room(Ops(j), n + 1, m, p - load)
  <2> TAKE u \in OpenAt(j, n + 1)
  <2> TAKE m \in n + 1 .. u.last
  <2>1. n + 1 \in Int /\ Fine /\ phase = "done"
    OBVIOUS
  <2>2. u.last \in u.index .. Len(ops)
    BY <2>1, OneOpen
  <2>3. u.index \in 1 .. Len(ops)
    BY <2>1, OneOpen
  <2>4. m \in n + 1 .. Len(ops)
    BY <2>2, <2>3, <1>1
  <2> QED BY <1>0, <2>4, <1>1, <1>6, RoomShift
<1>19. p - load \in 0 .. StackSize
  BY <1>2, <1>6, <1>9
<1>20. Sized(j, n + 1, p - load)
  <2>1. p - load + Len(CacheAt(branches[b], n + 1)) <= StackSize
    BY <1>12, <1>8
  <2> QED BY <2>1, <1>a, <1>17, <1>18, <1>19 DEF Sized
<1> QED
  BY <1>0, <1>2, <1>8, <1>9, <1>20

(* The batched check of a run answers what checking its opcodes one by one *)
(* would.                                                                  *)
LEMMA VerdictIs ==
  ASSUME NEW ops, NEW k, NEW e, NEW p, NEW g, RunAt(ops, k, e, p, g),
         Checks(ops, k, e).max > 0 =>
            Checks(ops, k, e).max <= StackSize /\ LoadedBefore(ops, k) = 0
  PROVE  Verdict(Checks(ops, k, e), p, g) = StepByStep(ops, k, e, p, g)
<1> DEFINE bad == Bad(ops, k, e, p, g)
           n == Min(bad)
<1>1. CASE bad = {}
  BY <1>1, BatchGoes
<1>2. CASE bad # {} /\ (Poor(ops, k, g, n) \/ Under(ops, k, p, n))
  BY <1>2, BatchFails
<1>3. CASE bad # {} /\ ~(Poor(ops, k, g, n) \/ Under(ops, k, p, n))
  <2>1. n \in k .. e /\ n \in bad
    BY <1>3, FirstBad
  <2>2. Grew(ops, k, p, n)
    BY <2>1, <1>3 DEF Bad
  <2>3. HeightAfter(ops, n) \in Int /\ p + LoadedBefore(ops, k) + HeightAfter(ops, n) > StackSize
    BY <2>1, <2>2, GrewIs
  <2>4. /\ Ready(ops) /\ k \in 1 .. Len(ops) /\ e \in k .. Len(ops) /\ p \in 0 .. StackSize
        /\ p + LoadedBefore(ops, k) + MaxBefore(ops, k) <= StackSize
    BY DEF RunAt
  <2>5. Len(ops) \in Nat /\ LoadedBefore(ops, k) \in Nat /\ StackSize \in Nat
        /\ k \in Nat \ {0} /\ k <= Len(ops) + 1 /\ e <= Len(ops) /\ e \in Nat
    BY <2>4, RunFacts
  <2>6. MaxBefore(ops, k) \in Nat /\ \A m \in 1 .. k - 1 : ops[m].stackCheck <= MaxBefore(ops, k)
    BY <2>4, <2>5, MaxBeforeIs
  <2>7. HeightAfter(ops, n) > 0 /\ HeightAfter(ops, n) > MaxBefore(ops, k)
    BY <2>3, <2>4, <2>5, <2>6
  <2>8. HeightChecked(ops, n) /\ n \in 1 .. Len(ops)
    BY <2>1, <2>4, <2>5 DEF Ready
  <2>9. \A m \in 1 .. Len(ops) : ops[m].stackCheck \in Nat
    BY <2>4, ReadyFields
  <2>10. \E m \in k .. e : ops[m].stackCheck > 0
    <3>1. CASE ops[n].stackCheck > 0
      BY <3>1, <2>1
    <3>2. CASE ~(ops[n].stackCheck > 0)
      <4>1. PICK m \in 1 .. n - 1 : HeightAfter(ops, n) <= ops[m].stackCheck
        BY <3>2, <2>7, <2>8, <2>9, <2>3 DEF HeightChecked
      <4>2. m \in 1 .. Len(ops) /\ ops[m].stackCheck \in Nat
        BY <2>8, <2>9, <2>5
      <4>3. ~(m \in 1 .. k - 1)
        BY <4>1, <4>2, <2>6, <2>7, <2>3
      <4>4. m \in k .. e
        BY <4>2, <4>3, <2>1, <2>5
      <4>5. ops[m].stackCheck > 0
        BY <4>1, <4>2, <2>7, <2>3
      <4> QED BY <4>4, <4>5
    <3> QED BY <3>1, <3>2
  <2>11. Checks(ops, k, e).max > 0
    <3>1. /\ Checks(ops, k, e).max \in Nat
          /\ \A m \in k .. e : ops[m].stackCheck <= Checks(ops, k, e).max
      BY ChecksAre
    <3>2. \A m \in k .. e : m \in 1 .. Len(ops)
      BY <2>5
    <3> QED BY <3>1, <3>2, <2>9, <2>10
  <2> QED BY <2>11, <1>3, BatchOverflows
<1> QED BY <1>1, <1>2, <1>3

(* A unit with a check of its own, in front of a run.                      *)
LEMMA RunHere ==
  ASSUME Ready4Call, NEW j \in DOMAIN code, NEW ops, ops = Ops(j),
         NEW n \in 1 .. Len(ops), NEW p, Sized(j, n, p), NEW u \in UnitsOf(j), u.index = n,
         u.last # 0, NEW g \in 0 .. CountLimit - 1
  PROVE  /\ RunAt(ops, n, u.last, p, g)
         /\ Verdict(u.check, p, g) = StepByStep(ops, n, u.last, p, g)
         /\ u.last \in n .. Len(ops)
<1>0. Fine /\ phase = "done"
  BY DEF Ready4Call
<1>1. /\ u.branch = code[j].branch /\ u \in Groups /\ u.last \in n .. Len(ops)
      /\ u.check = Checks(ops, n, u.last)
  BY <1>0, UnitFacts
<1>2. BlockOps(u) = ops
  BY <1>0, <1>1, BlockFacts DEF BlockOps
<1>3. Ready(ops)
  BY <1>0, BlockFacts
<1>4. RunAt(ops, n, u.last, p, g)
  BY <1>1, <1>3 DEF RunAt, Sized
<1>5. Checks(ops, n, u.last).max > 0 =>
            Checks(ops, n, u.last).max <= StackSize /\ LoadedBefore(ops, n) = 0
  <2>1. Covered
    BY DEF Ready4Call
  <2>2. u.check.max > 0 => u.check.max <= StackSize /\ LoadedBefore(BlockOps(u), u.index) = 0
    BY <2>1, <1>1 DEF Covered
  <2> QED BY <2>2, <1>1, <1>2
<1> QED
  BY <1>1, <1>4, <1>5, VerdictIs

LEMMA NoChecksGo ==
  ASSUME NEW p, NEW g \in 0 .. CountLimit - 1
  PROVE  Verdict(NoChecks, p, g) = Go(g)
<1>1. Sub(g, 0) = g
  <2>1. g \in Int /\ 0 \in Int /\ g - 0 \in 0 .. CountLimit - 1 /\ g - 0 = g
    BY CountAssumption
  <2> QED BY <2>1, SubIs
<1>2. {k \in DOMAIN <<>> : Blames(<<>>[k], p, g)} = {}
  OBVIOUS
<1> QED
  BY <1>1, <1>2 DEF Verdict, NoChecks

(* A check that lets control pass.                                         *)
LEMMA CheckPasses ==
  ASSUME Ready4Call, NEW j \in DOMAIN code, NEW ops, ops = Ops(j),
         NEW n \in 1 .. Len(ops), Arrives(ops, n), NEW p, Sized(j, n, p),
         NEW u \in UnitsOf(j), u.index = n, NEW g \in 0 .. CountLimit - 1,
         NEW v, v = Verdict(u.check, p, g), v.code = 0
  PROVE  /\ v.gas \in 0 .. CountLimit - 1 /\ v.gas <= g
         /\ g + PrepaidAt(j, n) = ops[n].gas + v.gas + PrepaidAt(j, n + 1)
         /\ Room(ops, n, n, p)
         /\ \A w \in OpenAt(j, n + 1) : \A m \in n + 1 .. w.last : Room(ops, n, m, p)
<1>0. Fine /\ phase = "done" /\ n \in Int
  BY DEF Ready4Call
<1>1. /\ PrepaidAt(j, n) \in Nat /\ PrepaidAt(j, n + 1) \in Nat
      /\ OpenAt(j, n) # {} => /\ PrepaidAt(j, n) = ops[n].gas + PrepaidAt(j, n + 1)
                              /\ OpenAt(j, n + 1) \subseteq OpenAt(j, n)
      /\ u.last = 0 => u.check = NoChecks /\ OpenAt(j, n) # {}
      /\ u.last # 0 => /\ OpenAt(j, n) = {} /\ PrepaidAt(j, n) = 0
                       /\ OpenAt(j, n + 1) \subseteq {u}
                       /\ Total(GasOf(ops), n, u.last) = ops[n].gas + PrepaidAt(j, n + 1)
  BY PrepaidStep
<1>2. ops[n].gas \in Nat
  BY <1>0, BlockFacts, ReadyFields
<1>3. CASE u.last = 0
  <2>1. v = Go(g)
    BY <1>1, <1>3, NoChecksGo
  <2>2. PICK w \in OpenAt(j, n) : TRUE
    BY <1>1, <1>3
  <2>3. OpenAt(j, n) = {w} /\ n \in (w.index + 1) .. w.last /\ w.last \in w.index .. Len(ops)
        /\ w.index \in 1 .. Len(ops)
    BY <2>2, <1>0, OneOpen
  <2>4. \A m \in n .. w.last : Room(ops, n, m, p)
    BY <2>3 DEF Sized
  <2>5. v.gas = g
    BY <2>1 DEF Go
  <2>6. g + PrepaidAt(j, n) = ops[n].gas + v.gas + PrepaidAt(j, n + 1)
    BY <2>5, <1>1, <1>2, <1>3
  <2>7. Room(ops, n, n, p)
    BY <2>3, <2>4
  <2>8. \A y \in OpenAt(j, n + 1) : \A m \in n + 1 .. y.last : Room(ops, n, m, p)
    <3>1. \A y \in OpenAt(j, n + 1) : y = w
      BY <1>1, <1>3, <2>3
    <3>2. \A m \in n + 1 .. w.last : m \in n .. w.last
      BY <2>3
    <3> QED BY <3>1, <3>2, <2>4
  <2> QED BY <2>5, <2>6, <2>7, <2>8
<1>4. CASE u.last # 0
  <2> DEFINE e == u.last
  <2>1. RunAt(ops, n, e, p, g) /\ v = StepByStep(ops, n, e, p, g) /\ e \in n .. Len(ops)
    BY <1>4, RunHere
  <2>2. Bad(ops, n, e, p, g) = {}
    <3>1. SUFFICES ASSUME Bad(ops, n, e, p, g) # {} PROVE v.code # 0
      OBVIOUS
    <3>2. PICK m : m = Min(Bad(ops, n, e, p, g))
      OBVIOUS
    <3>3. v = IF Poor(ops, n, g, m) THEN Fail(-13, ops[m].pc, Left(ops, n, g, m))
              ELSE Fail(IF Under(ops, n, p, m) THEN -10 ELSE -11, ops[m].pc, Left(ops, n, g, m + 1))
      BY <2>1, <3>1, <3>2, SteppedIs
    <3> QED BY <3>3 DEF Fail
  <2>3. v.gas = Left(ops, n, g, e + 1)
    <3>1. v = Go(Left(ops, n, g, e + 1))
      BY <2>1, <2>2, SteppedIs
    <3> QED BY <3>1 DEF Go
  <2>4. e \in n .. e /\ n \in n .. e
    BY <2>1
  <2>5. /\ Left(ops, n, g, e + 1) \in 0 .. CountLimit - 1
        /\ Left(ops, n, g, e + 1) = g - Total(GasOf(ops), n, e)
        /\ Total(GasOf(ops), n, e) \in Nat
    <3>1. ~Poor(ops, n, g, e)
      BY <2>2, <2>4 DEF Bad
    <3> QED BY <3>1, <2>1, <2>4, PoorIs
  <2>6. \A m \in n .. e : Room(ops, n, m, p)
    <3> TAKE m \in n .. e
    <3>1. ~Under(ops, n, p, m) /\ ~Grew(ops, n, p, m)
      BY <2>2 DEF Bad
    <3>2. Height(ops, n, m, p) \in Int /\ Takes(ops[m]) \in Int /\ ops[m].in \in Int /\ ops[m].out \in Int
      <4>1. Total(LoadOf(ops), n, m - 1) \in Nat /\ p \in Nat
        BY <2>1, RunFacts
      <4>2. Len(ops[m].cache) \in Nat /\ Takes(ops[m]) \in Nat /\ ops[m].in \in Nat /\ ops[m].out \in Nat
        BY <2>1, OpFacts
      <4> QED BY <4>1, <4>2 DEF Height
    <3>3. PICK h, t, a, o : /\ h = Height(ops, n, m, p) /\ t = Takes(ops[m])
                            /\ a = ops[m].in /\ o = ops[m].out
      OBVIOUS
    <3>4. ~(h < t) /\ ~(h - a + o > StackSize)
      BY <3>1, <3>3 DEF Under, Grew
    <3>5. h >= t /\ h - a + o <= StackSize
      BY <3>2, <3>3, <3>4, CountAssumption
    <3> QED BY <3>3, <3>5 DEF Room
  <2>7. \A w \in OpenAt(j, n + 1) : \A m \in n + 1 .. w.last : Room(ops, n, m, p)
    <3>1. \A w \in OpenAt(j, n + 1) : w = u
      BY <1>1, <1>4
    <3>2. \A m \in n + 1 .. e : m \in n .. e
      BY <2>1
    <3> QED BY <3>1, <3>2, <2>6
  <2>8. v.gas \in 0 .. CountLimit - 1 /\ v.gas <= g
    BY <2>3, <2>5
  <2>9. g + PrepaidAt(j, n) = ops[n].gas + v.gas + PrepaidAt(j, n + 1)
    <3>1. PICK t, q, x, z : /\ t = Total(GasOf(ops), n, e) /\ q = PrepaidAt(j, n + 1)
                            /\ x = ops[n].gas /\ z = v.gas
      OBVIOUS
    <3>2. t \in Nat /\ q \in Nat /\ x \in Nat /\ z = g - t /\ t = x + q
      BY <3>1, <2>3, <2>5, <1>1, <1>2, <1>4
    <3>3. g + 0 = x + z + q
      BY <3>2
    <3> QED BY <3>1, <3>3, <1>1, <1>4
  <2> QED BY <2>4, <2>6, <2>7, <2>8, <2>9
<1> QED BY <1>3, <1>4

(* A check that fails: no opcode is at fault but m, of the run.            *)
LEMMA CheckFails ==
  ASSUME Ready4Call, NEW j \in DOMAIN code, NEW ops, ops = Ops(j),
         NEW n \in 1 .. Len(ops), Arrives(ops, n), NEW p, Sized(j, n, p),
         NEW u \in UnitsOf(j), u.index = n, NEW g \in 0 .. CountLimit - 1,
         NEW v, v = Verdict(u.check, p, g), v.code # 0
  PROVE  /\ u.last # 0 /\ u.last \in n .. Len(ops) /\ PrepaidAt(j, n) = 0
         /\ RunAt(ops, n, u.last, p, g)
         /\ \E m \in n .. u.last :
              /\ m \in Bad(ops, n, u.last, p, g)
              /\ \A q \in n .. m - 1 : /\ q \notin Bad(ops, n, u.last, p, g)
                                       /\ ~ops[q].breakGasGroup
              /\ v = IF Poor(ops, n, g, m) THEN Fail(-13, ops[m].pc, Left(ops, n, g, m))
                     ELSE Fail(IF Under(ops, n, p, m) THEN -10 ELSE -11, ops[m].pc,
                               Left(ops, n, g, m + 1))
<1>0. Fine /\ phase = "done"
  BY DEF Ready4Call
<1>1. u.last # 0
  <2>1. SUFFICES ASSUME u.last = 0 PROVE v.code = 0
    OBVIOUS
  <2>2. u.check = NoChecks
    BY <1>0, <2>1, UnitFacts
  <2> QED BY <2>2, NoChecksGo DEF Go
<1>2. /\ RunAt(ops, n, u.last, p, g) /\ v = StepByStep(ops, n, u.last, p, g)
      /\ u.last \in n .. Len(ops)
  BY <1>1, RunHere
<1>3. PrepaidAt(j, n) = 0
  BY <1>1, PrepaidStep
<1>4. Bad(ops, n, u.last, p, g) # {}
  <2>1. SUFFICES ASSUME Bad(ops, n, u.last, p, g) = {} PROVE v.code = 0
    OBVIOUS
  <2>2. v = Go(Left(ops, n, g, u.last + 1))
    BY <2>1, <1>2, SteppedIs
  <2> QED BY <2>2 DEF Go
<1>5. PICK m : m = Min(Bad(ops, n, u.last, p, g))
  OBVIOUS
<1>6. v = IF Poor(ops, n, g, m) THEN Fail(-13, ops[m].pc, Left(ops, n, g, m))
              ELSE Fail(IF Under(ops, n, p, m) THEN -10 ELSE -11, ops[m].pc, Left(ops, n, g, m + 1))
  BY <1>2, <1>4, <1>5, SteppedIs
<1>7. /\ m \in n .. u.last /\ m \in Bad(ops, n, u.last, p, g)
      /\ \A q \in n .. m - 1 : q \notin Bad(ops, n, u.last, p, g)
  BY <1>2, <1>4, <1>5, FirstBad
<1>8. \A q \in n .. m - 1 : ~ops[q].breakGasGroup
  <2> TAKE q \in n .. m - 1
  <2>1. q + 1 \in Marks(u) /\ (q + 1) - 1 = q
    BY <1>7, <1>2 DEF Marks
  <2>2. \A k \in Marks(u) : ~ops[k - 1].breakGasGroup
    BY <1>0, UnitFacts
  <2>3. ~ops[(q + 1) - 1].breakGasGroup
    BY <2>1, <2>2
  <2> QED BY <2>1, <2>3
<1> QED
  BY <1>1, <1>2, <1>3, <1>6, <1>7, <1>8

-----------------------------------------------------------------------------
(* The stack in its two parts: p words of m, and the values that the       *)
(* registers rs give to refs.                                              *)
Stk(m, p, refs, rs) ==
    [k \in 1 .. p |-> m[k - 1]] \o [k \in DOMAIN refs |-> Val(refs[k], rs)]

(* Every reference has a value, and the value is a word.                   *)
Held(r, rs)    == (IsConst(r) \/ r \in DOMAIN rs) /\ Val(r, rs) \in Words
Holds(refs, rs) == \A k \in DOMAIN refs : Held(refs[k], rs)

(* rs2 are the registers rs and others, those of opcode id.                *)
Extends(rs2, rs, id) ==
    \A r : (IsConst(r) \/ (r \in DOMAIN rs /\ r[2] # id))
              => Val(r, rs2) = Val(r, rs) /\ (IsConst(r) \/ r \in DOMAIN rs2)

(* The registers once op has loaded its operands.                          *)
LoadedRegs(op, m, p, rs) ==
    Defining([r \in {In(op.id, k) : k \in 0 .. op.stackLoad - 1} |-> m[p - r[3] - 1]], rs)

IsFcn(f) == f = [k \in DOMAIN f |-> f[k]]

(* S is p words of m and then the d values that rs gives to refs.          *)
Long(refs, d) == DOMAIN refs = 1 .. d
Joined(S, m, p, refs, d, rs) ==
    /\ Len(S) = p + d /\ DOMAIN S = 1 .. p + d /\ IsFcn(S)
    /\ \A k \in 1 .. p + d : S[k] = IF k <= p THEN m[k - 1] ELSE Val(refs[k - p], rs)

LEMMA StkIs ==
  ASSUME NEW m, NEW p \in Nat, NEW refs, NEW d \in Nat, Long(refs, d), NEW rs
  PROVE  Joined(Stk(m, p, refs, rs), m, p, refs, d, rs)
<1>0. DOMAIN refs = 1 .. d
  BY DEF Long
<1>1. PICK a, c : /\ a = [k \in 1 .. p |-> m[k - 1]]
                  /\ c = [k \in DOMAIN refs |-> Val(refs[k], rs)]
  OBVIOUS
<1>2. a \in [1 .. p -> {m[k - 1] : k \in 1 .. p}] /\ c \in [1 .. d -> {Val(refs[k], rs) : k \in 1 .. d}]
  BY <1>0, <1>1
<1> DEFINE W == {m[k - 1] : k \in 1 .. p} \cup {Val(refs[k], rs) : k \in 1 .. d}
<1>3. a \in Seq(W) /\ c \in Seq(W)
  <2>1. a \in [1 .. p -> W] /\ c \in [1 .. d -> W]
    BY <1>2
  <2> HIDE DEF W
  <2> QED BY <2>1
<1>4. Len(a) = p /\ Len(c) = d
  BY <1>2
<1>5. /\ Len(a \o c) = p + d /\ DOMAIN (a \o c) = 1 .. p + d
      /\ \A k \in 1 .. p + d : (a \o c)[k] = IF k <= p THEN a[k] ELSE c[k - p]
  <2> HIDE DEF W
  <2> QED BY <1>3, <1>4
<1>6. \A k \in 1 .. p + d : (IF k <= p THEN a[k] ELSE c[k - p])
                             = IF k <= p THEN m[k - 1] ELSE Val(refs[k - p], rs)
  BY <1>0, <1>1
<1>7. a \o c \in Seq(W)
  <2> HIDE DEF W
  <2> QED BY <1>3
<1>8. a \o c = [k \in 1 .. p + d |-> (a \o c)[k]]
  <2> HIDE DEF W
  <2>1. \A s \in Seq(W) : s = [k \in 1 .. Len(s) |-> s[k]]
    OBVIOUS
  <2>2. a \o c = [k \in 1 .. Len(a \o c) |-> (a \o c)[k]]
    BY <1>7, <2>1
  <2> QED BY <2>2, <1>5
<1>9. Stk(m, p, refs, rs) = a \o c
  BY <1>1 DEF Stk
<1>10. PICK s : s = a \o c
  OBVIOUS
<1>11. s = [k \in 1 .. p + d |-> s[k]] /\ \A k \in 1 .. p + d : s[k] = IF k <= p THEN m[k - 1] ELSE Val(refs[k - p], rs)
  BY <1>5, <1>6, <1>8, <1>10
<1>12. IsFcn(s)
  BY <1>5, <1>10, <1>11 DEF IsFcn
<1> QED
  BY <1>5, <1>9, <1>10, <1>11, <1>12 DEF Joined

(* Loading adds the loaded words.                                          *)
LEMMA LoadingExtends ==
  ASSUME NEW op, NEW m, NEW p, NEW rs
  PROVE  /\ Extends(LoadedRegs(op, m, p, rs), rs, op.id)
         /\ \A k \in 0 .. op.stackLoad - 1 :
               /\ Val(In(op.id, k), LoadedRegs(op, m, p, rs)) = m[p - k - 1]
               /\ In(op.id, k) \in DOMAIN LoadedRegs(op, m, p, rs)
<1> DEFINE I == {In(op.id, k) : k \in 0 .. op.stackLoad - 1}
           f == [r \in I |-> m[p - r[3] - 1]]
<1>1. /\ LoadedRegs(op, m, p, rs) = [r \in I \cup DOMAIN rs |-> IF r \in I THEN f[r] ELSE rs[r]]
  <2>1. DOMAIN f = I
    OBVIOUS
  <2> QED BY <2>1 DEF LoadedRegs, Defining
<1>2. \A r \in I : r[2] = op.id
  BY DEF In
<1>3. \A k \in 0 .. op.stackLoad - 1 : In(op.id, k) \in I /\ f[In(op.id, k)] = m[p - k - 1]
  <2> TAKE k \in 0 .. op.stackLoad - 1
  <2>1. In(op.id, k) \in I /\ In(op.id, k)[3] = k
    BY DEF In
  <2> QED BY <2>1
<1>4. \A k : ~IsConst(In(op.id, k))
  BY DEF IsConst, In
<1> HIDE DEF I, f
<1>5. ASSUME NEW r, IsConst(r) \/ (r \in DOMAIN rs /\ r[2] # op.id)
      PROVE  /\ Val(r, LoadedRegs(op, m, p, rs)) = Val(r, rs)
             /\ IsConst(r) \/ r \in DOMAIN LoadedRegs(op, m, p, rs)
  <2>1. CASE IsConst(r)
    BY <2>1 DEF Val
  <2>2. CASE ~IsConst(r)
    <3>1. r \in DOMAIN rs /\ r \notin I
      BY <1>5, <2>2, <1>2
    <3> QED BY <3>1, <2>2, <1>1 DEF Val
  <2> QED BY <2>1, <2>2
<1>6. ASSUME NEW k \in 0 .. op.stackLoad - 1
      PROVE  /\ Val(In(op.id, k), LoadedRegs(op, m, p, rs)) = m[p - k - 1]
             /\ In(op.id, k) \in DOMAIN LoadedRegs(op, m, p, rs)
  BY <1>1, <1>3, <1>4 DEF Val
<1> QED
  BY <1>5, <1>6 DEF Extends

(* So does giving an opcode its results.                                   *)
LEMMA ResultsExtend ==
  ASSUME NEW rs2, NEW rs, NEW id, Extends(rs2, rs, id), NEW f,
         \A r \in DOMAIN f : r[2] = id /\ ~IsConst(r)
  PROVE  /\ Extends(Defining(f, rs2), rs, id)
         /\ \A r \in DOMAIN f : Val(r, Defining(f, rs2)) = f[r] /\ r \in DOMAIN Defining(f, rs2)
<1>1. Defining(f, rs2) = [r \in DOMAIN f \cup DOMAIN rs2 |-> IF r \in DOMAIN f THEN f[r] ELSE rs2[r]]
  BY DEF Defining
<1>2. PICK g : g = Defining(f, rs2)
  OBVIOUS
<1>3. ASSUME NEW r, IsConst(r) \/ (r \in DOMAIN rs /\ r[2] # id)
      PROVE  Val(r, g) = Val(r, rs) /\ (IsConst(r) \/ r \in DOMAIN g)
  <2>1. Val(r, rs2) = Val(r, rs) /\ (IsConst(r) \/ r \in DOMAIN rs2)
    BY <1>3 DEF Extends
  <2>2. CASE IsConst(r)
    BY <2>2 DEF Val
  <2>3. CASE ~IsConst(r)
    <3>1. r \notin DOMAIN f /\ r \in DOMAIN rs2
      BY <1>3, <2>1, <2>3
    <3> QED BY <3>1, <2>1, <2>3, <1>1, <1>2 DEF Val
  <2> QED BY <2>2, <2>3
<1>4. \A r \in DOMAIN f : Val(r, g) = f[r] /\ r \in DOMAIN g
  BY <1>1, <1>2 DEF Val
<1> QED
  BY <1>2, <1>3, <1>4 DEF Extends

(* A reference that is older than an opcode keeps its value.               *)
LEMMA OlderKeeps ==
  ASSUME NEW rs2, NEW rs, NEW id \in Nat, Extends(rs2, rs, id), NEW r, Held(r, rs),
         Older(r, id)
  PROVE  Held(r, rs2) /\ Val(r, rs2) = Val(r, rs)
<1>1. IsConst(r) \/ (r \in DOMAIN rs /\ r[2] # id)
  BY DEF Held, Older
<1> QED
  BY <1>1 DEF Extends, Held

(* Opcode op finds p words in m, has its cache in rs, and after it the     *)
(* cache is after.                                                         *)
Stands(op, after, m, p, rs) ==
    /\ op \in Opcode /\ Effect(op, after) /\ after \in Seq(Ref) /\ p \in Nat
    /\ Holds(op.cache, rs) /\ \A k \in DOMAIN op.cache : Older(op.cache[k], op.id)
    /\ op.stackLoad + op.stackAddLoad <= p
    /\ \A a \in 0 .. p - 1 : m[a] \in Words

LEMMA OpcodeNumbers ==
  ASSUME NEW op \in Opcode
  PROVE  /\ op.id \in Nat /\ op.in \in Nat /\ op.out \in Nat /\ op.arg \in Nat
         /\ op.stackLoad \in Nat /\ op.stackAddLoad \in Nat
         /\ op.cache \in Seq(Ref) /\ Deep(op) \in Nat /\ DOMAIN op.cache = 1 .. Deep(op)
         /\ Len(op.cache) = Deep(op)
<1>1. /\ op.id \in Nat /\ op.in \in Nat /\ op.out \in Nat /\ op.arg \in Nat
      /\ op.stackLoad \in Nat /\ op.stackAddLoad \in Nat /\ op.cache \in Seq(Ref)
  BY DEF Opcode
<1>2. \A S : \A s \in Seq(S) : Len(s) \in Nat /\ DOMAIN s = 1 .. Len(s)
  OBVIOUS
<1> QED
  BY <1>1, <1>2 DEF Deep

(* The operands are the words on top of the stack.                         *)
LEMMA ArgsOnTop ==
  ASSUME NEW op, NEW after, NEW m, NEW p, NEW rs, Stands(op, after, m, p, rs),
         NEW S, S = Stk(m, p, op.cache, rs), NEW d, d = Deep(op)
  PROVE  /\ d \in Nat /\ Len(S) = p + d /\ DOMAIN S = 1 .. p + d /\ S \in Seq(Words)
         /\ \A k \in 1 .. p + d : S[k] = IF k <= p THEN m[k - 1] ELSE Val(op.cache[k - p], rs)
         /\ op.in <= p + d
         /\ \A n \in 1 .. op.in :
              Val(op.stackRefs[n], LoadedRegs(op, m, p, rs)) = S[p + d + 1 - n]
<1>1. /\ op \in Opcode /\ Effect(op, after) /\ p \in Nat
      /\ \A k \in DOMAIN op.cache : Held(op.cache[k], rs) /\ Older(op.cache[k], op.id)
      /\ op.stackLoad + op.stackAddLoad <= p /\ \A a \in 0 .. p - 1 : m[a] \in Words
  BY DEF Stands, Holds
<1>2. PICK in, load, add : in = op.in /\ load = op.stackLoad /\ add = op.stackAddLoad
  OBVIOUS
<1>3. /\ op.id \in Nat /\ in \in Nat /\ load \in Nat /\ add \in Nat
      /\ d \in Nat /\ DOMAIN op.cache = 1 .. d /\ Len(op.cache) = d
  BY <1>1, <1>2, OpcodeNumbers
<1>3a. p \in Nat /\ d \in Nat /\ DOMAIN op.cache = 1 .. d
  BY <1>1, <1>3
<1>3n. /\ p \in Nat /\ d \in Nat /\ in \in Nat /\ load \in Nat /\ add \in Nat
  BY <1>1, <1>3
<1>4. /\ Len(S) = p + d /\ DOMAIN S = 1 .. p + d /\ IsFcn(S)
      /\ \A k \in 1 .. p + d : S[k] = IF k <= p THEN m[k - 1] ELSE Val(op.cache[k - p], rs)
  <2>1. Long(op.cache, d)
    BY <1>3a DEF Long
  <2>2. Joined(S, m, p, op.cache, d, rs)
    BY <2>1, <1>3a, StkIs
  <2> QED BY <2>2 DEF Joined
<1>5. \A k \in 1 .. p + d : S[k] \in Words
  <2> TAKE k \in 1 .. p + d
  <2>1. CASE k <= p
    <3>1. k - 1 \in 0 .. p - 1 /\ S[k] = m[k - 1]
      BY <2>1, <1>3n, <1>4
    <3> QED BY <3>1, <1>1
  <2>2. CASE ~(k <= p)
    <3>1. k - p \in 1 .. d /\ S[k] = Val(op.cache[k - p], rs)
      BY <2>2, <1>3n, <1>4
    <3>2. Held(op.cache[k - p], rs)
      BY <3>1, <1>1, <1>3
    <3> QED BY <3>1, <3>2 DEF Held
  <2> QED BY <2>1, <2>2
<1>6. S \in Seq(Words)
  <2>1. p + d \in Nat /\ S \in [1 .. p + d -> Words]
    BY <1>3n, <1>4, <1>5 DEF IsFcn
  <2> QED BY <2>1
<1>7. load = IF in > d THEN in - d ELSE 0
  BY <1>1, <1>2 DEF Effect
<1>8. load + add <= p
  BY <1>1, <1>2
<1>9. in <= p + d
  BY <1>3n, <1>7, <1>8
<1>10. ASSUME NEW n \in 1 .. in
       PROVE  Val(op.stackRefs[n], LoadedRegs(op, m, p, rs)) = S[p + d + 1 - n]
  <2>1. op.stackRefs[n] = ArgRef(op, n)
    BY <1>1, <1>2 DEF Effect
  <2>2. CASE n <= d
    <3>1. ArgRef(op, n) = op.cache[d + 1 - n] /\ d + 1 - n \in 1 .. d
      BY <2>2, <1>3 DEF ArgRef
    <3>2. Held(op.cache[d + 1 - n], rs) /\ Older(op.cache[d + 1 - n], op.id)
      BY <3>1, <1>1, <1>3
    <3>3. Val(op.cache[d + 1 - n], LoadedRegs(op, m, p, rs)) = Val(op.cache[d + 1 - n], rs)
      BY <3>2, <1>3, LoadingExtends, OlderKeeps
    <3>4. p + d + 1 - n \in 1 .. p + d /\ ~(p + d + 1 - n <= p) /\ p + d + 1 - n - p = d + 1 - n
      BY <3>1, <1>3n
    <3>5. S[p + d + 1 - n] = Val(op.cache[d + 1 - n], rs)
      <4>1. PICK c : c = p + d + 1 - n
        OBVIOUS
      <4>2. c \in 1 .. p + d /\ ~(c <= p) /\ c - p = d + 1 - n
        BY <4>1, <3>4, <3>1, <1>3n
      <4>3. S[c] = Val(op.cache[c - p], rs)
        BY ONLY <4>2, <1>4
      <4> QED BY ONLY <4>1, <4>2, <4>3
    <3> QED BY <2>1, <3>1, <3>3, <3>5
  <2>3. CASE ~(n <= d)
    <3>1. ArgRef(op, n) = In(op.id, n - d - 1)
      BY <2>3, <1>3 DEF ArgRef
    <3>2. n - d - 1 \in 0 .. load - 1
      BY <2>3, <1>3n, <1>7
    <3>3. Val(In(op.id, n - d - 1), LoadedRegs(op, m, p, rs)) = m[p - (n - d - 1) - 1]
      BY <3>2, <1>2, LoadingExtends
    <3>4. p + d + 1 - n \in 1 .. p + d /\ p + d + 1 - n <= p /\ (p + d + 1 - n) - 1 = p - (n - d - 1) - 1
      BY <2>3, <1>3n, <1>9
    <3>5. S[p + d + 1 - n] = m[(p + d + 1 - n) - 1]
      BY <3>4, <1>4
    <3> QED BY <2>1, <3>1, <3>3, <3>4, <3>5
  <2> QED BY <2>2, <2>3
<1> QED
  BY <1>2, <1>3, <1>4, <1>6, <1>9, <1>10

(* The stack behind an opcode: what it has left of the words in memory, of *)
(* the cache, and its results.                                             *)
Behind(T, m2, rs2, op, p, rs, q, rest) ==
    /\ DOMAIN T = 1 .. rest + op.out /\ IsFcn(T)
    /\ \A k \in 1 .. rest + op.out :
          T[k] = IF k <= q THEN m2[k - 1]
                 ELSE IF k <= rest THEN Val(LowRef(op, k - p), rs)
                 ELSE Val(NewRef(op, k - rest), rs2)
    /\ \A k \in q + 1 .. rest : q = p /\ k - p \in 1 .. Deep(op) - op.in

(* T is the stack behind op, with rest words that op leaves alone, q of    *)
(* them in memory.                                                         *)
Passing(op, after, m, p, rs, m2, rs2, d, q, rest, T) ==
    /\ Stands(op, after, m, p, rs) /\ Extends(rs2, rs, op.id)
    /\ d = Deep(op) /\ q = p - op.stackLoad /\ rest = p + d - op.in
    /\ T = Stk(m2, q, after, rs2)

LEMMA StkAfter ==
  ASSUME NEW op, NEW after, NEW m, NEW p, NEW rs, NEW rs2, NEW m2, NEW d, NEW q, NEW T, NEW rest,
         Passing(op, after, m, p, rs, m2, rs2, d, q, rest, T)
  PROVE  /\ q \in Nat /\ q <= p /\ rest \in Nat /\ q <= rest /\ rest <= p + d
         /\ op.stackLoad > 0 => q = rest
         /\ q + LowLen(op) = rest /\ LowLen(op) \in Nat
         /\ Long(after, LowLen(op) + op.out)
         /\ Behind(T, m2, rs2, op, p, rs, q, rest)
<1>0. /\ Stands(op, after, m, p, rs) /\ Extends(rs2, rs, op.id)
      /\ d = Deep(op) /\ q = p - op.stackLoad /\ rest = p + d - op.in
      /\ T = Stk(m2, q, after, rs2)
  BY DEF Passing
<1>1. /\ op \in Opcode /\ Effect(op, after) /\ p \in Nat
      /\ \A k \in DOMAIN op.cache : Held(op.cache[k], rs) /\ Older(op.cache[k], op.id)
      /\ op.stackLoad + op.stackAddLoad <= p
  BY <1>0 DEF Stands, Holds
<1>2. PICK in, load, add, out, low : /\ in = op.in /\ load = op.stackLoad /\ add = op.stackAddLoad
                                     /\ out = op.out /\ low = LowLen(op)
  OBVIOUS
<1>3. /\ op.id \in Nat /\ in \in Nat /\ load \in Nat /\ add \in Nat /\ out \in Nat /\ op.arg \in Nat
      /\ d \in Nat /\ DOMAIN op.cache = 1 .. d /\ Len(op.cache) = d
  BY <1>0, <1>1, <1>2, OpcodeNumbers
<1>3a. p \in Nat /\ d \in Nat /\ in \in Nat /\ load \in Nat /\ add \in Nat /\ out \in Nat
  BY <1>1, <1>3
<1>4. load = (IF in > d THEN in - d ELSE 0) /\ load + add <= p
  BY <1>0, <1>1, <1>2 DEF Effect
<1>5. low = IF in <= d THEN d - in ELSE 0
  BY <1>0, <1>2 DEF LowLen
<1>6. /\ q = p - load /\ rest = p + d - in /\ q \in Nat /\ q <= p /\ rest \in Nat /\ q <= rest
      /\ rest <= p + d /\ q + low = rest /\ low \in Nat /\ (load > 0 => q = rest)
  <2>1. q = p - load /\ rest = p + d - in
    BY <1>0, <1>2
  <2> QED BY <2>1, <1>3a, <1>4, <1>5
<1>7. /\ after = [k \in 1 .. low + out |-> IF k <= low THEN LowRef(op, k) ELSE NewRef(op, k - low)]
      /\ DOMAIN after = 1 .. low + out /\ low + out \in Nat
  <2>1. after = [k \in 1 .. low + out |-> IF k <= low THEN LowRef(op, k) ELSE NewRef(op, k - low)]
    BY <1>1, <1>2 DEF Effect, AfterRefs
  <2>2. low + out \in Nat
    BY <1>3a, <1>6
  <2> QED BY <2>1, <2>2
<1>8. /\ Len(T) = q + (low + out) /\ DOMAIN T = 1 .. q + (low + out)
      /\ IsFcn(T)
      /\ \A k \in 1 .. q + (low + out) :
           T[k] = IF k <= q THEN m2[k - 1] ELSE Val(after[k - q], rs2)
  <2>1. q \in Nat /\ low + out \in Nat /\ DOMAIN after = 1 .. low + out
    BY <1>6, <1>7
  <2>2. Long(after, low + out)
    BY <2>1 DEF Long
  <2>3. Joined(T, m2, q, after, low + out, rs2)
    BY <1>0, <2>1, <2>2, StkIs
  <2> QED BY <2>3 DEF Joined
<1>9. q + (low + out) = rest + out
  BY <1>3a, <1>6
<1>10. \A k \in q + 1 .. rest : q = p /\ k - p \in 1 .. d - in /\ k - q \in 1 .. low
  BY <1>3a, <1>4, <1>5, <1>6
<1>11. \A k \in 1 .. d - in : Held(LowRef(op, k), rs) /\ Older(LowRef(op, k), op.id)
  <2> TAKE k \in 1 .. d - in
  <2>1. k \in 1 .. d /\ (d > 0 => d \in 1 .. d)
    BY <1>3
  <2>2. d \in 1 .. d
    BY <2>1, <1>3
  <2>3. LowRef(op, k) = op.cache[d] \/ LowRef(op, k) = op.cache[k]
    BY <1>0 DEF LowRef
  <2> QED BY <2>1, <2>2, <2>3, <1>1, <1>3
<1>12. ASSUME NEW k \in 1 .. rest + out
       PROVE  T[k] = IF k <= q THEN m2[k - 1]
                     ELSE IF k <= rest THEN Val(LowRef(op, k - p), rs)
                     ELSE Val(NewRef(op, k - rest), rs2)
  <2>1. T[k] = IF k <= q THEN m2[k - 1] ELSE Val(after[k - q], rs2)
    BY <1>8, <1>9
  <2>2. CASE k <= q
    BY <2>1, <2>2
  <2>3. CASE ~(k <= q) /\ k <= rest
    <3>1. q = p /\ k - p \in 1 .. d - in /\ k - q \in 1 .. low
      BY <2>3, <1>6, <1>10
    <3>2. after[k - q] = LowRef(op, k - p)
      <4>1. k - q \in 1 .. low + out /\ k - q <= low /\ k - q = k - p
        BY <3>1, <1>6, <1>3a
      <4> QED BY <4>1, <1>7
    <3>3. Val(LowRef(op, k - p), rs2) = Val(LowRef(op, k - p), rs)
      BY <3>1, <1>0, <1>11, <1>3, OlderKeeps
    <3> QED BY <2>1, <2>3, <3>2, <3>3
  <2>4. CASE ~(k <= q) /\ ~(k <= rest)
    <3>1. k - q \in 1 .. low + out /\ ~(k - q <= low) /\ k - q - low = k - rest
      BY <2>4, <1>3a, <1>6
    <3>2. after[k - q] = NewRef(op, k - rest)
      BY <3>1, <1>7
    <3> QED BY <2>1, <2>4, <3>2
  <2> QED BY <2>2, <2>3, <2>4
<1>13. Behind(T, m2, rs2, op, p, rs, q, rest)
  BY <1>0, <1>2, <1>8, <1>9, <1>10, <1>12 DEF Behind
<1> QED
  BY <1>2, <1>6, <1>7, <1>13 DEF Long

-----------------------------------------------------------------------------
(* A sequence that is another one up to rest and goes on with out.         *)
Tailed(T, S, rest, o, out) ==
    /\ IsFcn(T) /\ DOMAIN T = 1 .. rest + o /\ Len(out) = o
    /\ \A k \in 1 .. rest : T[k] = S[k]
    /\ \A k \in 1 .. o : T[rest + k] = out[k]

LEMMA TailIs ==
  ASSUME NEW W, NEW S \in Seq(W), NEW rest \in Nat, rest <= Len(S), NEW o \in Nat,
         NEW out \in Seq(W), NEW T, Tailed(T, S, rest, o, out)
  PROVE  /\ T = SubSeq(S, 1, rest) \o out /\ T \in Seq(W)
         /\ o = 0 => T = SubSeq(S, 1, rest)
         /\ o = 1 => T = Append(SubSeq(S, 1, rest), out[1])
         /\ rest = Len(S) => /\ o = 0 => T = S
                             /\ o = 1 => T = Append(S, out[1])
<1>0. PICK B, A : B = SubSeq(S, 1, rest) /\ A = B \o out
  OBVIOUS
<1>1. B \in Seq(W) /\ Len(B) = rest /\ \A k \in 1 .. rest : B[k] = S[k]
  BY <1>0
<1>2. IsFcn(T) /\ DOMAIN T = 1 .. rest + o
  BY DEF Tailed
<1>2a. /\ \A k \in 1 .. rest : T[k] = S[k]
       /\ \A k \in 1 .. o : T[rest + k] = out[k]
  BY DEF Tailed
<1>2b. Len(out) = o
  BY DEF Tailed
<1>3. /\ A \in Seq(W) /\ Len(A) = rest + o
      /\ \A k \in 1 .. rest + o : A[k] = IF k <= rest THEN B[k] ELSE out[k - rest]
  <2>1. A = B \o out
    BY <1>0
  <2> QED BY <1>1, <1>2b, <2>1, ConcatProperties
<1>4. \A k \in 1 .. rest + o : A[k] = T[k]
  <2> TAKE k \in 1 .. rest + o
  <2>1. CASE k <= rest
    <3>1. k \in 1 .. rest /\ A[k] = B[k]
      BY <2>1, <1>3
    <3> QED BY <3>1, <1>1, <1>2a
  <2>2. CASE ~(k <= rest)
    <3>1. PICK n \in 1 .. o : n = k - rest
      BY <2>2
    <3>2. A[k] = out[n]
      BY <2>2, <3>1, <1>3
    <3>3. k = rest + n
      BY <3>1
    <3> QED BY <1>2a, <3>2, <3>3
  <2> QED BY <2>1, <2>2
<1>5. /\ \A k \in 1 .. rest + o : A[k] \in W
      /\ IsFcn(A) /\ DOMAIN A = 1 .. rest + o
  BY <1>3 DEF IsFcn
<1>6. A = T
  BY <1>2, <1>4, <1>5 DEF IsFcn
<1>7. o = 0 => A = B
  <2> SUFFICES ASSUME o = 0
               PROVE  A = B
    OBVIOUS
  <2>1. Len(A) = Len(B) /\ \A k \in 1 .. Len(A) : A[k] = B[k]
    BY <1>1, <1>3
  <2> QED BY <2>1, <1>1, <1>3, SeqEqual
<1>8. o = 1 => A = Append(B, out[1])
  <2> SUFFICES ASSUME o = 1
               PROVE  A = Append(B, out[1])
    OBVIOUS
  <2>1. out[1] \in W
    BY <1>2b, ElementOfSeq
  <2>2. /\ Append(B, out[1]) \in Seq(W) /\ Len(Append(B, out[1])) = rest + 1
        /\ \A k \in 1 .. rest : Append(B, out[1])[k] = B[k]
        /\ Append(B, out[1])[rest + 1] = out[1]
    BY <1>1, <2>1, AppendProperties
  <2>3. Len(A) = Len(Append(B, out[1])) /\ \A k \in 1 .. Len(A) : A[k] = Append(B, out[1])[k]
    BY <2>2, <1>3
  <2> QED BY <2>2, <2>3, <1>3, SeqEqual
<1>9. rest = Len(S) => B = S
  BY <1>0
<1> QED
  BY <1>0, <1>3, <1>6, <1>7, <1>8, <1>9

(* Behind an opcode that lifts no operand, the stack is what it was up to  *)
(* the operands, and then the results.                                     *)
Plain(op, after, m, p, rs, m2, rs2, S, T, out) ==
    /\ Stands(op, after, m, p, rs) /\ Extends(rs2, rs, op.id)
    /\ \A a \in 0 .. p - 1 : m2[a] = m[a]
    /\ ~Lifted(op)
    /\ S = Stk(m, p, op.cache, rs) /\ T = Stk(m2, p - op.stackLoad, after, rs2)
    /\ out \in Seq(Words) /\ Len(out) = op.out
    /\ \A k \in 1 .. op.out : Val(NewRef(op, k), rs2) = out[k]

(* S loses what op takes and gains out.                                    *)
Outcome(op, S, T, out) ==
    /\ S \in Seq(Words) /\ op.in <= Len(S)
    /\ T = SubSeq(S, 1, Len(S) - op.in) \o out /\ T \in Seq(Words)
    /\ op.out = 0 => T = SubSeq(S, 1, Len(S) - op.in)
    /\ op.out = 1 => T = Append(SubSeq(S, 1, Len(S) - op.in), out[1])
    /\ op.in = 0 => /\ op.out = 0 => T = S
                    /\ op.out = 1 => T = Append(S, out[1])

LEMMA StkRest ==
  ASSUME NEW op, NEW after, NEW m, NEW p, NEW rs, NEW m2, NEW rs2, NEW S, NEW T, NEW out,
         Plain(op, after, m, p, rs, m2, rs2, S, T, out)
  PROVE  Outcome(op, S, T, out) /\ Len(S) = p + Deep(op)
<1>p. /\ Stands(op, after, m, p, rs) /\ Extends(rs2, rs, op.id)
      /\ \A a \in 0 .. p - 1 : m2[a] = m[a]
      /\ ~Lifted(op)
      /\ S = Stk(m, p, op.cache, rs) /\ T = Stk(m2, p - op.stackLoad, after, rs2)
      /\ out \in Seq(Words) /\ Len(out) = op.out
      /\ \A k \in 1 .. op.out : Val(NewRef(op, k), rs2) = out[k]
  BY DEF Plain
<1> USE <1>p
<1>0. PICK d, q, rest, o, in : /\ d = Deep(op) /\ q = p - op.stackLoad /\ rest = p + d - op.in
                               /\ o = op.out /\ in = op.in
  OBVIOUS
<1>1. /\ d \in Nat /\ Len(S) = p + d /\ DOMAIN S = 1 .. p + d /\ S \in Seq(Words)
      /\ \A k \in 1 .. p + d : S[k] = IF k <= p THEN m[k - 1] ELSE Val(op.cache[k - p], rs)
      /\ in <= p + d
  BY <1>0, ArgsOnTop
<1>2. /\ q \in Nat /\ q <= p /\ rest \in Nat /\ q <= rest /\ rest <= p + d
      /\ Behind(T, m2, rs2, op, p, rs, q, rest)
  <2>1. T = Stk(m2, q, after, rs2) /\ q = p - op.stackLoad /\ rest = p + d - op.in /\ d = Deep(op)
    BY <1>0
  <2>2. Stands(op, after, m, p, rs) /\ Extends(rs2, rs, op.id)
    OBVIOUS
  <2>3. Passing(op, after, m, p, rs, m2, rs2, d, q, rest, T)
    BY <2>1, <2>2 DEF Passing
  <2> QED BY <2>3, StkAfter
<1>3. o \in Nat /\ in \in Nat /\ p \in Nat
  BY <1>0, OpcodeNumbers DEF Stands
<1>4. /\ \A k \in 1 .. rest + o : T[k] = IF k <= q THEN m2[k - 1]
                    ELSE IF k <= rest THEN Val(LowRef(op, k - p), rs)
                    ELSE Val(NewRef(op, k - rest), rs2)
      /\ \A k \in q + 1 .. rest : q = p
  BY <1>0, <1>2 DEF Behind
<1>4d. DOMAIN T = 1 .. rest + o /\ IsFcn(T)
  BY <1>0, <1>2 DEF Behind
<1>5. ASSUME NEW k \in 1 .. rest
      PROVE  T[k] = S[k]
  <2>0. k \in 1 .. rest + o /\ k \in 1 .. p + d /\ k <= rest
    BY <1>1, <1>2, <1>3
  <2>1. CASE k <= q
    <3>1. k <= p /\ k - 1 \in 0 .. p - 1
      BY <2>0, <2>1, <1>2, <1>3
    <3> QED BY <2>0, <2>1, <3>1, <1>1, <1>4
  <2>2. CASE ~(k <= q)
    <3>1. q = p /\ ~(k <= p)
      <4>1. k \in q + 1 .. rest
        BY <2>2, <1>2
      <4>2. q = p
        BY <4>1, <1>4
      <4> QED BY <4>2, <2>2
    <3>2. T[k] = Val(LowRef(op, k - p), rs)
      BY <2>0, <2>2, <1>4
    <3>3. LowRef(op, k - p) = op.cache[k - p]
      BY DEF LowRef
    <3> QED BY <2>0, <3>1, <3>2, <3>3, <1>1
  <2> QED BY <2>1, <2>2
<1>6. ASSUME NEW k \in 1 .. o
      PROVE  T[rest + k] = out[k]
  <2>1. PICK n : n = rest + k
    OBVIOUS
  <2>2. n \in 1 .. rest + o /\ ~(n <= q) /\ ~(n <= rest) /\ n - rest = k
    BY <2>1, <1>2, <1>3
  <2>3. T[n] = Val(NewRef(op, n - rest), rs2)
    BY <2>2, <1>4
  <2> QED BY <2>1, <2>2, <2>3, <1>0
<1>7. rest <= Len(S) /\ Len(out) = o
  BY <1>0, <1>1, <1>2
<1>8. /\ T = SubSeq(S, 1, rest) \o out /\ T \in Seq(Words)
      /\ o = 0 => T = SubSeq(S, 1, rest)
      /\ o = 1 => T = Append(SubSeq(S, 1, rest), out[1])
      /\ rest = Len(S) => /\ o = 0 => T = S
                          /\ o = 1 => T = Append(S, out[1])
  <2>1. Tailed(T, S, rest, o, out)
    BY <1>4d, <1>5, <1>6, <1>7 DEF Tailed
  <2>2. rest \in Nat /\ S \in Seq(Words) /\ rest <= Len(S) /\ o \in Nat
    BY <1>1, <1>2, <1>3, <1>7
  <2>3. out \in Seq(Words)
    OBVIOUS
  <2> HIDE <1>p
  <2> QED BY ONLY <2>1, <2>2, <2>3, TailIs
<1>9. /\ rest = Len(S) - in /\ (in = 0 => rest = Len(S)) /\ in <= Len(S)
  <2>1. rest = p + d - in /\ Len(S) = p + d
    BY <1>0, <1>1
  <2> QED BY <2>1, <1>1, <1>3
<1> QED
  BY <1>0, <1>1, <1>8, <1>9 DEF Outcome

-----------------------------------------------------------------------------
(* What each kind of opcode does to the stack.                             *)

(* The registers behind opcode op, with results f.                         *)
Resulting(f, op, m, p, rs) == Defining(f, LoadedRegs(op, m, p, rs))

LEMMA ResultingExtends ==
  ASSUME NEW op, NEW m, NEW p, NEW rs, NEW f, \A r \in DOMAIN f : r[2] = op.id /\ ~IsConst(r)
  PROVE  /\ Extends(Resulting(f, op, m, p, rs), rs, op.id)
         /\ \A r \in DOMAIN f : /\ Val(r, Resulting(f, op, m, p, rs)) = f[r]
                                /\ r \in DOMAIN Resulting(f, op, m, p, rs)
  BY LoadingExtends, ResultsExtend DEF Resulting

LEMMA NothingExtends ==
  ASSUME NEW op, NEW m, NEW p, NEW rs
  PROVE  Extends(Resulting(<<>>, op, m, p, rs), rs, op.id) /\ Extends(rs, rs, op.id)
<1>1. \A r \in DOMAIN <<>> : r[2] = op.id /\ ~IsConst(r)
  OBVIOUS
<1>2. Extends(rs, rs, op.id)
  BY DEF Extends
<1> QED  BY <1>1, <1>2, ResultingExtends

OneResult(id, w) == [r \in {Res(id, 0)} |-> w]

LEMMA ResultExtends ==
  ASSUME NEW op, NEW m, NEW p, NEW rs, NEW w
  PROVE  /\ Extends(Resulting(OneResult(op.id, w), op, m, p, rs), rs, op.id)
         /\ Val(Res(op.id, 0), Resulting(OneResult(op.id, w), op, m, p, rs)) = w
         /\ Res(op.id, 0) \in DOMAIN Resulting(OneResult(op.id, w), op, m, p, rs)
<1> DEFINE f == OneResult(op.id, w)
<1>1. \A r \in DOMAIN f : r[2] = op.id /\ ~IsConst(r)
  BY DEF Res, IsConst, OneResult
<1>2. Res(op.id, 0) \in DOMAIN f /\ f[Res(op.id, 0)] = w
  BY DEF OneResult
<1> HIDE DEF f
<1>3. /\ Extends(Resulting(f, op, m, p, rs), rs, op.id)
      /\ Val(Res(op.id, 0), Resulting(f, op, m, p, rs)) = w
      /\ Res(op.id, 0) \in DOMAIN Resulting(f, op, m, p, rs)
  BY <1>1, <1>2, ResultingExtends
<1> QED  BY <1>3 DEF f

(* The cache behind an opcode has its values if the results have theirs.   *)
LEMMA AfterHolds ==
  ASSUME NEW op, NEW after, NEW m, NEW p, NEW rs, NEW rs2, Stands(op, after, m, p, rs),
         Extends(rs2, rs, op.id), \A k \in 1 .. op.out : Held(NewRef(op, k), rs2)
  PROVE  Holds(after, rs2)
<1>0. PICK d, q, rest, T, in, out, low :
          /\ d = Deep(op) /\ q = p - op.stackLoad /\ rest = p + d - op.in
          /\ T = Stk(m, q, after, rs2) /\ in = op.in /\ out = op.out /\ low = LowLen(op)
  OBVIOUS
<1>1. Passing(op, after, m, p, rs, m, rs2, d, q, rest, T)
  BY <1>0 DEF Passing
<1>2. q + low = rest /\ low \in Nat /\ Long(after, low + out) /\ q \in Nat /\ rest \in Nat
  BY <1>0, <1>1, StkAfter
<1>3. /\ op \in Opcode /\ Effect(op, after)
      /\ \A k \in DOMAIN op.cache : Held(op.cache[k], rs) /\ Older(op.cache[k], op.id)
  BY DEF Stands, Holds
<1>4. d \in Nat /\ DOMAIN op.cache = 1 .. d /\ op.id \in Nat /\ in \in Nat /\ out \in Nat
  BY <1>0, <1>3, OpcodeNumbers
<1>5. after = [k \in 1 .. low + out |-> IF k <= low THEN LowRef(op, k) ELSE NewRef(op, k - low)]
  BY <1>0, <1>3 DEF Effect, AfterRefs
<1>6. low = IF in <= d THEN d - in ELSE 0
  BY <1>0 DEF LowLen
<1>6n. in \in Nat /\ out \in Nat /\ d \in Nat /\ low \in Nat
  BY <1>2, <1>4
<1>7. ASSUME NEW k \in 1 .. low + out
      PROVE  Held(after[k], rs2)
  <2>1. CASE k <= low
    <3>1. k \in 1 .. d /\ d \in 1 .. d
      BY <2>1, <1>6, <1>6n
    <3>2. LowRef(op, k) = op.cache[d] \/ LowRef(op, k) = op.cache[k]
      BY <1>0 DEF LowRef
    <3>3. Held(LowRef(op, k), rs) /\ Older(LowRef(op, k), op.id)
      BY <3>1, <3>2, <1>3, <1>4
    <3>4. Held(LowRef(op, k), rs2)
      BY <3>3, <1>4, OlderKeeps
    <3> QED BY <3>4, <2>1, <1>5
  <2>2. CASE ~(k <= low)
    <3>1. PICK n : n = k - low
      OBVIOUS
    <3>2. n \in 1 .. out
      BY <2>2, <3>1, <1>6n
    <3>3. Held(NewRef(op, n), rs2)
      BY <3>2, <1>0
    <3> QED BY <3>1, <3>3, <2>2, <1>5
  <2> QED BY <2>1, <2>2
<1>8. DOMAIN after = 1 .. low + out
  BY <1>2 DEF Long
<1> QED
  BY <1>7, <1>8 DEF Holds

(* Behind op, which lifts no operand, the registers rs2 have its results.  *)
Gives(op, after, m, p, rs, rs2, out) ==
    /\ Stands(op, after, m, p, rs) /\ Extends(rs2, rs, op.id) /\ ~Lifted(op)
    /\ out \in Seq(Words) /\ Len(out) = op.out
    /\ \A k \in 1 .. op.out : Held(NewRef(op, k), rs2) /\ Val(NewRef(op, k), rs2) = out[k]

LEMMA GivesStk ==
  ASSUME NEW op, NEW after, NEW m, NEW p, NEW rs, NEW rs2, NEW out,
         Gives(op, after, m, p, rs, rs2, out),
         NEW S, S = Stk(m, p, op.cache, rs), NEW T, T = Stk(m, p - op.stackLoad, after, rs2)
  PROVE  Holds(after, rs2) /\ Outcome(op, S, T, out)
<1>1. Plain(op, after, m, p, rs, m, rs2, S, T, out)
  BY DEF Gives, Plain
<1>2. Holds(after, rs2)
  BY AfterHolds DEF Gives
<1> QED
  BY ONLY <1>1, <1>2, StkRest

(* PUSHn and PC.                                                           *)
LEMMA ConstGives ==
  ASSUME NEW op, NEW after, NEW m, NEW p, NEW rs, Stands(op, after, m, p, rs),
         NEW rs2, Extends(rs2, rs, op.id), NEW v \in Words,
         op.out = 1, ~Lifted(op), NewRef(op, 1) = Const(v)
  PROVE  Gives(op, after, m, p, rs, rs2, <<v>>)
<1>1. Held(Const(v), rs2) /\ Val(Const(v), rs2) = v
  BY DEF Held, Val, Const, IsConst
<1>2. \A k \in 1 .. op.out : k = 1
  OBVIOUS
<1>3. PICK out : out = <<v>>
  OBVIOUS
<1>4. out \in Seq(Words) /\ Len(out) = op.out /\ out[1] = v
  BY <1>3
<1>5. \A k \in 1 .. op.out : Held(NewRef(op, k), rs2) /\ Val(NewRef(op, k), rs2) = out[k]
  BY <1>1, <1>2, <1>4
<1> QED
  BY <1>3, <1>4, <1>5 DEF Gives

(* POP, JUMPDEST and the jumps.                                            *)
LEMMA NothingGives ==
  ASSUME NEW op, NEW after, NEW m, NEW p, NEW rs, Stands(op, after, m, p, rs),
         NEW rs2, Extends(rs2, rs, op.id), op.out = 0, ~Lifted(op)
  PROVE  Gives(op, after, m, p, rs, rs2, <<>>)
<1>1. <<>> \in Seq(Words) /\ Len(<<>>) = 0
  OBVIOUS
<1>2. \A k \in 1 .. op.out : FALSE
  OBVIOUS
<1> QED
  BY <1>1, <1>2 DEF Gives

(* Opcodes whose results are registers of their own.                       *)
LEMMA ResultsGive ==
  ASSUME NEW op, NEW after, NEW m, NEW p, NEW rs, Stands(op, after, m, p, rs),
         NEW rs2, Extends(rs2, rs, op.id), NEW out \in Seq(Words), Len(out) = op.out,
         op.name \notin {"push", "pc", "dup", "swap"}, ~op.isUnnecessary,
         \A k \in 1 .. op.out : /\ Res(op.id, k - 1) \in DOMAIN rs2
                                /\ Val(Res(op.id, k - 1), rs2) = out[k]
  PROVE  Gives(op, after, m, p, rs, rs2, out)
<1>1. ~Lifted(op) /\ \A k : NewRef(op, k) = Res(op.id, k - 1)
  BY DEF Lifted, NewRef
<1>2. \A k \in 1 .. op.out : out[k] \in Words
  BY ElementOfSeq
<1>3. \A k \in 1 .. op.out : Held(NewRef(op, k), rs2) /\ Val(NewRef(op, k), rs2) = out[k]
  BY <1>1, <1>2 DEF Held
<1> QED
  BY <1>1, <1>3 DEF Gives

(* DUPn.                                                                   *)
LEMMA DupGives ==
  ASSUME NEW op, NEW after, NEW m, NEW p, NEW rs, Stands(op, after, m, p, rs),
         op.name = "dup", NEW S, S = Stk(m, p, op.cache, rs),
         NEW low, low = p - op.stackLoad - op.stackAddLoad,
         NEW rs2, rs2 = IF op.stackAddLoad > 0
                        THEN Resulting(OneResult(op.id, m[low]), op, m, p, rs)
                        ELSE Resulting(<<>>, op, m, p, rs),
         ~op.isUnnecessary, op.arg <= Len(S)
  PROVE  Gives(op, after, m, p, rs, rs2, <<S[Len(S) + 1 - op.arg]>>)
<1>1. /\ op \in Opcode /\ Effect(op, after) /\ p \in Nat
      /\ \A k \in DOMAIN op.cache : Held(op.cache[k], rs) /\ Older(op.cache[k], op.id)
      /\ op.stackLoad + op.stackAddLoad <= p
      /\ \A a \in 0 .. p - 1 : m[a] \in Words
  BY DEF Stands, Holds
<1>2. PICK d, load, add, arg, L : /\ d = Deep(op) /\ load = op.stackLoad /\ arg = op.arg
                                  /\ add = op.stackAddLoad /\ L = Len(S)
  OBVIOUS
<1>3. /\ L = p + d /\ S \in Seq(Words) /\ d \in Nat
      /\ \A k \in 1 .. p + d : S[k] = IF k <= p THEN m[k - 1] ELSE Val(op.cache[k - p], rs)
  BY <1>2, ArgsOnTop
<1>4. /\ op.in = 0 /\ op.out = 1 /\ arg \in 1 .. 16 /\ add = Beyond(op)
      /\ load = IF op.in > d THEN op.in - d ELSE 0
  BY <1>1, <1>2 DEF Effect
<1>5. load = 0 /\ add = IF arg > d THEN arg - d ELSE 0
  BY <1>2, <1>3, <1>4 DEF Beyond
<1>6. op.id \in Nat /\ DOMAIN op.cache = 1 .. d
  BY <1>1, <1>2, OpcodeNumbers
<1>n. p \in Nat /\ d \in Nat /\ arg \in 1 .. 16 /\ L = p + d /\ arg <= L /\ low = p - load - add
  BY <1>1, <1>2, <1>3, <1>4
<1>r. rs2 = IF add > 0 THEN Resulting(OneResult(op.id, m[low]), op, m, p, rs)
            ELSE Resulting(<<>>, op, m, p, rs)
  BY <1>2
<1>7. PICK pos : pos = L + 1 - arg
  OBVIOUS
<1>8. pos \in 1 .. p + d
  BY <1>7, <1>n
<1>9. S[pos] \in Words
  <2>1. pos \in 1 .. Len(S)
    BY <1>2, <1>8, <1>n
  <2> QED BY <2>1, <1>3, ElementOfSeq
<1>10. /\ Extends(rs2, rs, op.id) /\ ~Lifted(op)
       /\ Held(NewRef(op, 1), rs2) /\ Val(NewRef(op, 1), rs2) = S[pos]
  <2>0. ~Lifted(op)
    BY DEF Lifted
  <2>1. CASE arg <= d
    <3>1. rs2 = Resulting(<<>>, op, m, p, rs)
      <4>1. ~(add > 0)
        BY <2>1, <1>5, <1>n
      <4> QED BY <4>1, <1>r
    <3>2. Extends(rs2, rs, op.id)
      BY <3>1, NothingExtends
    <3>3. PICK c : c = d + 1 - arg
      OBVIOUS
    <3>4. c \in 1 .. d /\ pos - p = c /\ ~(pos <= p)
      BY <3>3, <2>1, <1>7, <1>n
    <3>5. NewRef(op, 1) = op.cache[c]
      BY <3>3, <2>1, <1>2 DEF NewRef
    <3>6. S[pos] = Val(op.cache[c], rs)
      BY <3>4, <1>3, <1>8
    <3>7. Held(op.cache[c], rs2) /\ Val(op.cache[c], rs2) = Val(op.cache[c], rs)
      BY <3>2, <3>4, <1>1, <1>6, OlderKeeps
    <3> QED BY <2>0, <3>2, <3>5, <3>6, <3>7
  <2>2. CASE ~(arg <= d)
    <3>1. add > 0
      BY <2>2, <1>5, <1>n
    <3>2. rs2 = Resulting(OneResult(op.id, m[low]), op, m, p, rs)
      BY <3>1, <1>r
    <3>3. /\ Extends(rs2, rs, op.id)
          /\ Val(Res(op.id, 0), rs2) = m[low] /\ Res(op.id, 0) \in DOMAIN rs2
      <4>1. PICK w : w = m[low]
        OBVIOUS
      <4>2. rs2 = Resulting(OneResult(op.id, w), op, m, p, rs)
        BY <4>1, <3>2
      <4>3. Extends(rs2, rs, op.id) /\ Val(Res(op.id, 0), rs2) = w /\ Res(op.id, 0) \in DOMAIN rs2
        BY ONLY <4>2, ResultExtends
      <4> QED BY <4>1, <4>3
    <3>4. pos <= p /\ low = pos - 1
      BY <2>2, <1>5, <1>7, <1>n
    <3>5. S[pos] = m[low]
      BY <3>4, <1>3, <1>8
    <3>6. NewRef(op, 1) = Res(op.id, 1 - 1)
      BY <2>2, <1>2, <2>0 DEF NewRef
    <3>7. NewRef(op, 1) = Res(op.id, 0)
      BY <3>6
    <3> QED BY <2>0, <3>3, <3>5, <3>7, <1>9 DEF Held
  <2> QED BY <2>1, <2>2
<1>11. PICK out : out = <<S[pos]>>
  OBVIOUS
<1>12. out \in Seq(Words) /\ Len(out) = op.out /\ out[1] = S[pos]
  BY <1>4, <1>9, <1>11
<1>13. \A k \in 1 .. op.out : Held(NewRef(op, k), rs2) /\ Val(NewRef(op, k), rs2) = out[k]
  BY <1>4, <1>10, <1>12
<1> QED
  BY <1>2, <1>7, <1>10, <1>11, <1>12, <1>13 DEF Gives

(* A folded opcode: its result is the constant the builder computed.       *)
LEMMA FoldGives ==
  ASSUME NEW op, NEW after, NEW m, NEW p, NEW rs, Stands(op, after, m, p, rs),
         op.isUnnecessary, op.name \notin {"push", "pc", "dup", "swap"}, op.out = 1,
         NEW S, S = Stk(m, p, op.cache, rs),
         NEW args, args = [n \in 1 .. op.in |-> S[Len(S) + 1 - n]],
         NEW v, v = Fold(op.name, args), v \in Words
  PROVE  op.stackLoad = 0 /\ Gives(op, after, m, p, rs, rs, <<v>>)
<1>1. /\ op \in Opcode /\ Effect(op, after)
  BY DEF Stands
<1>2. PICK d, in, load, L : d = Deep(op) /\ in = op.in /\ load = op.stackLoad /\ L = Len(S)
  OBVIOUS
<1>3. /\ \A n \in 1 .. in : IsConst(op.stackRefs[n])
      /\ \A n \in 1 .. in : op.stackRefs[n] = ArgRef(op, n)
      /\ load = IF in > d THEN in - d ELSE 0
  BY <1>1, <1>2 DEF Effect
<1>4. in \in Nat /\ d \in Nat /\ op.id \in Nat
  BY <1>1, <1>2, OpcodeNumbers
<1>5. load = 0
  <2> SUFFICES ASSUME in > d
               PROVE  FALSE
    BY <1>3
  <2>1. in \in 1 .. in /\ ~(in <= d)
    BY <1>4
  <2>2. ArgRef(op, in) = In(op.id, in - d - 1)
    BY <2>1, <1>2 DEF ArgRef
  <2> QED BY <2>1, <2>2, <1>3 DEF In, IsConst
<1>6. /\ L = p + d
      /\ \A n \in 1 .. in : Val(op.stackRefs[n], LoadedRegs(op, m, p, rs)) = S[p + d + 1 - n]
  BY <1>2, ArgsOnTop
<1>7. \A n \in 1 .. in : op.stackRefs[n][2] = S[L + 1 - n]
  BY <1>3, <1>6 DEF Val
<1>8. [n \in 1 .. op.in |-> op.stackRefs[n][2]] = args
  BY <1>2, <1>7
<1>9. NewRef(op, 1) = Const(v) /\ ~Lifted(op)
  BY <1>8 DEF NewRef, Lifted
<1>10. Extends(rs, rs, op.id)
  BY NothingExtends
<1> QED
  BY <1>2, <1>5, <1>9, <1>10, ConstGives

(* SWAPn.                                                                  *)
Swapped(S, n) == [S EXCEPT ![Len(S)] = S[Len(S) - n], ![Len(S) - n] = S[Len(S)]]

LEMMA SwappedIs ==
  ASSUME NEW S \in Seq(Words), NEW n \in Nat \ {0}, n < Len(S), NEW T, IsFcn(T),
         NEW L, L = Len(S), Long(T, L),
         \A k \in 1 .. L : T[k] = IF k = L THEN S[L - n] ELSE IF k = L - n THEN S[L] ELSE S[k]
  PROVE  T = Swapped(S, n)
<1>1. L \in Nat /\ DOMAIN S = 1 .. L /\ L \in 1 .. L /\ L - n \in 1 .. L /\ L - n # L
  OBVIOUS
<1>2. PICK X : X = [S EXCEPT ![L] = S[L - n], ![L - n] = S[L]]
  OBVIOUS
<1>3. DOMAIN X = 1 .. L /\ IsFcn(X)
  BY <1>1, <1>2 DEF IsFcn
<1>4. \A k \in 1 .. L : X[k] = IF k = L THEN S[L - n] ELSE IF k = L - n THEN S[L] ELSE S[k]
  BY <1>1, <1>2
<1>5. X = T
  <2>1. \A k \in 1 .. L : X[k] = T[k]
    BY <1>4
  <2>2. DOMAIN T = 1 .. L
    BY DEF Long
  <2>3. \A A, B : IsFcn(A) /\ IsFcn(B) /\ DOMAIN A = DOMAIN B /\ (\A k \in DOMAIN A : A[k] = B[k])
                    => A = B
    BY DEF IsFcn
  <2> QED BY <2>1, <2>2, <2>3, <1>3
<1> QED
  BY <1>2, <1>5 DEF Swapped

Swapping(op, after, m, p, rs, m2, rs2, low) ==
    /\ Stands(op, after, m, p, rs) /\ op.name = "swap" /\ ~op.isUnnecessary
    /\ low = p - op.stackLoad - op.stackAddLoad
    /\ rs2 = IF op.stackAddLoad > 0 THEN Resulting(OneResult(op.id, m[low]), op, m, p, rs)
             ELSE Resulting(<<>>, op, m, p, rs)
    /\ \A a \in 0 .. p - 1 :
          m2[a] = IF op.stackAddLoad > 0 /\ a = low
                  THEN Val(op.stackRefs[1], LoadedRegs(op, m, p, rs)) ELSE m[a]

LEMMA SwapStk ==
  ASSUME NEW op, NEW after, NEW m, NEW p, NEW rs, NEW m2, NEW rs2, NEW low,
         Swapping(op, after, m, p, rs, m2, rs2, low),
         NEW S, S = Stk(m, p, op.cache, rs), op.arg < Len(S)
  PROVE  /\ Holds(after, rs2) /\ S \in Seq(Words)
         /\ Stk(m2, p - op.stackLoad, after, rs2) = Swapped(S, op.arg)
<1>1. /\ Stands(op, after, m, p, rs) /\ op.name = "swap" /\ ~op.isUnnecessary
      /\ op \in Opcode /\ Effect(op, after) /\ p \in Nat
      /\ \A k \in DOMAIN op.cache : Held(op.cache[k], rs) /\ Older(op.cache[k], op.id)
      /\ \A a \in 0 .. p - 1 : m[a] \in Words
  BY DEF Swapping, Stands, Holds
<1>2. PICK d, load, add, arg, L, q, rest, T, top :
          /\ d = Deep(op) /\ load = op.stackLoad /\ arg = op.arg /\ add = op.stackAddLoad
          /\ L = Len(S) /\ q = p - op.stackLoad /\ rest = p + d - op.in
          /\ T = Stk(m2, q, after, rs2) /\ top = Val(op.stackRefs[1], LoadedRegs(op, m, p, rs))
  OBVIOUS
<1>3. /\ L = p + d /\ S \in Seq(Words) /\ d \in Nat /\ op.in <= p + d
      /\ \A k \in 1 .. p + d : S[k] = IF k <= p THEN m[k - 1] ELSE Val(op.cache[k - p], rs)
      /\ \A n \in 1 .. op.in :
              Val(op.stackRefs[n], LoadedRegs(op, m, p, rs)) = S[p + d + 1 - n]
  <2>1. Stands(op, after, m, p, rs) /\ d = Deep(op) /\ S = Stk(m, p, op.cache, rs)
    BY <1>1, <1>2
  <2>2. L = Len(S)
    BY <1>2
  <2> QED BY ONLY <2>1, <2>2, ArgsOnTop
<1>4. /\ op.in = 1 /\ op.out = 1 /\ arg \in 1 .. 16 /\ add = Beyond(op)
      /\ load = IF op.in > d THEN op.in - d ELSE 0
      /\ op.stackLoad + op.stackAddLoad <= p
  BY <1>1, <1>2 DEF Effect, Stands
<1>5. load = IF d = 0 THEN 1 ELSE 0
  BY <1>3, <1>4
<1>6. add = IF arg >= d THEN arg + 1 - (IF d = 0 THEN 1 ELSE d) ELSE 0
  BY <1>1, <1>2, <1>4 DEF Beyond
<1>7. load + add <= p /\ low = p - load - add /\ q = p - load /\ rest = p + d - 1
  BY <1>2, <1>4 DEF Swapping
<1>8. p \in Nat /\ d \in Nat /\ arg \in 1 .. 16 /\ L = p + d /\ arg < L
  BY <1>1, <1>2, <1>3, <1>4
<1>9. top = S[L]
  <2>1. 1 \in 1 .. op.in /\ p + d + 1 - 1 = L
    BY <1>4, <1>8
  <2>2. top = S[p + d + 1 - 1]
    BY <2>1, <1>2, <1>3
  <2> QED BY <2>1, <2>2
<1>10. op.id \in Nat /\ DOMAIN op.cache = 1 .. d
  BY <1>1, <1>2, OpcodeNumbers
<1>11. L - arg \in 1 .. L /\ S[L - arg] \in Words /\ S[L] \in Words
  <2>1. L - arg \in 1 .. L /\ L \in 1 .. L
    BY <1>8
  <2>2. L - arg \in 1 .. Len(S) /\ L \in 1 .. Len(S)
    BY <2>1, <1>2
  <2>3. \A k \in 1 .. Len(S) : S[k] \in Words
    BY <1>3, ElementOfSeq
  <2> QED BY <2>1, <2>2, <2>3
<1>12. add > 0 <=> arg >= d
  BY <1>6, <1>8
<1>13. /\ rs2 = IF add > 0 THEN Resulting(OneResult(op.id, m[low]), op, m, p, rs)
                ELSE Resulting(<<>>, op, m, p, rs)
       /\ \A a \in 0 .. p - 1 : m2[a] = IF add > 0 /\ a = low THEN S[L] ELSE m[a]
  BY <1>2, <1>9 DEF Swapping
<1>14. Extends(rs2, rs, op.id) /\ Held(NewRef(op, 1), rs2) /\ Val(NewRef(op, 1), rs2) = S[L - arg]
  <2>1. CASE arg < d
    <3>1. ~(add > 0) /\ rs2 = Resulting(<<>>, op, m, p, rs)
      BY <2>1, <1>8, <1>12, <1>13
    <3>2. Extends(rs2, rs, op.id)
      BY <3>1, NothingExtends
    <3>3. PICK c, k : c = d - arg /\ k = L - arg
      OBVIOUS
    <3>4. c \in 1 .. d /\ k - p = c /\ ~(k <= p) /\ k \in 1 .. p + d
      BY <3>3, <2>1, <1>8
    <3>5. NewRef(op, 1) = op.cache[c]
      BY <3>3, <2>1, <1>1, <1>2 DEF NewRef, Lifted
    <3>6. S[k] = Val(op.cache[c], rs)
      BY <3>4, <1>3
    <3>7. Held(op.cache[c], rs2) /\ Val(op.cache[c], rs2) = Val(op.cache[c], rs)
      BY <3>2, <3>4, <1>1, <1>10, OlderKeeps
    <3> QED BY <3>2, <3>3, <3>5, <3>6, <3>7
  <2>2. CASE ~(arg < d)
    <3>1. PICK w : w = m[low]
      OBVIOUS
    <3>2. rs2 = Resulting(OneResult(op.id, w), op, m, p, rs)
      <4>1. add > 0
        BY <2>2, <1>8, <1>12
      <4> QED BY <4>1, <3>1, <1>13
    <3>3. Extends(rs2, rs, op.id) /\ Val(Res(op.id, 0), rs2) = w /\ Res(op.id, 0) \in DOMAIN rs2
      BY ONLY <3>2, ResultExtends
    <3>4. PICK k : k = L - arg
      OBVIOUS
    <3>5. k \in 1 .. p + d /\ k <= p /\ low = k - 1
      BY <3>4, <2>2, <1>5, <1>6, <1>7, <1>8
    <3>6. S[k] = m[low]
      BY <3>5, <1>3
    <3>7. NewRef(op, 1) = Res(op.id, 1 - 1)
      BY <2>2, <1>1, <1>2 DEF NewRef, Lifted
    <3>8. NewRef(op, 1) = Res(op.id, 0)
      BY <3>7
    <3>9. S[k] \in Words
      BY <3>4, <1>11
    <3> QED BY <3>1, <3>3, <3>4, <3>6, <3>8, <3>9 DEF Held
  <2> QED BY <2>1, <2>2
<1>15. Holds(after, rs2)
  <2>1. \A k \in 1 .. op.out : Held(NewRef(op, k), rs2)
    <3>1. \A k \in 1 .. op.out : k = 1
      BY <1>4
    <3> QED BY <3>1, <1>14
  <2> QED BY <2>1, <1>1, <1>14, AfterHolds
<1>16. q \in Nat /\ rest \in Nat /\ q <= rest /\ Behind(T, m2, rs2, op, p, rs, q, rest)
  <2>1. Passing(op, after, m, p, rs, m2, rs2, d, q, rest, T)
    BY <1>1, <1>2, <1>14 DEF Passing
  <2> QED BY <2>1, StkAfter
<1>17. /\ IsFcn(T) /\ Long(T, L)
       /\ \A k \in 1 .. L : T[k] = IF k <= q THEN m2[k - 1]
                                   ELSE IF k <= rest THEN Val(LowRef(op, k - p), rs)
                                   ELSE Val(NewRef(op, k - rest), rs2)
       /\ \A k \in q + 1 .. rest : q = p
  <2>1. rest + op.out = L
    BY <1>4, <1>7, <1>8
  <2> QED BY <2>1, <1>16 DEF Behind, Long
<1>18. ASSUME NEW k \in 1 .. L
       PROVE  T[k] = IF k = L THEN S[L - arg] ELSE IF k = L - arg THEN S[L] ELSE S[k]
  <2>1. CASE k = L
    <3>1. ~(k <= rest) /\ ~(k <= q) /\ k - rest = 1
      BY <2>1, <1>7, <1>8, <1>16
    <3>2. T[k] = Val(NewRef(op, k - rest), rs2)
      BY <3>1, <1>17
    <3> QED BY <2>1, <3>1, <3>2, <1>14
  <2>2. CASE k # L /\ k <= q
    <3>1. k - 1 \in 0 .. p - 1 /\ k <= p /\ k \in 1 .. p + d
      BY <2>2, <1>5, <1>7, <1>8
    <3>2. T[k] = m2[k - 1] /\ S[k] = m[k - 1]
      BY <2>2, <3>1, <1>3, <1>17
    <3>3. m2[k - 1] = IF add > 0 /\ k - 1 = low THEN S[L] ELSE m[k - 1]
      BY <3>1, <1>13
    <3>4. (add > 0 /\ k - 1 = low) <=> k = L - arg
      BY <2>2, <3>1, <1>5, <1>6, <1>7, <1>8
    <3> QED BY <2>2, <3>2, <3>3, <3>4
  <2>3. CASE k # L /\ ~(k <= q)
    <3>1. k <= rest /\ k \in q + 1 .. rest
      BY <2>3, <1>7, <1>8, <1>16
    <3>2. q = p /\ T[k] = Val(LowRef(op, k - p), rs)
      BY <2>3, <3>1, <1>17
    <3>3. PICK c : c = k - p
      OBVIOUS
    <3>4. c \in 1 .. d /\ k \in 1 .. p + d /\ ~(k <= p) /\ d \in 1 .. d /\ L - p = d
          /\ ~(L <= p) /\ L \in 1 .. p + d
      BY <2>3, <3>1, <3>2, <3>3, <1>8
    <3>5. S[k] = Val(op.cache[c], rs)
      BY <3>3, <3>4, <1>3
    <3>6. S[L] = Val(op.cache[d], rs)
      BY <3>4, <1>3
    <3>7. LowRef(op, c) = IF arg < d /\ c = d - arg THEN op.cache[d] ELSE op.cache[c]
      BY <1>1, <1>2 DEF LowRef, Lifted
    <3>8. (arg < d /\ c = d - arg) <=> k = L - arg
      BY <3>3, <3>4, <1>8
    <3> QED BY <2>3, <3>2, <3>3, <3>5, <3>6, <3>7, <3>8
  <2> QED BY <2>1, <2>2, <2>3
<1>19. T = Swapped(S, arg)
  <2>1. arg \in Nat \ {0} /\ arg < Len(S) /\ L = Len(S) /\ S \in Seq(Words)
    <3>1. arg \in Nat \ {0} /\ arg < L
      BY <1>8
    <3> QED BY <3>1, <1>2, <1>3
  <2> QED BY <2>1, <1>17, <1>18, SwappedIs
<1> QED
  BY <1>2, <1>3, <1>15, <1>19

-----------------------------------------------------------------------------
(* The stack is the same when its upper part is stored behind the lower.   *)
Memory == [0 .. StackSize - 1 -> Words]

Storing(m, m2, p, refs, rs) ==
    m2 = [a \in DOMAIN m |-> IF a \in p .. (p + Len(refs) - 1) THEN Val(refs[a - p + 1], rs)
                             ELSE m[a]]

LEMMA StoreStk ==
  ASSUME NEW m \in Memory, NEW p \in Nat, NEW refs, NEW rs, NEW d \in Nat, Long(refs, d),
         Len(refs) = d, Holds(refs, rs), p + d <= StackSize, NEW m2, Storing(m, m2, p, refs, rs),
         NEW rs2
  PROVE  /\ m2 \in Memory
         /\ Stk(m2, p + d, <<>>, rs2) = Stk(m, p, refs, rs)
<1>0. StackSize \in Nat /\ DOMAIN refs = 1 .. d /\ DOMAIN m = 0 .. StackSize - 1
  BY CountAssumption DEF Long, Memory
<1>1. m2 = [a \in 0 .. StackSize - 1 |->
              IF a \in p .. (p + d - 1) THEN Val(refs[a - p + 1], rs) ELSE m[a]]
  BY <1>0 DEF Storing
<1>2. \A a \in p .. (p + d - 1) : a - p + 1 \in 1 .. d
  BY <1>0
<1>3. \A a \in p .. (p + d - 1) : Val(refs[a - p + 1], rs) \in Words
  BY <1>0, <1>2 DEF Holds, Held
<1>4. \A a \in 0 .. StackSize - 1 : m[a] \in Words
  BY DEF Memory
<1>5. m2 \in Memory
  BY <1>1, <1>3, <1>4 DEF Memory
<1>6. PICK S, T : S = Stk(m, p, refs, rs) /\ T = Stk(m2, p + d, <<>>, rs2)
  OBVIOUS
<1>7. Joined(S, m, p, refs, d, rs)
  BY <1>6, StkIs
<1>8. Joined(T, m2, p + d, <<>>, 0, rs2)
  <2>1. Long(<<>>, 0) /\ p + d \in Nat
    BY DEF Long
  <2> QED BY <2>1, <1>6, StkIs
<1>9. /\ DOMAIN S = 1 .. p + d /\ IsFcn(S) /\ DOMAIN T = 1 .. p + d /\ IsFcn(T)
  <2>1. p + d + 0 = p + d
    OBVIOUS
  <2> QED BY <2>1, <1>7, <1>8 DEF Joined
<1>10. \A k \in 1 .. p + d : S[k] = IF k <= p THEN m[k - 1] ELSE Val(refs[k - p], rs)
  BY <1>7 DEF Joined
<1>11. \A k \in 1 .. p + d : T[k] = m2[k - 1]
  <2>1. \A k \in 1 .. p + d + 0 : T[k] = IF k <= p + d THEN m2[k - 1] ELSE Val(<<>>[k - (p + d)], rs2)
    BY <1>8 DEF Joined
  <2>2. \A k \in 1 .. p + d : k \in 1 .. p + d + 0 /\ k <= p + d
    OBVIOUS
  <2> QED BY <2>1, <2>2
<1>12. ASSUME NEW k \in 1 .. p + d
       PROVE  S[k] = T[k]
  <2>1. k - 1 \in 0 .. StackSize - 1
    BY <1>0
  <2>2. CASE k <= p
    <3>1. k - 1 \notin p .. (p + d - 1)
      BY <2>2
    <3>2. m2[k - 1] = m[k - 1]
      BY <2>1, <3>1, <1>1
    <3> QED BY <2>2, <3>2, <1>10, <1>11
  <2>3. CASE ~(k <= p)
    <3>1. k - 1 \in p .. (p + d - 1) /\ (k - 1) - p + 1 = k - p
      BY <2>3
    <3>2. m2[k - 1] = Val(refs[(k - 1) - p + 1], rs)
      BY <2>1, <3>1, <1>1
    <3> QED BY <2>3, <3>1, <3>2, <1>10, <1>11
  <2> QED BY <2>2, <2>3
<1>13. S = T
  BY <1>9, <1>12 DEF IsFcn
<1> QED
  BY <1>5, <1>6, <1>13
=============================================================================
