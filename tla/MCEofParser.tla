---------------------------- MODULE MCEofParser -----------------------------
(* Small containers for TLC: bytes have 16 values, two sections of a kind  *)
(* are allowed, and nothing longer than 40 bytes.                          *)
EXTENDS EofParser

(* Sections filled with bytes that are markers, too.                       *)
Filled(n, b) == [k \in 1 .. n |-> b]
Shapes(max, sizes, b) ==
    {[k \in DOMAIN s |-> Filled(s[k], b)] : s \in UNION {[1 .. m -> sizes] : m \in 0 .. max}}
Entries == {[inputs |-> 0, outputs |-> 8, maxStack |-> 63], [inputs |-> 7, outputs |-> 1, maxStack |-> 0]}

MCContainers ==
    {[types |-> [k \in DOMAIN codes |-> entry], codes |-> codes,
      containers |-> containers, data |-> Filled(n, 15)] :
        n \in {0, 2}, entry \in Entries,
        codes \in Shapes(3, {1, 2}, 3), containers \in Shapes(3, {1, 2}, 2)}

(* The encodings of containers (some with no or too many sections, or too  *)
(* long), cut off anywhere, with a byte behind, or with one byte replaced. *)
Encodings == {Encode(c) : c \in MCContainers}
Few == {Encode(c) : c \in {d \in MCContainers :
            /\ Len(d.codes) \in 1 .. 2 /\ \A k \in DOMAIN d.codes : Len(d.codes[k]) = k
            /\ Len(d.containers) <= 2 /\ \A k \in DOMAIN d.containers : Len(d.containers[k]) = 1}}
Cut(b)      == {SubSeq(b, 1, n) : n \in 0 .. Len(b)}
Longer(b)   == {Append(b, x) : x \in {0, 3}}
Replaced(b) == UNION {{[b EXCEPT ![p] = x] : x \in ByteValues} : p \in DOMAIN b}

MCBytecodes == Encodings \cup UNION {Cut(b) \cup Longer(b) \cup Replaced(b) : b \in Few}
=============================================================================
