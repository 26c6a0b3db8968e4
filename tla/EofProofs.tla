----------------------------- MODULE EofProofs ------------------------------
(***************************************************************************)
(* Whatever the bytecode and the limits are, the parser of EofParser reads *)
(* no byte that is not there, what it has read is what the format says, it *)
(* accepts exactly the containers, and the sections it returns are all of  *)
(* their bytes.                                                            *)
(***************************************************************************)
EXTENDS EofParser, SequenceTheorems, WellFoundedInduction, TLAPS

Header == [typesSize : Nat, numCode : Nat, codeSizes : Seq(Nat), codeTotal : Nat,
           numContainers : Nat, containerSizes : Seq(Nat), containerTotal : Nat,
           dataSize : Nat]
Entry == [inputs : Nat, outputs : Nat, maxStack : Nat]
Bytes == Seq(ByteValues)
Sections == [types : Seq(Entry), codes : Seq(Bytes), containers : Seq(Bytes), data : Bytes]

Stages == {"prefix", "typesSize", "numCode", "codeSizes", "containerKind", "containerSizes",
           "dataSize", "terminator", "types", "codes", "containers", "data", "accepted",
           "failed"}

Typed ==
    /\ bytecode \in Bytes /\ offset \in Nat /\ stage \in Stages
    /\ header \in Header /\ container \in Sections

(* The strengthening: what the stages that come before a stage have left.  *)
(* Each list of sizes has one element per turn of its loop, and one per    *)
(* section when the sections are read; there is a type entry for each code *)
(* section, and the types that are still to be read are inside bytecode.   *)
Body == {"types", "codes", "containers", "data"}
TypesMatchCode ==
    /\ stage = "numCode" => header.typesSize % 4 = 0
    /\ stage \in {"codeSizes", "containerKind", "containerSizes", "dataSize", "terminator"} \cup Body
         => header.numCode > 0 /\ header.typesSize = 4 * header.numCode
CodeSizesCounted ==
    /\ stage \in {"prefix", "typesSize", "numCode"} => header.codeSizes = <<>>
    /\ stage = "codeSizes" => Len(header.codeSizes) < header.numCode
    /\ stage \in {"containerKind", "containerSizes", "dataSize", "terminator"} \cup Body
         => Len(header.codeSizes) = header.numCode
ContainerSizesCounted ==
    /\ stage \in {"prefix", "typesSize", "numCode", "codeSizes", "containerKind"}
         => header.containerSizes = <<>> /\ header.numContainers = 0
    /\ stage = "containerSizes" => Len(header.containerSizes) < header.numContainers
    /\ stage \in {"dataSize", "terminator"} \cup Body
         => Len(header.containerSizes) = header.numContainers
SectionsCounted ==
    /\ stage \notin Body \cup {"accepted", "failed"} => container = NoSections
    /\ stage = "types" =>
          /\ Len(container.types) < header.numCode
          /\ container.types # <<>> =>
                offset + 4 * (header.numCode - Len(container.types)) <= Len(bytecode)
    /\ stage \in {"types", "codes"} => container.containers = <<>>
    /\ stage = "types" => container.codes = <<>>
    /\ stage = "codes" => Len(container.codes) < header.numCode
    /\ stage = "containers" => Len(container.containers) < header.numContainers

EofInv == Typed /\ TypesMatchCode /\ CodeSizesCounted /\ ContainerSizesCounted
            /\ SectionsCounted /\ NeverPanics

-----------------------------------------------------------------------------
(* The smallest of up to six indices is one of them.                       *)
LEMMA SmallestOK ==
    ASSUME NEW S \in SUBSET (1 .. 6), S # {}
    PROVE  Min(S) \in S /\ \A y \in S : Min(S) <= y
<1>1. \E x \in S : \A y \in S : x <= y
  <2> DEFINE From(n) == n .. 6
  <2>1. ASSUME NEW n \in 1 .. 6, S \subseteq From(n), n \in S
        PROVE  \E x \in S : \A y \in S : x <= y
    BY <2>1
  <2>2. ASSUME NEW n \in 1 .. 6, S \subseteq From(n), n \notin S
        PROVE  S \subseteq From(n + 1)
    BY <2>2
  <2>3. S \subseteq From(1)
    OBVIOUS
  <2>4. PICK x \in S : x \in 1 .. 6
    OBVIOUS
  <2>5. ~(S \subseteq From(7))
    BY <2>4
  <2> HIDE DEF From
  <2> QED  BY <2>1, <2>2, <2>3, <2>5
<1> QED  BY <1>1 DEF Min

(* When no check fails, none of the conditions holds; and the parser       *)
(* panics only if one of its conditions says so.                           *)
LEMMA FirstFailingOK ==
    ASSUME NEW checks, DOMAIN checks \subseteq 1 .. 6,
           \A k \in DOMAIN checks : checks[k][1] => checks[k][2] \notin {"none", "panic"}
    PROVE  /\ FirstFailing(checks) # "panic"
           /\ FirstFailing(checks) = "none" => \A k \in DOMAIN checks : ~checks[k][1]
<1> DEFINE bad == {k \in DOMAIN checks : checks[k][1]}
<1>1. bad # {} => Min(bad) \in bad
  BY SmallestOK
<1> QED  BY <1>1 DEF FirstFailing

(* The numbers that are read are natural numbers.                          *)
LEMMA ReadsNumbers ==
    ASSUME Typed, NEW p \in Nat
    PROVE  ByteAt(p) \in ByteValues /\ ByteAt(p) \in Nat /\ Uint16(p) \in Nat /\ Uint32(p) \in Nat
<1>1. ByteBase \in Nat /\ ByteBase > 1
  BY FormatAssumption
<1>2. \A q \in Nat : ByteAt(q) \in ByteValues /\ ByteAt(q) \in Nat
  BY <1>1 DEF ByteAt, Typed, Bytes, ByteValues
<1>3. \A a, b \in Nat : ByteBase * a + b \in Nat /\ ByteBase * ByteBase * a + b \in Nat
  <2> SUFFICES ASSUME NEW a \in Nat, NEW b \in Nat
               PROVE  ByteBase * a + b \in Nat /\ ByteBase * ByteBase * a + b \in Nat
    OBVIOUS
  <2>1. \A x, y \in Nat : x * y \in Nat
    OBVIOUS
  <2> QED  BY <1>1, <2>1
<1>4. \A q \in Nat : Uint16(q) \in Nat
  BY <1>2, <1>3 DEF Uint16
<1> QED  BY <1>2, <1>3, <1>4 DEF Uint32

(* A slice that is inside the bytecode.                                    *)
LEMMA SliceOK ==
    ASSUME Typed, NEW n \in Nat, ~Short(n)
    PROVE  Slice(n) \in Bytes
BY DEF Typed, Bytes, Short, Slice

(* A parse that fails leaves everything else as it was.                    *)
LEMMA FailedOK ==
    ASSUME EofInv, stage' = "failed", failure' # "panic",
           UNCHANGED <<bytecode, offset, header, container>>
    PROVE  EofInv'
BY DEF EofInv, Typed, Stages, TypesMatchCode, CodeSizesCounted, ContainerSizesCounted,
       SectionsCounted, NeverPanics, Body

-----------------------------------------------------------------------------
(* One lemma per action: what its checks have excluded when none fails.    *)
LEMMA PrefixOK ==
    ASSUME EofInv, Prefix
    PROVE  EofInv'
<1> DEFINE checks == <<TooShort(3), <<Uint16(0) # Magic, "ErrInvalidMagic">>,
                       <<ByteAt(2) # Version1, "ErrUnsupportedVersion">>>>
<1>1. failure' # "panic" /\ (failure' = "none" => ~Short(3))
  <2>1. DOMAIN checks = 1 .. 3 /\ (checks[1][1] <=> Short(3))
        /\ \A k \in 1 .. 3 : checks[k][2] \notin {"none", "panic"}
    BY DEF TooShort
  <2>2. failure' = FirstFailing(checks)
    BY DEF Prefix, Read
  <2> QED  BY <2>1, <2>2, FirstFailingOK
<1>2. UNCHANGED <<bytecode, header, container>> /\ stage = "prefix"
  BY DEF Prefix, Read
<1>3. CASE failure' = "none"
  <2>1. stage' = "typesSize" /\ offset' = offset + 3 /\ offset + 3 <= Len(bytecode)
    BY <1>1, <1>3 DEF Prefix, Read, Short, EofInv, Typed, Bytes
  <2> QED
    BY <1>2, <1>3, <2>1
       DEF EofInv, Typed, Stages, TypesMatchCode, CodeSizesCounted, ContainerSizesCounted,
           SectionsCounted, NeverPanics, Body
<1>4. CASE failure' # "none"
  BY <1>1, <1>2, <1>4, FailedOK DEF Prefix, Read
<1> QED  BY <1>3, <1>4

LEMMA TypesSizeOK ==
    ASSUME EofInv, TypesSize
    PROVE  EofInv'
<1> DEFINE size == Uint16(offset + 1)
           checks == <<TooShort(1), Marker(KindTypes), TooShort(3),
                       <<size = 0 \/ size % 4 # 0, "ErrInvalidTypesSectionSize">>,
                       <<size > MaxTypesSize, "ErrInvalidSectionSize">>>>
<1>1. failure' # "panic" /\ (failure' = "none" => ~Short(3) /\ size % 4 = 0)
  <2>1. failure' = FirstFailing(checks)
    BY DEF TypesSize, Read
  <2> HIDE DEF size
  <2>2. DOMAIN checks = 1 .. 5 /\ \A k \in 1 .. 5 : checks[k][2] \notin {"none", "panic"}
    BY DEF TooShort, Marker
  <2>3. ~checks[3][1] => ~Short(3)
    BY DEF TooShort
  <2>4. ~checks[4][1] => size % 4 = 0
    OBVIOUS
  <2> HIDE DEF checks
  <2> QED  BY <2>1, <2>2, <2>3, <2>4, FirstFailingOK
<1>2. UNCHANGED <<bytecode, container>> /\ stage = "typesSize" /\ size \in Nat
  BY ReadsNumbers DEF TypesSize, Read, HeaderBecomes, EofInv, Typed
<1>3. CASE failure' = "none"
  <2>1. stage' = "numCode" /\ offset' = offset + 3 /\ offset + 3 <= Len(bytecode)
    BY <1>1, <1>3 DEF TypesSize, Read, Short, EofInv, Typed, Bytes
  <2>2. header' = [header EXCEPT !.typesSize = size]
    BY <1>3 DEF TypesSize, HeaderBecomes, Keep
  <2> HIDE DEF checks, size
  <2> QED
    BY <1>1, <1>2, <1>3, <2>1, <2>2, SMTT(30)
       DEF EofInv, Typed, Header, Stages, TypesMatchCode, CodeSizesCounted,
           ContainerSizesCounted, SectionsCounted, NeverPanics, Body
<1>4. CASE failure' # "none"
  BY <1>1, <1>2, <1>4, FailedOK DEF TypesSize, Read, HeaderBecomes, Keep
<1> QED  BY <1>3, <1>4

LEMMA NumCodeOK ==
    ASSUME EofInv, NumCode
    PROVE  EofInv'
<1> DEFINE num == Uint16(offset + 1)
           checks == <<TooShort(1), Marker(KindCode), TooShort(3),
                       <<num = 0, "ErrZeroCodeSections">>,
                       <<num # header.typesSize \div 4, "ErrCodeSectionMismatch">>,
                       <<num > MaxCodeSections, "ErrInvalidSectionSize">>>>
<1>1. /\ failure' # "panic"
      /\ failure' = "none" => ~Short(3) /\ num # 0 /\ num = header.typesSize \div 4
  <2>1. failure' = FirstFailing(checks)
    BY DEF NumCode, Read
  <2> HIDE DEF num
  <2>2. DOMAIN checks = 1 .. 6 /\ \A k \in 1 .. 6 : checks[k][2] \notin {"none", "panic"}
    BY DEF TooShort, Marker
  <2>3. ~checks[3][1] => ~Short(3)
    BY DEF TooShort
  <2>4. (~checks[4][1] => num # 0) /\ (~checks[5][1] => num = header.typesSize \div 4)
    OBVIOUS
  <2> HIDE DEF checks
  <2> QED  BY <2>1, <2>2, <2>3, <2>4, FirstFailingOK
<1>2. UNCHANGED <<bytecode, container>> /\ stage = "numCode" /\ num \in Nat
  BY ReadsNumbers DEF NumCode, Read, HeaderBecomes, EofInv, Typed
<1>3. CASE failure' = "none"
  <2>1. stage' = "codeSizes" /\ offset' = offset + 3 /\ offset + 3 <= Len(bytecode)
    BY <1>1, <1>3 DEF NumCode, Read, Short, EofInv, Typed, Bytes
  <2>2. header' = [header EXCEPT !.numCode = num]
    BY <1>3 DEF NumCode, HeaderBecomes, Keep
  <2>3. header.typesSize = 4 * num /\ num > 0
    <3>1. header.typesSize \in Nat /\ header.typesSize % 4 = 0
      BY <1>2 DEF EofInv, Typed, Header, TypesMatchCode
    <3> HIDE DEF checks, num
    <3> QED  BY <1>1, <1>2, <1>3, <3>1
  <2> HIDE DEF checks, num
  <2> QED
    BY <1>2, <1>3, <2>1, <2>2, <2>3, SMTT(30)
       DEF EofInv, Typed, Header, Stages, TypesMatchCode, CodeSizesCounted,
           ContainerSizesCounted, SectionsCounted, NeverPanics, Body
<1>4. CASE failure' # "none"
  BY <1>1, <1>2, <1>4, FailedOK DEF NumCode, Read, HeaderBecomes, Keep
<1> QED  BY <1>3, <1>4

LEMMA CodeSizeOK ==
    ASSUME EofInv, CodeSize
    PROVE  EofInv'
<1> DEFINE size == Uint16(offset)
           checks == <<TooShort(2), <<size = 0, "ErrInvalidCodeSectionSize">>>>
<1>1. failure' # "panic" /\ (failure' = "none" => ~Short(2))
  <2>1. failure' = FirstFailing(checks)
    BY DEF CodeSize, Read
  <2> HIDE DEF size
  <2>2. DOMAIN checks = 1 .. 2 /\ \A k \in 1 .. 2 : checks[k][2] \notin {"none", "panic"}
    BY DEF TooShort
  <2>3. ~checks[1][1] => ~Short(2)
    BY DEF TooShort
  <2> HIDE DEF checks
  <2> QED  BY <2>1, <2>2, <2>3, FirstFailingOK
<1>2. UNCHANGED <<bytecode, container>> /\ stage = "codeSizes" /\ size \in Nat
  BY ReadsNumbers DEF CodeSize, Read, HeaderBecomes, EofInv, Typed
<1>3. CASE failure' = "none"
  <2>1. /\ stage' = IF Len(header.codeSizes) + 1 < header.numCode THEN "codeSizes"
                    ELSE "containerKind"
        /\ offset' = offset + 2 /\ offset + 2 <= Len(bytecode)
    BY <1>1, <1>3 DEF CodeSize, Read, Short, EofInv, Typed, Bytes
  <2>2. header' = [header EXCEPT !.codeSizes = Append(@, size), !.codeTotal = @ + size]
    BY <1>3 DEF CodeSize, HeaderBecomes, Keep
  <2> HIDE DEF checks, size
  <2> DEFINE sizes == Append(header.codeSizes, size)
             total == header.codeTotal + size
  <2>3. /\ sizes \in Seq(Nat) /\ Len(sizes) = Len(header.codeSizes) + 1 /\ total \in Nat
        /\ header' = [header EXCEPT !.codeSizes = sizes, !.codeTotal = total]
    BY <1>2, <2>2 DEF EofInv, Typed, Header
  <2> HIDE DEF sizes, total
  <2>4. /\ header' \in Header /\ header'.codeSizes = sizes
        /\ header'.numCode = header.numCode /\ header'.typesSize = header.typesSize
        /\ header'.numContainers = header.numContainers
        /\ header'.containerSizes = header.containerSizes
    BY <2>3 DEF EofInv, Typed, Header
  <2>5. Len(header.codeSizes) \in Nat /\ header.numCode \in Nat
    BY DEF EofInv, Typed, Header
  <2> QED
    BY <1>2, <1>3, <2>1, <2>3, <2>4, <2>5, SMTT(30)
       DEF EofInv, Typed, Stages, TypesMatchCode, CodeSizesCounted,
           ContainerSizesCounted, SectionsCounted, NeverPanics, Body
<1>4. CASE failure' # "none"
  BY <1>1, <1>2, <1>4, FailedOK DEF CodeSize, Read, HeaderBecomes, Keep
<1> QED  BY <1>3, <1>4

LEMMA NumContainersOK ==
    ASSUME EofInv, NumContainers
    PROVE  EofInv'
<1> DEFINE num == Uint16(offset + 1)
           checks == <<TooShort(3), <<num = 0, "ErrZeroContainerSections">>,
                       <<num > MaxContainerSections, "ErrInvalidSectionSize">>>>
<1>1. failure' # "panic" /\ (failure' = "none" => ~Short(3) /\ num # 0)
  <2>1. failure' = FirstFailing(checks)
    BY DEF NumContainers, Read
  <2> HIDE DEF num
  <2>2. DOMAIN checks = 1 .. 3 /\ \A k \in 1 .. 3 : checks[k][2] \notin {"none", "panic"}
    BY DEF TooShort
  <2>3. ~checks[1][1] => ~Short(3)
    BY DEF TooShort
  <2>4. ~checks[2][1] => num # 0
    OBVIOUS
  <2> HIDE DEF checks
  <2> QED  BY <2>1, <2>2, <2>3, <2>4, FirstFailingOK
<1>2. UNCHANGED <<bytecode, container>> /\ stage = "containerKind" /\ num \in Nat
  BY ReadsNumbers DEF NumContainers, Read, HeaderBecomes, EofInv, Typed
<1>3. CASE failure' = "none"
  <2>1. stage' = "containerSizes" /\ offset' = offset + 3 /\ offset + 3 <= Len(bytecode)
    BY <1>1, <1>3 DEF NumContainers, Read, Short, EofInv, Typed, Bytes
  <2>2. header' = [header EXCEPT !.numContainers = num]
    BY <1>3 DEF NumContainers, HeaderBecomes, Keep
  <2> HIDE DEF checks, num
  <2>3. /\ header' \in Header
        /\ header'.typesSize = header.typesSize
        /\ header'.numCode = header.numCode
        /\ header'.codeSizes = header.codeSizes
        /\ header'.containerSizes = header.containerSizes
        /\ header'.numContainers = num
    BY <1>2, <2>2 DEF EofInv, Typed, Header
  <2> QED
    BY <1>1, <1>2, <1>3, <2>1, <2>3
       DEF EofInv, Typed, Stages, TypesMatchCode, CodeSizesCounted,
           ContainerSizesCounted, SectionsCounted, NeverPanics, Body
<1>4. CASE failure' # "none"
  BY <1>1, <1>2, <1>4, FailedOK DEF NumContainers, Read, HeaderBecomes, Keep
<1> QED  BY <1>3, <1>4

LEMMA NoContainersOK ==
    ASSUME EofInv, NoContainers
    PROVE  EofInv'
<1>1. FirstFailing(<<>>) # "panic"
  <2>1. DOMAIN <<>> = {}
    OBVIOUS
  <2> QED  BY <2>1, FirstFailingOK
<1>2. failure' # "panic" /\ UNCHANGED <<bytecode, header, container>> /\ stage = "containerKind"
  BY <1>1 DEF NoContainers, Read
<1>3. CASE failure' = "none"
  <2>1. stage' = "dataSize" /\ offset' = offset
    BY <1>3 DEF NoContainers, Read, EofInv, Typed
  <2> QED
    BY <1>2, <1>3, <2>1
       DEF EofInv, Typed, Header, Stages, TypesMatchCode, CodeSizesCounted,
           ContainerSizesCounted, SectionsCounted, NeverPanics, Body
<1>4. CASE failure' # "none"
  BY <1>2, <1>4, FailedOK DEF NoContainers, Read
<1> QED  BY <1>3, <1>4

LEMMA ContainerSizeOK ==
    ASSUME EofInv, ContainerSize
    PROVE  EofInv'
<1> DEFINE size == Uint32(offset)
           checks == <<TooShort(4), <<size = 0, "ErrInvalidContainerSectionSize">>>>
<1>1. failure' # "panic" /\ (failure' = "none" => ~Short(4))
  <2>1. failure' = FirstFailing(checks)
    BY DEF ContainerSize, Read
  <2> HIDE DEF size
  <2>2. DOMAIN checks = 1 .. 2 /\ \A k \in 1 .. 2 : checks[k][2] \notin {"none", "panic"}
    BY DEF TooShort
  <2>3. ~checks[1][1] => ~Short(4)
    BY DEF TooShort
  <2> HIDE DEF checks
  <2> QED  BY <2>1, <2>2, <2>3, FirstFailingOK
<1>2. UNCHANGED <<bytecode, container>> /\ stage = "containerSizes" /\ size \in Nat
  BY ReadsNumbers DEF ContainerSize, Read, HeaderBecomes, EofInv, Typed
<1>3. CASE failure' = "none"
  <2>1. /\ stage' = IF Len(header.containerSizes) + 1 < header.numContainers
                    THEN "containerSizes" ELSE "dataSize"
        /\ offset' = offset + 4 /\ offset + 4 <= Len(bytecode)
    BY <1>1, <1>3 DEF ContainerSize, Read, Short, EofInv, Typed, Bytes
  <2>2. header' = [header EXCEPT !.containerSizes = Append(@, size), !.containerTotal = @ + size]
    BY <1>3 DEF ContainerSize, HeaderBecomes, Keep
  <2> HIDE DEF checks, size
  <2> DEFINE sizes == Append(header.containerSizes, size)
             total == header.containerTotal + size
  <2>3. /\ sizes \in Seq(Nat) /\ Len(sizes) = Len(header.containerSizes) + 1 /\ total \in Nat
        /\ header' = [header EXCEPT !.containerSizes = sizes, !.containerTotal = total]
    BY <1>2, <2>2 DEF EofInv, Typed, Header
  <2> HIDE DEF sizes, total
  <2>4. /\ header' \in Header /\ header'.containerSizes = sizes
        /\ header'.numCode = header.numCode /\ header'.typesSize = header.typesSize
        /\ header'.numContainers = header.numContainers
        /\ header'.codeSizes = header.codeSizes
    BY <2>3 DEF EofInv, Typed, Header
  <2>5. Len(header.containerSizes) \in Nat /\ header.numContainers \in Nat
    BY DEF EofInv, Typed, Header
  <2> QED
    BY <1>2, <1>3, <2>1, <2>3, <2>4, <2>5, SMTT(30)
       DEF EofInv, Typed, Stages, TypesMatchCode, CodeSizesCounted,
           ContainerSizesCounted, SectionsCounted, NeverPanics, Body
<1>4. CASE failure' # "none"
  BY <1>1, <1>2, <1>4, FailedOK DEF ContainerSize, Read, HeaderBecomes, Keep
<1> QED  BY <1>3, <1>4

LEMMA DataSizeOK ==
    ASSUME EofInv, DataSize
    PROVE  EofInv'
<1> DEFINE size == Uint16(offset + 1)
           checks == <<TooShort(1), Marker(KindData), TooShort(3)>>
<1>1. failure' # "panic" /\ (failure' = "none" => ~Short(3))
  <2>1. failure' = FirstFailing(checks)
    BY DEF DataSize, Read
  <2>2. DOMAIN checks = 1 .. 3 /\ \A k \in 1 .. 3 : checks[k][2] \notin {"none", "panic"}
    BY DEF TooShort, Marker
  <2>3. ~checks[3][1] => ~Short(3)
    BY DEF TooShort
  <2> HIDE DEF checks
  <2> QED  BY <2>1, <2>2, <2>3, FirstFailingOK
<1>2. UNCHANGED <<bytecode, container>> /\ stage = "dataSize" /\ size \in Nat
  BY ReadsNumbers DEF DataSize, Read, HeaderBecomes, EofInv, Typed
<1>3. CASE failure' = "none"
  <2>1. stage' = "terminator" /\ offset' = offset + 3 /\ offset + 3 <= Len(bytecode)
    BY <1>1, <1>3 DEF DataSize, Read, Short, EofInv, Typed, Bytes
  <2>2. header' = [header EXCEPT !.dataSize = size]
    BY <1>3 DEF DataSize, HeaderBecomes, Keep
  <2> HIDE DEF checks, size
  <2>3. /\ header' \in Header
        /\ header'.typesSize = header.typesSize
        /\ header'.numCode = header.numCode
        /\ header'.codeSizes = header.codeSizes
        /\ header'.containerSizes = header.containerSizes
        /\ header'.numContainers = header.numContainers
    BY <1>2, <2>2 DEF EofInv, Typed, Header
  <2> QED
    BY <1>1, <1>2, <1>3, <2>1, <2>3
       DEF EofInv, Typed, Stages, TypesMatchCode, CodeSizesCounted,
           ContainerSizesCounted, SectionsCounted, NeverPanics, Body
<1>4. CASE failure' # "none"
  BY <1>1, <1>2, <1>4, FailedOK DEF DataSize, Read, HeaderBecomes, Keep
<1> QED  BY <1>3, <1>4

LEMMA EndHeaderOK ==
    ASSUME EofInv, EndHeader
    PROVE  EofInv'
<1> DEFINE checks == <<TooShort(1), <<ByteAt(offset) # Terminator, "ErrMissingTerminator">>,
                       <<Short(1 + ExpectedBodySize), "ErrShortBytecode">>,
                       <<Len(bytecode) > MaxInitCodeSize, "ErrMaxInitCodeSize">>>>
<1>1. failure' # "panic" /\ (failure' = "none" => ~Short(1))
  <2>1. failure' = FirstFailing(checks)
    BY DEF EndHeader, Read
  <2>2. DOMAIN checks = 1 .. 4 /\ \A k \in 1 .. 4 : checks[k][2] \notin {"none", "panic"}
    BY DEF TooShort
  <2>3. ~checks[1][1] => ~Short(1)
    BY DEF TooShort
  <2> HIDE DEF checks
  <2> QED  BY <2>1, <2>2, <2>3, FirstFailingOK
<1>2. UNCHANGED <<bytecode, header, container>> /\ stage = "terminator"
  BY DEF EndHeader, Read
<1>3. CASE failure' = "none"
  <2>1. stage' = "types" /\ offset' = offset + 1 /\ offset + 1 <= Len(bytecode)
    BY <1>1, <1>3 DEF EndHeader, Read, Short, EofInv, Typed, Bytes
  <2> HIDE DEF checks
  <2>2. container = NoSections /\ header.numCode > 0
    BY <1>2 DEF EofInv, SectionsCounted, TypesMatchCode, Body
  <2> QED
    BY <1>2, <1>3, <2>1, <2>2
       DEF EofInv, Typed, Header, Stages, TypesMatchCode, CodeSizesCounted,
           ContainerSizesCounted, SectionsCounted, NeverPanics, Body, NoSections
<1>4. CASE failure' # "none"
  BY <1>1, <1>2, <1>4, FailedOK DEF EndHeader, Read
<1> QED  BY <1>3, <1>4

(* A type entry is read for each code section, and types has 4 bytes for   *)
(* each: the index never passes its end.                                   *)
LEMMA TypeEntryOK ==
    ASSUME EofInv, TypeEntry
    PROVE  EofInv'
<1> DEFINE k == Len(container.types)
           entry == [inputs |-> ByteAt(offset), outputs |-> ByteAt(offset + 1),
                     maxStack |-> Uint16(offset + 2)]
           past == 4 * k + 4 > header.typesSize
           checks == <<<<k = 0 /\ Short(header.typesSize), "ErrShortBytecode">>,
                       <<past, "panic">>,
                       <<entry.inputs > MaxInputs, "ErrInvalidTypeEntry">>,
                       <<entry.outputs > MaxOutputs, "ErrInvalidTypeEntry">>,
                       <<entry.maxStack > MaxStackIncrease, "ErrInvalidTypeEntry">>>>
<1>1. /\ stage = "types" /\ UNCHANGED <<bytecode, header>> /\ k \in Nat /\ entry \in Entry
      /\ header.numCode \in Nat /\ header.typesSize = 4 * header.numCode /\ k < header.numCode
      /\ Len(bytecode) \in Nat /\ offset \in Nat
  <2>1. /\ stage = "types" /\ UNCHANGED <<bytecode, header>>
    BY DEF TypeEntry, Read, ContainerBecomes
  <2>2. ByteAt(offset) \in Nat /\ ByteAt(offset + 1) \in Nat /\ Uint16(offset + 2) \in Nat
    BY ReadsNumbers DEF EofInv, Typed
  <2>3. entry \in Entry
    BY <2>2 DEF Entry
  <2> HIDE DEF checks, entry
  <2> QED
    BY <2>1, <2>3 DEF EofInv, Typed, Bytes, Header, Sections, TypesMatchCode, SectionsCounted, Body
<1>2. /\ failure' # "panic"
      /\ failure' = "none" => (k = 0 => ~Short(header.typesSize))
  <2>1. failure' = FirstFailing(checks)
    BY DEF TypeEntry, Read
  <2> HIDE DEF k, entry
  <2>2. DOMAIN checks = 1 .. 5 /\ ~checks[2][1]
    <3>1. ~past
      BY <1>1
    <3> HIDE DEF past
    <3> QED  BY <3>1
  <2>3. \A j \in 1 .. 5 : j # 2 => checks[j][2] \notin {"none", "panic"}
    OBVIOUS
  <2>4. ~checks[1][1] => (k = 0 => ~Short(header.typesSize))
    OBVIOUS
  <2> HIDE DEF checks
  <2>5. \A j \in DOMAIN checks : checks[j][1] => checks[j][2] \notin {"none", "panic"}
    BY <2>2, <2>3
  <2> QED  BY <2>1, <2>2, <2>4, <2>5, FirstFailingOK
<1>3. CASE failure' = "none"
  <2>1. /\ stage' = IF k + 1 < header.numCode THEN "types" ELSE "codes"
        /\ offset' = offset + 4
    BY <1>3 DEF TypeEntry, Read
  <2>2. container' = [container EXCEPT !.types = Append(@, entry)]
    BY <1>3 DEF TypeEntry, ContainerBecomes, Keep
  <2> HIDE DEF checks, entry
  <2> DEFINE types == Append(container.types, entry)
  <2>3. /\ types \in Seq(Entry) /\ Len(types) = k + 1
        /\ container' = [container EXCEPT !.types = types]
    BY <1>1, <2>2 DEF EofInv, Typed, Sections
  <2> HIDE DEF types
  <2>4. /\ container' \in Sections /\ container'.types = types
        /\ container'.codes = container.codes /\ container'.containers = container.containers
    BY <2>3 DEF EofInv, Typed, Sections
  <2>5. offset + 4 * (header.numCode - k) <= Len(bytecode)
    <3>1. CASE k = 0
      BY <1>1, <1>2, <1>3, <3>1 DEF Short
    <3>2. CASE k # 0
      <4>1. container.types # <<>>
        BY <3>2
      <4> QED  BY <1>1, <4>1 DEF EofInv, SectionsCounted
    <3> QED  BY <3>1, <3>2
  <2>6. container.codes = <<>> /\ container.containers = <<>>
    BY <1>1 DEF EofInv, SectionsCounted
  <2> HIDE DEF k
  <2>7. offset' + 4 * (header.numCode - (k + 1)) <= Len(bytecode) /\ offset' <= Len(bytecode)
        /\ offset' \in Nat
    BY <1>1, <2>1, <2>5, SMTT(30)
  <2>8. SectionsCounted'
    BY <1>1, <2>1, <2>3, <2>4, <2>6, <2>7 DEF SectionsCounted, Body
  <2> QED
    BY <1>1, <1>3, <2>1, <2>4, <2>7, <2>8
       DEF EofInv, Typed, Stages, TypesMatchCode, CodeSizesCounted, ContainerSizesCounted,
           NeverPanics, Body
<1>4. CASE failure' # "none"
  BY <1>1, <1>2, <1>4, FailedOK DEF TypeEntry, Read, ContainerBecomes, Keep
<1> QED  BY <1>3, <1>4

LEMMA CodeSectionOK ==
    ASSUME EofInv, CodeSection
    PROVE  EofInv'
<1> DEFINE k == Len(container.codes) + 1
           size == header.codeSizes[k]
           checks == <<<<Short(size), "ErrShortBytecode">>>>
<1>1. /\ stage = "codes" /\ UNCHANGED <<bytecode, header>>
      /\ container.codes \in Seq(Bytes) /\ k \in Nat /\ k <= header.numCode
      /\ size \in Nat /\ header.numCode \in Nat /\ header.numContainers \in Nat
  <2>1. stage = "codes" /\ UNCHANGED <<bytecode, header>>
    BY DEF CodeSection, Read, ContainerBecomes
  <2>2. /\ container.codes \in Seq(Bytes) /\ Len(container.codes) < header.numCode
        /\ header.codeSizes \in Seq(Nat) /\ Len(header.codeSizes) = header.numCode
        /\ header.numCode \in Nat /\ header.numContainers \in Nat
    BY <2>1 DEF EofInv, Typed, Header, Sections, CodeSizesCounted, SectionsCounted, Body
  <2> QED  BY <2>1, <2>2
<1>2. failure' # "panic" /\ (failure' = "none" => ~Short(size))
  <2>1. failure' = FirstFailing(checks)
    BY DEF CodeSection, Read
  <2> HIDE DEF size
  <2>2. DOMAIN checks = 1 .. 1 /\ \A j \in 1 .. 1 : checks[j][2] \notin {"none", "panic"}
    OBVIOUS
  <2>3. ~checks[1][1] => ~Short(size)
    OBVIOUS
  <2> HIDE DEF checks
  <2> QED  BY <2>1, <2>2, <2>3, FirstFailingOK
<1>3. CASE failure' = "none"
  <2>1. /\ stage' = IF k < header.numCode THEN "codes"
                    ELSE IF header.numContainers > 0 THEN "containers" ELSE "data"
        /\ offset' = offset + size
    BY <1>3 DEF CodeSection, Read
  <2>2. container' = [container EXCEPT !.codes = Append(@, Slice(size))]
    BY <1>3 DEF CodeSection, ContainerBecomes, Keep
  <2>3. Slice(size) \in Bytes /\ offset' \in Nat /\ offset' <= Len(bytecode)
    BY <1>1, <1>2, <1>3, <2>1, SliceOK, SMTT(30) DEF EofInv, Typed, Bytes, Short
  <2> HIDE DEF checks, size
  <2> DEFINE codes == Append(container.codes, Slice(size))
  <2>4. /\ codes \in Seq(Bytes) /\ Len(codes) = k
        /\ container' = [container EXCEPT !.codes = codes]
    BY <1>1, <2>2, <2>3
  <2> HIDE DEF codes, k
  <2>5. /\ container' \in Sections /\ container'.codes = codes
        /\ container'.containers = container.containers
    BY <2>4 DEF EofInv, Typed, Sections
  <2>6. container.containers = <<>>
    BY <1>1 DEF EofInv, SectionsCounted
  <2>7. SectionsCounted'
    BY <1>1, <2>1, <2>4, <2>5, <2>6 DEF SectionsCounted, Body
  <2> QED
    BY <1>1, <1>3, <2>1, <2>3, <2>5, <2>7
       DEF EofInv, Typed, Stages, TypesMatchCode, CodeSizesCounted, ContainerSizesCounted,
           NeverPanics, Body
<1>4. CASE failure' # "none"
  BY <1>1, <1>2, <1>4, FailedOK DEF CodeSection, Read, ContainerBecomes, Keep
<1> QED  BY <1>3, <1>4

LEMMA ContainerSectionOK ==
    ASSUME EofInv, ContainerSection
    PROVE  EofInv'
<1> DEFINE k == Len(container.containers) + 1
           size == header.containerSizes[k]
           checks == <<<<Short(size), "ErrShortBytecode">>>>
<1>1. /\ stage = "containers" /\ UNCHANGED <<bytecode, header>>
      /\ container.containers \in Seq(Bytes) /\ k \in Nat /\ k <= header.numContainers
      /\ size \in Nat /\ header.numContainers \in Nat
  <2>1. stage = "containers" /\ UNCHANGED <<bytecode, header>>
    BY DEF ContainerSection, Read, ContainerBecomes
  <2>2. /\ container.containers \in Seq(Bytes)
        /\ Len(container.containers) < header.numContainers
        /\ header.containerSizes \in Seq(Nat)
        /\ Len(header.containerSizes) = header.numContainers
        /\ header.numContainers \in Nat
    BY <2>1 DEF EofInv, Typed, Header, Sections, ContainerSizesCounted, SectionsCounted, Body
  <2> QED  BY <2>1, <2>2, SMTT(30)
<1>2. failure' # "panic" /\ (failure' = "none" => ~Short(size))
  <2>1. failure' = FirstFailing(checks)
    BY DEF ContainerSection, Read
  <2> HIDE DEF size
  <2>2. DOMAIN checks = 1 .. 1 /\ \A j \in 1 .. 1 : checks[j][2] \notin {"none", "panic"}
    OBVIOUS
  <2>3. ~checks[1][1] => ~Short(size)
    OBVIOUS
  <2> HIDE DEF checks
  <2> QED  BY <2>1, <2>2, <2>3, FirstFailingOK
<1>3. CASE failure' = "none"
  <2>1. /\ stage' = IF k < header.numContainers THEN "containers" ELSE "data"
        /\ offset' = offset + size
    BY <1>3 DEF ContainerSection, Read
  <2>2. container' = [container EXCEPT !.containers = Append(@, Slice(size))]
    BY <1>3 DEF ContainerSection, ContainerBecomes, Keep
  <2>3. Slice(size) \in Bytes /\ offset' \in Nat /\ offset' <= Len(bytecode)
    BY <1>1, <1>2, <1>3, <2>1, SliceOK, SMTT(30) DEF EofInv, Typed, Bytes, Short
  <2> HIDE DEF checks, size
  <2> DEFINE inner == Append(container.containers, Slice(size))
  <2>4. /\ inner \in Seq(Bytes) /\ Len(inner) = k
        /\ container' = [container EXCEPT !.containers = inner]
    BY <1>1, <2>2, <2>3
  <2> HIDE DEF inner, k
  <2>5. container' \in Sections /\ container'.containers = inner
    BY <2>4 DEF EofInv, Typed, Sections
  <2>6. SectionsCounted'
    BY <1>1, <2>1, <2>4, <2>5 DEF SectionsCounted, Body
  <2> QED
    BY <1>1, <1>3, <2>1, <2>3, <2>5, <2>6
       DEF EofInv, Typed, Stages, TypesMatchCode, CodeSizesCounted, ContainerSizesCounted,
           NeverPanics, Body
<1>4. CASE failure' # "none"
  BY <1>1, <1>2, <1>4, FailedOK DEF ContainerSection, Read, ContainerBecomes, Keep
<1> QED  BY <1>3, <1>4

(* Data that is cut short ends where the bytecode ends.                    *)
LEMMA DataSectionOK ==
    ASSUME EofInv, DataSection
    PROVE  EofInv'
<1> DEFINE size == IF Short(header.dataSize) THEN Len(bytecode) - offset ELSE header.dataSize
           checks == <<<<offset + size < Len(bytecode), "ErrExtraneousData">>>>
<1>1. stage = "data" /\ UNCHANGED <<bytecode, header>> /\ size \in Nat /\ ~Short(size)
  <2>1. stage = "data" /\ UNCHANGED <<bytecode, header>>
    BY DEF DataSection, Read, ContainerBecomes
  <2>2. /\ offset \in Nat /\ offset <= Len(bytecode) /\ Len(bytecode) \in Nat
        /\ header.dataSize \in Nat
    BY DEF EofInv, Typed, Bytes, Header, NeverPanics
  <2> QED  BY <2>1, <2>2 DEF Short
<1>2. failure' # "panic"
  <2>1. failure' = FirstFailing(checks)
    BY DEF DataSection, Read
  <2> HIDE DEF size
  <2>2. DOMAIN checks = 1 .. 1 /\ \A j \in 1 .. 1 : checks[j][2] \notin {"none", "panic"}
    OBVIOUS
  <2> HIDE DEF checks
  <2> QED  BY <2>1, <2>2, FirstFailingOK
<1>3. CASE failure' = "none"
  <2>1. stage' = "accepted" /\ offset' = offset + size
    BY <1>3 DEF DataSection, Read
  <2>2. container' = [container EXCEPT !.data = Slice(size)]
    BY <1>3 DEF DataSection, ContainerBecomes, Keep
  <2> HIDE DEF checks, size
  <2>3. Slice(size) \in Bytes /\ offset' \in Nat /\ offset' <= Len(bytecode)
    BY <1>1, <2>1, SliceOK DEF EofInv, Typed, Bytes, Short
  <2>4. container' \in Sections
    BY <2>2, <2>3 DEF EofInv, Typed, Sections
  <2> QED
    BY <1>1, <1>3, <2>1, <2>3, <2>4
       DEF EofInv, Typed, Stages, TypesMatchCode, CodeSizesCounted, ContainerSizesCounted,
           SectionsCounted, NeverPanics, Body
<1>4. CASE failure' # "none"
  BY <1>1, <1>2, <1>4, FailedOK DEF DataSection, Read, ContainerBecomes, Keep
<1> QED  BY <1>3, <1>4

-----------------------------------------------------------------------------
LEMMA EofInitOK == EofInit => EofInv
<1> SUFFICES ASSUME EofInit PROVE EofInv
  OBVIOUS
<1>1. bytecode \in Bytes /\ Len(bytecode) \in Nat
  BY FormatAssumption DEF EofInit, Bytes
<1>2. /\ NoHeader \in Header /\ NoHeader.codeSizes = <<>> /\ NoHeader.containerSizes = <<>>
      /\ NoHeader.numContainers = 0
  BY DEF NoHeader, Header
<1>3. NoSections \in Sections
  BY DEF NoSections, Sections, Bytes
<1> QED
  BY <1>1, <1>2, <1>3
     DEF EofInit, EofInv, Typed, Stages, TypesMatchCode, CodeSizesCounted,
         ContainerSizesCounted, SectionsCounted, NeverPanics, Body

LEMMA EofStepOK ==
    ASSUME EofInv, [EofNext]_eofvars
    PROVE  EofInv'
<1>1. CASE UNCHANGED eofvars
  BY <1>1 DEF eofvars, EofInv, Typed, TypesMatchCode, CodeSizesCounted, ContainerSizesCounted,
              SectionsCounted, NeverPanics
<1> QED
  BY <1>1, PrefixOK, TypesSizeOK, NumCodeOK, CodeSizeOK, NumContainersOK, NoContainersOK,
     ContainerSizeOK, DataSizeOK, EndHeaderOK, TypeEntryOK, CodeSectionOK,
     ContainerSectionOK, DataSectionOK DEF EofNext

(* No bytecode makes the parser index a slice past its end, whichever      *)
(* sizes and numbers of sections it claims and whatever the limits are.    *)
THEOREM ParserNeverPanics == EofSpec => []NeverPanics
<1>1. EofInv /\ [EofNext]_eofvars => EofInv'
  BY EofStepOK
<1>2. EofInv => NeverPanics
  BY DEF EofInv
<1> QED  BY EofInitOK, <1>1, <1>2, PTL DEF EofSpec

-----------------------------------------------------------------------------
(* What the parser has read is what the format says.  A bytecode c that    *)
(* begins with the parsed one says the same as far as the parser has come: *)
(* so a refusal holds for every way the bytecode could go on, and a parse  *)
(* that merely runs out of bytes is told apart from one that cannot succeed. *)
Extends(c, b) == c \in Bytes /\ Len(b) <= Len(c) /\ \A p \in 1 .. Len(b) : c[p] = b[p]

PastPrefix    == Stages \ {"prefix", "failed"}
PastTypesSize == PastPrefix \ {"typesSize"}
PastNumCode   == PastTypesSize \ {"numCode"}
PastEnd       == Body \cup {"accepted"}
PastDataSize  == PastEnd \cup {"terminator"}
PastTypes     == PastEnd \ {"types"}

PrefixRead(c) ==
    stage \in PastPrefix => Uint(c, 0, 2) = Magic /\ At(c, 2) = Version1
TypesSizeRead(c) ==
    stage \in PastTypesSize =>
        At(c, 3) = KindTypes /\ Uint(c, 4, 2) = header.typesSize /\ header.typesSize <= MaxTypesSize
NumCodeRead(c) ==
    stage \in PastNumCode =>
        At(c, 6) = KindCode /\ Codes(c) = header.numCode /\ header.numCode \in 1 .. MaxCodeSections
CodeSizesRead(c) ==
    stage \in PastNumCode =>
        \A k \in 1 .. Len(header.codeSizes) :
            header.codeSizes[k] = Uint(c, 7 + 2 * k, 2) /\ header.codeSizes[k] > 0
ContainersRead(c) ==
    stage \in PastNumCode =>
        /\ header.numContainers > 0 =>
              /\ Nested(c) /\ Containers(c) = header.numContainers
              /\ header.numContainers <= MaxContainerSections
        /\ \A k \in 1 .. Len(header.containerSizes) :
              /\ header.containerSizes[k] = Uint(c, KindAt(c) - 1 + 4 * k, 4)
              /\ header.containerSizes[k] > 0
DataSizeRead(c) ==
    stage \in PastDataSize =>
        /\ At(c, DataAt(c)) = KindData /\ Uint(c, DataAt(c) + 1, 2) = header.dataSize
        /\ header.numContainers = 0 => ~Nested(c)
EndRead(c) ==
    stage \in PastEnd => At(c, DataAt(c) + 3) = Terminator
TypesRead(c) ==
    stage \in PastEnd =>
        \A k \in 1 .. Len(container.types) : TypeFits(c, BodyAt(c) + 4 * (k - 1))

Told(c) ==
    /\ PrefixRead(c) /\ TypesSizeRead(c) /\ NumCodeRead(c) /\ CodeSizesRead(c)
    /\ ContainersRead(c) /\ DataSizeRead(c) /\ EndRead(c) /\ TypesRead(c)

(* Where the parser stands: behind everything it has counted.              *)
KindPos == 9 + 2 * header.numCode
DataPos == IF header.numContainers > 0 THEN KindPos + 3 + 4 * header.numContainers ELSE KindPos
CodePos == DataPos + 4 + header.typesSize
BodyEnd == DataPos + 4 + ExpectedBodySize
Position ==
    /\ stage = "prefix"         => offset = 0
    /\ stage = "typesSize"      => offset = 3
    /\ stage = "numCode"        => offset = 6
    /\ stage = "codeSizes"      => offset = 9 + 2 * Len(header.codeSizes)
    /\ stage = "containerKind"  => offset = KindPos
    /\ stage = "containerSizes" => offset = KindPos + 3 + 4 * Len(header.containerSizes)
    /\ stage = "dataSize"       => /\ offset = DataPos
                                   /\ header.numContainers = 0 => ~HasContainers
    /\ stage = "terminator"     => offset = DataPos + 3
    /\ stage = "types"          => offset = DataPos + 4 + 4 * Len(container.types)
    /\ stage = "codes"          => offset = CodePos + Total(header.codeSizes, Len(container.codes))
    /\ stage = "containers"     => offset = CodePos + header.codeTotal
                                     + Total(header.containerSizes, Len(container.containers))
    /\ stage = "data"           => offset = CodePos + header.codeTotal + header.containerTotal
Totals ==
    /\ header.codeTotal = Total(header.codeSizes, Len(header.codeSizes))
    /\ header.containerTotal = Total(header.containerSizes, Len(header.containerSizes))

(* The body was measured before its first section was read, and there is   *)
(* an entry for every code section behind the types.                       *)
Measured == stage \in Body => BodyEnd <= Len(bytecode) /\ Len(bytecode) <= MaxInitCodeSize
TypesCounted == stage \in PastTypes => Len(container.types) = header.numCode

(* What the end says of the bytecode and of those that begin with it.      *)
Shorts == {"ErrShortBytecodeHeader", "ErrShortBytecode"}
Justified(error, b) ==
    /\ error \in Shorts => ~(WellFormed(b) /\ Extent(b) <= Len(b))
    /\ error = "ErrExtraneousData" => WellFormed(b) /\ Extent(b) < Len(b)
    /\ error \notin Shorts \cup {"ErrExtraneousData"} =>
          Len(b) > MaxInitCodeSize \/ \A c : Extends(c, b) => ~WellFormed(c)
Verdict ==
    /\ stage = "accepted" => IsContainer(bytecode)
    /\ stage = "failed" => Justified(failure, bytecode)

FormatInv ==
    /\ \A c : Extends(c, bytecode) => Told(c)
    /\ Position /\ Totals /\ Measured /\ TypesCounted /\ Verdict

-----------------------------------------------------------------------------
(* Induction, and the recursive functions of the format.                   *)
LEMMA Induct ==
  ASSUME NEW S \in SUBSET Nat, 0 \in S, \A n \in S : n + 1 \in S
  PROVE  \A n \in Nat : n \in S
<1> DEFINE Bad == Nat \ S
<1> SUFFICES ASSUME Bad # {} PROVE FALSE
  OBVIOUS
<1>1. PICK x \in Bad : \A y \in Bad : ~(<<y, x>> \in OpToRel(<, Nat))
  BY NatLessThanWellFounded, WFMin
<1>2. \A y \in Bad : ~(y < x)
  BY <1>1 DEF OpToRel
<1>3. x - 1 \in Nat /\ x - 1 \in S
  BY <1>2
<1> QED  BY <1>3

(* The functions that Total picks a value of.                              *)
IsTotal(x, n, s) == s = [k \in 0 .. n |-> IF k = 0 THEN 0 ELSE s[k - 1] + x[k]]

LEMMA TotalExists ==
  ASSUME NEW x
  PROVE  \A n \in Nat : \E s : IsTotal(x, n, s)
<1> DEFINE S == {n \in Nat : \E s : IsTotal(x, n, s)}
<1>1. 0 \in S
  <2>1. IsTotal(x, 0, [k \in 0 .. 0 |-> 0])
    BY DEF IsTotal
  <2> QED  BY <2>1
<1>2. ASSUME NEW n \in S PROVE n + 1 \in S
  <2>1. PICK s : IsTotal(x, n, s)
    BY <1>2
  <2> DEFINE m == n + 1
             t == [k \in 0 .. m |-> IF k = m THEN s[m - 1] + x[m] ELSE s[k]]
  <2>2. \A k \in 0 .. m : t[k] = IF k = 0 THEN 0 ELSE t[k - 1] + x[k]
    BY <2>1 DEF IsTotal
  <2>3. IsTotal(x, m, t)
    BY <2>2 DEF IsTotal
  <2> HIDE DEF t
  <2> QED  BY <2>3
<1> HIDE DEF S
<1>3. \A n \in Nat : n \in S
  BY <1>1, <1>2, Induct DEF S
<1> QED  BY <1>3 DEF S

LEMMA TotalUnique ==
  ASSUME NEW x, NEW n \in Nat, NEW m \in Nat, n <= m, NEW s, NEW t,
         IsTotal(x, n, s), IsTotal(x, m, t)
  PROVE  s[n] = t[n]
<1> DEFINE S == {k \in Nat : k <= n => s[k] = t[k]}
<1>1. 0 \in S
  BY DEF IsTotal
<1>2. ASSUME NEW k \in S PROVE k + 1 \in S
  <2> SUFFICES ASSUME k + 1 <= n PROVE s[k + 1] = t[k + 1]
    OBVIOUS
  <2>1. k + 1 \in 0 .. n /\ k + 1 \in 0 .. m /\ s[k] = t[k]
    BY <1>2
  <2>2. s[k + 1] = s[k] + x[k + 1] /\ t[k + 1] = t[k] + x[k + 1]
    BY <2>1 DEF IsTotal
  <2> QED  BY <2>1, <2>2
<1> HIDE DEF S
<1>3. n \in S
  BY <1>1, <1>2, Induct DEF S
<1> QED  BY <1>3 DEF S

LEMMA TotalRec ==
  ASSUME NEW x
  PROVE  /\ Total(x, 0) = 0
         /\ \A n \in Nat : Total(x, n + 1) = Total(x, n) + x[n + 1]
<1>1. ASSUME NEW n \in Nat
      PROVE  \E s : IsTotal(x, n, s) /\ Total(x, n) = s[n]
  <2>1. \E s : IsTotal(x, n, s)
    BY TotalExists
  <2> QED  BY <2>1 DEF Total, IsTotal
<1>2. Total(x, 0) = 0
  BY <1>1 DEF IsTotal
<1>3. ASSUME NEW n \in Nat PROVE Total(x, n + 1) = Total(x, n) + x[n + 1]
  <2>1. PICK s : IsTotal(x, n, s) /\ Total(x, n) = s[n]
    BY <1>1
  <2>2. PICK t : IsTotal(x, n + 1, t) /\ Total(x, n + 1) = t[n + 1]
    BY <1>1
  <2>3. s[n] = t[n]
    BY <2>1, <2>2, TotalUnique
  <2>4. t[n + 1] = t[n] + x[n + 1]
    BY <2>2 DEF IsTotal
  <2> QED  BY <2>1, <2>2, <2>3, <2>4
<1> QED  BY <1>2, <1>3

(* A sum of sizes is a size, grows with every size added, and depends on   *)
(* nothing else.                                                           *)
LEMMA TotalGrows ==
  ASSUME NEW x, NEW n \in Nat, \A k \in 1 .. n : x[k] \in Nat
  PROVE  \A m \in 0 .. n : Total(x, m) \in Nat /\ Total(x, m) <= Total(x, n)
<1> DEFINE S == {m \in Nat : m <= n => Total(x, m) \in Nat
                               /\ \A j \in 0 .. m : Total(x, j) \in Nat /\ Total(x, j) <= Total(x, m)}
<1>1. 0 \in S
  BY TotalRec
<1>2. ASSUME NEW m \in S PROVE m + 1 \in S
  <2> SUFFICES ASSUME m + 1 <= n
               PROVE  /\ Total(x, m + 1) \in Nat
                      /\ \A j \in 0 .. m + 1 : Total(x, j) \in Nat /\ Total(x, j) <= Total(x, m + 1)
    OBVIOUS
  <2>1. Total(x, m + 1) = Total(x, m) + x[m + 1] /\ x[m + 1] \in Nat
    BY TotalRec
  <2>2. Total(x, m) \in Nat /\ \A j \in 0 .. m : Total(x, j) \in Nat /\ Total(x, j) <= Total(x, m)
    BY <1>2
  <2> QED  BY <2>1, <2>2
<1> HIDE DEF S
<1>3. n \in S
  BY <1>1, <1>2, Induct DEF S
<1> QED  BY <1>3 DEF S

LEMMA TotalSame ==
  ASSUME NEW x, NEW y, NEW n \in Nat, \A k \in 1 .. n : x[k] = y[k]
  PROVE  Total(x, n) = Total(y, n)
<1> DEFINE S == {m \in Nat : m <= n => Total(x, m) = Total(y, m)}
<1>1. 0 \in S
  BY TotalRec
<1>2. ASSUME NEW m \in S PROVE m + 1 \in S
  <2> SUFFICES ASSUME m + 1 <= n PROVE Total(x, m + 1) = Total(y, m + 1)
    OBVIOUS
  <2>1. Total(x, m + 1) = Total(x, m) + x[m + 1] /\ Total(y, m + 1) = Total(y, m) + y[m + 1]
    BY TotalRec
  <2> QED  BY <1>2, <2>1
<1> HIDE DEF S
<1>3. n \in S
  BY <1>1, <1>2, Induct DEF S
<1> QED  BY <1>3 DEF S

(* Numbers of two and of four bytes.                                       *)
LEMMA AtIsByte ==
  ASSUME NEW b \in Bytes, NEW p \in Nat
  PROVE  At(b, p) \in ByteValues /\ At(b, p) \in Nat
<1>1. ByteBase \in Nat /\ ByteBase > 1
  BY FormatAssumption
<1> QED  BY <1>1 DEF At, Bytes, ByteValues

LEMMA BytesCombine ==
  ASSUME NEW m \in Nat, NEW n \in Nat
  PROVE  ByteBase * m + n \in Nat /\ ByteBase * ByteBase * m + n \in Nat
<1>1. \A x, y \in Nat : x * y \in Nat
  OBVIOUS
<1> QED  BY <1>1, FormatAssumption

LEMMA UintSteps ==
  ASSUME NEW b \in Bytes, NEW p \in Nat
  PROVE  /\ Uint(b, p, 2) = ByteBase * At(b, p) + At(b, p + 1)
         /\ Uint(b, p, 4) = ByteBase * ByteBase * Uint(b, p, 2) + Uint(b, p + 2, 2)
         /\ Uint(b, p, 2) \in Nat /\ Uint(b, p, 4) \in Nat
<1> DEFINE IsValue(q, n, v) ==
               v = [k \in 0 .. n |-> IF k = 0 THEN 0 ELSE ByteBase * v[k - 1] + At(b, q + k - 1)]
           v1(q) == At(b, q)
           v2(q) == ByteBase * v1(q) + At(b, q + 1)
           v3(q) == ByteBase * v2(q) + At(b, q + 2)
           v4(q) == ByteBase * v3(q) + At(b, q + 3)
           w(q, n) == [k \in 0 .. n |-> IF k = 0 THEN 0 ELSE IF k = 1 THEN v1(q)
                         ELSE IF k = 2 THEN v2(q) ELSE IF k = 3 THEN v3(q) ELSE v4(q)]
<1>1. ASSUME NEW q \in Nat, NEW n \in {2, 4}
      PROVE  \E v : IsValue(q, n, v) /\ Uint(b, q, n) = v[n]
  <2>0. At(b, q) \in Nat /\ ByteBase * 0 = 0
    <3>1. \A x \in Nat : x * 0 = 0
      OBVIOUS
    <3>2. At(b, q) \in Nat
      BY AtIsByte
    <3> QED  BY <3>1, <3>2, FormatAssumption
  <2>1. \A k \in 0 .. n : k = 0 \/ k = 1 \/ k = 2 \/ (n = 4 /\ k = 3) \/ (n = 4 /\ k = 4)
    OBVIOUS
  <2>2. /\ w(q, n)[0] = 0 /\ w(q, n)[1] = v1(q) /\ w(q, n)[2] = v2(q)
        /\ n = 4 => w(q, n)[3] = v3(q) /\ w(q, n)[4] = v4(q)
    OBVIOUS
  <2>3. v1(q) = ByteBase * 0 + At(b, q + 1 - 1)
    BY <2>0
  <2> HIDE DEF w
  <2>4. \A k \in 0 .. n : w(q, n)[k] = IF k = 0 THEN 0
                                       ELSE ByteBase * w(q, n)[k - 1] + At(b, q + k - 1)
    <3> HIDE DEF v1
    <3>1. \A k \in 0 .. n : k = 1 => w(q, n)[k] = ByteBase * w(q, n)[k - 1] + At(b, q + k - 1)
      BY <2>2, <2>3
    <3>2. \A k \in 0 .. n : k = 2 => w(q, n)[k] = ByteBase * w(q, n)[k - 1] + At(b, q + k - 1)
      BY <2>2
    <3> HIDE DEF v2
    <3>3. \A k \in 0 .. n : k = 3 => w(q, n)[k] = ByteBase * w(q, n)[k - 1] + At(b, q + k - 1)
      BY <2>2
    <3> HIDE DEF v3
    <3>4. \A k \in 0 .. n : k = 4 => w(q, n)[k] = ByteBase * w(q, n)[k - 1] + At(b, q + k - 1)
      BY <2>2
    <3> HIDE DEF v4
    <3> QED  BY <2>1, <2>2, <3>1, <3>2, <3>3, <3>4
  <2>5. w(q, n) = [k \in 0 .. n |-> IF k = 0 THEN 0
                                    ELSE ByteBase * w(q, n)[k - 1] + At(b, q + k - 1)]
    BY <2>4 DEF w
  <2>6. IsValue(q, n, w(q, n))
    BY <2>5
  <2> QED  BY <2>6 DEF Uint
<1>2. ASSUME NEW q \in Nat PROVE Uint(b, q, 2) = v2(q)
  <2>1. PICK v : IsValue(q, 2, v) /\ Uint(b, q, 2) = v[2]
    BY <1>1
  <2>2. v[0] = 0 /\ v[1] = ByteBase * v[0] + At(b, q) /\ v[2] = ByteBase * v[1] + At(b, q + 1)
    BY <2>1
  <2>3. v[1] = At(b, q)
    BY <2>2, AtIsByte, FormatAssumption
  <2> QED  BY <2>1, <2>2, <2>3
<1>3. ASSUME NEW q \in Nat PROVE Uint(b, q, 4) = v4(q)
  <2>1. PICK v : IsValue(q, 4, v) /\ Uint(b, q, 4) = v[4]
    BY <1>1
  <2>2. v[0] = 0 /\ v[1] = ByteBase * v[0] + At(b, q) /\ v[2] = ByteBase * v[1] + At(b, q + 1)
    BY <2>1
  <2>3. v[3] = ByteBase * v[2] + At(b, q + 2) /\ v[4] = ByteBase * v[3] + At(b, q + 3)
    BY <2>1
  <2>4. v[1] = At(b, q)
    BY <2>2, AtIsByte, FormatAssumption
  <2> QED  BY <2>1, <2>2, <2>3, <2>4
<1>4. \A q \in Nat : v2(q) \in Nat
  <2> SUFFICES ASSUME NEW q \in Nat PROVE v2(q) \in Nat
    OBVIOUS
  <2>1. At(b, q) \in Nat /\ At(b, q + 1) \in Nat
    BY AtIsByte
  <2> QED  BY <2>1, BytesCombine
<1>5. v4(p) = ByteBase * ByteBase * v2(p) + v2(p + 2)
  <2>1. v2(p) \in Nat /\ At(b, p + 2) \in Nat /\ At(b, p + 3) \in Nat /\ ByteBase \in Nat
    <3> HIDE DEF v2
    <3>1. p + 2 \in Nat /\ p + 3 \in Nat
      OBVIOUS
    <3> QED  BY <1>4, <3>1, AtIsByte, FormatAssumption
  <2> DEFINE m == v2(p)
  <2>2. v2(p + 2) = ByteBase * At(b, p + 2) + At(b, p + 3)
    OBVIOUS
  <2>3. v4(p) = ByteBase * (ByteBase * m + At(b, p + 2)) + At(b, p + 3) /\ m \in Nat
    BY <2>1
  <2> HIDE DEF m
  <2>4. \A x, y, z, u \in Nat : u * (u * x + y) + z = u * u * x + (u * y + z)
    OBVIOUS
  <2>5. v4(p) = ByteBase * ByteBase * m + (ByteBase * At(b, p + 2) + At(b, p + 3))
    BY <2>1, <2>3, <2>4
  <2> QED  BY <2>2, <2>5 DEF m
<1> HIDE DEF v2, v4
<1> QED
  <2>1. ByteBase * ByteBase * v2(p) + v2(p + 2) \in Nat
    BY <1>4, BytesCombine
  <2>2. p + 2 \in Nat
    OBVIOUS
  <2>3. v2(p) = ByteBase * At(b, p) + At(b, p + 1)
    BY DEF v2
  <2> QED  BY <1>2, <1>3, <1>4, <1>5, <2>1, <2>2, <2>3

-----------------------------------------------------------------------------
(* The first check that fails names the error.                             *)
LEMMA FirstFailingIs ==
    ASSUME NEW checks, DOMAIN checks \subseteq 1 .. 6
    PROVE  \/ FirstFailing(checks) = "none" /\ \A k \in DOMAIN checks : ~checks[k][1]
           \/ \E k \in DOMAIN checks :
                 /\ checks[k][1] /\ \A j \in DOMAIN checks : j < k => ~checks[j][1]
                 /\ FirstFailing(checks) = checks[k][2]
<1> DEFINE bad == {k \in DOMAIN checks : checks[k][1]}
<1>1. CASE bad = {}
  BY <1>1 DEF FirstFailing
<1>2. CASE bad # {}
  <2>1. Min(bad) \in bad /\ \A y \in bad : Min(bad) <= y
    BY <1>2, SmallestOK
  <2>2. FirstFailing(checks) = checks[Min(bad)][2]
    BY <1>2 DEF FirstFailing
  <2> DEFINE m == Min(bad)
  <2>3. m \in DOMAIN checks /\ checks[m][1] /\ \A j \in DOMAIN checks : j < m => ~checks[j][1]
    BY <2>1
  <2> HIDE DEF m, bad
  <2> QED  BY <2>2, <2>3 DEF m
<1> QED  BY <1>1, <1>2

(* What is there is the same in every bytecode that begins with this one.  *)
LEMMA ExtendsReads ==
    ASSUME Typed, NEW c, Extends(c, bytecode), NEW p \in Nat
    PROVE  /\ c \in Bytes
           /\ p < Len(bytecode) => At(c, p) = ByteAt(p)
           /\ p + 1 < Len(bytecode) => Uint(c, p, 2) = Uint16(p)
           /\ p + 3 < Len(bytecode) => Uint(c, p, 4) = Uint32(p)
<1>1. c \in Bytes /\ Len(c) \in Nat /\ Len(bytecode) \in Nat /\ Len(bytecode) <= Len(c)
  BY DEF Extends, Typed, Bytes
<1>2. \A q \in Nat : q < Len(bytecode) => At(c, q) = ByteAt(q)
  BY <1>1 DEF Extends, At, ByteAt
<1>3. ASSUME NEW q \in Nat, q + 1 < Len(bytecode) PROVE Uint(c, q, 2) = Uint16(q)
  <2>1. q + 1 \in Nat /\ q < Len(bytecode)
    BY <1>1, <1>3
  <2>2. At(c, q) = ByteAt(q) /\ At(c, q + 1) = ByteAt(q + 1)
    BY <1>2, <1>3, <2>1
  <2>3. Uint(c, q, 2) = ByteBase * At(c, q) + At(c, q + 1)
    BY <1>1, UintSteps
  <2> QED  BY <2>2, <2>3 DEF Uint16
<1>4. ASSUME p + 3 < Len(bytecode) PROVE Uint(c, p, 4) = Uint32(p)
  <2>1. p + 2 \in Nat /\ p + 1 < Len(bytecode) /\ p + 2 + 1 < Len(bytecode)
    BY <1>1, <1>4
  <2>2. Uint(c, p, 2) = Uint16(p) /\ Uint(c, p + 2, 2) = Uint16(p + 2)
    BY <1>3, <2>1
  <2>3. Uint(c, p, 4) = ByteBase * ByteBase * Uint(c, p, 2) + Uint(c, p + 2, 2)
    BY <1>1, UintSteps
  <2> QED  BY <2>2, <2>3 DEF Uint32
<1> QED  BY <1>1, <1>2, <1>3, <1>4

LEMMA ExtendsSelf == Typed => Extends(bytecode, bytecode)
BY DEF Typed, Extends, Bytes

(* The numbers of the format.                                              *)
LEMMA SizesOK ==
    ASSUME NEW b \in Bytes
    PROVE  /\ Codes(b) \in Nat /\ Containers(b) \in Nat
           /\ KindAt(b) \in Nat /\ DataAt(b) \in Nat /\ BodyAt(b) \in Nat
           /\ KindAt(b) = 9 + 2 * Codes(b) /\ BodyAt(b) = DataAt(b) + 4
           /\ DataAt(b) = IF Nested(b) THEN KindAt(b) + 3 + 4 * Containers(b) ELSE KindAt(b)
           /\ Uint(b, DataAt(b) + 1, 2) \in Nat
           /\ \A k \in 1 .. Codes(b) :
                 CodeSizes(b)[k] = Uint(b, 7 + 2 * k, 2) /\ CodeSizes(b)[k] \in Nat
           /\ \A k \in 1 .. Containers(b) :
                 /\ ContainerSizes(b)[k] = Uint(b, KindAt(b) - 1 + 4 * k, 4)
                 /\ ContainerSizes(b)[k] \in Nat
<1>1. \A p \in Nat : Uint(b, p, 2) \in Nat /\ Uint(b, p, 4) \in Nat
  BY UintSteps
<1>2. Codes(b) \in Nat
  BY <1>1 DEF Codes
<1>3. KindAt(b) \in Nat /\ KindAt(b) = 9 + 2 * Codes(b)
  BY <1>2 DEF KindAt
<1>4. Containers(b) \in Nat
  <2>1. KindAt(b) + 1 \in Nat
    BY <1>3
  <2> QED  BY <1>1, <2>1 DEF Containers
<1>5. DataAt(b) = IF Nested(b) THEN KindAt(b) + 3 + 4 * Containers(b) ELSE KindAt(b)
  BY DEF DataAt
<1>6. DataAt(b) \in Nat /\ BodyAt(b) = DataAt(b) + 4 /\ BodyAt(b) \in Nat
  BY <1>3, <1>4, <1>5 DEF BodyAt
<1>7. Uint(b, DataAt(b) + 1, 2) \in Nat
  <2>1. DataAt(b) + 1 \in Nat
    BY <1>6
  <2> QED  BY <1>1, <2>1
<1>8. ASSUME NEW k \in 1 .. Codes(b)
      PROVE  CodeSizes(b)[k] = Uint(b, 7 + 2 * k, 2) /\ CodeSizes(b)[k] \in Nat
  <2>1. 7 + 2 * k \in Nat
    BY <1>2
  <2> QED  BY <1>1, <2>1 DEF CodeSizes
<1>9. ASSUME NEW k \in 1 .. Containers(b)
      PROVE  /\ ContainerSizes(b)[k] = Uint(b, KindAt(b) - 1 + 4 * k, 4)
             /\ ContainerSizes(b)[k] \in Nat
  <2>1. KindAt(b) - 1 + 4 * k \in Nat
    BY <1>3, <1>4
  <2> QED  BY <1>1, <2>1 DEF ContainerSizes
<1> QED  BY <1>2, <1>3, <1>4, <1>5, <1>6, <1>7, <1>8, <1>9

LEMMA ExtentOK ==
    ASSUME NEW b \in Bytes
    PROVE  Extent(b) \in Nat /\ Extent(b) >= BodyAt(b) + 4 * Codes(b) /\ Extent(b) >= 13
<1> DEFINE sum == Total(CodeSizes(b), Codes(b))
           inner == Total(ContainerSizes(b), Containers(b))
<1>1. sum \in Nat /\ inner \in Nat
  BY SizesOK, TotalGrows
<1>2. Extent(b) = BodyAt(b) + 4 * Codes(b) + sum + inner + Uint(b, DataAt(b) + 1, 2)
  BY DEF Extent
<1> HIDE DEF sum, inner
<1> QED  BY <1>1, <1>2, SizesOK, SMTT(30)

LEMMA PlacesOK ==
    ASSUME NEW b \in Bytes
    PROVE  /\ Extent(b) \in Nat /\ DataAt(b) \in Nat /\ Codes(b) \in Nat /\ Containers(b) \in Nat
           /\ DataAt(b) >= 9 + 2 * Codes(b) /\ Extent(b) >= DataAt(b) + 4 + 4 * Codes(b)
           /\ Nested(b) => DataAt(b) = 9 + 2 * Codes(b) + 3 + 4 * Containers(b)
           /\ ~Nested(b) => DataAt(b) = 9 + 2 * Codes(b)
<1> DEFINE N == Nested(b)
<1>1. /\ Codes(b) \in Nat /\ Containers(b) \in Nat /\ KindAt(b) \in Nat /\ DataAt(b) \in Nat
      /\ KindAt(b) = 9 + 2 * Codes(b) /\ BodyAt(b) = DataAt(b) + 4
      /\ DataAt(b) = IF N THEN KindAt(b) + 3 + 4 * Containers(b) ELSE KindAt(b)
  BY SizesOK
<1>2. Extent(b) \in Nat /\ Extent(b) >= BodyAt(b) + 4 * Codes(b)
  BY ExtentOK
<1> HIDE DEF N
<1>3. /\ DataAt(b) >= 9 + 2 * Codes(b)
      /\ N => DataAt(b) = 9 + 2 * Codes(b) + 3 + 4 * Containers(b)
      /\ ~N => DataAt(b) = 9 + 2 * Codes(b)
  BY <1>1
<1>4. Extent(b) >= DataAt(b) + 4 + 4 * Codes(b)
  BY <1>1, <1>2
<1> QED  BY <1>1, <1>2, <1>3, <1>4 DEF N

-----------------------------------------------------------------------------
(* A refusal, once it is justified, stays so.                              *)
LEMMA RefusedOK ==
    ASSUME FormatInv, stage' = "failed", UNCHANGED <<bytecode, header, container>>,
           Justified(failure', bytecode)
    PROVE  FormatInv'
BY DEF FormatInv, Told, PrefixRead, TypesSizeRead, NumCodeRead, CodeSizesRead, ContainersRead,
       DataSizeRead, EndRead, TypesRead, PastPrefix, PastTypesSize, PastNumCode, PastEnd,
       PastDataSize, PastTypes, Body, Position, Totals, Measured, TypesCounted, Verdict

LEMMA ShortJustified ==
    ASSUME Typed, NEW error \in Shorts, Extent(bytecode) > Len(bytecode)
    PROVE  Justified(error, bytecode)
<1>1. Extent(bytecode) \in Nat /\ Len(bytecode) \in Nat
  BY ExtentOK DEF Typed, Bytes
<1> QED  BY <1>1 DEF Justified, Shorts

LEMMA WrongJustified ==
    ASSUME NEW error, error \notin Shorts \cup {"ErrExtraneousData"},
           \A c : Extends(c, bytecode) => ~WellFormed(c)
    PROVE  Justified(error, bytecode)
BY DEF Justified

LEMMA FirstOf1 ==
    ASSUME NEW c1, NEW e1
    PROVE  LET f == FirstFailing(<<<<c1, e1>>>>)
           IN  \/ f = "none" /\ ~c1
               \/ f = e1 /\ c1
<1> DEFINE checks == <<<<c1, e1>>>>
<1>1. /\ DOMAIN checks = 1 .. 1
      /\ checks[1][1] = c1 /\ checks[1][2] = e1
  OBVIOUS
<1>2. \A k \in 1 .. 1 : k = 1
  OBVIOUS
<1> HIDE DEF checks
<1> QED  BY <1>1, <1>2, FirstFailingIs, SMTT(60)

LEMMA FirstOf2 ==
    ASSUME NEW c1, NEW e1, NEW c2, NEW e2
    PROVE  LET f == FirstFailing(<<<<c1, e1>>, <<c2, e2>>>>)
           IN  \/ f = "none" /\ ~c1 /\ ~c2
               \/ f = e1 /\ c1
               \/ f = e2 /\ ~c1 /\ c2
<1> DEFINE checks == <<<<c1, e1>>, <<c2, e2>>>>
<1>1. /\ DOMAIN checks = 1 .. 2
      /\ checks[1][1] = c1 /\ checks[1][2] = e1
      /\ checks[2][1] = c2 /\ checks[2][2] = e2
  OBVIOUS
<1>2. \A k \in 1 .. 2 : k = 1 \/ k = 2
  OBVIOUS
<1> HIDE DEF checks
<1> QED  BY <1>1, <1>2, FirstFailingIs, SMTT(60)

LEMMA FirstOf3 ==
    ASSUME NEW c1, NEW e1, NEW c2, NEW e2, NEW c3, NEW e3
    PROVE  LET f == FirstFailing(<<<<c1, e1>>, <<c2, e2>>, <<c3, e3>>>>)
           IN  \/ f = "none" /\ ~c1 /\ ~c2 /\ ~c3
               \/ f = e1 /\ c1
               \/ f = e2 /\ ~c1 /\ c2
               \/ f = e3 /\ ~c1 /\ ~c2 /\ c3
<1> DEFINE checks == <<<<c1, e1>>, <<c2, e2>>, <<c3, e3>>>>
<1>1. /\ DOMAIN checks = 1 .. 3
      /\ checks[1][1] = c1 /\ checks[1][2] = e1
      /\ checks[2][1] = c2 /\ checks[2][2] = e2
      /\ checks[3][1] = c3 /\ checks[3][2] = e3
  OBVIOUS
<1>2. \A k \in 1 .. 3 : k = 1 \/ k = 2 \/ k = 3
  OBVIOUS
<1> HIDE DEF checks
<1> QED  BY <1>1, <1>2, FirstFailingIs, SMTT(60)

LEMMA FirstOf4 ==
    ASSUME NEW c1, NEW e1, NEW c2, NEW e2, NEW c3, NEW e3,
           NEW c4, NEW e4
    PROVE  LET f == FirstFailing(<<<<c1, e1>>, <<c2, e2>>, <<c3, e3>>, <<c4, e4>>>>)
           IN  \/ f = "none" /\ ~c1 /\ ~c2 /\ ~c3 /\ ~c4
               \/ f = e1 /\ c1
               \/ f = e2 /\ ~c1 /\ c2
               \/ f = e3 /\ ~c1 /\ ~c2 /\ c3
               \/ f = e4 /\ ~c1 /\ ~c2 /\ ~c3 /\ c4
<1> DEFINE checks == <<<<c1, e1>>, <<c2, e2>>, <<c3, e3>>, <<c4, e4>>>>
<1>1. /\ DOMAIN checks = 1 .. 4
      /\ checks[1][1] = c1 /\ checks[1][2] = e1
      /\ checks[2][1] = c2 /\ checks[2][2] = e2
      /\ checks[3][1] = c3 /\ checks[3][2] = e3
      /\ checks[4][1] = c4 /\ checks[4][2] = e4
  OBVIOUS
<1>2. \A k \in 1 .. 4 : k = 1 \/ k = 2 \/ k = 3 \/ k = 4
  OBVIOUS
<1> HIDE DEF checks
<1> QED  BY <1>1, <1>2, FirstFailingIs, SMTT(60)

LEMMA FirstOf5 ==
    ASSUME NEW c1, NEW e1, NEW c2, NEW e2, NEW c3, NEW e3,
           NEW c4, NEW e4, NEW c5, NEW e5
    PROVE  LET f == FirstFailing(<<<<c1, e1>>, <<c2, e2>>, <<c3, e3>>, <<c4, e4>>, <<c5, e5>>>>)
           IN  \/ f = "none" /\ ~c1 /\ ~c2 /\ ~c3 /\ ~c4 /\ ~c5
               \/ f = e1 /\ c1
               \/ f = e2 /\ ~c1 /\ c2
               \/ f = e3 /\ ~c1 /\ ~c2 /\ c3
               \/ f = e4 /\ ~c1 /\ ~c2 /\ ~c3 /\ c4
               \/ f = e5 /\ ~c1 /\ ~c2 /\ ~c3 /\ ~c4 /\ c5
<1> DEFINE checks == <<<<c1, e1>>, <<c2, e2>>, <<c3, e3>>, <<c4, e4>>, <<c5, e5>>>>
<1>1. /\ DOMAIN checks = 1 .. 5
      /\ checks[1][1] = c1 /\ checks[1][2] = e1
      /\ checks[2][1] = c2 /\ checks[2][2] = e2
      /\ checks[3][1] = c3 /\ checks[3][2] = e3
      /\ checks[4][1] = c4 /\ checks[4][2] = e4
      /\ checks[5][1] = c5 /\ checks[5][2] = e5
  OBVIOUS
<1>2. \A k \in 1 .. 5 : k = 1 \/ k = 2 \/ k = 3 \/ k = 4 \/ k = 5
  OBVIOUS
<1> HIDE DEF checks
<1> QED  BY <1>1, <1>2, FirstFailingIs, SMTT(60)

LEMMA FirstOf6 ==
    ASSUME NEW c1, NEW e1, NEW c2, NEW e2, NEW c3, NEW e3,
           NEW c4, NEW e4, NEW c5, NEW e5, NEW c6, NEW e6
    PROVE  LET f == FirstFailing(<<<<c1, e1>>, <<c2, e2>>, <<c3, e3>>, <<c4, e4>>, <<c5, e5>>, <<c6, e6>>>>)
           IN  \/ f = "none" /\ ~c1 /\ ~c2 /\ ~c3 /\ ~c4 /\ ~c5 /\ ~c6
               \/ f = e1 /\ c1
               \/ f = e2 /\ ~c1 /\ c2
               \/ f = e3 /\ ~c1 /\ ~c2 /\ c3
               \/ f = e4 /\ ~c1 /\ ~c2 /\ ~c3 /\ c4
               \/ f = e5 /\ ~c1 /\ ~c2 /\ ~c3 /\ ~c4 /\ c5
               \/ f = e6 /\ ~c1 /\ ~c2 /\ ~c3 /\ ~c4 /\ ~c5 /\ c6
<1> DEFINE checks == <<<<c1, e1>>, <<c2, e2>>, <<c3, e3>>, <<c4, e4>>, <<c5, e5>>, <<c6, e6>>>>
<1>1. /\ DOMAIN checks = 1 .. 6
      /\ checks[1][1] = c1 /\ checks[1][2] = e1
      /\ checks[2][1] = c2 /\ checks[2][2] = e2
      /\ checks[3][1] = c3 /\ checks[3][2] = e3
      /\ checks[4][1] = c4 /\ checks[4][2] = e4
      /\ checks[5][1] = c5 /\ checks[5][2] = e5
      /\ checks[6][1] = c6 /\ checks[6][2] = e6
  OBVIOUS
<1>2. \A k \in 1 .. 6 : k = 1 \/ k = 2 \/ k = 3 \/ k = 4 \/ k = 5 \/ k = 6
  OBVIOUS
<1> HIDE DEF checks
<1> QED  BY <1>1, <1>2, FirstFailingIs, SMTT(60)

-----------------------------------------------------------------------------
(* One lemma per action.  Each splits on the check that fails first.       *)
LEMMA PrefixFormat ==
    ASSUME EofInv, FormatInv, Prefix
    PROVE  FormatInv'
<1>1. /\ stage = "prefix" /\ offset = 0 /\ UNCHANGED <<bytecode, header, container>>
      /\ bytecode \in Bytes /\ Len(bytecode) \in Nat /\ Typed
  BY DEF Prefix, Read, EofInv, Typed, Bytes, FormatInv, Position
<1>2. ASSUME NEW c, Extends(c, bytecode), Len(bytecode) >= 3
      PROVE  Uint(c, 0, 2) = Uint16(0) /\ At(c, 2) = ByteAt(2)
  BY <1>1, <1>2, ExtendsReads
<1>3. \/ failure' = "none" /\ ~Short(3) /\ Uint16(0) = Magic /\ ByteAt(2) = Version1
      \/ failure' = "ErrShortBytecodeHeader" /\ Short(3)
      \/ failure' = "ErrInvalidMagic" /\ ~Short(3) /\ Uint16(0) # Magic
      \/ failure' = "ErrUnsupportedVersion" /\ ~Short(3) /\ ByteAt(2) # Version1
  <2> DEFINE c1 == Short(3)
             c2 == Uint16(0) # Magic
             c3 == ByteAt(2) # Version1
  <2>1. failure' = FirstFailing(<<<<c1, "ErrShortBytecodeHeader">>, <<c2, "ErrInvalidMagic">>,
                                  <<c3, "ErrUnsupportedVersion">>>>)
    BY DEF Prefix, Read, TooShort
  <2> HIDE DEF c1, c2, c3
  <2>2. \/ failure' = "none" /\ ~c1 /\ ~c2 /\ ~c3
        \/ failure' = "ErrShortBytecodeHeader" /\ c1
        \/ failure' = "ErrInvalidMagic" /\ ~c1 /\ c2
        \/ failure' = "ErrUnsupportedVersion" /\ ~c1 /\ ~c2 /\ c3
    BY <2>1, FirstOf3
  <2> QED  BY <2>2 DEF c1, c2, c3
<1>4. Short(3) <=> Len(bytecode) < 3
  BY <1>1 DEF Short
<1>5. CASE failure' = "none"
  <2>1. stage' = "typesSize" /\ offset' = 3 /\ Len(bytecode) >= 3
    BY <1>1, <1>3, <1>4, <1>5 DEF Prefix, Read
  <2>2. ASSUME NEW c, Extends(c, bytecode)' PROVE Told(c)'
    <3>1. Extends(c, bytecode)
      BY <1>1, <2>2 DEF Extends
    <3> QED
      BY <1>2, <1>3, <1>5, <2>1, <3>1
         DEF Told, PrefixRead, TypesSizeRead, NumCodeRead, CodeSizesRead, ContainersRead,
             DataSizeRead, EndRead, TypesRead, PastPrefix, PastTypesSize, PastNumCode,
             PastEnd, PastDataSize, Body
  <2> QED
    BY <1>1, <2>1, <2>2
       DEF FormatInv, Position, Totals, Measured, TypesCounted, Verdict, Body, PastTypes, PastEnd
<1>6. CASE failure' # "none"
  <2>1. Extent(bytecode) \in Nat /\ Extent(bytecode) >= 13
    BY <1>1, ExtentOK
  <2>2. Justified(failure', bytecode)
    <3>1. CASE Short(3)
      BY <1>1, <1>3, <1>4, <2>1, <3>1, ShortJustified DEF Shorts
    <3>2. CASE ~Short(3)
      <4>1. \A c : Extends(c, bytecode) => ~WellFormed(c)
        BY <1>1, <1>2, <1>3, <1>4, <1>6, <3>2 DEF WellFormed
      <4> QED  BY <1>3, <1>6, <3>2, <4>1, WrongJustified DEF Shorts
    <3> QED  BY <3>1, <3>2
  <2> QED  BY <1>1, <1>6, <2>2, RefusedOK DEF Prefix, Read
<1> QED  BY <1>5, <1>6

LEMMA TypesSizeFormat ==
    ASSUME EofInv, FormatInv, TypesSize
    PROVE  FormatInv'
<1> DEFINE size == Uint16(4)
<1>1. /\ stage = "typesSize" /\ offset = 3 /\ UNCHANGED <<bytecode, container>>
      /\ bytecode \in Bytes /\ Len(bytecode) \in Nat /\ Typed /\ size \in Nat
      /\ Short(1) <=> Len(bytecode) < 4
      /\ Short(3) <=> Len(bytecode) < 6
  BY ReadsNumbers DEF TypesSize, Read, HeaderBecomes, EofInv, Typed, Bytes, FormatInv, Position, Short
<1>2. ASSUME NEW c, Extends(c, bytecode)
      PROVE  /\ c \in Bytes /\ Codes(c) \in Nat
             /\ ~Short(1) => At(c, 3) = ByteAt(3)
             /\ ~Short(3) => Uint(c, 4, 2) = size
  <2>1. c \in Bytes /\ (~Short(1) => At(c, 3) = ByteAt(3)) /\ (~Short(3) => Uint(c, 4, 2) = size)
    BY <1>1, <1>2, ExtendsReads
  <2> QED  BY <2>1, SizesOK
<1>3. \/ failure' = "none" /\ ~Short(3) /\ ByteAt(3) = KindTypes /\ size <= MaxTypesSize
      \/ failure' = "ErrShortBytecodeHeader" /\ Len(bytecode) < 6
      \/ failure' = "ErrInvalidKindMarker" /\ ~Short(1) /\ ByteAt(3) # KindTypes
      \/ failure' = "ErrInvalidTypesSectionSize" /\ ~Short(3) /\ (size = 0 \/ size % 4 # 0)
      \/ failure' = "ErrInvalidSectionSize" /\ ~Short(3) /\ size > MaxTypesSize
  <2> DEFINE c1 == Short(1)
             c2 == ByteAt(3) # KindTypes
             c3 == Short(3)
             c4 == size = 0 \/ size % 4 # 0
             c5 == size > MaxTypesSize
  <2>1. failure' = FirstFailing(<<<<c1, "ErrShortBytecodeHeader">>, <<c2, "ErrInvalidKindMarker">>,
                                  <<c3, "ErrShortBytecodeHeader">>,
                                  <<c4, "ErrInvalidTypesSectionSize">>,
                                  <<c5, "ErrInvalidSectionSize">>>>)
    BY <1>1 DEF TypesSize, Read, TooShort, Marker
  <2> HIDE DEF c1, c2, c3, c4, c5
  <2>2. \/ failure' = "none" /\ ~c1 /\ ~c2 /\ ~c3 /\ ~c4 /\ ~c5
        \/ failure' = "ErrShortBytecodeHeader" /\ (c1 \/ c3)
        \/ failure' = "ErrInvalidKindMarker" /\ ~c1 /\ c2
        \/ failure' = "ErrInvalidTypesSectionSize" /\ ~c1 /\ ~c2 /\ ~c3 /\ c4
        \/ failure' = "ErrInvalidSectionSize" /\ ~c1 /\ ~c2 /\ ~c3 /\ ~c4 /\ c5
    BY <2>1, FirstOf5
  <2>3. MaxTypesSize \in Nat
    BY FormatAssumption
  <2> QED  BY <1>1, <2>2, <2>3 DEF c1, c2, c3, c4, c5
<1>4. header' = IF failure' = "none" THEN [header EXCEPT !.typesSize = size] ELSE header
  BY <1>1 DEF TypesSize, HeaderBecomes, Keep
<1>5. CASE failure' = "none"
  <2>1. stage' = "numCode" /\ offset' = 6
    BY <1>1, <1>5 DEF TypesSize, Read
  <2>2. /\ header'.typesSize = size /\ header'.codeSizes = header.codeSizes
        /\ header'.codeTotal = header.codeTotal
        /\ header'.containerSizes = header.containerSizes
        /\ header'.containerTotal = header.containerTotal
    BY <1>4, <1>5 DEF EofInv, Typed, Header
  <2> HIDE DEF size
  <2>3. ASSUME NEW c, Extends(c, bytecode)' PROVE Told(c)'
    <3>1. Extends(c, bytecode) /\ Told(c)
      BY <1>1, <2>3 DEF Extends, FormatInv
    <3> QED
      BY <1>1, <1>2, <1>3, <1>5, <2>1, <2>2, <3>1
         DEF Told, PrefixRead, TypesSizeRead, NumCodeRead, CodeSizesRead, ContainersRead,
             DataSizeRead, EndRead, TypesRead, Stages, PastPrefix, PastTypesSize, PastNumCode,
             PastEnd, PastDataSize, Body
  <2> QED
    BY <1>1, <2>1, <2>2, <2>3
       DEF FormatInv, Position, Totals, Measured, TypesCounted, Verdict, Body, PastTypes, PastEnd
<1>6. CASE failure' # "none"
  <2>1. Extent(bytecode) \in Nat /\ Extent(bytecode) >= 13
    BY <1>1, ExtentOK
  <2>2. Justified(failure', bytecode)
    <3>1. CASE failure' = "ErrShortBytecodeHeader"
      BY <1>1, <1>3, <2>1, <3>1, ShortJustified DEF Shorts
    <3>2. CASE failure' # "ErrShortBytecodeHeader"
      <4>1. ASSUME NEW c, Extends(c, bytecode), WellFormed(c) PROVE FALSE
        <5>1. /\ At(c, 3) = KindTypes /\ Uint(c, 4, 2) = 4 * Codes(c)
              /\ Codes(c) > 0 /\ 4 * Codes(c) <= MaxTypesSize /\ Codes(c) \in Nat
              /\ MaxTypesSize \in Nat
          BY <1>2, <4>1, FormatAssumption DEF WellFormed
        <5>2. (4 * Codes(c)) % 4 = 0
          BY <5>1
        <5> HIDE DEF size
        <5> QED  BY <1>1, <1>2, <1>3, <1>6, <3>2, <4>1, <5>1, <5>2
      <4> QED  BY <1>3, <1>6, <3>2, <4>1, WrongJustified DEF Shorts
    <3> QED  BY <3>1, <3>2
  <2> QED  BY <1>1, <1>4, <1>6, <2>2, RefusedOK DEF TypesSize, Read
<1> QED  BY <1>5, <1>6

LEMMA NumCodeFormat ==
    ASSUME EofInv, FormatInv, NumCode
    PROVE  FormatInv'
<1> DEFINE num == Uint16(7)
<1>1. /\ stage = "numCode" /\ offset = 6 /\ UNCHANGED <<bytecode, container>>
      /\ bytecode \in Bytes /\ Len(bytecode) \in Nat /\ Typed /\ num \in Nat
      /\ Short(1) <=> Len(bytecode) < 7
      /\ Short(3) <=> Len(bytecode) < 9
      /\ header.typesSize \in Nat /\ header.typesSize % 4 = 0
      /\ header.codeSizes = <<>> /\ header.containerSizes = <<>> /\ header.numContainers = 0
  BY ReadsNumbers, SMTT(30)
     DEF NumCode, Read, HeaderBecomes, EofInv, Typed, Bytes, Header, FormatInv, Position, Short,
         TypesMatchCode, CodeSizesCounted, ContainerSizesCounted
<1>2. ASSUME NEW c, Extends(c, bytecode)
      PROVE  /\ c \in Bytes /\ Told(c)
             /\ ~Short(1) => At(c, 6) = ByteAt(6)
             /\ ~Short(3) => Codes(c) = num
  BY <1>1, <1>2, ExtendsReads DEF FormatInv, Codes
<1>3. \/ failure' = "none" /\ ~Short(3) /\ ByteAt(6) = KindCode /\ num \in 1 .. MaxCodeSections
      \/ failure' = "ErrShortBytecodeHeader" /\ Len(bytecode) < 9
      \/ failure' = "ErrInvalidKindMarker" /\ ~Short(1) /\ ByteAt(6) # KindCode
      \/ failure' = "ErrZeroCodeSections" /\ ~Short(3) /\ num = 0
      \/ failure' = "ErrCodeSectionMismatch" /\ ~Short(3) /\ num # header.typesSize \div 4
      \/ failure' = "ErrInvalidSectionSize" /\ ~Short(3) /\ num > MaxCodeSections
  <2> DEFINE c1 == Short(1)
             c2 == ByteAt(6) # KindCode
             c3 == Short(3)
             c4 == num = 0
             c5 == num # header.typesSize \div 4
             c6 == num > MaxCodeSections
  <2>1. failure' = FirstFailing(<<<<c1, "ErrShortBytecodeHeader">>, <<c2, "ErrInvalidKindMarker">>,
                                  <<c3, "ErrShortBytecodeHeader">>, <<c4, "ErrZeroCodeSections">>,
                                  <<c5, "ErrCodeSectionMismatch">>,
                                  <<c6, "ErrInvalidSectionSize">>>>)
    BY <1>1 DEF NumCode, Read, TooShort, Marker
  <2> HIDE DEF c1, c2, c3, c4, c5, c6
  <2>2. \/ failure' = "none" /\ ~c1 /\ ~c2 /\ ~c3 /\ ~c4 /\ ~c5 /\ ~c6
        \/ failure' = "ErrShortBytecodeHeader" /\ (c1 \/ c3)
        \/ failure' = "ErrInvalidKindMarker" /\ ~c1 /\ c2
        \/ failure' = "ErrZeroCodeSections" /\ ~c1 /\ ~c2 /\ ~c3 /\ c4
        \/ failure' = "ErrCodeSectionMismatch" /\ ~c1 /\ ~c2 /\ ~c3 /\ c5
        \/ failure' = "ErrInvalidSectionSize" /\ ~c1 /\ ~c2 /\ ~c3 /\ c6
    BY <2>1, FirstOf6
  <2>3. MaxCodeSections \in Nat
    BY FormatAssumption
  <2> QED  BY <1>1, <2>2, <2>3 DEF c1, c2, c3, c4, c5, c6
<1>4. header' = IF failure' = "none" THEN [header EXCEPT !.numCode = num] ELSE header
  BY <1>1 DEF NumCode, HeaderBecomes, Keep
<1>5. CASE failure' = "none"
  <2>1. stage' = "codeSizes" /\ offset' = 9
    BY <1>1, <1>5 DEF NumCode, Read
  <2>2. /\ header'.numCode = num /\ header'.typesSize = header.typesSize
        /\ header'.codeSizes = header.codeSizes
        /\ header'.codeTotal = header.codeTotal
        /\ header'.numContainers = header.numContainers
        /\ header'.containerSizes = header.containerSizes
        /\ header'.containerTotal = header.containerTotal
    BY <1>4, <1>5 DEF EofInv, Typed, Header
  <2> HIDE DEF num
  <2>3. ASSUME NEW c, Extends(c, bytecode)' PROVE Told(c)'
    <3>1. Extends(c, bytecode)
      BY <1>1, <2>3 DEF Extends
    <3> QED
      BY <1>1, <1>2, <1>3, <1>5, <2>1, <2>2, <3>1
         DEF Told, PrefixRead, TypesSizeRead, NumCodeRead, CodeSizesRead, ContainersRead,
             DataSizeRead, EndRead, TypesRead, Stages, PastPrefix, PastTypesSize, PastNumCode,
             PastEnd, PastDataSize, Body
  <2> QED
    BY <1>1, <2>1, <2>2, <2>3
       DEF FormatInv, Position, Totals, Measured, TypesCounted, Verdict, Body, PastTypes, PastEnd
<1>6. CASE failure' # "none"
  <2>1. Extent(bytecode) \in Nat /\ Extent(bytecode) >= 13
    BY <1>1, ExtentOK
  <2>2. Justified(failure', bytecode)
    <3>1. CASE failure' = "ErrShortBytecodeHeader"
      BY <1>1, <1>3, <2>1, <3>1, ShortJustified DEF Shorts
    <3>2. CASE failure' # "ErrShortBytecodeHeader"
      <4>1. ASSUME NEW c, Extends(c, bytecode), WellFormed(c) PROVE FALSE
        <5>1. /\ At(c, 6) = KindCode /\ Codes(c) \in 1 .. MaxCodeSections /\ MaxCodeSections \in Nat
              /\ Uint(c, 4, 2) = 4 * Codes(c)
          BY <4>1, FormatAssumption DEF WellFormed
        <5>2. Uint(c, 4, 2) = header.typesSize
          BY <1>1, <1>2, <4>1 DEF Told, TypesSizeRead, Stages, PastPrefix, PastTypesSize
        <5> HIDE DEF num
        <5> QED  BY <1>1, <1>2, <1>3, <1>6, <3>2, <4>1, <5>1, <5>2
      <4> QED  BY <1>3, <1>6, <3>2, <4>1, WrongJustified DEF Shorts
    <3> QED  BY <3>1, <3>2
  <2> QED  BY <1>1, <1>4, <1>6, <2>2, RefusedOK DEF NumCode, Read
<1> QED  BY <1>5, <1>6

LEMMA TotalAppend ==
    ASSUME NEW s \in Seq(Nat), NEW x \in Nat
    PROVE  Total(Append(s, x), Len(Append(s, x))) = Total(s, Len(s)) + x
<1> DEFINE t == Append(s, x)
<1>1. /\ Len(s) \in Nat /\ Len(t) = Len(s) + 1 /\ t[Len(s) + 1] = x
      /\ \A k \in 1 .. Len(s) : t[k] = s[k]
  OBVIOUS
<1> HIDE DEF t
<1>2. Total(t, Len(s)) = Total(s, Len(s))
  BY <1>1, TotalSame
<1>3. Total(t, Len(s) + 1) = Total(t, Len(s)) + t[Len(s) + 1]
  BY <1>1, TotalRec
<1> QED  BY <1>1, <1>2, <1>3 DEF t

LEMMA CodeSizeFormat ==
    ASSUME EofInv, FormatInv, CodeSize
    PROVE  FormatInv'
<1> DEFINE n == Len(header.codeSizes)
           size == Uint16(9 + 2 * n)
           sizes == Append(header.codeSizes, size)
<1>1. /\ stage = "codeSizes" /\ UNCHANGED <<bytecode, container>>
      /\ bytecode \in Bytes /\ Len(bytecode) \in Nat /\ Typed
      /\ header.codeSizes \in Seq(Nat) /\ n \in Nat /\ header.numCode \in Nat /\ n < header.numCode
      /\ offset = 9 + 2 * n
  BY DEF CodeSize, Read, HeaderBecomes, EofInv, Typed, Bytes, Header, FormatInv, Position,
         CodeSizesCounted
<1>2. size \in Nat /\ (Short(2) <=> Len(bytecode) < 9 + 2 * n + 2)
  <2>1. 9 + 2 * n \in Nat
    BY <1>1
  <2> QED  BY <1>1, <2>1, ReadsNumbers DEF Short
<1>3. ASSUME NEW c, Extends(c, bytecode)
      PROVE  /\ c \in Bytes /\ Told(c) /\ Codes(c) = header.numCode
             /\ ~Short(2) => Uint(c, 7 + 2 * (n + 1), 2) = size
  <2>1. 9 + 2 * n \in Nat /\ 7 + 2 * (n + 1) = 9 + 2 * n
    BY <1>1
  <2> HIDE DEF n
  <2>2. c \in Bytes /\ (~Short(2) => Uint(c, 9 + 2 * n, 2) = Uint16(9 + 2 * n))
    BY <1>1, <1>2, <1>3, <2>1, ExtendsReads
  <2> QED
    BY <1>1, <1>3, <2>1, <2>2
       DEF FormatInv, Told, NumCodeRead, Stages, PastPrefix, PastTypesSize, PastNumCode
<1>4. \/ failure' = "none" /\ ~Short(2) /\ size # 0
      \/ failure' = "ErrShortBytecodeHeader" /\ Short(2)
      \/ failure' = "ErrInvalidCodeSectionSize" /\ ~Short(2) /\ size = 0
  <2> DEFINE c1 == Short(2)
             c2 == size = 0
  <2>1. failure' = FirstFailing(<<<<c1, "ErrShortBytecodeHeader">>,
                                  <<c2, "ErrInvalidCodeSectionSize">>>>)
    BY <1>1 DEF CodeSize, Read, TooShort
  <2> HIDE DEF c1, c2
  <2>2. \/ failure' = "none" /\ ~c1 /\ ~c2
        \/ failure' = "ErrShortBytecodeHeader" /\ c1
        \/ failure' = "ErrInvalidCodeSectionSize" /\ ~c1 /\ c2
    BY <2>1, FirstOf2
  <2> QED  BY <2>2 DEF c1, c2
<1>5. CASE failure' = "none"
  <2>1. /\ stage' = IF n + 1 < header.numCode THEN "codeSizes" ELSE "containerKind"
        /\ offset' = 9 + 2 * (n + 1)
    BY <1>1, <1>5 DEF CodeSize, Read
  <2>2. header' = [header EXCEPT !.codeSizes = sizes, !.codeTotal = header.codeTotal + size]
    BY <1>1, <1>5 DEF CodeSize, HeaderBecomes, Keep
  <2>3. /\ sizes \in Seq(Nat) /\ Len(sizes) = n + 1 /\ sizes[n + 1] = size
        /\ \A k \in 1 .. n : sizes[k] = header.codeSizes[k]
    BY <1>1, <1>2
  <2>4. Total(sizes, Len(sizes)) = header.codeTotal + size
    BY <1>1, <1>2, TotalAppend DEF FormatInv, Totals
  <2> HIDE DEF sizes, size
  <2>5. /\ header'.codeSizes = sizes /\ header'.codeTotal = header.codeTotal + size
        /\ header'.typesSize = header.typesSize /\ header'.numCode = header.numCode
        /\ header'.numContainers = header.numContainers
        /\ header'.containerSizes = header.containerSizes
        /\ header'.containerTotal = header.containerTotal
    BY <2>2 DEF EofInv, Typed, Header
  <2>6. ASSUME NEW c, Extends(c, bytecode)' PROVE Told(c)'
    <3>1. Extends(c, bytecode) /\ Told(c)
      BY <1>1, <1>3, <2>6 DEF Extends
    <3>2. CodeSizesRead(c)'
      <4> SUFFICES ASSUME NEW k \in 1 .. (n + 1)
                   PROVE  sizes[k] = Uint(c, 7 + 2 * k, 2) /\ sizes[k] > 0
        BY <2>3, <2>5 DEF CodeSizesRead
      <4>1. CASE k = n + 1
        BY <1>2, <1>3, <1>4, <1>5, <2>3, <3>1, <4>1
      <4>2. CASE k # n + 1
        <5>1. k \in 1 .. n
          BY <1>1, <4>2
        <5> QED
          BY <1>1, <2>3, <3>1, <5>1
             DEF Told, CodeSizesRead, Stages, PastPrefix, PastTypesSize, PastNumCode
      <4> QED  BY <4>1, <4>2
    <3> QED
      BY <1>1, <2>1, <2>5, <3>1, <3>2
         DEF Told, PrefixRead, TypesSizeRead, NumCodeRead, ContainersRead,
             DataSizeRead, EndRead, TypesRead, Stages, PastPrefix, PastTypesSize, PastNumCode,
             PastEnd, PastDataSize, Body
  <2>7. Position'
    <3> HIDE DEF n
    <3>1. CASE n + 1 < header.numCode
      <4>1. stage' = "codeSizes" /\ offset' = 9 + 2 * Len(header'.codeSizes)
        BY <2>1, <2>3, <2>5, <3>1
      <4> QED  BY <4>1 DEF Position
    <3>2. CASE ~(n + 1 < header.numCode)
      <4>1. n + 1 = header.numCode
        BY <1>1, <3>2
      <4>2. stage' = "containerKind" /\ offset' = 9 + 2 * header'.numCode
        BY <2>1, <2>5, <3>2, <4>1
      <4> QED  BY <4>2 DEF Position, KindPos
    <3> QED  BY <3>1, <3>2
  <2>8. Totals'
    BY <2>4, <2>5 DEF FormatInv, Totals
  <2> QED
    BY <1>1, <2>1, <2>6, <2>7, <2>8
       DEF FormatInv, Measured, TypesCounted, Verdict, Body, PastTypes, PastEnd
<1>6. CASE failure' # "none"
  <2>1. Extends(bytecode, bytecode) /\ Codes(bytecode) = header.numCode
    BY <1>1, <1>3, ExtendsSelf
  <2>2. Extent(bytecode) \in Nat /\ Extent(bytecode) >= 13 + 2 * header.numCode
    <3>1. /\ Extent(bytecode) \in Nat /\ DataAt(bytecode) \in Nat
          /\ DataAt(bytecode) >= 9 + 2 * Codes(bytecode)
          /\ Extent(bytecode) >= DataAt(bytecode) + 4 + 4 * Codes(bytecode)
      BY <1>1, PlacesOK
    <3> QED  BY <1>1, <2>1, <3>1, SMTT(30)
  <2>3. Justified(failure', bytecode)
    <3>1. CASE failure' = "ErrShortBytecodeHeader"
      <4> HIDE DEF n, size
      <4>1. Extent(bytecode) > Len(bytecode)
        BY <1>1, <1>2, <1>4, <2>2, <3>1
      <4> QED  BY <1>1, <3>1, <4>1, ShortJustified DEF Shorts
    <3>2. CASE failure' # "ErrShortBytecodeHeader"
      <4>1. ASSUME NEW c, Extends(c, bytecode), WellFormed(c) PROVE FALSE
        <5>1. n + 1 \in 1 .. Codes(c) /\ c \in Bytes /\ Uint(c, 7 + 2 * (n + 1), 2) = 0
          BY <1>1, <1>3, <1>4, <1>6, <3>2, <4>1
        <5> HIDE DEF n
        <5>2. CodeSizes(c)[n + 1] > 0 /\ CodeSizes(c)[n + 1] = 0
          BY <4>1, <5>1, SizesOK DEF WellFormed
        <5> QED  BY <5>2
      <4> QED  BY <1>4, <1>6, <3>2, <4>1, WrongJustified DEF Shorts
    <3> QED  BY <3>1, <3>2
  <2>4. header' = header
    BY <1>6 DEF CodeSize, HeaderBecomes, Keep
  <2> QED  BY <1>1, <1>6, <2>3, <2>4, RefusedOK DEF CodeSize, Read
<1> QED  BY <1>5, <1>6

LEMMA NumContainersFormat ==
    ASSUME EofInv, FormatInv, NumContainers
    PROVE  FormatInv'
<1> DEFINE num == Uint16(offset + 1)
<1>1. /\ stage = "containerKind" /\ UNCHANGED <<bytecode, container>>
      /\ bytecode \in Bytes /\ Len(bytecode) \in Nat /\ Typed
      /\ header.numCode \in Nat /\ offset = 9 + 2 * header.numCode /\ offset \in Nat
      /\ offset < Len(bytecode) /\ bytecode[offset + 1] = KindContainer
      /\ header.containerSizes = <<>> /\ header.numContainers = 0
  BY DEF NumContainers, HasContainers, Read, HeaderBecomes, EofInv, Typed, Bytes, Header,
         FormatInv, Position, KindPos, ContainerSizesCounted
<1>2. /\ num \in Nat /\ (Short(3) <=> Len(bytecode) < offset + 3)
      /\ ByteAt(offset) = KindContainer
  <2>1. offset + 1 \in Nat
    BY <1>1
  <2> QED  BY <1>1, <2>1, ReadsNumbers DEF Short, ByteAt
<1>3. ASSUME NEW c, Extends(c, bytecode)
      PROVE  /\ c \in Bytes /\ Told(c) /\ Codes(c) = header.numCode
             /\ Nested(c)
             /\ ~Short(3) => Containers(c) = num
  <2>1. c \in Bytes /\ At(c, offset) = KindContainer
    BY <1>1, <1>2, <1>3, ExtendsReads
  <2>2. Told(c) /\ Codes(c) = header.numCode
    BY <1>1, <1>3
       DEF FormatInv, Told, NumCodeRead, Stages, PastPrefix, PastTypesSize, PastNumCode
  <2>3. KindAt(c) = offset
    BY <1>1, <2>2 DEF KindAt
  <2>4. Nested(c) /\ Containers(c) = Uint(c, offset + 1, 2)
    BY <2>1, <2>3 DEF Nested, Containers
  <2>5. ~Short(3) => Uint(c, offset + 1, 2) = num
    <3>1. offset + 1 \in Nat /\ (~Short(3) => offset + 1 + 1 < Len(bytecode))
      BY <1>1, <1>2, SMTT(30)
    <3> HIDE DEF num
    <3> QED  BY <1>1, <1>3, <3>1, ExtendsReads DEF num
  <2> QED  BY <2>1, <2>2, <2>4, <2>5
<1>4. \/ failure' = "none" /\ ~Short(3) /\ num \in 1 .. MaxContainerSections
      \/ failure' = "ErrShortBytecodeHeader" /\ Short(3)
      \/ failure' = "ErrZeroContainerSections" /\ ~Short(3) /\ num = 0
      \/ failure' = "ErrInvalidSectionSize" /\ ~Short(3) /\ num > MaxContainerSections
  <2> DEFINE c1 == Short(3)
             c2 == num = 0
             c3 == num > MaxContainerSections
  <2>1. failure' = FirstFailing(<<<<c1, "ErrShortBytecodeHeader">>,
                                  <<c2, "ErrZeroContainerSections">>,
                                  <<c3, "ErrInvalidSectionSize">>>>)
    BY <1>1 DEF NumContainers, Read, TooShort
  <2> HIDE DEF c1, c2, c3
  <2>2. \/ failure' = "none" /\ ~c1 /\ ~c2 /\ ~c3
        \/ failure' = "ErrShortBytecodeHeader" /\ c1
        \/ failure' = "ErrZeroContainerSections" /\ ~c1 /\ c2
        \/ failure' = "ErrInvalidSectionSize" /\ ~c1 /\ ~c2 /\ c3
    BY <2>1, FirstOf3
  <2>3. MaxContainerSections \in Nat
    BY FormatAssumption
  <2> HIDE DEF num
  <2> QED  BY <1>2, <2>2, <2>3 DEF c1, c2, c3
<1>5. CASE failure' = "none"
  <2>1. stage' = "containerSizes" /\ offset' = offset + 3
    BY <1>1, <1>5 DEF NumContainers, Read
  <2>2. header' = [header EXCEPT !.numContainers = num]
    BY <1>1, <1>5 DEF NumContainers, HeaderBecomes, Keep
  <2> HIDE DEF num
  <2>3. /\ header'.numContainers = num /\ header'.numCode = header.numCode
        /\ header'.typesSize = header.typesSize
        /\ header'.codeSizes = header.codeSizes
        /\ header'.codeTotal = header.codeTotal
        /\ header'.containerSizes = header.containerSizes
        /\ header'.containerTotal = header.containerTotal
    BY <2>2 DEF EofInv, Typed, Header
  <2>4. num > 0 /\ num <= MaxContainerSections
    BY <1>4, <1>5
  <2>5. ASSUME NEW c, Extends(c, bytecode)' PROVE Told(c)'
    <3>1. Extends(c, bytecode)
      BY <1>1, <2>5 DEF Extends
    <3>2. Told(c) /\ Nested(c) /\ Containers(c) = num
      BY <1>3, <1>4, <1>5, <3>1
    <3> QED
      BY <1>1, <2>1, <2>3, <2>4, <3>2
         DEF Told, PrefixRead, TypesSizeRead, NumCodeRead, CodeSizesRead, ContainersRead,
             DataSizeRead, EndRead, TypesRead, Stages, PastPrefix, PastTypesSize, PastNumCode,
             PastEnd, PastDataSize, Body
  <2>6. Position'
    BY <1>1, <2>1, <2>3 DEF Position, KindPos
  <2> QED
    BY <1>1, <2>1, <2>3, <2>5, <2>6
       DEF FormatInv, Totals, Measured, TypesCounted, Verdict, Body, PastTypes, PastEnd
<1>6. CASE failure' # "none"
  <2>1. Extends(bytecode, bytecode)
    BY <1>1, ExtendsSelf
  <2>2. Extent(bytecode) \in Nat /\ Extent(bytecode) >= offset + 3
    <3> DEFINE kinds == Codes(bytecode)
               num0  == Containers(bytecode)
    <3>1. /\ Extent(bytecode) \in Nat /\ DataAt(bytecode) \in Nat /\ kinds \in Nat /\ num0 \in Nat
          /\ Extent(bytecode) >= DataAt(bytecode) + 4 + 4 * kinds
          /\ DataAt(bytecode) = 9 + 2 * kinds + 3 + 4 * num0
          /\ offset = 9 + 2 * kinds
      BY <1>1, <1>3, <2>1, PlacesOK
    <3> HIDE DEF kinds, num0
    <3> QED  BY <3>1
  <2>3. Justified(failure', bytecode)
    <3> HIDE DEF num
    <3>1. CASE failure' = "ErrShortBytecodeHeader"
      <4>1. Extent(bytecode) > Len(bytecode)
        BY <1>1, <1>2, <1>4, <2>2, <3>1
      <4> QED  BY <1>1, <3>1, <4>1, ShortJustified DEF Shorts
    <3>2. CASE failure' # "ErrShortBytecodeHeader"
      <4>1. ASSUME NEW c, Extends(c, bytecode), WellFormed(c) PROVE FALSE
        <5>1. Containers(c) \in 1 .. MaxContainerSections /\ Containers(c) = num
          BY <1>3, <1>4, <1>6, <3>2, <4>1 DEF WellFormed
        <5> QED  BY <1>2, <1>4, <1>6, <3>2, <5>1, FormatAssumption
      <4> QED  BY <1>4, <1>6, <3>2, <4>1, WrongJustified DEF Shorts
    <3> QED  BY <3>1, <3>2
  <2>4. header' = header
    BY <1>6 DEF NumContainers, HeaderBecomes, Keep
  <2> QED  BY <1>1, <1>6, <2>3, <2>4, RefusedOK DEF NumContainers, Read
<1> QED  BY <1>5, <1>6

LEMMA NoContainersFormat ==
    ASSUME EofInv, FormatInv, NoContainers
    PROVE  FormatInv'
<1>1. FirstFailing(<<>>) = "none"
  <2>1. DOMAIN <<>> = {}
    OBVIOUS
  <2> QED  BY <2>1 DEF FirstFailing
<1>2. /\ stage = "containerKind" /\ UNCHANGED <<bytecode, header, container>> /\ ~HasContainers
      /\ stage' = "dataSize" /\ offset' = offset + 0
      /\ offset = KindPos /\ offset \in Nat /\ header.numContainers = 0
  BY <1>1 DEF NoContainers, Read, EofInv, Typed, Header, FormatInv, Position, ContainerSizesCounted
<1>3. offset' = offset
  BY <1>2
<1>4. ASSUME NEW c, Extends(c, bytecode)' PROVE Told(c)'
  <2>1. Extends(c, bytecode) /\ Told(c)
    BY <1>2, <1>4 DEF Extends, FormatInv
  <2> QED
    BY <1>2, <2>1
       DEF Told, PrefixRead, TypesSizeRead, NumCodeRead, CodeSizesRead, ContainersRead,
           DataSizeRead, EndRead, TypesRead, Stages, PastPrefix, PastTypesSize, PastNumCode,
           PastEnd, PastDataSize, Body
<1>5. Position'
  BY <1>2, <1>3 DEF Position, KindPos, DataPos, HasContainers
<1> QED
  BY <1>2, <1>4, <1>5
     DEF FormatInv, Totals, Measured, TypesCounted, Verdict, Body, PastTypes, PastEnd

LEMMA ContainerSizeFormat ==
    ASSUME EofInv, FormatInv, ContainerSize
    PROVE  FormatInv'
<1> DEFINE n == Len(header.containerSizes)
           size == Uint32(offset)
           sizes == Append(header.containerSizes, size)
<1>1. /\ stage = "containerSizes" /\ UNCHANGED <<bytecode, container>>
      /\ bytecode \in Bytes /\ Len(bytecode) \in Nat /\ Typed
      /\ header.containerSizes \in Seq(Nat) /\ n \in Nat /\ header.numContainers \in Nat
      /\ n < header.numContainers /\ header.numCode \in Nat
      /\ offset = 9 + 2 * header.numCode + 3 + 4 * n /\ offset \in Nat
  <2>1. stage = "containerSizes" /\ UNCHANGED <<bytecode, container>> /\ Typed
    BY DEF ContainerSize, Read, HeaderBecomes, EofInv
  <2>2. /\ bytecode \in Bytes /\ Len(bytecode) \in Nat /\ offset \in Nat
        /\ header.containerSizes \in Seq(Nat) /\ n \in Nat /\ header.numContainers \in Nat
        /\ header.numCode \in Nat
    BY <2>1 DEF Typed, Bytes, Header
  <2>3. n < header.numContainers /\ offset = KindPos + 3 + 4 * n
    BY <2>1 DEF EofInv, FormatInv, Position, ContainerSizesCounted
  <2> HIDE DEF n
  <2> QED  BY <2>1, <2>2, <2>3 DEF KindPos
<1>2. size \in Nat /\ (Short(4) <=> Len(bytecode) < offset + 4)
  BY <1>1, ReadsNumbers DEF Short
<1>3. ASSUME NEW c, Extends(c, bytecode)
      PROVE  /\ c \in Bytes /\ Told(c) /\ Codes(c) = header.numCode
             /\ Nested(c) /\ Containers(c) = header.numContainers
             /\ ~Short(4) => Uint(c, KindAt(c) - 1 + 4 * (n + 1), 4) = size
  <2>1. /\ Told(c) /\ Codes(c) = header.numCode /\ Nested(c)
        /\ Containers(c) = header.numContainers
    <3> HIDE DEF n
    <3>1. header.numContainers > 0
      BY <1>1
    <3> QED
      BY <1>1, <1>3, <3>1
         DEF FormatInv, Told, NumCodeRead, ContainersRead, Stages, PastPrefix, PastTypesSize,
             PastNumCode
  <2>2. KindAt(c) - 1 + 4 * (n + 1) = offset
    <3> HIDE DEF n
    <3> QED  BY <1>1, <2>1 DEF KindAt
  <2>3. c \in Bytes /\ (~Short(4) => Uint(c, offset, 4) = size)
    <3>1. ~Short(4) => offset + 3 < Len(bytecode)
      BY <1>1, <1>2
    <3> HIDE DEF size
    <3> QED  BY <1>1, <1>3, <3>1, ExtendsReads DEF size
  <2> QED  BY <2>1, <2>2, <2>3
<1>4. \/ failure' = "none" /\ ~Short(4) /\ size # 0
      \/ failure' = "ErrShortBytecodeHeader" /\ Short(4)
      \/ failure' = "ErrInvalidContainerSectionSize" /\ ~Short(4) /\ size = 0
  <2> DEFINE c1 == Short(4)
             c2 == size = 0
  <2>1. failure' = FirstFailing(<<<<c1, "ErrShortBytecodeHeader">>,
                                  <<c2, "ErrInvalidContainerSectionSize">>>>)
    BY <1>1 DEF ContainerSize, Read, TooShort
  <2> HIDE DEF c1, c2
  <2>2. \/ failure' = "none" /\ ~c1 /\ ~c2
        \/ failure' = "ErrShortBytecodeHeader" /\ c1
        \/ failure' = "ErrInvalidContainerSectionSize" /\ ~c1 /\ c2
    BY <2>1, FirstOf2
  <2> QED  BY <2>2 DEF c1, c2
<1>5. CASE failure' = "none"
  <2>1. /\ stage' = IF n + 1 < header.numContainers THEN "containerSizes" ELSE "dataSize"
        /\ offset' = offset + 4
    BY <1>1, <1>5 DEF ContainerSize, Read
  <2>2. header' = [header EXCEPT !.containerSizes = sizes,
                                 !.containerTotal = header.containerTotal + size]
    BY <1>1, <1>5 DEF ContainerSize, HeaderBecomes, Keep
  <2>3. /\ sizes \in Seq(Nat) /\ Len(sizes) = n + 1 /\ sizes[n + 1] = size
        /\ \A k \in 1 .. n : sizes[k] = header.containerSizes[k]
    BY <1>1, <1>2, SMTT(30)
  <2>4. Total(sizes, Len(sizes)) = header.containerTotal + size
    BY <1>1, <1>2, TotalAppend DEF FormatInv, Totals
  <2> HIDE DEF sizes, size
  <2>5. /\ header'.containerSizes = sizes /\ header'.containerTotal = header.containerTotal + size
        /\ header'.typesSize = header.typesSize /\ header'.numCode = header.numCode
        /\ header'.numContainers = header.numContainers
        /\ header'.codeSizes = header.codeSizes
        /\ header'.codeTotal = header.codeTotal
    BY <2>2 DEF EofInv, Typed, Header
  <2>6. ASSUME NEW c, Extends(c, bytecode)' PROVE Told(c)'
    <3>1. Extends(c, bytecode) /\ Told(c)
      BY <1>1, <1>3, <2>6 DEF Extends
    <3>2. /\ header.numContainers > 0 =>
                Nested(c) /\ Containers(c) = header.numContainers
                  /\ header.numContainers <= MaxContainerSections
          /\ \A k \in 1 .. n :
                /\ header.containerSizes[k] = Uint(c, KindAt(c) - 1 + 4 * k, 4)
                /\ header.containerSizes[k] > 0
      BY <1>1, <3>1
         DEF Told, ContainersRead, Stages, PastPrefix, PastTypesSize, PastNumCode
    <3>3. ASSUME NEW k \in 1 .. (n + 1)
          PROVE  sizes[k] = Uint(c, KindAt(c) - 1 + 4 * k, 4) /\ sizes[k] > 0
      <4>1. CASE k = n + 1
        BY <1>2, <1>3, <1>4, <1>5, <2>3, <3>1, <4>1
      <4>2. CASE k # n + 1
        <5>1. k \in 1 .. n
          BY <1>1, <4>2, SMTT(30)
        <5> QED  BY <2>3, <3>2, <5>1
      <4> QED  BY <4>1, <4>2
    <3>4. ContainersRead(c)'
      BY <2>3, <2>5, <3>2, <3>3 DEF ContainersRead
    <3> QED
      BY <1>1, <2>1, <2>5, <3>1, <3>4
         DEF Told, PrefixRead, TypesSizeRead, NumCodeRead, CodeSizesRead,
             DataSizeRead, EndRead, TypesRead, Stages, PastPrefix, PastTypesSize, PastNumCode,
             PastEnd, PastDataSize, Body
  <2>7. Position'
    <3> HIDE DEF n
    <3>1. offset' = 9 + 2 * header.numCode + 3 + 4 * (n + 1)
      BY <1>1, <2>1, SMTT(30)
    <3>2. CASE n + 1 < header.numContainers
      <4>1. /\ stage' = "containerSizes"
            /\ offset' = 9 + 2 * header'.numCode + 3 + 4 * Len(header'.containerSizes)
        BY <2>1, <2>3, <2>5, <3>1, <3>2
      <4> QED  BY <4>1 DEF Position, KindPos
    <3>3. CASE ~(n + 1 < header.numContainers)
      <4>1. n + 1 = header.numContainers
        BY <1>1, <3>3
      <4>2. header'.numContainers = header.numContainers /\ header'.numCode = header.numCode
        BY <2>5
      <4>3. stage' = "dataSize" /\ header.numContainers > 0
        BY <1>1, <2>1, <3>3, <4>1
      <4>4. offset' = 9 + 2 * header'.numCode + 3 + 4 * header'.numContainers
        BY <3>1, <4>1, <4>2
      <4> QED  BY <4>2, <4>3, <4>4 DEF Position, KindPos, DataPos
    <3> QED  BY <3>2, <3>3
  <2>8. Totals'
    BY <2>4, <2>5 DEF FormatInv, Totals
  <2> QED
    BY <1>1, <2>1, <2>6, <2>7, <2>8
       DEF FormatInv, Measured, TypesCounted, Verdict, Body, PastTypes, PastEnd
<1>6. CASE failure' # "none"
  <2>1. Extends(bytecode, bytecode)
    BY <1>1, ExtendsSelf
  <2>2. Extent(bytecode) \in Nat /\ Extent(bytecode) >= offset + 4
    <3> DEFINE end   == Extent(bytecode)
               data  == DataAt(bytecode)
               kinds == header.numCode
               inner == header.numContainers
    <3>1. /\ end \in Nat /\ data \in Nat /\ kinds \in Nat /\ inner \in Nat
          /\ end >= data + 4 + 4 * kinds
          /\ data = 9 + 2 * kinds + 3 + 4 * inner
      BY <1>1, <1>3, <2>1, PlacesOK
    <3>2. n \in Nat /\ n < inner /\ offset = 9 + 2 * kinds + 3 + 4 * n
      BY <1>1
    <3> HIDE DEF n, end, data, kinds, inner
    <3>3. end >= offset + 4
      BY <3>1, <3>2
    <3> QED  BY <3>1, <3>3 DEF end
  <2>3. Justified(failure', bytecode)
    <3>1. CASE failure' = "ErrShortBytecodeHeader"
      <4> HIDE DEF n, size
      <4>1. Extent(bytecode) > Len(bytecode)
        BY <1>1, <1>2, <1>4, <2>2, <3>1
      <4> QED  BY <1>1, <3>1, <4>1, ShortJustified DEF Shorts
    <3>2. CASE failure' # "ErrShortBytecodeHeader"
      <4>1. ASSUME NEW c, Extends(c, bytecode), WellFormed(c) PROVE FALSE
        <5>1. /\ n + 1 \in 1 .. Containers(c) /\ c \in Bytes
              /\ Uint(c, KindAt(c) - 1 + 4 * (n + 1), 4) = 0
          <6> HIDE DEF n, size
          <6>1. n + 1 \in 1 .. header.numContainers
            BY <1>1
          <6>2. ~Short(4) /\ size = 0
            BY <1>4, <1>6, <3>2
          <6> QED  BY <1>3, <4>1, <6>1, <6>2
        <5> HIDE DEF n
        <5>2. ContainerSizes(c)[n + 1] > 0 /\ ContainerSizes(c)[n + 1] = 0
          BY <4>1, <5>1, SizesOK DEF WellFormed
        <5> QED  BY <5>2
      <4> QED  BY <1>4, <1>6, <3>2, <4>1, WrongJustified DEF Shorts
    <3> QED  BY <3>1, <3>2
  <2>4. header' = header
    BY <1>6 DEF ContainerSize, HeaderBecomes, Keep
  <2> QED  BY <1>1, <1>6, <2>3, <2>4, RefusedOK DEF ContainerSize, Read
<1> QED  BY <1>5, <1>6

LEMMA DataSizeFormat ==
    ASSUME EofInv, FormatInv, DataSize
    PROVE  FormatInv'
<1> DEFINE size == Uint16(offset + 1)
<1>1. /\ stage = "dataSize" /\ UNCHANGED <<bytecode, container>>
      /\ bytecode \in Bytes /\ Len(bytecode) \in Nat /\ Typed
      /\ header.numCode \in Nat /\ header.numContainers \in Nat
      /\ offset = DataPos /\ offset \in Nat /\ (header.numContainers = 0 => ~HasContainers)
  BY DEF DataSize, Read, HeaderBecomes, EofInv, Typed, Bytes, Header, FormatInv, Position
<1>2. size \in Nat /\ (Short(1) <=> Len(bytecode) < offset + 1)
      /\ (Short(3) <=> Len(bytecode) < offset + 3)
  <2>1. offset + 1 \in Nat
    BY <1>1
  <2> QED  BY <1>1, <2>1, ReadsNumbers DEF Short
<1>3. ASSUME NEW c, Extends(c, bytecode)
      PROVE  /\ c \in Bytes /\ Told(c) /\ DataAt(c) \in Nat /\ DataAt(c) >= offset
             /\ Extent(c) \in Nat /\ Extent(c) >= DataAt(c) + 4
             /\ ~Short(1) => /\ DataAt(c) = offset /\ At(c, offset) = ByteAt(offset)
                             /\ header.numContainers = 0 => ~Nested(c)
             /\ ~Short(3) => Uint(c, DataAt(c) + 1, 2) = size
  <2>1. /\ Told(c) /\ Codes(c) = header.numCode
        /\ header.numContainers > 0 => Nested(c) /\ Containers(c) = header.numContainers
    BY <1>1, <1>3
       DEF FormatInv, Told, NumCodeRead, ContainersRead, Stages, PastPrefix, PastTypesSize,
           PastNumCode
  <2>2. c \in Bytes /\ (~Short(1) => At(c, offset) = ByteAt(offset))
    BY <1>1, <1>2, <1>3, ExtendsReads
  <2>3. ASSUME header.numContainers = 0, ~Short(1)
        PROVE  ~Nested(c)
    <3>1. KindAt(c) = offset
      BY <1>1, <2>1, <2>3 DEF KindAt, DataPos, KindPos
    <3>2. ByteAt(offset) # KindContainer
      BY <1>1, <1>2, <2>3 DEF HasContainers, ByteAt
    <3> QED  BY <2>2, <2>3, <3>1, <3>2 DEF Nested
  <2>4. /\ Extent(c) \in Nat /\ DataAt(c) \in Nat
        /\ DataAt(c) >= 9 + 2 * header.numCode /\ Extent(c) >= DataAt(c) + 4 + 4 * header.numCode
        /\ Nested(c) => DataAt(c) = 9 + 2 * header.numCode + 3 + 4 * Containers(c)
        /\ ~Nested(c) => DataAt(c) = 9 + 2 * header.numCode
    BY <2>1, <2>2, PlacesOK
  <2>5. Extent(c) >= DataAt(c) + 4
    BY <1>1, <2>4
  <2>6. /\ header.numContainers = 0 => offset = 9 + 2 * header.numCode
        /\ header.numContainers > 0 => offset = 9 + 2 * header.numCode + 3 + 4 * header.numContainers
    BY <1>1 DEF DataPos, KindPos
  <2>7. DataAt(c) >= offset /\ (~Short(1) => DataAt(c) = offset)
    <3>1. CASE header.numContainers = 0
      BY <1>1, <2>3, <2>4, <2>6, <3>1
    <3>2. CASE header.numContainers > 0
      BY <1>1, <2>1, <2>4, <2>6, <3>2
    <3> QED  BY <1>1, <3>1, <3>2
  <2>8. ~Short(3) => Uint(c, offset + 1, 2) = size /\ ~Short(1)
    <3>1. offset + 1 \in Nat /\ (~Short(3) => offset + 1 + 1 < Len(bytecode) /\ ~Short(1))
      BY <1>1, <1>2
    <3> HIDE DEF size
    <3> QED  BY <1>1, <1>3, <3>1, ExtendsReads DEF size
  <2> QED  BY <2>1, <2>2, <2>3, <2>4, <2>5, <2>7, <2>8
<1>4. \/ failure' = "none" /\ ~Short(1) /\ ~Short(3) /\ ByteAt(offset) = KindData
      \/ failure' = "ErrShortBytecodeHeader" /\ (Short(1) \/ Short(3))
      \/ failure' = "ErrInvalidKindMarker" /\ ~Short(1) /\ ByteAt(offset) # KindData
  <2> DEFINE c1 == Short(1)
             c2 == ByteAt(offset) # KindData
             c3 == Short(3)
  <2>1. failure' = FirstFailing(<<<<c1, "ErrShortBytecodeHeader">>,
                                  <<c2, "ErrInvalidKindMarker">>,
                                  <<c3, "ErrShortBytecodeHeader">>>>)
    BY <1>1 DEF DataSize, Read, TooShort, Marker
  <2> HIDE DEF c1, c2, c3
  <2>2. \/ failure' = "none" /\ ~c1 /\ ~c2 /\ ~c3
        \/ failure' = "ErrShortBytecodeHeader" /\ (c1 \/ c3)
        \/ failure' = "ErrInvalidKindMarker" /\ ~c1 /\ c2
    BY <2>1, FirstOf3
  <2> QED  BY <2>2 DEF c1, c2, c3
<1>5. CASE failure' = "none"
  <2>1. stage' = "terminator" /\ offset' = offset + 3
    BY <1>1, <1>5 DEF DataSize, Read
  <2>2. header' = [header EXCEPT !.dataSize = size]
    BY <1>1, <1>5 DEF DataSize, HeaderBecomes, Keep
  <2> HIDE DEF size
  <2>3. /\ header'.dataSize = size /\ header'.numCode = header.numCode
        /\ header'.typesSize = header.typesSize
        /\ header'.codeSizes = header.codeSizes
        /\ header'.codeTotal = header.codeTotal
        /\ header'.numContainers = header.numContainers
        /\ header'.containerSizes = header.containerSizes
        /\ header'.containerTotal = header.containerTotal
    BY <2>2 DEF EofInv, Typed, Header
  <2>4. ASSUME NEW c, Extends(c, bytecode)' PROVE Told(c)'
    <3>1. Extends(c, bytecode)
      BY <1>1, <2>4 DEF Extends
    <3>2. /\ Told(c) /\ At(c, DataAt(c)) = KindData /\ Uint(c, DataAt(c) + 1, 2) = size
          /\ header.numContainers = 0 => ~Nested(c)
      BY <1>3, <1>4, <1>5, <3>1
    <3> QED
      BY <1>1, <2>1, <2>3, <3>2
         DEF Told, PrefixRead, TypesSizeRead, NumCodeRead, CodeSizesRead, ContainersRead,
             DataSizeRead, EndRead, TypesRead, Stages, PastPrefix, PastTypesSize, PastNumCode,
             PastEnd, PastDataSize, Body
  <2>5. Position'
    BY <1>1, <2>1, <2>3 DEF Position, KindPos, DataPos
  <2> QED
    BY <1>1, <2>1, <2>3, <2>4, <2>5
       DEF FormatInv, Totals, Measured, TypesCounted, Verdict, Body, PastTypes, PastEnd
<1>6. CASE failure' # "none"
  <2>1. Extends(bytecode, bytecode)
    BY <1>1, ExtendsSelf
  <2>2. Justified(failure', bytecode)
    <3> HIDE DEF size
    <3>1. CASE failure' = "ErrShortBytecodeHeader"
      <4>1. Extent(bytecode) > Len(bytecode)
        BY <1>1, <1>2, <1>3, <1>4, <2>1, <3>1
      <4> QED  BY <1>1, <3>1, <4>1, ShortJustified DEF Shorts
    <3>2. CASE failure' # "ErrShortBytecodeHeader"
      <4>1. ASSUME NEW c, Extends(c, bytecode), WellFormed(c) PROVE FALSE
        BY <1>3, <1>4, <1>6, <3>2, <4>1 DEF WellFormed
      <4> QED  BY <1>4, <1>6, <3>2, <4>1, WrongJustified DEF Shorts
    <3> QED  BY <3>1, <3>2
  <2>3. header' = header
    BY <1>6 DEF DataSize, HeaderBecomes, Keep
  <2> QED  BY <1>1, <1>6, <2>2, <2>3, RefusedOK DEF DataSize, Read
<1> QED  BY <1>5, <1>6

(* Behind the sizes, the header is read: every bytecode that goes on from  *)
(* here has the places and the extent that the header gives.               *)
LEMMA HeaderRead ==
    ASSUME EofInv, FormatInv, stage \in Body \cup {"terminator"}, NEW c, Extends(c, bytecode)
    PROVE  /\ c \in Bytes /\ Told(c) /\ Codes(c) = header.numCode
           /\ Containers(c) = header.numContainers
           /\ DataAt(c) = DataPos /\ BodyAt(c) = DataPos + 4 /\ Extent(c) = BodyEnd
           /\ DataPos \in Nat /\ BodyEnd \in Nat /\ header.numCode \in Nat
           /\ header.typesSize = 4 * header.numCode
           /\ ExpectedBodySize \in Nat /\ BodyEnd = DataPos + 4 + ExpectedBodySize
<1> DEFINE kinds == header.numCode
           inner == header.numContainers
<1>1. /\ c \in Bytes /\ kinds \in Nat /\ inner \in Nat
      /\ header.typesSize \in Nat /\ header.codeTotal \in Nat /\ header.containerTotal \in Nat
      /\ header.dataSize \in Nat /\ header.codeSizes \in Seq(Nat)
      /\ header.containerSizes \in Seq(Nat)
  BY DEF EofInv, Typed, Header, Extends
<1>2. /\ header.typesSize = 4 * kinds /\ Len(header.codeSizes) = kinds
      /\ Len(header.containerSizes) = inner
  BY DEF EofInv, TypesMatchCode, CodeSizesCounted, ContainerSizesCounted, Body
<1>3. /\ stage \in PastNumCode /\ stage \in PastDataSize
  BY DEF Stages, Body, PastPrefix, PastTypesSize, PastNumCode, PastDataSize, PastEnd
<1>4. Told(c) /\ Totals
  BY DEF FormatInv
<1>5. /\ Codes(c) = kinds
      /\ \A k \in 1 .. kinds : header.codeSizes[k] = Uint(c, 7 + 2 * k, 2)
      /\ inner > 0 => Nested(c) /\ Containers(c) = inner
      /\ \A k \in 1 .. inner : header.containerSizes[k] = Uint(c, KindAt(c) - 1 + 4 * k, 4)
      /\ Uint(c, DataAt(c) + 1, 2) = header.dataSize
      /\ inner = 0 => ~Nested(c)
  BY <1>2, <1>3, <1>4
     DEF Told, NumCodeRead, CodeSizesRead, ContainersRead, DataSizeRead
<1>6. Containers(c) = inner
  <2>1. inner = 0 => Containers(c) = 0
    BY <1>5 DEF Containers
  <2> QED  BY <1>1, <1>5, <2>1
<1>7. DataAt(c) = DataPos /\ DataPos \in Nat
  <2>1. /\ DataAt(c) \in Nat
        /\ Nested(c) => DataAt(c) = 9 + 2 * kinds + 3 + 4 * inner
        /\ ~Nested(c) => DataAt(c) = 9 + 2 * kinds
    BY <1>1, <1>5, <1>6, PlacesOK
  <2>2. DataPos = IF inner > 0 THEN 9 + 2 * kinds + 3 + 4 * inner ELSE 9 + 2 * kinds
    BY DEF DataPos, KindPos
  <2> HIDE DEF kinds, inner
  <2> QED  BY <1>1, <1>5, <2>1, <2>2
<1>8. Total(CodeSizes(c), Codes(c)) = header.codeTotal
  <2>1. \A k \in 1 .. kinds : CodeSizes(c)[k] = header.codeSizes[k]
    BY <1>1, <1>5, SizesOK
  <2> HIDE DEF kinds
  <2>2. Total(CodeSizes(c), kinds) = Total(header.codeSizes, kinds)
    BY <1>1, <2>1, TotalSame
  <2> QED  BY <1>2, <1>4, <1>5, <2>2 DEF Totals
<1>9. Total(ContainerSizes(c), Containers(c)) = header.containerTotal
  <2>1. \A k \in 1 .. inner : ContainerSizes(c)[k] = header.containerSizes[k]
    BY <1>1, <1>5, <1>6, SizesOK
  <2> HIDE DEF inner
  <2>2. Total(ContainerSizes(c), inner) = Total(header.containerSizes, inner)
    BY <1>1, <2>1, TotalSame
  <2> QED  BY <1>2, <1>4, <1>6, <2>2 DEF Totals
<1>10. BodyAt(c) = DataPos + 4
  BY <1>7 DEF BodyAt
<1>11. /\ Extent(c) = DataPos + 4 + 4 * kinds + header.codeTotal + header.containerTotal
                        + header.dataSize
       /\ ExpectedBodySize = 4 * kinds + header.codeTotal + header.containerTotal + header.dataSize
       /\ BodyEnd = DataPos + 4 + ExpectedBodySize
  BY <1>2, <1>5, <1>8, <1>9, <1>10 DEF Extent, ExpectedBodySize, BodyEnd
<1>12. Extent(c) = BodyEnd /\ BodyEnd \in Nat /\ ExpectedBodySize \in Nat
  <2> DEFINE pos == DataPos  sum == header.codeTotal  nested == header.containerTotal
             data == header.dataSize  body == ExpectedBodySize
  <2>1. /\ pos \in Nat /\ kinds \in Nat /\ sum \in Nat /\ nested \in Nat /\ data \in Nat
        /\ Extent(c) = pos + 4 + 4 * kinds + sum + nested + data
        /\ body = 4 * kinds + sum + nested + data /\ BodyEnd = pos + 4 + body
    BY <1>1, <1>7, <1>11
  <2> HIDE DEF kinds, pos, sum, nested, data, body
  <2>2. body \in Nat
    BY <2>1
  <2> QED  BY <2>1, <2>2 DEF body
<1> QED  BY <1>1, <1>2, <1>4, <1>5, <1>6, <1>7, <1>10, <1>11, <1>12

LEMMA EndHeaderFormat ==
    ASSUME EofInv, FormatInv, EndHeader
    PROVE  FormatInv'
<1> DEFINE pos == DataPos + 3
<1>1. /\ stage = "terminator" /\ UNCHANGED <<bytecode, header, container>>
      /\ bytecode \in Bytes /\ Len(bytecode) \in Nat /\ Typed
      /\ offset = pos /\ container.types = <<>>
  BY DEF EndHeader, Read, EofInv, Typed, Bytes, FormatInv, Position, SectionsCounted, Body,
         NoSections
<1>2. ASSUME NEW c, Extends(c, bytecode)
      PROVE  /\ Told(c) /\ DataAt(c) = DataPos /\ Extent(c) = BodyEnd /\ DataPos \in Nat
             /\ BodyEnd \in Nat /\ ExpectedBodySize \in Nat
             /\ BodyEnd = DataPos + 4 + ExpectedBodySize /\ c \in Bytes
  BY <1>1, <1>2, HeaderRead
<1>3. /\ Extent(bytecode) = BodyEnd /\ DataPos \in Nat /\ BodyEnd \in Nat
      /\ ExpectedBodySize \in Nat /\ BodyEnd = DataPos + 4 + ExpectedBodySize
  BY <1>1, <1>2, ExtendsSelf
<1>4. /\ Short(1) => BodyEnd > Len(bytecode)
      /\ Short(1 + ExpectedBodySize) <=> BodyEnd > Len(bytecode)
      /\ ~Short(1) => pos < Len(bytecode)
  <2>1. /\ Short(1) <=> DataPos + 3 + 1 > Len(bytecode)
        /\ Short(1 + ExpectedBodySize) <=> DataPos + 3 + (1 + ExpectedBodySize) > Len(bytecode)
    BY <1>1 DEF Short
  <2> QED  BY <1>1, <1>3, <2>1
<1>5. \/ failure' = "none" /\ ~Short(1) /\ ByteAt(pos) = Terminator /\ BodyEnd <= Len(bytecode)
           /\ Len(bytecode) <= MaxInitCodeSize
      \/ failure' \in Shorts /\ BodyEnd > Len(bytecode)
      \/ failure' = "ErrMissingTerminator" /\ ~Short(1) /\ ByteAt(pos) # Terminator
      \/ failure' = "ErrMaxInitCodeSize" /\ Len(bytecode) > MaxInitCodeSize
  <2> DEFINE c1 == Short(1)
             c2 == ByteAt(pos) # Terminator
             c3 == Short(1 + ExpectedBodySize)
             c4 == Len(bytecode) > MaxInitCodeSize
  <2>1. failure' = FirstFailing(<<<<c1, "ErrShortBytecodeHeader">>,
                                  <<c2, "ErrMissingTerminator">>, <<c3, "ErrShortBytecode">>,
                                  <<c4, "ErrMaxInitCodeSize">>>>)
    BY <1>1 DEF EndHeader, Read, TooShort
  <2> HIDE DEF c1, c2, c3, c4
  <2>2. \/ failure' = "none" /\ ~c1 /\ ~c2 /\ ~c3 /\ ~c4
        \/ failure' = "ErrShortBytecodeHeader" /\ c1
        \/ failure' = "ErrMissingTerminator" /\ ~c1 /\ c2
        \/ failure' = "ErrShortBytecode" /\ c3
        \/ failure' = "ErrMaxInitCodeSize" /\ c4
    BY <2>1, FirstOf4
  <2>3. MaxInitCodeSize \in Nat
    BY FormatAssumption
  <2>4. (~c3 => BodyEnd <= Len(bytecode)) /\ (~c4 => Len(bytecode) <= MaxInitCodeSize)
    BY <1>1, <1>3, <1>4, <2>3 DEF c3, c4
  <2> QED  BY <1>4, <2>2, <2>4 DEF c1, c2, c3, c4, Shorts
<1>6. CASE failure' = "none"
  <2>1. stage' = "types" /\ offset' = pos + 1
    BY <1>1, <1>6 DEF EndHeader, Read
  <2>2. ~Short(1) /\ ByteAt(pos) = Terminator /\ BodyEnd <= Len(bytecode)
        /\ Len(bytecode) <= MaxInitCodeSize
    BY <1>5, <1>6 DEF Shorts
  <2>3. ASSUME NEW c, Extends(c, bytecode)' PROVE Told(c)'
    <3>1. Extends(c, bytecode)
      BY <1>1, <2>3 DEF Extends
    <3>2. At(c, DataAt(c) + 3) = Terminator
      BY <1>1, <1>2, <1>4, <2>2, <3>1, ExtendsReads
    <3> QED
      BY <1>1, <1>2, <2>1, <3>1, <3>2, SMTT(30)
         DEF Told, PrefixRead, TypesSizeRead, NumCodeRead, CodeSizesRead, ContainersRead,
             DataSizeRead, EndRead, TypesRead, Stages, PastPrefix, PastTypesSize, PastNumCode,
             PastEnd, PastDataSize, Body
  <2>4. offset' = DataPos + 4 + 4 * Len(container.types)
    BY <1>1, <1>3, <2>1
  <2>5. Position'
    BY <1>1, <2>1, <2>4 DEF Position, DataPos, KindPos
  <2>6. Measured'
    BY <1>1, <2>2 DEF Measured, BodyEnd, DataPos, KindPos, ExpectedBodySize
  <2> QED
    BY <1>1, <2>1, <2>3, <2>5, <2>6
       DEF FormatInv, Totals, TypesCounted, Verdict, Body, PastTypes, PastEnd
<1>7. CASE failure' # "none"
  <2>1. Justified(failure', bytecode)
    <3>1. CASE failure' \in Shorts
      <4>1. BodyEnd > Len(bytecode)
        BY <1>5, <3>1 DEF Shorts
      <4> QED  BY <1>1, <1>3, <3>1, <4>1, ShortJustified
    <3>2. CASE failure' = "ErrMaxInitCodeSize"
      BY <1>5, <3>2 DEF Justified, Shorts
    <3>3. CASE failure' \notin Shorts /\ failure' # "ErrMaxInitCodeSize"
      <4>1. failure' = "ErrMissingTerminator" /\ ~Short(1) /\ ByteAt(pos) # Terminator
        BY <1>5, <1>7, <3>3
      <4>2. ASSUME NEW c, Extends(c, bytecode), WellFormed(c) PROVE FALSE
        <5>1. At(c, DataAt(c) + 3) = Terminator
          BY <4>2 DEF WellFormed
        <5> QED  BY <1>1, <1>2, <1>4, <4>1, <4>2, <5>1, ExtendsReads
      <4> QED  BY <4>1, <4>2, WrongJustified DEF Shorts
    <3> QED  BY <3>1, <3>2, <3>3
  <2> QED  BY <1>1, <1>7, <2>1, RefusedOK DEF EndHeader, Read
<1> QED  BY <1>6, <1>7

LEMMA TypeEntryFormat ==
    ASSUME EofInv, FormatInv, TypeEntry
    PROVE  FormatInv'
<1> DEFINE k     == Len(container.types)
           pos   == DataPos + 4 + 4 * k
           entry == [inputs |-> ByteAt(offset), outputs |-> ByteAt(offset + 1),
                     maxStack |-> Uint16(offset + 2)]
           types == Append(container.types, entry)
           Fits  == ByteAt(pos) <= MaxInputs /\ ByteAt(pos + 1) <= MaxOutputs
                      /\ Uint16(pos + 2) <= MaxStackIncrease
<1>1. /\ stage = "types" /\ UNCHANGED <<bytecode, header>>
      /\ bytecode \in Bytes /\ Len(bytecode) \in Nat /\ Typed
      /\ container.types \in Seq(Entry) /\ k \in Nat /\ k < header.numCode
      /\ offset = pos /\ container.codes = <<>>
  BY SMTT(30)
     DEF TypeEntry, Read, ContainerBecomes, EofInv, Typed, Bytes, Sections, SectionsCounted,
         FormatInv, Position
<1>2. /\ DataPos \in Nat /\ header.numCode \in Nat /\ header.typesSize = 4 * header.numCode
      /\ DataPos + 4 + header.typesSize <= Len(bytecode)
  <2>1. Extends(bytecode, bytecode) /\ BodyEnd <= Len(bytecode)
    BY <1>1, ExtendsSelf DEF FormatInv, Measured, Body
  <2>2. /\ DataPos \in Nat /\ header.numCode \in Nat /\ header.typesSize = 4 * header.numCode
        /\ BodyEnd \in Nat
    BY <1>1, <2>1, HeaderRead DEF Body
  <2>3. /\ header.typesSize \in Nat /\ header.codeTotal \in Nat /\ header.containerTotal \in Nat
        /\ header.dataSize \in Nat
    BY DEF EofInv, Typed, Header
  <2>4. BodyEnd = DataPos + 4 + (header.typesSize + header.codeTotal + header.containerTotal
                                    + header.dataSize)
    BY DEF BodyEnd, ExpectedBodySize
  <2>5. DataPos + 4 + header.typesSize <= BodyEnd
    BY <2>2, <2>3, <2>4
  <2> QED  BY <1>1, <2>1, <2>2, <2>3, <2>5
<1>3. /\ k = 0 => ~Short(header.typesSize)
      /\ 4 * k + 4 <= header.typesSize /\ pos \in Nat /\ pos + 3 < Len(bytecode)
  <2> HIDE DEF k
  <2>1. 4 * k + 4 <= header.typesSize /\ pos \in Nat /\ pos + 4 <= DataPos + 4 + header.typesSize
    BY <1>1, <1>2, SMTT(30)
  <2>2. pos + 3 < Len(bytecode)
    BY <1>1, <1>2, <2>1
  <2>3. k = 0 => ~Short(header.typesSize)
    BY <1>1, <1>2 DEF Short
  <2> QED  BY <1>1, <2>1, <2>2, <2>3
<1>4. ASSUME NEW c, Extends(c, bytecode)
      PROVE  /\ Told(c) /\ Codes(c) = header.numCode /\ BodyAt(c) = DataPos + 4
             /\ TypeFits(c, pos) <=> Fits
  <2>1. Told(c) /\ Codes(c) = header.numCode /\ BodyAt(c) = DataPos + 4
    BY <1>1, <1>4, HeaderRead DEF Body
  <2> HIDE DEF pos
  <2>2. pos + 1 \in Nat /\ pos + 2 \in Nat /\ pos < Len(bytecode) /\ pos + 1 < Len(bytecode)
        /\ pos + 2 + 1 < Len(bytecode)
    BY <1>1, <1>3
  <2>3. At(c, pos) = ByteAt(pos) /\ At(c, pos + 1) = ByteAt(pos + 1)
        /\ Uint(c, pos + 2, 2) = Uint16(pos + 2)
    BY <1>1, <1>3, <1>4, <2>2, ExtendsReads
  <2> QED  BY <2>1, <2>3 DEF TypeFits
<1>5. \/ failure' = "none" /\ Fits
      \/ failure' = "ErrInvalidTypeEntry" /\ ~Fits
  <2> DEFINE c1 == k = 0 /\ Short(header.typesSize)
             c2 == 4 * k + 4 > header.typesSize
             c3 == entry.inputs > MaxInputs
             c4 == entry.outputs > MaxOutputs
             c5 == entry.maxStack > MaxStackIncrease
  <2>1. failure' = FirstFailing(<<<<c1, "ErrShortBytecode">>, <<c2, "panic">>,
                                  <<c3, "ErrInvalidTypeEntry">>, <<c4, "ErrInvalidTypeEntry">>,
                                  <<c5, "ErrInvalidTypeEntry">>>>)
    BY DEF TypeEntry, Read
  <2>2. ~c1 /\ ~c2
    <3> HIDE DEF k
    <3>1. 4 * k + 4 \in Nat /\ header.typesSize \in Nat
      BY <1>1, <1>2
    <3> QED  BY <1>3, <3>1
  <2>3. Fits <=> ~c3 /\ ~c4 /\ ~c5
    <3>1. /\ MaxInputs \in Nat /\ MaxOutputs \in Nat /\ MaxStackIncrease \in Nat
          /\ pos + 1 \in Nat /\ pos + 2 \in Nat
      BY <1>3, FormatAssumption, SMTT(30)
    <3>2. ByteAt(pos) \in Nat /\ ByteAt(pos + 1) \in Nat /\ Uint16(pos + 2) \in Nat
      BY <1>1, <1>3, <3>1, ReadsNumbers
    <3>3. entry.inputs = ByteAt(pos) /\ entry.outputs = ByteAt(pos + 1)
          /\ entry.maxStack = Uint16(pos + 2)
      BY <1>1
    <3> HIDE DEF pos, entry
    <3> QED  BY <3>1, <3>2, <3>3
  <2> HIDE DEF c1, c2, c3, c4, c5, Fits
  <2>4. \/ failure' = "none" /\ ~c1 /\ ~c2 /\ ~c3 /\ ~c4 /\ ~c5
        \/ failure' = "ErrShortBytecode" /\ c1
        \/ failure' = "panic" /\ c2
        \/ failure' = "ErrInvalidTypeEntry" /\ (c3 \/ c4 \/ c5)
    BY <2>1, FirstOf5
  <2> QED  BY <2>2, <2>3, <2>4
<1>6. CASE failure' = "none"
  <2>1. /\ stage' = IF k + 1 < header.numCode THEN "types" ELSE "codes"
        /\ offset' = pos + 4
    BY <1>1, <1>6 DEF TypeEntry, Read
  <2>2. container' = [container EXCEPT !.types = types]
    BY <1>1, <1>6 DEF TypeEntry, ContainerBecomes, Keep
  <2>3. Len(types) = k + 1 /\ Fits
    BY <1>1, <1>5, <1>6
  <2> HIDE DEF types, Fits
  <2>4. container'.types = types /\ container'.codes = <<>>
    BY <1>1, <2>2 DEF EofInv, Typed, Sections
  <2>5. ASSUME NEW c, Extends(c, bytecode)' PROVE Told(c)'
    <3>1. Extends(c, bytecode)
      BY <1>1, <2>5 DEF Extends
    <3>2. /\ Told(c) /\ BodyAt(c) = DataPos + 4 /\ TypeFits(c, pos)
      BY <1>4, <2>3, <3>1
    <3>3. ASSUME NEW j \in 1 .. (k + 1) PROVE TypeFits(c, BodyAt(c) + 4 * (j - 1))
      <4>1. CASE j = k + 1
        <5> HIDE DEF k
        <5>1. BodyAt(c) + 4 * (j - 1) = pos
          BY <1>1, <3>2, <4>1
        <5> QED  BY <3>2, <5>1
      <4>2. CASE j # k + 1
        <5>1. j \in 1 .. k
          BY <1>1, <4>2
        <5> QED  BY <1>1, <3>2, <5>1 DEF Told, TypesRead, PastEnd, Body
      <4> QED  BY <4>1, <4>2
    <3>4. TypesRead(c)'
      BY <2>3, <2>4, <3>3 DEF TypesRead
    <3> QED
      BY <1>1, <2>1, <3>2, <3>4
         DEF Told, PrefixRead, TypesSizeRead, NumCodeRead, CodeSizesRead, ContainersRead,
             DataSizeRead, EndRead, Stages, PastPrefix, PastTypesSize, PastNumCode,
             PastEnd, PastDataSize, Body
  <2>6. Position' /\ TypesCounted'
    <3> HIDE DEF k
    <3>0. offset' = DataPos + 4 + 4 * (k + 1) /\ DataPos' = DataPos /\ CodePos' = CodePos
      <4>1. DataPos' = DataPos /\ CodePos' = CodePos
        BY <1>1 DEF CodePos, DataPos, KindPos
      <4>2. offset' = DataPos + 4 + 4 * (k + 1)
        BY <1>1, <1>2, <2>1
      <4> QED  BY <4>1, <4>2
    <3>1. CASE k + 1 < header.numCode
      <4>1. stage' = "types" /\ offset' = DataPos' + 4 + 4 * Len(container'.types)
        BY <2>1, <2>3, <2>4, <3>0, <3>1
      <4> QED  BY <4>1 DEF Position, TypesCounted, PastTypes, PastEnd, Body
    <3>2. CASE ~(k + 1 < header.numCode)
      <4>1. k + 1 = header.numCode
        BY <1>1, <1>2, <3>2
      <4>2. stage' = "codes" /\ offset' = CodePos'
        BY <1>2, <2>1, <3>0, <3>2, <4>1 DEF CodePos
      <4>3. CodePos' \in Nat /\ Len(container'.codes) = 0
        BY <1>2, <2>4, <3>0 DEF CodePos
      <4>4. Total(header'.codeSizes, Len(container'.codes)) = 0
        BY <4>3, TotalRec
      <4>5. offset' = CodePos' + Total(header'.codeSizes, Len(container'.codes))
        BY <4>2, <4>3, <4>4
      <4>6. Len(container'.types) = header'.numCode
        BY <1>1, <2>3, <2>4, <4>1
      <4> QED  BY <4>2, <4>5, <4>6 DEF Position, TypesCounted, PastTypes, PastEnd, Body
    <3> QED  BY <3>1, <3>2
  <2>7. Measured' /\ Totals'
    BY <1>1, <2>1 DEF FormatInv, Measured, Totals, BodyEnd, DataPos, KindPos, ExpectedBodySize, Body
  <2> QED
    BY <1>1, <2>1, <2>5, <2>6, <2>7 DEF FormatInv, Verdict
<1>7. CASE failure' # "none"
  <2> HIDE DEF Fits
  <2>1. failure' = "ErrInvalidTypeEntry" /\ ~Fits
    BY <1>5, <1>7
  <2>2. ASSUME NEW c, Extends(c, bytecode), WellFormed(c) PROVE FALSE
    <3>1. Codes(c) = header.numCode /\ BodyAt(c) = DataPos + 4 /\ ~TypeFits(c, pos)
      BY <1>4, <2>1, <2>2
    <3> HIDE DEF k
    <3>2. k + 1 \in 1 .. Codes(c) /\ BodyAt(c) + 4 * ((k + 1) - 1) = pos
      BY <1>1, <1>2, <3>1
    <3>3. TypeFits(c, BodyAt(c) + 4 * ((k + 1) - 1))
      BY <2>2, <3>2 DEF WellFormed
    <3> QED  BY <3>1, <3>2, <3>3
  <2>3. Justified(failure', bytecode)
    BY <2>1, <2>2, WrongJustified DEF Shorts
  <2>4. container' = container /\ stage' = "failed"
    BY <1>7 DEF TypeEntry, ContainerBecomes, Keep, Read
  <2> QED  BY <1>1, <2>3, <2>4, RefusedOK
<1> QED  BY <1>6, <1>7

(* The end of a section of a list is inside the sum of the list.           *)
LEMMA TotalNext ==
    ASSUME NEW s \in Seq(Nat), NEW k \in 1 .. Len(s)
    PROVE  /\ Total(s, k - 1) \in Nat /\ Total(s, k) \in Nat /\ Total(s, Len(s)) \in Nat
           /\ Total(s, k) = Total(s, k - 1) + s[k] /\ Total(s, k) <= Total(s, Len(s))
<1>1. Len(s) \in Nat /\ k \in 0 .. Len(s) /\ k - 1 \in 0 .. Len(s) /\ k - 1 \in Nat
      /\ Len(s) \in 0 .. Len(s)
  OBVIOUS
<1>2. \A j \in 1 .. Len(s) : s[j] \in Nat
  OBVIOUS
<1>3. Total(s, (k - 1) + 1) = Total(s, k - 1) + s[(k - 1) + 1]
  BY <1>1, TotalRec
<1>4. (k - 1) + 1 = k
  OBVIOUS
<1> QED  BY <1>1, <1>2, <1>3, <1>4, TotalGrows

(* The body ends where its sections do, and is inside bytecode.            *)
LEMMA BodyMeasured ==
    ASSUME EofInv, FormatInv, stage \in Body
    PROVE  /\ CodePos \in Nat /\ header.codeTotal \in Nat /\ header.containerTotal \in Nat
           /\ header.dataSize \in Nat
           /\ BodyEnd = CodePos + header.codeTotal + header.containerTotal + header.dataSize
           /\ BodyEnd <= Len(bytecode) /\ Len(bytecode) \in Nat /\ BodyEnd \in Nat
           /\ Len(bytecode) <= MaxInitCodeSize
           /\ Extent(bytecode) = BodyEnd
<1>1. Extends(bytecode, bytecode) /\ BodyEnd <= Len(bytecode) /\ Len(bytecode) <= MaxInitCodeSize
  BY ExtendsSelf DEF EofInv, FormatInv, Measured
<1>2. DataPos \in Nat /\ BodyEnd \in Nat /\ Extent(bytecode) = BodyEnd
  BY <1>1, HeaderRead
<1>3. /\ header.typesSize \in Nat /\ header.codeTotal \in Nat /\ header.containerTotal \in Nat
      /\ header.dataSize \in Nat /\ Len(bytecode) \in Nat
  BY DEF EofInv, Typed, Header, Bytes
<1> DEFINE pos == DataPos  types == header.typesSize  sum == header.codeTotal
           nested == header.containerTotal  data == header.dataSize
<1>4. /\ pos \in Nat /\ types \in Nat /\ sum \in Nat /\ nested \in Nat /\ data \in Nat
      /\ CodePos = pos + 4 + types /\ BodyEnd = pos + 4 + (types + sum + nested + data)
  BY <1>2, <1>3 DEF CodePos, BodyEnd, ExpectedBodySize
<1>5. CodePos \in Nat /\ BodyEnd = CodePos + sum + nested + data
  <2> HIDE DEF pos, types, sum, nested, data
  <2> QED  BY <1>4
<1> QED  BY <1>1, <1>2, <1>3, <1>5

(* When one check is made and does not fail.                               *)
LEMMA SectionRead ==
    ASSUME NEW bad, NEW error, failure' = FirstFailing(<<<<bad, error>>>>), error # "none"
    PROVE  failure' = IF bad THEN error ELSE "none"
BY FirstOf1

(* A section of the body adds to what is read, and nothing to the header.  *)
LEMMA SectionTold ==
    ASSUME FormatInv, stage \in PastTypes, stage' \in PastTypes, UNCHANGED <<bytecode, header>>,
           container'.types = container.types
    PROVE  /\ \A c : Extends(c, bytecode)' => Told(c)'
           /\ Totals' /\ TypesCounted'
           /\ CodePos' = CodePos /\ BodyEnd' = BodyEnd
<1>1. ASSUME NEW c, Extends(c, bytecode)' PROVE Told(c)'
  <2>1. Extends(c, bytecode) /\ Told(c)
    BY <1>1 DEF Extends, FormatInv
  <2> QED
    BY <2>1
       DEF Told, PrefixRead, TypesSizeRead, NumCodeRead, CodeSizesRead, ContainersRead,
           DataSizeRead, EndRead, TypesRead, Stages, PastPrefix, PastTypesSize, PastNumCode,
           PastEnd, PastDataSize, PastTypes, Body
<1>2. Totals' /\ TypesCounted'
  BY DEF FormatInv, Totals, TypesCounted
<1>3. CodePos' = CodePos /\ BodyEnd' = BodyEnd
  BY DEF CodePos, BodyEnd, ExpectedBodySize, DataPos, KindPos
<1> QED  BY <1>1, <1>2, <1>3

LEMMA CodeSectionFormat ==
    ASSUME EofInv, FormatInv, CodeSection
    PROVE  FormatInv'
<1> DEFINE k    == Len(container.codes) + 1
           size == header.codeSizes[k]
           sum  == header.codeTotal
<1>1. /\ stage = "codes" /\ UNCHANGED <<bytecode, header>>
      /\ header.codeSizes \in Seq(Nat) /\ Len(header.codeSizes) = header.numCode
      /\ container.codes \in Seq(Bytes) /\ Len(container.codes) < header.numCode
      /\ header.numCode \in Nat /\ header.numContainers \in Nat
      /\ container.containers = <<>> /\ Len(header.containerSizes) = header.numContainers
      /\ container \in Sections
  BY DEF CodeSection, Read, ContainerBecomes, EofInv, Typed, Header, Sections,
         CodeSizesCounted, ContainerSizesCounted, SectionsCounted, Body
<1>2. k \in 1 .. Len(header.codeSizes) /\ k - 1 = Len(container.codes) /\ k \in Nat
      /\ size \in Nat
  BY <1>1, SMTT(30)
<1>3. /\ offset = CodePos + Total(header.codeSizes, k - 1)
      /\ sum = Total(header.codeSizes, Len(header.codeSizes))
      /\ header.containerTotal = Total(header.containerSizes, Len(header.containerSizes))
  BY <1>1, <1>2 DEF FormatInv, Position, Totals
<1> HIDE DEF k, size
<1>4. offset + size = CodePos + Total(header.codeSizes, k) /\ offset + size <= Len(bytecode)
  <2> DEFINE before == Total(header.codeSizes, k - 1)
             after  == Total(header.codeSizes, k)
             end    == BodyEnd
             nested == header.containerTotal
             data   == header.dataSize
  <2>1. before \in Nat /\ after \in Nat /\ after = before + size /\ after <= sum
    BY <1>1, <1>2, <1>3, TotalNext DEF size
  <2>2. /\ CodePos \in Nat /\ sum \in Nat /\ nested \in Nat /\ data \in Nat
        /\ end = CodePos + sum + nested + data /\ end <= Len(bytecode) /\ Len(bytecode) \in Nat
    BY <1>1, BodyMeasured DEF Body
  <2>3. offset = CodePos + before
    BY <1>3
  <2> HIDE DEF before, after, end, nested, data, sum
  <2>4. offset + size = CodePos + after /\ offset + size <= Len(bytecode)
    BY <1>2, <2>1, <2>2, <2>3
  <2> QED  BY <2>4 DEF after
<1>5. failure' = "none"
  <2>1. ~Short(size)
    <3>1. offset \in Nat /\ Len(bytecode) \in Nat
      BY DEF EofInv, Typed, Bytes
    <3> QED  BY <1>2, <1>4, <3>1 DEF Short
  <2>2. failure' = FirstFailing(<<<<Short(size), "ErrShortBytecode">>>>)
    BY DEF CodeSection, Read, size, k
  <2> QED  BY <2>1, <2>2, SectionRead
<1>6. /\ stage' = IF k < header.numCode THEN "codes"
                  ELSE IF header.numContainers > 0 THEN "containers" ELSE "data"
      /\ offset' = CodePos + Total(header.codeSizes, k)
  BY <1>4, <1>5 DEF CodeSection, Read, size, k
<1>7. /\ container'.types = container.types /\ container'.containers = <<>>
      /\ Len(container'.codes) = k
  <2> DEFINE codes == Append(container.codes, Slice(size))
  <2>1. container' = [container EXCEPT !.codes = codes]
    BY <1>5 DEF CodeSection, ContainerBecomes, Keep, size, k
  <2>2. Len(codes) = k
    BY <1>1 DEF k
  <2> HIDE DEF codes
  <2> QED  BY <1>1, <2>1, <2>2 DEF Sections
<1>8. stage \in PastTypes /\ stage' \in PastTypes /\ stage' \in Body
  BY <1>1, <1>6 DEF PastTypes, PastEnd, Body
<1>9. /\ \A c : Extends(c, bytecode)' => Told(c)'
      /\ Totals' /\ TypesCounted' /\ CodePos' = CodePos /\ BodyEnd' = BodyEnd
  BY <1>1, <1>7, <1>8, SectionTold
<1>10. Position'
  <2>1. CASE k < header.numCode
    <3>1. /\ stage' = "codes"
          /\ offset' = CodePos' + Total(header'.codeSizes, Len(container'.codes))
      BY <1>1, <1>6, <1>7, <1>9, <2>1
    <3> QED  BY <3>1 DEF Position
  <2>2. CASE ~(k < header.numCode)
    <3>1. k = Len(header.codeSizes)
      BY <1>1, <1>2, <2>2
    <3>2. offset' = CodePos' + header'.codeTotal
      BY <1>1, <1>3, <1>6, <1>9, <3>1
    <3>3. CodePos' + header'.codeTotal \in Nat
      BY <1>1, <1>9, BodyMeasured, SMTT(30) DEF Body
    <3>4. CASE header.numContainers > 0
      <4>1. Total(header'.containerSizes, Len(container'.containers)) = 0
        BY <1>7, TotalRec
      <4>2. stage' = "containers" /\ offset' = CodePos' + header'.codeTotal
                + Total(header'.containerSizes, Len(container'.containers))
        BY <1>6, <2>2, <3>2, <3>3, <3>4, <4>1
      <4> QED  BY <4>2 DEF Position
    <3>5. CASE ~(header.numContainers > 0)
      <4>1. Len(header.containerSizes) = 0
        BY <1>1, <3>5
      <4>2. header'.containerTotal = 0
        BY <1>1, <1>3, <4>1, TotalRec
      <4>3. stage' = "data" /\ offset' = CodePos' + header'.codeTotal + header'.containerTotal
        BY <1>6, <2>2, <3>2, <3>3, <3>5, <4>2
      <4> QED  BY <4>3 DEF Position
    <3> QED  BY <3>4, <3>5
  <2> QED  BY <2>1, <2>2
<1>11. Measured'
  BY <1>1, <1>9, BodyMeasured DEF Measured, Body
<1>12. Verdict'
  BY <1>8 DEF Verdict, Body
<1> QED  BY <1>9, <1>10, <1>11, <1>12 DEF FormatInv

LEMMA ContainerSectionFormat ==
    ASSUME EofInv, FormatInv, ContainerSection
    PROVE  FormatInv'
<1> DEFINE k    == Len(container.containers) + 1
           size == header.containerSizes[k]
           sum  == header.containerTotal
           base == CodePos + header.codeTotal
<1>1. /\ stage = "containers" /\ UNCHANGED <<bytecode, header>>
      /\ header.containerSizes \in Seq(Nat)
      /\ Len(header.containerSizes) = header.numContainers
      /\ container.containers \in Seq(Bytes)
      /\ Len(container.containers) < header.numContainers /\ header.numContainers \in Nat
      /\ container \in Sections
  BY DEF ContainerSection, Read, ContainerBecomes, EofInv, Typed, Header, Sections,
         ContainerSizesCounted, SectionsCounted, Body
<1>2. k \in 1 .. Len(header.containerSizes) /\ k - 1 = Len(container.containers) /\ k \in Nat
      /\ size \in Nat
  BY <1>1
<1>3. /\ offset = base + Total(header.containerSizes, k - 1)
      /\ sum = Total(header.containerSizes, Len(header.containerSizes))
  BY <1>1, <1>2 DEF FormatInv, Position, Totals
<1> HIDE DEF k, size
<1>4. offset + size = base + Total(header.containerSizes, k) /\ offset + size <= Len(bytecode)
      /\ base \in Nat
  <2> DEFINE before == Total(header.containerSizes, k - 1)
             after  == Total(header.containerSizes, k)
             end    == BodyEnd
             data   == header.dataSize
  <2>1. before \in Nat /\ after \in Nat /\ after = before + size /\ after <= sum
    BY <1>1, <1>2, <1>3, TotalNext DEF size
  <2>2. /\ base \in Nat /\ sum \in Nat /\ data \in Nat
        /\ end = base + sum + data /\ end <= Len(bytecode) /\ Len(bytecode) \in Nat
    BY <1>1, BodyMeasured DEF Body
  <2>3. offset = base + before
    BY <1>3
  <2> HIDE DEF before, after, end, data, sum, base
  <2>4. offset + size = base + after /\ offset + size <= Len(bytecode)
    BY <1>2, <2>1, <2>2, <2>3
  <2> QED  BY <2>2, <2>4 DEF after
<1>5. failure' = "none"
  <2>1. ~Short(size)
    <3>1. offset \in Nat /\ Len(bytecode) \in Nat
      BY DEF EofInv, Typed, Bytes
    <3> QED  BY <1>2, <1>4, <3>1 DEF Short
  <2>2. failure' = FirstFailing(<<<<Short(size), "ErrShortBytecode">>>>)
    BY DEF ContainerSection, Read, size, k
  <2> QED  BY <2>1, <2>2, SectionRead
<1>6. /\ stage' = IF k < header.numContainers THEN "containers" ELSE "data"
      /\ offset' = base + Total(header.containerSizes, k)
  <2>1. offset' = offset + size
    BY <1>5 DEF ContainerSection, Read, size, k
  <2> QED  BY <1>4, <1>5, <2>1 DEF ContainerSection, Read, k
<1>7. container'.types = container.types /\ Len(container'.containers) = k
  <2> DEFINE inner == Append(container.containers, Slice(size))
  <2>1. container' = [container EXCEPT !.containers = inner]
    BY <1>5 DEF ContainerSection, ContainerBecomes, Keep, size, k
  <2>2. Len(inner) = k
    BY <1>1 DEF k
  <2> HIDE DEF inner
  <2> QED  BY <1>1, <2>1, <2>2 DEF Sections
<1>8. stage \in PastTypes /\ stage' \in PastTypes /\ stage' \in Body
  BY <1>1, <1>6 DEF PastTypes, PastEnd, Body
<1>9. /\ \A c : Extends(c, bytecode)' => Told(c)'
      /\ Totals' /\ TypesCounted' /\ CodePos' = CodePos /\ BodyEnd' = BodyEnd
  BY <1>1, <1>7, <1>8, SectionTold
<1>10. Position'
  <2>1. CASE k < header.numContainers
    <3>1. /\ stage' = "containers"
          /\ offset' = CodePos' + header'.codeTotal
               + Total(header'.containerSizes, Len(container'.containers))
      BY <1>1, <1>6, <1>7, <1>9, <2>1
    <3> QED  BY <3>1 DEF Position
  <2>2. CASE ~(k < header.numContainers)
    <3>1. k = Len(header.containerSizes)
      BY <1>1, <1>2, <2>2
    <3>2. stage' = "data" /\ offset' = CodePos' + header'.codeTotal + header'.containerTotal
      BY <1>1, <1>3, <1>6, <1>9, <2>2, <3>1
    <3> QED  BY <3>2 DEF Position
  <2> QED  BY <2>1, <2>2
<1>11. Measured'
  BY <1>1, <1>9, BodyMeasured DEF Measured, Body
<1>12. Verdict'
  BY <1>8 DEF Verdict, Body
<1> QED  BY <1>9, <1>10, <1>11, <1>12 DEF FormatInv

(* When the data is all that is left, everything the format asks for has   *)
(* been seen.                                                              *)
LEMMA AllSeen ==
    ASSUME EofInv, FormatInv, stage = "data"
    PROVE  WellFormed(bytecode)
<1> DEFINE b == bytecode
<1>1. /\ stage \in PastPrefix /\ stage \in PastTypesSize /\ stage \in PastNumCode
      /\ stage \in PastDataSize /\ stage \in PastEnd /\ stage \in PastTypes /\ stage \in Body
  BY DEF Stages, Body, PastPrefix, PastTypesSize, PastNumCode, PastDataSize, PastEnd, PastTypes
<1>2. /\ Codes(b) = header.numCode /\ Containers(b) = header.numContainers /\ b \in Bytes
      /\ header.typesSize = 4 * header.numCode /\ Told(b)
  BY <1>1, ExtendsSelf, HeaderRead DEF EofInv
<1>3. /\ Len(header.codeSizes) = header.numCode
      /\ Len(header.containerSizes) = header.numContainers
      /\ Len(container.types) = header.numCode
      /\ header.numContainers \in Nat /\ header.numCode \in Nat
  BY <1>1
     DEF EofInv, Typed, Header, CodeSizesCounted, ContainerSizesCounted, FormatInv, TypesCounted
<1>4. /\ Uint(b, 0, 2) = Magic /\ At(b, 2) = Version1
      /\ At(b, 3) = KindTypes /\ Uint(b, 4, 2) = 4 * Codes(b) /\ 4 * Codes(b) <= MaxTypesSize
      /\ At(b, 6) = KindCode /\ Codes(b) \in 1 .. MaxCodeSections
  BY <1>1, <1>2 DEF Told, PrefixRead, TypesSizeRead, NumCodeRead
<1>5. Nested(b) => Containers(b) \in 1 .. MaxContainerSections
  <2>1. /\ header.numContainers > 0 => header.numContainers <= MaxContainerSections
        /\ header.numContainers = 0 => ~Nested(b)
    BY <1>1, <1>2 DEF Told, ContainersRead, DataSizeRead
  <2>2. MaxContainerSections \in Nat
    BY FormatAssumption
  <2> QED  BY <1>2, <1>3, <2>1, <2>2
<1>6. At(b, DataAt(b)) = KindData /\ At(b, DataAt(b) + 3) = Terminator
  BY <1>1, <1>2 DEF Told, DataSizeRead, EndRead
<1>7. ASSUME NEW k \in 1 .. Codes(b)
      PROVE  CodeSizes(b)[k] > 0 /\ TypeFits(b, BodyAt(b) + 4 * (k - 1))
  <2>1. CodeSizes(b)[k] = Uint(b, 7 + 2 * k, 2)
    BY <1>2, SizesOK
  <2> QED  BY <1>1, <1>2, <1>3, <2>1 DEF Told, CodeSizesRead, TypesRead
<1>8. ASSUME NEW k \in 1 .. Containers(b) PROVE ContainerSizes(b)[k] > 0
  <2>1. ContainerSizes(b)[k] = Uint(b, KindAt(b) - 1 + 4 * k, 4)
    BY <1>2, SizesOK
  <2> QED  BY <1>1, <1>2, <1>3, <2>1 DEF Told, ContainersRead
<1> QED  BY <1>4, <1>5, <1>6, <1>7, <1>8 DEF WellFormed

LEMMA DataSectionFormat ==
    ASSUME EofInv, FormatInv, DataSection
    PROVE  FormatInv'
<1> DEFINE size == IF Short(header.dataSize) THEN Len(bytecode) - offset ELSE header.dataSize
<1>1. stage = "data" /\ UNCHANGED <<bytecode, header>> /\ container \in Sections
  BY DEF DataSection, Read, ContainerBecomes, EofInv, Typed
<1>2. /\ offset = CodePos + header.codeTotal + header.containerTotal
      /\ WellFormed(bytecode) /\ Extent(bytecode) = BodyEnd
      /\ BodyEnd = offset + header.dataSize /\ BodyEnd <= Len(bytecode)
      /\ BodyEnd \in Nat /\ Len(bytecode) \in Nat /\ Len(bytecode) <= MaxInitCodeSize
  BY <1>1, AllSeen, BodyMeasured DEF FormatInv, Position, Body
<1>3. offset + size = BodyEnd
  BY <1>2 DEF Short
<1>4. failure' = IF BodyEnd < Len(bytecode) THEN "ErrExtraneousData" ELSE "none"
  <2>1. failure' = FirstFailing(<<<<offset + size < Len(bytecode), "ErrExtraneousData">>>>)
    BY DEF DataSection, Read
  <2> DEFINE bad == offset + size < Len(bytecode)
  <2>2. bad <=> BodyEnd < Len(bytecode)
    BY <1>3
  <2>3. failure' = FirstFailing(<<<<bad, "ErrExtraneousData">>>>)
    BY <2>1
  <2> HIDE DEF bad
  <2>4. failure' = IF bad THEN "ErrExtraneousData" ELSE "none"
    BY <2>3, SectionRead
  <2> QED  BY <2>2, <2>4
<1>5. CASE failure' = "none"
  <2>1. stage' = "accepted" /\ container' = [container EXCEPT !.data = Slice(size)]
    BY <1>5 DEF DataSection, Read, ContainerBecomes, Keep
  <2>2. container'.types = container.types
    BY <1>1, <2>1 DEF Sections
  <2>3. IsContainer(bytecode)
    BY <1>2, <1>4, <1>5 DEF IsContainer
  <2>4. stage \in PastTypes /\ stage' \in PastTypes
    BY <1>1, <2>1 DEF PastTypes, PastEnd, Body
  <2>5. (\A c : Extends(c, bytecode)' => Told(c)') /\ Totals' /\ TypesCounted'
    BY <1>1, <2>2, <2>4, SectionTold
  <2>6. Verdict'
    BY <1>1, <2>1, <2>3 DEF Verdict
  <2> QED  BY <2>1, <2>5, <2>6 DEF FormatInv, Position, Measured, Body
<1>6. CASE failure' # "none"
  <2>1. failure' = "ErrExtraneousData" /\ Justified(failure', bytecode)
    BY <1>2, <1>4, <1>6 DEF Justified, Shorts
  <2>2. container' = container /\ stage' = "failed"
    BY <1>6 DEF DataSection, ContainerBecomes, Keep, Read
  <2> QED  BY <1>1, <2>1, <2>2, RefusedOK
<1> QED  BY <1>5, <1>6

-----------------------------------------------------------------------------
LEMMA FormatInitOK == EofInit => FormatInv
<1> SUFFICES ASSUME EofInit PROVE FormatInv
  OBVIOUS
<1>1. /\ NoHeader.codeSizes = <<>> /\ NoHeader.containerSizes = <<>>
      /\ NoHeader.codeTotal = 0 /\ NoHeader.containerTotal = 0
  BY DEF NoHeader
<1>2. Totals
  BY <1>1, TotalRec DEF EofInit, Totals
<1>3. \A c : Told(c)
  BY DEF EofInit, Told, PrefixRead, TypesSizeRead, NumCodeRead, CodeSizesRead, ContainersRead,
         DataSizeRead, EndRead, TypesRead, PastPrefix, PastTypesSize, PastNumCode, PastEnd,
         PastDataSize, Body
<1> QED
  BY <1>2, <1>3
     DEF EofInit, FormatInv, Position, Measured, TypesCounted, Verdict, Body, PastTypes, PastEnd

LEMMA FormatStutters ==
    ASSUME FormatInv, UNCHANGED eofvars
    PROVE  FormatInv'
<1> USE DEF eofvars
<1>1. ASSUME NEW c, Extends(c, bytecode)' PROVE Told(c)'
  <2>1. Extends(c, bytecode) /\ Told(c)
    BY <1>1 DEF Extends, FormatInv
  <2> QED
    BY <2>1
       DEF Told, PrefixRead, TypesSizeRead, NumCodeRead, CodeSizesRead, ContainersRead,
           DataSizeRead, EndRead, TypesRead
<1>2. Position'
  BY DEF FormatInv, Position, KindPos, DataPos, CodePos, HasContainers
<1>3. Totals' /\ Measured' /\ TypesCounted' /\ Verdict'
  BY DEF FormatInv, Totals, Measured, TypesCounted, Verdict, BodyEnd, DataPos, KindPos,
         ExpectedBodySize, Justified
<1> QED  BY <1>1, <1>2, <1>3 DEF FormatInv

(* What the parser has read is what the format says, at every moment of    *)
(* every parse.                                                            *)
THEOREM ReadsTheFormat == EofSpec => [](EofInv /\ FormatInv)
<1>1. EofInit => EofInv /\ FormatInv
  BY EofInitOK, FormatInitOK
<1>2. EofInv /\ FormatInv /\ [EofNext]_eofvars => (EofInv /\ FormatInv)'
  <2> SUFFICES ASSUME EofInv, FormatInv, [EofNext]_eofvars PROVE EofInv' /\ FormatInv'
    OBVIOUS
  <2>1. EofInv'
    BY EofStepOK
  <2>2. CASE EofNext
    BY <2>1, <2>2, PrefixFormat, TypesSizeFormat, NumCodeFormat, CodeSizeFormat,
       NumContainersFormat, NoContainersFormat, ContainerSizeFormat, DataSizeFormat, EndHeaderFormat,
       TypeEntryFormat, CodeSectionFormat, ContainerSectionFormat, DataSectionFormat
       DEF EofNext
  <2>3. CASE UNCHANGED eofvars
    BY <2>1, <2>3, FormatStutters
  <2> QED  BY <2>2, <2>3
<1> QED  BY <1>1, <1>2, PTL DEF EofSpec

(* The parser accepts exactly the containers.                              *)
THEOREM AcceptsTheContainers == EofSpec => []AcceptsExactly
<1>1. EofInv /\ FormatInv => AcceptsExactly
  <2> SUFFICES ASSUME EofInv, FormatInv, stage = "failed" PROVE ~IsContainer(bytecode)
    BY DEF AcceptsExactly, Ended, Accepted, FormatInv, Verdict
  <2>1. Justified(failure, bytecode) /\ Extends(bytecode, bytecode)
    BY ExtendsSelf DEF EofInv, FormatInv, Verdict
  <2>2. /\ Len(bytecode) \in Nat /\ Extent(bytecode) \in Nat /\ MaxInitCodeSize \in Nat
    BY ExtentOK, FormatAssumption DEF EofInv, Typed, Bytes
  <2> QED  BY <2>1, <2>2 DEF Justified, IsContainer
<1> QED  BY ReadsTheFormat, <1>1, PTL

-----------------------------------------------------------------------------
(* Whether a bytecode is well formed, and where it ends, depends only on   *)
(* the bytes before its end.                                               *)
LEMMA ExtentDecides ==
    ASSUME NEW b \in Bytes, NEW c \in Bytes, NEW n \in Nat, Extent(b) <= n,
           \A p \in Nat : p < n => At(c, p) = At(b, p)
    PROVE  Extent(c) = Extent(b) /\ (WellFormed(c) <=> WellFormed(b))
<1> DEFINE kinds == Codes(b)
           inner == Containers(b)
           data  == DataAt(b)
<1>1. ASSUME NEW p \in Nat, p + 1 < n PROVE Uint(c, p, 2) = Uint(b, p, 2)
  <2>1. p + 1 \in Nat /\ p < n
    BY <1>1
  <2> QED  BY <1>1, <2>1, UintSteps
<1>2. ASSUME NEW p \in Nat, p + 3 < n PROVE Uint(c, p, 4) = Uint(b, p, 4)
  <2>1. p + 2 \in Nat /\ p + 1 < n /\ p + 2 + 1 < n
    BY <1>2
  <2>2. Uint(c, p, 2) = Uint(b, p, 2) /\ Uint(c, p + 2, 2) = Uint(b, p + 2, 2)
    BY <1>1, <2>1
  <2> QED  BY <2>2, UintSteps
<1>3. /\ Extent(b) \in Nat /\ data \in Nat /\ kinds \in Nat /\ inner \in Nat
      /\ data >= 9 + 2 * kinds /\ Extent(b) >= data + 4 + 4 * kinds
      /\ Nested(b) => data = 9 + 2 * kinds + 3 + 4 * inner
      /\ ~Nested(b) => data = 9 + 2 * kinds
      /\ KindAt(b) = 9 + 2 * kinds /\ BodyAt(b) = data + 4
  BY PlacesOK, SizesOK
<1> HIDE DEF kinds, inner, data
<1>4. n >= data + 4 + 4 * kinds /\ n >= 9 + 2 * kinds + 4
  BY <1>3
<1>5. Codes(c) = kinds /\ KindAt(c) = KindAt(b)
  <2>1. Codes(c) = kinds
    BY <1>1, <1>3, <1>4 DEF Codes, kinds
  <2> QED  BY <2>1 DEF KindAt, kinds
<1>6. Nested(c) <=> Nested(b)
  <2>1. KindAt(b) \in Nat /\ KindAt(b) < n
    BY <1>3, <1>4
  <2> QED  BY <1>5, <2>1 DEF Nested
<1>7. Containers(c) = inner
  <2>1. Nested(b) => KindAt(b) + 1 \in Nat /\ KindAt(b) + 1 + 1 < n
    BY <1>3, <1>4
  <2> QED  BY <1>1, <1>5, <1>6, <2>1 DEF Containers, inner
<1>8. DataAt(c) = data /\ BodyAt(c) = BodyAt(b)
  BY <1>5, <1>6, <1>7 DEF DataAt, BodyAt, data, inner
<1>9. /\ At(c, data) = At(b, data) /\ At(c, data + 3) = At(b, data + 3)
      /\ Uint(c, data + 1, 2) = Uint(b, data + 1, 2)
  <2>1. data < n /\ data + 3 \in Nat /\ data + 3 < n /\ data + 1 \in Nat /\ data + 1 + 1 < n
    BY <1>3, <1>4
  <2> QED  BY <1>1, <1>3, <2>1
<1>10. ASSUME NEW k \in 1 .. kinds
       PROVE  /\ CodeSizes(c)[k] = CodeSizes(b)[k]
              /\ TypeFits(c, BodyAt(b) + 4 * (k - 1)) <=> TypeFits(b, BodyAt(b) + 4 * (k - 1))
  <2>1. 7 + 2 * k \in Nat /\ 7 + 2 * k + 1 < n
    BY <1>3, <1>4
  <2>2. CodeSizes(c)[k] = Uint(c, 7 + 2 * k, 2) /\ CodeSizes(b)[k] = Uint(b, 7 + 2 * k, 2)
    BY <1>5, SizesOK DEF kinds
  <2> DEFINE p == BodyAt(b) + 4 * (k - 1)
  <2>3. p \in Nat /\ p + 3 < n
    BY <1>3, <1>4
  <2> HIDE DEF p
  <2>4. p < n /\ p + 1 \in Nat /\ p + 1 < n /\ p + 2 \in Nat /\ p + 2 + 1 < n
    BY <2>3
  <2>5. At(c, p) = At(b, p) /\ At(c, p + 1) = At(b, p + 1) /\ Uint(c, p + 2, 2) = Uint(b, p + 2, 2)
    BY <1>1, <2>3, <2>4
  <2>6. TypeFits(c, p) <=> TypeFits(b, p)
    BY <2>5 DEF TypeFits
  <2> QED  BY <1>1, <2>1, <2>2, <2>6 DEF p
<1>11. ASSUME NEW k \in 1 .. inner
       PROVE  ContainerSizes(c)[k] = ContainerSizes(b)[k]
  <2>1. Nested(b)
    BY <1>11 DEF inner, Containers
  <2>2. KindAt(b) - 1 + 4 * k \in Nat /\ KindAt(b) - 1 + 4 * k + 3 < n
    BY <1>3, <1>4, <2>1
  <2>3. /\ ContainerSizes(c)[k] = Uint(c, KindAt(b) - 1 + 4 * k, 4)
        /\ ContainerSizes(b)[k] = Uint(b, KindAt(b) - 1 + 4 * k, 4)
    BY <1>5, <1>7, SizesOK DEF inner
  <2> QED  BY <1>2, <2>2, <2>3
<1>12. Extent(c) = Extent(b)
  <2>1. Total(CodeSizes(c), kinds) = Total(CodeSizes(b), kinds)
    BY <1>3, <1>10, TotalSame
  <2>2. Total(ContainerSizes(c), inner) = Total(ContainerSizes(b), inner)
    BY <1>3, <1>11, TotalSame
  <2> QED  BY <1>5, <1>7, <1>8, <1>9, <2>1, <2>2 DEF Extent, kinds, inner, data
<1>13. /\ Uint(c, 0, 2) = Uint(b, 0, 2) /\ At(c, 2) = At(b, 2) /\ At(c, 3) = At(b, 3)
       /\ Uint(c, 4, 2) = Uint(b, 4, 2) /\ At(c, 6) = At(b, 6)
  BY <1>1, <1>3, <1>4
<1>14. WellFormed(c) <=>
         /\ Uint(b, 0, 2) = Magic /\ At(b, 2) = Version1
         /\ At(b, 3) = KindTypes /\ Uint(b, 4, 2) = 4 * kinds /\ 4 * kinds <= MaxTypesSize
         /\ At(b, 6) = KindCode /\ kinds \in 1 .. MaxCodeSections
         /\ Nested(b) => inner \in 1 .. MaxContainerSections
         /\ At(b, data) = KindData /\ At(b, data + 3) = Terminator
         /\ \A k \in 1 .. kinds :
               CodeSizes(c)[k] > 0 /\ TypeFits(c, BodyAt(b) + 4 * (k - 1))
         /\ \A k \in 1 .. inner : ContainerSizes(c)[k] > 0
  BY <1>5, <1>6, <1>7, <1>8, <1>9, <1>13 DEF WellFormed
<1>15. WellFormed(c) <=> WellFormed(b)
  BY <1>10, <1>11, <1>14 DEF WellFormed, kinds, inner, data
<1> QED  BY <1>12, <1>15

(* Only a parse that was refused names an error.                           *)
Unrefused == stage # "failed" => failure = "none"
LEMMA OnlyRefusalsFail == EofSpec => []Unrefused
<1>1. EofInit => Unrefused
  BY DEF EofInit, Unrefused
<1>2. Unrefused /\ [EofNext]_eofvars => Unrefused'
  BY DEF Unrefused, eofvars, EofNext, Prefix, TypesSize, NumCode, CodeSize, NumContainers,
         NoContainers, ContainerSize, DataSize, EndHeader, TypeEntry, CodeSection,
         ContainerSection, DataSection, Read
<1> QED  BY <1>1, <1>2, PTL DEF EofSpec

(* An error about bytes behind the container is returned exactly for the   *)
(* bytecodes that begin with a container and go on: whatever the limits    *)
(* and the bytecode are, nothing else is blamed on its end.                *)
THEOREM ExtraneousIsExtraneous == EofSpec => []ExtraneousIsNamed
<1>1. EofInv /\ FormatInv /\ Unrefused => ExtraneousIsNamed
  <2> SUFFICES ASSUME EofInv, FormatInv, Unrefused, Ended, Len(bytecode) <= MaxInitCodeSize
               PROVE  failure = "ErrExtraneousData" <=>
                        \E n \in 0 .. Len(bytecode) - 1 : IsContainer(SubSeq(bytecode, 1, n))
    BY DEF ExtraneousIsNamed
  <2>1. /\ bytecode \in Bytes /\ Len(bytecode) \in Nat /\ Extent(bytecode) \in Nat
        /\ MaxInitCodeSize \in Nat /\ Extends(bytecode, bytecode)
    BY ExtentOK, ExtendsSelf, FormatAssumption DEF EofInv, Typed, Bytes
  <2>2. /\ stage = "accepted" => WellFormed(bytecode) /\ Len(bytecode) = Extent(bytecode)
        /\ stage = "failed" => Justified(failure, bytecode)
        /\ stage \in {"accepted", "failed"} /\ (stage = "accepted" => failure = "none")
    BY DEF FormatInv, Verdict, IsContainer, Ended, Unrefused
  <2>3. ASSUME NEW n \in 0 .. Len(bytecode)
        PROVE  /\ SubSeq(bytecode, 1, n) \in Bytes /\ Len(SubSeq(bytecode, 1, n)) = n
               /\ \A p \in Nat : p < n => At(SubSeq(bytecode, 1, n), p) = At(bytecode, p)
    BY <2>1 DEF Bytes, At
  <2>4. ASSUME failure = "ErrExtraneousData"
        PROVE  \E n \in 0 .. Len(bytecode) - 1 : IsContainer(SubSeq(bytecode, 1, n))
    <3>1. WellFormed(bytecode) /\ Extent(bytecode) < Len(bytecode)
      BY <2>2, <2>4 DEF Justified
    <3> DEFINE n == Extent(bytecode)
               c == SubSeq(bytecode, 1, n)
    <3>2. n \in 0 .. Len(bytecode) - 1 /\ n \in 0 .. Len(bytecode) /\ n \in Nat /\ Extent(bytecode) <= n
      BY <2>1, <3>1
    <3>3. c \in Bytes /\ Len(c) = n /\ \A p \in Nat : p < n => At(c, p) = At(bytecode, p)
      BY <2>3, <3>2
    <3> HIDE DEF c
    <3>4. Extent(c) = Extent(bytecode) /\ WellFormed(c)
      BY <2>1, <3>1, <3>2, <3>3, ExtentDecides
    <3>5. n <= MaxInitCodeSize
      BY <2>1, <3>1
    <3>6. IsContainer(c)
      BY <3>3, <3>4, <3>5 DEF IsContainer
    <3> QED  BY <3>2, <3>6 DEF c
  <2>5. ASSUME NEW n \in 0 .. Len(bytecode) - 1, IsContainer(SubSeq(bytecode, 1, n))
        PROVE  failure = "ErrExtraneousData"
    <3> DEFINE c == SubSeq(bytecode, 1, n)
    <3>1. n \in 0 .. Len(bytecode) /\ n \in Nat /\ n < Len(bytecode)
      BY <2>1
    <3>2. c \in Bytes /\ Len(c) = n /\ \A p \in Nat : p < n => At(bytecode, p) = At(c, p)
      BY <2>3, <3>1
    <3>3. WellFormed(c) /\ Len(c) = Extent(c)
      BY <2>5 DEF IsContainer
    <3> HIDE DEF c
    <3>4. Extent(bytecode) = n /\ WellFormed(bytecode)
      BY <2>1, <3>1, <3>2, <3>3, ExtentDecides
    <3>5. stage = "failed" /\ Justified(failure, bytecode)
      BY <2>1, <2>2, <3>1, <3>4
    <3> QED  BY <2>1, <3>1, <3>4, <3>5 DEF Justified
  <2> QED  BY <2>4, <2>5
<1> QED  BY ReadsTheFormat, OnlyRefusalsFail, <1>1, PTL

(* A container that is cut off is reported as too short and as nothing     *)
(* else, wherever it is cut: no other check comes before the one that      *)
(* misses the bytes.                                                       *)
THEOREM CutContainersAreShort == EofSpec => []TruncatedIsShort
<1>1. EofInv /\ FormatInv /\ Unrefused => TruncatedIsShort
  <2> SUFFICES ASSUME EofInv, FormatInv, Unrefused, Ended, NEW b \in Whole,
                      IsStrictPrefix(bytecode, b)
               PROVE  failure \in Shorts
    BY DEF TruncatedIsShort, Shorts
  <2>1. /\ bytecode \in Bytes /\ Len(bytecode) \in Nat /\ b \in Bytes /\ Len(b) \in Nat
        /\ MaxInitCodeSize \in Nat
    BY FormatAssumption DEF EofInv, Typed, Bytes, Whole
  <2>2. Len(bytecode) < Len(b) /\ Extends(b, bytecode)
    <3>1. /\ Len(bytecode) <= Len(b) /\ bytecode # b
          /\ SubSeq(bytecode, 1, Len(bytecode)) = SubSeq(b, 1, Len(bytecode))
      BY DEF IsStrictPrefix, IsPrefix
    <3>2. \A p \in 1 .. Len(bytecode) : b[p] = bytecode[p]
      <4> SUFFICES ASSUME NEW p \in 1 .. Len(bytecode) PROVE b[p] = bytecode[p]
        OBVIOUS
      <4>1. SubSeq(bytecode, 1, Len(bytecode))[p] = bytecode[p]
        BY <2>1 DEF Bytes
      <4>2. SubSeq(b, 1, Len(bytecode))[p] = b[p]
        BY <2>1, <3>1 DEF Bytes
      <4> QED  BY <3>1, <4>1, <4>2
    <3>3. Len(bytecode) # Len(b)
      BY <2>1, <3>1, <3>2 DEF Bytes
    <3> QED  BY <2>1, <3>1, <3>2, <3>3 DEF Extends
  <2>3. WellFormed(b) /\ Len(b) = Extent(b) /\ Len(b) <= MaxInitCodeSize
    BY DEF Whole, IsContainer
  <2>4. ~(Extent(bytecode) <= Len(bytecode))
    <3> DEFINE n == Len(bytecode)
    <3>1. \A p \in Nat : p < n => At(b, p) = At(bytecode, p)
      BY <2>1, <2>2 DEF Extends, At
    <3> HIDE DEF n
    <3>2. n \in Nat /\ n < Extent(b)
      BY <2>1, <2>2, <2>3 DEF n
    <3>3. Extent(bytecode) <= n => Extent(b) = Extent(bytecode)
      BY <2>1, <3>1, <3>2, ExtentDecides
    <3>4. Extent(bytecode) \in Nat
      BY <2>1, ExtentOK
    <3> QED  BY <3>2, <3>3, <3>4 DEF n
  <2>5. Extent(bytecode) \in Nat
    BY <2>1, ExtentOK
  <2>6. stage # "accepted"
    BY <2>1, <2>4, <2>5 DEF FormatInv, Verdict, IsContainer
  <2>7. Justified(failure, bytecode)
    BY <2>6 DEF FormatInv, Verdict, Ended
  <2> QED  BY <2>1, <2>2, <2>3, <2>4, <2>5, <2>7 DEF Justified
<1> QED  BY ReadsTheFormat, OnlyRefusalsFail, <1>1, PTL

-----------------------------------------------------------------------------
(* The digits of the numbers in a bytecode are its bytes.                  *)
LEMMA SmallMultiple ==
    ASSUME NEW base \in Nat, base > 1, NEW d \in Int, NEW e \in Int, base * d = e,
           e < base, -base < e
    PROVE  d = 0
<1>1. CASE d >= 1
  <2>1. \A x, y \in Int : x > 1 /\ y >= 1 => x * y >= x
    OBVIOUS
  <2> QED  BY <1>1, <2>1
<1>2. CASE d <= -1
  <2>1. \A x, y \in Int : x > 1 /\ y <= -1 => x * y <= -x
    OBVIOUS
  <2> QED  BY <1>2, <2>1
<1> QED  BY <1>1, <1>2

LEMMA DivMod ==
    ASSUME NEW base \in Nat, base > 1, NEW x \in Nat, NEW y \in Nat, y < base
    PROVE  (base * x + y) \div base = x /\ (base * x + y) % base = y
<1> DEFINE v == base * x + y
           q == v \div base
           r == v % base
<1>1. v \in Nat
  <2>1. \A a, c \in Nat : a * c \in Nat
    OBVIOUS
  <2> QED  BY <2>1
<1> HIDE DEF v
<1>2. q \in Int /\ r \in Int /\ v = base * q + r /\ 0 <= r /\ r < base
  BY <1>1
<1> HIDE DEF q, r
<1>3. base * (x - q) = r - y
  <2>1. \A a, c, e \in Int : a * (c - e) = a * c - a * e
    OBVIOUS
  <2>2. base * (x - q) = base * x - base * q
    BY <1>2, <2>1
  <2>3. base * x \in Int /\ base * q \in Int
    BY <1>2
  <2> QED  BY <1>2, <2>2, <2>3 DEF v
<1>4. x - q = 0
  <2>1. x - q \in Int /\ r - y \in Int /\ r - y < base /\ -base < r - y
    BY <1>2
  <2> QED  BY <1>3, <2>1, SmallMultiple
<1> QED  BY <1>2, <1>3, <1>4 DEF v, q, r

(* The bytes from p up to q.                                               *)
Span(b, p, q) == SubSeq(b, p + 1, q)

LEMMA SpanIs ==
    ASSUME NEW b \in Bytes, NEW p \in Nat, NEW q \in Nat, p <= q, q <= Len(b)
    PROVE  /\ Span(b, p, q) \in Bytes /\ Len(Span(b, p, q)) = q - p
           /\ \A i \in 1 .. q - p : Span(b, p, q)[i] = At(b, p + i - 1)
<1>1. b \in Seq(ByteValues) /\ Len(b) \in Nat
  BY DEF Bytes
<1>2. \A i \in p + 1 .. q : b[i] \in ByteValues
  BY <1>1
<1>3. /\ SubSeq(b, p + 1, q) \in Seq(ByteValues)
      /\ Len(SubSeq(b, p + 1, q)) = IF p + 1 <= q THEN q - (p + 1) + 1 ELSE 0
      /\ \A i \in 1 .. q - (p + 1) + 1 : SubSeq(b, p + 1, q)[i] = b[p + 1 + i - 1]
  BY <1>2, SubSeqProperties
<1>4. Len(SubSeq(b, p + 1, q)) = q - p
  BY <1>3
<1>5. ASSUME NEW i \in 1 .. q - p PROVE SubSeq(b, p + 1, q)[i] = At(b, p + i - 1)
  <2>1. i \in 1 .. q - (p + 1) + 1 /\ p + 1 + i - 1 = p + i - 1 + 1 /\ p + i - 1 < Len(b)
    BY <1>1
  <2> QED  BY <1>3, <2>1 DEF At
<1> QED  BY <1>3, <1>4, <1>5 DEF Span, Bytes

LEMMA SpansJoin ==
    ASSUME NEW b \in Bytes, NEW p \in Nat, NEW q \in Nat, NEW r \in Nat, p <= q, q <= r,
           r <= Len(b)
    PROVE  Span(b, p, q) \o Span(b, q, r) = Span(b, p, r)
<1>1. b \in Seq(ByteValues) /\ Len(b) \in Nat
  BY DEF Bytes
<1>2. p + 1 \in 1 .. Len(b) + 1 /\ q \in (p + 1) - 1 .. Len(b) /\ r \in q .. Len(b)
  BY <1>1
<1> QED  BY <1>1, <1>2, ConcatAdjacentSubSeq DEF Span

LEMMA SpanOfOne ==
    ASSUME NEW b \in Bytes, NEW p \in Nat, p < Len(b)
    PROVE  <<At(b, p)>> = Span(b, p, p + 1)
<1>1. /\ Span(b, p, p + 1) \in Seq(ByteValues) /\ Len(Span(b, p, p + 1)) = 1
      /\ Span(b, p, p + 1)[1] = At(b, p)
  <2>1. /\ p + 1 \in Nat /\ p + 1 <= Len(b) /\ (p + 1) - p = 1 /\ p + 1 - 1 = p
        /\ p <= p + 1
    BY DEF Bytes
  <2>2. /\ Span(b, p, p + 1) \in Bytes /\ Len(Span(b, p, p + 1)) = (p + 1) - p
        /\ \A i \in 1 .. (p + 1) - p : Span(b, p, p + 1)[i] = At(b, p + i - 1)
    BY <2>1, SpanIs
  <2>3. 1 \in 1 .. (p + 1) - p
    BY <2>1
  <2> HIDE DEF Span
  <2>4. Span(b, p, p + 1)[1] = At(b, p + 1 - 1)
    BY <2>2, <2>3
  <2> QED  BY <2>1, <2>2, <2>4 DEF Bytes
<1> HIDE DEF Span
<1> QED  BY <1>1

LEMMA SpanOfTwo ==
    ASSUME NEW b \in Bytes, NEW p \in Nat, p + 1 < Len(b)
    PROVE  <<At(b, p), At(b, p + 1)>> = Span(b, p, p + 2)
<1>1. /\ Span(b, p, p + 2) \in Seq(ByteValues) /\ Len(Span(b, p, p + 2)) = 2
      /\ Span(b, p, p + 2)[1] = At(b, p) /\ Span(b, p, p + 2)[2] = At(b, p + 1)
  <2>1. /\ p + 2 \in Nat /\ p + 2 <= Len(b) /\ (p + 2) - p = 2 /\ p + 1 - 1 = p
        /\ p + 2 - 1 = p + 1 /\ p <= p + 2
    BY DEF Bytes
  <2>2. /\ Span(b, p, p + 2) \in Bytes /\ Len(Span(b, p, p + 2)) = (p + 2) - p
        /\ \A i \in 1 .. (p + 2) - p : Span(b, p, p + 2)[i] = At(b, p + i - 1)
    BY <2>1, SpanIs
  <2>3. 1 \in 1 .. (p + 2) - p /\ 2 \in 1 .. (p + 2) - p
    BY <2>1
  <2> HIDE DEF Span
  <2>4. Span(b, p, p + 2)[1] = At(b, p + 1 - 1) /\ Span(b, p, p + 2)[2] = At(b, p + 2 - 1)
    BY <2>2, <2>3
  <2> QED  BY <2>1, <2>2, <2>4 DEF Bytes
<1> HIDE DEF Span
<1> QED  BY <1>1

IsRest(v, n, s) == s = [k \in 0 .. n |-> IF k = 0 THEN v ELSE s[k - 1] \div ByteBase]

LEMMA DigitsAre ==
    ASSUME NEW v, NEW n \in {2, 4}
    PROVE  \E s : IsRest(v, n, s) /\ Digits(v, n) = [k \in 1 .. n |-> s[n - k] % ByteBase]
<1> DEFINE r1 == v \div ByteBase
           r2 == r1 \div ByteBase
           r3 == r2 \div ByteBase
           r4 == r3 \div ByteBase
           s  == [k \in 0 .. n |-> IF k = 0 THEN v ELSE IF k = 1 THEN r1 ELSE IF k = 2 THEN r2
                                     ELSE IF k = 3 THEN r3 ELSE r4]
<1>1. \A k \in 0 .. n : k = 0 \/ k = 1 \/ k = 2 \/ (n = 4 /\ k = 3) \/ (n = 4 /\ k = 4)
  OBVIOUS
<1>2. /\ s[0] = v /\ s[1] = s[0] \div ByteBase /\ s[2] = s[1] \div ByteBase
      /\ n = 4 => s[3] = s[2] \div ByteBase /\ s[4] = s[3] \div ByteBase
  <2> HIDE DEF r1
  <2>1. s[0] = v /\ s[1] = r1
    OBVIOUS
  <2> HIDE DEF r2
  <2>2. s[2] = r2
    OBVIOUS
  <2> HIDE DEF r3
  <2>3. n = 4 => s[3] = r3
    OBVIOUS
  <2> HIDE DEF r4
  <2>4. n = 4 => s[4] = r4
    OBVIOUS
  <2> HIDE DEF s
  <2> QED  BY <2>1, <2>2, <2>3, <2>4 DEF r1, r2, r3, r4
<1>3. s = [k \in 0 .. n |-> s[k]]
  OBVIOUS
<1> HIDE DEF s
<1>4. \A k \in 0 .. n : s[k] = IF k = 0 THEN v ELSE s[k - 1] \div ByteBase
  BY <1>1, <1>2
<1>5. IsRest(v, n, s)
  BY <1>3, <1>4 DEF IsRest
<1> DEFINE rest == CHOOSE t : t = [k \in 0 .. n |-> IF k = 0 THEN v ELSE t[k - 1] \div ByteBase]
<1>6. IsRest(v, n, rest)
  BY <1>5 DEF IsRest
<1>7. Digits(v, n) = [k \in 1 .. n |-> rest[n - k] % ByteBase]
  BY DEF Digits
<1> QED  BY <1>6, <1>7

LEMMA AtBelow ==
    ASSUME NEW b \in Bytes, NEW p \in Nat
    PROVE  At(b, p) \in Nat /\ At(b, p) < ByteBase /\ ByteBase \in Nat /\ ByteBase > 1
<1>1. ByteBase \in Nat /\ ByteBase > 1
  BY FormatAssumption
<1>2. At(b, p) \in 0 .. ByteBase - 1
  BY AtIsByte DEF ByteValues
<1> QED  BY <1>1, <1>2

LEMMA DigitsOfTwo ==
    ASSUME NEW b \in Bytes, NEW p \in Nat, p + 1 < Len(b)
    PROVE  Digits(Uint(b, p, 2), 2) = Span(b, p, p + 2)
<1> DEFINE x == At(b, p)
           y == At(b, p + 1)
           v == Uint(b, p, 2)
<1>1. /\ x \in Nat /\ y \in Nat /\ x < ByteBase /\ y < ByteBase /\ ByteBase \in Nat /\ ByteBase > 1
      /\ p + 1 \in Nat
  <2>1. p + 1 \in Nat
    OBVIOUS
  <2> QED  BY <2>1, AtBelow
<1>2. v = ByteBase * x + y
  BY UintSteps
<1>3. PICK s : IsRest(v, 2, s) /\ Digits(v, 2) = [k \in 1 .. 2 |-> s[2 - k] % ByteBase]
  BY DigitsAre
<1>4. s[0] = v /\ s[1] = v \div ByteBase
  BY <1>3 DEF IsRest
<1>5. s[0] % ByteBase = y /\ s[1] % ByteBase = x
  <2> HIDE DEF x, y, v
  <2>1. v \div ByteBase = x /\ v % ByteBase = y
    BY <1>1, <1>2, DivMod
  <2>2. x % ByteBase = x
    BY <1>1
  <2> QED  BY <1>4, <2>1, <2>2
<1> HIDE DEF x, y, v
<1>6. Digits(v, 2) = <<x, y>>
  BY <1>3, <1>5
<1> QED  BY <1>6, SpanOfTwo DEF x, y, v

LEMMA DigitsOfFour ==
    ASSUME NEW b \in Bytes, NEW p \in Nat, p + 3 < Len(b)
    PROVE  Digits(Uint(b, p, 4), 4) = Span(b, p, p + 4)
<1> DEFINE x == At(b, p)
           y == At(b, p + 1)
           z == At(b, p + 2)
           u == At(b, p + 3)
           v == Uint(b, p, 4)
           base == ByteBase
<1>1. /\ x \in Nat /\ y \in Nat /\ z \in Nat /\ u \in Nat
      /\ x < base /\ y < base /\ z < base /\ u < base /\ base \in Nat /\ base > 1
  <2>1. p + 1 \in Nat /\ p + 2 \in Nat /\ p + 3 \in Nat
    OBVIOUS
  <2> QED  BY <2>1, AtBelow
<1>2. v = base * base * (base * x + y) + (base * z + u)
  <2>1. p + 2 \in Nat /\ p + 2 + 1 = p + 3
    OBVIOUS
  <2>2. Uint(b, p, 2) = base * x + y /\ Uint(b, p + 2, 2) = base * z + u
    BY <2>1, UintSteps
  <2> QED  BY <2>2, UintSteps
<1>3. PICK s : IsRest(v, 4, s) /\ Digits(v, 4) = [k \in 1 .. 4 |-> s[4 - k] % base]
  BY DigitsAre
<1>4. s[0] = v /\ s[1] = s[0] \div base /\ s[2] = s[1] \div base /\ s[3] = s[2] \div base
  BY <1>3 DEF IsRest
<1> HIDE DEF x, y, z, u, v, base
<1>5. \A a, c \in Nat : a * c \in Nat
  OBVIOUS
<1> DEFINE m1 == base * x + y
           m2 == base * m1 + z
<1>6. m1 \in Nat /\ m2 \in Nat
  BY <1>1, <1>5
<1>7. v = base * m2 + u
  <2>1. \A f, g, h, i \in Nat : i * i * f + (i * g + h) = i * (i * f + g) + h
    OBVIOUS
  <2> HIDE DEF m1
  <2> QED  BY <1>1, <1>2, <1>6, <2>1 DEF m1
<1> HIDE DEF m2
<1>8. s[0] % base = u /\ s[1] = m2
  <2>1. (base * m2 + u) \div base = m2 /\ (base * m2 + u) % base = u
    BY <1>1, <1>6, DivMod
  <2> QED  BY <1>4, <1>7, <2>1
<1>9. s[1] % base = z /\ s[2] = m1
  <2> HIDE DEF m1
  <2>1. (base * m1 + z) \div base = m1 /\ (base * m1 + z) % base = z
    BY <1>1, <1>6, DivMod
  <2> QED  BY <1>4, <1>8, <2>1 DEF m2
<1>10. s[2] % base = y /\ s[3] = x
  <2>1. (base * x + y) \div base = x /\ (base * x + y) % base = y
    BY <1>1, DivMod
  <2> QED  BY <1>4, <1>9, <2>1
<1>11. s[3] % base = x
  BY <1>1, <1>10
<1>12. Digits(v, 4) = <<x, y, z, u>>
  BY <1>3, <1>8, <1>9, <1>10, <1>11
<1>13. <<x, y, z, u>> = Span(b, p, p + 4)
  <2>1. /\ Span(b, p, p + 4) \in Seq(ByteValues) /\ Len(Span(b, p, p + 4)) = 4
        /\ Span(b, p, p + 4)[1] = x /\ Span(b, p, p + 4)[2] = y
        /\ Span(b, p, p + 4)[3] = z /\ Span(b, p, p + 4)[4] = u
    <3>1. /\ p + 4 \in Nat /\ p + 4 <= Len(b) /\ p <= p + 4 /\ (p + 4) - p = 4
          /\ p + 1 - 1 = p /\ p + 2 - 1 = p + 1 /\ p + 3 - 1 = p + 2 /\ p + 4 - 1 = p + 3
      BY DEF Bytes
    <3>2. /\ Span(b, p, p + 4) \in Bytes /\ Len(Span(b, p, p + 4)) = (p + 4) - p
          /\ \A i \in 1 .. (p + 4) - p : Span(b, p, p + 4)[i] = At(b, p + i - 1)
      BY <3>1, SpanIs
    <3>3. \A i \in {1, 2, 3, 4} : i \in 1 .. (p + 4) - p
      BY <3>1
    <3> HIDE DEF Span
    <3>4. /\ Span(b, p, p + 4)[1] = At(b, p + 1 - 1) /\ Span(b, p, p + 4)[2] = At(b, p + 2 - 1)
          /\ Span(b, p, p + 4)[3] = At(b, p + 3 - 1) /\ Span(b, p, p + 4)[4] = At(b, p + 4 - 1)
      BY <3>2, <3>3
    <3> QED  BY <3>1, <3>2, <3>4 DEF Bytes, x, y, z, u
  <2> QED  BY <2>1
<1> QED  BY <1>12, <1>13 DEF v

(* Spans that follow one another are one span.                             *)
InOrder(b, n, s, e) ==
    /\ s \in [1 .. n -> Bytes]
    /\ \A k \in 0 .. n : e[k] \in Nat /\ e[k] <= Len(b)
    /\ \A k \in 1 .. n : e[k - 1] <= e[k] /\ s[k] = Span(b, e[k - 1], e[k])

LEMMA SpansFlatten ==
    ASSUME NEW b \in Bytes, NEW n \in Nat, NEW s, NEW e, InOrder(b, n, s, e)
    PROVE  FlattenSeq(s) = Span(b, e[0], e[n])
<1> USE DEF InOrder
<1> DEFINE IsFlat(f) == f = [i \in 1 .. n |-> IF i = 1 THEN s[i] ELSE f[i - 1] \o s[i]]
<1>1. \A k \in 0 .. n : e[0] <= e[k]
  <2> DEFINE S == {k \in Nat : k <= n => e[0] <= e[k]}
  <2>1. 0 \in S
    OBVIOUS
  <2>2. ASSUME NEW k \in S PROVE k + 1 \in S
    <3> SUFFICES ASSUME k + 1 <= n PROVE e[0] <= e[k + 1]
      OBVIOUS
    <3>1. k + 1 \in 1 .. n /\ k \in 0 .. n /\ k + 1 \in 0 .. n /\ (k + 1) - 1 = k /\ 0 \in 0 .. n
      BY <2>2
    <3>2. e[0] <= e[k] /\ e[k] <= e[k + 1]
      BY <2>2, <3>1
    <3> QED  BY <3>1, <3>2
  <2> HIDE DEF S
  <2>3. \A k \in Nat : k \in S
    BY <2>1, <2>2, Induct DEF S
  <2> QED  BY <2>3 DEF S
<1>2. Len(s) = n /\ 0 \in 0 .. n /\ n \in 0 .. n
  OBVIOUS
<1>3. ASSUME n = 0 PROVE FlattenSeq(s) = Span(b, e[0], e[n])
  <2>1. FlattenSeq(s) = s /\ s = <<>>
    BY <1>2, <1>3 DEF FlattenSeq
  <2>2. e[0] \in Nat
    BY <1>2
  <2>3. Span(b, e[0], e[0]) = <<>>
    BY <2>2, SubSeqEmpty DEF Span
  <2> QED  BY <1>3, <2>1, <2>3
<1>4. ASSUME NEW i \in 1 .. n, i # 1
      PROVE  Span(b, e[0], e[i - 1]) \o s[i] = Span(b, e[0], e[i])
  <2>1. i \in 0 .. n /\ i - 1 \in 0 .. n
    OBVIOUS
  <2>2. /\ e[0] \in Nat /\ e[i - 1] \in Nat /\ e[i] \in Nat /\ e[i] <= Len(b)
        /\ e[0] <= e[i - 1] /\ e[i - 1] <= e[i] /\ s[i] = Span(b, e[i - 1], e[i])
    BY <1>1, <1>2, <2>1
  <2> DEFINE p == e[0]  q == e[i - 1]  r == e[i]
  <2>3. p \in Nat /\ q \in Nat /\ r \in Nat /\ p <= q /\ q <= r /\ r <= Len(b)
    BY <2>2
  <2> HIDE DEF p, q, r
  <2>4. Span(b, p, q) \o Span(b, q, r) = Span(b, p, r)
    BY <2>3, SpansJoin
  <2> QED  BY <2>2, <2>4 DEF p, q, r
<1> DEFINE g == [i \in 1 .. n |-> Span(b, e[0], e[i])]
<1>5. IsFlat(g)
  <2>1. ASSUME NEW i \in 1 .. n
        PROVE  g[i] = IF i = 1 THEN s[i] ELSE g[i - 1] \o s[i]
    <3>1. CASE i = 1
      BY <3>1
    <3>2. CASE i # 1
      <4>1. i - 1 \in 1 .. n
        BY <3>2
      <4> QED  BY <1>4, <3>2, <4>1
    <3> QED  BY <3>1, <3>2
  <2> QED  BY <2>1
<1>6. ASSUME NEW f, IsFlat(f) PROVE \A i \in 1 .. n : f[i] = Span(b, e[0], e[i])
  <2> DEFINE S == {i \in Nat : i + 1 <= n => f[i + 1] = Span(b, e[0], e[i + 1])}
  <2>1. 0 \in S
    BY <1>6
  <2>2. ASSUME NEW i \in S PROVE i + 1 \in S
    <3> DEFINE j == i + 2
    <3> SUFFICES ASSUME j <= n PROVE f[j] = Span(b, e[0], e[j])
      BY <2>2
    <3>1. j \in 1 .. n /\ j # 1 /\ j - 1 = i + 1 /\ i + 1 <= n
      BY <2>2
    <3>2. f[j] = f[j - 1] \o s[j]
      BY <1>6, <3>1
    <3>3. f[j - 1] = Span(b, e[0], e[j - 1])
      BY <2>2, <3>1
    <3> QED  BY <1>4, <3>1, <3>2, <3>3
  <2> HIDE DEF S
  <2>3. \A i \in Nat : i \in S
    BY <2>1, <2>2, Induct DEF S
  <2> SUFFICES ASSUME NEW i \in 1 .. n PROVE f[i] = Span(b, e[0], e[i])
    OBVIOUS
  <2> DEFINE j == i - 1
  <2>4. j \in Nat /\ j + 1 = i /\ i <= n
    OBVIOUS
  <2> HIDE DEF j
  <2>5. f[j + 1] = Span(b, e[0], e[j + 1])
    BY <2>3, <2>4 DEF S
  <2> QED  BY <2>4, <2>5
<1>7. ASSUME n # 0 PROVE FlattenSeq(s) = Span(b, e[0], e[n])
  <2>1. \E f : IsFlat(f) /\ FlattenSeq(s) = f[n]
    <3> HIDE DEF g
    <3> QED  BY <1>2, <1>5, <1>7 DEF FlattenSeq
  <2>2. n \in 1 .. n
    BY <1>7
  <2> HIDE DEF IsFlat
  <2> QED  BY <1>6, <2>1, <2>2
<1> QED  BY <1>1, <1>2, <1>3, <1>7

LEMMA NumbersOfTwo ==
    ASSUME NEW b \in Bytes, NEW n \in Nat, NEW s, DOMAIN s = 1 .. n, NEW pos \in Nat,
           pos + 2 * n <= Len(b), \A k \in 1 .. n : s[k] = Uint(b, pos + 2 * (k - 1), 2)
    PROVE  Numbers(s, 2) = Span(b, pos, pos + 2 * n)
<1> DEFINE digits == [k \in DOMAIN s |-> Digits(s[k], 2)]
           e == [k \in 0 .. n |-> pos + 2 * k]
<1>1. Len(b) \in Nat
  BY DEF Bytes
<1>2. \A k \in 0 .. n : e[k] \in Nat /\ e[k] <= Len(b)
  BY <1>1
<1>3. ASSUME NEW k \in 1 .. n
      PROVE  e[k - 1] <= e[k] /\ digits[k] = Span(b, e[k - 1], e[k]) /\ digits[k] \in Bytes
  <2> DEFINE p == pos + 2 * (k - 1)
  <2>1. /\ p \in Nat /\ p + 1 < Len(b) /\ p + 2 = pos + 2 * k /\ p + 2 \in Nat /\ p <= p + 2
        /\ p + 2 <= Len(b)
    BY <1>1
  <2>2. digits[k] = Digits(Uint(b, p, 2), 2) /\ e[k - 1] = p /\ e[k] = pos + 2 * k
    OBVIOUS
  <2> HIDE DEF p, digits, e
  <2>3. digits[k] = Span(b, p, p + 2)
    BY <2>1, <2>2, DigitsOfTwo
  <2>4. Span(b, p, p + 2) \in Bytes
    BY <2>1, SpanIs
  <2> QED  BY <2>1, <2>2, <2>3, <2>4
<1>4. digits \in [1 .. n -> Bytes]
  BY <1>3
<1>5. e[0] = pos /\ e[n] = pos + 2 * n
  OBVIOUS
<1>6. Numbers(s, 2) = FlattenSeq(digits)
  BY DEF Numbers
<1> HIDE DEF digits, e
<1>7. \A k \in 1 .. n : e[k - 1] <= e[k] /\ digits[k] = Span(b, e[k - 1], e[k])
  BY <1>3
<1>8. InOrder(b, n, digits, e)
  BY <1>2, <1>4, <1>7 DEF InOrder
<1>9. FlattenSeq(digits) = Span(b, e[0], e[n])
  BY <1>8, SpansFlatten
<1> QED  BY <1>5, <1>6, <1>9

LEMMA NumbersOfFour ==
    ASSUME NEW b \in Bytes, NEW n \in Nat, NEW s, DOMAIN s = 1 .. n, NEW pos \in Nat,
           pos + 4 * n <= Len(b), \A k \in 1 .. n : s[k] = Uint(b, pos + 4 * (k - 1), 4)
    PROVE  Numbers(s, 4) = Span(b, pos, pos + 4 * n)
<1> DEFINE digits == [k \in DOMAIN s |-> Digits(s[k], 4)]
           e == [k \in 0 .. n |-> pos + 4 * k]
<1>1. Len(b) \in Nat
  BY DEF Bytes
<1>2. \A k \in 0 .. n : e[k] \in Nat /\ e[k] <= Len(b)
  BY <1>1
<1>3. ASSUME NEW k \in 1 .. n
      PROVE  e[k - 1] <= e[k] /\ digits[k] = Span(b, e[k - 1], e[k]) /\ digits[k] \in Bytes
  <2> DEFINE p == pos + 4 * (k - 1)
  <2>1. /\ p \in Nat /\ p + 3 < Len(b) /\ p + 4 = pos + 4 * k /\ p + 4 \in Nat /\ p <= p + 4
        /\ p + 4 <= Len(b)
    BY <1>1
  <2>2. digits[k] = Digits(Uint(b, p, 4), 4) /\ e[k - 1] = p /\ e[k] = pos + 4 * k
    OBVIOUS
  <2> HIDE DEF p, digits, e
  <2>3. digits[k] = Span(b, p, p + 4)
    BY <2>1, <2>2, DigitsOfFour
  <2>4. Span(b, p, p + 4) \in Bytes
    BY <2>1, SpanIs
  <2> QED  BY <2>1, <2>2, <2>3, <2>4
<1>4. digits \in [1 .. n -> Bytes]
  BY <1>3
<1>5. e[0] = pos /\ e[n] = pos + 4 * n
  OBVIOUS
<1>6. Numbers(s, 4) = FlattenSeq(digits)
  BY DEF Numbers
<1> HIDE DEF digits, e
<1>7. \A k \in 1 .. n : e[k - 1] <= e[k] /\ digits[k] = Span(b, e[k - 1], e[k])
  BY <1>3
<1>8. InOrder(b, n, digits, e)
  BY <1>2, <1>4, <1>7 DEF InOrder
<1>9. FlattenSeq(digits) = Span(b, e[0], e[n])
  BY <1>8, SpansFlatten
<1> QED  BY <1>5, <1>6, <1>9

-----------------------------------------------------------------------------
(* The sections that have been read, by their places in bytecode.          *)
EntryAt(p) ==
    [inputs |-> At(bytecode, p), outputs |-> At(bytecode, p + 1), maxStack |-> Uint(bytecode, p + 2, 2)]
ContainersPos == CodePos + header.codeTotal
TypesAreRead ==
    \A k \in 1 .. Len(container.types) : container.types[k] = EntryAt(DataPos + 4 + 4 * (k - 1))
CodesAreRead ==
    /\ \A k \in 1 .. Len(container.codes) :
          container.codes[k] = Span(bytecode, CodePos + Total(header.codeSizes, k - 1),
                                    CodePos + Total(header.codeSizes, k))
    /\ stage \in {"containers", "data"} => Len(container.codes) = header.numCode
ContainersAreRead ==
    /\ \A k \in 1 .. Len(container.containers) :
          container.containers[k] =
              Span(bytecode, ContainersPos + Total(header.containerSizes, k - 1),
                   ContainersPos + Total(header.containerSizes, k))
    /\ stage = "data" => Len(container.containers) = header.numContainers
SectionsRead ==
    /\ stage \in Body => TypesAreRead /\ CodesAreRead /\ ContainersAreRead
    /\ SectionsAreTheBytes

LEMMA ReadsAt ==
    ASSUME Typed, NEW p \in Nat
    PROVE  ByteAt(p) = At(bytecode, p) /\ Uint16(p) = Uint(bytecode, p, 2)
BY UintSteps DEF ByteAt, At, Uint16, Typed

LEMMA SamePlaces ==
    ASSUME UNCHANGED <<bytecode, header>>
    PROVE  /\ DataPos' = DataPos /\ CodePos' = CodePos /\ ContainersPos' = ContainersPos
           /\ \A p : EntryAt(p)' = EntryAt(p)
BY DEF DataPos, KindPos, CodePos, ContainersPos, EntryAt

LEMMA OutsideBody ==
    ASSUME stage' \notin Body \cup {"accepted"}
    PROVE  SectionsRead'
BY DEF SectionsRead, SectionsAreTheBytes, Accepted

LEMMA EndHeaderSections ==
    ASSUME EofInv, EndHeader
    PROVE  SectionsRead'
<1>1. stage' \in {"types", "failed"} /\ container' = container /\ stage = "terminator"
  BY DEF EndHeader, Read
<1>2. container' = NoSections
  BY <1>1 DEF EofInv, SectionsCounted, Body
<1> QED
  BY <1>1, <1>2
     DEF SectionsRead, TypesAreRead, CodesAreRead, ContainersAreRead, NoSections,
         SectionsAreTheBytes, Accepted, Body

LEMMA TypeEntrySections ==
    ASSUME EofInv, FormatInv, SectionsRead, TypeEntry
    PROVE  SectionsRead'
<1> DEFINE k     == Len(container.types)
           entry == [inputs |-> ByteAt(offset), outputs |-> ByteAt(offset + 1),
                     maxStack |-> Uint16(offset + 2)]
           types == Append(container.types, entry)
<1>1. /\ stage = "types" /\ UNCHANGED <<bytecode, header>> /\ container \in Sections
      /\ container.types \in Seq(Entry) /\ k \in Nat /\ Typed /\ offset \in Nat
      /\ offset = DataPos + 4 + 4 * k /\ container.codes = <<>> /\ container.containers = <<>>
  BY DEF TypeEntry, Read, ContainerBecomes, EofInv, Typed, Sections, SectionsCounted,
         FormatInv, Position
<1>2. CASE failure' # "none"
  <2>1. stage' = "failed"
    BY <1>2 DEF TypeEntry, Read
  <2> QED  BY <2>1, OutsideBody DEF Body
<1>3. CASE failure' = "none"
  <2>1. stage' \in {"types", "codes"}
    BY <1>3 DEF TypeEntry, Read
  <2>2. container' = [container EXCEPT !.types = types]
    BY <1>3 DEF TypeEntry, ContainerBecomes, Keep
  <2>3. entry = EntryAt(offset)
    <3>1. offset + 1 \in Nat /\ offset + 2 \in Nat
      BY <1>1
    <3>2. ByteAt(offset) = At(bytecode, offset) /\ ByteAt(offset + 1) = At(bytecode, offset + 1)
          /\ Uint16(offset + 2) = Uint(bytecode, offset + 2, 2)
      BY <1>1, <3>1, ReadsAt
    <3> QED  BY <3>2 DEF EntryAt
  <2> HIDE DEF entry
  <2>4. /\ Len(types) = k + 1 /\ types[k + 1] = entry
        /\ \A j \in 1 .. k : types[j] = container.types[j]
    BY <1>1
  <2> HIDE DEF types
  <2>5. container'.types = types /\ container'.codes = <<>> /\ container'.containers = <<>>
    BY <1>1, <2>2 DEF Sections
  <2>6. ASSUME NEW j \in 1 .. (k + 1) PROVE types[j] = EntryAt(DataPos + 4 + 4 * (j - 1))
    <3>1. CASE j = k + 1
      <4> HIDE DEF k
      <4>1. j - 1 = k
        BY <1>1, <3>1
      <4> QED  BY <1>1, <2>3, <2>4, <3>1, <4>1
    <3>2. CASE j # k + 1
      <4>1. j \in 1 .. k
        BY <1>1, <3>2
      <4> QED  BY <1>1, <2>4, <4>1 DEF SectionsRead, TypesAreRead, Body
    <3> QED  BY <3>1, <3>2
  <2>7. TypesAreRead'
    BY <1>1, <2>4, <2>5, <2>6, SamePlaces DEF TypesAreRead
  <2> QED
    BY <2>1, <2>5, <2>7
       DEF SectionsRead, CodesAreRead, ContainersAreRead, SectionsAreTheBytes, Accepted, Body
<1> QED  BY <1>2, <1>3

LEMMA CodeSectionSections ==
    ASSUME EofInv, FormatInv, SectionsRead, CodeSection
    PROVE  SectionsRead'
<1> DEFINE k    == Len(container.codes) + 1
           size == header.codeSizes[k]
           code == Slice(size)
           From(j) == CodePos + Total(header.codeSizes, j)
<1>1. /\ stage = "codes" /\ UNCHANGED <<bytecode, header>> /\ container \in Sections
      /\ header.codeSizes \in Seq(Nat) /\ Len(header.codeSizes) = header.numCode
      /\ container.codes \in Seq(Bytes) /\ Len(container.codes) < header.numCode
      /\ header.numCode \in Nat /\ header.numContainers \in Nat
      /\ container.containers = <<>> /\ CodePos \in Nat
  BY BodyMeasured
     DEF CodeSection, Read, ContainerBecomes, EofInv, Typed, Header, Sections,
         CodeSizesCounted, SectionsCounted, Body
<1>2. k \in 1 .. Len(header.codeSizes) /\ k - 1 = Len(container.codes) /\ k \in Nat
      /\ size \in Nat /\ k <= header.numCode
  BY <1>1
<1>3. offset = From(k - 1)
  BY <1>1, <1>2 DEF FormatInv, Position
<1>4. CASE failure' # "none"
  <2>1. stage' = "failed"
    BY <1>4 DEF CodeSection, Read
  <2> QED  BY <2>1, OutsideBody DEF Body
<1>5. CASE failure' = "none"
  <2> DEFINE codes == Append(container.codes, code)
  <2>1. stage' = IF k < header.numCode THEN "codes"
                 ELSE IF header.numContainers > 0 THEN "containers" ELSE "data"
    BY <1>5 DEF CodeSection, Read
  <2>2. container' = [container EXCEPT !.codes = codes]
    BY <1>5 DEF CodeSection, ContainerBecomes, Keep
  <2>3. code = Span(bytecode, From(k - 1), From(k))
    <3>1. Total(header.codeSizes, k) = Total(header.codeSizes, k - 1) + size
          /\ Total(header.codeSizes, k - 1) \in Nat
      BY <1>1, <1>2, TotalNext
    <3> HIDE DEF size, k
    <3>2. From(k) = From(k - 1) + size
      BY <1>1, <1>2, <3>1
    <3> HIDE DEF From
    <3> QED  BY <1>3, <3>2 DEF Span, Slice
  <2> HIDE DEF code, size
  <2>4. /\ Len(codes) = k /\ codes[k] = code
        /\ \A j \in 1 .. k - 1 : codes[j] = container.codes[j]
    BY <1>1
  <2> HIDE DEF codes, k
  <2>5. /\ container'.types = container.types /\ container'.codes = codes
        /\ container'.containers = <<>>
    BY <1>1, <2>2 DEF Sections
  <2>6. ASSUME NEW j \in 1 .. k PROVE codes[j] = Span(bytecode, From(j - 1), From(j))
    <3>1. CASE j = k
      BY <2>3, <2>4, <3>1
    <3>2. CASE j # k
      <4>1. j \in 1 .. k - 1 /\ j \in 1 .. Len(container.codes)
        BY <1>2, <3>2
      <4> QED  BY <1>1, <2>4, <4>1 DEF SectionsRead, CodesAreRead, Body
    <3> QED  BY <3>1, <3>2
  <2>7. CodesAreRead'
    <3>1. stage' \in {"containers", "data"} => k = header.numCode
      BY <1>1, <1>2, <2>1
    <3> QED  BY <1>1, <2>4, <2>5, <2>6, <3>1, SamePlaces DEF CodesAreRead
  <2>8. TypesAreRead'
    BY <1>1, <2>5, SamePlaces DEF SectionsRead, TypesAreRead, Body
  <2>9. ContainersAreRead' /\ stage' # "accepted"
    <3>1. stage' = "data" => header'.numContainers = 0
      BY <1>1, <2>1
    <3> QED  BY <2>1, <2>5, <3>1 DEF ContainersAreRead
  <2> QED
    BY <2>7, <2>8, <2>9 DEF SectionsRead, SectionsAreTheBytes, Accepted
<1> QED  BY <1>4, <1>5

LEMMA ContainerSectionSections ==
    ASSUME EofInv, FormatInv, SectionsRead, ContainerSection
    PROVE  SectionsRead'
<1> DEFINE k    == Len(container.containers) + 1
           size == header.containerSizes[k]
           code == Slice(size)
           From(j) == ContainersPos + Total(header.containerSizes, j)
<1>1. /\ stage = "containers" /\ UNCHANGED <<bytecode, header>> /\ container \in Sections
      /\ header.containerSizes \in Seq(Nat)
      /\ Len(header.containerSizes) = header.numContainers
      /\ container.containers \in Seq(Bytes)
      /\ Len(container.containers) < header.numContainers
      /\ header.numContainers \in Nat /\ ContainersPos \in Nat
  <2>1. stage = "containers"
    BY DEF ContainerSection, Read
  <2>2. ContainersPos \in Nat
    BY <2>1, BodyMeasured DEF ContainersPos, Body
  <2> QED
    BY <2>1, <2>2
       DEF ContainerSection, Read, ContainerBecomes, EofInv, Typed, Header, Sections,
           ContainerSizesCounted, SectionsCounted, Body
<1>2. k \in 1 .. Len(header.containerSizes) /\ k - 1 = Len(container.containers) /\ k \in Nat
      /\ size \in Nat /\ k <= header.numContainers
  BY <1>1
<1>3. offset = From(k - 1)
  BY <1>1, <1>2 DEF FormatInv, Position, ContainersPos
<1>4. CASE failure' # "none"
  <2>1. stage' = "failed"
    BY <1>4 DEF ContainerSection, Read
  <2> QED  BY <2>1, OutsideBody DEF Body
<1>5. CASE failure' = "none"
  <2> DEFINE inner == Append(container.containers, code)
  <2>1. stage' = IF k < header.numContainers THEN "containers" ELSE "data"
    BY <1>5 DEF ContainerSection, Read
  <2>2. container' = [container EXCEPT !.containers = inner]
    BY <1>5 DEF ContainerSection, ContainerBecomes, Keep
  <2>3. code = Span(bytecode, From(k - 1), From(k))
    <3>1. Total(header.containerSizes, k) = Total(header.containerSizes, k - 1) + size
          /\ Total(header.containerSizes, k - 1) \in Nat
      BY <1>1, <1>2, TotalNext
    <3> HIDE DEF size, k
    <3>2. From(k) = From(k - 1) + size
      BY <1>1, <1>2, <3>1
    <3> HIDE DEF From
    <3> QED  BY <1>3, <3>2 DEF Span, Slice
  <2> HIDE DEF code, size
  <2>4. /\ Len(inner) = k /\ inner[k] = code
        /\ \A j \in 1 .. k - 1 : inner[j] = container.containers[j]
    BY <1>1
  <2> HIDE DEF inner, k
  <2>5. /\ container'.types = container.types /\ container'.codes = container.codes
        /\ container'.containers = inner
    BY <1>1, <2>2 DEF Sections
  <2>6. ASSUME NEW j \in 1 .. k PROVE inner[j] = Span(bytecode, From(j - 1), From(j))
    <3>1. CASE j = k
      BY <2>3, <2>4, <3>1
    <3>2. CASE j # k
      <4>1. j \in 1 .. k - 1 /\ j \in 1 .. Len(container.containers)
        BY <1>2, <3>2
      <4> QED  BY <1>1, <2>4, <4>1 DEF SectionsRead, ContainersAreRead, Body
    <3> QED  BY <3>1, <3>2
  <2>7. ContainersAreRead'
    <3>1. stage' = "data" => k = header.numContainers
      BY <1>1, <1>2, <2>1
    <3> QED  BY <1>1, <2>4, <2>5, <2>6, <3>1, SamePlaces DEF ContainersAreRead
  <2>8. TypesAreRead' /\ CodesAreRead' /\ stage' # "accepted"
    BY <1>1, <2>1, <2>5, SamePlaces DEF SectionsRead, TypesAreRead, CodesAreRead, Body
  <2> QED
    BY <2>7, <2>8 DEF SectionsRead, SectionsAreTheBytes, Accepted
<1> QED  BY <1>4, <1>5

(* When the data is all that is left, the container with that data encodes *)
(* to the bytecode.                                                        *)
LEMMA SectionLengths ==
    ASSUME EofInv, FormatInv, SectionsRead, stage = "data"
    PROVE  /\ Len(container.types) = header.numCode /\ container.types \in Seq(Entry)
           /\ Len(container.codes) = header.numCode /\ container.codes \in Seq(Bytes)
           /\ Len(container.containers) = header.numContainers
           /\ container.containers \in Seq(Bytes)
           /\ header.codeSizes \in Seq(Nat) /\ Len(header.codeSizes) = header.numCode
           /\ header.containerSizes \in Seq(Nat)
           /\ Len(header.containerSizes) = header.numContainers
           /\ header.numCode \in Nat /\ header.numContainers \in Nat
           /\ header.codeTotal = Total(header.codeSizes, header.numCode)
           /\ header.containerTotal = Total(header.containerSizes, header.numContainers)
           /\ TypesAreRead /\ CodesAreRead /\ ContainersAreRead
           /\ DataPos \in Nat /\ CodePos = DataPos + 4 + 4 * header.numCode
           /\ CodePos \in Nat /\ ContainersPos \in Nat
           /\ ContainersPos + header.containerTotal <= BodyEnd
           /\ ContainersPos <= ContainersPos + header.containerTotal
           /\ CodePos <= ContainersPos
           /\ ContainersPos + header.containerTotal \in Nat
           /\ BodyEnd - (ContainersPos + header.containerTotal) = header.dataSize
           /\ BodyEnd <= Len(bytecode) /\ BodyEnd \in Nat
<1>1. /\ container.types \in Seq(Entry) /\ container.codes \in Seq(Bytes)
      /\ container.containers \in Seq(Bytes)
      /\ header.codeSizes \in Seq(Nat) /\ Len(header.codeSizes) = header.numCode
      /\ header.containerSizes \in Seq(Nat)
      /\ Len(header.containerSizes) = header.numContainers
      /\ header.numCode \in Nat /\ header.numContainers \in Nat
  BY DEF EofInv, Typed, Sections, Header, CodeSizesCounted, ContainerSizesCounted, Body
<1>2. /\ TypesAreRead /\ CodesAreRead /\ ContainersAreRead
      /\ Len(container.types) = header.numCode
      /\ Len(container.codes) = header.numCode
      /\ Len(container.containers) = header.numContainers
  BY DEF SectionsRead, CodesAreRead, ContainersAreRead, FormatInv, TypesCounted, Body, PastTypes,
         PastEnd
<1>3. header.codeTotal = Total(header.codeSizes, header.numCode)
      /\ header.containerTotal = Total(header.containerSizes, header.numContainers)
  BY <1>1 DEF FormatInv, Totals
<1>4. DataPos \in Nat /\ CodePos = DataPos + 4 + 4 * header.numCode
  BY ExtendsSelf, HeaderRead DEF EofInv, CodePos, Body
<1>5. /\ CodePos \in Nat /\ header.codeTotal \in Nat /\ header.containerTotal \in Nat
      /\ header.dataSize \in Nat /\ ContainersPos = CodePos + header.codeTotal
      /\ BodyEnd = CodePos + header.codeTotal + header.containerTotal + header.dataSize
      /\ BodyEnd <= Len(bytecode) /\ BodyEnd \in Nat
  BY BodyMeasured DEF ContainersPos, Body
<1>6. /\ ContainersPos \in Nat /\ ContainersPos + header.containerTotal <= BodyEnd
      /\ ContainersPos <= ContainersPos + header.containerTotal /\ CodePos <= ContainersPos
      /\ ContainersPos + header.containerTotal \in Nat
      /\ BodyEnd - (ContainersPos + header.containerTotal) = header.dataSize
  <2> DEFINE pos == CodePos  base == ContainersPos  sum == header.codeTotal
             nested == header.containerTotal  data == header.dataSize  end == BodyEnd
  <2>1. /\ pos \in Nat /\ sum \in Nat /\ nested \in Nat /\ data \in Nat
        /\ base = pos + sum /\ end = pos + sum + nested + data
    BY <1>5
  <2> HIDE DEF pos, base, sum, nested, data, end
  <2>2. /\ base \in Nat /\ base + nested <= end /\ base <= base + nested /\ pos <= base
        /\ base + nested \in Nat /\ end - (base + nested) = data
    BY <2>1
  <2> QED  BY <2>2 DEF pos, base, sum, nested, data, end
<1> QED  BY <1>1, <1>2, <1>3, <1>4, <1>5, <1>6

LEMMA TypesEncode ==
    ASSUME EofInv, FormatInv, SectionsRead, stage = "data"
    PROVE  FlattenSeq([k \in DOMAIN container.types |-> EncodeType(container.types[k])])
             = Span(bytecode, DataPos + 4, CodePos)
<1> DEFINE n == header.numCode
           b == bytecode
           pos == DataPos + 4
           s == [k \in DOMAIN container.types |-> EncodeType(container.types[k])]
           e == [k \in 0 .. n |-> pos + 4 * k]
<1>1. /\ container.types \in Seq(Entry) /\ Len(container.types) = n /\ n \in Nat /\ pos \in Nat
      /\ CodePos = pos + 4 * n /\ b \in Bytes /\ Len(b) \in Nat /\ CodePos <= Len(b)
  <2>1. /\ Len(container.types) = n /\ container.types \in Seq(Entry) /\ n \in Nat
        /\ DataPos \in Nat /\ CodePos = DataPos + 4 + 4 * n /\ CodePos \in Nat
        /\ CodePos <= ContainersPos /\ ContainersPos <= ContainersPos + header.containerTotal
        /\ ContainersPos + header.containerTotal <= BodyEnd /\ BodyEnd <= Len(b)
        /\ ContainersPos \in Nat /\ ContainersPos + header.containerTotal \in Nat
        /\ BodyEnd \in Nat
    BY SectionLengths
  <2>2. b \in Bytes /\ Len(b) \in Nat
    BY DEF EofInv, Typed, Bytes
  <2> DEFINE last == ContainersPos + header.containerTotal
  <2>3. CodePos <= last /\ last <= BodyEnd /\ last \in Nat
    <3> HIDE DEF last
    <3>1. CodePos <= ContainersPos /\ ContainersPos <= last /\ ContainersPos \in Nat
          /\ CodePos \in Nat /\ last \in Nat /\ last <= BodyEnd
      BY <2>1 DEF last
    <3> QED  BY <3>1
  <2> HIDE DEF last
  <2>4. CodePos <= Len(b)
    BY <2>1, <2>2, <2>3
  <2> QED  BY <2>1, <2>2, <2>4
<1>2. \A k \in 0 .. n : e[k] \in Nat /\ e[k] <= Len(b)
  <2> HIDE DEF pos, n
  <2> SUFFICES ASSUME NEW k \in 0 .. n PROVE pos + 4 * k \in Nat /\ pos + 4 * k <= Len(b)
    OBVIOUS
  <2> QED  BY <1>1
<1>3. ASSUME NEW k \in 1 .. n
      PROVE  e[k - 1] <= e[k] /\ s[k] = Span(b, e[k - 1], e[k]) /\ s[k] \in Bytes
  <2> DEFINE p == pos + 4 * (k - 1)
  <2>1. /\ p \in Nat /\ p + 3 < Len(b) /\ p + 4 = pos + 4 * k /\ p + 4 \in Nat /\ p <= p + 4
        /\ p + 4 <= Len(b)
    <3> HIDE DEF pos, n
    <3> QED  BY <1>1
  <2>2. e[k - 1] = p /\ e[k] = p + 4
    <3>1. k \in 0 .. n /\ k - 1 \in 0 .. n
      BY <1>1
    <3>2. e[k - 1] = pos + 4 * (k - 1) /\ e[k] = pos + 4 * k
      BY <3>1
    <3> HIDE DEF e, pos
    <3> QED  BY <2>1, <3>2
  <2>3. s[k] = EncodeType(EntryAt(p))
    <3>1. k \in DOMAIN container.types /\ k \in 1 .. Len(container.types)
      BY <1>1
    <3>2. container.types[k] = EntryAt(p)
      BY <3>1, SectionLengths DEF TypesAreRead
    <3> QED  BY <3>1, <3>2
  <2> HIDE DEF p, s, e, pos, n
  <2>4. EncodeType(EntryAt(p)) = <<At(b, p), At(b, p + 1)>> \o Digits(Uint(b, p + 2, 2), 2)
    BY DEF EncodeType, EntryAt
  <2>5. <<At(b, p), At(b, p + 1)>> = Span(b, p, p + 2)
    BY <1>1, <2>1, SpanOfTwo
  <2>6. Digits(Uint(b, p + 2, 2), 2) = Span(b, p + 2, p + 4)
    <3>1. p + 2 \in Nat /\ p + 2 + 1 < Len(b) /\ p + 2 + 2 = p + 4
      BY <1>1, <2>1
    <3> QED  BY <1>1, <3>1, DigitsOfTwo
  <2>7. Span(b, p, p + 2) \o Span(b, p + 2, p + 4) = Span(b, p, p + 4)
    <3> DEFINE two == p + 2  four == p + 4
    <3>1. /\ b \in Bytes /\ p \in Nat /\ two \in Nat /\ four \in Nat /\ p <= two /\ two <= four
          /\ four <= Len(b)
      BY <1>1, <2>1
    <3> HIDE DEF two, four
    <3>2. Span(b, p, two) \o Span(b, two, four) = Span(b, p, four)
      BY <3>1, SpansJoin
    <3> QED  BY <3>2 DEF two, four
  <2>8. Span(b, p, p + 4) \in Bytes
    BY <1>1, <2>1, SpanIs
  <2> QED  BY <2>1, <2>2, <2>3, <2>4, <2>5, <2>6, <2>7, <2>8
<1>4. s \in [1 .. n -> Bytes]
  <2>1. DOMAIN s = 1 .. n
    BY <1>1
  <2> QED  BY <1>3, <2>1
<1>5. e[0] = pos /\ e[n] = CodePos
  BY <1>1
<1>6. \A k \in 1 .. n : e[k - 1] <= e[k] /\ s[k] = Span(b, e[k - 1], e[k])
  BY <1>3
<1> HIDE DEF s, e, n, pos
<1>7. FlattenSeq(s) = Span(b, e[0], e[n])
  BY <1>1, <1>2, <1>4, <1>6, SpansFlatten DEF InOrder
<1> QED  BY <1>5, <1>7 DEF s, pos

(* A list of sections is the bytes that its sizes add up to.               *)
AreSections(b, s, sizes, pos) ==
    /\ Len(s) = Len(sizes) /\ pos + Total(sizes, Len(sizes)) <= Len(b)
    /\ \A k \in 1 .. Len(s) :
          s[k] = Span(b, pos + Total(sizes, k - 1), pos + Total(sizes, k))

LEMMA SectionsFlatten ==
    ASSUME NEW b \in Bytes, NEW sizes \in Seq(Nat), NEW s \in Seq(Bytes), NEW pos \in Nat,
           AreSections(b, s, sizes, pos)
    PROVE  /\ FlattenSeq(s) = Span(b, pos, pos + Total(sizes, Len(sizes)))
           /\ \A k \in 1 .. Len(s) : Len(s[k]) = sizes[k]
<1> DEFINE n == Len(sizes)
           e == [k \in 0 .. n |-> pos + Total(sizes, k)]
<1>1. n \in Nat /\ Len(b) \in Nat /\ n \in 0 .. n
  BY DEF Bytes
<1>2. /\ Len(s) = n /\ pos + Total(sizes, n) <= Len(b)
      /\ \A k \in 1 .. n : s[k] = Span(b, pos + Total(sizes, k - 1), pos + Total(sizes, k))
  BY DEF AreSections
<1>3. \A k \in 0 .. n : /\ Total(sizes, k) \in Nat /\ Total(sizes, k) <= Total(sizes, n)
                        /\ Total(sizes, n) \in Nat
  BY <1>1, TotalGrows
<1>4. ASSUME NEW k \in 0 .. n PROVE e[k] \in Nat /\ e[k] <= Len(b)
  <2> DEFINE t == Total(sizes, k)  all == Total(sizes, n)
  <2>1. t \in Nat /\ all \in Nat /\ t <= all /\ pos + all <= Len(b) /\ e[k] = pos + t
    BY <1>3, <1>2
  <2> HIDE DEF t, all, e
  <2> QED  BY <1>1, <2>1
<1>5. ASSUME NEW k \in 1 .. n
      PROVE  e[k - 1] <= e[k] /\ s[k] = Span(b, e[k - 1], e[k]) /\ Len(s[k]) = sizes[k]
  <2> DEFINE t == Total(sizes, k - 1)  u == Total(sizes, k)  size == sizes[k]
  <2>1. /\ t \in Nat /\ u \in Nat /\ u = t + size /\ size \in Nat
    <3>1. k \in 1 .. Len(sizes) /\ sizes[k] \in Nat
      OBVIOUS
    <3> QED  BY <3>1, TotalNext
  <2>2. k \in 0 .. n /\ k - 1 \in 0 .. n
    BY <1>1
  <2>3. e[k - 1] = pos + t /\ e[k] = pos + u /\ s[k] = Span(b, pos + t, pos + u)
    BY <1>2, <2>2
  <2>4. e[k] \in Nat /\ e[k] <= Len(b) /\ e[k - 1] \in Nat
    BY <1>4, <2>2
  <2> HIDE DEF t, u, size, e, n
  <2>5. pos + t <= pos + u /\ (pos + u) - (pos + t) = size
    BY <2>1
  <2>6. Len(Span(b, pos + t, pos + u)) = (pos + u) - (pos + t)
    BY <2>3, <2>4, <2>5, SpanIs
  <2> QED  BY <2>3, <2>5, <2>6 DEF size
<1>6. e[0] = pos /\ e[n] = pos + Total(sizes, n)
  <2>1. Total(sizes, 0) = 0 /\ 0 \in 0 .. n
    BY <1>1, TotalRec
  <2> QED  BY <1>1, <2>1
<1>7. \A k \in 1 .. n : e[k - 1] <= e[k] /\ s[k] = Span(b, e[k - 1], e[k])
  BY <1>5
<1>8. s \in [1 .. n -> Bytes]
  BY <1>2
<1> HIDE DEF e, n
<1>9. FlattenSeq(s) = Span(b, e[0], e[n])
  <2>1. InOrder(b, n, s, e)
    <3>1. \A k \in 0 .. n : e[k] \in Nat /\ e[k] <= Len(b)
      BY <1>4
    <3> QED  BY <1>7, <1>8, <3>1 DEF InOrder
  <2> QED  BY <1>1, <2>1, SpansFlatten
<1> QED  BY <1>5, <1>6, <1>9, <1>2 DEF n

(* The header of a bytecode that has been read to its data.                *)
LEMMA HeaderBytes ==
    ASSUME EofInv, FormatInv, stage = "data"
    PROVE  /\ Uint(bytecode, 0, 2) = Magic /\ At(bytecode, 2) = Version1
           /\ At(bytecode, 3) = KindTypes /\ Uint(bytecode, 4, 2) = 4 * header.numCode
           /\ At(bytecode, 6) = KindCode /\ Uint(bytecode, 7, 2) = header.numCode
           /\ \A k \in 1 .. header.numCode :
                 header.codeSizes[k] = Uint(bytecode, 9 + 2 * (k - 1), 2)
           /\ header.numContainers > 0 =>
                 /\ At(bytecode, 9 + 2 * header.numCode) = KindContainer
                 /\ Uint(bytecode, 9 + 2 * header.numCode + 1, 2) = header.numContainers
           /\ \A k \in 1 .. header.numContainers :
                 header.containerSizes[k] =
                     Uint(bytecode, 9 + 2 * header.numCode + 3 + 4 * (k - 1), 4)
           /\ At(bytecode, DataPos) = KindData
           /\ Uint(bytecode, DataPos + 1, 2) = header.dataSize
           /\ At(bytecode, DataPos + 3) = Terminator
           /\ DataPos = IF header.numContainers > 0
                        THEN 9 + 2 * header.numCode + 3 + 4 * header.numContainers
                        ELSE 9 + 2 * header.numCode
<1> DEFINE b == bytecode  n == header.numCode  m == header.numContainers  pos == DataPos
<1>1. /\ stage \in PastPrefix /\ stage \in PastTypesSize /\ stage \in PastNumCode
      /\ stage \in PastDataSize /\ stage \in PastEnd /\ stage \in Body
  BY DEF Stages, Body, PastPrefix, PastTypesSize, PastNumCode, PastDataSize, PastEnd
<1>2. /\ Codes(b) = n /\ Containers(b) = m /\ b \in Bytes /\ DataAt(b) = pos /\ Told(b)
      /\ pos \in Nat /\ n \in Nat /\ header.typesSize = 4 * n
  BY <1>1, ExtendsSelf, HeaderRead DEF EofInv
<1>3. /\ Len(header.codeSizes) = n /\ Len(header.containerSizes) = m /\ m \in Nat
  BY <1>1 DEF EofInv, Typed, Header, CodeSizesCounted, ContainerSizesCounted
<1>4. /\ Uint(b, 0, 2) = Magic /\ At(b, 2) = Version1
      /\ At(b, 3) = KindTypes /\ Uint(b, 4, 2) = 4 * n /\ At(b, 6) = KindCode
      /\ Uint(b, 7, 2) = n
  BY <1>1, <1>2 DEF Told, PrefixRead, TypesSizeRead, NumCodeRead, Codes
<1>5. \A k \in 1 .. n : header.codeSizes[k] = Uint(b, 9 + 2 * (k - 1), 2)
  <2>1. \A k \in 1 .. n : header.codeSizes[k] = Uint(b, 7 + 2 * k, 2)
    BY <1>1, <1>2, <1>3 DEF Told, CodeSizesRead
  <2>2. \A k \in 1 .. n : 7 + 2 * k = 9 + 2 * (k - 1)
    BY <1>2
  <2> QED  BY <2>1, <2>2
<1>6. KindAt(b) = 9 + 2 * n
  BY <1>2 DEF KindAt
<1>7. m > 0 => Nested(b) /\ At(b, 9 + 2 * n) = KindContainer /\ Uint(b, 9 + 2 * n + 1, 2) = m
  BY <1>1, <1>2, <1>6 DEF Told, ContainersRead, Nested, Containers
<1>8. \A k \in 1 .. m : header.containerSizes[k] = Uint(b, 9 + 2 * n + 3 + 4 * (k - 1), 4)
  <2>1. \A k \in 1 .. m : header.containerSizes[k] = Uint(b, 9 + 2 * n - 1 + 4 * k, 4)
    BY <1>1, <1>2, <1>3, <1>6, SMTT(30) DEF Told, ContainersRead
  <2>2. \A k \in 1 .. m : 9 + 2 * n - 1 + 4 * k = 9 + 2 * n + 3 + 4 * (k - 1)
    BY <1>2, <1>3
  <2> QED  BY <2>1, <2>2
<1>9. At(b, pos) = KindData /\ Uint(b, pos + 1, 2) = header.dataSize
      /\ At(b, pos + 3) = Terminator
  BY <1>1, <1>2 DEF Told, DataSizeRead, EndRead
<1>10. pos = IF m > 0 THEN 9 + 2 * n + 3 + 4 * m ELSE 9 + 2 * n
  BY DEF DataPos, KindPos
<1> QED  BY <1>4, <1>5, <1>7, <1>8, <1>9, <1>10

LEMMA SpanOfNone ==
    ASSUME NEW b \in Bytes, NEW p \in Nat, p <= Len(b)
    PROVE  Span(b, p, p) = <<>>
<1>1. Len(Span(b, p, p)) = p - p /\ Span(b, p, p) \in Bytes
  BY SpanIs
<1> HIDE DEF Span
<1> QED  BY <1>1 DEF Bytes

(* The header of b: n code sections, m containers and the sizes of the     *)
(* sections, and behind them at pos the size of the data.                  *)
HeaderSays(b, n, m, sizes, inner, pos) ==
    /\ pos + 4 <= Len(b) /\ pos = IF m > 0 THEN 9 + 2 * n + 3 + 4 * m ELSE 9 + 2 * n
    /\ Uint(b, 0, 2) = Magic /\ At(b, 2) = Version1 /\ At(b, 3) = KindTypes
    /\ Uint(b, 4, 2) = 4 * n /\ At(b, 6) = KindCode /\ Uint(b, 7, 2) = n
    /\ DOMAIN sizes = 1 .. n /\ DOMAIN inner = 1 .. m
    /\ \A k \in 1 .. n : sizes[k] = Uint(b, 9 + 2 * (k - 1), 2)
    /\ m > 0 => At(b, 9 + 2 * n) = KindContainer /\ Uint(b, 9 + 2 * n + 1, 2) = m
    /\ \A k \in 1 .. m : inner[k] = Uint(b, 9 + 2 * n + 3 + 4 * (k - 1), 4)
    /\ At(b, pos) = KindData /\ At(b, pos + 3) = Terminator

HeaderOf(n, m, sizes, inner, size) ==
    Digits(Magic, 2) \o <<Version1, KindTypes>> \o Digits(4 * n, 2)
      \o <<KindCode>> \o Digits(n, 2) \o Numbers(sizes, 2)
      \o (IF m = 0 THEN <<>>
          ELSE <<KindContainer>> \o Digits(m, 2) \o Numbers(inner, 4))
      \o <<KindData>> \o Digits(size, 2) \o <<Terminator>>

LEMMA SpanGrows ==
    ASSUME NEW b \in Bytes, NEW p \in Nat, NEW q \in Nat, p <= q, q <= Len(b)
    PROVE  Span(b, 0, p) \o Span(b, p, q) = Span(b, 0, q)
<1>1. 0 \in Nat /\ 0 <= p
  OBVIOUS
<1> QED  BY <1>1, SpansJoin

(* The header that is written for sections of these sizes is those bytes.  *)
LEMMA HeaderEncodes ==
    ASSUME NEW b \in Bytes, NEW n \in Nat, NEW m \in Nat, NEW sizes, NEW inner, NEW pos \in Nat,
           HeaderSays(b, n, m, sizes, inner, pos)
    PROVE  HeaderOf(n, m, sizes, inner, Uint(b, pos + 1, 2)) = Span(b, 0, pos + 4)
<1> DEFINE kind == 9 + 2 * n
           nested == IF m = 0 THEN <<>>
                     ELSE <<KindContainer>> \o Digits(m, 2) \o Numbers(inner, 4)
           size == Uint(b, pos + 1, 2)
<1>1. Len(b) \in Nat /\ kind \in Nat /\ kind <= pos /\ 9 <= kind /\ pos + 4 <= Len(b)
  BY DEF Bytes, HeaderSays
<1>2. Digits(Magic, 2) = Span(b, 0, 2) /\ <<Version1, KindTypes>> = Span(b, 2, 4)
      /\ Digits(4 * n, 2) = Span(b, 4, 6) /\ <<KindCode>> = Span(b, 6, 7)
      /\ Digits(n, 2) = Span(b, 7, 9)
  <2>1. 0 \in Nat /\ 0 + 1 < Len(b) /\ 2 \in Nat /\ 2 + 1 < Len(b) /\ 4 \in Nat /\ 4 + 1 < Len(b)
        /\ 6 \in Nat /\ 6 < Len(b) /\ 7 \in Nat /\ 7 + 1 < Len(b)
    BY <1>1
  <2>2. Digits(Uint(b, 0, 2), 2) = Span(b, 0, 0 + 2) /\ Digits(Uint(b, 4, 2), 2) = Span(b, 4, 4 + 2)
        /\ Digits(Uint(b, 7, 2), 2) = Span(b, 7, 7 + 2)
    BY <2>1, DigitsOfTwo
  <2>3. <<At(b, 2), At(b, 2 + 1)>> = Span(b, 2, 2 + 2) /\ <<At(b, 6)>> = Span(b, 6, 6 + 1)
    BY <2>1, SpanOfTwo, SpanOfOne
  <2>4. 0 + 2 = 2 /\ 4 + 2 = 6 /\ 7 + 2 = 9 /\ 2 + 2 = 4 /\ 2 + 1 = 3 /\ 6 + 1 = 7
    OBVIOUS
  <2> QED  BY <2>2, <2>3, <2>4 DEF HeaderSays
<1>3. Numbers(sizes, 2) = Span(b, 9, kind)
  <2>1. 9 \in Nat /\ 9 + 2 * n <= Len(b)
    BY <1>1
  <2>2. DOMAIN sizes = 1 .. n /\ \A k \in 1 .. n : sizes[k] = Uint(b, 9 + 2 * (k - 1), 2)
    BY DEF HeaderSays
  <2> QED  BY <2>1, <2>2, NumbersOfTwo
<1>4. nested = Span(b, kind, pos)
  <2>1. CASE m = 0
    <3>1. nested = <<>> /\ pos = kind /\ pos <= Len(b)
      BY <1>1, <2>1 DEF HeaderSays
    <3> QED  BY <1>1, <3>1, SpanOfNone
  <2>2. CASE m > 0
    <3> DEFINE one == kind + 1  three == kind + 3
    <3> HIDE DEF kind
    <3>1. pos = three + 4 * m
      BY <2>2 DEF kind, HeaderSays
    <3>2. /\ one \in Nat /\ three \in Nat /\ kind < Len(b) /\ one + 1 < Len(b) /\ one + 2 = three
          /\ three + 4 * m <= Len(b) /\ kind <= one /\ one <= three /\ three <= pos
          /\ pos <= Len(b) /\ three <= Len(b) /\ kind <= three
      BY <1>1, <3>1
    <3>3. /\ At(b, kind) = KindContainer /\ Uint(b, one, 2) = m
          /\ \A k \in 1 .. m : inner[k] = Uint(b, three + 4 * (k - 1), 4)
          /\ DOMAIN inner = 1 .. m
      BY <2>2 DEF kind, HeaderSays
    <3>4. <<KindContainer>> = Span(b, kind, one)
      BY <1>1, <3>2, <3>3, SpanOfOne
    <3> HIDE DEF one, three
    <3>5. Digits(m, 2) = Span(b, one, three)
      BY <3>2, <3>3, DigitsOfTwo
    <3>6. Numbers(inner, 4) = Span(b, three, pos)
      <4>1. Numbers(inner, 4) = Span(b, three, three + 4 * m)
        BY <3>2, <3>3, NumbersOfFour
      <4> QED  BY <3>1, <4>1
    <3>7. Span(b, kind, one) \o Span(b, one, three) = Span(b, kind, three)
      BY <1>1, <3>2, SpansJoin, SMTT(30)
    <3>8. Span(b, kind, three) \o Span(b, three, pos) = Span(b, kind, pos)
      <4>1. /\ kind \in Nat /\ three \in Nat /\ kind <= three /\ three <= pos
            /\ pos <= Len(b)
        BY <1>1, <3>2
      <4> QED  BY <4>1, SpansJoin
    <3>9. nested = <<KindContainer>> \o Digits(m, 2) \o Numbers(inner, 4)
      BY <2>2
    <3> HIDE DEF nested
    <3> QED  BY <3>4, <3>5, <3>6, <3>7, <3>8, <3>9
  <2> QED  BY <2>1, <2>2
<1>5. /\ <<KindData>> = Span(b, pos, pos + 1) /\ Digits(size, 2) = Span(b, pos + 1, pos + 3)
      /\ <<Terminator>> = Span(b, pos + 3, pos + 4)
  <2>1. /\ pos < Len(b) /\ pos + 1 \in Nat /\ (pos + 1) + 1 < Len(b) /\ (pos + 1) + 2 = pos + 3
        /\ pos + 3 \in Nat /\ pos + 3 < Len(b) /\ (pos + 3) + 1 = pos + 4
    BY <1>1
  <2>2. Digits(size, 2) = Span(b, pos + 1, (pos + 1) + 2)
    BY <2>1, DigitsOfTwo
  <2>3. <<At(b, pos)>> = Span(b, pos, pos + 1)
        /\ <<At(b, pos + 3)>> = Span(b, pos + 3, (pos + 3) + 1)
    BY <2>1, SpanOfOne
  <2> HIDE DEF size
  <2> QED  BY <2>1, <2>2, <2>3 DEF HeaderSays
<1>6. /\ Span(b, 0, 2) \o Span(b, 2, 4) = Span(b, 0, 4)
      /\ Span(b, 0, 4) \o Span(b, 4, 6) = Span(b, 0, 6)
      /\ Span(b, 0, 6) \o Span(b, 6, 7) = Span(b, 0, 7)
      /\ Span(b, 0, 7) \o Span(b, 7, 9) = Span(b, 0, 9)
  <2>1. /\ 2 \in Nat /\ 4 \in Nat /\ 6 \in Nat /\ 7 \in Nat /\ 9 \in Nat
        /\ 2 <= 4 /\ 4 <= 6 /\ 6 <= 7 /\ 7 <= 9
        /\ 4 <= Len(b) /\ 6 <= Len(b) /\ 7 <= Len(b) /\ 9 <= Len(b)
    BY <1>1
  <2>2. Span(b, 0, 2) \o Span(b, 2, 4) = Span(b, 0, 4)
    BY <2>1, SpanGrows
  <2>3. Span(b, 0, 4) \o Span(b, 4, 6) = Span(b, 0, 6)
    BY <2>1, SpanGrows
  <2>4. Span(b, 0, 6) \o Span(b, 6, 7) = Span(b, 0, 7)
    BY <2>1, SpanGrows
  <2>5. Span(b, 0, 7) \o Span(b, 7, 9) = Span(b, 0, 9)
    BY <2>1, SpanGrows
  <2> QED  BY <2>2, <2>3, <2>4, <2>5
<1>7. /\ Span(b, 0, 9) \o Span(b, 9, kind) = Span(b, 0, kind)
      /\ Span(b, 0, kind) \o Span(b, kind, pos) = Span(b, 0, pos)
  <2> HIDE DEF kind
  <2>1. 9 \in Nat /\ 9 <= kind /\ kind \in Nat /\ kind <= pos /\ kind <= Len(b)
        /\ pos <= Len(b)
    BY <1>1
  <2>2. Span(b, 0, 9) \o Span(b, 9, kind) = Span(b, 0, kind)
    BY <2>1, SpanGrows
  <2>3. Span(b, 0, kind) \o Span(b, kind, pos) = Span(b, 0, pos)
    BY <2>1, SpanGrows
  <2> QED  BY <2>2, <2>3
<1>8. /\ Span(b, 0, pos) \o Span(b, pos, pos + 1) = Span(b, 0, pos + 1)
      /\ Span(b, 0, pos + 1) \o Span(b, pos + 1, pos + 3) = Span(b, 0, pos + 3)
      /\ Span(b, 0, pos + 3) \o Span(b, pos + 3, pos + 4) = Span(b, 0, pos + 4)
  <2> DEFINE one == pos + 1  three == pos + 3  four == pos + 4
  <2>1. /\ one \in Nat /\ three \in Nat /\ four \in Nat /\ pos <= one /\ one <= three
        /\ three <= four /\ one <= Len(b) /\ three <= Len(b) /\ four <= Len(b)
    BY <1>1
  <2> HIDE DEF one, three, four
  <2>2. Span(b, 0, pos) \o Span(b, pos, one) = Span(b, 0, one)
    BY <2>1, SpanGrows
  <2>3. Span(b, 0, one) \o Span(b, one, three) = Span(b, 0, three)
    BY <2>1, SpanGrows
  <2>4. Span(b, 0, three) \o Span(b, three, four) = Span(b, 0, four)
    BY <2>1, SpanGrows
  <2> QED  BY <2>2, <2>3, <2>4 DEF one, three, four
<1> HIDE DEF kind, nested, size
<1>9. Digits(Magic, 2) \o <<Version1, KindTypes>> \o Digits(4 * n, 2) \o <<KindCode>>
         \o Digits(n, 2) = Span(b, 0, 9)
  BY <1>2, <1>6
<1>10. Span(b, 0, 9) \o Numbers(sizes, 2) \o nested = Span(b, 0, pos)
  BY <1>3, <1>4, <1>7
<1>11. Span(b, 0, pos) \o <<KindData>> \o Digits(size, 2) \o <<Terminator>> = Span(b, 0, pos + 4)
  BY <1>5, <1>8
<1>12. HeaderOf(n, m, sizes, inner, size)
         = Digits(Magic, 2) \o <<Version1, KindTypes>> \o Digits(4 * n, 2) \o <<KindCode>>
             \o Digits(n, 2) \o Numbers(sizes, 2) \o nested
             \o <<KindData>> \o Digits(size, 2) \o <<Terminator>>
  BY DEF HeaderOf, nested
<1> QED  BY <1>9, <1>10, <1>11, <1>12 DEF size

(* The container with the data that is left encodes to the bytecode.       *)
LEMMA ContainerEncodes ==
    ASSUME EofInv, FormatInv, SectionsRead, stage = "data", BodyEnd = Len(bytecode),
           NEW c, c = [container EXCEPT !.data = Span(bytecode, ContainersPos + header.containerTotal,
                                                      Len(bytecode))]
    PROVE  Encode(c) = bytecode
<1> DEFINE b == bytecode
           n == header.numCode
           m == header.numContainers
           pos == DataPos
           last == ContainersPos + header.containerTotal
           end == Len(b)
           codes == container.codes
           inner == container.containers
           data == Span(b, last, end)
           types == [k \in DOMAIN container.types |-> EncodeType(container.types[k])]
<1>1. /\ b \in Bytes /\ end \in Nat /\ n \in Nat /\ m \in Nat /\ pos \in Nat
      /\ Len(codes) = n /\ Len(inner) = m /\ codes \in Seq(Bytes) /\ inner \in Seq(Bytes)
      /\ pos + 4 \in Nat /\ pos + 4 <= CodePos /\ CodePos \in Nat /\ CodePos <= ContainersPos
      /\ ContainersPos \in Nat /\ ContainersPos <= last /\ last \in Nat /\ last <= end
      /\ end - last = header.dataSize
  <2>1. b \in Bytes /\ end \in Nat
    BY DEF EofInv, Typed, Bytes
  <2>2. /\ n \in Nat /\ m \in Nat /\ pos \in Nat
        /\ Len(codes) = n /\ Len(inner) = m /\ codes \in Seq(Bytes) /\ inner \in Seq(Bytes)
        /\ CodePos = pos + 4 + 4 * n /\ CodePos \in Nat /\ CodePos <= ContainersPos
        /\ ContainersPos \in Nat /\ ContainersPos <= last /\ last \in Nat /\ last <= end
        /\ end - last = header.dataSize
    BY SectionLengths
  <2> HIDE DEF n, pos
  <2>3. pos + 4 \in Nat /\ pos + 4 <= pos + 4 + 4 * n
    BY <2>2
  <2> QED  BY <2>1, <2>2, <2>3
<1>2. /\ FlattenSeq(codes) = Span(b, CodePos, ContainersPos)
      /\ \A k \in 1 .. n : Len(codes[k]) = header.codeSizes[k]
  <2>1. /\ header.codeSizes \in Seq(Nat) /\ Len(header.codeSizes) = n
        /\ \A k \in 1 .. n : codes[k] = Span(b, CodePos + Total(header.codeSizes, k - 1),
                                             CodePos + Total(header.codeSizes, k))
    BY SectionLengths DEF CodesAreRead
  <2>2. CodePos + Total(header.codeSizes, n) = ContainersPos
    BY SectionLengths DEF ContainersPos
  <2>3. ContainersPos <= Len(b)
    <3> HIDE DEF last, b
    <3> QED  BY <1>1
  <2> HIDE DEF b, codes, n
  <2>4. AreSections(b, codes, header.codeSizes, CodePos)
    BY <1>1, <2>1, <2>2, <2>3 DEF AreSections
  <2>5. /\ FlattenSeq(codes)
             = Span(b, CodePos, CodePos + Total(header.codeSizes, Len(header.codeSizes)))
        /\ \A k \in 1 .. Len(codes) : Len(codes[k]) = header.codeSizes[k]
    BY <1>1, <2>1, <2>4, SectionsFlatten
  <2> QED  BY <1>1, <2>1, <2>2, <2>5
<1>3. /\ FlattenSeq(inner) = Span(b, ContainersPos, last)
      /\ \A k \in 1 .. m : Len(inner[k]) = header.containerSizes[k]
  <2>1. /\ header.containerSizes \in Seq(Nat) /\ Len(header.containerSizes) = m
        /\ \A k \in 1 .. m :
              inner[k] = Span(b, ContainersPos + Total(header.containerSizes, k - 1),
                              ContainersPos + Total(header.containerSizes, k))
    BY SectionLengths DEF ContainersAreRead
  <2>2. ContainersPos + Total(header.containerSizes, m) = last
    BY SectionLengths
  <2> HIDE DEF b, inner, m, last
  <2>3. AreSections(b, inner, header.containerSizes, ContainersPos)
    BY <1>1, <2>1, <2>2 DEF AreSections
  <2>4. /\ FlattenSeq(inner)
             = Span(b, ContainersPos,
                    ContainersPos + Total(header.containerSizes, Len(header.containerSizes)))
        /\ \A k \in 1 .. Len(inner) : Len(inner[k]) = header.containerSizes[k]
    BY <1>1, <2>1, <2>3, SectionsFlatten
  <2> QED  BY <1>1, <2>1, <2>2, <2>4
<1>4. FlattenSeq(types) = Span(b, pos + 4, CodePos)
  BY TypesEncode
<1>5. Len(data) = Uint(b, pos + 1, 2) /\ HeaderSays(b, n, m, Lengths(codes), Lengths(inner), pos)
  <2>1. /\ Uint(b, 0, 2) = Magic /\ At(b, 2) = Version1 /\ At(b, 3) = KindTypes
        /\ Uint(b, 4, 2) = 4 * n /\ At(b, 6) = KindCode /\ Uint(b, 7, 2) = n
        /\ \A k \in 1 .. n : header.codeSizes[k] = Uint(b, 9 + 2 * (k - 1), 2)
        /\ m > 0 => At(b, 9 + 2 * n) = KindContainer /\ Uint(b, 9 + 2 * n + 1, 2) = m
        /\ \A k \in 1 .. m :
              header.containerSizes[k] = Uint(b, 9 + 2 * n + 3 + 4 * (k - 1), 4)
        /\ At(b, pos) = KindData /\ Uint(b, pos + 1, 2) = header.dataSize
        /\ At(b, pos + 3) = Terminator
        /\ pos = IF m > 0 THEN 9 + 2 * n + 3 + 4 * m ELSE 9 + 2 * n
    BY HeaderBytes
  <2>2. /\ DOMAIN Lengths(codes) = 1 .. n /\ DOMAIN Lengths(inner) = 1 .. m
        /\ \A k \in 1 .. n : Lengths(codes)[k] = header.codeSizes[k]
        /\ \A k \in 1 .. m : Lengths(inner)[k] = header.containerSizes[k]
    BY <1>1, <1>2, <1>3, SMTT(30) DEF Lengths
  <2>3. pos + 4 <= Len(b)
    <3> HIDE DEF pos, last, b
    <3> QED  BY <1>1
  <2>4. Len(data) = end - last
    <3> HIDE DEF last, end, b
    <3>1. end <= Len(b)
      BY <1>1 DEF end
    <3> QED  BY <1>1, <3>1, SpanIs
  <2> HIDE DEF b, n, m, pos, codes, inner, data, last, end
  <2>5. HeaderSays(b, n, m, Lengths(codes), Lengths(inner), pos)
    BY <2>1, <2>2, <2>3 DEF HeaderSays
  <2> QED  BY <1>1, <2>1, <2>4, <2>5
<1> DEFINE head == HeaderOf(n, m, Lengths(codes), Lengths(inner), Len(data))
<1>6. head = Span(b, 0, pos + 4)
  <2> HIDE DEF b, n, m, pos, codes, inner, data
  <2>1. HeaderOf(n, m, Lengths(codes), Lengths(inner), Uint(b, pos + 1, 2)) = Span(b, 0, pos + 4)
    BY <1>1, <1>5, HeaderEncodes
  <2> QED  BY <1>5, <2>1
<1>7. Encode(c) = head \o FlattenSeq(types) \o FlattenSeq(codes) \o FlattenSeq(inner) \o data
  <2> DEFINE entries == [k \in DOMAIN c.types |-> EncodeType(c.types[k])]
  <2>1. c.codes = codes /\ c.containers = inner /\ c.data = data /\ c.types = container.types
    BY DEF EofInv, Typed, Sections
  <2>2. Encode(c) = HeaderOf(Len(c.codes), Len(c.containers), Lengths(c.codes),
                             Lengths(c.containers), Len(c.data))
                      \o FlattenSeq(entries)
                      \o FlattenSeq(c.codes) \o FlattenSeq(c.containers) \o c.data
    BY DEF Encode, HeaderOf
  <2>3. Len(c.codes) = n /\ Len(c.containers) = m
    BY <1>1, <2>1
  <2>4. types = entries
    BY <2>1
  <2> HIDE DEF codes, inner, data, types, entries, n, m
  <2> QED  BY <2>1, <2>2, <2>3, <2>4
<1> HIDE DEF head, types, codes, inner, data, last, pos, end, b
<1>8. Span(b, 0, pos + 4) \o Span(b, pos + 4, CodePos) = Span(b, 0, CodePos)
  <2>1. CodePos <= Len(b)
    BY <1>1 DEF end
  <2> QED  BY <1>1, <2>1, SpanGrows
<1>9. Span(b, 0, CodePos) \o Span(b, CodePos, ContainersPos) = Span(b, 0, ContainersPos)
  <2>1. ContainersPos <= Len(b)
    BY <1>1 DEF end
  <2> QED  BY <1>1, <2>1, SpanGrows
<1>10. Span(b, 0, ContainersPos) \o Span(b, ContainersPos, last) = Span(b, 0, last)
  <2>1. last <= Len(b)
    BY <1>1 DEF end
  <2> QED  BY <1>1, <2>1, SpanGrows
<1>11. Span(b, 0, last) \o data = b
  <2>1. Span(b, 0, last) \o Span(b, last, end) = Span(b, 0, end)
    <3>1. end <= Len(b)
      BY <1>1 DEF end
    <3> QED  BY <1>1, <3>1, SpanGrows
  <2>2. Span(b, 0, end) = b
    BY <1>1, SubSeqFull DEF Span, end, Bytes
  <2> QED  BY <2>1, <2>2 DEF data
<1> QED  BY <1>2, <1>3, <1>4, <1>6, <1>7, <1>8, <1>9, <1>10, <1>11 DEF b

LEMMA DataSectionSections ==
    ASSUME EofInv, FormatInv, SectionsRead, DataSection
    PROVE  SectionsRead'
<1> DEFINE size == IF Short(header.dataSize) THEN Len(bytecode) - offset ELSE header.dataSize
           last == ContainersPos + header.containerTotal
<1>1. stage = "data" /\ UNCHANGED <<bytecode, header>>
  BY DEF DataSection, Read, ContainerBecomes
<1>2. /\ offset = last /\ last \in Nat /\ last <= BodyEnd /\ BodyEnd <= Len(bytecode)
      /\ BodyEnd \in Nat /\ Len(bytecode) \in Nat /\ BodyEnd - last = header.dataSize
      /\ header.dataSize \in Nat
  <2>1. offset = last
    BY <1>1 DEF FormatInv, Position, ContainersPos
  <2>2. Len(bytecode) \in Nat /\ header.dataSize \in Nat
    BY DEF EofInv, Typed, Bytes, Header
  <2> QED  BY <1>1, <2>1, <2>2, SectionLengths
<1>3. size = header.dataSize /\ offset + size = BodyEnd
  <2>1. ~Short(header.dataSize) /\ offset + header.dataSize = BodyEnd
    <3> HIDE DEF last
    <3> QED  BY <1>2 DEF Short
  <2> QED  BY <2>1
<1>4. CASE failure' # "none"
  <2>1. stage' = "failed"
    BY <1>4 DEF DataSection, Read
  <2> QED  BY <2>1, OutsideBody DEF Body
<1>5. CASE failure' = "none"
  <2>1. stage' = "accepted" /\ container' = [container EXCEPT !.data = Slice(size)]
    BY <1>5 DEF DataSection, Read, ContainerBecomes, Keep
  <2>2. BodyEnd = Len(bytecode)
    <3> DEFINE checks == <<<<offset + size < Len(bytecode), "ErrExtraneousData">>>>
    <3>1. FirstFailing(checks) = "none"
      BY <1>5 DEF DataSection, Read
    <3> HIDE DEF size
    <3>2. DOMAIN checks = 1 .. 1 /\ \A k \in 1 .. 1 : checks[k][2] \notin {"none", "panic"}
      OBVIOUS
    <3>3. ~checks[1][1] => ~(offset + size < Len(bytecode))
      OBVIOUS
    <3> HIDE DEF checks
    <3>4. ~(offset + size < Len(bytecode))
      BY <3>1, <3>2, <3>3, FirstFailingOK
    <3> QED  BY <1>2, <1>3, <3>4
  <2>3. Slice(size) = Span(bytecode, last, Len(bytecode))
    <3> HIDE DEF size, last
    <3> QED  BY <1>2, <1>3, <2>2 DEF Slice, Span
  <2>4. Encode(container') = bytecode
    BY <1>1, <2>1, <2>2, <2>3, ContainerEncodes
  <2> QED
    BY <1>1, <2>1, <2>4 DEF SectionsRead, SectionsAreTheBytes, Accepted, Body
<1> QED  BY <1>4, <1>5

(* Nothing of an accepted bytecode is lost and nothing is read twice: the  *)
(* sections, and the sizes they have, are all of its bytes.                *)
THEOREM SectionsKeepTheBytes == EofSpec => []SectionsAreTheBytes
<1>1. EofInit => SectionsRead
  BY DEF EofInit, SectionsRead, SectionsAreTheBytes, Accepted, Body
<1>2. SectionsRead /\ EofInv /\ FormatInv /\ [EofNext]_eofvars => SectionsRead'
  <2> SUFFICES ASSUME SectionsRead, EofInv, FormatInv, [EofNext]_eofvars PROVE SectionsRead'
    OBVIOUS
  <2>1. CASE Prefix \/ TypesSize \/ NumCode \/ CodeSize \/ NumContainers \/ NoContainers
             \/ ContainerSize \/ DataSize
    <3>1. stage' \notin Body \cup {"accepted"}
      BY <2>1
         DEF Prefix, TypesSize, NumCode, CodeSize, NumContainers, NoContainers, ContainerSize,
             DataSize, Read, Body
    <3> QED  BY <3>1, OutsideBody
  <2>2. CASE EndHeader \/ TypeEntry \/ CodeSection \/ ContainerSection \/ DataSection
    BY <2>2, EndHeaderSections, TypeEntrySections, CodeSectionSections,
       ContainerSectionSections, DataSectionSections
  <2>3. CASE UNCHANGED eofvars
    <3>1. UNCHANGED <<bytecode, header, stage, container>>
      BY <2>3 DEF eofvars
    <3> QED
      BY <3>1, SamePlaces
         DEF SectionsRead, TypesAreRead, CodesAreRead, ContainersAreRead, SectionsAreTheBytes,
             Accepted
  <2> QED  BY <2>1, <2>2, <2>3 DEF EofNext
<1>3. SectionsRead => SectionsAreTheBytes
  BY DEF SectionsRead
<1> QED  BY ReadsTheFormat, <1>1, <1>2, <1>3, PTL DEF EofSpec
=============================================================================
