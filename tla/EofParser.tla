----------------------------- MODULE EofParser ------------------------------
(***************************************************************************)
(* ParseEOF and parseV1 of eof/parser.go: an EOF container is read from    *)
(* left to right, first the header with the sizes of all sections, then    *)
(* the sections.  The first thing that is wrong ends the parse.            *)
(*                                                                         *)
(* The limits of eof/const.go and the width of a byte are constants, so    *)
(* that small containers reach them.                                       *)
(***************************************************************************)
EXTENDS Integers, SequencesExt

CONSTANTS
    ByteBase,            \* number of bytes: 256 in the code
    Magic, Version1, KindTypes, KindCode, KindContainer, KindData, Terminator,
    MaxTypesSize, MaxCodeSections, MaxContainerSections,
    MaxInitCodeSize, MaxInputs, MaxOutputs, MaxStackIncrease,
    Bytecodes            \* the bytecodes a run parses

ByteValues == 0 .. ByteBase - 1

ASSUME FormatAssumption ==
    /\ ByteBase \in Nat \ {0, 1} /\ Magic \in Nat
    /\ {Version1, KindTypes, KindCode, KindContainer, KindData, Terminator}
         \subseteq ByteValues
    /\ {MaxTypesSize, MaxCodeSections, MaxContainerSections, MaxInitCodeSize,
        MaxInputs, MaxOutputs, MaxStackIncrease} \subseteq Nat
    /\ Bytecodes \subseteq Seq(ByteValues)

VARIABLES
    bytecode,
    offset,     \* offset, then bodyOffset
    stage,      \* what is read next
    header,     \* HeaderV1, with the two totals
    container,  \* the sections of ContainerV1 read so far
    failure     \* the error returned

eofvars == <<bytecode, offset, stage, header, container, failure>>

-----------------------------------------------------------------------------
NoHeader == [typesSize |-> 0, numCode |-> 0, codeSizes |-> <<>>, codeTotal |-> 0,
             numContainers |-> 0, containerSizes |-> <<>>, containerTotal |-> 0,
             dataSize |-> 0]
NoSections == [types |-> <<>>, codes |-> <<>>, containers |-> <<>>, data |-> <<>>]

EofInit ==
    /\ bytecode \in Bytecodes
    /\ offset = 0 /\ stage = "prefix" /\ failure = "none"
    /\ header = NoHeader /\ container = NoSections

(* readByte, readUint16 and readUint32.  Past the end there is nothing to  *)
(* read; the value is then not used.                                       *)
Short(n)  == offset + n > Len(bytecode)
ByteAt(p) == IF p < Len(bytecode) THEN bytecode[p + 1] ELSE 0
Uint16(p) == ByteBase * ByteAt(p) + ByteAt(p + 1)
Uint32(p) == ByteBase * ByteBase * Uint16(p) + Uint16(p + 2)
SliceEarly(size) ==       \* slip: off by one
    SubSeq(bytecode, offset, offset + size - 1)
Slice(size) == SubSeq(bytecode, offset + 1, offset + size)

(* The error of the first check that fails.                                *)
FirstFailing(checks) ==
    LET bad == {k \in DOMAIN checks : checks[k][1]}
    IN  IF bad = {} THEN "none" ELSE checks[Min(bad)][2]

(* At stage s: return the error of the first check that fails, or else     *)
(* read n bytes on, to stage t.                                            *)
Read(s, checks, n, t) ==
    /\ stage = s
    /\ failure' = FirstFailing(checks)
    /\ IF failure' = "none" THEN stage' = t /\ offset' = offset + n
       ELSE stage' = "failed" /\ UNCHANGED offset
    /\ UNCHANGED bytecode
Keep(new, old) == IF failure' = "none" THEN new ELSE old
HeaderBecomes(h) == header' = Keep(h, header) /\ UNCHANGED container
ContainerBecomes(c) == container' = Keep(c, container) /\ UNCHANGED header

TooShort(n) == <<Short(n), "ErrShortBytecodeHeader">>
Marker(kind) == <<ByteAt(offset) # kind, "ErrInvalidKindMarker">>

Prefix ==
    /\ Read("prefix",
            <<TooShort(3),
              <<Uint16(0) # Magic, "ErrInvalidMagic">>,
              <<ByteAt(2) # Version1, "ErrUnsupportedVersion">>>>,
            3, "typesSize")
    /\ UNCHANGED <<header, container>>

TypesSize ==
    LET size == Uint16(offset + 1) IN
    /\ Read("typesSize",
            <<TooShort(1), Marker(KindTypes), TooShort(3),
              <<size = 0 \/ size % 4 # 0, "ErrInvalidTypesSectionSize">>,
              <<size > MaxTypesSize, "ErrInvalidSectionSize">>>>,
            3, "numCode")
    /\ HeaderBecomes([header EXCEPT !.typesSize = size])

NumCodeAny ==             \* slip: the types' size is not consulted
    LET num == Uint16(offset + 1) IN
    /\ Read("numCode",
            <<TooShort(1), Marker(KindCode), TooShort(3),
              <<num = 0, "ErrZeroCodeSections">>,
              <<num > MaxCodeSections, "ErrInvalidSectionSize">>>>,
            3, "codeSizes")
    /\ HeaderBecomes([header EXCEPT !.numCode = num])
NumCode ==
    LET num == Uint16(offset + 1) IN
    /\ Read("numCode",
            <<TooShort(1), Marker(KindCode), TooShort(3),
              <<num = 0, "ErrZeroCodeSections">>,
              <<num # header.typesSize \div 4, "ErrCodeSectionMismatch">>,
              <<num > MaxCodeSections, "ErrInvalidSectionSize">>>>,
            3, "codeSizes")
    /\ HeaderBecomes([header EXCEPT !.numCode = num])

(* One turn of the loop over the code sizes.  MaxCodeSectionSize is the    *)
(* largest uint16.                                                         *)
CodeSize ==
    LET size == Uint16(offset) IN
    /\ Read("codeSizes",
            <<TooShort(2), <<size = 0, "ErrInvalidCodeSectionSize">>>>, 2,
            IF Len(header.codeSizes) + 1 < header.numCode THEN "codeSizes"
            ELSE "containerKind")
    /\ HeaderBecomes([header EXCEPT !.codeSizes = Append(@, size), !.codeTotal = @ + size])

HasContainers == offset < Len(bytecode) /\ bytecode[offset + 1] = KindContainer
NumContainersAny ==       \* slip: the number of containers is not bounded
    LET num == Uint16(offset + 1) IN
    /\ HasContainers
    /\ Read("containerKind",
            <<TooShort(3), <<num = 0, "ErrZeroContainerSections">>>>,
            3, "containerSizes")
    /\ HeaderBecomes([header EXCEPT !.numContainers = num])
NumContainers ==
    LET num == Uint16(offset + 1) IN
    /\ HasContainers
    /\ Read("containerKind",
            <<TooShort(3), <<num = 0, "ErrZeroContainerSections">>,
              <<num > MaxContainerSections, "ErrInvalidSectionSize">>>>,
            3, "containerSizes")
    /\ HeaderBecomes([header EXCEPT !.numContainers = num])
NoContainers ==
    /\ ~HasContainers
    /\ Read("containerKind", <<>>, 0, "dataSize")
    /\ UNCHANGED <<header, container>>

ContainerSize ==
    LET size == Uint32(offset) IN
    /\ Read("containerSizes",
            <<TooShort(4), <<size = 0, "ErrInvalidContainerSectionSize">>>>, 4,
            IF Len(header.containerSizes) + 1 < header.numContainers
            THEN "containerSizes" ELSE "dataSize")
    /\ HeaderBecomes([header EXCEPT !.containerSizes = Append(@, size),
                                    !.containerTotal = @ + size])

DataSize ==
    /\ Read("dataSize", <<TooShort(1), Marker(KindData), TooShort(3)>>, 3, "terminator")
    /\ HeaderBecomes([header EXCEPT !.dataSize = Uint16(offset + 1)])

(* The terminator, and the checks of the sizes before the body is read.    *)
ExpectedBodySize ==
    header.typesSize + header.codeTotal + header.containerTotal + header.dataSize
EndHeaderLax ==           \* slip: the body is not measured before it is read
    /\ Read("terminator",
            <<TooShort(1), <<ByteAt(offset) # Terminator, "ErrMissingTerminator">>,
              <<Len(bytecode) > MaxInitCodeSize, "ErrMaxInitCodeSize">>>>,
            1, "types")
    /\ UNCHANGED <<header, container>>
EndHeader ==
    /\ Read("terminator",
            <<TooShort(1), <<ByteAt(offset) # Terminator, "ErrMissingTerminator">>,
              <<Short(1 + ExpectedBodySize), "ErrShortBytecode">>,
              <<Len(bytecode) > MaxInitCodeSize, "ErrMaxInitCodeSize">>>>,
            1, "types")
    /\ UNCHANGED <<header, container>>

(* One turn of the loop over the type entries: an index past typesBytes    *)
(* would panic.                                                            *)
TypeEntry ==
    LET k     == Len(container.types)
        entry == [inputs |-> ByteAt(offset), outputs |-> ByteAt(offset + 1),
                  maxStack |-> Uint16(offset + 2)]
    IN
    /\ Read("types",
            <<<<k = 0 /\ Short(header.typesSize), "ErrShortBytecode">>,
              <<4 * k + 4 > header.typesSize, "panic">>,
              <<entry.inputs > MaxInputs, "ErrInvalidTypeEntry">>,
              <<entry.outputs > MaxOutputs, "ErrInvalidTypeEntry">>,
              <<entry.maxStack > MaxStackIncrease, "ErrInvalidTypeEntry">>>>, 4,
            IF k + 1 < header.numCode THEN "types" ELSE "codes")
    /\ ContainerBecomes([container EXCEPT !.types = Append(@, entry)])

CodeSection ==
    LET k    == Len(container.codes) + 1
        size == header.codeSizes[k]
    IN
    /\ Read("codes", <<<<Short(size), "ErrShortBytecode">>>>, size,
            IF k < header.numCode THEN "codes"
            ELSE IF header.numContainers > 0 THEN "containers" ELSE "data")
    /\ ContainerBecomes([container EXCEPT !.codes = Append(@, Slice(size))])

ContainerSection ==
    LET k    == Len(container.containers) + 1
        size == header.containerSizes[k]
    IN
    /\ Read("containers", <<<<Short(size), "ErrShortBytecode">>>>, size,
            IF k < header.numContainers THEN "containers" ELSE "data")
    /\ ContainerBecomes([container EXCEPT !.containers = Append(@, Slice(size))])

(* Data that runs past the end is cut short; bytes behind it are refused.  *)
DataSectionLax ==         \* slip: bytes behind the data are ignored
    LET size == IF Short(header.dataSize) THEN Len(bytecode) - offset ELSE header.dataSize
    IN
    /\ Read("data", <<>>, size, "accepted")
    /\ ContainerBecomes([container EXCEPT !.data = Slice(size)])
DataSection ==
    LET size == IF Short(header.dataSize) THEN Len(bytecode) - offset ELSE header.dataSize
    IN
    /\ Read("data", <<<<offset + size < Len(bytecode), "ErrExtraneousData">>>>, size,
            "accepted")
    /\ ContainerBecomes([container EXCEPT !.data = Slice(size)])

EofNext ==
    \/ Prefix \/ TypesSize \/ NumCode \/ CodeSize \/ NumContainers \/ NoContainers
    \/ ContainerSize \/ DataSize \/ EndHeader \/ TypeEntry \/ CodeSection
    \/ ContainerSection \/ DataSection

EofSpec == EofInit /\ [][EofNext]_eofvars

-----------------------------------------------------------------------------
(* The format, declaratively: every field at its offset from the start.    *)
(* Bytes past the end count as 0.                                          *)
At(b, p) == IF p < Len(b) THEN b[p + 1] ELSE 0
Uint(b, p, n) ==
    LET v[k \in 0 .. n] == IF k = 0 THEN 0 ELSE ByteBase * v[k - 1] + At(b, p + k - 1)
    IN  v[n]

(* The sum of the first n numbers of x.                                    *)
Total(x, n) ==
    LET sum[k \in 0 .. n] == IF k = 0 THEN 0 ELSE sum[k - 1] + x[k] IN sum[n]

(* What the header of b says, and where.                                   *)
Codes(b)      == Uint(b, 7, 2)
CodeSizes(b)  == [k \in 1 .. Codes(b) |-> Uint(b, 7 + 2 * k, 2)]
KindAt(b)     == 9 + 2 * Codes(b)
Nested(b)     == At(b, KindAt(b)) = KindContainer
Containers(b) == IF Nested(b) THEN Uint(b, KindAt(b) + 1, 2) ELSE 0
ContainerSizes(b) == [k \in 1 .. Containers(b) |-> Uint(b, KindAt(b) - 1 + 4 * k, 4)]
DataAt(b)     == IF Nested(b) THEN KindAt(b) + 3 + 4 * Containers(b) ELSE KindAt(b)
BodyAt(b)     == DataAt(b) + 4
Extent(b) ==
    BodyAt(b) + 4 * Codes(b) + Total(CodeSizes(b), Codes(b))
      + Total(ContainerSizes(b), Containers(b)) + Uint(b, DataAt(b) + 1, 2)

TypeFits(b, p) ==
    At(b, p) <= MaxInputs /\ At(b, p + 1) <= MaxOutputs /\ Uint(b, p + 2, 2) <= MaxStackIncrease

WellFormed(b) ==
    /\ Uint(b, 0, 2) = Magic /\ At(b, 2) = Version1
    /\ At(b, 3) = KindTypes /\ Uint(b, 4, 2) = 4 * Codes(b) /\ 4 * Codes(b) <= MaxTypesSize
    /\ At(b, 6) = KindCode /\ Codes(b) \in 1 .. MaxCodeSections
    /\ Nested(b) => Containers(b) \in 1 .. MaxContainerSections
    /\ At(b, DataAt(b)) = KindData /\ At(b, DataAt(b) + 3) = Terminator
    /\ \A k \in 1 .. Codes(b) : CodeSizes(b)[k] > 0 /\ TypeFits(b, BodyAt(b) + 4 * (k - 1))
    /\ \A k \in 1 .. Containers(b) : ContainerSizes(b)[k] > 0

IsContainer(b) == WellFormed(b) /\ Len(b) = Extent(b) /\ Len(b) <= MaxInitCodeSize

Accepted == stage = "accepted"

(* The parser accepts exactly the containers: no order of the checks, no   *)
(* length that happens to fit and no limit lets anything else through or   *)
(* refuses a container.                                                    *)
Ended == stage \in {"accepted", "failed"}
AcceptsExactly == Ended => (Accepted <=> IsContainer(bytecode))

(* The bytes of a container with these sections.                           *)
Digits(v, n) ==
    LET rest[k \in 0 .. n] == IF k = 0 THEN v ELSE rest[k - 1] \div ByteBase
    IN  [k \in 1 .. n |-> rest[n - k] % ByteBase]
Lengths(s)       == [k \in DOMAIN s |-> Len(s[k])]
Numbers(s, n)    == FlattenSeq([k \in DOMAIN s |-> Digits(s[k], n)])
EncodeType(type) == <<type.inputs, type.outputs>> \o Digits(type.maxStack, 2)
Encode(c) ==
    LET codes == Len(c.codes)  containers == Len(c.containers) IN
    Digits(Magic, 2) \o <<Version1, KindTypes>> \o Digits(4 * codes, 2)
      \o <<KindCode>> \o Digits(codes, 2) \o Numbers(Lengths(c.codes), 2)
      \o (IF containers = 0 THEN <<>>
          ELSE <<KindContainer>> \o Digits(containers, 2) \o Numbers(Lengths(c.containers), 4))
      \o <<KindData>> \o Digits(Len(c.data), 2) \o <<Terminator>>
      \o FlattenSeq([k \in DOMAIN c.types |-> EncodeType(c.types[k])])
      \o FlattenSeq(c.codes) \o FlattenSeq(c.containers) \o c.data

(* Nothing is lost and nothing read twice: the sections of an accepted     *)
(* container, and the sizes they have, are all of its bytes.               *)
SectionsAreTheBytes == Accepted => Encode(container) = bytecode

(* Bytes behind a container, and nothing else, are reported as extraneous: *)
(* the end of a container is where its header says.  (A bytecode longer    *)
(* than the limit is refused before that shows.)                           *)
ExtraneousIsNamed ==
    (Ended /\ Len(bytecode) <= MaxInitCodeSize) =>
        (failure = "ErrExtraneousData" <=>
            \E n \in 0 .. Len(bytecode) - 1 : IsContainer(SubSeq(bytecode, 1, n)))

(* What the comment in front of the measured body promises ("Allow         *)
(* extraneous data for now"): bytes behind a container do no harm.         *)
ExtraneousAllowed ==
    Ended /\ Len(bytecode) <= MaxInitCodeSize =>
        ((\E n \in 0 .. Len(bytecode) : IsContainer(SubSeq(bytecode, 1, n))) => Accepted)

(* A container that is cut off, wherever it is, is reported as too short   *)
(* and as nothing else.                                                    *)
Whole == {b \in Bytecodes : IsContainer(b)}
TruncatedIsShort ==
    Ended => \A b \in Whole :
        IsStrictPrefix(bytecode, b) =>
            failure \in {"ErrShortBytecodeHeader", "ErrShortBytecode"}

(* No slice expression of the parser panics: no type entry is read behind  *)
(* the types section, and no section behind the end of the bytecode.       *)
NeverPanics == failure # "panic" /\ offset <= Len(bytecode)
=============================================================================
