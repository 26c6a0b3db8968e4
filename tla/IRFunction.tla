----------------------------- MODULE IRFunction -----------------------------
(***************************************************************************)
(* The IR builder of irgen/builder/irfunc.go: IRFunction and its AppendXxx *)
(* methods, which turn one EVM opcode at a time into branches (one per     *)
(* JUMPDEST, plus an entry branch) of IR opcodes.                          *)
(*                                                                         *)
(* The builder runs the EVM stack symbolically.  A branch keeps a cache    *)
(* stackRefs of the values it produced, indexed by stack position relative *)
(* to the height at the branch's start; position heapPos is the lowest one *)
(* that is not in the memory stack any more.  A value is either a decimal  *)
(* constant or an LLVM register: "%l<id>_input<i>" (loaded from the memory *)
(* stack) or "%l<id>_res<i>" (computed by the opcode).                     *)
(*                                                                         *)
(* Every action below is one AppendXxx call.                               *)
(***************************************************************************)
EXTENDS Integers, Sequences, FiniteSets, Opcodes

CONSTANTS
    WordLimit,     \* number of EVM words: 2^256 in the code
    PcLimit,       \* number of uint32 program counters: 2^32 in the code
    IntLimit,      \* strconv.Atoi saturates below it: 2^63 in the code
    Fold(_, _),    \* the calcFn closures: Fold(op, args), a word
    AluOps,        \* the arithmetic and logic opcodes a run appends
    Pushes,        \* the immediates: <<n, v>>, n data bytes with value v
    Depths,        \* the n of DUPn and SWAPn
    HighOps,       \* the callback opcodes: [op, in, out, gas, stop]
    MaxOps, MaxPc  \* bounds on opcount and pccount

Words == 0 .. WordLimit - 1

ASSUME LimitsAssumption ==
    /\ WordLimit \in Nat \ {0} /\ PcLimit \in Nat \ {0}
    /\ IntLimit \in Nat /\ PcLimit <= IntLimit
    /\ MaxOps \in Nat /\ MaxPc \in 0 .. WordLimit - 1 /\ MaxPc < PcLimit
ASSUME InputsAssumption ==
    /\ AluOps \subseteq Foldable \cup Unfolded
    /\ Pushes \subseteq (0 .. 32) \X Words
    /\ Depths \subseteq 1 .. 16
    /\ HighOps \subseteq
         [op : 0 .. 255, in : Nat, out : Nat, gas : Nat, stop : BOOLEAN]
ASSUME FoldAssumption ==
    \A op \in AluOps \cap Foldable :
        \A args \in [1 .. AluIn(op) -> Words] : Fold(op, args) \in Words

VARIABLES
    branches,     \* IRFunction.branches
    pccount,      \* IRFunction.pccount
    opcount,      \* IRFunction.opcount
    noinitjump,   \* the entry branch was created by appendOpcode
    hasdynjumps,  \* some jump has a target that is not a constant
    err           \* an AppendXxx call returned an error

vars == <<branches, pccount, opcount, noinitjump, hasdynjumps, err>>

-----------------------------------------------------------------------------
(* Symbolic values.                                                        *)

Const(v)   == <<"const", v, 0>>
In(id, i)  == <<"input", id, i>>
Res(id, i) == <<"res", id, i>>
NoRef      == <<"nil", 0, 0>>
IsConst(r) == r[1] = "const"

Ref == ({"const"} \X Words \X {0}) \cup ({"input", "res"} \X Nat \X Nat)

NewBranch(pc) ==
    [pc |-> pc, opcodes |-> <<>>, stackPos |-> 0, heapPos |-> 0,
     stackMin |-> 0, stackMax |-> 0, stackRefs |-> <<>>]

(* The branches appendOpcode works on: it opens an entry branch if there   *)
(* is none.                                                                *)
Opened == IF branches = <<>> THEN <<NewBranch(0)>> ELSE branches
Cur    == Opened[Len(Opened)]

(* getStackStoreModel: the cached values, lowest position first.           *)
RefAt(br, p) == IF p \in DOMAIN br.stackRefs THEN br.stackRefs[p] ELSE NoRef
StackStore(br) ==
    [i \in 1 .. (br.stackPos - br.heapPos) |-> RefAt(br, br.heapPos + i - 1)]

(* Operators whose comment starts with "slip" are not the code: each is    *)
(* what the definition after it would be with a mistake in it, and a run   *)
(* shows that a property of this module would notice.                      *)

(* The first loop of appendOpcode: n operands from the top down.  A cached *)
(* one leaves the cache, any other is loaded from the memory stack.        *)
Missing(br, n) ==
    {p \in (br.stackPos - n) .. (br.stackPos - 1) : p \notin DOMAIN br.stackRefs}
Loads(br, n) == Cardinality(Missing(br, n))
Args(br, n, id) ==
    [i \in 1 .. n |->
        LET p == br.stackPos - i
        IN  IF p \in DOMAIN br.stackRefs THEN br.stackRefs[p]
            ELSE In(id, Cardinality({q \in Missing(br, n) : q > p}))]
Uncached(br, n) ==
    [p \in DOMAIN br.stackRefs \ ((br.stackPos - n) .. (br.stackPos - 1)) |->
        br.stackRefs[p]]
PoppedCountingAll(br, n) ==  \* slip: heapPos-- for cached operands as well
    [br EXCEPT !.stackPos = @ - n, !.heapPos = @ - n,
               !.stackMin = IF br.heapPos - n < @ THEN br.heapPos - n ELSE @,
               !.stackRefs = Uncached(br, n)]
PoppedFromHeap(br, n) ==     \* slip: heapPos is not moved
    [br EXCEPT !.stackPos = @ - n, !.stackRefs = Uncached(br, n)]
Popped(br, n) ==
    LET heap == br.heapPos - Loads(br, n)
        keep == DOMAIN br.stackRefs
                  \ ((br.stackPos - n) .. (br.stackPos - 1))
    IN  [br EXCEPT !.stackPos = @ - n,
                   !.heapPos = heap,
                   !.stackMin = IF heap < @ THEN heap ELSE @,
                   !.stackRefs = [p \in keep |-> @[p]]]

(* The second loop: n results of opcode id.                                *)
PushedUnmeasured(br, n, id) ==  \* slip: stackMax is not raised
    LET new == br.stackPos .. (br.stackPos + n - 1)
    IN  [br EXCEPT !.stackPos = @ + n,
                   !.stackRefs = [p \in DOMAIN @ \cup new |->
                                    IF p \in new THEN Res(id, p - br.stackPos)
                                    ELSE @[p]]]
Pushed(br, n, id) ==
    LET new == br.stackPos .. (br.stackPos + n - 1)
    IN  [br EXCEPT !.stackPos = @ + n,
                   !.stackMax = IF n > 0 /\ br.stackPos + n > @
                                THEN br.stackPos + n ELSE @,
                   !.stackRefs = [p \in DOMAIN @ \cup new |->
                                    IF p \in new THEN Res(id, p - br.stackPos)
                                    ELSE @[p]]]

(* branch.stackRefs[branch.stackPos - k].refVar = r                        *)
SetRef(br, k, r) == [br EXCEPT !.stackRefs[br.stackPos - k] = r]

(* The opcode appendOpcode builds in branch br.  cache is not in the code: *)
(* it records the cached stack the opcode finds.                           *)
NewOpcode(br, name, arg, in, out, gas) ==
    LET top == br.stackPos - in + out
    IN  [id |-> opcount, pc |-> pccount, name |-> name, arg |-> arg,
         gas |-> gas, in |-> in, out |-> out,
         stackRefs |-> Args(br, in, opcount),
         stackLoad |-> Loads(br, in), stackAddLoad |-> 0, stackStore |-> <<>>,
         stackCheck |-> IF out > 0 /\ top > br.stackMax THEN top ELSE 0,
         skipGasCheck |-> FALSE, breakGasGroup |-> FALSE,
         isExitOpcode |-> FALSE, isUnnecessary |-> FALSE,
         isStaticJump |-> FALSE, staticJumpPc |-> 0,
         cache |-> StackStore(br)]

AfterOpcode(br, in, out) == Pushed(Popped(br, in), out, opcount)

-----------------------------------------------------------------------------
Init ==
    /\ branches = <<>>
    /\ pccount = 0
    /\ opcount = 0
    /\ noinitjump = FALSE
    /\ hasdynjumps = FALSE
    /\ err = FALSE

CanAppend(len) == /\ ~err
                  /\ opcount < MaxOps
                  /\ pccount + len <= MaxPc

(* The tail of appendOpcode, on the branches bs whose last one becomes br. *)
Append1(bs, br, op, len) ==
    /\ CanAppend(len)
    /\ branches' = [bs EXCEPT ![Len(bs)] = [br EXCEPT !.opcodes = Append(@, op)]]
    /\ pccount' = pccount + len
    /\ opcount' = opcount + 1
    /\ noinitjump' = (noinitjump \/ bs # branches)

AppendPushN(n, v) ==
    LET op == NewOpcode(Cur, "push", v, 0, 1, IF n = 0 THEN 2 ELSE 3)
    IN  /\ Append1(Opened, SetRef(AfterOpcode(Cur, 0, 1), 1, Const(v)), op, 1 + n)
        /\ UNCHANGED <<hasdynjumps, err>>

(* LoadIndex / SwapIndex are kept in stackAddLoad, which always equals it. *)
DupOffByOne(n) ==  \* slip: n, not n + 1, is compared with the cache's size
    LET br    == AfterOpcode(Cur, 0, 1)
        local == (0 - br.heapPos) + br.stackPos
        src   == RefAt(br, br.stackPos - (n + 1))
        op    == [NewOpcode(Cur, "dup", n, 0, 1, 3) EXCEPT
                    !.stackAddLoad = IF n > local THEN n - local ELSE 0]
    IN  /\ Append1(Opened,
                   IF n > local \/ src = NoRef THEN br ELSE SetRef(br, 1, src),
                   op, 1)
        /\ err' = (n <= local /\ src = NoRef)
        /\ UNCHANGED hasdynjumps

AppendDupN(n) ==
    LET br    == AfterOpcode(Cur, 0, 1)
        local == (0 - br.heapPos) + br.stackPos
        src   == RefAt(br, br.stackPos - (n + 1))
        op    == [NewOpcode(Cur, "dup", n, 0, 1, 3) EXCEPT
                    !.stackAddLoad = IF n + 1 > local THEN n + 1 - local ELSE 0]
    IN  /\ Append1(Opened,
                   IF n + 1 > local \/ src = NoRef THEN br ELSE SetRef(br, 1, src),
                   op, 1)
        /\ err' = (n + 1 <= local /\ src = NoRef)
        /\ UNCHANGED hasdynjumps

AppendSwapN(n) ==
    LET br    == AfterOpcode(Cur, 1, 1)
        local == (0 - br.heapPos) + br.stackPos
        src   == RefAt(br, br.stackPos - (n + 1))
        op    == [NewOpcode(Cur, "swap", n, 1, 1, 3) EXCEPT
                    !.stackAddLoad = IF n + 1 > local THEN n + 1 - local ELSE 0]
        top   == op.stackRefs[1]
    IN  /\ Append1(Opened,
                   IF n + 1 > local THEN br
                   ELSE IF src = NoRef THEN SetRef(br, 1, top)
                   ELSE SetRef(SetRef(br, 1, src), n + 1, top),
                   op, 1)
        /\ err' = (n + 1 <= local /\ src = NoRef)
        /\ UNCHANGED hasdynjumps

AppendPop ==
    /\ Append1(Opened, AfterOpcode(Cur, 1, 0), NewOpcode(Cur, "pop", 0, 1, 0, 2), 1)
    /\ UNCHANGED <<hasdynjumps, err>>

AluUsing(name, fold, set(_, _)) ==
    LET in   == AluIn(name)
        br   == AfterOpcode(Cur, in, 1)
        op   == NewOpcode(Cur, name, 0, in, 1, AluGas(name))
        val  == Fold(name, [i \in 1 .. in |-> op.stackRefs[i][2]])
    IN  /\ Append1(Opened, IF fold THEN set(br, val) ELSE br,
                   [op EXCEPT !.isUnnecessary = fold], 1)
        /\ UNCHANGED <<hasdynjumps, err>>
AluFoldingAny(name) ==   \* slip: one constant operand is enough to fold
    AluUsing(name, name \in Foldable /\ \E i \in 1 .. AluIn(name) :
                       IsConst(Args(Cur, AluIn(name), opcount)[i]),
             LAMBDA br, val : SetRef(br, 1, Const(val)))
AluKeepingResult(name) ==  \* slip: the result register stays in the cache
    AluUsing(name, name \in Foldable /\ \A i \in 1 .. AluIn(name) :
                       IsConst(Args(Cur, AluIn(name), opcount)[i]),
             LAMBDA br, val : br)

(* AppendAdd .. AppendSar; the foldable ones end in                        *)
(* checkUnnecessaryOperation, which replaces the result of an operation on *)
(* constants by a constant and marks the opcode unnecessary.               *)
AppendAlu(name) ==
    LET in   == AluIn(name)
        br   == AfterOpcode(Cur, in, 1)
        op   == NewOpcode(Cur, name, 0, in, 1, AluGas(name))
        args == op.stackRefs
        fold == name \in Foldable /\ \A i \in 1 .. in : IsConst(args[i])
        val  == Fold(name, [i \in 1 .. in |-> args[i][2]])
    IN  /\ Append1(Opened, IF fold THEN SetRef(br, 1, Const(val)) ELSE br,
                   [op EXCEPT !.isUnnecessary = fold], 1)
        /\ UNCHANGED <<hasdynjumps, err>>

AppendHighOpcode(h) ==
    LET op == [NewOpcode(Cur, "call", h.op, h.in, h.out, h.gas) EXCEPT
                 !.breakGasGroup = h.stop, !.isExitOpcode = h.stop]
    IN  /\ Append1(Opened, AfterOpcode(Cur, h.in, h.out), op, 1)
        /\ UNCHANGED <<hasdynjumps, err>>

AppendDebugOpcode ==
    /\ Append1(Opened, AfterOpcode(Cur, 0, 0), NewOpcode(Cur, "debug", 0, 0, 0, 0), 0)
    /\ UNCHANGED <<hasdynjumps, err>>

AppendNop ==
    /\ ~err /\ pccount < MaxPc
    /\ pccount' = pccount + 1
    /\ UNCHANGED <<branches, opcount, noinitjump, hasdynjumps, err>>

AppendJumpDest ==
    LET br == NewBranch(pccount)
        op == NewOpcode(br, "jumpdest", 0, 0, 0, 1)
    IN  /\ CanAppend(1)
        /\ branches' = Append(branches,
                              [AfterOpcode(br, 0, 0) EXCEPT !.opcodes = <<op>>])
        /\ pccount' = pccount + 1
        /\ opcount' = opcount + 1
        /\ UNCHANGED <<noinitjump, hasdynjumps, err>>

(* uint32(strconv.Atoi(dst)): Atoi returns the largest int when dst is out *)
(* of its range.                                                           *)
JumpPc(v) == (IF v < IntLimit THEN v ELSE IntLimit - 1) % PcLimit

(* AppendJump and AppendJumpI: the same method but for template, operand   *)
(* count and gas.                                                          *)
AppendJumpOp(name, in, gas) ==
    LET br  == AfterOpcode(Cur, in, 0)
        op  == NewOpcode(Cur, name, 0, in, 0, gas)
        dst == op.stackRefs[1]
    IN  /\ Append1(Opened, br,
                   [op EXCEPT !.stackStore = StackStore(br),
                              !.breakGasGroup = TRUE,
                              !.isStaticJump = IsConst(dst),
                              !.staticJumpPc = IF IsConst(dst) THEN JumpPc(dst[2])
                                               ELSE 0], 1)
        /\ hasdynjumps' = (hasdynjumps \/ ~IsConst(dst))
        /\ UNCHANGED err

AppendJump  == AppendJumpOp("jump", 1, 8)
AppendJumpI == AppendJumpOp("jumpi", 2, 10)

(* AppendStop and AppendInvalid: the same method but for the template.     *)
AppendExit(name) ==
    /\ Append1(Opened, AfterOpcode(Cur, 0, 0),
               [NewOpcode(Cur, name, 0, 0, 0, 0) EXCEPT
                  !.breakGasGroup = TRUE, !.isExitOpcode = TRUE], 1)
    /\ UNCHANGED <<hasdynjumps, err>>

AppendStop    == AppendExit("stop")
AppendInvalid == AppendExit("invalid")

AppendPc ==
    /\ Append1(Opened, SetRef(AfterOpcode(Cur, 0, 1), 1, Const(pccount)),
               NewOpcode(Cur, "pc", 0, 0, 1, 2), 1)
    /\ UNCHANGED <<hasdynjumps, err>>

AppendGas ==
    /\ Append1(Opened, AfterOpcode(Cur, 0, 1), NewOpcode(Cur, "gas", 0, 0, 1, 2), 1)
    /\ UNCHANGED <<hasdynjumps, err>>

Next ==
    \/ \E p \in Pushes : AppendPushN(p[1], p[2])
    \/ \E n \in Depths : AppendDupN(n)
    \/ \E n \in Depths : AppendSwapN(n)
    \/ AppendPop
    \/ \E name \in AluOps : AppendAlu(name)
    \/ \E h \in HighOps : AppendHighOpcode(h)
    \/ AppendDebugOpcode
    \/ AppendNop
    \/ AppendJumpDest
    \/ AppendJump
    \/ AppendJumpI
    \/ AppendStop
    \/ AppendInvalid
    \/ AppendPc
    \/ AppendGas

Spec == Init /\ [][Next]_vars

-----------------------------------------------------------------------------
(* Types.                                                                  *)

Names == Foldable \cup Unfolded
           \cup {"push", "dup", "swap", "pop", "call", "debug", "jumpdest",
                 "jump", "jumpi", "stop", "invalid", "pc", "gas"}

Opcode ==
    [id : Nat, pc : Nat, name : Names, arg : Nat, gas : Nat, in : Nat, out : Nat,
     stackRefs : Seq(Ref), stackLoad : Nat, stackAddLoad : Nat,
     stackStore : Seq(Ref), stackCheck : Nat, skipGasCheck : BOOLEAN,
     breakGasGroup : BOOLEAN, isExitOpcode : BOOLEAN, isUnnecessary : BOOLEAN,
     isStaticJump : BOOLEAN, staticJumpPc : 0 .. PcLimit - 1, cache : Seq(Ref)]

IsBranch(br) ==
    br \in [pc : Nat, opcodes : Seq(Opcode), stackPos : Int, heapPos : Int,
            stackMin : Int, stackMax : Nat,
            stackRefs : [DOMAIN br.stackRefs -> Ref]]

(* Type invariant: the fields of IRFunction, IRBranch and IROpcode hold    *)
(* values of their types, and no cached or stored reference is nil.        *)
TypeOK ==
    /\ branches \in Seq({branches[i] : i \in DOMAIN branches})
    /\ \A i \in DOMAIN branches : IsBranch(branches[i])
    /\ pccount \in 0 .. MaxPc
    /\ opcount \in 0 .. MaxOps
    /\ noinitjump \in BOOLEAN /\ hasdynjumps \in BOOLEAN /\ err \in BOOLEAN

Contiguous(br) ==
    /\ DOMAIN br.stackRefs = br.heapPos .. (br.stackPos - 1)
    /\ br.heapPos <= br.stackPos
    /\ br.heapPos <= 0
    /\ br.stackMin = br.heapPos
    /\ br.stackPos <= br.stackMax

(* Whatever sequence of pops, swaps and loads a branch has seen, its cache *)
(* is exactly the positions heapPos .. stackPos - 1, without a hole, so    *)
(* that the store at a jump or at the end of the branch, which walks that  *)
(* interval, writes every cached word to the slot its position names.      *)
CacheContiguous == \A i \in DOMAIN branches : Contiguous(branches[i])

(* DUPn and SWAPn never meet a nil cache entry: the error arms of          *)
(* AppendDupN and AppendSwapN are dead, so parsing cannot fail on them.    *)
NoNilSource == ~err

(* The registers the code emitted for op defines.  A folded operation is   *)
(* not emitted; a push or PC emits nothing, a DUPn or SWAPn within the     *)
(* cache neither.                                                          *)
Results(op) ==
    IF op.name \in {"push", "pc"} \/ (op.name \in {"dup", "swap"} /\ op.stackAddLoad = 0)
    THEN 0 ELSE op.out
Defines(op) ==
    IF op.isUnnecessary THEN {}
    ELSE {In(op.id, i) : i \in 0 .. op.stackLoad - 1}
           \cup {Res(op.id, i) : i \in 0 .. Results(op) - 1}
DefinedUpTo(br, n) == UNION {Defines(br.opcodes[i]) : i \in 1 .. n}
Usable(br, n, r) == IsConst(r) \/ r \in DefinedUpTo(br, n)

SSA(br) ==
    /\ \A n \in DOMAIN br.opcodes :
        LET op == br.opcodes[n] IN
        /\ \A i \in DOMAIN op.stackRefs : Usable(br, n, op.stackRefs[i])
        /\ \A i \in DOMAIN op.stackStore : Usable(br, n, op.stackStore[i])
        /\ \A i \in DOMAIN op.cache : Usable(br, n - 1, op.cache[i])
    /\ \A p \in DOMAIN br.stackRefs : Usable(br, Len(br.opcodes), br.stackRefs[p])

(* SSA form: every register the emitted code reads -- operands, the words  *)
(* stored at jumps, the words stored at the end of a branch -- is defined  *)
(* by an opcode emitted earlier in the same branch.  Folding, DUPs and     *)
(* SWAPs must never leave in the cache the result register of an opcode    *)
(* that emits none, and nothing may cross from one branch to another.      *)
DefinedBeforeUse == \A i \in DOMAIN branches : SSA(branches[i])

(* The sum of x[from], ..., x[to].                                         *)
Total(x, from, to) ==
    LET sum[n \in (from - 1) .. to] == IF n < from THEN 0 ELSE sum[n - 1] + x[n]
    IN  sum[to]

(* The words of the EVM stack an instruction needs.                        *)
Takes(op) == IF op.name = "dup" THEN op.arg
             ELSE IF op.name = "swap" THEN op.arg + 1 ELSE op.in

EmittedLoads(ops) ==
    [n \in DOMAIN ops |-> IF ops[n].isUnnecessary THEN 0 ELSE ops[n].stackLoad]

(* heapPos follows the memory stack pointer: the words the emitted code of *)
(* a branch has loaded (each stack-load moves the pointer by stackLoad)    *)
(* add up to -heapPos, which DUPn and SWAPn rely on to address words below *)
(* the cache.                                                              *)
LoadsMatchHeap ==
    \A i \in DOMAIN branches :
        LET ops == branches[i].opcodes
        IN  Total(EmittedLoads(ops), 1, Len(ops)) = - branches[i].heapPos

(* stackCheck, the height an opcode must be checked for, is 0 or a new     *)
(* maximum of its branch: the last non-zero one of any run of opcodes is   *)
(* the largest, which is what the batched check keeps.                     *)
ChecksIncrease ==
    \A i \in DOMAIN branches :
        LET ops == branches[i].opcodes IN
        \A m, n \in DOMAIN ops :
            (m < n /\ ops[m].stackCheck > 0 /\ ops[n].stackCheck > 0)
                => ops[m].stackCheck < ops[n].stackCheck
=============================================================================
