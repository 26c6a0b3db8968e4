------------------------------ MODULE CallCtx -------------------------------
(***************************************************************************)
(* Call contexts: llvm/callctx.go and callctx.c.  A context is a Go object *)
(* that owns memory outside Go: the C struct compiled code works on, a cgo *)
(* handle by which RunBinding finds the Go object again, and, unless the   *)
(* caller brought one, the EVM stack.                                      *)
(*                                                                         *)
(* A call is a frame of a goroutine.  Compiled code is modelled by what it *)
(* does to the context (module JitCall says that it may be): it keeps the  *)
(* gas to itself, spends it, calls RunBinding, and gives the rest back     *)
(* when it returns.  A callback may make calls itself, with other          *)
(* contexts, so a goroutine has a stack of frames.                         *)
(***************************************************************************)
EXTENDS Integers, Sequences

CONSTANTS
    Goroutines,
    Setups,       \* contexts as callers create and set them up: owned (no stack
                  \* was given), limit, bindings, opcallback, debug (is set)
    Operations,   \* callbacks in code: opcode, pc, words in, words of buffer, debug?
    MaxContexts   \* bound on the contexts created

VARIABLES
    ctxs,      \* every CallCtx, with the gas its callers have used so far
    held,      \* memory and handles not released
    misused,   \* something was released twice or used after its release
    frames     \* calls each goroutine is in, innermost last

ctxvars == <<ctxs, held, misused, frames>>

Contexts == 1 .. MaxContexts

CtxInit ==
    /\ ctxs = <<>> /\ held = {} /\ misused = FALSE
    /\ frames = [g \in Goroutines |-> <<>>]

-----------------------------------------------------------------------------
(* NewCallCtx, and the setters that are called before the first call (the *)
(* opcodes of op bindings stand for the table; a caller without one has    *)
(* {}).  When callctx_init fails, what was made before stays.  When the    *)
(* first malloc fails, nothing has happened.                               *)
Own(c, owned, kinds) == {<<kind, c>> : kind \in kinds \cup (IF owned THEN {"stack"} ELSE {})}
Fresh(s) == [setup |-> s, gas |-> s.limit, used |-> 0, status |-> "live"]
Gone(status) == [status |-> status]

NewCallCtx(s) ==
    LET c == Len(ctxs) + 1 IN
    /\ c \in Contexts
    /\ \/ /\ ctxs' = Append(ctxs, Fresh(s))
          /\ held' = held \cup Own(c, s.owned, {"handle", "struct"})
       \/ /\ ctxs' = Append(ctxs, Gone("failed"))
          /\ held' = held \cup Own(c, s.owned, {"handle"})
    /\ UNCHANGED <<misused, frames>>

(* Dispose: nothing marks the context.                                     *)
ReleasedStack(c) == Own(c, TRUE, {"handle", "struct"})  \* slip: also the caller's stack
Released(c) == Own(c, ctxs[c].setup.owned, {"handle", "struct"})
Dispose(c) ==
    /\ held' = held \ Released(c)
    /\ misused' = (misused \/ ~(Released(c) \subseteq held))
    /\ ctxs' = [ctxs EXCEPT ![c] = Gone("disposed")]
    /\ UNCHANGED frames

-----------------------------------------------------------------------------
(* Frames.                                                                 *)
Top(g) == frames[g][Len(frames[g])]
Outer(g) == SubSeq(frames[g], 1, Len(frames[g]) - 1)
InFrame(g, at) == frames[g] # <<>> /\ Top(g).at = at
WithTop(g, f) == [frames EXCEPT ![g] = Append(Outer(g), f)]
Running(c) == \E g \in Goroutines : \E k \in DOMAIN frames[g] : frames[g][k].ctx = c
Uses(r) == misused' = (misused \/ r \notin held)

NoOp == [opcode |-> 0, pc |-> 0, in |-> 0, words |-> 0, debug |-> FALSE]

(* Entry of a compiled function: the gas is copied out of the context.     *)
Enter(g, c) ==
    /\ frames' = [frames EXCEPT ![g] =
                    Append(@, [ctx |-> c, gas |-> ctxs[c].gas, at |-> "code",
                               op |-> NoOp, runs |-> "code"])]
    /\ Uses(<<"struct", c>>)
    /\ UNCHANGED <<ctxs, held>>

(* RunBinding.  A debug operation hands its pc, cut to 16 bits, as the     *)
(* length of its inputs, and no buffer.  A table that is missing and one   *)
(* that lacks the opcode have the same answer.                             *)
InputsLen(op) == (IF op.debug THEN op.pc ELSE 32 * op.in) % 65536
TellDebugByLength(s, op) ==  \* slip: the buffer is not looked at
    IF InputsLen(op) > 0
    THEN IF s.debug THEN "debugcallback" ELSE "nothing"
    ELSE IF s.opcallback THEN "opcallback"
    ELSE IF op.opcode \in s.bindings THEN "binding" ELSE "unbound"
RunBinding(s, op) ==
    IF op.words = 0 /\ InputsLen(op) > 0
    THEN IF s.debug THEN "debugcallback" ELSE "nothing"
    ELSE IF s.opcallback THEN "opcallback"
    ELSE IF op.opcode \in s.bindings THEN "binding" ELSE "unbound"

Callbacks == {"debugcallback", "opcallback", "binding"}

(* Compiled code spends gas, at least 1, and reaches a callback.  The      *)
(* frame keeps the operation and what became of it.                        *)
Operate(g) ==
    /\ InFrame(g, "code") /\ Top(g).gas > 0
    /\ \E op \in Operations :
        LET c == Top(g).ctx  runs == RunBinding(ctxs[c].setup, op) IN
        /\ ctxs' = [ctxs EXCEPT ![c].used = @ + 1]
        /\ frames' = WithTop(g, [Top(g) EXCEPT
                !.gas = @ - 1,
                !.op = op, !.runs = runs,
                !.at = CASE runs = "nothing" -> "code" [] runs = "unbound" -> "failed"
                         [] OTHER -> "callback"])
        /\ Uses(<<"handle", c>>)
    /\ UNCHANGED held

(* The callback returns to the code; it may have used gas.                 *)
CallbackReturns(g) ==
    /\ InFrame(g, "callback")
    /\ \E use \in {0, 1} \cap (0 .. Top(g).gas), ok \in BOOLEAN :
        /\ ctxs' = [ctxs EXCEPT ![Top(g).ctx].used = @ + use]
        /\ frames' = WithTop(g, [Top(g) EXCEPT !.gas = @ - use, !.op = NoOp, !.runs = "code",
                                               !.at = IF ok THEN "code" ELSE "failed"])
    /\ UNCHANGED <<held, misused>>

(* graceful_return and error_return: both give the gas back.               *)
ReturnWhenOk(g) ==  \* slip: error_return leaves the gas of the context
    /\ InFrame(g, "code") \/ InFrame(g, "failed")
    /\ ctxs' = IF InFrame(g, "code") THEN [ctxs EXCEPT ![Top(g).ctx].gas = Top(g).gas]
               ELSE ctxs
    /\ frames' = [frames EXCEPT ![g] = Outer(g)]
    /\ UNCHANGED held /\ Uses(<<"struct", Top(g).ctx>>)
Return(g) ==
    /\ InFrame(g, "code") \/ InFrame(g, "failed")
    /\ ctxs' = [ctxs EXCEPT ![Top(g).ctx].gas = Top(g).gas]
    /\ frames' = [frames EXCEPT ![g] = Outer(g)]
    /\ UNCHANGED held /\ Uses(<<"struct", Top(g).ctx>>)

-----------------------------------------------------------------------------
(* Gas is spent once: between calls a context has what its limit leaves    *)
(* after everything its calls and their callbacks have used, however many  *)
(* calls it served, failed ones included, and whatever calls with other    *)
(* contexts its callbacks made.                                            *)
GasSpentOnce ==
    \A c \in DOMAIN ctxs :
        (ctxs[c].status = "live" /\ ~Running(c)) =>
            ctxs[c].gas + ctxs[c].used = ctxs[c].setup.limit

(* What a context owns is released once, when it is disposed, and the      *)
(* caller's stack never; only a construction that failed leaves something. *)
ReleasedOnce ==
    /\ ~misused
    /\ \A c \in DOMAIN ctxs :
          LET rest == {r \in held : r[2] = c} IN
          /\ ctxs[c].status = "live" => rest = Released(c)
          /\ ctxs[c].status = "disposed" => rest = {}

(* The debug callback is called for every debug operation, and for nothing *)
(* else, when one is set; when none is set, every debug operation, and     *)
(* nothing else, is passed over.  A debug operation whose pc is a multiple *)
(* of 2^16 is none to RunBinding: it is served as an ordinary operation.   *)
DebugOperation(op) == op.debug /\ op.pc % 65536 # 0
DebugSeparate ==
    \A g \in Goroutines : \A k \in DOMAIN frames[g] :
        LET f == frames[g][k]  s == ctxs[f.ctx].setup IN
        /\ f.runs = "debugcallback" <=> DebugOperation(f.op) /\ s.debug
        /\ f.runs = "nothing" <=> DebugOperation(f.op) /\ ~s.debug
=============================================================================
