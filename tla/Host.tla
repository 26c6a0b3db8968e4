-------------------------------- MODULE Host --------------------------------
(***************************************************************************)
(* A program that uses the library as README.md shows, with several        *)
(* goroutines: they render functions (TemplateCache); then one of them     *)
(* loads a module, stores and restores it, calls it (Module); then all of  *)
(* them call it, each call with a context of its own (CallCtx), also from  *)
(* within callbacks.                                                       *)
(*                                                                         *)
(* Module.Call is taken apart here: what it reads of the Module and what   *)
(* it writes are steps between which other goroutines run.  Nothing in     *)
(* module.go locks, so a host has to: a call for a name that has not been  *)
(* called before is made while no other goroutine is inside Module.Call.   *)
(* Goroutines that execute compiled code need not be waited for.           *)
(***************************************************************************)
EXTENDS Module, TemplateCache

CONSTANTS
    Setups, Operations, MaxContexts,  \* of CallCtx
    MaxServed                         \* bound on the modules made before one is served

ASSUME ContextAssumption ==
    /\ MaxContexts \in Nat /\ MaxServed \in Nat
    /\ \A s \in Setups : s.limit \in Nat /\ s.debug \in BOOLEAN
    /\ \A op \in Operations :
          /\ op.pc \in Nat /\ op.in \in Nat /\ op.words \in Nat /\ op.debug \in BOOLEAN
          /\ IF op.debug THEN op.words = 0 ELSE op.in <= op.words

VARIABLES
    ctxs, held, misused, frames,  \* of CallCtx
    mode,                         \* what the program does
    entering                      \* goroutines in Module.Call, before the code

Ctx == INSTANCE CallCtx

callvars == <<ctxs, held, misused, frames>>
hostvars == <<modvars, cachevars, callvars, mode, entering>>

NotEntering == [in |-> "no", ctx |-> 0, name |-> ""]

HostInit ==
    /\ ModuleInit /\ CacheInit /\ Ctx!CtxInit
    /\ mode = "render"
    /\ entering = [g \in Goroutines |-> NotEntering]

-----------------------------------------------------------------------------
Idle(g) == frames[g] = <<>> /\ entering[g] = NotEntering
AllIdle == \A g \in Goroutines : Idle(g) /\ step[g] = "idle"

Render ==
    /\ mode = "render" /\ CacheNext
    /\ UNCHANGED <<modvars, callvars, mode, entering>>

(* Every function is rendered, with the templates it needs.                *)
Rendered ==
    /\ mode = "render" /\ AllIdle /\ cached = Files
    /\ mode' = "setup"
    /\ UNCHANGED <<modvars, cachevars, callvars, entering>>

(* One goroutine has the module for itself.                                *)
Setup ==
    /\ mode = "setup" /\ ModuleNext /\ Careful
    /\ UNCHANGED <<cachevars, callvars, mode, entering>>

(* The module is set up, and may have been called; the calls that follow   *)
(* come from all goroutines, until an engine cannot be made.               *)
Ready == mod # 0 /\ Usable /\ ~EngineFailed /\ last.name # "Dispose"
Serve ==
    /\ mode = "setup" /\ Ready
    /\ Len(modules) <= MaxServed
    /\ mode' = "serve"
    /\ UNCHANGED <<modvars, cachevars, callvars, entering>>

Serving == mode = "serve" /\ UNCHANGED <<cachevars, mode>>

(* The host's own rules: a context serves one call at a time and is        *)
(* disposed once, when it serves none.                                     *)
Free(c) ==
    /\ c \in DOMAIN ctxs /\ ctxs[c].status = "live" /\ ~Ctx!Running(c)
    /\ \A g \in Goroutines : entering[g].ctx # c

ManageContexts ==
    /\ Serving /\ UNCHANGED <<modvars, entering>>
    /\ \/ \E s \in Setups : Ctx!NewCallCtx(s)
       \/ \E c \in DOMAIN ctxs : Free(c) /\ Ctx!Dispose(c)

-----------------------------------------------------------------------------
(* Module.Call, by a goroutine that runs nothing or is in a callback.      *)
In(g, s) == entering[g].in = s
MoveTo(g, s) == entering' = [entering EXCEPT ![g].in = s]
Leave(g) == entering' = [entering EXCEPT ![g] = NotEntering]
Defined(name) == name \in Defines(modules[mod].source)
Cold(name) == name \notin DOMAIN fnaddr

CallBegins(g, c, name) ==
    /\ Serving /\ Ready
    /\ In(g, "no") /\ (frames[g] = <<>> \/ Ctx!InFrame(g, "callback"))
    /\ Free(c)
    /\ \A h \in Goroutines : entering[h] # NotEntering => ~Cold(name) /\ ~Cold(entering[h].name)
    /\ entering' = [entering EXCEPT ![g] = [in |-> "engine", ctx |-> c, name |-> name]]
    /\ UNCHANGED <<modvars, callvars>>

SameEngine == UNCHANGED <<mod, engine, modules, engines>>

(* m.engine is read, and InitEngine called if it is nil.                   *)
CallEngine(g) ==
    /\ Serving /\ In(g, "engine")
    /\ IF engine = 0
       THEN InitEngine /\ IF last'.failed THEN Leave(g) ELSE MoveTo(g, "lookup")
       ELSE MoveTo(g, "lookup") /\ UNCHANGED modvars
    /\ UNCHANGED callvars

(* m.fnaddr is read.                                                       *)
CallLookupStores(g) ==  \* slip: the address is written back on every call
    /\ Serving /\ In(g, "lookup")
    /\ MoveTo(g, "store") /\ UNCHANGED <<modvars, callvars>>
CallLookup(g) ==
    /\ Serving /\ In(g, "lookup")
    /\ IF Cold(entering[g].name)
       THEN MoveTo(g, "store") /\ UNCHANGED <<modvars, callvars>>
       ELSE /\ SameEngine /\ Run(entering[g].name)
            /\ Ctx!Enter(g, entering[g].ctx) /\ Leave(g)

(* getFnAddr, and m.fnaddr is written.                                     *)
CallStoreFirst(g) ==  \* slip: the address is kept before it is compared with 0
    /\ Serving /\ In(g, "store")
    /\ Did("Call", ~Defined(entering[g].name), engine, FALSE)
    /\ fnaddr' = WithAddr(entering[g].name, engine)
    /\ Leave(g) /\ Ctx!Enter(g, entering[g].ctx)
    /\ SameEngine
CallStore(g) ==
    /\ Serving /\ In(g, "store")
    /\ SameEngine /\ Run(entering[g].name) /\ Leave(g)
    /\ IF last'.failed THEN UNCHANGED callvars ELSE Ctx!Enter(g, entering[g].ctx)

Execute(g) ==
    /\ Serving /\ In(g, "no") /\ UNCHANGED <<modvars, entering>>
    /\ Ctx!Operate(g) \/ Ctx!CallbackReturns(g) \/ Ctx!Return(g)

Close ==
    /\ Serving /\ AllIdle /\ last.name # "Dispose"
    /\ Dispose
    /\ UNCHANGED <<callvars, entering>>

HostNext ==
    \/ Render \/ Rendered \/ Setup \/ Serve \/ ManageContexts \/ Close
    \/ \E g \in Goroutines :
          \/ CallEngine(g) \/ CallLookup(g) \/ CallStore(g) \/ Execute(g)
          \/ \E c \in 1 .. MaxContexts, name \in Names : CallBegins(g, c, name)

(* A goroutine inside GetTemplate is scheduled again and again.            *)
HostSpec ==
    /\ HostInit /\ [][HostNext]_hostvars
    /\ \A g \in Goroutines :
          WF_hostvars(Proceed(g) /\ UNCHANGED <<modvars, callvars, mode, entering>>)

-----------------------------------------------------------------------------
(* Calls of names that have been called before do not race: while one      *)
(* goroutine writes the map of addresses or creates the engine, no other   *)
(* reads either.                                                           *)
WritesModule(g) == In(g, "store") \/ (In(g, "engine") /\ engine = 0)
RaceFree ==
    \A g, h \in Goroutines :
        (g # h /\ WritesModule(g)) => In(h, "no")

(* What CallCtx states of gas, memory and callbacks, with calls made by     *)
(* several goroutines and from within callbacks.                           *)
GasSpentOnce == Ctx!GasSpentOnce
ReleasedOnce == Ctx!ReleasedOnce
DebugSeparate == Ctx!DebugSeparate

(* Whatever the goroutines do, the module sees the calls of one careful    *)
(* user, one after the other; what is proved of Module holds here too.     *)
ModuleUsedCarefully == CarefulSpec
=============================================================================
