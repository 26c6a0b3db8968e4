--------------------------- MODULE TemplateCache ----------------------------
(***************************************************************************)
(* GetTemplate of irgen/irtpl/irtpl.go, called by goroutines that render   *)
(* functions at the same time: a map of parsed templates behind a          *)
(* sync.RWMutex.  The mutex is external; it is modelled as Go documents    *)
(* it: a goroutine that waits to write keeps new readers out.              *)
(***************************************************************************)
EXTENDS Integers, FiniteSets

CONSTANTS
    Goroutines,
    Files       \* the template files, by whose name the map is indexed

NoFile == ""
ASSUME CacheAssumption == NoFile \notin Files

VARIABLES
    cached,   \* the files that have an entry in templateCache
    readers,  \* goroutines that hold templateCacheMux for reading
    writer,   \* the one that holds it, or waits for it, for writing, as a set
    step,     \* where each goroutine is in GetTemplate
    file      \* its argument, NoFile outside

cachevars == <<cached, readers, writer, step, file>>

CacheInit ==
    /\ cached = {} /\ readers = {} /\ writer = {}
    /\ step = [g \in Goroutines |-> "idle"]
    /\ file = [g \in Goroutines |-> NoFile]

-----------------------------------------------------------------------------
At(g, s) == step[g] = s
Goto(g, s) == step' = [step EXCEPT ![g] = s]

GetTemplate(g, f) ==
    /\ At(g, "idle") /\ Goto(g, "call")
    /\ file' = [file EXCEPT ![g] = f]
    /\ UNCHANGED <<cached, readers, writer>>

RLockFreely(g) ==  \* slip: the check is made without the lock
    /\ At(g, "call") /\ Goto(g, "check")
    /\ readers' = readers \cup {g}
    /\ UNCHANGED <<cached, writer, file>>
RLock(g) ==
    /\ At(g, "call") /\ writer = {}
    /\ readers' = readers \cup {g} /\ Goto(g, "check")
    /\ UNCHANGED <<cached, writer, file>>

Check(g) ==
    /\ At(g, "check")
    /\ Goto(g, IF file[g] \in cached THEN "hit" ELSE "miss")
    /\ UNCHANGED <<cached, readers, writer, file>>

(* The deferred RUnlock of a hit, and the one before parsing.              *)
HitKeepsLock(g) ==  \* slip: a hit returns without unlocking
    /\ At(g, "hit") /\ Goto(g, "idle")
    /\ file' = [file EXCEPT ![g] = NoFile]
    /\ UNCHANGED <<cached, readers, writer>>
Hit(g) ==
    /\ At(g, "hit") /\ Goto(g, "idle")
    /\ readers' = readers \ {g} /\ file' = [file EXCEPT ![g] = NoFile]
    /\ UNCHANGED <<cached, writer>>
Miss(g) ==
    /\ At(g, "miss") /\ Goto(g, "parse")
    /\ readers' = readers \ {g}
    /\ UNCHANGED <<cached, writer, file>>

(* parseTemplateFiles works on a template no other goroutine knows.        *)
Parse(g) ==
    /\ At(g, "parse") /\ Goto(g, "lock")
    /\ UNCHANGED <<cached, readers, writer, file>>

(* Lock: one goroutine at a time announces itself, then waits for readers. *)
Announce(g) ==
    /\ At(g, "lock") /\ writer = {}
    /\ writer' = {g} /\ Goto(g, "wait")
    /\ UNCHANGED <<cached, readers, file>>
Lock(g) ==
    /\ At(g, "wait") /\ readers = {}
    /\ Goto(g, "store")
    /\ UNCHANGED <<cached, readers, writer, file>>
Store(g) ==
    /\ At(g, "store") /\ Goto(g, "unlock")
    /\ cached' = cached \cup {file[g]}
    /\ UNCHANGED <<readers, writer, file>>
Unlock(g) ==
    /\ At(g, "unlock") /\ Goto(g, "idle")
    /\ writer' = {} /\ file' = [file EXCEPT ![g] = NoFile]
    /\ UNCHANGED <<cached, readers>>

Proceed(g) ==
    \/ RLock(g) \/ Check(g) \/ Hit(g) \/ Miss(g) \/ Parse(g)
    \/ Announce(g) \/ Lock(g) \/ Store(g) \/ Unlock(g)

CacheNext == \E g \in Goroutines : Proceed(g) \/ \E f \in Files : GetTemplate(g, f)

CacheSpec == CacheInit /\ [][CacheNext]_cachevars

-----------------------------------------------------------------------------
(* The map is never written while another goroutine reads or writes it,    *)
(* although several may miss the same file and all of them store it.       *)
Writes(g) == step[g] = "store"
Touches(g) == step[g] \in {"check", "store"}
MapSafe == \A g, h \in Goroutines : (g # h /\ Writes(g)) => ~Touches(h)

(* Every GetTemplate returns: no lock is left behind, and no goroutine     *)
(* waits for one that waits for it.                                        *)
TemplateReturns == \A g \in Goroutines : (step[g] # "idle") ~> (step[g] = "idle")
=============================================================================
