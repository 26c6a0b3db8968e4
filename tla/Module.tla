------------------------------- MODULE Module -------------------------------
(***************************************************************************)
(* Module of llvm/module.go: a handle on an LLVM module, on the execution  *)
(* engine that compiled it, and on the addresses of compiled functions.    *)
(*                                                                         *)
(* The LLVM objects live outside Go and are disposed by hand.  An engine   *)
(* owns the module it compiled: disposing the engine disposes both.  LLVM  *)
(* is external; it is modelled by the objects it creates and disposes and  *)
(* by the failures module.go provides for.                                 *)
(***************************************************************************)
EXTENDS Integers, Sequences

CONSTANTS
    Sources,     \* IR texts, and the bitcode marshalled from them
    Names,       \* names of functions
    Defines(_),  \* the names a source defines
    MaxModules   \* bound on the LLVM modules created

ASSUME SourcesAssumption ==
    /\ \A s \in Sources : Defines(s) \subseteq Names
    /\ MaxModules \in Nat

VARIABLES
    mod,      \* Module.mod: an index of modules, 0 for nil
    engine,   \* Module.engine: an index of engines, 0 for nil
    fnaddr,   \* Module.fnaddr: for some names, the engine with the code
    modules,  \* every LLVM module: its source, does it verify, times disposed
    engines,  \* every engine: the module it owns, times disposed
    last      \* what the last method did: name, error, engine whose code ran,
              \* and whether it used a disposed object

modvars == <<mod, engine, fnaddr, modules, engines, last>>

-----------------------------------------------------------------------------
ModuleInit ==
    /\ mod = 0 /\ engine = 0 /\ fnaddr = <<>>
    /\ modules = <<>> /\ engines = <<>>
    /\ last = [name |-> "new", failed |-> FALSE, ran |-> 0, dangling |-> FALSE]

GoneModule(m) == m # 0 /\ modules[m].disposed > 0
GoneEngine(e) == e # 0 /\ engines[e].disposed > 0

Did(name, failed, ran, dangling) ==
    last' = [name |-> name, failed |-> failed, ran |-> ran, dangling |-> dangling]

NewLLVM(s, ok) == [source |-> s, verified |-> ok, disposed |-> 0]
Disposed(object) == [object EXCEPT !.disposed = @ + 1]
CanCreate == Len(modules) < MaxModules

(* LLVMDisposeExecutionEngine.                                             *)
ModulesWithout(e) ==
    [m \in DOMAIN modules |->
        IF m = engines[e].mod THEN Disposed(modules[m]) ELSE modules[m]]
EnginesWithout(e) == [engines EXCEPT ![e] = Disposed(@)]

(* LoadIR: text that does not parse leaves the handle without a module;    *)
(* one that parses but does not verify stays loaded.                       *)
LoadIR ==
    \/ /\ mod' = 0 /\ Did("LoadIR", TRUE, 0, FALSE)
       /\ UNCHANGED <<engine, fnaddr, modules, engines>>
    \/ \E s \in Sources, ok \in BOOLEAN :
          /\ CanCreate
          /\ modules' = Append(modules, NewLLVM(s, ok))
          /\ mod' = Len(modules')
          /\ Did("LoadIR", ~ok, 0, FALSE)
          /\ UNCHANGED <<engine, fnaddr, engines>>

Dispose ==
    /\ IF engine # 0
       THEN modules' = ModulesWithout(engine) /\ engines' = EnginesWithout(engine)
       ELSE UNCHANGED <<modules, engines>>
    /\ Did("Dispose", FALSE, 0, GoneEngine(engine))
    /\ UNCHANGED <<mod, engine, fnaddr>>

(* createJIT, which InitEngine calls only with a module and no engine.     *)
(* LLVM takes the module over at once: if it cannot make an engine, the    *)
(* module is disposed, and m.mod still names it.                           *)
NeedsEngine == mod # 0 /\ engine = 0
CreateJIT ==
    /\ engines' = Append(engines, [mod |-> mod, disposed |-> 0])
    /\ engine' = Len(engines')
    /\ UNCHANGED modules
JITFails ==
    /\ modules' = [modules EXCEPT ![mod] = Disposed(@)]
    /\ UNCHANGED <<engine, engines>>

InitEngine ==
    /\ \/ /\ ~NeedsEngine /\ UNCHANGED <<engine, engines, modules>>
          /\ Did("InitEngine", FALSE, 0, FALSE)
       \/ NeedsEngine /\ CreateJIT /\ Did("InitEngine", FALSE, 0, GoneModule(mod))
       \/ NeedsEngine /\ JITFails /\ Did("InitEngine", TRUE, 0, GoneModule(mod))
    /\ UNCHANGED <<mod, fnaddr>>

(* getFnAddr and the call itself, with the engine that is there by then.   *)
Found(name) == engine' # 0 /\ name \in Defines(modules[engines'[engine'].mod].source)
WithAddr(name, e) ==
    [n \in DOMAIN fnaddr \cup {name} |-> IF n = name THEN e ELSE fnaddr[n]]
Uses(e) == e # 0 /\ (engines'[e].disposed > 0 \/ GoneModule(engines'[e].mod))

RunCachingAll(name) ==  \* slip: a failed lookup is cached like any other
    /\ fnaddr' = IF name \in DOMAIN fnaddr THEN fnaddr
                 ELSE WithAddr(name, IF Found(name) THEN engine' ELSE 0)
    /\ IF name \in DOMAIN fnaddr \/ Found(name)
       THEN Did("Call", FALSE, fnaddr'[name], Uses(fnaddr'[name]))
       ELSE Did("Call", TRUE, 0, Uses(engine'))
Run(name) ==
    \/ /\ name \in DOMAIN fnaddr
       /\ UNCHANGED fnaddr
       /\ Did("Call", FALSE, fnaddr[name], Uses(fnaddr[name]))
    \/ /\ name \notin DOMAIN fnaddr /\ Found(name)
       /\ fnaddr' = WithAddr(name, engine')
       /\ Did("Call", FALSE, engine', Uses(engine'))
    \/ /\ name \notin DOMAIN fnaddr /\ ~Found(name)
       /\ UNCHANGED fnaddr
       /\ Did("Call", TRUE, 0, Uses(engine'))

Call(name) ==
    /\ \/ ~NeedsEngine /\ UNCHANGED <<engine, engines, modules>> /\ Run(name)
       \/ NeedsEngine /\ CreateJIT /\ Run(name)
       \/ NeedsEngine /\ JITFails /\ UNCHANGED fnaddr
            /\ Did("Call", TRUE, 0, GoneModule(mod))
    /\ UNCHANGED mod

(* Marshal and GetIR: they only read the module, or fail without one.      *)
ReadModule ==
    /\ Did("Read", mod = 0, 0, GoneModule(mod))
    /\ UNCHANGED <<mod, engine, fnaddr, modules, engines>>

(* Unmarshal: the old engine goes, then the old module, which went with    *)
(* the engine if there was one.                                            *)
Freed == IF engine # 0 THEN ModulesWithout(engine) ELSE modules
UnmarshalEarly(s) ==  \* slip: the old module is disposed, but not replaced
    /\ CanCreate
    /\ engines' = IF engine # 0 THEN EnginesWithout(engine) ELSE engines
    /\ modules' =
         Append([m \in DOMAIN Freed |-> IF m = mod THEN Disposed(Freed[m]) ELSE Freed[m]],
                NewLLVM(s, TRUE))
    /\ Did("Unmarshal", FALSE, 0, GoneEngine(engine) \/ GoneModule(mod))
    /\ engine' = 0
    /\ UNCHANGED <<mod, fnaddr>>
Replace(s) ==
    /\ CanCreate
    /\ engines' = IF engine # 0 THEN EnginesWithout(engine) ELSE engines
    /\ modules' =
         Append([m \in DOMAIN Freed |-> IF m = mod THEN Disposed(Freed[m]) ELSE Freed[m]],
                NewLLVM(s, TRUE))
    /\ Did("Unmarshal", FALSE, 0, GoneEngine(engine) \/ GoneModule(mod))
    /\ mod' = Len(modules') /\ engine' = 0
    /\ UNCHANGED fnaddr

Unmarshal ==
    \/ /\ Did("Unmarshal", TRUE, 0, FALSE)
       /\ UNCHANGED <<mod, engine, fnaddr, modules, engines>>
    \/ \E s \in Sources : Replace(s)

ModuleNext ==
    \/ LoadIR \/ Dispose \/ InitEngine \/ ReadModule \/ Unmarshal
    \/ \E name \in Names : Call(name)

-----------------------------------------------------------------------------
(* The usage README.md shows: modules are loaded, stored and restored      *)
(* first, then called; Dispose comes last; a LoadIR that failed is not     *)
(* followed by calls, and an engine that could not be made only by a       *)
(* LoadIR or Dispose.                                                      *)
Usable == mod # 0 => modules[mod].verified
EngineFailed ==
    mod # 0 /\ engine = 0 /\ last.failed /\ last.name \in {"InitEngine", "Call"}
Orderly ==
    /\ last.name # "Dispose"
    /\ EngineFailed => last'.name \in {"LoadIR", "Dispose"}
    /\ last'.name = "LoadIR" => engine = 0
    /\ last'.name \in {"InitEngine", "Call"} => Usable
Careful == Orderly /\ (last'.name = "Unmarshal" => engine = 0)

CarefulSpec == ModuleInit /\ [][ModuleNext /\ Careful]_modvars

(* The same, but a module that has been called may be replaced.            *)
OrderlySpec == ModuleInit /\ [][ModuleNext /\ Orderly]_modvars

(* A call that succeeds runs the code of the module that was loaded or     *)
(* unmarshalled last, whatever calls were made, and failed, before.        *)
CallRunsLoaded ==
    (last.name = "Call" /\ ~last.failed) =>
        last.ran # 0 /\ engines[last.ran].mod = mod

(* No method uses an LLVM object that was disposed, and none is disposed   *)
(* twice.                                                                  *)
ObjectsAlive ==
    /\ ~last.dangling
    /\ \A m \in DOMAIN modules : modules[m].disposed <= 1
    /\ \A e \in DOMAIN engines : engines[e].disposed <= 1
=============================================================================
