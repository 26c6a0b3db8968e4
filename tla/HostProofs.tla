----------------------------- MODULE HostProofs -----------------------------
(***************************************************************************)
(* What a program that uses modules carefully may rely on, first of        *)
(* Module, whose methods run one after the other, then of TemplateCache.   *)
(* Both hold in a host where the methods are taken apart: Host implements  *)
(* CarefulSpec, for any number of goroutines, contexts, modules, names and *)
(* templates.                                                              *)
(***************************************************************************)
EXTENDS Host, TLAPS

-----------------------------------------------------------------------------
(* Module, for every set of sources and names, and whatever the number of  *)
(* modules.                                                                *)

LLVMModule == [source : Sources, verified : BOOLEAN, disposed : Nat]
Engine     == [mod : Nat, disposed : Nat]

Types ==
    /\ modules \in Seq(LLVMModule) /\ engines \in Seq(Engine)
    /\ mod \in 0 .. Len(modules) /\ engine \in 0 .. Len(engines)

(* The strengthening.  The engine, if there is one, is the engine of the   *)
(* loaded module; every cached address is in that engine; and until        *)
(* Dispose neither any engine nor, unless createJIT has failed on it, the  *)
(* loaded module has been disposed.                                        *)
(* CallRunsLoaded is not inductive alone: a cached address must also name  *)
(* the engine that Call finds, and that engine the module.                 *)
EngineOfModule == engine # 0 => mod # 0 /\ engines[engine].mod = mod
AddressesCurrent == \A n \in DOMAIN fnaddr : engine # 0 /\ fnaddr[n] = engine
NothingLost ==
    last.name # "Dispose" =>
        /\ \A e \in DOMAIN engines : engines[e].disposed = 0
        /\ mod # 0 /\ ~EngineFailed => modules[mod].disposed = 0
Once ==
    /\ \A m \in DOMAIN modules : modules[m].disposed <= 1
    /\ \A e \in DOMAIN engines : engines[e].disposed <= 1

State == Types /\ EngineOfModule /\ AddressesCurrent /\ NothingLost /\ Once
IndInv == State /\ CallRunsLoaded /\ ~last.dangling

-----------------------------------------------------------------------------
(* A new handle, which names no LLVM object, satisfies it.                 *)
THEOREM InitOK == ModuleInit => IndInv
<1> SUFFICES ASSUME ModuleInit PROVE IndInv
  OBVIOUS
<1>1. /\ <<>> \in Seq(LLVMModule) /\ <<>> \in Seq(Engine)
      /\ Len(<<>>) = 0 /\ DOMAIN <<>> = {}
  OBVIOUS
<1> QED
  BY <1>1 DEF ModuleInit, IndInv, State, Types, EngineOfModule, AddressesCurrent,
              NothingLost, Once, CallRunsLoaded

(* Before Dispose nothing the handle names has been disposed, but for a    *)
(* module that createJIT has failed on.                                    *)
LEMMA Fresh ==
  ASSUME State, last.name # "Dispose"
  PROVE  ~GoneEngine(engine) /\ (~EngineFailed => ~GoneModule(mod))
BY DEF State, NothingLost, Types, GoneModule, GoneEngine

LEMMA LoadIROK ==
  ASSUME IndInv, LoadIR, Careful
  PROVE  IndInv'
<1>1. /\ State /\ last.name # "Dispose" /\ last'.name = "LoadIR" /\ engine = 0
  BY DEF IndInv, LoadIR, Careful, Orderly, Did
<1>2. AddressesCurrent' /\ EngineOfModule' /\ DOMAIN fnaddr = {}
  BY <1>1 DEF LoadIR, State, AddressesCurrent, EngineOfModule
<1>3. ~last'.dangling /\ CallRunsLoaded'
  BY <1>1 DEF LoadIR, Did, CallRunsLoaded
<1>4. CASE mod' = 0 /\ UNCHANGED <<engine, fnaddr, modules, engines>>
  BY <1>1, <1>2, <1>3, <1>4
     DEF IndInv, State, Types, NothingLost, Once
<1>5. ASSUME NEW s \in Sources, NEW ok \in BOOLEAN,
             modules' = Append(modules, NewLLVM(s, ok)),
             mod' = Len(modules'), UNCHANGED <<engine, fnaddr, engines>>
      PROVE  IndInv'
  <2>1. /\ NewLLVM(s, ok) \in LLVMModule /\ NewLLVM(s, ok).disposed = 0
    BY DEF NewLLVM, LLVMModule
  <2>2. /\ modules' \in Seq(LLVMModule) /\ Len(modules') = Len(modules) + 1
        /\ modules'[Len(modules')].disposed = 0
        /\ \A m \in 1 .. Len(modules) : modules'[m] = modules[m]
    BY <1>1, <1>5, <2>1 DEF State, Types
  <2>3. Types' /\ NothingLost' /\ Once'
    BY <1>1, <1>5, <2>2 DEF State, Types, NothingLost, Once
  <2> QED  BY <1>2, <1>3, <2>3 DEF IndInv, State
<1> QED  BY <1>4, <1>5 DEF LoadIR

(* Disposing an object counts once and changes nothing else.               *)
LEMMA DisposedModule ==
  ASSUME NEW r \in LLVMModule
  PROVE  Disposed(r) \in LLVMModule /\ Disposed(r).disposed = r.disposed + 1
<1> DEFINE n == r.disposed + 1
<1>1. n \in Nat
  BY DEF LLVMModule
<1> HIDE DEF n
<1>2. [r EXCEPT !.disposed = n] \in LLVMModule
      /\ [r EXCEPT !.disposed = n].disposed = n
  BY <1>1 DEF LLVMModule
<1>3. Disposed(r) = [r EXCEPT !.disposed = n]
  BY DEF Disposed, n
<1> QED  BY <1>2, <1>3 DEF n

LEMMA DisposedEngine ==
  ASSUME NEW r \in Engine
  PROVE  /\ Disposed(r) \in Engine /\ Disposed(r).disposed = r.disposed + 1
         /\ Disposed(r).mod = r.mod
<1> DEFINE n == r.disposed + 1
<1>1. n \in Nat
  BY DEF Engine
<1> HIDE DEF n
<1>2. /\ [r EXCEPT !.disposed = n] \in Engine
      /\ [r EXCEPT !.disposed = n].disposed = n
      /\ [r EXCEPT !.disposed = n].mod = r.mod
  BY <1>1 DEF Engine
<1>3. Disposed(r) = [r EXCEPT !.disposed = n]
  BY DEF Disposed, n
<1> QED  BY <1>2, <1>3 DEF n

(* LLVMDisposeExecutionEngine on an engine that is alive.                  *)
LEMMA WithoutOK ==
  ASSUME State, last.name # "Dispose", engine # 0
  PROVE  /\ ModulesWithout(engine) \in Seq(LLVMModule)
         /\ Len(ModulesWithout(engine)) = Len(modules)
         /\ EnginesWithout(engine) \in Seq(Engine)
         /\ Len(EnginesWithout(engine)) = Len(engines)
         /\ \A m \in DOMAIN modules : ModulesWithout(engine)[m].disposed <= 1
         /\ \A e \in DOMAIN engines :
               /\ EnginesWithout(engine)[e].disposed <= 1
               /\ EnginesWithout(engine)[e].mod = engines[e].mod
<1>1. /\ modules \in Seq(LLVMModule) /\ engines \in Seq(Engine)
      /\ engine \in DOMAIN engines /\ engines[engine].mod = mod /\ mod # 0
      /\ mod \in DOMAIN modules /\ modules[mod].disposed = 0
      /\ engines[engine].disposed = 0
  BY DEF State, Types, EngineOfModule, NothingLost, EngineFailed
<1>2. ASSUME NEW m \in DOMAIN modules
      PROVE  /\ ModulesWithout(engine)[m] \in LLVMModule
             /\ ModulesWithout(engine)[m].disposed <= 1
  <2>1. modules[m] \in LLVMModule /\ modules[m].disposed <= 1
    BY <1>1, <1>2 DEF State, Once
  <2>2. CASE m = mod
    BY <2>1, <2>2, <1>1, DisposedModule DEF ModulesWithout
  <2>3. CASE m # mod
    BY <2>1, <2>3, <1>1 DEF ModulesWithout
  <2> QED  BY <2>2, <2>3
<1>3. DOMAIN modules = 1 .. Len(modules) /\ Len(modules) \in Nat
  BY <1>1
<1>4. ModulesWithout(engine) \in [1 .. Len(modules) -> LLVMModule]
  BY <1>2, <1>3 DEF ModulesWithout
<1>5. ModulesWithout(engine) \in Seq(LLVMModule) /\ Len(ModulesWithout(engine)) = Len(modules)
  BY <1>3, <1>4
<1>6. Disposed(engines[engine]) \in Engine
  BY <1>1, DisposedEngine
<1>7. EnginesWithout(engine) \in Seq(Engine) /\ Len(EnginesWithout(engine)) = Len(engines)
  BY <1>1, <1>6 DEF EnginesWithout
<1>8. ASSUME NEW e \in DOMAIN engines
      PROVE  /\ EnginesWithout(engine)[e].disposed <= 1
             /\ EnginesWithout(engine)[e].mod = engines[e].mod
  <2>1. engines[e] \in Engine /\ engines[e].disposed <= 1
    BY <1>1, <1>8 DEF State, Once
  <2> QED  BY <2>1, <1>1, <1>8, DisposedEngine DEF EnginesWithout
<1> QED  BY <1>2, <1>5, <1>7, <1>8

LEMMA DisposeOK ==
  ASSUME IndInv, Dispose, Careful
  PROVE  IndInv'
<1>1. /\ State /\ last.name # "Dispose" /\ last'.name = "Dispose"
      /\ ~GoneEngine(engine)
  BY Fresh DEF IndInv, Dispose, Careful, Orderly, Did
<1>2. ~last'.dangling /\ CallRunsLoaded' /\ NothingLost'
  BY <1>1 DEF Dispose, Did, CallRunsLoaded, NothingLost, GoneEngine
<1>3. UNCHANGED <<mod, engine, fnaddr>>
  BY DEF Dispose
<1>4. CASE engine # 0
  <2>1. modules' = ModulesWithout(engine) /\ engines' = EnginesWithout(engine)
    BY <1>4 DEF Dispose
  <2>2. Types' /\ Once' /\ EngineOfModule' /\ AddressesCurrent'
    BY <2>1, <1>1, <1>3, <1>4, WithoutOK
       DEF State, Types, Once, EngineOfModule, AddressesCurrent
  <2> QED  BY <2>2, <1>2 DEF IndInv, State
<1>5. CASE engine = 0
  BY <1>1, <1>2, <1>3, <1>5
     DEF Dispose, IndInv, State, Types, Once, EngineOfModule, AddressesCurrent
<1> QED  BY <1>4, <1>5 DEF State, Types

LEMMA ReadModuleOK ==
  ASSUME IndInv, ReadModule, Careful
  PROVE  IndInv'
BY Fresh DEF IndInv, ReadModule, Careful, Orderly, Did, State, Types, Once, EngineOfModule,
             AddressesCurrent, NothingLost, CallRunsLoaded

(* createJIT on a loaded module without an engine.                         *)
LEMMA CreateJITOK ==
  ASSUME State, last.name # "Dispose", NeedsEngine, CreateJIT, ~EngineFailed,
         UNCHANGED mod
  PROVE  /\ Types' /\ EngineOfModule' /\ Once' /\ engine' # 0
         /\ DOMAIN fnaddr = {}
         /\ \A e \in DOMAIN engines' : engines'[e].disposed = 0
         /\ mod # 0 /\ modules'[mod].disposed = 0
<1> DEFINE new == [mod |-> mod, disposed |-> 0]
<1>1. new \in Engine /\ new.disposed = 0 /\ new.mod = mod
  BY DEF State, Types, Engine
<1>2. engines' = Append(engines, new) /\ engine' = Len(engines')
  BY DEF CreateJIT
<1> HIDE DEF new
<1>3. /\ engines' \in Seq(Engine) /\ Len(engines') = Len(engines) + 1
      /\ engines'[engine'] = new
      /\ \A e \in 1 .. Len(engines) : engines'[e] = engines[e]
  BY <1>1, <1>2 DEF State, Types
<1>4. Types'
  BY <1>2, <1>3 DEF State, Types, CreateJIT
<1>5. EngineOfModule' /\ engine' # 0 /\ mod # 0
  BY <1>1, <1>2, <1>3 DEF State, Types, EngineOfModule, NeedsEngine
<1>6. \A e \in DOMAIN engines' : engines'[e].disposed = 0
  BY <1>1, <1>2, <1>3 DEF State, Types, NothingLost
<1>7. Once' /\ modules'[mod].disposed = 0
  BY <1>5, <1>6 DEF State, Once, NothingLost, CreateJIT
<1>8. DOMAIN fnaddr = {}
  BY DEF State, AddressesCurrent, NeedsEngine
<1> QED  BY <1>4, <1>5, <1>6, <1>7, <1>8

(* createJIT fails: the module is lost, but there is no engine, and no     *)
(* address, that would need it.                                            *)
LEMMA JITFailsOK ==
  ASSUME State, last.name # "Dispose", NeedsEngine, JITFails, ~EngineFailed,
         UNCHANGED <<mod, fnaddr>>, last'.failed, last'.name \in {"InitEngine", "Call"}
  PROVE  State'
<1>1. /\ modules \in Seq(LLVMModule) /\ mod \in DOMAIN modules
      /\ modules[mod] \in LLVMModule /\ modules[mod].disposed = 0
  BY DEF State, Types, NothingLost, NeedsEngine
<1>2. Disposed(modules[mod]) \in LLVMModule /\ Disposed(modules[mod]).disposed = 1
  BY <1>1, DisposedModule
<1>3. modules' = [modules EXCEPT ![mod] = Disposed(modules[mod])]
  BY DEF JITFails
<1>4. /\ modules' \in Seq(LLVMModule) /\ Len(modules') = Len(modules)
      /\ DOMAIN modules' = DOMAIN modules /\ modules'[mod].disposed = 1
      /\ \A m \in DOMAIN modules : m # mod => modules'[m] = modules[m]
  BY <1>1, <1>2, <1>3
<1>5. engine = 0 /\ UNCHANGED <<engine, engines>>
  BY DEF NeedsEngine, JITFails
<1>6. Types' /\ Once'
  BY <1>4, <1>5 DEF State, Types, Once
<1>7. EngineOfModule' /\ AddressesCurrent' /\ NothingLost'
  BY <1>5 DEF State, EngineOfModule, AddressesCurrent, NothingLost, NeedsEngine, EngineFailed
<1> QED  BY <1>6, <1>7 DEF State

LEMMA InitEngineOK ==
  ASSUME IndInv, InitEngine, Careful
  PROVE  IndInv'
<1>1. State /\ last.name # "Dispose" /\ UNCHANGED <<mod, fnaddr>>
  BY DEF IndInv, InitEngine, Careful, Orderly
<1>2. last'.name = "InitEngine" /\ ~EngineFailed
  BY DEF InitEngine, Did, Careful, Orderly
<1>3. ~last'.dangling /\ CallRunsLoaded'
  BY <1>1, <1>2, Fresh DEF InitEngine, Did, CallRunsLoaded
<1>4. CASE NeedsEngine /\ CreateJIT
  BY <1>1, <1>2, <1>3, <1>4, CreateJITOK DEF IndInv, State, AddressesCurrent, NothingLost
<1>5. CASE NeedsEngine /\ JITFails /\ last'.failed
  BY <1>1, <1>2, <1>3, <1>5, JITFailsOK DEF IndInv
<1>6. CASE UNCHANGED <<engine, engines, modules>>
  BY <1>1, <1>2, <1>3, <1>6
     DEF IndInv, State, Types, Once, EngineOfModule, AddressesCurrent, NothingLost
<1> QED  BY <1>4, <1>5, <1>6 DEF InitEngine, Did

(* The part of Call behind InitEngine, in a state that is in order but for *)
(* last, which it sets.                                                    *)
LEMMA RunOK ==
  ASSUME NEW name \in Names, Run(name), UNCHANGED <<mod, modules>>,
         Types', EngineOfModule', Once',
         \A n \in DOMAIN fnaddr : engine' # 0 /\ fnaddr[n] = engine',
         \A e \in DOMAIN engines' : engines'[e].disposed = 0,
         mod # 0 => modules[mod].disposed = 0
  PROVE  IndInv'
<1>1. engine' # 0 => ~Uses(engine') /\ engines'[engine'].mod = mod
  BY DEF Uses, GoneModule, Types, EngineOfModule
<1>2. NothingLost'
  BY DEF NothingLost
<1>3. CASE name \in DOMAIN fnaddr
  BY <1>1, <1>2, <1>3 DEF Run, Did, IndInv, State, AddressesCurrent, CallRunsLoaded
<1>4. CASE name \notin DOMAIN fnaddr /\ Found(name)
  <2>1. engine' # 0 /\ fnaddr' = WithAddr(name, engine')
    BY <1>4 DEF Run, Found
  <2>2. AddressesCurrent'
    BY <2>1 DEF AddressesCurrent, WithAddr
  <2> QED  BY <2>1, <2>2, <1>1, <1>2, <1>4 DEF Run, Did, IndInv, State, CallRunsLoaded
<1>5. CASE name \notin DOMAIN fnaddr /\ ~Found(name)
  <2>1. ~Uses(engine')
    BY <1>1 DEF Uses
  <2> QED  BY <2>1, <1>2, <1>5 DEF Run, Did, IndInv, State, AddressesCurrent, CallRunsLoaded
<1> QED  BY <1>3, <1>4, <1>5

LEMMA CallOK ==
  ASSUME IndInv, NEW name \in Names, Call(name), Careful
  PROVE  IndInv'
<1>1. State /\ last.name # "Dispose" /\ UNCHANGED mod
  BY DEF IndInv, Call, Careful, Orderly
<1>2. last'.name = "Call" /\ ~EngineFailed
  BY DEF Call, Run, Did, Careful, Orderly
<1>3. ~GoneModule(mod) /\ (mod # 0 => modules[mod].disposed = 0)
  BY <1>1, <1>2, Fresh DEF State, NothingLost
<1>4. CASE UNCHANGED <<engine, engines, modules>> /\ Run(name)
  <2>1. Types' /\ EngineOfModule' /\ Once'
    BY <1>1, <1>4 DEF State, Types, EngineOfModule, Once
  <2>2. /\ \A n \in DOMAIN fnaddr : engine' # 0 /\ fnaddr[n] = engine'
        /\ \A e \in DOMAIN engines' : engines'[e].disposed = 0
    BY <1>1, <1>4 DEF State, AddressesCurrent, NothingLost
  <2> QED  BY <2>1, <2>2, <1>1, <1>3, <1>4, RunOK
<1>5. CASE NeedsEngine /\ CreateJIT /\ Run(name)
  <2>1. UNCHANGED modules
    BY <1>5 DEF CreateJIT
  <2>2. /\ Types' /\ EngineOfModule' /\ Once' /\ DOMAIN fnaddr = {}
        /\ \A e \in DOMAIN engines' : engines'[e].disposed = 0
    BY <1>1, <1>2, <1>5, <2>1, CreateJITOK
  <2> QED  BY <2>1, <2>2, <1>1, <1>3, <1>5, RunOK
<1>6. CASE /\ NeedsEngine /\ JITFails /\ UNCHANGED fnaddr
           /\ Did("Call", TRUE, 0, GoneModule(mod))
  <2>1. State'
    BY <1>1, <1>2, <1>6, JITFailsOK DEF Did
  <2> QED  BY <2>1, <1>3, <1>6 DEF Did, IndInv, CallRunsLoaded
<1> QED  BY <1>4, <1>5, <1>6 DEF Call

(* Unmarshal replaces a module that has no engine yet.                     *)
LEMMA ReplaceOK ==
  ASSUME IndInv, NEW s \in Sources, Replace(s), Careful
  PROVE  IndInv'
<1>1. /\ State /\ last.name # "Dispose" /\ engine = 0 /\ ~EngineFailed
      /\ last'.name = "Unmarshal"
  BY DEF IndInv, Replace, Careful, Orderly, Did
<1>2. /\ last' = [name |-> "Unmarshal", failed |-> FALSE, ran |-> 0, dangling |-> FALSE]
  BY <1>1, Fresh DEF Replace, Did, GoneEngine
<1> DEFINE old == [m \in DOMAIN modules |->
                     IF m = mod THEN Disposed(modules[m]) ELSE modules[m]]
           new == NewLLVM(s, TRUE)
<1>3. /\ modules' = Append(old, new) /\ mod' = Len(modules')
      /\ UNCHANGED <<engine, engines, fnaddr>>
  BY <1>1 DEF Replace, Freed
<1>4. modules \in Seq(LLVMModule) /\ DOMAIN modules = 1 .. Len(modules)
  BY <1>1 DEF State, Types
<1>5. \A m \in DOMAIN modules : old[m] \in LLVMModule /\ old[m].disposed <= 1
  <2> SUFFICES ASSUME NEW m \in DOMAIN modules
               PROVE  old[m] \in LLVMModule /\ old[m].disposed <= 1
    OBVIOUS
  <2>1. modules[m] \in LLVMModule /\ modules[m].disposed <= 1
    BY <1>1, <1>4 DEF State, Once
  <2>2. CASE m = mod
    <3>1. modules[m].disposed = 0
      BY <1>1, <1>4, <2>2 DEF State, NothingLost
    <3> QED  BY <2>1, <2>2, <3>1, DisposedModule
  <2>3. CASE m # mod
    BY <2>1, <2>3
  <2> QED  BY <2>2, <2>3
<1>6. old \in Seq(LLVMModule) /\ Len(old) = Len(modules)
  <2>1. old \in [1 .. Len(modules) -> LLVMModule]
    BY <1>4, <1>5
  <2> QED  BY <2>1, <1>4
<1>7. new \in LLVMModule /\ new.disposed = 0
  BY DEF NewLLVM, LLVMModule
<1> HIDE DEF old, new
<1>8. /\ modules' \in Seq(LLVMModule) /\ Len(modules') = Len(modules) + 1
      /\ modules'[Len(modules')] = new
      /\ \A m \in 1 .. Len(modules) : modules'[m] = old[m]
  BY <1>3, <1>6, <1>7
<1>9. Types' /\ Once' /\ NothingLost'
  BY <1>1, <1>3, <1>4, <1>5, <1>7, <1>8 DEF State, Types, Once, NothingLost
<1>10. EngineOfModule' /\ AddressesCurrent' /\ CallRunsLoaded' /\ ~last'.dangling
  BY <1>1, <1>2, <1>3 DEF State, EngineOfModule, AddressesCurrent, CallRunsLoaded
<1> QED  BY <1>9, <1>10 DEF IndInv, State

LEMMA UnmarshalOK ==
  ASSUME IndInv, Unmarshal, Careful
  PROVE  IndInv'
<1>1. CASE Did("Unmarshal", TRUE, 0, FALSE)
             /\ UNCHANGED <<mod, engine, fnaddr, modules, engines>>
  BY <1>1 DEF IndInv, Careful, Orderly, Did, State, Types, Once, EngineOfModule,
              AddressesCurrent, NothingLost, CallRunsLoaded
<1>2. CASE \E s \in Sources : Replace(s)
  BY <1>2, ReplaceOK
<1> QED  BY <1>1, <1>2 DEF Unmarshal

-----------------------------------------------------------------------------
(* Used in the order README.md shows, whatever fails in between, a handle  *)
(* keeps its engine, its cached addresses and its LLVM objects in step.    *)
THEOREM Inductive == CarefulSpec => []IndInv
<1>1. IndInv /\ [ModuleNext /\ Careful]_modvars => IndInv'
  <2> SUFFICES ASSUME IndInv, [ModuleNext /\ Careful]_modvars PROVE IndInv'
    OBVIOUS
  <2>1. CASE LoadIR /\ Careful
    BY <2>1, LoadIROK
  <2>2. CASE Dispose /\ Careful
    BY <2>2, DisposeOK
  <2>3. CASE InitEngine /\ Careful
    BY <2>3, InitEngineOK
  <2>4. CASE ReadModule /\ Careful
    BY <2>4, ReadModuleOK
  <2>5. CASE Unmarshal /\ Careful
    BY <2>5, UnmarshalOK
  <2>6. ASSUME NEW name \in Names, Call(name), Careful PROVE IndInv'
    BY <2>6, CallOK
  <2>7. CASE UNCHANGED modvars
    BY <2>7 DEF modvars, IndInv, State, Types, Once, EngineOfModule, AddressesCurrent,
                NothingLost, EngineFailed, CallRunsLoaded
  <2> QED  BY <2>1, <2>2, <2>3, <2>4, <2>5, <2>6, <2>7 DEF ModuleNext
<1> QED  BY InitOK, <1>1, PTL DEF CarefulSpec

(* Whatever is loaded, looked up, marshalled or fails before, a call that  *)
(* succeeds runs the loaded module.                                        *)
THEOREM CallsRunLoaded == CarefulSpec => []CallRunsLoaded
<1>1. IndInv => CallRunsLoaded
  BY DEF IndInv
<1> QED  BY Inductive, <1>1, PTL

(* No LLVM object is used after it was disposed, or disposed twice.        *)
THEOREM ObjectsStayAlive == CarefulSpec => []ObjectsAlive
<1>1. IndInv => ObjectsAlive
  BY DEF IndInv, State, Once, ObjectsAlive
<1> QED  BY Inductive, <1>1, PTL

-----------------------------------------------------------------------------
(* The lock of TemplateCache does what it is for, with any number of       *)
(* goroutines and of template files.                                       *)

Steps == {"idle", "call", "check", "hit", "miss", "parse", "lock", "wait", "store", "unlock"}

(* MapSafe is not inductive: it takes the lock's own bookkeeping, who      *)
(* holds it in which way, and that a writer has waited for all readers.    *)
StepsOK == step \in [Goroutines -> Steps]
ReadersHold == \A g \in Goroutines : step[g] \in {"check", "hit", "miss"} => g \in readers
WriterHolds == \A g \in Goroutines : step[g] \in {"wait", "store", "unlock"} => writer = {g}
Exclusive == \A g \in Goroutines : step[g] \in {"store", "unlock"} => readers = {}
LockInv == StepsOK /\ ReadersHold /\ WriterHolds /\ Exclusive

(* The lock is free at first.                                              *)
LEMMA LockInit == CacheInit => LockInv
BY DEF CacheInit, LockInv, StepsOK, ReadersHold, WriterHolds, Exclusive, Steps

(* A call begins: the lock is not touched.                                 *)
LEMMA CallKeeps == ASSUME LockInv, NEW g \in Goroutines, NEW f \in Files, GetTemplate(g, f)
                   PROVE  LockInv'
BY DEF LockInv, StepsOK, ReadersHold, WriterHolds, Exclusive, Steps, GetTemplate, At, Goto

(* The steps that hold the lock for reading; when it is taken, no writer   *)
(* has it or waits for it.                                                 *)
LEMMA ReadingKeeps ==
    ASSUME LockInv, NEW g \in Goroutines, RLock(g) \/ Check(g) \/ Hit(g) \/ Miss(g)
    PROVE  LockInv'
<1>1. CASE RLock(g)
  BY <1>1 DEF LockInv, StepsOK, ReadersHold, WriterHolds, Exclusive, Steps, RLock, At, Goto
<1>2. CASE Check(g)
  BY <1>2 DEF LockInv, StepsOK, ReadersHold, WriterHolds, Exclusive, Steps, Check, At, Goto
<1>3. CASE Hit(g)
  BY <1>3 DEF LockInv, StepsOK, ReadersHold, WriterHolds, Exclusive, Steps, Hit, At, Goto
<1>4. CASE Miss(g)
  BY <1>4 DEF LockInv, StepsOK, ReadersHold, WriterHolds, Exclusive, Steps, Miss, At, Goto
<1>5. QED
  BY <1>1, <1>2, <1>3, <1>4

(* The steps around the lock for writing: one goroutine announces itself,  *)
(* and it goes on when the readers have left.                              *)
LEMMA WritingKeeps ==
    ASSUME LockInv, NEW g \in Goroutines,
           Parse(g) \/ Announce(g) \/ Lock(g) \/ Store(g) \/ Unlock(g)
    PROVE  LockInv'
<1>1. CASE Parse(g)
  BY <1>1 DEF LockInv, StepsOK, ReadersHold, WriterHolds, Exclusive, Steps, Parse, At, Goto
<1>2. CASE Announce(g)
  BY <1>2 DEF LockInv, StepsOK, ReadersHold, WriterHolds, Exclusive, Steps, Announce, At, Goto
<1>3. CASE Lock(g)
  BY <1>3 DEF LockInv, StepsOK, ReadersHold, WriterHolds, Exclusive, Steps, Lock, At, Goto
<1>4. CASE Store(g)
  BY <1>4 DEF LockInv, StepsOK, ReadersHold, WriterHolds, Exclusive, Steps, Store, At, Goto
<1>5. CASE Unlock(g)
  BY <1>5 DEF LockInv, StepsOK, ReadersHold, WriterHolds, Exclusive, Steps, Unlock, At, Goto
<1>6. QED
  BY <1>1, <1>2, <1>3, <1>4, <1>5

(* Every step keeps the invariant.                                         *)
LEMMA LockStep == LockInv /\ [CacheNext]_cachevars => LockInv'
<1>1. SUFFICES ASSUME LockInv, [CacheNext]_cachevars
               PROVE  LockInv'
  OBVIOUS
<1>2. CASE UNCHANGED cachevars
  BY <1>1, <1>2 DEF cachevars, LockInv, StepsOK, ReadersHold, WriterHolds, Exclusive
<1>3. CASE CacheNext
  <2>1. PICK g \in Goroutines : Proceed(g) \/ \E f \in Files : GetTemplate(g, f)
    BY <1>3 DEF CacheNext
  <2>2. CASE Proceed(g)
    BY <1>1, <2>2, ReadingKeeps, WritingKeeps DEF Proceed
  <2>3. CASE \E f \in Files : GetTemplate(g, f)
    BY <1>1, <2>3, CallKeeps
  <2>4. QED
    BY <2>1, <2>2, <2>3
<1>4. QED
  BY <1>1, <1>2, <1>3

(* A goroutine that stores holds the lock alone: no other one reads, as    *)
(* there are no readers, and no other one stores, as there is one writer.  *)
LEMMA LockSafe == LockInv => MapSafe
<1>1. SUFFICES ASSUME LockInv, NEW g \in Goroutines, NEW h \in Goroutines, g # h,
                      step[g] = "store"
               PROVE  step[h] \notin {"check", "store"}
  BY DEF MapSafe, Writes, Touches
<1>2. step[h] # "check"
  BY <1>1 DEF LockInv, ReadersHold, Exclusive
<1>3. step[h] # "store"
  <2>1. writer = {g}
    BY <1>1 DEF LockInv, WriterHolds
  <2>2. QED
    BY <1>1, <2>1 DEF LockInv, WriterHolds
<1>4. QED
  BY <1>2, <1>3

(* However many goroutines render functions from however many templates,   *)
(* and however many of them miss the same one at once: the map is not      *)
(* written while another goroutine reads or writes it.                     *)
THEOREM TheMapIsSafe == CacheSpec => []MapSafe
<1>1. QED
  BY LockInit, LockStep, LockSafe, PTL DEF CacheSpec

-----------------------------------------------------------------------------
(* Module.Call, taken apart.                                               *)

Places == {"no", "engine", "lookup", "store"}
Entry == [in : Places, ctx : Int, name : Names \cup {""}]

(* A goroutine that is inside Module.Call is there while the module serves *)
(* and is ready, and past the first step there is an engine.               *)
EntriesOK == entering \in [Goroutines -> Entry]
EnteredOK ==
    \A g \in Goroutines : entering[g].in # "no" =>
        mode = "serve" /\ Ready /\ entering[g].name \in Names
EngineOK == \A g \in Goroutines : entering[g].in \in {"lookup", "store"} => engine # 0

(* Two goroutines are in Module.Call only for names that have an address;  *)
(* one that is about to write the map is there for a name that has none.   *)
WarmTogether ==
    \A g, h \in Goroutines :
        (g # h /\ entering[g].in # "no" /\ entering[h].in # "no") => ~Cold(entering[g].name)
StoresCold == \A g \in Goroutines : entering[g].in = "store" => Cold(entering[g].name)

HostInv == EntriesOK /\ EnteredOK /\ EngineOK /\ WarmTogether /\ StoresCold

(* A step of the host as the module sees it.                               *)
CarefulStep == (ModuleNext /\ Careful) \/ UNCHANGED modvars

-----------------------------------------------------------------------------
LEMMA NotEnteringOK == NotEntering \in Entry /\ NotEntering.in = "no"
BY DEF NotEntering, Entry, Places

(* At first no goroutine is inside Module.Call.                            *)
LEMMA HostInitOK == HostInit => HostInv
<1> SUFFICES ASSUME HostInit PROVE HostInv
  OBVIOUS
<1>1. EntriesOK /\ (\A g \in Goroutines : entering[g].in = "no") /\ mode # "serve"
  BY NotEnteringOK DEF HostInit, EntriesOK
<1> QED
  BY <1>1 DEF HostInv, EnteredOK, EngineOK, WarmTogether, StoresCold

(* Steps that leave the module and the goroutines inside it alone.         *)
LEMMA OutsideKeeps ==
    ASSUME HostInv, UNCHANGED <<modvars, entering>>, UNCHANGED mode
    PROVE  HostInv'
BY DEF HostInv, EntriesOK, EnteredOK, EngineOK, WarmTogether, StoresCold, Cold,
       Ready, Usable, EngineFailed, modvars

(* No goroutine is inside Module.Call.                                     *)
LEMMA NoneInside ==
    ASSUME EntriesOK', \A g \in Goroutines : entering'[g].in = "no"
    PROVE  HostInv'
BY DEF HostInv, EnteredOK, EngineOK, WarmTogether, StoresCold

(* Leave and MoveTo change one entry.                                      *)
LEMMA LeaveOK ==
    ASSUME EntriesOK, NEW g \in Goroutines, Leave(g)
    PROVE  /\ EntriesOK' /\ entering'[g].in = "no"
           /\ \A h \in Goroutines \ {g} : entering'[h] = entering[h]
BY NotEnteringOK DEF EntriesOK, Leave

LEMMA MoveToOK ==
    ASSUME EntriesOK, NEW g \in Goroutines, NEW s \in Places, MoveTo(g, s)
    PROVE  /\ EntriesOK' /\ entering'[g].in = s
           /\ entering'[g].name = entering[g].name /\ entering'[g].ctx = entering[g].ctx
           /\ \A h \in Goroutines \ {g} : entering'[h] = entering[h]
<1>1. entering[g] \in Entry /\ entering' = [entering EXCEPT ![g].in = s]
  BY DEF EntriesOK, MoveTo
<1>2. [entering[g] EXCEPT !.in = s] \in Entry
  BY <1>1 DEF Entry
<1>3. entering' = [entering EXCEPT ![g] = [entering[g] EXCEPT !.in = s]]
  BY <1>1
<1>4. QED
  BY <1>1, <1>2, <1>3 DEF EntriesOK, Entry

-----------------------------------------------------------------------------
(* A module is set up by one goroutine: none is inside Module.Call.        *)
LEMMA SetupOK ==
    ASSUME HostInv, Setup
    PROVE  HostInv' /\ CarefulStep
<1>1. mode = "setup" /\ UNCHANGED <<mode, entering>> /\ ModuleNext /\ Careful
  BY DEF Setup
<1>2. \A g \in Goroutines : entering'[g].in = "no"
  BY <1>1 DEF HostInv, EnteredOK
<1>3. EntriesOK'
  BY <1>1 DEF HostInv, EntriesOK
<1> QED  BY <1>1, <1>2, <1>3, NoneInside DEF CarefulStep

(* The change of mode.                                                     *)
LEMMA ServeOK ==
    ASSUME HostInv, Serve \/ Rendered
    PROVE  HostInv' /\ CarefulStep
<1>1. mode # "serve" /\ UNCHANGED <<modvars, entering>>
  BY DEF Serve, Rendered
<1>2. \A g \in Goroutines : entering'[g].in = "no"
  BY <1>1 DEF HostInv, EnteredOK
<1>3. EntriesOK'
  BY <1>1 DEF HostInv, EntriesOK
<1> QED  BY <1>1, <1>2, <1>3, NoneInside DEF CarefulStep

(* Dispose comes when no goroutine is inside Module.Call.                  *)
LEMMA CloseOK ==
    ASSUME HostInv, Close
    PROVE  HostInv' /\ CarefulStep
<1>1. Dispose /\ last.name # "Dispose" /\ UNCHANGED <<mode, entering>>
  BY DEF Close, Serving
<1>2. last'.name = "Dispose"
  BY <1>1 DEF Dispose, Did
<1>3. \A g \in Goroutines : entering'[g].in = "no"
  BY <1>1, NotEnteringOK DEF Close, AllIdle, Idle
<1>4. EntriesOK'
  BY <1>1 DEF HostInv, EntriesOK
<1>5. ModuleNext /\ Careful
  BY <1>1, <1>2 DEF ModuleNext, Careful, Orderly
<1> QED  BY <1>3, <1>4, <1>5, NoneInside DEF CarefulStep

-----------------------------------------------------------------------------
(* A call begins.                                                          *)
LEMMA CallBeginsOK ==
    ASSUME HostInv, NEW g \in Goroutines, NEW c \in 1 .. MaxContexts, NEW name \in Names,
           CallBegins(g, c, name)
    PROVE  HostInv' /\ CarefulStep
<1> DEFINE e == [in |-> "engine", ctx |-> c, name |-> name]
<1>1. /\ UNCHANGED modvars /\ mode = "serve" /\ mode' = mode /\ Ready
      /\ entering' = [entering EXCEPT ![g] = e]
  BY DEF CallBegins, Serving
<1>2. e \in Entry /\ e.in = "engine" /\ e.name = name
  <2>1. c \in Int
    BY ContextAssumption
  <2>2. "engine" \in Places /\ name \in Names \cup {""}
    BY DEF Places
  <2> QED  BY <2>1, <2>2 DEF Entry
<1> HIDE DEF e
<1>3. /\ EntriesOK' /\ entering'[g].in = "engine" /\ entering'[g].name = name
      /\ \A h \in Goroutines \ {g} : entering'[h] = entering[h]
  BY <1>1, <1>2 DEF HostInv, EntriesOK
<1>4. UNCHANGED <<last, mod, modules, engine, fnaddr>>
  BY <1>1 DEF modvars
<1>5. EnteredOK' /\ EngineOK' /\ StoresCold'
  BY <1>1, <1>3, <1>4
     DEF HostInv, EnteredOK, EngineOK, StoresCold, Cold, Ready, Usable, EngineFailed
<1>6. \A h \in Goroutines : entering[h].in # "no" => ~Cold(name) /\ ~Cold(entering[h].name)
  BY NotEnteringOK DEF CallBegins
<1>7. WarmTogether'
  BY <1>3, <1>4, <1>6 DEF WarmTogether, Cold
<1> QED  BY <1>1, <1>3, <1>5, <1>7 DEF HostInv, CarefulStep

(* What a step of Module.Call finds.                                       *)
LEMMA InsideOK ==
    ASSUME HostInv, NEW g \in Goroutines, entering[g].in # "no", Serving
    PROVE  mode = "serve" /\ mode' = "serve" /\ Ready /\ entering[g].name \in Names
BY DEF HostInv, EnteredOK, Serving

(* A step that takes a goroutine out of Module.Call, and one that moves it *)
(* to another place there, keeps the rest of the invariant.                *)
LEMMA LeavesOK ==
    ASSUME HostInv, NEW g \in Goroutines, Leave(g), UNCHANGED mode,
           last'.name # "Dispose", engine' = 0 => engine = 0,
           \A h \in Goroutines \ {g} :
               entering[h].in # "no" => UNCHANGED <<mod, modules, fnaddr>> /\ engine' # 0
    PROVE  HostInv'
<1>1. /\ EntriesOK' /\ entering'[g].in = "no"
      /\ \A h \in Goroutines \ {g} : entering'[h] = entering[h]
  BY LeaveOK DEF HostInv
<1>2. EnteredOK' /\ EngineOK'
  BY <1>1 DEF HostInv, EnteredOK, EngineOK, Ready, Usable, EngineFailed
<1>3. WarmTogether' /\ StoresCold'
  BY <1>1 DEF HostInv, WarmTogether, StoresCold, Cold
<1> QED  BY <1>1, <1>2, <1>3 DEF HostInv

LEMMA MovesOK ==
    ASSUME HostInv, NEW g \in Goroutines, NEW s \in {"lookup", "store"}, MoveTo(g, s),
           UNCHANGED <<mode, mod, modules, fnaddr>>, entering[g].in # "no",
           last'.name # "Dispose", engine' # 0, s = "store" => Cold(entering[g].name)
    PROVE  HostInv'
<1>1. /\ EntriesOK' /\ entering'[g].in = s /\ entering'[g].name = entering[g].name
      /\ \A h \in Goroutines \ {g} : entering'[h] = entering[h]
  BY MoveToOK DEF HostInv, Places
<1>2. EnteredOK' /\ EngineOK'
  BY <1>1 DEF HostInv, EnteredOK, EngineOK, Ready, Usable, EngineFailed
<1>3. WarmTogether' /\ StoresCold'
  BY <1>1 DEF HostInv, WarmTogether, StoresCold, Cold
<1> QED  BY <1>1, <1>2, <1>3 DEF HostInv

(* The engine is there, or InitEngine makes it, or fails.                  *)
LEMMA CallEngineOK ==
    ASSUME HostInv, IndInv, NEW g \in Goroutines, CallEngine(g)
    PROVE  HostInv' /\ CarefulStep
<1>1. entering[g].in = "engine" /\ Serving
  BY DEF CallEngine, In
<1>2. /\ mode = "serve" /\ mode' = mode /\ Ready /\ last.name # "Dispose" /\ mod # 0
  BY <1>1, InsideOK DEF Ready
<1>3. CASE engine # 0
  <2>1. MoveTo(g, "lookup") /\ UNCHANGED modvars
    BY <1>3 DEF CallEngine
  <2>2. UNCHANGED <<mod, modules, fnaddr, last, engine>>
    BY <2>1 DEF modvars
  <2>3. HostInv'
    BY <1>1, <1>2, <1>3, <2>1, <2>2, MovesOK
  <2> QED  BY <2>1, <2>3 DEF CarefulStep
<1>4. CASE engine = 0
  <2>1. InitEngine /\ (IF last'.failed THEN Leave(g) ELSE MoveTo(g, "lookup"))
    BY <1>4 DEF CallEngine
  <2>2. UNCHANGED <<mod, fnaddr>> /\ last'.name = "InitEngine"
    BY <2>1 DEF InitEngine, Did
  <2>3. NeedsEngine
    BY <1>2, <1>4 DEF NeedsEngine
  <2>4. ~last'.failed => engine' # 0 /\ UNCHANGED modules
    <3>1. CASE CreateJIT
      BY <1>2, <2>2, <2>3, <3>1, CreateJITOK DEF IndInv, CreateJIT, Ready
    <3>2. CASE last'.failed
      BY <3>2
    <3> QED  BY <2>1, <2>3, <3>1, <3>2 DEF InitEngine, Did
  <2>5. CarefulStep
    BY <1>2, <2>1, <2>2 DEF ModuleNext, Careful, Orderly, CarefulStep, Ready
  <2>6. CASE last'.failed
    <3>1. Leave(g)
      BY <2>1, <2>6
    <3>2. \A h \in Goroutines \ {g} : entering[h].in = "no"
      BY <1>1, <1>4 DEF IndInv, State, AddressesCurrent, HostInv, WarmTogether, Cold
    <3>3. HostInv'
      BY <1>2, <1>4, <2>2, <3>1, <3>2, LeavesOK
    <3> QED  BY <2>5, <3>3
  <2>7. CASE ~last'.failed
    <3>1. MoveTo(g, "lookup")
      BY <2>1, <2>7
    <3>2. HostInv'
      BY <1>1, <1>2, <2>2, <2>4, <2>7, <3>1, MovesOK
    <3> QED  BY <2>5, <3>2
  <2> QED  BY <2>6, <2>7
<1> QED  BY <1>3, <1>4

(* The part of Module.Call behind InitEngine is the whole method for a     *)
(* module that has an engine.                                              *)
LEMMA RunIsCall ==
    ASSUME NEW name \in Names, SameEngine, Run(name), engine # 0, Ready
    PROVE  CarefulStep /\ last'.name = "Call"
<1>1. last'.name = "Call"
  BY DEF Run, Did
<1>2. Call(name)
  BY DEF Call, NeedsEngine, SameEngine
<1> QED  BY <1>1, <1>2 DEF CarefulStep, ModuleNext, Careful, Orderly, Ready

(* The address is there, or is looked for next.                            *)
LEMMA CallLookupOK ==
    ASSUME HostInv, NEW g \in Goroutines, CallLookup(g)
    PROVE  HostInv' /\ CarefulStep
<1>1. entering[g].in = "lookup" /\ Serving
  BY DEF CallLookup, In
<1>2. /\ mode = "serve" /\ mode' = mode /\ Ready /\ last.name # "Dispose"
      /\ entering[g].name \in Names /\ engine # 0
  BY <1>1, InsideOK DEF HostInv, EngineOK, Ready
<1>3. CASE Cold(entering[g].name)
  <2>1. MoveTo(g, "store") /\ UNCHANGED modvars
    BY <1>3 DEF CallLookup
  <2>2. UNCHANGED <<mod, modules, fnaddr, last, engine>>
    BY <2>1 DEF modvars
  <2>3. HostInv'
    BY <1>1, <1>2, <1>3, <2>1, <2>2, MovesOK
  <2> QED  BY <2>1, <2>3 DEF CarefulStep
<1>4. CASE ~Cold(entering[g].name)
  <2>1. SameEngine /\ Run(entering[g].name) /\ Leave(g)
    BY <1>4 DEF CallLookup
  <2>2. CarefulStep /\ last'.name = "Call"
    BY <1>2, <2>1, RunIsCall
  <2>3. UNCHANGED <<mod, modules, engine, fnaddr>>
    BY <1>4, <2>1 DEF SameEngine, Run, Cold
  <2>4. HostInv'
    BY <1>2, <2>1, <2>2, <2>3, LeavesOK
  <2> QED  BY <2>2, <2>4
<1> QED  BY <1>3, <1>4

(* The address is looked for and stored: no other goroutine is inside.     *)
LEMMA CallStoreOK ==
    ASSUME HostInv, NEW g \in Goroutines, CallStore(g)
    PROVE  HostInv' /\ CarefulStep
<1>1. entering[g].in = "store" /\ Serving /\ SameEngine /\ Run(entering[g].name) /\ Leave(g)
  BY DEF CallStore, In
<1>2. /\ mode = "serve" /\ mode' = mode /\ Ready /\ last.name # "Dispose"
      /\ entering[g].name \in Names /\ engine # 0
  BY <1>1, InsideOK DEF HostInv, EngineOK, Ready
<1>3. CarefulStep /\ last'.name = "Call"
  BY <1>1, <1>2, RunIsCall
<1>4. \A h \in Goroutines \ {g} : entering[h].in = "no"
  BY <1>1 DEF HostInv, WarmTogether, StoresCold
<1>5. UNCHANGED <<mod, modules, engine>>
  BY <1>1 DEF SameEngine
<1>6. HostInv'
  BY <1>1, <1>2, <1>3, <1>4, <1>5, LeavesOK
<1> QED  BY <1>3, <1>6

-----------------------------------------------------------------------------
(* Every step of the host keeps the invariant and is, for the module, a    *)
(* step of a careful user or none.                                         *)
LEMMA HostStep ==
    ASSUME HostInv, IndInv, [HostNext]_hostvars
    PROVE  HostInv' /\ CarefulStep
<1>1. CASE Render \/ ManageContexts \/ (\E g \in Goroutines : Execute(g))
  <2>1. UNCHANGED <<modvars, entering>> /\ UNCHANGED mode
    BY <1>1 DEF Render, ManageContexts, Execute, Serving
  <2> QED  BY <2>1, OutsideKeeps DEF CarefulStep
<1>2. CASE Setup
  BY <1>2, SetupOK
<1>3. CASE Serve \/ Rendered
  BY <1>3, ServeOK
<1>4. CASE Close
  BY <1>4, CloseOK
<1>5. ASSUME NEW g \in Goroutines, CallEngine(g) \/ CallLookup(g) \/ CallStore(g)
      PROVE  HostInv' /\ CarefulStep
  BY <1>5, CallEngineOK, CallLookupOK, CallStoreOK
<1>6. ASSUME NEW g \in Goroutines, NEW c \in 1 .. MaxContexts, NEW name \in Names,
             CallBegins(g, c, name)
      PROVE  HostInv' /\ CarefulStep
  BY <1>6, CallBeginsOK
<1>7. CASE UNCHANGED hostvars
  <2>1. UNCHANGED <<modvars, entering>> /\ UNCHANGED mode
    BY <1>7 DEF hostvars
  <2> QED  BY <2>1, OutsideKeeps DEF CarefulStep
<1> QED  BY <1>1, <1>2, <1>3, <1>4, <1>5, <1>6, <1>7 DEF HostNext

(* The step of the induction about Module.                                 *)
LEMMA ModuleStep ==
    ASSUME IndInv, CarefulStep
    PROVE  IndInv'
<1>1. CASE LoadIR /\ Careful
  BY <1>1, LoadIROK
<1>2. CASE Dispose /\ Careful
  BY <1>2, DisposeOK
<1>3. CASE InitEngine /\ Careful
  BY <1>3, InitEngineOK
<1>4. CASE ReadModule /\ Careful
  BY <1>4, ReadModuleOK
<1>5. CASE Unmarshal /\ Careful
  BY <1>5, UnmarshalOK
<1>6. ASSUME NEW name \in Names, Call(name), Careful PROVE IndInv'
  BY <1>6, CallOK
<1>7. CASE UNCHANGED modvars
  BY <1>7 DEF modvars, IndInv, State, Types, Once, EngineOfModule, AddressesCurrent,
              NothingLost, EngineFailed, CallRunsLoaded
<1> QED  BY <1>1, <1>2, <1>3, <1>4, <1>5, <1>6, <1>7 DEF CarefulStep, ModuleNext

(* The two invariants hold together.                                       *)
LEMMA Together == HostSpec => [](HostInv /\ IndInv)
<1>1. HostInit => HostInv /\ IndInv
  BY HostInitOK, InitOK DEF HostInit
<1>2. (HostInv /\ IndInv) /\ [HostNext]_hostvars => (HostInv /\ IndInv)'
  BY HostStep, ModuleStep
<1> QED  BY <1>1, <1>2, PTL DEF HostSpec

(* Goroutines that call the module as the host does, each step of theirs   *)
(* between any of the others', use it as one careful caller would: every   *)
(* theorem about CarefulSpec holds in the host.                            *)
THEOREM HostIsCareful == HostSpec => ModuleUsedCarefully
<1>1. HostInit => ModuleInit
  BY DEF HostInit
<1>2. HostInv /\ IndInv /\ [HostNext]_hostvars => [ModuleNext /\ Careful]_modvars
  BY HostStep DEF CarefulStep
<1> QED  BY <1>1, <1>2, Together, PTL DEF HostSpec, ModuleUsedCarefully, CarefulSpec

(* While a goroutine writes the map of addresses or makes the engine, no   *)
(* other reads or writes them, although nothing in module.go locks.        *)
THEOREM NoRaces == HostSpec => []RaceFree
<1>1. HostInv /\ IndInv => RaceFree
  <2> SUFFICES ASSUME HostInv, IndInv, NEW g \in Goroutines, NEW h \in Goroutines,
                      g # h, WritesModule(g), entering[h].in # "no"
               PROVE  FALSE
    BY DEF RaceFree, In
  <2>1. entering[g].in \in {"store", "engine"}
    BY DEF WritesModule, In
  <2>2. entering[g].name \in DOMAIN fnaddr
    BY <2>1 DEF HostInv, WarmTogether, Cold
  <2>3. engine # 0
    BY <2>2 DEF IndInv, State, AddressesCurrent
  <2> QED  BY <2>2, <2>3 DEF WritesModule, In, HostInv, StoresCold, Cold
<1> QED  BY <1>1, Together, PTL

(* Every call that succeeds, by whichever goroutine and from within        *)
(* whichever callback, runs the code of the module that was loaded last.   *)
THEOREM HostCallsRunLoaded == HostSpec => []CallRunsLoaded
BY HostIsCareful, CallsRunLoaded, PTL DEF ModuleUsedCarefully

(* No goroutine uses an LLVM object that another has disposed.             *)
THEOREM HostObjectsAlive == HostSpec => []ObjectsAlive
BY HostIsCareful, ObjectsStayAlive, PTL DEF ModuleUsedCarefully

(* Goroutines that render functions reach the map of templates only        *)
(* through GetTemplate, so it is safe there too.                           *)
THEOREM HostMapSafe == HostSpec => []MapSafe
<1>1. HostInit => CacheInit
  BY DEF HostInit
<1>2. [HostNext]_hostvars => [CacheNext]_cachevars
  BY DEF HostNext, hostvars, Render, Rendered, Setup, Serve, ManageContexts, Close, Serving,
         CallEngine, CallLookup, CallStore, Execute, CallBegins
<1>3. HostSpec => CacheSpec
  BY <1>1, <1>2, PTL DEF HostSpec, CacheSpec
<1> QED  BY <1>3, TheMapIsSafe, PTL
=============================================================================
