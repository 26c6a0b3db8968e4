# A verification development for go-evmjit

go-evmjit translates EVM bytecode to LLVM IR (`irgen`), compiles it in process
(`llvm`), and calls the machine code with a context that holds the EVM stack and
the gas; a parser for EOF containers (`eof`) stands beside that path. This directory
holds TLA+ models of both, the TLC configurations that check them on small
instances, and TLAPS proofs of what holds for every instance. Paths below are
relative to the repository's root; `irfunc.go` is
`irgen/builder/irfunc.go` and templates are files of `irgen/irtpl`.

## 1. The system

```
 bytecode --EVM0Parser--> IRFunction --String()--> LLVM IR --Module--> machine code
            (evm0.go)     (irfunc.go)  templates  (text)    (module.go)     |
                          symbolic     batched                              | call
                          stack        checks             CallCtx <---------+
                                                        stack, gas, callbacks

 host program: goroutines that render (template cache), load, call, dispose
 EOF container --ParseEOF--> sections (parser.go)          used by nothing yet
```

| component | state it keeps | operations | hard behaviour |
|---|---|---|---|
| **IR builder** `irfunc.go` | branches with opcodes, a symbolic stack per branch (`stackPos`, `heapPos`, `stackRefs`), `pccount`, `opcount`, `noinitjump`, `hasdynjumps` | 15 kinds of `AppendXxx` | one integer (`heapPos`) must follow a run-time pointer through loads, folds, DUPs and SWAPs; register names must stay in SSA form |
| **constant folding** `irfunc.go` | none | the `calcFn` closures | must agree with the templates that compute the same at run time |
| **code generator** `irfunc.go`, `irgen.go` | reference counts, `skipGasCheck` marks, the text | `String`, `updateJumpValidity`, `generateOpIRCode` | one gas, underflow and overflow check stands for a run of opcodes; dead branches are dropped; labels depend on flags set long before |
| **EVM0 parser** `evm0.go` | position in the bytecode | `ParseCodeSection`, `parseOpcode` | where an instruction starts; truncated PUSHes |
| **IR templates** `irtpl/*.ll` | registers, `stack`, `sp`, `gasleft`, `pc` of the C context | checks, loads, stores, jumps, callbacks, arithmetic | the stack lives in memory and in registers at once; gas is paid in advance; word-size boundaries |
| **compiled call** | the above, at run time | `Module.Call`, one step per opcode, return | all of the above together: it has to be the EVM |
| **Module** `llvm/module.go`, `module.c` | LLVM module, engine, cached addresses | `LoadIR`, `InitEngine`, `Call`, `Marshal`, `GetIR`, `Unmarshal`, `Dispose` | manual ownership: an engine owns its module, addresses outlive neither; each call can fail half way |
| **call context** `llvm/callctx.go`, `callctx.c` | stack memory, cgo handle, callback table, gas | `NewCallCtx`, `RunBinding`, `Dispose`, a call's entry and return | gas is copied out and back over several calls, nested ones included; ownership; debug callbacks recognised by a length |
| **template cache** `irtpl.go` | templates by name, a lock | `GetTemplate` | two goroutines that miss together |
| **host**: whoever uses the library as README.md shows | goroutines inside the above | all of the above | nothing in `module.go` locks |
| **EOF parser** `eof/*.go` | the container being read | `ParseEOF`, `parseV1` | offsets, truncation, counts at their limits |
| **bindings** `llvm/bindings/*.go` | none | 256-entry table, five math callbacks | operands and result share one buffer, deepest operand first |
| interfaces, target machine, command line tools | configuration | | none that a model would show |

What makes each correct, in one line: the *builder's* bookkeeping describes what
the emitted code will do; the *generator's* batched checks say what single checks
would; the *parser* finds the instructions and jump targets the EVM finds; the
*templates* compute EVM arithmetic; a *call* is an EVM execution and returns; a
*module handle* calls the code that was loaded last and disposes every LLVM
object once; a *context* neither loses nor invents gas and releases what it owns
once; the *EOF parser* accepts the containers of the format and no others, and
reads each byte into one section. PROJECT.json lists, as hazards, the lines where each of these could
go wrong, with the properties that would notice.

## 2. Modules and their correspondence to the code

| module | models | state | actions |
|---|---|---|---|
| `Opcodes` | the opcode table of `evm0.go` and `builder` constants | | operators only |
| `WordFold` | the `calcFn` closures; `uint256` is external | | operators only |
| `IRFunction` | `irfunc.go`, the `AppendXxx` methods | the fields of `IRFunction`, with `IRBranch` and `IROpcode` as records | one per `AppendXxx` |
| `IRCodegen` | `String`, `updateJumpValidity`, `generateOpIRCode`, and the `op-checks` template | `phase`, the loop position `at`, the blocks written (`code`) | one per case of the two loops |
| `EVM0Parser` | `ParseCodeSection`, `parseOpcode` | `bytecode`, `i` | `ParseOpcode`, then the generator's |
| `Evm` | what a compiled function promises: the EVM | one stack, `pc`, `gas`, `status`, `exit`, `errpc` | one per kind of instruction, and `Abort` |
| `JitCall` | the templates, executed; `NewCallCtx` and `Module.Call` around them | position, `mem`, `sp`, `gasleft`, `regs`, `ctxpc`, result | one per template |
| `WordOps` | the arithmetic and logic templates, and the EVM's arithmetic | | operators only |
| `Bindings` | `llvm/bindings/math.go` on the buffer of `evmc-call.ll`; `uint256` is external | | operators only |
| `Module` | `llvm/module.go`, `createJIT` of `module.c`; LLVM is external | the fields of `Module`, and every LLVM object with how often it was disposed | one per method |
| `TemplateCache` | `GetTemplate`; `sync.RWMutex` is external | the map's keys, the lock, each goroutine's position | one per access to the lock or the map |
| `CallCtx` | `callctx.go`, `callctx.c`; compiled code is what it does to a context | contexts, what is held outside Go, a stack of frames per goroutine | `NewCallCtx`, `Dispose`, `Enter`, `Operate` (a callback opcode, with `RunBinding`), `CallbackReturns`, `Return` |
| `Host` | a program with several goroutines; `Module.Call` step by step | the above, `mode`, who is inside `Module.Call` | those of `TemplateCache`, `Module` and `CallCtx`; `CallBegins`, `CallEngine`, `CallLookup`, `CallStore` |
| `EofParser` | `ParseEOF`, `parseV1`; and a grammar of containers | `bytecode`, `offset`, `stage`, header and sections so far, the error | one per field of the header and section of the body |

`IRCodegen` extends `IRFunction`, `EVM0Parser` extends `IRCodegen`, `JitCall`
extends `EVM0Parser`: a behaviour of `JitCall` is the whole pipeline, from the
first byte parsed to the return of the compiled function. `Host` extends `Module`
and `TemplateCache` and has an instance of `CallCtx`. `MC...` modules give
constants their values; the eight `...Proofs` modules hold the proofs.

How state corresponds:

* A *value* of the symbolic stack is a constant or a register `<<"res", id, i>>`
  or `<<"input", id, i>>`, for `%l<id>_res<i>` and `%l<id>_input<i>`. Decimal
  conversion of constants is left out except where its failure shows
  (`strconv.Atoi` of a jump target saturates, then wraps to 32 bits: `JumpPc`).
* The record of an *opcode* has one field more than `IROpcode`: `cache`, the
  cached stack the opcode finds. No action reads it; the properties and the
  refinement mapping do.
* The *text* `String` returns is a sequence of blocks: a label, emitted opcodes
  with the parameters of the check in front of each, and the stack store at the
  end. The text around blocks (declarations, attributes) is left out.
* In `JitCall`, LLVM registers are a function `regs` that is emptied on entry to
  a block, since the builder lets no register cross blocks.
* In `Host`, `Module.Call` of module `Module` is split where another goroutine can
  see the difference: reading `engine` (and making it), reading `fnaddr`, writing
  `fnaddr`, running the code. Compiled code is `JitCall`'s subject; `CallCtx`
  keeps of it that it takes the gas along, spends it, reaches callbacks, and gives
  the rest back on every exit. A callback may call again, so a goroutine has a
  stack of frames.
* In `EofParser` one step reads one field or one section. A step evaluates the
  checks of its code in order and returns the error of the first that fails.
* `AppendJump`/`AppendJumpI` and `AppendStop`/`AppendInvalid` are each one
  parameterised action: their code is the same but for a template and a number.

An operator whose comment begins with *slip* is not part of the model. It is the
definition that follows it with a plausible mistake in it (a dropped reset, an
off-by-one); replacing the one by the other makes a property fail, which shows
that the property depends on that code.

## 3. What the runs check

Passing runs (sizes are TLC's distinct states):

* **codegen** (`MCIRCodegen`, 902K). Every program of up to 4 appended opcodes is
  built. Those of up to 3, and programs with jumps and straight-line programs of up
  to 5, are rendered too. Of the builder:
  `CacheContiguous`: the cache is the interval heapPos..stackPos-1, without
  holes. `NoNilSource`: the error arms of DUP and SWAP are dead.
  `DefinedBeforeUse`: SSA form. `LoadsMatchHeap`: heapPos is minus the words the
  emitted code has loaded. `ChecksIncrease`: checked heights rise. Of what is
  rendered: `BatchExact`: with
  every stack height and every amount of gas around which an answer changes, the
  batched check returns what checking opcode by opcode returns: same first
  failing opcode, code and gas left. `OverflowsCaught`: also for overflows, in
  groups before the first load whose bound does not wrap. `ChargedOnce`: every opcode is paid once although
  groups are cut by jumps, zero-cost opcodes and marks. `TargetsLabelled`: every
  label named is written exactly once, dead branches notwithstanding.
* **calls** (`MCJitCall`, 204K). Some 6500 bytecodes, parsed, rendered and called with
  several stacks, amounts of gas and callback results; and every string of up to
  5 of the bytes that decide layout (PUSH1 to PUSH3, JUMPDEST), and every single
  byte, parsed and rendered. `TargetsAreJumpDests`, `PcIsOffset`:
  branches and pcs are those of an independent reading of the bytes.
  `ImplementsEvm`: the run refines `Evm`. `CallReturns`: each call returns.
* **words** (`MCWordOps`, 254K). `ComputesEvm`: each operation on all 6-bit
  operands (near the ends, for ternary ones). `BindingsComputeEvm`: so do the bound
  operations, through the buffer their operands and result share; EXP charges for
  the exponent's bytes, around every amount where the answer changes.
* **host** (`MCHost`, 307K). Two goroutines render, then one sets up a module with
  failures at every point, then both call it, also from within callbacks.
  `CallRunsLoaded`: a call that succeeds runs the module loaded or restored last.
  `ObjectsAlive`: nothing is used after it was disposed, and nothing disposed
  twice. `ModuleUsedCarefully`: the module sees calls one after the other, i.e.
  `Host` refines `CarefulSpec`. `RaceFree`: no goroutine reads the map of addresses
  or the engine while another writes them. `MapSafe`, `TemplateReturns`: the
  template map is never written while others touch it, and `GetTemplate` returns.
  `GasSpentOnce`: what is left of a context's gas and what its calls used add up,
  over calls that fail, follow one another and nest. `ReleasedOnce`: memory and
  handles are released once, and not used afterwards. `DebugSeparate`: the debug
  callback is called for exactly the debug operations when it is set, and exactly
  they are passed over when it is not; a debug opcode at a pc that is a multiple of
  2^16 is an ordinary operation to `RunBinding`, as the property says.
* **eof** (`MCEofParser`, 112K). Encodings of containers, whole, cut off anywhere,
  lengthened, with any byte replaced by any other, and past every limit.
  `AcceptsExactly`: accepted are the encodings of the containers of a declarative
  grammar. `SectionsAreTheBytes`: encoding what was read gives the bytes back.
  `ExtraneousIsNamed`, `TruncatedIsShort`: bytes behind a container, and a
  container cut off, are reported as such and as nothing else. `NeverPanics`: no
  slice index is out of range and the offset never passes the end.

Runs that find a disagreement (each is a finding with its line in PROJECT.json):

* **codegen_dead**: a branch entered only by falling through a JUMPDEST is
  dropped (`irfunc.go:128`). The program of `irgen/dev/main.go` is affected.
* **codegen_fold**: a folded opcode at the start of a group is never charged.
* **codegen_lax**: after a branch has loaded n words, later overflow checks of
  that branch are n words too lax.
* **call_return**: a RETURN or REVERT whose callback returns 0 does not end the
  call; control runs into the next block, without the cached words.
* **words_modular**: ADDMOD and MULMOD wrap before they reduce, unlike the folded ones.
* **module_stale** (`MCModule`): Unmarshal after a call leaves cached addresses of the old engine.
* **eof_extraneous**: bytes behind the data make the parser fail (`eof/parser.go:291`),
  although its comment at line 212 says that they are allowed for now. The code
  agrees with itself: `ExtraneousIsNamed` is what it does instead.

Because these are known, the passing runs say exactly where they hold:
`OverflowsCaught` and `ChargedOnce` name their exceptions; `ComputesEvm` leaves out
wrapping ADDMOD/MULMOD and division by 0 (undefined in LLVM, so any word: math-div.ll
has no `select`, ADDMOD and MULMOD divide before theirs); **calls** starts only calls that are `Covered`: no missing label, no
live branch dropped, no folded opcode uncharged, no overflow check after a load in
its branch or wrapped, and no code behind a RETURN/REVERT whose callback may return
0; and executes no DIV, ADDMOD or MULMOD with operands that make its template wrong
(`Faulty`, the exceptions of `ComputesEvm`); **host** sets its module up in the order README.md shows (`Orderly`), and in
`Careful` does not Unmarshal over a module that has an engine; with one it would
dispose the module twice (`module.go:191-196`). After a failed `createJIT`
only `LoadIR` or `Dispose` follow (`EngineFailed`): LLVM takes the module over and
disposes it when it fails, but `m.mod` still names it, and a retry, `Marshal` or
`Unmarshal` would use it.

The repository says nothing of goroutines, so `Host` states what a program must
respect for the rest to hold, as guards of `CallBegins`, `Free` and `Close`:

* a call for a name that has not been called before is made while no other
  goroutine is between the entry of `Module.Call` and the compiled code
  (`module.go:120-138` reads and writes `engine` and `fnaddr` unlocked);
  goroutines that execute compiled code need not be waited for;
* a context serves one call at a time: a callback that calls again brings another
  context, as the inner call's gas would be overwritten when the outer returns;
* contexts and modules are disposed when they serve no call.

Divergences met on the way that no run is spent on: README.md:287 lists REVERT as
"IR Code" but it is a callback; README.md shows another signature of `NewCallCtx`
than `callctx.go` has; `irgen/dev/main.go:158-159` binds 0x05 and 0x06 to each
other's function; README.md:132-134 reads a callback's first operand from
`inputs[0:32]`, where `evmc-call.ll` puts the deepest one;
`eof/const.go:16` gives 19 as the least header with container sections, which is
22 (15, one byte for the kind, two for the number and four for a size).

### Bounds, and why they are enough

* *Words* have 4 bits in the codegen runs (values matter only for folding and jump
  targets). They are three bytes long in **words** (6 bits, bytes of 2) and
  **calls** (9 bits, bytes of 3), so that BYTE, SIGNEXTEND and shifts have indices
  inside, at and past the end, and PUSH2 shows the order of immediate bytes.
* *StackSize* is 4 to 6 instead of 1023: every program can reach it, and batches
  can both fit and not fit. What it excludes is a branch that pushes more than
  StackSize words itself, which wraps the bound (`op-helper.ll:45`).
* *Programs* of 4 opcodes let each pair of consumers and producers meet with a
  prefix that fills or drains the cache; 5 are needed for a group behind a jump
  behind a group. Loops are given as whole programs, as enumerating would not
  reach them. *MaxOps* and *MaxPc* name the bounds.
* *Jumps*: **calls** has words up to 512, and JumpLimit (2^64 in flow-jump.ll) is 256,
  so that dynamic targets are below and beyond it. A pc is below 64 and a Go int
  below 128 (`PcLimit`, `IntLimit`), so that each conversion of a target can cut.
* *Gas*: 7 ends in the middle of most programs, 40 lets most end (and ends the
  loops). In codegen it ranges over every amount next to a partial sum of costs.
* *Callbacks* return one word (1), one error (-20), and use 0 or 1 gas. Nothing in
  the code distinguishes more.
* *Modules*: four LLVM modules let a second engine exist after a replaced one. In
  **host** a module is served that is the first one made (`MaxServed`): what was
  replaced before matters to setting up, which is explored in full.
* *Host*: two goroutines, two templates and two contexts are what one race, one
  nested call and one callback during another goroutine's cold call need. A context
  has 2 gas: enough for a callback that uses gas, and for a second call with what is
  left. Contexts differ in who owns the stack and which callbacks are set; debug
  opcodes stand at a pc inside and one at a multiple of 2^16. The theorems of
  section 4 need none of these bounds.
* *EOF*: a byte has 16 values, the limits are 2 sections of a kind and 44 bytes, and
  the containers checked have up to 3 sections of up to 2 bytes: each limit is met,
  passed, and passed by one. Every byte of the header is replaced by every value,
  so each size and count claims too little and too much.

`CHECK_DEADLOCK FALSE` is set since all of these systems end: programs are
bounded, a call returns, a disposed handle is not used.

### Fairness

`JitSpec` has weak fairness on `Execute`, the steps of compiled code that was
called (in `CoveredSpec`, on those it does not exclude): it waits for nothing, and callbacks are assumed to return (the host's
obligation). Nobody has to compile or to call. `CallReturns` is then the work of
the gas checks. `HostSpec` has weak fairness for each goroutine inside `GetTemplate`:
Go schedules a goroutine that can run; that nobody waits for ever is then due to
the order of locks, and to a lock whose waiting writer keeps new readers out, as
`sync.RWMutex` documents. No goroutine has to call anything. The other
specifications are safety only.

### The refinements

`CarefulSpec` is what `Module` promises one caller; `Host` keeps it with its steps
inside `Module.Call` as stuttering steps. `Evm` is the other abstract
specification. It runs one instruction at a time on one stack. What implements it is
`CoveredSpec`, i.e. `JitSpec` without the calls and operands the known defects affect.
The mapping at the end of `JitCall` puts the stack together from memory below `sp` and the values of the
cached references, and adds to `gasleft` what the current group has paid for
opcodes still to come. Compilation and block changes are stuttering steps. `Evm`
gives an implementation four liberties. Three are due to batching: it may report a
failure before the instructions in front of it have run, once it is certain
(`Abort`); the gas GAS pushes, and the gas left when a callback fails, may lack
what later instructions cost. The fourth is the pc a jump to 2^64 or beyond is
blamed on, which flow-jump.ll does not store (`JumpLimit`).

## 4. What is proved

With TLAPS, for every value of the constants that the modules' named assumptions
allow (word size, pc size, opcode costs, sets of immediates, callbacks; programs
of any length up to MaxOps, itself any number).

`IRFunctionProofs`:

* `TypeCorrect`, `CacheIsInterval`, `NeverFails`: TypeOK, CacheContiguous and
  NoNilSource are invariants. None is inductive alone: an operand is well typed
  because the cache has no hole, the cache has no hole because DUP and SWAP find
  what they look for, and they do because it is an interval. Their conjunction
  `IndInv` is inductive. Lemmas follow the code: `PoppedOK`, `PushedOK`,
  `SetRefOK`, `ArgsOK` for the loops of appendOpcode, `AppendOpcodeOK` for the
  whole, one lemma per AppendXxx, each showing that it records one `GoodStep`.
* `RegistersDefined`: DefinedBeforeUse. `GoodStep` says that all operands, stored
  words and cached results of a new opcode are constants, words cached before, or
  registers the opcode defines; `GrowSSA` lifts that to the branch.
* `CheckedHeightsRise`: ChecksIncrease. It needs `Rising`, which adds that the
  checked heights stay below the branch's stackMax.
* `HeapIsLoads`: LoadsMatchHeap. `AllTracked` strengthens it with what the code
  generator will need: heapPos is minus all loads so far, the height an opcode
  reaches is checked by it or by an opcode before it (`HeightChecked`), and the fields
  of a recorded opcode agree with each other (`Needs`).
* `CacheFlows`: what an opcode does to the cache (`Effect`): its operands are the
  words on top, cached or loaded, its results go where they were, a SWAP lifts a
  word. It leads from each opcode to the next and to the stores, and relates the
  symbolic stack to the EVM's without mentioning any word. No register is used
  before its opcode (`Older`), which is why later results never overwrite it.

`IRCodegenProofs`, for any program, costs, stack size and width of counters. The
invariant `GenInv` has four parts. `Built`: what the builder guarantees still holds
while `String` runs, as `updateJumpValidity` only marks opcodes. `Loop`: where the
two loops of `generateOpIRCode` are. `Blocks`: the blocks written belong to branches
that were passed, in their order, and the groups of each cut its branch
correctly (`UnitsOK`: they follow each other, and the check of each has the sums,
the smallest and the largest heights of its opcodes). `Visited`: a branch that was
passed is dead or has its block, the others are not yet marked.

* `BatchingIsExact`, `OverflowsAreCaught`: BatchExact and OverflowsCaught. The stepwise
  check is described by the first opcode it refuses (`SteppedIs`), the batched one by
  the sums; `CheckedHeightsRise` and `HeightChecked` say that the last checked height is the
  largest.
* `GasIsChargedOnce`: ChargedOnce. `JumpsFindLabels`: TargetsLabelled.
* `AllRendered`: each opcode that emits code and can be reached has one unit
  (`Listing`), whose group ends with the first opcode that may leave the branch, and
  a block that falls through stores the cache its branch ends with (`Stored`).

`EVM0ParserProofs`, for every bytecode. `ReadInv` says where the parser stands
(`Position`: at the start of an instruction) and that each instruction in front of
it has become one opcode, that says what the bytes say (`OpcodesAreRead`).

* `TargetsAreReal`, `PcsAreOffsets`: TargetsAreJumpDests and PcIsOffset.
* `OpcodesAreInstructions`: opcodes have the operation, operand counts, gas and
  immediate of the instruction at their pc, and the next opcode is where that
  instruction ends; rendering changes none of it.
* `ParserDrivesCodegen`: `ParseSpec => GenSpec`, so the theorems of
  `IRCodegenProofs` hold of every parsed bytecode; `ParsedCodeIsSound` lists them.
  Both have the hypothesis `ParserInputs`: the constants that give the builder its
  inputs contain the opcodes and immediates of the parser's own tables. The
  builder's inputs are left open elsewhere, as `AppendXxx` is public; the
  parser's actions do not read these constants, so **calls** sets them to `{}`.

`JitBlockProofs` and `JitCallProofs`: compiled code implements the EVM.

* `CallInvariant`: `CoveredSpec => []JitInv`. Its part `RunInv` says of a call at opcode
  n of a block: every register of the cache that opcode finds has a value that is a
  word (`Holds`); no exit and no JUMP is in front of it (`Arrives`); and the stack fits
  (`Sized`), now and, if the check of a group is behind it that reaches n, for each
  opcode left in that group: it will find its operands, and room for its results
  (`Room`, relative to `sp` and the loads between). What the group has paid for them
  is in the mapping (`PrepaidAt`), and the steps show that it never runs out.
* `StackFits`: `sp` and the cache together never leave the stack of the context.
* `Implements`: `CoveredSpec => ImplementsEvm`. `JitBlockProofs` describes what code
  says in terms of the instructions it was made from: an opcode and its instruction
  agree (from `OpcodesAreInstructions`); stack, gas and pc in front of opcode n + 1
  under the mapping, after the loads, from those in front of n (from `CacheFlows`);
  what a passed check lets the rest of its group assume (`CheckPasses`), and that a
  failed one is a failure the EVM is bound to reach, with the same code, gas and
  pc, whatever the instructions in between push (`CheckFails`, from `BatchingIsExact`
  and the sums it rests on). `JitCallProofs` then has one lemma for each action,
  `StepXxx`: it is a step of `Evm` or is not seen, and it keeps `JitInv`.
  A jump uses that the label it names is that of the branch the EVM finds at the
  pc (`JumpsFindLabels`, `TargetsAreReal`, and `WellFormedIR` of `Covered`), the end of a
  block that the next block is the branch at the next pc (`LiveBranchesKept`).

All three have two hypotheses. `ParserInputs` is that of
`ParserDrivesCodegen`. `Exact` is about the constants that stand for arithmetic: the
folders compute the meaning of an operation, and its template does for operands that
are not `Faulty`. Words have any size in these proofs, so arithmetic is a parameter.
That `FoldWord`, `Template` and `EvmWord`, which the runs use for it, satisfy `Exact` is
what **words** checks (`ComputesEvm`). What `CoveredSpec` excludes are the defects of
section 3; **call_return** finds the refinement violated without one of these conditions.

`HostProofs` begins with `CarefulSpec` of `Module`: `CallsRunLoaded` and `ObjectsStayAlive`, for any sources, names and
number of modules. Their invariant adds that the engine is the one of the loaded
module, that every cached address is in that engine, and that before Dispose no
engine was disposed, nor the loaded module unless `createJIT` has failed on it.

Then `TemplateCache`: `TheMapIsSafe`, for any number of goroutines and templates.
`LockInv` relates each goroutine's position to the lock: who checks is a reader,
who is about to store is the writer and there are no readers.

Then `Host`, for any number of goroutines, contexts, modules, names and templates:

* `HostIsCareful`: `HostSpec => CarefulSpec`. Each step of a goroutine inside
  `Module.Call` is a step a careful caller could make, or none, because of
  `HostInv`: a goroutine past its first step finds an engine (`EngineOK`), and one
  about to write the map is there for a name without address (`StoresCold`), which
  nobody else wrote in between since goroutines that are inside together are there
  for names that have one (`WarmTogether`).
* `HostCallsRunLoaded`, `HostObjectsAlive`, `HostMapSafe`: the theorems about `Module`
  and `TemplateCache` carry over.
* `NoRaces`: RaceFree, from `HostInv` and the module's own invariant (an address is
  only known while there is an engine).

`ContextProofs`, for any number of goroutines and contexts and any depth of calls:

* `GasIsSpentOnce`: GasSpentOnce speaks of contexts between calls. While a call
  runs, the gas is in its frame and the context has an old value, so the invariant
  says the same of frames (`FramesOK`), and that no two frames or entering
  goroutines share a context (`UsedByOne`, `InUseLive`), which is why the copy
  that is written back is the only one.
* `ContextsReleasedOnce`: ReleasedOnce, with `HeldOK`: whatever is held belongs to a
  context that was created.
* `DebugIsSeparate`: DebugSeparate. `FramesOK` also says of every frame that what it
  records of its operation is what the setup of its context asks for; it lasts
  because the setup does not change while a context is in use (`InUseLive`).

`EofProofs`, for every bytecode and every value of the limits:

* `ParserNeverPanics`: NeverPanics. The parser checks the size of the whole body
  once and then slices. The invariant `EofInv` counts: each list of sizes has one
  element per turn of its loop, and one per section when the sections are read; the
  types agree with the code sections; and the type entries that are still to be
  read are inside the bytecode.
* `ReadsTheFormat`: `FormatInv`, that what was read is what the grammar says of the
  bytes so far. It says so of every bytecode that begins with the one being parsed
  (`Extends`): that is how an error is told apart from bytes that are only missing.
* `AcceptsTheContainers`, `ExtraneousIsExtraneous`, `CutContainersAreShort`:
  AcceptsExactly, ExtraneousIsNamed and TruncatedIsShort follow from `FormatInv`, for
  containers of any size and cut at any byte.
* `SectionsKeepTheBytes`: SectionsAreTheBytes. `SectionsRead` says that each section
  is the span of bytes at its place. Spans that follow each other join
  (`SpansFlatten`), and the digits of a number read from bytes are these bytes
  (`DigitsOfTwo`, `DigitsOfFour`).

Sums, digits and the starts of instructions are recursive functions; what they
compute is proved by induction over a set of numbers (`Induct`).

Assumptions: `LimitsAssumption` (a pc is a word, and as a number an int),
`InputsAssumption` (what `AppendXxx` is called with) and `FoldAssumption` (folding
returns words) of `IRFunction`; `CountAssumption` (a counter of the checks holds
StackSize) of `IRCodegen`; `CodesAssumption` (bytecodes are bytes, not longer than
MaxOps and MaxPc) of `EVM0Parser`; `CallAssumption` (a call starts with a stack that
fits, of words; errors are not 0; no pc reaches JumpLimit) of `JitCall`; `CacheAssumption` (the empty string is not a
template), `ContextAssumption` (what the code generator emits: debug opcodes have
no buffer, others a buffer that holds their inputs) and `FormatAssumption` (kinds
are bytes) of `TemplateCache`, `Host` and `EofParser`. TLC evaluates all of them in
the runs.

Only model-checked: arithmetic, compiled and bound (`ComputesEvm`,
`BindingsComputeEvm`), a computation over words of a given size, whose bit-by-bit
definitions are sums over sets that would need an induction over the bits; and
liveness, `CallReturns` and `TemplateReturns`, which is out of the prover's reach.
Every other property of a passing run is a theorem.

## 5. What is not modelled

* LLVM itself: parsing, verification, optimisation and code generation.
* The C stack, on which `evmc-call.ll` allocates at every callback.
* A second `String` on one IRFunction; `SetVerbose`, names, text formatting.
* `AddBinding` on a table that calls are using: nothing in the repository does it,
  and nothing locks it.
* Target detection runs once before main and configures LLVM; the command line
  tools are flags and files around the library; `llvm/types` declares interfaces.
  None of them keeps state that an action could change.

## 6. Plan

All steps are done.

1. `IRFunction` with its invariants and their proofs. 2. `IRCodegen`.
3. `EVM0Parser`. 4. `Evm` and `JitCall`, the refinement. 5. `WordOps`, `Module`.
6. `CallCtx` and `Bindings`. 7. `TemplateCache` and `Host`, in place of the module
on its own, and their proofs. 8. `EofParser` and its safety.
9. Proofs of the builder, the code generator, the parser and the EOF parser.
10. The refinement: what opcodes do to the cache, what is rendered of them, the
   invariant of a call, and its steps one by one.

What could follow: `Exact` for words of any size, from lemmas about bits; and a
variant function for `CallReturns` (gas left, then the distance to the next check).
