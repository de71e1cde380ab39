# A specification of Zirric

Zirric is an interpreted language. Its implementation (Go, under `src/pkg` and
`src/cmd`) resolves a package and its dependencies, lexes, parses, analyses and
compiles them to bytecode, and runs the bytecode on a virtual machine whose
routines share one *run lock*; a language server and a formatter work on the
same sources. These modules specify the parts of it that keep state or are hard
to get right: the scheduler, channels, host streams and lazy globals of the
runtime; the way of a program from its text to its result; the installing of
packages; the language server's diagnostics; the formatter. TLC checks them on
small instances. The run lock, the scheduler with its scopes, the channels, host
streams, lazy globals, the installing of packages, the language server's
diagnostics, and the editing and diffing of texts carry proofs for instances of any
size: every safety property of theirs that a run checks is also a theorem.

To repeat the work: `tlc -config MCScheduler.cfg MCScheduler` for a run,
`tlapm Scheduler_proof.tla` for proofs. `PROJECT.json` lists every run, the
source lines behind every definition, the mutants that show each property can
fail, the findings and the hazards.

## 1. The system and its parts

| Part | Source | State it keeps | Operations | Made correct by | Module |
| --- | --- | --- | --- | --- | --- |
| Run lock | `runtime/scheduler.go` | ready queue, running routine, `parked`, `external`, `fatal`, `deadlocked` | dispatch, wake, park, release, begin/end host call, arm/disarm, deadlock check | one runner, exact queue and counters, no deadlock missed or invented | `RunLock` |
| Routines and scopes | `runtime/scheduler.go`, `runtime/plugin-co.go` | `cancelled`, `result`, `waiters`, open scopes; a scope's owner, routines, `cancelled`, `finished` | open, spawn, wait, cancel, close, yield, end, shut down | a closed scope is empty, no lost wake-up, a stop reaches everybody | `Scheduler` |
| Channels | `runtime/channel.go` | buffer, `closed`, waiting senders with values, waiting receivers | send, receive, select, close, deliver | no value lost, invented, duplicated or reordered; no waiter forgotten | `ChannelOps`, `Channels`, `FifoChannel` |
| Timers | `runtime/plugin-os.go` | a channel and an armed goroutine | after, deliver, close, disarm | wakes its receiver; counted as able to wake somebody | `Channels` |
| Host streams | `runtime/host-stream.go` | `pending`, `inflight`, `ended`, `failure`, token channel | take, read here, start a read, read completes | no byte lost, no reader stranded | `HostStream` |
| Lazy globals | `vm/global.go`, `vm/vm.go` | value, state word, task id of the initializer; the main machine's frames | read (initialize once), set, call back, resolve from a host call | initialized once, recursion told from waiting, readers do not spin for ever | `Globals` |
| Parser and tree | `parser`, `ast` | the tokens that are left | statements by descent, expressions by precedence | reads the tree that was written | `Syntax`, `Parser` |
| Analyzer | `analyzer` | symbol tables; what a branch proves, what is being inferred | free names, captures, slots; inference and type checks | a slot belongs to one name; only what cannot run is refused | `Resolver`, `TypeChecker` |
| Compiler | `compiler` | instructions, loop and chain fix-ups, temporaries | a node to its instructions | means what the tree means | `Compiler` |
| Virtual machine | `vm/run.go`, `vm/iterate.go` | frames, stack, Go activations of the run loop | the instructions, calls, iterators, returns that unwind | agrees with the evaluator, leaves nothing behind | `Values`, `Machine`, `Pipeline` |
| Package manager, orchestra | `pkgmanager`, `orchestra/resolver.go`, `cavefile` | installed and missing packages, the task's queue | discover, take, list, clone, retry | ready only with everything the manifest asks for | `Installation` |
| Registries | `registry/*` | the directory of clones, shared by processes | discover, offer, clone step by step | finds what it made; the newest that fits | `Registries` |
| Versions | `version` | none | parse, compare, match | agrees with semver.org | `Versions` |
| Language server | `langsrv` | open documents, overlay, module cache, passes, what is shown | notifications, requests, passes | caches are fresh, the last word is about the present text | `LangServer`, `Editing`, `EditedText` |
| Lexer | `lexer`, `token` | cursor, line, column, region | next token, decorations, string segments | a token is where it says | `Texts`, `Lexing` |
| Formatter, `zirric fmt` | `codefmt`, `cmd/zirric/cmds/fmt.go` | the printer's indentation and line state | scan, space, print, compare; collect, diff, write | keeps the meaning, settles, patches right | `Formatter`, `Options`, `Diff`, `FmtCommand` |
| Plugins, stack traces, toolchain, standard library, docs | `runtime/plugin-*`, `vm/stacktrace.go`, `toolchain`, `co` ... `tests`, `docs` | none of interest | | | not modelled |

How the parts interact. The virtual machine calls the scheduler by direct
method calls at every *switch point*: an extern that may block gives way first
(`Yield`), then lets go of the run lock around the host call (`BeginHostCall`,
`EndHostCall`). `co`'s externs call the scheduler for scopes, and a scope's or a
routine's body runs back on the virtual machine. Channels call `parkLocked` and
`wakeLocked` under the scheduler's mutex. Timers and reads in flight live on
goroutines of their own that hold no run lock. A host stream has a mutex of its
own that is never held together with the scheduler's. Reading a global may run
an initializer on the main program's machine, give way, and be called from a
host call. Orchestra's resolver asks the package manager for packages, which
asks the registries in order; processes meet only in the directory of clones.
The language server parses through the same resolver with an overlay of open
documents; its connection thread and its passes share two caches, each under a
mutex.

What is hard here: five places hand the run lock on, some of them from
goroutines that do not hold it; deadlock detection trusts two hand-kept
counters; a routine may be cancelled, and the program may fail, wherever another
waits; Go panics unwind through externs and iterators; slots, cells and jump
targets are worked out in one pass over nested constructs; a clone may be cut
short anywhere and is found by its directory alone; caches are dropped while
somebody is reading what they will hold; texts are named by three kinds of
position. `PROJECT.json` lists each such hazard at its line with the properties
that would notice.

## 2. The modules

### The scheduler and what waits on it

**RunLock** holds the run lock as pure operators over a record `s` (the Go
struct `Scheduler`). `Scheduler.mu` makes every method one critical section, so
a method is a function from record to record, named after it:
`DispatchLocked`, `WakeLocked`, `ParkLocked` (and `GiveWayLocked`, the same
function with `requeue`), `ReleaseLocked`, `CheckDeadlockLocked`,
`BeginHostCall`, `EndHostCall`, `ArmExternal`, `DisarmExternal`, `EnqueueNew`,
`StopReasonLocked`. Two facts keep them short: waking a list and dispatching
once at the end equals dispatching after each, since only the first dispatch
finds the lock free; and waking a waiter list with repetitions wakes each parked
routine at its first entry (`ParkedAmong`). Where the code iterates over a Go
map or leaves an order open, the caller picks any order (`Orders`).

**Scheduler** (state as variables) adds routines and scopes. An action is one
critical section together with the code the routine runs up to the next one. A
routine that parks inside an operation stays in it (`at`), and a *Resume* action
continues it when it holds the lock again: `Wait`/`ResumeWait`,
`CloseScope`/`ResumeClose` (both one turn of the loop `CloseLoop`),
`CallExtern`/`ResumeYield`/`HostReturns`/`ResumeCall`. User code is free to
do anything the language allows at any time; `unwind` says that it is returning
an error instead. `Stopped` is the set a cancellation reaches: the least set of
live, uncancelled routines closed under their open, uncancelled scopes.
`Block`/`Unblock` stand for channels here. `EscapeScope` is the return out of a
`for` body that unwinds through `co.scope` as a Go panic, so that `CloseScope`
is never called.

**Crew** is a small program for the other modules: the root routine opens one
scope with all others in it, each of which may yield, be cancelled, fail or end.
It uses the same lock operators and the same shape of end, close and
cancellation as Scheduler, with one scope only.

**ChannelOps** holds the channel operators (`AfterTake`, `NotifyLocked`,
`WakeForClose`, `Delivered`, adding and dropping waiters). **Channels** composes
Crew with send, select (receive is the select of one channel), close and timers.
Values are numbered in the order of the sends; history variables keep what came
out and how each send ended. **FifoChannel** is the abstract promise: a bounded
first-in-first-out queue from which a cancelled sender may withdraw; run
`channels` checks that Channels implements it (`KeepsFifoPromise`, refinement
mapping `Queue`). The capacity is part of a channel's record, as in the code, so
one run covers several capacities.

**HostStream** composes Crew and ChannelOps with the reader of a host stream.
Its actions are sections of `hr.mu` or of `Scheduler.mu`, so that a completed
read may fall between any two of them. Which routines read is chosen at the
start (`readers`); some properties are about a lone reader. `overtaken` is a history
variable: `readHere` has gone past bytes that are still kept in `pending`, which it
can, since `read` looks at `pending` and at `inflight` in two sections of `hr.mu`.

**Globals** composes Crew with the slots of `vm/global.go`. `GetWith` and
`SetPass` are one pass of the loops of the same names; the routine is at `spin`
or `set` in between. `doing` is, for each routine, the initializers and
callbacks it is inside of, each with the task id `CallFunction` or the fork gave
it; `frames` is who pushed each frame on the main program's stack, where
initializers run whichever routine reads. `StepOnAnothersFrame` and
`HostResolve` are the two ways the code leaves what it promises (section 6): what
follows depends on a data race, so the model takes that step, notes it in
`astray` and stops. Everything the properties say is about the states up to there.

### A program from text to result

**Syntax** has the trees of `pkg/ast` as tuples of a kind, a label and children.
**Parser** is `pkg/parser`: a parser takes the tokens that are left and gives
what it read and what is left. **Resolver** is what the compiler needs of
`pkg/analyzer`: symbols, free names, captures, slots. **TypeChecker** is its
type checks: what a name, a call, an operator or a branch is known to be, and what
is reported of each node on the walk through the tree. **Compiler** takes a node
and the state of the compilation and gives the state with the node's
instructions emitted, one operator per `compile...` function. **Values** has the
runtime's values. **Machine** is `pkg/vm` as a state machine: an instruction is
an action; the Go activations of the run loop, nested by iterators, loop bodies
and conversions, are the sequence `loops`, and a panic that carries a `return`
out of a loop body is `signal`.

Two modules say what the others should do. **Writer** writes a tree after the
grammar of the language's specification, with no more parentheses than the table
of operators asks for. **Semantics** is an evaluator over the tree, without code,
frames or stack: every name has a cell of its own. **Pipeline** composes: a
program is written, parsed, analyzed, compiled and run, and each stage is held
against its reference; the type checker's is the evaluator, since it claims to
refuse only what cannot run. What parser, analyzer, compiler and evaluator make of
the programs is computed once, when TLC reads the constants `Parsed`, `Reported`,
`Compiled` and `Expected`; they are given the values `TreesOf`, `ReportsOf`,
`CodeOf` and `MeaningsOf` of the same programs.

Left out: module-level declarations other than functions, imports, attributes as
values, type hints and the checks against them, dictionaries, floats, characters, bytes,
incremental compilation; integers do not overflow (the programs' numbers are small).

### Packages

**Versions** has versions and predicates as pure operators. A text is a sequence
of ranks in the order of its bytes, so that comparing texts is what it is in the
code; one digit to a number, no build metadata. **Registries** says what each
registry makes of the disk and the remotes. **Installation** is the resolver and
its `InstallationTask`: `program[p]` is what one process holds, `clones` the
directory they share. Cloning takes the steps of go-git (`MakeDirectory`,
`InitRepository`, `FetchReferences`, `CheckOut`), each of which may fail
(`CloneFails`) or be the last thing a process did (`Kill`); the steps inside
go-git are external and modelled from how `src/` uses it. `Discover` looks at the
directory once, not entry by entry, and `InitRepository` checks for a repository
and writes its own in one step. Progress callbacks and contexts are left out. What
a registry has available is a set; `Finding` gives each package the rank it has in
the order of the code, and `FirstFitting` takes the first. What is folded over a
sequence (`RemotePackageVersions`, `FilterMissingDependencies`, `PreReleaseText`, `Value`)
is a recursive function on its indices, so that it can be reasoned about.

`ReadyMeansResolved` says from where a package may answer to a dependency
(`Answers`): from its source or its name, from the project under either of its own
names, from the embedded library under its name. It has one exception, which TLC
showed to be needed: a project that asks for itself under another name, next to a
dependency that fails. The second try finds the project installed and counts it as
the dependency (`hasDependency` looks at the source only), so that no package carries
the name the manifest gives it.

`NewestTagIsCloned` compares by `Precedes`, written after semver.org, not by the
`Less` of the code. It is about what the manifest admits where that is `Orderly`:
semantic versions only, and no two whose pre-releases part at a number on one side and
a word on the other, nor at an identifier that `strconv.Atoi` reads otherwise than
semver.org: a hyphen and digits, which it takes for a negative number, or a number
beyond an int (`MaxInt`), which it does not take, so that `Compare` goes by the text.
There `Less` is no order of versions (section 6), or another one than semver.org's, and
a sort by it need not put the newest first. The sort itself is `sort.Slice`, by a
comparison that is not strict: up to twelve references Go inserts one after the other
(`InsertionSorted`); of more (`Partitioned`) the model only says what any way of
sorting does, that they go down where `Less` is a total order of them, and are
rearranged otherwise. A predicate that names
a version admits no branch (`SemversAdmitSemvers`), hence the first condition is met by
every dependency with such a predicate.

### The language server

**LangServer** has two threads: the connection, which handles notifications and
requests one after the other, and whichever diagnostics pass holds `diagRunMu`.
An action is what happens under one mutex, or the reading of one file. A text is
the number of the edit that made it; `work[t].got` is what a thread has read so
far. It assumes that every file is on disk, that the base a file declares is the
project's name, and that what a directory imports does not change;
`ls.openDocs` has the keys of `docs` and is not kept apart. Commands, the
Cavefile's own diagnostics and the prelude are left out.

### Texts

A text is a sequence of characters (**Texts**). **Lexing** is `pkg/lexer`,
**Formatter** is `pkg/codefmt`, **Diff** is the diff of `zirric fmt --diff`, and
**FmtCommand** the rest of `zirric fmt`, its walk over directories and its modes,
all as pure operators with recursive functions or folds. **Editing** puts them to
work: an editor and the server's document store apply the same changes, each counting
lines and UTF-16 units for itself, and a reply of `textDocument/formatting` is
carried out (`Type`, `Erase`, `FormatDocument`). The reply is laid out by the options
of the request (`Requests`) over the defaults, `FromLSP` of **Options**; `zirric fmt`
goes by the defaults alone. So `FormatsLikeTheCommand` says two things of a reply: it
leaves the layout by those options, and what `zirric fmt` writes if they are the
defaults. That the two differ for any other request is a finding (section 6). None of
this depends on what the layout is, which is a constant there, `Layout`, of a text and
options; the run puts `Format` of Formatter in its place. **EditedText** adds what does depend on the language: tokens, words and
chains looked up by position, and the layout's meaning. A keyword is
spelled with a letter of its own; positions in texts are counted in characters
where the code has bytes, except where the code takes one for the other
(`Bytes`); a glob's segment is the set of names it matches; lines around a
change are one instead of three.

### Proofs and mutants

The proofs (section 5) are in modules of their own. **RunLock_proof** has the
operators of the run lock and **Crew_proof**, which extends it, what the steps of a
crew preserve; **Scheduler_proof**, **Channels_proof** (with FifoChannel),
**HostStream_proof**, **Globals_proof**, **Installation_proof** (with Registries and
Versions) and **LangServer_proof** (with Editing, FmtCommand and Diff) are about the
module each is named for. Operators
preceded by a comment `Mutant:` are plausible bugs next to the definition they would
replace; nothing of the specification uses them.

### Left out on purpose

Of the runtime: operations that change nothing (a yield with an empty queue,
waiting for a routine that has ended, cancelling twice); messages, names and the
numbering of routines; argument checks of externs; the values computed by user
code. `Shutdown` at the end of a failed program leaves routines it woke
undispatched; the model keeps that and stops there (`Terminated`).

### Not modelled

The other plugins (`fs`, `json`, `strings`, `time` and the rest) are calls into
Go libraries; stack traces and diagnostics format text; `toolchain`, `world` and
`pkg/resolver` are small functions without state; the standard library is
Zirric code. The language server's completion, signature help, symbols, rename and commands are large pure functions of a tree
and a position.

## 3. Runs, bounds and what they show

Ten runs pass, two show a statement of the repository the code does not keep.

| Run | Instance | Question |
| --- | --- | --- |
| `scheduler` | 3 routines, 2 scopes | lock, counters, scopes and stops consistent under every interleaving, returns that escape a scope included; deadlock reports neither missed nor premature |
| `scheduler_live` | 3 routines, 1 scope, fair | a ready routine runs; a cancelled one ends; a failed program ends |
| `channels` | 3 routines, capacity 0, 1 or 2, 3 sends | no wake-up lost; no value lost, invented, duplicated or reordered; the promise of `FifoChannel` kept |
| `timers` | 2 routines, a channel of capacity 0 or 1 and a timer, selects in both orders, fair | timers against selects, closes, sends, cancellation; the receiver of a timer is woken |
| `host_stream` | 3 routines of which the root, one other, both or two others read lengths 1 and 2 of 2 bytes, fair | no byte lost or out of order but where section 6 says, a lone reader never stranded and always answered |
| `globals` | 2 routines, globals `a`, `b` where `a` reads itself and `b`, 2 nested calls, 1 switch point each, fair | one initializer at a time; recursion reported only where it is; no nil in a program nobody stopped; a waiting reader answered |
| `language` | about 1300 programs, fair | each is parsed as written, refused only if it could not run, computes what the evaluator does, runs off no function, leaves nothing behind, ends |
| `packages` | 2 programs, 2 libraries, 5 projects, 1 fault, 2 starts | a ready resolver has everything; installed clones are whole; own clones are found; of versions that have an order the newest fitting is cloned |
| `langserver` | 3 files in 2 directories, 2 documents, 4 events, fair | caches fresh, last diagnostics about the present texts, the server comes to rest |
| `formatting` | some 9 600 texts, by up to 2 edits from 12 documents, and one document at 6 places under pairs of 7 exclude patterns | positions agree everywhere, the layout keeps the meaning, the edit and the diff lead to the result |
| `forwarded_return`, `unclosed_interpolation` | one program; one document and one edit | a documented statement the code does not keep (section 6) |

Bounds are constants of the modules (`MaxRoutines`, `MaxScopes`, `MaxValues`,
`MaxBytes`, `MaxCalls`, `MaxSwitches`, `MaxFaults`, `MaxOpens`, `MaxEvents`, the
`edits` of `Starts`). A routine or scope beyond the bound is not created; ids are
used once, so every run of a bounded program is finite except for yielding.

Why they are enough. *Scheduler*: three routines are the least with an owner,
one it waits for and a third that cancels, wakes or overtakes; two scopes are the
least that nest, and with three routines already give one scope owned by the root
and one by a child, or two of one owner. Overtaking in the queue needs one
routine queued and two that are woken or spawned, which three routines and a host
call give. *Channels*: capacity one or two with three values is full, drained and
refilled by a waiting sender, and capacity zero only ever hands over. In
`timers` the timer's goroutine is the third actor besides two routines that both
select, send or close. *Host streams*: two bytes with lengths one and two leave a
remainder in `pending` and let a read ask for more than there is. Liveness is
checked with one scope: waiting chains through two scopes are the safety run's
`StoppedWaitForStopped`. *Globals*: two routines are a reader and an
initializer that gives way; two globals and two nested calls give an initializer
in an initializer, a global that reads itself, directly or from a callback, and two
routines that wait for each other's. *Language*: each construct is set into each
place that treats it differently (a loop of each form in a loop of each form,
each way out of each, every pair of operators grouped either way, chains with
each outcome, closures over each kind of name), and the heads of loops run
three times, so that a first, a middle and a last turn differ; each check of the
analyzer has programs it must refuse, and the same with the type hidden behind a
parameter, a branch, an element or an assignment. *Packages*: two
processes meet at every step of a clone; one fault at any step and a second start
give what is left behind and found again; the references are a release, two
pre-releases whose order by text is not their order by number, a branch, and a
release that appears meanwhile; the projects ask for a range, an interval under
another name, anything of a library without tags, themselves and what is nowhere,
and a language this build does not speak.
*Language server*: a root that imports a module with a file of the root's name
is the least in which the overlay matters; four events are open, change, close
and a request, or two changes with a save between; text 2 does not parse. *Formatting*:
the documents hold nested brackets, switches, comments, interpolations,
characters of two units and blank lines, and every fragment is typed, and
every character erased, at every place; each text is laid out for an editor that asks
for the defaults, though its tabs have another width, and for one that asks for two
spaces and no line break at the end.

The theorems of section 5 do not depend on these bounds.

Deadlock is checked in every run of the runtime and of the language server: the
program ends in `Terminated`, `Stopped` or `Silence` or can go on, which is how a
stalled lock would show even without an invariant. The other runs may stop: a
program ends, an installation is done, there is no further edit.

## 4. Fairness

`HolderRunsOn`: the Go routine that holds the run lock is scheduled by Go and
runs on. It is weak fairness of `\E r : RoutineStep(r)` with its enabling
condition written out (the lock is held and the program has not ended); that the
holder can indeed step is what the deadlock check of every run shows. Fairness is
of the holder, not of each routine: that a ready routine becomes the holder is
what `ReadyRuns` has to show from the queue discipline. `WF(HostReturns(r))`: a
host call answers. For a host that may never answer (a read from a terminal) this
assumes input. `WF(TimerStep)`: Go's timer fires and its function runs on.
`WF(HostAnswers)`, `WF(DeliverToken)`, `WF(Disarm)`: the host answers a read in
flight and the goroutine that issued it runs on. No fairness is assumed of user
code beyond that it runs to some switch point; a program that computes for ever
without one holds the lock for ever, by design (ZE-025). In Globals that is
`UserCodeLetsGo`, beside `WF(SpinRead(r))`, a loop that Go keeps running.

`WF(Execute)` in Pipeline: the machine executes instructions as long as there
are any. In LangServer `WF(Connection)` and `WF(Background)`: Go runs both
threads, and a mutex is handed to whoever waits for it. The client owes nothing.
Installation and Editing state no liveness: a process may be killed or an
editor left alone for ever.

## 5. What is proved

Assumptions are those of the modules: `MaxRoutinesAssumption` (at least one
routine), `MaxScopesAssumption`, `ChannelsAssumption` and `HostStreamAssumption`
(typed constants), `MaxIntAssumption` (an int holds some number), `GlobalsAssumption` and `NoGlobalAssumption` (typed constants, a
name that is no global), `LangServerAssumption` (files are pairs of a directory and
a name), `InstallationAssumption` (a remote has finitely many references, each a branch or a
tag with a text, a manifest a sequence of dependencies), `SemversAssumption` (different
versions are spelled differently), `EditingAssumption` (documents and what is typed are
made of the characters, a line break among them; a document is a file some directory
holds; a request's fields have the types that count) and `DiffContextAssumption` (a natural number of lines). `FormatsAlike` and
`PatchesHold` suppose `LayoutGivesTexts`, that what the layout makes of a text, by the options of any request, is a text
of the same characters: `String` returns its input or what the printer wrote, and TLC
evaluates it of the documents run `formatting` starts with and of every fragment it types
(`MCLayoutGivesTexts`). Nothing is left without proof. The theorems, each for every
value of the constants:

| Module | Theorem | States |
| --- | --- | --- |
| Scheduler | `TypeCorrectness` | `TypeOK`; in particular the two counters of the deadlock check stay natural numbers |
| | `OneRunnerHolds`, `ReadyExactHolds`, `CountersExactHold`, `LockExactHolds` | one routine executes user code, the one the lock names; the ready queue has each ready routine once and is empty when the lock is free; the counters equal what they count; together `LockExact` |
| | `FailureStops` | after a failure no routine is in user code without an error |
| | `NeverStallsHolds` | a lock nobody holds will be brought back by a routine in the host |
| | `DeadlockIsRealHolds` | a deadlock is reported only where everybody else is parked |
| | `StoppedWaitForStoppedHolds` | who must stop waits only for routines that must stop |
| | `ClosedScopesAreEmptyHolds`, `OrphansAreCancelledHolds` | nothing outlives a block but while it is waited for; who outlives its owner is cancelled |
| | `NilMeansCancelledHolds` | no result means cancelled |
| Channels | `DrainedForeverHolds` | nothing enters a closed and drained channel |
| | `OutcomesHold` | what a send answered stays true |
| | `NoLostWakeupHolds` | nobody sleeps through what it waits for |
| | `PromiseKept` | Channels implements FifoChannel |
| HostStream | `NothingIsLost` | bytes arrive whole and in order |
| | `OneReaderIsNoDeadlockHolds` | a lone reader that waits is no deadlock |
| Globals | `OneInitializerHolds` | one initializer of a global at a time |
| | `NilOnlyAfterAStopHolds` | no value means a failure or a stop |
| | `RecursionIsRealHolds` | who is told of recursion has recursed |
| Installation | `WholeClones` | an installed clone is whole, or was cut short |
| | `NeverClonedTwice` | nobody clones what it could have found |
| | `ReadyIsResolved` | a ready resolver has what the manifest asks for |
| | `NewestIsCloned` | what is cloned is the newest version admitted, where the versions admitted are orderly |
| LangServer | `CachesAreAlwaysFresh` | a cached module is what its files are now |
| | `LatestIsAlwaysJudged` | at rest, diagnostics are about the present texts |
| Editing | `FormatsAlike` | a formatting reply leaves the layout the editor asked for, and what `zirric fmt` writes if it asked for the defaults, of a file the command finds |
| | `PatchesHold` | the diff of two texts turns the one into the other |

*The run lock.* `Sound(s)` says that lock, queue and counters
agree; it holds between critical sections. Inside one it is broken: the routine
that runs may be marked parked, in the host or ended while `running` still names
it. That is `Mid`. Lemmas show that waking keeps `Mid`, that dispatching an idle
`Mid` lock gives `Sound`, and that releasing a `Mid` lock nobody runs under gives
`Sound`, deadlock check included; the lemmas of the exported operators follow.
Their preconditions (the caller holds the lock) are not invariants of the lock
alone: `UserRuns` says that only the holder is in user code, and together
with `FailureStopsUserCode`, which the steps rely on (a routine in user code has
seen no failure), and `CloseInside`, which types the scope a `ResumeClose` looks
at, it makes `IInv` of Scheduler_proof inductive. `HolderStep` is the common part of
all steps of the holder. Counting is the part that needs care: waking `q` decreases
`parked` by `Len(q)`, and is right because `q` enumerates distinct parked routines
(`ParkedLockedWakeable`, `ParkedAmongWakeable`, `OrdersWakeable`), which rests on
`AscendingEnumerates`: the k-th smallest element of a finite set of integers
exists and is found once.

*Routines and scopes.* Two invariants stand on `IInv`. `Tree` is about who belongs to
whom: routines and scopes are numbered in the order they come to be, the owner of a
scope came before every routine in it, an open scope is inside its owner, a live
routine is in a scope that is open, cancelled or, once its body is over, still waited
for, and the live routines of a cancelled scope are cancelled. `Waits` is about who is
parked and why: at the end of a scope in the waiter list of one of its routines that
has not ended, and once told to stop nowhere else and at the end of cancelled scopes
only. Both are proved one action at a time over the common `LockStep`, since what a
step does to others through the lock is the same for all. `NeverStalls` then has two
cases. Without a failure an idle lock has been through the deadlock check. After one,
everybody parked waits at the end of a scope, for a routine of a greater id, so the
live routine with the greatest id cannot be parked; it must be in the host.

*Crews, with reads and timers in flight.* A goroutine that will wake somebody is
counted in `external` beside the routines in the host, so `Sound` is not true of
Channels and HostStream. But no routine of a crew is in the host: `Bare(s)`, the lock
with `external` set to zero, is sound, and the operators do the same to both but for
the deadlock check. `ParkLock` to `EndLock` carry the lemmas of RunLock_proof over (`Lock`, `MidLock`). `Turns` says what an
operator of the lock may do to routines other than its caller (wake them and hand the
lock to one of them, no more), and that a deadlock is found only with nothing external
and nobody about to run; it composes, so that a step of several operators has it by
`TurnsTrans`.

*Channels.* What a send answers depends on its taken flag: `SendsAreTold` says that
the flag of a send that has not returned is set exactly if its value has come into
the channel (`Inside`: in the buffer or received). With it go `QueuedWait` (an entry
of a senders list belongs to a routine in that send, once, not taken), `SendsDiffer`
and `NumbersAreNew` (no two sends share a number). A take moves one value, and with
it tells one sender or none (`TakeMoves`); every other step is one of four kinds:
no send moves, one ends, one queues, one is told (`NoSendMoves`, `SendEnds`,
`SendQueues`, `SenderIsTold`). Nothing is assumed of the run lock: the flag makes
the answer right whoever wakes whom and when. `DrainedForever` needs the types and
that a step changes a closed, drained channel in its receivers only.

`NoLostWakeup` does rest on the lock. `WInv` says where the entries of a waiter are
and for what it may be parked (`SelectWaits`, `SendWaits`), and that a channel has
senders waiting only while it has no room (`ChannelWaits`). It is inductive because
each step owes something to the routines that do not take it, `Heeds`: it leaves them
where they are and wakes them for a reason alone, and whenever it makes one of their
waits pointless (a value to take, room, a close, a stop) it wakes them. That a step
heeds the others is proved for each operation of channel.go, and that who heeds keeps
`WInv` once, for all.

The refinement shows for each step what FifoChannel sees: an arrival (a send, queued
or into the buffer), a departure (a take), a withdrawal (a stopped send that was not
taken), a close, or nothing. The abstract queue is the buffer followed by the waiting
senders' values, so moving a sender's value up changes nothing. What it needs beside
`WInv` is `IInv`: who withdraws has its value in the list still.

*Host streams.* `HInv` has who may be inside a read (`Belongs`; who reads in place is
the root, alone in the program, with nothing in flight), who is in the list of `ready` (`Listed`; a
waiter is parked only while nothing is announced), and that `external` counts the read
in flight, the tokens to deliver and those to disarm (`Counted`). On these rest both
results. `InOrder`: the bytes handed out and then those kept are all that were delivered, up to
the first overtaking or the first failure that drops some; an overtaking takes two
readers, since a lone one finds `pending` empty whenever it reads in place
(`LoneIsExact`). And no false deadlock: a deadlock is found only with nothing
external and nobody about to run (`Turns`). While a lone reader asks, exactly one read
is in flight or announced (`LoneIsExact` again); if nothing is external it is
announced, as a token in `ready`, but who is parked there has an empty `ready`.

*Lazy globals.* `OneInitializer` counts activities by a cardinality; `Claimed`
says the same without counting (a slot is marked exactly if somebody is inside
it, and any two places inside it are one) and is inductive together with the
types. The argument is about sequences: beginning an activity adds one place,
ending one removes the last, counting down its switch points moves none
(`BegunInside`, `EndedInside`, `SpentInside`). The run lock plays no part: the
claim alone keeps others out, wherever a routine gives way. `FInv`
says that a slot without a value has an error on its way up behind it
(`NilIsAFailure`) and that who spins does so for a claim that is not its own
(`WaitersAreNotOwners`). `RInv` relates the frames on the main machine to who
pushed them, and the task id noted with each claim to the routine inside
(`Known`): it is one of the routine's own or the main program's first, under which
initializers run. So an equal task id means the reader itself, unless it is that one.

*Packages.* Two invariants, neither of which needs the other. `IInv` is about the
disk: a place has one clone (`ClonesWell`); what a resolver has installed, completed or
seen has its references fetched (`LooksWell`); a clone that is not checked out has a
process at it or was cut short (`HeadedIsBusy`). Clones change by `Advance` and
`Abandon` alone, and neither takes away what was fetched, so that a step of one process
leaves the others well. That nobody clones what it could have found takes what a
registry computes: whatever version Git offers, a directory of that name is found under
it again (`CloneIsAvailable`), because a version reads as its own text (`ParsedReads`),
so had the clone been seen, it would have fitted, and Git would not have been asked
(`OfferedIsNew`).

`RInv` is about one resolver at a time. `Resolves` says what each stage has promised:
the queue of a task is as long as what is completed and absent, and those that are
completed answer to those in the queue (`Progress`); a task for the dependencies has
everything in its queue that is not settled already (`Enough`), a task for the project
comes after all is settled, or after a failure that is remembered. What makes it
inductive over retries is `AllSettled(r) \/ OnlyOwn(r)`: a failed try keeps nothing of the
dependencies, so before they are all settled only the project itself is installed, and
`hasDependency` can be deceived by nothing else.

That the newest version is cloned is about the sort, and `RInv` only carries it from
the offer to the clone (`Picked`). It goes in four steps. Texts are totally ordered
(`TextTransitive`, `TextTotal`; both texts are described by the place where they part,
`TextParts`), so that listing the references by text lists each once. `Less` is
irreflexive and transitive among orderly versions and HEAD (`LessOrders`): numbers are
compared as numbers and words as texts, and `PartAlike` sees to it that three pre-releases
that part at the same place are of one kind there, for semver.org and for `strconv.Atoi`. An insertion keeps a descending list
descending and loses nothing (`InsertedInOrder`, `InsertedKeeps`), hence so does the sort
(`OfferedIs`). And `Precedes` implies `Less` on what is orderly
(`PrecedesIsBefore`), so that nothing admitted precedes the first. Longer lists take
that `Less` is total, too (`SemverTotal`): then the insertions show that there is a
descending rearrangement (`InsertionsOrder`), and `Partitioned` is one (`PartitionedIs`).

What the recursive functions compute is proved without induction over data: the
function exists because the least index up to which none does would have one
(`Computed`, from the well-foundedness of the natural numbers), and a claim about each
of its values holds because the least index at which it fails does not exist (`Least`).

*The language server.* `CachesAreFresh` speaks of moments when no notification
is being handled, and says nothing of a thread that read a file before the
notification and caches it afterwards. `IInv` says what such a thread holds in its hands:
once the first cache has been cleared, everything read under its mutex is
current (`ReadsAreFresh`), and likewise for the second (`ImportsAreFresh`). It
is inductive because a cache is cleared under the mutex its readers hold while
they read: nobody is reading at that moment, and who reads later reads the new
texts. `LatestIsJudged` speaks of a server at rest; `DInv` says what is on the way
there: unless a notification is being handled, the newest pass waits for its turn, or
runs on fresh reads, or is done and every open document is judged. Passes are numbered, a pass
that is not the newest has its turn before it, and one that finds itself superseded
publishes nothing over what the newest published.

*Texts.* The inductive invariant is small: the server has the text the editor has
(`Agree`), and the file is one a directory holds (`FileIs`). Nearly all is in what the
functions compute. A place is counted in three ways: the editor by the line breaks in
front of it (`Place`), the server one character after the other (`PositionForOffset`),
the protocol library by rows (`IndexIn`). `SamePlace` and `PositionIs` show that the first two
agree, `EditorFinds` and `LibraryFinds` that the editor and the library find an offset
again by its place, because places ascend (`PlacesAscend`), so that a change arrives
whole (`StoreFollows`). `MinimalEditIs` is about lines: a text is its lines put
together (`SplitAfterIs`), and what two texts have alike at the beginning and at the
end, counted so that the two do not overlap, may stay. That the walk finds the file
takes that a pattern that matches a directory matches what is in it (`MatchGrows`).

A diff shows both texts whichever of them goes on at each step (`WalkedOn`,
`DiffShowsBoth`), so the table of common subsequences makes it short and never wrong.
Of the hunks, `Rebuilds` says after each edit that they are where they say in what both
texts have shown so far, and that with the lines in between they make up the new one; and
a line that is kept goes on in the last hunk, which ends where both texts do (`AtEnd`). An
edit outside of the hunks is no change (`LineKept`), one inside lengthens the hunk and
both texts alike (`HunkGrows`), and a hunk opens empty (`OpenHunk`). How many lines of
context there are does not matter.

Only model-checked:

* liveness: `ReadyRuns`, `CancelledEnds`, `FailureEndsProgram`, `TimerWakes`,
  `ReadsAnswered`, `ReadsEnd`, `Finishes`, `Settles`. Liveness under fairness and
  `ENABLED` are beyond the prover;
* the language (`ParsesAsWritten`, `RunsToReference`, `NeverRunsOff`,
  `NothingLeftBehind`): what parser, compiler and evaluator make of a program is
  recursion over its tree, and a proof an induction over trees, which the prover
  cannot do;
* the tokens (`TokensAreWhereTheySay`, `LayoutKeepsMeaning`): what lexer and printer
  make of a text is recursion over its nested interpolations, with the same
  consequence.

## 6. Findings

Statements of the repository that its code does not keep, with quotations in
`PROJECT.json`. Two have a run whose counterexample shows them:

1. `forwarded_return`: a `return` in a loop body whose iterate function itself
   loops over another iterable is stopped at the inner iterator; the function
   does not return.
2. `unclosed_interpolation`: a line break typed behind an interpolation that has
   no parenthesis yet is taken for the closing quote, and formatting deletes it.

The others follow from one definition each, or from a step a property names:

* Scheduler: `Cancel` of the scope the caller was spawned into marks the caller
  too; `return` out of a `for` body skips `CloseScope`, so that routines outlive
  their scope; a body that panics inside `co.scope` waits for its routines
  without stopping them.
* Host streams: the second of two readers is left waiting and reported as
  deadlocked; a read completing between two sections of `hr.mu` is overtaken by
  `readHere`; `ReadHere` drops bytes delivered together with a failure.
* Globals: initializers share the main machine's stack whoever runs them; a
  cancelled reader spins without giving way.
* Type checker: five ways to refuse a program that runs (`SuspectedPrograms` of
  MCPipeline): a compound assignment changes what a variable holds; arrays or
  functions that differ inside count as one type; what a branch proves of a name
  outlives an assignment to it; an element of an array without a hint is given
  something else; a loop in a branch is checked once more as if it stood outside.
* Language: temporaries of a collected loop overlap those of the loop around it
  (`CollidingPrograms` of MCPipeline has the programs); arguments are compiled
  before the callee; comparisons associate; leaving a loop by `return` does not
  make `yield` answer `false`.
* Formatting: a comment before the end of an interpolation is deleted; a
  directory named on the command line is skipped for its name; a request's tab
  size, spaces and final newline overrule the layout `zirric fmt` has; a column in UTF-16 units is used as one in bytes.
* Language server: an imported module is read through an overlay that names
  documents from the root; a cancelled pass leaves the diagnostics of closed
  documents in the editor.
* Packages: every branch sorts before every release; branches and pre-releases are
  compared by their text, so that the order is not transitive: with a branch `1.5.x`
  and the tags `1.9.0-rc` and `1.9.5`, a dependency without predicates is offered
  `1.9.0-rc`; a number and a word among pre-release identifiers are compared by text as
  well; a space behind a comparison
  makes its version a verbal one; what was found beside a missing dependency is
  recorded as missing, too.

Where a property would be false for such a reason it says so in its own words:
`NewestTagIsCloned` is about orderly versions, `LatestIsJudged` admits a module read through the wrong overlay, `OneReaderIsNoDeadlock`
is about a lone reader, `StoppedWaitForStopped` starts from a routine that must stop;
`NothingLost` excepts bytes that came together with a failure or were overtaken, and
says that only the program's own routine overtakes, where others read as well;
`RecursionIsReal` excepts the externs that spawned routines call inside
initializers. The last exception was found by proving: all of them resolve globals as
the main program does, so that one can be told of a recursion that is another's
claim. It takes three routines, one more than run `globals` has, to see.

## 7. Plan

Done: the scheduler, channels, timers, host streams, globals and the language server's
diagnostics and packages with the proofs of their safety properties; the language from
text to result, the analyzer's type checks included; lexer, formatter and
`zirric fmt`, with proofs of what does not depend on the language. What is left, in
this order:

1. A proof about Machine: that no instruction pops from an empty stack of what the
   compiler emits for a single expression. It takes a Machine and a Compiler without
   `RECURSIVE` operators.
2. Two schedulers on one standard input (`runtime/plugin-os.go:127`): HostStream
   with a token channel that belongs to the first.
3. Module-level values, imports and incremental compilation: `Globals` under
   `Pipeline`; dictionaries and attributes made at run time in `Machine`.
4. Type hints: programs that carry them, and the checks against them.
5. Completion, rename and symbols of the language server over `Syntax`.
