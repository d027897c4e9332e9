# PseudoPilot, verified

TLA+ models of [PseudoPilot](../src/README.md), a browser IDE for Cambridge 9618
pseudocode: an editor pair with live translation to and from Python, a checker,
an interpreter that runs in a Web Worker, and a debugger. TLC checks the models
on small instances; TLAPS proves the main safety properties of the concurrent
and stateful parts for instances of any size. `PROJECT.json` lists the runs, the
mutants that show each property can fail, the source lines of each definition,
the hazards and the theorems.

## 1. The system

    CodeSurface <-> usePseudocodeTranslation -> BidirectionalSync -> translator
         |                                                             |
      IdeShell ---- workspacePersistence (localStorage)                |
         |                                                             v
      RuntimeController -> WorkerController == port == WorkerSessionRunner
                                                        |   |        |
                                         WorkerDebuggerBridge |  WorkerRuntimeHost
                                                |       Interpreter      |
                                          DebuggerSession     VirtualFileSystem
      Monaco providers -> LanguageService -> IncrementalCompiler -> parse, check

      text -> lexer -> parser -> AST -> checker -> interpreter
                                  |        |
                                  |        +-> occurrences, rename
                                  +-> lowering -> Python

| Component | State | Operations | What makes it correct |
| --- | --- | --- | --- |
| `RuntimeController` | run state, generation, session id, resolver of the run promise, pause location, breakpoints | run, stepIntoFromIdle, stop, restart, pause, continue, steps, submitInput, breakpoint edits, recreateWorker, dispose, one handler per worker event | the UI shows what the worker does; a run settles its promise once; late events of old sessions change nothing |
| `WorkerController` and port | port, ready flag, queue of unsent commands | post, flushPending, respawn after a crash, recreate, terminate | commands arrive in order, none reaches a dead worker |
| `WorkerSessionRunner` | current session, its abort signal, host and debugger, the promise later runs wait for | run, stop, pause, continue, steps, input, setBreakpoints, execute | stopped programs do not run on; a run that waits gets its turn |
| `DebuggerSession` | mode, depth of the step, pause request, gate, mirrored stack | steps, continue, requestPause, cancel, the three hooks | a program stops exactly where it was asked to |
| Interpreter and `CallStack` | frames, step counter | tick, yield, calls, RETURN, errors | frames balance, limits hold |
| `VirtualFileSystem` | bodies of files, open handles | open, close, readLine, writeLine, eof, seek, getRecord, putRecord | records are values; readers are not disturbed; modes and bodies agree |
| `check-files` | which literal paths are open, and how | the same statements, along the text | it refuses what would fail, and only that |
| `BidirectionalSync` | two buffers, two last good texts, timers, status | edit, timer, bootstrap, restoreBuffers | an edit is not overwritten; the chip says what is true |
| `CodeSurface`, `IdeShell`, storage | Monaco models, rendered texts, autosave timer, stored snapshot | keystroke, new file, mount, render, echo, autosave, save, unload, load | editors converge to the controller; a refresh loses nothing |
| `IncrementalCompiler`, `DependencyGraph` | per document: text, version, AST, outputs of the check, stage flags; edges between documents | update, close, compile, invalidate, setDependencies | what is cached is what the valid stages vouch for; a change reaches all dependents; late versions lose |
| `CompilerService`, `LanguageService` | analyses, hover and completion memos, the text these were made for | open, update, analyze, close, compile, queries | answers are about the current text, whoever was told of the change |
| Lexer, parser | tokens, read head, errors | one function per construct, recovery, nesting limits | what is printed reads back; nothing is lost without an error; an error costs only what it is in |
| Checker | type table, scopes, symbols, diagnostics | one function per statement and expression | what it accepts runs without an error of types or names |
| Interpreter: values | heap of places, stack of environments, registries | one function per statement and expression | values are of their declared types and are shared only where the language says so |
| Occurrence index, rename | per analysis | walk, references, prepareRename, rename | a rename changes no outcome |
| Translator to Python | shapes, scopes, cells, copies | lower, print | Python does what the pseudocode does |

Hard behaviours: two threads with queues between them, `await` points at which a
session can be overtaken, a worker that dies, timers against edits, renders that
lag behind the controller, Monaco loading late, and JavaScript objects shared by
reference behind a language whose records are values. In the language itself:
places that outlive what they name, an interpreter that trusts the checker,
recovery in the middle of a text, and two languages that round, index, copy and
scope differently.

## 2. Modules

| Module | Models |
| --- | --- |
| `RuntimeProtocol` | run states and their transition table; commands and events of the worker protocol |
| `RuntimeController` | main thread: `RuntimeController` over `WorkerController` |
| `WorkerSession` | worker: `WorkerSessionRunner`, host, debugger gate, and the interpreter's ticks and yields |
| `ExecutionSystem` | the two composed by the port's queues; fairness; properties; `RunInv` |
| `RunLifecycle` | abstract: what `run()` promises its caller |
| `DebugStepping` | `CallStack`, `DebuggerSession`, routine calls, the debugger commands |
| `VirtualFileSystem` | files and record variables over a heap of shared objects |
| `FileChecker` | the open state the checker tracks |
| `FileIO` | a straight-line program, checked and run statement by statement |
| `FileStore` | abstract: records and files as values |
| `BidirectionalSync` | the live translation controller |
| `LiveIde` | editors, renders and workspace storage around it |
| `DependencyGraph` | the adjacency maps, and what a dependency is |
| `IncrementalCompiler` | one document's entry in the staged cache |
| `LanguageService` | analyses and memos over an entry |
| `CompilerSession` | all documents, behind `CompilerService` and `LanguageService` |
| `SyntaxTree` | the AST, one constructor per node |
| `Lexer`, `ExpressionParser`, `Parser` | text to tokens to AST, with recovery and the nesting limits |
| `Printer` | AST back to pseudocode |
| `ParseRun` | a program is printed, its text edited, and parsed again |
| `TypeSystem`, `Checker` | types and class tables; the walk of the checker |
| `Occurrences` | the index of occurrences and the rename made from it |
| `Scalars` | division, the slots of an array, the turns of a FOR, the order of texts and their parts, in pseudocode and in Python |
| `RuntimeValues`, `Evaluator` | values and the store; statements and expressions |
| `ProgramRun` | a program is written, checked, perhaps renamed, and run |
| `Lowering`, `PythonPrinter` | AST to the translator's tree to Python |
| `PythonProgram` | what Python makes of it (external, but for the helpers the printer emits) |
| `Translation` | interpreter and Python side by side |
| `ExecutionSystem_proofs`, `ExecutionOrder_proofs`, `ExecutionDialogue_proofs` | its types and run lifecycle; the order in which sessions begin, wait and speak; the dialogue between student and program |
| `PureFunctions_proofs`, `CompilerSession_proofs` | the breadth-first search and the operators of `Scalars`; the caches and all documents |
| `DebugStepping_proofs`, `FileIO_proofs`, `LiveIde_proofs` | the theorems of each system |
| `MC*` | the values TLC gives to the constants of the modules whose instances need functions (the others take plain sets, in their `.cfg`) |

### Execution (`RuntimeController`, `WorkerSession`, `ExecutionSystem`)

One action is one macrotask of a thread. On the main thread these are the click
handlers (`Run`, `Stop`, `Restart`, `Pause`, `Resume`, `SubmitInput`,
`EditBreakpoint`) and the delivery of one event (`DeliverEvent`,
`DeliverCrash`); `Restart` includes the microtasks up to the new run. In the
worker they are a command (`HandleWorkerCommand`) and a timer (`TimerFires`).
The microtasks between them are actions as well (`Begin`, `Tick`, ...), and
`Quiet` makes every macrotask wait for them, as the event loop does. Sessions
woken by the same promise start in the order they queued.

What a program does is open: at each statement it may print, ask for INPUT,
fail, finish or go on. A session is a record of its phase, the session it waits
for, its abort signal, its steps and its debugger fields. `toWorker` and
`fromWorker` are the port, FIFO in both directions; an event carries the session
that posted it. Crashes, recreation, disposal and a rejected `run()` are the
faults, bounded by `MaxFaults`; they lose what is in flight.

Abstracted: program text, variable rows, diagnostics, progress events. Of the
console only the lines delivered to the main thread are counted, per session;
what the console then keeps of them (the last 2000, or none after clearConsole)
is not modelled, and no property speaks of it. Integers never overflow here:
counters are bounded by the instance.

### Stepping (`DebugStepping`)

The interpreter loops tick, yield, body; a body may call a routine, return, end
a FUNCTION without RETURN, fail or finish. Commands arrive only while the
interpreter awaits (`Awaiting`). `asked` records what the student last asked
for and at which depth; the properties compare where the program stops with it.

### Files (`VirtualFileSystem`, `FileChecker`, `FileIO`)

In the interpreter a record is a `Map` and assignment copies it with
`cloneValue`. The model keeps identities: variables and slots of random files
hold objects, objects hold cells. Identities that nothing holds are used again,
which keeps the heap finite without losing any sharing. Each statement is first
checked, then run; the first runtime error ends the program, and what the
checker made of the statements up to it is compared with that error. The
statements walk the text in order, so the model is a program without IF or
loops; the code itself calls its check best-effort inside those.

### Live translation (`BidirectionalSync`, `LiveIde`)

Texts are model values and the two translators a constant function that may
refuse and need not be invertible: in the instance it is lossy (`p2` and `p1`
have the same Python) and each pane has a text that is refused. An edit, its
`emit` and its render are one action, because React renders discrete events
before the next task; a translation and its render are two (`Translation`,
`Render`), because it happens in a timer. `Echo` is Monaco's change event for a
text the IDE applied itself: `suppressChangeRef` normally drops it, but the flag
is reset in a microtask, so the model lets it come late or not at all.

### Compiler and language service (`DependencyGraph`, `IncrementalCompiler`, `LanguageService`, `CompilerSession`)

`createCompilerSession` puts one compiler behind two services, and a client may
use either. Every call is synchronous, so an action is a call; the hard part is
the order of calls and what each of the caches believes in between. `session[u]`
is all that compiler and language service keep of a document: the entry with its
stage flags, the analysis, the text the memos were made for, and the memos by
fingerprint. parse and check are functions of the text, so an AST or a check
result is represented by the text it came from; a wrong answer is one drawn from
another text, or from an analysis without its check. `DependencyGraph` keeps two
maps that must be inverse; its search is a recursive function.

Abstracted: positions (memos of different positions never meet), hover and
completion as one memo (the same lines fill and clear both), what the queries
compute from an analysis. The flags `translate` and `interpret` are never set by
anything and have no field. A client that writes to the shared compiler without
either service gets no promise from the code and is not modelled; neither is
`clear`, which no service calls on a shared compiler.

### Programs (`SyntaxTree`, `TypeSystem`, `Checker`, `RuntimeValues`, `Evaluator`, `ProgramRun`)

The operators have the names of the functions they translate. A checker function
maps an expression to its type and diagnostics, or a context to the next; an
interpreter function maps a machine to a machine, or to a machine and a value.
An exception is `ctl`, which every later step looks at. Each family recurses
through one dispatching operator (`checkNode`, `interpretNode`, and below
`parseGoal`, `parseBlock`, `lowerStatement`, `renamedNode`), because TLC
evaluates mutual recursion poorly. Values are references into `heap` exactly
where JavaScript's are: a record is copied by `copyOf` where the code calls
`cloneValue`, and a BYREF parameter or a pointer is a place, resolved when it is
used. Numbers are exact: a REAL is a reduced fraction, and a REAL literal of the
tree counts halves. Identifiers stand for their case-folded keys.

A behaviour of `ProgramRun` is the life of a program: the declarations of a
world, statements appended from its pool in any order, the check, at most one
rename, and the run. The worlds hold right and wrong statements, so that the
checker has something to refuse: an assignment downcasts, a constant is passed
BYREF, a pointer outlives its local.

### Rename (`Occurrences`)

The index of `occurrences.ts` walks the program with the symbols the checker
left and gives every name the key of its symbol; a rename replaces the names
under one key, if no symbol of the same container has the new name. The model
resolves and replaces in one walk. `RenameKeepsMeaning` runs the program before
and after and compares error, output and store.

### Parsing (`Lexer`, `ExpressionParser`, `Parser`, `Printer`, `ParseRun`)

A text is a sequence of characters; the letters of a word stand together as
one. The parser is a record of tokens, read head, errors and what encloses it,
and every function returns it advanced. `ParseRun` prints a program and then
removes or types one character anywhere. The printer is the code's own
(`cambridge/print.ts`), which the translator uses; parser and printer check each
other.

### Translation (`Lowering`, `PythonPrinter`, `PythonProgram`, `Translation`)

Lowering decides shapes, lower bounds, copies and cells; the printer decides
operators, helpers, names and parentheses. Its text is represented by the tree
Python reads from it: where Python groups a text otherwise than the tree it was
printed from, so does `Grouped`. `PythonProgram` is a small Python: names local
or global per function, objects and lists by reference, `super`, dataclasses,
`deepcopy`, and the `_pp_` helpers translated from what the printer emits. File
statements are lowered (`lowerFileStatement`), but no world has them and their
Python is not modelled.

## 3. What is checked

`CHECK_DEADLOCK FALSE` everywhere: an IDE in which nobody types, and a program
that finished, really stop.

| Run | Instance | Shows |
| --- | --- | --- |
| `execution_live` | 3 generations, 1 Pause click or breakpoint edit, 2 statements, a yield every 2 | `RunningEnds`, `StopTakesEffect` |
| `execution_safety` | 4 generations, 1 click, 1 fault, 2 statements, a yield at each; 5 generations with neither click nor fault (`ThirdIsPlain`) | `RunInv`, `NoSilentStall`, `PromiseTracksState`, `PromptIsAwaited`, `PausedIsParked`, `FinishedDeliveredAllOutput`, `EndedStaysEnded`, `ImplementsLifecycle`, `StoppedRunsNoMore` |
| `debug_stepping` | depth 3, 3 calls, 2 lines | `StackBounded`, `StopsExactlyWhenAsked`, `PauseStops`, `CancelEnds`, types |
| `file_io` | 2 paths, 2 variables, 2 values, 2 record addresses, files of 2 lines | `CheckedExactly`, `ReaderUndisturbed`, `EofForetellsRead`, `ImplementsFileStore`, types |
| `live_sync` | 4 texts in each pane, 3 edits, 2 page loads | `ChipTellsTruth`, `EditIsKept`, `RefreshKeepsWork`, `Settles` |
| `compiler_session` | 3 documents, 2 of them open at once, 2 texts of one fingerprint, versions 0 and 1 | `AnswersAreCurrent`, `LanguageStageIsEarned`, `NothingKeptAfterClose`, `DependentsSpoiled`, `LateUpdatesLose` |
| `programs` | 4 worlds, 2 statements from pools of 24 to 31, 1 rename to a fresh name or to a taken one | `AcceptedProgramsDoNotGoWrong`, `StoreIsWellTyped`, `RecordsAreNotShared`, `RenameKeepsMeaning` |
| `parsing` | one program per construct and pair of operators, 1 edit, nesting limit 3 | `PrintedTextReparses`, `SilentMeansFaithful`, `UnclosedCallKeepsItsBlock`, `DeepNestingIsContained` |
| `translation` | 4 worlds, 2 statements | `PythonKeepsInStep`, `PythonRecordsAreNotShared` |

Why the bounds are enough. A Run uses a generation, a Stop one, a Restart two.
Four of them hold two sessions at once in the worker, one running or winding
down and one queued behind it, with every way to get there and every fault. With
five a third session joins (Run, Restart, Restart), so that two wait for one
promise, start together when it settles and overtake each other. The state
constraint `ThirdIsPlain` lets the fifth generation come only to a behaviour
that has seen no fault, no Pause click and no breakpoint edit: programs started
in `stepInto` pause there all the same, and Stop needs no click (1.8 million
states in all). The theorems hold for any number of sessions. Two statements are
a first one (which `Begin` runs differently) and a later one, with and without a
yield. Three frames are the global one, a call, and a call to step over from
within it. Two lines in a file are one read and one at its end. In `live_sync`
three edits are an edit, one that races its translation and one in the other
pane. Three documents are the shortest chain, and the third may be the closed
one in its middle; two texts are the old and the new one, and sharing a
fingerprint they are the worst pair; version 1 lets version 0 be late. Documents
are interchangeable (symmetry). Two statements after a world's declarations are
a store and a use of it: a pointer is set and followed, an instance is assigned
up and passed down, a record is copied and one of the two changed. `maxSteps`,
`maxCallDepth` and `Fuel` are above what any loop or recursion of the worlds
needs, except for those that do not end. One edit is what a keystroke leaves
between two parses.

Three runs show where the code differs from what the repository says of it
(`findings`): `execution_recreate` (a crash leaves the UI busy),
`parsing_nesting` (ELSE IF in a block nested too deep), `translation_byref` (a
whole record assigned to a BYREF parameter).

Some definitions state what the repository promises and the code does not keep;
no run claims them:

- `SingleExecution` (`ExecutionSystem`): two queued runs woken by one promise
  execute together (`workerSession.ts:36-42`; `runtime/README.md:58` promises
  one). What `execution_safety` shows holds in spite of it.
- `BreakpointsSynced`: a breakpoint set while its run is queued is dropped
  (`workerSession.ts:95`; `debugger/README.md:31-32`).
- `PeerWasGood` (`LiveIde`): a session stored while one text was refused is
  restored as good (`bidirectionalSync.ts:198`; `apps/web/README.md:35`).

`NoOutputLost`, `TransitionsAreLegal`, `OpenMatchesBody`, `OutputsMatchStages`,
`MirrorIsStack`, `GraphIsInverse` and the types of `CompilerSession` are stated
and proved (section 4), and no run lists them.
`NoSilentStall` is about a worker that does not fail: a crash leaves the UI busy
with nobody to answer, which `execution_recreate` shows.

Fairness. `ExecutionSystem`: delivery of a posted message, the handling of a
command, and the steps of each session are weakly fair: these are event loops of
a browser, which run what is due. `DebugStepping`: the interpreter runs.
`LiveIde`: timers fire, React renders, Monaco loads. The user and the student
are never fair: nobody has to press anything, and no fault has to happen.

## 4. What is proved

For every value of the constants that their assumptions allow:

- `ExecutionSystem_proofs`: `TypeOK`, `PromiseTracksState`, `EndedStaysEnded`
  and the refinement of `RunLifecycle`. The argument is the invariant `RunInv`.
  A stale event is harmless only if nothing that is not busy can still speak
  under the current generation (`Quiesced`). That needs three facts: sessions
  speak with ids the controller gave out (`Issued`), each run command is on its
  way once and before its session begins (`RunsOnce`, `OneQueue`), and the
  terminal event of a session is the last it posts (`LastWords`). With them the
  resolver, the promise and the busy state belong to one session (`RunTracked`).
- `ExecutionOrder_proofs` and `ExecutionDialogue_proofs`: `PausedIsParked`,
  `PromptIsAwaited`, `NoOutputLost`, `FinishedDeliveredAllOutput`,
  `NoSilentStall`, `StoppedRunsNoMore` and `TransitionsAreLegal`, from
  `DialogueInv`, which holds together with `RunInv` and has five parts.
  - `OrderInv`: runs arrive in the order of their ids; whoever is queued waits
    for the promise the runner holds now, and that of a session that lives; the
    newest session that lives is the current one; a signal is aborted only
    where the session looks at it next. Without the first part a queued session
    could begin under a newer one, and a Stop would reach the wrong program.
  - `TurnInv`: program and student take turns. An event that suspends the run is
    the last the program said (`AskIsLast`); a UI that shows the suspension has
    heard all of it (`SuspendedTogether`); a resume or a line of input finds the
    program waiting for it and is the only one (`AnswerIsAwaited`). None of the
    three holds without the other two: each is what the next message turns into.
  - `LostAreSilent`: a session whose worker died is not heard of again.
  - `OutputInv`: lines said are lines delivered plus lines in the port.
  - `MessageUnderway`: without faults a run that is not where the student thinks
    it is has a message on its way that says so. It is what rules out the stall.
- `DebugStepping_proofs`: `MirrorIsStack`, `StackBounded`,
  `StopsExactlyWhenAsked`, from `StepInv`: there is a pause location exactly
  while parked and it is the depth of the stack; a step in progress measures
  from the depth it was asked at; a cancelled session has an aborted signal.
- `FileIO_proofs`: `OpenMatchesBody`, `CheckedExactly`, `ReaderUndisturbed`,
  `EofForetellsRead` and the refinement of `FileStore`, from `FileInv`. The
  heart is `Unshared`: every object is held by one place and every cell by one
  object, kept because each path by which a record moves ends in `cloneValue`.
- `LiveIde_proofs`: `ChipTellsTruth`, `EditIsKept` and `RefreshKeepsWork`, from
  `IdeInv`: an echo can only repeat what the controller holds, no timer is armed
  that would rewrite the pane the user edited last, and what the autosave timer
  is done with is stored (`RestIsStored`). The translators are arbitrary.
- `PureFunctions_proofs`, on the breadth-first search: after as many waves as
  there are documents it is closed, for a wave that is not adds a document; had
  it missed a dependent, the missed ones would be closed under the lists and not
  hold the document they depend on. The waves are a recursive function, and the
  proof an induction: TLAPS takes no induction theorem that is given a
  predicate, so the module proves from `WFMin` that a set of numbers has a least
  one (`LeastNumber`), and inducts over sets (`UpTo`, `DownTo`).
- `PureFunctions_proofs`, on `Scalars`, for all texts and all numbers (the
  code's are doubles, which hold the quotients of integers up to 2^53):
  - `DivisionLaw` and `FloorIsNotDiv`: DIV and MOD belong together, and Python's
    `//` is DIV only where the signs agree or nothing is left over, so that
    `_pp_div` and `_pp_mod` are needed.
  - `ElementsHaveSlots` and `ElementsAreApart`: in an array of any rank and any
    bounds an index has a slot within the array if and only if it is in bounds,
    and different elements have different slots. The code multiplies the
    dimensions from the front for the size and from the back for the strides; an
    induction over the dimensions shows that both meet (`SizeIsFirstStride`),
    another that what lies behind dimension d is less than its stride.
  - `ForTurnsAgree` and `HiddenDescentFallsShort`: the printer looks at the text
    of a step, not at its value (`isDescending`), to decide which way the range
    runs. A FOR whose body leaves the variable alone has the turns of the range
    printed for it, if the step is positive, however it is written, or a
    negative literal; a step that is negative but no negative literal loses the
    turns at the end and before it (section 5).
  - `TextsAreOrdered`: the order of texts is total, so that the four comparisons
    agree with each other.
  - `PartsAgree` and `PartsMakeTheWhole`: LEFT, RIGHT and MID are the slices
    they are printed as, and LEFT and RIGHT take a text apart without loss.
- `CompilerSession_proofs`: `AnswersAreCurrent`, `OutputsMatchStages`,
  `LanguageStageIsEarned`, `NothingKeptAfterClose`, `GraphIsInverse`,
  `LateUpdatesLose`, `DependentsSpoiled`. The invariant says of each document
  that it is closed and forgotten, or sound: flags, outputs, analysis and memos
  belong to its text. `Hash` is arbitrary, a constant function included: the
  memos are right because the text is compared, not its hash. For
  `DependentsSpoiled` each call is shown to keep every text or to be a write,
  which spoils what the search finds.

Under each liveness property that TLC checks lies a fact about steps, and that
fact is proved. What a fair schedule adds, that an enabled step is taken, is all
that stays with TLC. These action properties are stated beside the liveness
properties and no run lists them.

- `TranslatingEnds` and `RestIsSettled`, under `Settles`: while nobody types,
  every step of the page that changes anything lowers the sum of the timers,
  translations, renders and echoes still to come, each weighed by those it may
  set off; and a page with nothing left to do shows what the controller holds,
  with a verdict on the chip.
- `SessionsWindDown`, under `RunningEnds`: the statements the limit leaves a
  session, each worth the phases a statement has, are a measure that no step
  raises and that every step of that session lowers.
- `AbortedEndsNext`, under `StopTakesEffect`: a session that was told to stop
  stays told, and its next step is its last. A queued run is thereby freed:
  whom it waits for was told to stop (`WaitsForStopped`) and lets it begin by
  ending (`QueuedRunBegins`).
- `PauseIsHeard` and `CancelIsFinal`, under `PauseStops` and `CancelEnds`: a
  request to pause or cancel is kept, and each step of the program takes it
  nearer to the next place that honours it.

Each proof first sorts the actions into a few outcomes, proves that each outcome
keeps the invariant, and combines the cases in a last temporal step.

The theorems take from the constants what the named assumptions say, no more:
any number of sessions, clicks, faults, statements, documents, paths and texts.
TLC checked every invariant used in an induction before it was proved.

Left to TLC: the liveness properties themselves (`RunningEnds`,
`StopTakesEffect`, `PauseStops`, `CancelEnds`, `Settles`), for fairness needs
ENABLED, which TLAPS cannot reason about here; and
the properties of `programs`, `parsing` and `translation`. These are about
recursive functions over syntax trees, written with RECURSIVE operators, for
which tlapm has no working backend. What the interpreter and the Python program
compute from numbers and texts alone is kept apart from them in `Scalars`, which
both use and which has no RECURSIVE operator.

## 5. Where the language components fall short

Found while the worlds were chosen. The modules model the code as it is, and the
worlds of the passing runs avoid these cases; those that a finding names have a
run of their own.

### What a rename misses

Uses the index does not see: the class after INHERITS, a field named bare or
through SELF in a method, and the second declaration of a duplicate. The result
is an undeclared name, which is reported. Two misses are silent. An overriding
method is renamed in its class alone, so calls dispatch elsewhere. The
occurrence of a loop variable spans the whole FOR statement, and the rename
overwrites the loop (`Overwritten`). A new name taken in another scope is not
noticed: duplicates are looked for in the symbol's own container (no world can
meet this: the name `i` is taken only where no renamed use is).
`RenameKeepsMeaning` excludes undeclared classes and fields, overridden methods
and overwritten loops, and nothing else.

### Gaps of the checker

Programs it accepts and the interpreter fails on with an error of types or
names:

- `SELF.Field`; an array field indexed by its bare name; an array literal as an
  argument; arrays of ENUM, POINTER or SET; `x <- SUPER.Proc()`.
- REAL bounds of FOR; a CASE range over texts; an order comparison of BOOLEANs
  or of mixed types, which is a warning only.
- DECLARE in the body of a loop (declared twice), in a branch not taken, or
  after the call of a routine that uses the name; a global declared after the
  class or routine that names it resolves differently.
- An INTEGER variable for a BYREF REAL parameter, or a subclass variable for a
  BYREF class parameter.
- A class with a field of its own class recurses without end when it is
  declared; a field named like one of the parent shares its slot.
- An unknown RETURNS type; a RETURN value that is not coerced. (A FUNCTION with
  a path that does not RETURN is accepted too; its error, R_NO_RETURN, is
  counted among those the program itself is to blame for.)
- The cap on diagnostics may drop an error and leave only warnings.

### Gaps of the parser

`f(` at the end of a line takes the following line with it, a block header too,
contrary to the comment at `expression.ts:400-404`. The `\r` escape is printed
but not read back. Fields of a TYPE and members of a class need no line break
between them. E_CASE_UNREACHABLE is never reported.

### Gaps of the translator

Python that fails or differs although the translator reports nothing:

- No `global` statement: a PROCEDURE that assigns a global makes it a local one
  (`print.ts:1075`).
- A DECLAREd scalar or class field read before it is assigned (NameError).
- Comparisons chained without parentheses (`1 < 2 = TRUE`), and `a = NOT b`.
- A CASE label that is a name becomes a capture pattern.
- BYREF: a scalar passed to a method, or to a PROCEDURE declared later; two
  arguments that name one place, or an index that another argument changes; a
  whole record assigned to the parameter (the finding above).
- A call before the declaration inside a block, or of a FUNCTION anywhere, is
  not warned of.
- `deepcopy` of a record that holds an instance copies the instance; equality is
  structural for records and identity for instances.
- Addresses of enumerations, records, parameters and loop variables are not
  cells, but are read as if they were.
- Bounds: variables in a DECLARE are evaluated at every index; the bounds of a
  class field that are not literals become 0. A STEP that is negative but not a
  literal gets the stop of a loop upward, and the last turns are lost.
- Elements of array literals are not walked, and `import copy` may be missing.
- Names: `list` beside `list_`, a parameter `self`, a global with the name of a
  field of a class declared later.
- `obj.NEW(...)` is printed though the class has `__init__`.
- An enumeration shows its ordinal: `_pp_show` asks for a class of the module
  `enum`, and the class is the program's own (`print.ts:124`). No world
  prints an enumeration; other values are shown as Python shows them.

### Other hazards no property covers

A record replaced as a whole while a BYREF parameter names a place inside it
leaves that parameter with the old record, and what it stores is lost
(`interpreter.ts:1090`). Commands that wait for a worker are discarded with it
(`WorkerController.ts:172`). A worker script that fails at load is respawned
without limit (`WorkerController.ts:148`). Opening a random file for APPEND
discards its records (`VirtualFileSystem.ts:203`). Two tabs store under one key
(`workspacePersistence.ts:113`). A keystroke equal to a translation not yet
rendered is ignored by the controller (`CodeSurface.tsx:193`).
`workspaceSymbols` does not compile, so a spoiled document has no symbols
(`analyze.ts:104`). An undo just before a refresh, within the autosave delay,
restores what was undone (`IdeShell.tsx:329`). Pseudocode not yet translated is
replaced by the last good text if the user goes on in the Python pane
(`bidirectionalSync.ts:176`).

## 6. Not modelled, and the plan

- Python to pseudocode (`python/parse.ts`, `reverse-refine.ts`,
  `lift-python.ts`): a second parser and printer, the next thing to model. The
  promise to check is that what `Translation` prints comes back as it was.
- The rounding and the range of doubles (numbers are exact), exponents and
  `Infinity` in a line read as REAL, and the RangeError of a deep tree that
  `check` turns into C_NESTING_TOO_DEEP (`check.ts:252-265`).
- Dates, RAND, file operations in Python, the printed form of values, the
  wording and the place of diagnostics, comments and layout.
- Monaco providers; what hover, completion and signature help say; the AI coach;
  the documentation viewer and the chrome of the IDE; the conformance suite; the
  placeholder packages. They keep no state worth a model.

Of the safety properties that the runs of `ExecutionSystem`, `DebugStepping`,
`FileIO`, `LiveIde` and `CompilerSession` check, every one is proved.
