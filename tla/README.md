# Formal model of dq-pipeline

TLA+ specifications of the data-quality pipeline in this repository, TLC
configurations that check them on small instances, and TLAPS proofs, for every
value of the constants, of all safety and action properties that are checked and
hold.

## 1. The system

| Component | Code | State | Operations | Interacts with |
|---|---|---|---|---|
| Pipeline | `internal/pipeline/pipeline.go` | stage map, order, resolved flag, results, one mutex | AddStage, Resolve, Run, Results, StageNames, MakeCheckpoint | calls `topoSort` under its lock, `Stage.Run` without it; any number of goroutines call it |
| Graph algorithms | `internal/pipeline/dag.go` | locals only | topoSort, ValidateDeps, TransitiveDeps, Levels | called with the stage map |
| Registry, stock stages | `internal/pipeline/registry.go` | factories behind an RWMutex | Register, Create, Kinds, Has; FuncStage, PassthroughStage, FilterStage | calls factories, which may call it; makes the stages a pipeline runs |
| Lineage tracker | `internal/lineage/lineage.go` | entries, counts per stage | Record and queries | Replay fills one from a log |
| Lineage store | `internal/lineage/store.go` | a file, a buffered writer | OpenStore, Append, Flush, Close, ReadLog, Replay, CountEntries, Compact | shared through the file only |
| Snapshot store | `internal/persist/persist.go` | a directory of checksummed files | Save, Load, SaveSnapshot, Latest, History, Trend, Diff | writers share the directory |
| Schema persistence | `internal/schema/persist.go` | one checksummed file | SaveSchema, LoadSchema, SchemaEqual | same protocol as the snapshot store |
| Schema, drift | `internal/schema/schema.go`, `drift.go` | none | Infer, Validate, DetectDrift | tables |
| Quality | `internal/quality` | none | Evaluate, EvaluateExtended, MergeViolations | tables, rules |
| Cleaning | `internal/clean` | none | Clean, ApplyFill, ClampValues, NormalizeColumn | tables, reports |
| Profiling | `internal/profile` | none | ProfileColumn, BuildHistogram, BucketFor, DetectOutliers | tables |
| Transforms | `internal/transform` | none | Apply: a chain of column operations of twelve kinds | tables |
| Parsing | `internal/parse` | the first bytes and a buffer of `bomReader` | Parse, ParseJSON, ParseFixed, AutoParse | between the CSV reader and the input |
| Reports | `internal/report` | none | text, JSON and CSV output | reports, tables |
| HTTP server | `internal/server` | none between requests | health, evaluate, clean, profile | all of the above |
| Command line | `main.go` | files it writes | parse, evaluate, clean, report, write | all of the above |

What is hard in it:

* **Concurrency.** `Run` copies `p.order` and `p.stages` under the lock and
  works without it; the copy of a map is the map itself. Stages can be added
  and the pipeline resolved while runs are going on, runs overlap, contexts
  are cancelled at any moment, stages fail or panic.
* **Re-entrancy.** `Create` calls a factory, which may call the registry
  again while other goroutines wait to write.
* **Nondeterminism.** `topoSort` ranges over maps, and so does `ParseJSON` to
  find its columns. The input arrives in reads of any size, and fails at any
  of them.
* **Crashes.** The lineage log is written through a 4096-byte buffer, so that
  lines are cut by buffer boundaries, short writes, kills and power loss.
  Compaction and snapshots replace files by rename without a sync.
* **Shared names.** Saves within one second use the same temporary and final
  names.
* **Irregular tables.** Rows end before their columns or after them, names
  occur twice, cells are empty for one function and blank for another. Each
  call meets what the calls before it left, and a panic in one ends the program.
* **Rounding.** Fills, bounds and scaled numbers are written with four or six
  decimals and read again. The bucket of a number is the floor of a `float64`
  quotient by a `float64` width.

`PROJECT.json` lists the hazards line by line with the properties that cover
them.

## 2. Modules

### Dependency graph

* `StageGraph` - constant operators: dependency sets, topological orders, the
  canonical (smallest ready name first) order, cycles as sets of stages each of
  which waits for another. A name is a natural number, since the code only
  compares names and looks them up.
* `TopoSort` - `topoSort` iteration by iteration. `CountEdges`/`RejectUnknown`
  are the range over the stages, in any order; `Seed` the initial queue; `Pop`,
  `Relax`, `EndRelax` Kahn's loop; `Finish` the length test. `outEdges` keeps
  one element per *position* of a dependency list, because the code counts a
  repeated dependency as often as it is listed.
* `TransitiveDeps` - the recursive walk as a stack of frames, so that cyclic
  graphs, on which nothing but `visited` ends it, can be explored.
* `StageLevels` - `Levels`: the steps of `TopoSort`, then its three loops: the
  depth of each stage in the order, the empty levels, the placing of each stage.
* `DagCalls` composes them: a program calls `Levels` on a map of stages and then
  `TransitiveDeps` of any stage, or `TransitiveDeps` alone on a map that `Levels`
  would refuse. `CallsSpec` is what is run.

### Pipeline

`Pipeline` models the type with its mutex. Each critical section is one step
(`Resolve`, `RunUnresolved`, `RunStart`, `RunPublish`), except that of
`AddStage`, which takes two (`AddBegin`, `AddEnd`), because the lookup in `Run`
is outside the lock: `LookupRaces` is that lookup during the write, after which
the process may be dead. The loop of `Run` is `RunCancelled` (the select),
`StartStage` (lookup, `resolveInput`, call), and one of `StageReturns`,
`StageFails`, `StagePanics`. A stage that fails returns an error, and this ends
the run; a stage that returns a nil error may all the same have set the exported
`Error` of its result. `Run` keeps such a result as it is, goes on to the stages
that depend on it and publishes it, and `MakeCheckpoint` counts it as failed.
`Endings` are the ways to return with a nil error, with a table or none and with an
`Error` set or not; `error` in a result is "none", "own" or "returned". The code
sees nil or not nil only; the difference between the last two is history.
`MakeCheckpoint` is the set of checkpoints it may make, since of several entries
with an error any may be the last it comes to. `Cancel` is the environment. What `topoSort` does
is used through its proved result: `Resolve` takes an order with
`IsKahnOrder`, which `OrderCorrect` and `KahnOrderUnique` of `DagCallsProofs` show
to be what the function returns.

A table is abstracted to its provenance - the run whose input it comes from and
the stages it went through - which is what the properties about mixing runs and
about inputs need. `late` is a history variable.

### Registry

`Registry` models `Register`, `Create` and `Has` (`Kinds` takes the same steps)
by any number of goroutines. The calls a goroutine is in are a stack of frames,
because `Create` calls the factory after `RUnlock` and the factory may call the
registry. The lock is Go's `RWMutex`: a writer that has its turn keeps new readers
waiting (`wait`) while it waits for the present ones (`drain`), and when it
unlocks, all waiting readers go first. `accepted` is a history variable.

### Lineage log

* `LineageEntries` - lists of entries, the tracker's answers about them, and
  what compaction keeps.
* `AppendLog` - the abstract promise: what readers see grows at its end, a
  failure takes only unacknowledged entries from the end, compaction removes
  what it says. Compaction does not sync the file it renames over the log, so
  that nothing is promised from then (`rewritten`) to the next `Sync`.
* `LineageLog` - the file as a list of line fragments (head, rest, newline), the
  buffered writer with its sticky error, `Flush` and `Close` in their two
  halves (write, Sync), `Compact` in three (read, write, rename), the readers
  as functions of the file, and the failures. It implements `AppendLog`
  (`KeepsPromise`). `CONSTANTS` switch the failures on, so that each run says
  what its properties depend on: kills, power loss, short writes, a full disk
  under `Compact` (whose write errors the code ignores), compaction while a
  Store is open, opening a torn log.

### Snapshot store

`SnapshotStore` models `Save` as open-and-truncate, write, rename, and removal
after a failed rename, over a directory of names and inodes: a second writer
truncates, overwrites or renames the *file* of the first. The checksum is
modelled by what it does: a file is intact when the text before its last
checksum is the text that checksum was computed from. The seconds are the
timestamps, in the order their file names sort in. `saves`, `acked`,
`overlapped` and `powerLost` are history variables. `SaveSchema` and
`LoadSchema` use the same protocol with one file name.

### Schemas

* `Schema` - `Infer`, `Validate` and `SchemaEqual` as operators. The code looks
  at a cell through five tests (empty, int, float, bool, date), and the dates
  by the caller's layouts or the default ones; `Cells` has one cell for every
  combination of answers that real text can give, `"0"` for example being
  int, float and bool.
* `SchemaDrift` - the three loops of `DetectDrift`, one iteration per step, on
  two kinds of arguments: schemas inferred from a table before and after rows
  were appended, and arbitrary schemas such as `LoadSchema` returns, with
  repeated names and types no table has. The tables may repeat a name too.

### Tables

* `TableData` - tables, names and cells. A cell is a sequence of atoms: a
  letter, a blank, or a whole numeral with its value and its form. Numbers are
  integers in units of 1/40, so that halves, tenths and the last of four decimals
  (`Grain` = 4) can be told apart, and sums and products are exact.
* `QualityRules` - `Evaluate` and `Clean` as operators on tables. A rule carries
  the cells that fit it in place of its bounds or pattern. `Evaluate` reads the
  first column of a name.
* `Positions` - the positions of a list that a loop keeps, in their order. `Clean`,
  the tracker's queries and the sorted list of snapshots are stated with it.
* `Transform` - `Apply` with its twelve kinds of operation, the errors of each
  and the panic of `substr`.
* `Strategies` - `ApplyFill`, `ClampValues` and `NormalizeColumn` with the
  formatting of the numbers they write.
* `Floats` - `float64` as far as subtraction and division need it. A float is a
  whole number of steps, one step the least positive float; an operation rounds its
  exact result to the nearest float, ties to the even one. The floats are
  the multiples of the members of `Gaps` up to `Mantissas` times these. `float64` is
  the case of 2^53 mantissas, gaps from 2^0 to 2^2045 and 1.0 = 2^1074 steps.
* `Statistics` - `ProfileColumn` with its quantiles and its panic on a column of
  empty cells; `BuildHistogram` and `BucketFor` with the rounded differences, width
  and quotients that they take the floor of; `CumulativeCounts` as the running
  sum it is; `DetectOutliers` by all its methods. All but the histogram is in
  exact arithmetic.
* `Formats` - `ParseFixed` and `ParseJSON`: the tables they make, in every order
  of the map iteration.

### Programs that work on tables

* `ExtendedRules` - `Evaluate` on one list of rules, `EvaluateExtended` on
  another, and `MergeViolations` entry by entry. `EvaluateExtended` finds a
  repeated name in its *last* column (`LastColumnOf`).
* `Workbench` composes all of these: a program loads a table (CSV, JSON or fixed
  width), calls `Apply`, `ApplyFill`, `ClampValues`, `NormalizeColumn`,
  `FilterStage` or `ProfileColumn` on what the call before returned, and at last has
  rules of both sorts evaluated. Errors return no table; a panic ends the
  program. `promised` and `aligned` are history variables: what the program may
  rely on after its calls (no empty cell after a filter, no repetition after
  dedup, rows as long as the header after select).
* `BomReader` - the reader that takes a byte order mark off the input, with
  `io.ReadFull` as any number of reads and an error at any of them.
* `CommandLine` - `main` and `run` of `main.go` without the flags: open, read
  (steps of `BomReader`), parse, load rules, evaluate, clean, write the report,
  write the table. Each step may fail; a file is as before, blank, in part or
  wholly written. Report and output may be the same file, or the input.
* `Server` extends it by the other way to start the program: a client sends a
  table to `/api/clean`, the answer again, and has the tables it gets evaluated and
  profiled. The handlers refuse tables without header and rules that `Evaluate`
  fails on.

### Mutants

Definitions whose comment begins with "Mutant:" are plausible mistakes in the
definition that follows them. They are not part of the models; `PROJECT.json`
names for each property the mutant it detects.

## 3. Runs

All runs take a minute and a half at most. `PROJECT.json` gives the properties of each,
and for each property a mutant that violates it.

| Run | Instance | Shows |
|---|---|---|
| `DagCalls.cfg` | every graph over subsets of 3 names, lists of at most 2 out of 4 names (one unknown), every order of map iteration, every start | `topoSort`: exact verdicts, canonical order; `Levels`: the levels can be run in parallel and are as early as possible; `TransitiveDeps`: reachability, order, error; every call returns, on cycles too |
| `Pipeline_chain.cfg` | 3 names, 6 dependency lists, every way to end a stage, 1 runner | all invariants of one runner among `AddStage` and `Resolve` calls |
| `Pipeline_pair.cfg` | 2 names, 3 dependency lists, stages that return a table, set an error of their own, or return one, 2 runners, fairness | overlapping runs publish whole runs, failed and cancelled ones nothing; every `Run` returns |
| `Registry.cfg` | 2 goroutines, 2 kinds, 2 factories, calls 2 deep, fairness | a kind gets one factory for good; every call returns, with factories that call the registry |
| `LineageLog_promise.cfg` | 3 entries on 2 rows, buffer of 4 fragments, kills, power loss, full disk, `Compact` between sessions | the log implements `AppendLog`; compaction keeps the answers and repairs a torn tail |
| `LineageLog_wild.cfg` | 3 entries on 1 row, every failure and misuse | entries stay in order, none twice |
| `LineageLog_torn.cfg` | reopening a torn log | **violated**, see below |
| `SnapshotStore.cfg` | 2 writers, 3 saves, 2 seconds, 2 sizes, kills, full disk, power loss | the checksum keeps its promise, seconds are isolated, `History` is exact unless saves of a second overlap |
| `SchemaDrift.cfg` | tables of up to 3 rows over 8 kinds of cells, with a repeated name or none, pairs of schemas of up to 2 columns | data fits its schema, growing data drifts compatibly, the report is exact |
| `Workbench.cfg` | 265 tables as of CSV files, 2 lists of records, 3 of lines; up to 2 calls, out of 26 chains of operations, 5 fills, 2 pairs of bounds, scaling, filter stage and profile on 2 columns; 4 x 8 lists of rules, before or after the first call; floats with 5 bits | what calls establish lasts; fills, bounds, quantiles, histograms and outliers are exact; merged violations are complete and without repetition |
| `Server.cfg` | 7 inputs read in every way; tables of up to 3 rows of 5 shapes and the empty one, 8 lists of rules, all options; sessions of up to 4 tables | what the parser gets, what the output holds and what failures leave; cleaning settles; profile and rules agree |
| `Server_kinds.cfg` | the same | **violated**, see below |

**Bounds.** Three stages are enough for chains, diamond arms, self references,
repeated and unknown dependencies and cycles of each length up to three; the
proofs cover all sizes. `Cap`, the size of the writer's buffer, is 4 fragments
where a line has 3: a buffer boundary falls inside a line, before its newline
and between lines. `MaxEntries` of 3 allows an acknowledged entry, a torn one
and one after it; the torn run has 4, because the log is refused only when
something follows the spliced line. `Sizes` of snapshots differ so that a
shorter text is written over a longer one; three saves by two writers let a
third one meet the leftovers of two. Three rows of a table let `unique` form a
group and leave a row out of it. `MaxCalls` of 2 lets every call follow every
other; chains within a call have up to three operations. `MaxRounds` of 4 is
the first cleaning, the second, which settles a trimmed table, and one to compare
with. `MaxDepth` of 2 is a factory that calls the registry; that a factory called
from a factory does the same adds no new wait, since only innermost frames touch
the lock. The inputs of `BomReader` hold a mark that is whole, cut off, misplaced
or repeated. The pipeline needs no bound: its states are
finite because its names are. Two runners have two ways for a stage to return without an
error, which are enough for a map that holds an error and is published; one runner
has all four. The floats of `Workbench.cfg` have 5 bits (`Mantissas` = 32) and
1.0 is 64 steps, so that many quotients of the numbers in its tables are rounded. In
the column 1, 8.75, 9 with three buckets the second quotient is rounded up to 3: it is
counted in the last bucket and `BucketFor` returns -1, as it does in `float64` for
0, 0.9999999999999999, 1. `CHECK_DEADLOCK FALSE` appears with the
snapshot store, whose writers may stop saving when `MaxSaves` is reached, and with
the registry, where `CallsReturn` says more: no call waits forever.

**What the properties leave out, because the code does not do it:**

* `DependenciesFirst`, `PublishedWhole` and `CheckpointResumable` are about the errors that stages
  return. An error that a stage sets in its result itself stops nobody: its dependents
  run, and Results shows it. Of several such errors `Checkpoint.Failed` names one and the
  other stages are not in the checkpoint at all, so that only where there are none
  the checkpoint is claimed to name every stage that ran; a dependency of a stage
  it names may be one of them.
* `NumbersPlaced` does not claim that `BucketFor` finds every number that `BuildHistogram`
  has counted. Of the numbers whose quotient is rounded up to the number of buckets or
  beyond, which are all counted in the last one, it finds the greatest only and returns
  -1 for the others. For all others the two agree. A width that underflows to zero
  and differences that overflow to infinity are left out.
* `ProfileExact` has its order of quantiles in exact arithmetic. In `float64` two
  interpolated quantiles may come out in the wrong order by one unit in the last place.
* `CleanSettles` holds with `trim` from the second cleaning on: the rules are
  evaluated before cells are trimmed, and the trimmed table may fail them.
* `ProfileAgrees` is about notnull and unique, and its second half about trimmed
  tables, for the same reason: the server's profile trims cells, the rules do not.
* `GuaranteesLast` claims nothing about duplicates after `concat` on ragged rows,
  whose new cell lands in a different column of each row, nor about a name that
  `rename` has given to a second column. That no call panics is not claimed:
  `substr` with a start behind its end does, and so does profiling a column of empty
  cells that no filter went over.
* `BoundsMet` needs bounds that four decimals can write. Others are rounded when
  they are written: out of the range, or past a number that is in it.
* `FillsExact` needs for the median that it can be written with four decimals.
* `AppendedRowsWiden` is about tables of distinct columns, since `DetectDrift`
  compares all columns of a name with the last of them, and has two exceptions. The first value in an empty column
  changes its type from string to a narrower one, and a column of zeros and ones
  that meets the word `true` goes from int to bool, which `isNarrowing` ranks
  lower: both are reported as breaking.
* `DriftExact` compares drift with `SchemaEqual` where every name occurs once: with
  a repeated name a schema may drift from itself.
* `MergedExact` needs rules that can be told apart: the two evaluations number
  their rules independently, and `MergeViolations` drops a violation whose index,
  column and row it has seen, also when it is about another rule.
* `HistoryExact` needs saves of a second that do not overlap; when they do, a later
  one may find its file taken, and one of the two returns an error.
* `CompactKeepsAnswers` is about `Compact` on a log no Store has open and on a
  disk that is not full; in the other cases (`LineageLog_wild.cfg`) entries may be
  lost, only their order stays.

**Fairness.** `Levels` (with `topoSort`) and `TransitiveDeps` are sequential calls that nothing
blocks: `CallsSpec` has weak fairness of their steps; nobody is obliged to call
them. `FairSpec` of `Pipeline` assumes that a
goroutine inside `AddStage` or `Run` is scheduled again, and that a stage that
was called returns (`Run` waits for it without a timeout). Nobody is obliged to
call anything or to cancel. Weak fairness is enough for the lock in
`RunPublish`: holders of the lock release it, and since names are finitely
many and never freed, adders stop coming. `Registry` has weak fairness of every
step of a call, that is goroutines are scheduled and factories return, and
strong fairness of `Lock`: writers wait for each other in a `sync.Mutex`, whose
starvation mode hands it to a waiter after a millisecond.

**Findings.** The repository's `README.md:32` calls the lineage log an
"append-only log with truncation recovery". `LineageLog_torn` shows where the
recovery ends: a writer is killed after a part of a line reached the file,
`OpenStore` opens the log as it is, the next entry continues the torn line, and
when one more entry follows, `ReadLog` no longer reports a truncated log but
refuses it as corrupt; `Replay` and `Compact` fail with it. Running `Compact`
before reopening avoids it (`CompactRepairs`).

`README.md:58-62` lists the kinds enum, length, date, type and crossfield under
the rules of the command's `-rules` file. `main.go:93` hands the rules to
`Evaluate` only, which returns "unknown kind" (`quality.go:99-100`) for each of
them; `Server_kinds` shows the command fail on such a file.

## 4. Proofs

| Module | Theorems |
|---|---|
| `DagCallsProofs` | `KahnOrderUnique`; of topoSort `TypeCorrect`, `QueueCorrect`, `OrderCorrect`, `CycleCorrect`, `UnknownCorrect`; of the calls `ReachCorrect`, `DependenciesCorrect`, `LevelsCorrect`, `VerdictsCorrect` |
| `PipelineProofs` | `TypeCorrect`, `ResolvedCorrect`, `DependenciesCorrect`, `InputCorrect`, `PublishedCorrect`, `CheckpointCorrect`, `CancelCorrect`, `RegistrationsCorrect`; of the registry `RegisteredCorrect` |
| `LineageLogProofs` | `EntriesCorrect`, `RecoveryCorrect`, `AnswersCorrect`, `RepairsCorrect`, `PromiseCorrect` |
| `SnapshotProofs` | `TypeCorrect`, `IntegrityCorrect`, `ListedCorrect`, `IsolatedCorrect`, `HistoryCorrect` |
| `SchemaDriftProofs` | `DriftCorrect`, `InferredCorrect`, `AppendedCorrect` |
| `FrontEndProofs` | `BytesCorrect`, `OutputCorrect`, `TableCorrect`, `SettlesCorrect`, `AgreesCorrect` |
| `WorkbenchProofs` | `BenchInvariant`, `GuaranteesCorrect`, `MergedCorrect`, `BoundsCorrect`, `ProfileCorrect`, `FillsCorrect`, `NumbersCorrect` |
| `PositionProofs` | lemmas the others share: `Nth`, `InOrder` and `Pick` of a finite set of positions, `Min` and `Max` |

Assumptions: names are a finite set of naturals, dependency lists are sequences
of naturals (of any length, any number of them), there is a runner, and the nil
table is not a table; calls of the registry nest to some bounded depth; the
timestamps of snapshots are naturals, a snapshot has a block besides its
checksum, and their number is bounded by any natural (`BoundsAssumption`); the
inputs are sequences of bytes, among them those of the mark (`InputsAssumption`).
The writer's buffer holds a line of the log at least (`Cap` of 3 fragments or more), and
the number of entries is bounded by any natural; their rows and actions are arbitrary. The
switches of the failures are hypotheses where a theorem needs them: `EntriesCorrect`
(no entry is read twice or out of order) needs none of them, `RecoveryCorrect` that
no torn log is opened, `RepairsCorrect` that the disk is not full under `Compact`,
`AnswersCorrect` that besides no Store has the log open then, and the refinement
`PromiseCorrect` all three. Kills, power loss and short writes are never excluded.
Tables are lists of rows and rows lists of texts, each a list of atoms (`ParsedAssumption`,
`TablesAssumption` of `Server`); nothing is assumed about their sizes, about rules or about
the options of the command and the server. For schemas, tables have cells out of the kinds
there are, schemas are lists of columns that are nullable or not, with any names and types,
and a sample has a size or none (`TablesAssumption`, `SchemasAssumption`,
`OptionsAssumption` of `SchemaDrift`). For `Workbench`, inputs have the shapes that the
parsers take: CSV tables of texts (`CsvAssumption`), lists of records with finitely many fields
that are null, text or a number (`JsonAssumption`), lines of text with widths that are not
negative (`FixedAssumption`); the arguments of operations and fills have the types their Go
fields have (`ChainsAssumption`, `FillsAssumption`), bounds are numbers (`BoundsAssumption`), and rules
come in lists (`RulesAssumption` of `ExtendedRules`). Nothing is assumed about the number of rows,
columns, operations or calls, nor that names are distinct or rows as long as the header.

*topoSort.* The properties are not inductive. The invariant adds that an
in-degree is the number of *positions* in the stage's list whose edge is still
unrelaxed - counted by position, which is why repeated dependencies do no harm
- and that the edges at a stage are exactly the positions of its dependents.
The queue is then the set of stages without pending positions, and between two
pops this is the set of ready stages. If it is empty with stages left, each of
these waits for another one of them: a cycle. An order, in turn, excludes one
by the smallest position of a member.

*Levels.* Stages get their depths in the order of `topoSort`, so that the depths of
a stage's dependencies are there when its own is computed; the depths are then the
least ones that grow along dependencies (`DepthsSet`), and the last loop puts each stage on
the level of its depth (`LevelsFilled`), none of which stays empty. `VerdictsCorrect`
states what is proved about `topoSort` for `CallsSpec`, which calls it from `Levels`.

*TransitiveDeps.* The loop of a frame has visited the dependencies before its
position (`Framed`). The names visited are those listed and those of the open
frames above the bottom one, each of them once, and a name is listed when its loop
is over, so that what it depends on was visited (`Collected`). When the bottom
frame returns, the listed names are all that were visited, hence closed
under dependencies, and what is reachable is the least closed set. Its order: a
dependency of a listed name that is not listed before it is on the stack, since it was
visited (`PostOrdered`). The names on the stack are a path (`CalledAfter`), so that it
would close a cycle, which `topoSort` has excluded.

*Pipeline.* The key is `RegistrationsPermanent`: a stage that was registered
keeps its dependency list, so that an order that was closed under dependencies
stays closed when stages are added (`WithStageKeepsOrder`). The invariant says
so of `p.order` and of every runner's copy, also of copies older than the last
`Resolve`. The second half says that a runner's results map holds exactly the
stages it has passed, none of which returned an error except perhaps the last of
a finished call; with it, what `resolveInput` found when it was called is what
the whole map shows later. What stages set as errors themselves is arbitrary
(`EndingsAssumption`). `PublishedCorrect` has two halves: an invariant about the
map that Results shows, and an action property, by which only a run that is past the
end of its order replaces it.

*Registry.* Of a goroutine's frames only the innermost can hold the lock or wait
for it, because those around it are in their factory: `Create` gave the lock up. The
lock is therefore a matter of the innermost frames, and the invariant says of them
that there is one writer at most and no reader beside one that is inside
(`LockInv`); the map is only written there, and a factory that was found in it
was accepted (`StacksInv`, `MapInv`).

*Lineage log.* File and buffer are, put together, one stream of fragments, and what
readers see is a function of its beginning. The numbers of the heads rise along it,
whatever happens to either (`OrderInv`): this is `EntriesCorrect`. If no Store opens a
log that does not end in a newline, the stream is made of whole lines and perhaps
the beginning of one at its end (`ShapeInv`), which is what `ReadLog` recovers from.
The entries that were acknowledged are in the part of the file that was synced, those accepted
in the stream (`PromiseInv`), so that each failure takes from the end only what was
not promised. `Compact` writes what it read when nobody else writes (`CompactInv`), and
entries that are whole in any case (`RepairInv`). `LineageEntries` picks the members of a
list by their positions (`Nth`, `Pick`), because the prover has no definition of `SelectSeq`.

*Snapshot store.* Two saves of a second may truncate, overwrite, rename and remove
each other's file, so that almost nothing can be said of a file. What can be said
is that seconds share nothing: the names of a second, the inodes that its names
and its calls refer to and the blocks in these inodes are all of that second
(`SecondsInv`). A file that is intact is then a snapshot of its second, whole,
whatever happened to it (`LoadIsText`). A snapshot that is the only one of its
second has one call (`CallsInv`), which nobody else disturbs (`StepKeepsLone`), and
`LoneInv` follows its file from the open to the rename. For `HistoryExact` the two names
of a second must be two files (`ApartInv`), and without overlaps the only call of a second
saves its newest snapshot, beside a final file that is the last one acknowledged (`AloneInv`);
that `History` lists them in the order of their seconds follows from the list of
a finite set of naturals by rank (`InOrderSorts`).

*Reader and files.* What was passed on, what is buffered, what was read of the
first bytes and what is still in the file are, put together, the input before and its
content after the mark is taken off (`ReaderInv`). What each file holds follows from the step `run`
has come to (`FilesInv`).

*Tables.* `Clean` keeps rows by their positions (`KeptRows`), and the k-th row of its
result is the row at the k-th of them: this is `TableCorrect`, with the table in the
output followed from step to step (`TableInv`). For `SettlesCorrect`, a row that violates
a rule in the cleaned table does so in the table before, where its row was one of more
(`ViolatesLess`), so that nothing is left to drop (`CleanSettled`), and what is trimmed
twice is trimmed once (`TrimTwice`); `SessionInv` says how the rounds of a client come from
each other. For `AgreesCorrect`, the rows with an empty cell are counted on both sides
(`NotnullCounts`), and as many distinct values as filled cells means that no two rows
share one (`UniqueCounts`).

*Schemas.* The three loops of `DetectDrift` look for one kind of drift each: at any time
the report has no breaking entry exactly when nothing breaks at the positions the loops have
passed, and no entry exactly when nothing drifts there (`DriftInv`). `ByNameIsLast` says
which column the map by name holds, `ChangesExact` what an iteration reports.
`InferredCorrect` follows from `InferTypeIs`, by which counting the cells that parse comes to
trying the types in turn: as many as there are is all of them. Of more rows, fewer types
fit, and none that did not fit before (`TypeOfMoreRows`); which changes of type that
leaves is a matter of the kinds of cells, and `DriftCorrect` says which of them break.

*Workbench, what calls establish.* `BenchInv` says that the table is one of texts and that
what is promised of it is so. Each call is seen as a function of the table: what it keeps
of any table for which something is known, and what it adds, is one lemma for it
(`DedupSure`, `ConcatSure`, `ApplyFillSure`, ...), and `RewriteKeeps` is shared by those that write
cells in one column. A chain of operations and a list of fills go by the number of steps taken
(`ApplySure`, `ApplyFillSure`). With `CallsGood` no action of the program has to be
looked at twice; `GuaranteesLast` is a part of `BenchInv`.

*Workbench, rules of both sorts.* `MergeInv` holds what `MergeViolations` has merged: at any
time the keys of its result are those of the entries it has passed, each of them once
(`OneMerged`), and the keys of the two lists are those of the violated rules
(`BasicFound`, `ExtendedFound`). A key of both lists is one that `ToldApart` excludes.

*Workbench, numbers.* The other four are about what `Workbench` would compute from the
present table. They need no invariant but `BenchInv`, that is the type of the table, and
are facts of arithmetic about its operators, proved for columns of any length:

* `SortedSorts`: `Sorted` is a permutation of its argument in ascending order. From it,
  `RanksBelow` and `RanksAbove`: a number of the sorted list is at most `v` exactly when its
  rank is at most the count of such numbers in the list. All that follows goes by counts.
* `BoundsCorrect`: rounding is monotone and keeps what four decimals can write
  (`RoundedMonotone`, `WrittenExactly`), hence a clamped number is in the range and the order stays
  (`ClampMet`), and scaling takes the extremes to 0 and 1 (`NormalizeMet`).
* `ProfileCorrect`: a quantile lies between two neighbours of the sorted list and rises with its
  rank (`PercentileRises`), and `QuantileCounts` says how many numbers lie on either side of it; null
  and distinct counts agree with what the rules notnull and unique see (`NullsAndTwins`).
* `FillsCorrect`: what a fill leaves in a cell is the text the strategy gives it
  (`FilledCells`), forward and then backward fill what either can reach (`CarriedBothWays`), and
  the median of a column filled with its median is the same: numbers equal to the
  median add as much to the count below as to that above (`MedianKept`).
* `NumbersCorrect`: rounding is monotone, also from one gap between floats to the next
  (`RoundedRises`, `FloatRises`), and the whole numbers up to two are floats (`WholeIsFloat`). The
  quotients of numbers therefore come in their order, that of the least one is 0, and since one
  width less than there are buckets fits between the extremes in spite of rounding
  (`WidthFits`), the quotient of the greatest reaches the last bucket (`QuotientsRise`). So each
  number has one bucket and `BucketFor` finds it, or its quotient is too large (`HistogramPlaces`), and
  the running sums end with the length of the data (`CumulativeCount`). This is for any
  even number of mantissas and any gaps that double (`MantissasAssumption`, `GapsAssumption`),
  those of `float64` among them, and up to three buckets. Few are outliers. By the quartiles:
  the numbers a quartile lies between are not beyond the fence, except for the outer one
  on one side, which leaves half of the data (`Quartiles`, `TailsCounted`). By z-scores: every outlier adds its share to the sum
  of squares, which has no room for many (`LargeMembers`). By the median of deviations:
  half of them are not larger than it (`ModifiedFinds`).

Recursive functions are made of sums, sorting and walks through lists. What they compute is
proved without the induction theorems of the library, which the installed provers
cannot instantiate: `UpTo` states induction for a set of naturals, from the least
element of its complement, and `Recursion` that a function with given first value and steps
exists, so that the `CHOOSE` behind a recursive definition is one of them.

Type invariants are not among the properties of the runs; those of `TopoSort`,
`Pipeline` and `SnapshotStore` are proved.

Only model-checked: liveness, which needs fairness and `ENABLED`, out of the prover's reach:
`CallsReturn` of `DagCalls` and of `Registry`, and `RunReturns` of `Pipeline`. All other
properties of passing runs are stated by a theorem. The two violated ones are about the code
as it is; `RecoveryCorrect` proves the first where no torn log is opened. No module declares a
`RECURSIVE` operator.

The proofs about numbers inherit what the model leaves out. Outside of histograms arithmetic is
exact, so that they say nothing about the rounding of a `float64` beyond what formatting does; `NaN` is a
number below all others, as `sort.Float64s` has it. What is said of columns of numbers is
said of those without `NaN` (`NumberColumns`).

## 5. Assumptions and omissions

* Lines are shorter than the buffer of `bufio.Writer` and the token limit of
  `bufio.Scanner`; `ReadLog` reads the file in one step, and one program at a
  time writes a lineage log.
* `rename` is atomic and its effect survives a power loss; file contents that
  were not synced survive in part, from their beginning.
* A stage's `Dependencies()` always returns the same list, and `Run` of a stage returns a
  new result on every call, whose table is either nil or made from its input. `Error`
  may be set in it or not.
* Values of maps handed to callers are not written to: `Run` returns the map it
  publishes and `Results` copies it shallowly.
* A cell is made of atoms, and a numeral is one atom: `substr` does not cut
  through a number, and `replace` looks for one letter. `NaN` and the least int64,
  which `to_int` makes of it, are numbers set apart below all others; numbers
  that do not fit into an int64 and infinite ones are left out. Arithmetic is exact where the
  code's is in floating point, except in histograms, which round as `float64` does
  (`Floats`); otherwise only the rounding of what is written is modelled.
* In `Schema` a cell is what the five tests of the code say of it.
* The CSV writer turns a row of one empty cell into a blank line,
  which readers skip: `OutputExact` is about the rows handed to the writer.
* Schemas have their columns' names, types and nullability; lengths and the
  score of a report are left out.
* A kill between `rename` and the return of `Save` is not told apart from one
  after the return.

Not modelled:

* Text formatting: `report`, `Summary`, error texts. No step depends on it.
* The CSV, JSON and HTTP libraries; their results are the inputs of the models.
  `DetectFormat` and `AutoParse` only choose between parsers that are modelled.
* Of a profile: lengths, top values, the standard deviation, Density, Mode,
  Skewness, Entropy and Kurtosis, floating-point functions that nothing reads.
* `Diff`, `IsRegression` and the grading of snapshots: comparisons of two
  numbers each.
* `SaveSchema` and `LoadSchema` take the steps of `SnapshotStore` with one name.

## 6. Plan

Done: every component but the reports has a model, and every safety and action
property of the passing runs a proof. What is left:

1. `SaveSchema` and `LoadSchema` as an instance of the snapshot protocol with
   one name, for which `LoneInv` of `SnapshotProofs` should do.
2. `Diff` and grading of snapshots; `AutoParse`; the tracker's counts per stage.
3. Infinite numbers and those beyond an int64, in `TableData` and what rests on it.

Runs stay few: a new module is composed into an existing run where the two
interact, and shallower properties give way to deeper ones.
