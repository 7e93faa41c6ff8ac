# pgsync in TLA+

pgsync copies a PostgreSQL database (the *remote*, the *source*) over another
one (the *local*, the *target*).  This directory holds TLA+ models of the
program in `src/`, the TLC configurations that check them on small instances,
and proofs, checked by TLAPS, of what matters most for every instance.

Contents: 1 the system, 2 the plan, 3 the modules and the code, 4 the runs,
5 fairness, 6 the proofs, 7 findings, 8 what is not modelled.

## 1. The system

| component (source) | state | operations | interacts with | what is hard | what makes it correct |
|---|---|---|---|---|---|
| run of a plan (`engine/native/native.go`, `target.go`, `extensions.go`, `sequences.go`) | the stage; the snapshot and target connections and the archive that are open; the stages done | `Plan`, `Execute`, `executeStages` and its ten stages, deferred releases | everything below; the target server, whose database outlives the run | failure, cancellation or crash after any statement; lost answers; a rerun that meets a half-built target; clients that reconnect to the target; a second run on the same target; a source that is migrated meanwhile | success means a complete target, as the snapshot saw it; nothing is destroyed before the checks; phases in order; everything released; a retry rebuilds; no run touches what another has rebuilt |
| copy worker pool (`engine/native/copy.go`, `CopyTables`) | the job and result channels, the worker goroutines and their connections, the first error | enqueue, copy, report, cancel, close, collect | connections, table copy, run | four kinds of goroutines; a failure cancels the others while they report | the root cause is reported; no table lost or counted wrongly; no leak; no send on a closed channel; it ends |
| table copy (`copy.go` `CopyTable`, `snapshot.go`) | source and target goroutine, the pipe, the source transaction and its snapshot | begin, adopt the snapshot, COPY out, COPY in, close either end, roll back | pool, both servers | failures on both ends of a blocking pipe | what is committed is the whole table as of the snapshot; it ends; it reports the failure that started it |
| post-data restore (`schema.go` `DumpArchive`, `Restore`) | pg_restore's workers and the locks of their statements | dump, restore with `--jobs` | the run; the lock manager of the server | parallel ALTER TABLEs over cyclic foreign keys | no deadlock |
| proxy tunnel (`schema.go`, `runner/exec.go`) | a listener, an accept loop, three goroutines per connection | open, accept, dial, bridge, close | pg_dump, proxy dialer | the first end of two streams closes both; a tool that is killed while its bridge dials | nothing lost that a direct connection keeps; the stage returns; no goroutine stays behind |
| proxy dialer (`proxy/dialer.go`) | none | SOCKS5 and HTTP CONNECT dial | connections | a silent proxy | cancellation is honoured |
| connections (`pgdb`) | a pgx connection | connect, query, copy, close | the servers | - | - |
| schema analysis (`pgschema`) | none | list, filter, `TopoSort`, `FKClosure` | `Plan` | cycles and diamonds of foreign keys | the closure and the order agree with their definitions |
| terminal UI (`tui/app.go`, `queue.go`, `cmd/pgsync/tui_runner.go`) | the screen, the selection, `Running`, the events and done channels of a sync | key handlers, `Update`, the sync goroutine, the editor loop | `Plan`, `Execute` of several databases | messages and results that race; keys at any time | what it shows is what happened |
| live progress (`tui/progress.go`) | totals of queue, database and table | `RegisterDB`, `Apply`, `Tick` | events of parallel workers | interleaved events of several tables | totals agree with the tables that are done |
| copy progress (`engine/native/progress.go`) | bytes, last emission | `Read` | observer | throttling | a final event always comes |
| tool cache (`engine/pgtools`) | files below the user's cache directory | `Ensure`, `SelectingLocator` | other processes on the same directory | concurrent extraction, crashes | a located tool is a whole one |
| configuration (`config`) | the TOML file | load, save, override, validate | CLI, TUI | a crash or a second saver in a save | the file is old or new |
| command line (`cli`) | none | resolve configuration, run, print events | engine | precedence of sources | flags over environment over file over defaults |
| self-update (`updater`) | the program file, downloads | check, download, verify, replace | GitHub, the file system, a Windows helper process | a failure between two renames | the program is old or new and verified |
| secrets (`secrets/infisical`) | none | one SDK call | command line | - | - |

Interactions: the CLI or the TUI resolves a configuration, calls `Plan` and then
`Execute`.  `Execute` opens the snapshot connection, calls pg_dump through the
tool cache (and the tunnel), resets the target, runs `CopyTables`, whose workers
call `CopyTable`, and then runs pg_restore and `setval`.  Events go back through an
observer, which in the TUI is a channel that `Update` drains one message at a
time.

`PROJECT.json` lists each hazard at its line and the properties that would catch it.

## 2. The plan

The order follows what a user loses when the part is wrong.

1. **Done.** `CopyTable`, `CopyPool` (rows), `SyncRun` (the target database over
   any number of runs), `PostDataRestore` (the stage that could hang).  They share
   `NativeCommon`; `CopyContract` is the abstract specification of a copy, shown
   to be kept by `CopyTable` and by `CopyPool` and *used* by `CopyPool` for the
   call of `CopyTable` and by `SyncRun` for the call of `CopyTables`;
   `SyncContract` is what `SyncRun` promises its user.  Proof modules:
   `CopyProofs`, `CopyPoolProofs`, `SyncRunProofs`.
2. **Done.** `TuiSession` (the key handlers, the sync goroutine, its two channels
   and the editor loop) with `TuiSessionProofs`, and `LiveProgress` (the totals
   under the interleaved events of parallel workers).
3. **Done.** What several processes share on disk: `ToolCache` (extraction into one
   cache directory, crashes, the locator that trusts its first answer), `Updater`
   (download, verify, replace, the Windows script), `Configuration` over
   `ConfigSources` (savers of one file; which source gives a setting).  The failures
   that come from outside are those of `Faults`.  Proof module: `InstallProofs`, of the
   tools and of the program.
4. **Done.** `SyncPlan` (the catalogue queries, `FKClosure` and `TopoSort` as steps
   of `Plan`).  Proof module: `PlanningProofs`, of what a sync is started with: its
   configuration and its plan.
5. **Done.** `ProgressReader` in front of `LiveProgress`; `ProxyTunnel` (the bridge of
   `schema.go`, its cleanup, the dialers and the tool that is run) and its composition
   with `PostDataRestore` as the two stages of a run, `SchemaTransfer`; `SharedTarget`
   (two runs on one target, a source that changes between plan, snapshot and dump, the
   values of sequences).  Proof modules: `SchemaTransferProofs` (the restore, the tunnel
   and their composition), `SharedTargetProofs`.
6. **Done.** The totals of `LiveProgress`, which are sums over tables: proved in `CopyProofs`,
   beside the copy whose bytes they count.

## 3. The modules and the code

**NativeCommon** holds the three outcomes a caller tells apart: `nil`, a `fault`
(a statement, connection or child process failed), `ctx` (a cancelled context).
`errors.Join` is its leading error, which is what `errors.Is` and the message start
with.

**CopyTable** models `CopyTable` (copy.go:32-100) with `copyTableSource` and
`copyTableTarget` as processes with a program counter each.  The rows of a table are
a stream of `Chunks` chunks; a chunk *is* the version of the source database it was
read at, so "consistent" is a statement about data and not about control.  A write
into `io.Pipe` is a rendezvous (`Transfer`); `CloseWithError(nil)` is end of file,
which the target takes as the end of the rows and commits.  `SrcAdopt` is SET
TRANSACTION SNAPSHOT and fails once the connection holding the snapshot is gone.

**CopyPool** models `CopyTables`: the unbuffered job channel as a rendezvous of
enqueuer and worker (`Dispatch`), the select with the done context (`CloseJobs`),
the result channel of capacity `N`, the closer, the collecting loop.  The order of
*send the result, then cancel* (copy.go:258-265) is kept: `Report` and
`CancelOnError` are two actions.  `CopyTable` is replaced by its contract.

**SyncRun** models `Execute` (native.go:142-157, 288-505) with one action per
statement on the target: terminate, drop, create, apply, copy, restore, setval.  A
statement may be refused, fail, or succeed with its answer lost.  The target
(`db`, `schema`, `committed`, `repaired`) outlives the run; `Crash` and `Rerun` start a
new run on whatever is left.  `deferred` is the stack of deferred closes.  The
context is looked at where `runVoidStage` does: on entry of each stage.

**SharedTarget** models what `SyncRun` abstracts, for several runs at a time: what the
source is when a run looks at it, and which database a connection of the run leads to.
A table of the source has its columns and the file its rows are in, both numbered by the
migration that made them, and its rows, which are values of the key column.  `Plan`,
`ExportSnapshot`, `DumpPreData`, each COPY and `DumpPostData` look at it at different times:
pg_dump takes a snapshot of its own, COPY reads the rows of the exported one but with the
columns of now, and reads nothing of a file that was written since.  The target is one
database that any run may drop between any two statements of another; DROP is refused
while a session is open, and only the connection of `connectTarget` is open throughout.
`setval` is modelled by its value and by its refusal of a value below the first.  A run may
fail, be cancelled or die at any step, and its sessions may stay until the server notices
(pg_restore's workers outlive it).  `alone` is a history variable.

**PostDataRestore** models what DumpArchive decides: whether the archive keeps the
TABLE entries by which pg_restore keeps its workers apart.  pg_restore and the lock
manager are external.

**ProxyTunnel** models `DumpArchive` behind a proxy: `startPgToolProxyTunnel`, the accept
loop, `bridgePgToolProxyConn` with its two copiers and the channel of two (schema.go:
176-264), the SOCKS and HTTP dialers (dialer.go) and `exec.CommandContext`.  A connection is
a record: the two sockets, the three goroutines, and how much has been sent, forwarded and
read each way.  A closed socket delivers what was sent before, unless its owner left
something unread: then the peer may lose what it has not read, as TCP does.  pg_dump asks,
reads an answer of `Answer` messages and says goodbye; it may connect again, or fail.
`silent` is a proxy that takes connections and never answers.

**SchemaTransfer** composes the stages dump-post-data and apply-post-data as
`executeStages` calls them: `ProxyTunnel` as an instance, then `PostDataRestore`; what the
tunnel leaves running goes on during the restore.

**SyncPlan** models `Plan` (native.go:90-139): three catalogue queries in no
transaction with migrations of the source between them, the seeds and the work list
of `FKClosure`, the in-degrees, the ready list and the output of `TopoSort`, the row
counts.  A table is its rank in the order of qualified names, in which the queries
list and the sort compares; what Go's maps leave open (which ready table is released
first) is a choice, and `OrderIsCanonical` says that the result does not depend on it.

**TuiSession** models `app.go` as one state and messages in flight (`tea`): a key, a
message of the program or a step of the sync goroutine is an action.  The events
channel has capacity `Cap`; `OnEvent` of the observer blocks on it when it is full
(`ObserverReady`) while a plan is offered and dropped (`Offered`).  A database has one
table, whose row stands for its progress events.  `waitSyncProgressCmd` may pick the
end of a sync while events are still buffered.  Scrolling, tabs, the cursor and the
rendering are left out; a mouse action does what a key does.

**LiveProgress** models `Apply`, `RegisterDB` and `activateDB` with the counters by
their Go names.  The events come from an engine that copies up to `Threads` tables at
a time; the estimate of a table may be too low, and a plan may never be registered.  The
bytes of a table pass through a `ProgressReader` (engine/native/progress.go): an event when it
is opened, one whenever the interval has passed (a choice) and one at the end of the stream
or at an error.

**ToolCache** models `Ensure` step by step as system calls on a directory that is
looked up by name each time: validate each file, remove the old directory file by
file, write under a temporary name, rename.  A process may crash at any step, a call
may fail, and something else may damage a file.  `SelectingLocator` trusts its first
answer for the life of the process.

**Updater** models download, checksum, extraction, write, and the two ways to
replace: a rename, and on Windows a script that outlives pgsync, moves the program
away, moves the candidate in, and moves the program back when that is refused.

**Faults** is the bounded supply of failures from outside that `ToolCache`, `Updater` and
`Configuration` extend.

**ConfigSources** are the pure rules of precedence: a source is a function on the
settings it gives, `Over` is an overlay, and the code's ways of saying "not given"
(empty, zero, a switch that is off, a blank variable) are each where the code has them.
**Configuration** extends it with the file: `Save` as open, write, flush, rename, and
on failure remove; inodes, so that a process goes on writing what another has
renamed; editors (the application, `config`, `config reset`) and `sync`, which
resolves, asks Infisical and plans.  What is left of a file that lost lines, or that two
saves ran together in, may still decode: `Torn` is any of the `Fragments`, a constant of
which the proofs know only that they are configurations, or malformed; `Load` fails on
the malformed alone, and `base` is what it decoded.  `suspect` and `killed` are history
variables that say when the file's state is nobody's promise.  `Finished` lets the model
stutter when every program has ended.

Operators commented as *Mutant* are plausible mistakes.  None is used by a
specification; each shows that a property notices the mistake when it replaces the
definition that follows it.

## 4. The runs

| run | what it shows | bounds and why they are enough |
|---|---|---|
| `copy_table` | `CopyTable` over the pipe with any statement failing, the snapshot lost, the caller cancelled: rows committed are the snapshot's, the error is the one that came first, no two sides wait for each other, and it ends. Implements `CopyContract`. | `Chunks = 2`: a failure before, between and after; `MaxVersion = 1`: one change of the source is enough to tell two versions apart |
| `copy_pool` | `CopyTables` with every interleaving of its goroutines: the first error is the cause, no worker waits to report, it ends with nothing left; implements `CopyContract` and uses it for each table | `N = 3` tables over 2 workers: one in each worker, one that waits; more tables than workers, so that the results of one worker can pile up |
| `sync_run` | `Execute` with up to three failures, crashes, lost answers or sessions of others, and reruns; implements `SyncContract` | two tables (one copied when the other fails), one sequence, `MaxFaults = 3`: a failure in the rerun of a rerun |
| `schema_transfer` | the two stages in sequence: the tunnel loses nothing that a direct connection would keep, the stages end, the restore does not deadlock | 2 connections (one that ends early and the next), an answer of 1 message, both kinds of proxy, silent or not, a context done at any step; 2 tables with a cycle of 2 keys, 3 workers. 345 thousand states |
| `shared_target` | two runs into one target over a source that changes | 2 runs (one may drop the other's database between any two statements), 2 tables, the source beginning with both or one, one with a key from a sequence that starts at a row of value 0, which `setval` refuses; one migration of any kind and one write at any time; any run fails at any step. 1.05 million states, with symmetric runs; only safety is checked |
| `sync_plan` | planning over every schema of these tables | 3 tables, two with one bare name, 7 possible keys (a cycle of 2 and of 3, a self-reference), 5 requests, one migration. No action follows the end of planning, hence CHECK_DEADLOCK FALSE |
| `tui_session` | the session with keys at any time | 2 databases, 2 syncs, 2 databases in all queues together (one queue of two, or two of one), `Cap = 1` so that the channel is full; after that the user can only leave or quit (`Spent`) |
| `live_progress` | the counters, and the reader that feeds them | 2 databases, 4 tables, 2 workers, estimates too low and exact, the interval passed or not at every read, a stream that breaks |
| `tool_cache` | two processes extract at a time | 2 processes of 2 calls (the second is the one a locator skips), 2 files, 2 faults. All calls may be used up, hence CHECK_DEADLOCK FALSE |
| `updater` | two updates at a time on any platform | 2 attempts of a download and 2 of a move stand for 3 and 120: one that is repeated and one that is the last; 2 faults. Updates end, hence CHECK_DEADLOCK FALSE |
| `config` | two processes on one file | 2 editors, 1 sync, 3 forms, 1 fault: two saves overlap at every step, one of them fails or is killed, then a lone save heals. Processes are symmetric; only safety is checked |
| `sync_one_server` | violated: a plan whose remote and local are one server drops the source | 1 table, 1 fault |

A run checks what needs its interleavings.  What section 6 proves for every value of the
constants (the type invariants of those modules, `NoSendOnClosed`,
`NilMeansAllCopied`, `SuccessMeansComplete`, `RowsUnderSnapshot`, `WorkersApart`,
`RefusesOnlyCycles`) is left to the proof where a stronger property of the run
would break with it.  `PlanIsClosure` gathers what makes the result of `FKClosure` the
closure.  Elsewhere one invariant (`Inv`, `PoolInv`, `ProgressInv`, `CacheInv`, `ConfigInv`)
gathers the type invariant and the plain facts: `NilMeansCommitted`, `NothingOutlivesCopy` and `NeverStuck` of `CopyTable`;
`QuietAfterReturn`, `ReportNeverBlocks` and `NeverStuck` of `CopyPool`;
`CountsAreDone`, `NeverPastWhole` and `NoDoubleCounting` of `LiveProgress`; `BothServed`,
`TempsCleaned` and `NoPartialState` of `ToolCache`; `FailedLeavesNothing`,
`BackupWhileAbsent` and `RefusalCostsNothing` of `Updater`; `NoLeftovers`,
`PositionalNamesIt`, `HostsAreGiven` and `WholeUnlessSuspect` of `Configuration`.

## 5. Fairness

Fairness is assumed of what a scheduler runs and never of a failure, a user, a caller
that cancels or another program.

- `CopyTable`, `CopyPool`: weak fairness of every goroutine.  In `CopyTable` it is of
  each step that succeeds; a statement that neither returns nor fails is excluded,
  as the code has no timeout for it.
- `SyncRun`: weak fairness of the engine's next statement and of the user's rerun;
  `RetryRebuilds` says what the rerun achieves once failures stop.
- `SchemaTransfer`: weak fairness of every goroutine of the tunnel, of each worker of
  pg_restore, of the server while it is connected, and of pg_dump as long as it can go on;
  a tool whose context is done is killed.  None of the accept loop ending early, of a
  failure, of a cancelled context, or of a proxy that answers: `TransferEnds` names the two
  waits that remain, a tool behind a silent proxy or a dead accept loop (`Stuck`) and a
  goroutine behind a silent proxy (`Dialing`).
- `TuiSession`: weak fairness of the delivery of each message and of each sync
  goroutine.  The user need not press anything.
- `ToolCache`, `Updater`: weak fairness of each call and each script.
- `SyncPlan`: weak fairness of planning; migrations are bounded.
- `LiveProgress`, `Configuration`, `SharedTarget`: none; only safety is checked.

## 6. The proofs

Each proof module holds the theorems of the modules it extends, for every value of the
constants under those modules' named assumptions, which only say that numbers are
natural and functions have their domain (`ChunksIsNat`, `MaxVersionIsNat`, `PoolAssumption`,
`SyncAssumption`, `RestoreAssumption`, `SessionAssumption`, `PlanAssumption`,
`ProgressAssumption`, `SharedAssumption`, `UpdaterAssumption`, `CacheAssumption`,
`FaultsAssumption`; the tunnel needs none).  Those of the configuration, `SourcesAssumption`
and `ConfigurationAssumption`, say what kind of value each source may give, and that no
`PGSYNC_*` variable gives the local database.  Each follows one path: a lemma splits `Next` into its steps (`StepCases` and
the like), an inductive invariant is kept by each of them, and the property follows from it.
TLC has checked each inductive invariant on the run's instance.

- **CopyProofs**, of the copy: any number of chunks and of changes of the source.  What the pipe
  has delivered is a prefix of what the source read, all of one version (`StreamSound`); the
  target commits only after an end of file that the source gave after its last chunk
  (`TargetSound`, `WriterSound`); each side's error is one that its own statement or the
  caller raised, or the other side's passed on (`CausesReal`).  From it `CommittedIsSnapshot`,
  `ReportsRootCause`, `Inv` (with `NeverStuck`, since who leaves the pipe has closed its end of
  it), and `KeepsContract`: every step maps to a step of `CopyContract` or a stutter.
- **CopyProofs**, of what is shown: any databases, tables, rows, estimates and workers.  The
  totals are folds over sets of tables.  That such a fold is well defined, is natural and
  does not depend on the order (`AddingUp`, `TotalIsNat`, `TotalWithout`) is an induction over
  the set, which is put as the search for a counterexample: a set of naturals that is not
  empty has a least one (`LeastNumber`), so there would be a smallest set for which the fact
  fails, and there is none.  The invariant then says that databases are synced one after
  another (`QueueInOrder`: what is done is of the databases so far, so a database starts from
  nothing), that a reader has not shown more than it has read and that the last event shows
  all of it (`ReaderSound`), and that the bytes in flight are those of the last event of a
  table that a worker still has, or none (`LastShown`).  From it `ProgressInv`, `FinalIsWhole`
  and `ForwardWhenAlone`.
- **CopyPoolProofs**, any number of tables and threads.  Why the first error reported is
  the cause is not inductive: it needs `CauseFirst` (while no failure is known, no
  result that says *cancelled* is in the queue, for a worker sends its result before
  it cancels), `NoTableLost` (a job is in some place) and `CleanReturn`.  With `OneHolder`
  (it is in one place only) the results in the channel and the table of a worker about to
  report are different tables, of which there are `N`: by the pigeonhole principle the channel
  has room (`ReportNeverBlocks`), and then some goroutine can always go on (`NeverStuck`).
  `PoolKeepsContract`: every step maps to a step of `CopyContract` or a stutter.
- **SyncRunProofs**, any tables, sequences and number of failures and reruns.
  `TargetByStage` says what the target holds at each stage; from it follow success
  means complete, the order of the phases, that everything is released, what
  preflight spares, that rows are the snapshot's, and `RunKeepsContract`.
- **SchemaTransferProofs**, any schema, workers, connections and length of the answer.  Of
  the restore: a statement locks only tables of its own key (`LocksOwn`), and statements
  at work share no table (`WorkersApart`), so none waits for another; it rests on the TABLE
  entries that `DumpArchive` keeps in the archive.  Of the tunnel: the bridge closes both
  sockets when the first copier has ended, so the invariant says why one has (`Cause`): a
  peer closed, and either all it had sent is forwarded or it left something unread.  The
  composition implements both, each step of one being a step or a stutter of the other, so
  that `NoWorseThanDirect` and `NoDeadlock` hold of a run.
- **SharedTargetProofs**, any runs, tables, migrations, writes and failures.  A run never
  repairs a sequence in a database that lacks its rows or keys.  The argument is the open
  connection: a session is open only on a database that exists (`SessionsNeedDatabase`),
  dropping it takes that no session is open, so what a run has put there stays while its
  own first connection is alive (`Kept`), and the repair goes over that connection.
  What a run that reports success has built takes more (`LInv`): what it saw of the source
  at each look is what the source was, and the looks are in the order of its versions
  (`SourceNumbered`, `Seen`); its stages were done one after another (`InTurn`); while no
  other run has touched the target, it holds what the stages done so far have put there
  (`LeftAlone`, `Holds`).  Then `LoneSuccessIsFaithful` and `NextIsFree` follow.
- **TuiSessionProofs**, any databases, capacity and number of syncs.  `Awaited` (a
  working sync is waited for exactly once), `InOrder` (syncs start one after another
  has ended) and `EventsSound` (what the channel holds is what was copied).  For
  `SuccessIsWhole`: the databases of a queue are executed in its order and the first that
  fails ends it, so a last one that is good finds the others good (`OutcomesSound`), and
  the result screen is about a sync that has ended (`ReportEnded`).
- **PlanningProofs**, of the plan: any tables, names, keys, requests and migrations.  `Worklist`
  (what is selected and not in the queue has its parents selected or queued) gives
  the closure; `Graph` (an in-degree is the number of parents not yet emitted) gives
  the order, and that only cycles are refused.  `PlanningAdvances`: of the places of the plan,
  the tables whose parents are not selected and those not sorted, each step leaves one less,
  so planning `N` tables takes `2N + 8` steps at most, whatever cycles their keys form.
- **PlanningProofs**, of the configuration: any processes, files, environments, flags,
  arguments, edits, fragments, faults and numbers of programs.  Of the file: a save that overlaps no
  other has path.tmp to itself, has put there what it will have saved, and path.tmp is never
  the inode of the configuration (`Apart`); a file that two saves may have written is
  suspect, any other is whole and flushed, so that a power loss does not harm it
  (`WholeAndSynced`).  An inode for path.tmp is always free, as each process has one open at
  most (`FreeInode`).  Of each program (`Sound`): a sync has what its sources layered,
  and Infisical has changed none of it (`Layers`); a form has changed only what it says it
  has edited (`Spared`), for which a file that was written from what was read of one must
  read the same (`ReadTwice`).  Then `ConfigInv`, `HighestSourceWins` and `LoneSaveSticks`
  follow from the values of the operators, setting by setting (`LayeredValues`).
- **InstallProofs**, of the program: any number of updates, of attempts and of faults.  What
  an update has got is what was published where there are checksums, and it stays in its
  candidate until that is moved (`Carries`); a script counts its tries and restores only
  what was refused (`Scripted`).  Where the program is depends on the scripts: with none
  started it is where it was; of a script that is the only one (`Sole`), each line finds
  the program and its backup as the line before has left them (`Stage`); and without a fault
  the program is gone only while some script is about to put the new one there
  (`ProgramKept`).  The last part is about *some* script because two at work may take from
  each other, which is what `BackupWhileAbsent` and `RefusalCostsNothing` leave out.
- **InstallProofs**, of the tools: any number of processes, files, calls, crashes, failures
  and damages.  A process never gets back to a directory that it has given the final name
  (`Past`), so what it writes is seen by nobody (`Private`) although no lock is taken, and
  only a whole directory is renamed.  Without a fault, what is missing is being removed or
  made by somebody who will finish it (`Repaired`), hence `NoPartialState`.  `BothServed` is
  about two processes (`Raced`: the one that removes a cache removes that of the other,
  which has returned already), and is false of three, see section 7.

Only model-checked: liveness (`CopyReturns`, `PoolReturns`, `RetryRebuilds`,
`TransferEnds`, `SyncReported`, `PlanEnds`, `LoneCallHeals`, `SuccessArrives`), which is
beyond the prover: it rests on `ENABLED`.  Of `CopyReturns`, `PoolReturns`, `TransferEnds` and
`PlanEnds` the part that is safety is proved: nobody is stuck (`NeverStuck`, `NoDeadlock` of the
restore), planning has no more than so many steps (`PlanningAdvances`).  Every invariant and
every action property of a run that passes is proved.

## 7. Findings

One run is violated by what the code does against what its documents say:

- `sync_one_server` (native.go:340): nothing compares the two endpoints, although the
  design asks for it; the source is dropped.

Observations the models make plain, for whoever maintains the code:

- Infisical is asked unless *both* databases are named (config_resolver.go:93), and only the
  file can name the local one, so the bypasses by `--remote-database`,
  `PGSYNC_REMOTE_DATABASE` and `[remote] database` that the design documents
  (docs/superpowers/specs/2026-05-11-infisical-resolver-design.md:73,76,77) do not bypass.
- Nothing keeps two runs off one target.  `RepairsOwnRows` saves a run whose plan has a
  sequence from reporting success over another's database; a run without one may.
- The source is looked at several times (`SharedTarget`): a table that is truncated or
  rewritten between snapshot and COPY arrives empty, and the run succeeds; one whose columns
  change fails the run after the target was dropped; one that is created after the plan
  arrives without rows.  The terminal UI plans its whole queue first (app.go:541), which
  makes the time between plan and snapshot as long as the syncs before it.
- `setval` refuses a largest value below the sequence's minimum (sequences.go:51): a table
  whose only key is 0 fails the run at its last stage.  For a descending sequence MAX is
  the wrong end.
- `CopyTable` leaves its source connection open when `QuoteQualified` refuses the table's
  name (copy.go:40); a name from the catalogue is never refused, so `CopyPool` leaves it out.
- The HTTP dialer waits for the answer to CONNECT without its context (dialer.go:107): behind
  a silent proxy `Connect` hangs, and the tunnel leaves a goroutine when its tool is killed.
- The accept loop ends at the first error of `Accept` (schema.go:238), and pg_dump then waits
  in the queue of a listener nobody accepts from, until its context is done.

- A sync whose planning fails ends on "No sync result yet." (app.go:550), while the plan
  of the screen wants errors grouped (phase 3 plan, line 826).
- `waitSyncProgressCmd` (app.go:601) may pick the end while events are buffered; their
  rows then never reach the progress, though the report has them.
- `q` ends a working sync at once (app.go:337), while the plan wants a confirmation
  (phase 3 plan, line 363).
- With several tables in flight the total of bytes goes back whenever one starts or
  reports (tui/progress.go:17, 193, 198); only `ForwardWhenAlone` holds.
- `CopyTables` returns nil when its caller has cancelled between tables (copy.go:113,
  239); the check of the context on entry of the next stage makes up for it.
- Two processes that extract the tools at a time both get them, as the plan asks (phase 4
  plan, line 263).  Of three one may fail: the second loses the race against the first
  and validates its directory while the third, which had found none, removes it
  (extract.go:93, 115).
- A process may remove the tool directory that another has just returned, and an
  unsigned payload on darwin is extracted again at every call (it is taken as signed).
- Two Windows scripts share one backup name; the first may delete the backup of the
  second.
- A plan of all tables may lack the parent of a table if a migration falls between
  two catalogue queries; a bare name that two schemas share means the last of them;
  partitioned tables are listed together with their partitions.
- Two overlapping saves may tear the configuration, although `Save` is documented as
  atomic (store.go:14): both write one `.tmp`.  A file that lost its last lines, from this
  or from a hand, loads without an error (store.go:89): TOML has no end.  If both hosts are
  among what is left, `Resolve` asks for no other source (config_resolver.go:62-76) and the
  sync starts with defaults for the rest.  `HostsAreGiven` holds of what decoded;
  `WholeUnlessSuspect` says when there is no such file.  Environment values are saved into the
  file by the settings form, and the application saves its own copy over what others
  saved meanwhile.
- `applyPositionalDatabase` says that values of the file and of the environment are
  preserved (sync.go:84-87); the argument overrides them, as a flag would.
- `ConcurrentIndexes` is resolved and planned, and the native engine does not read it.

## 8. What is not modelled

- Rendering: `tui/screens/basic.go`, `cli/plain_output.go`, `cli/agent_progress.go` (one line
  per event under a mutex), percentages and rates; dump filters and the error texts of
  pg_dump and pg_restore; paths and redaction: formats, about which no property is
  stated.
- `pgdb`, `fsx`, `clock`, `observability`, `models`: thin wrappers and data
  types; their calls are modelled where they are made.
- Partitioned tables, and objects of a schema other than tables, keys and sequences.
- `EmbeddedLocator`, which nothing constructs, and the search of `PATH`.
- The search of `.infisical.json` and the parsing of the dotenv file: `AskInfisical` has
  their two outcomes, a name or an error.
- Benchmarks, fixtures and test helpers: not part of the program.
- PostgreSQL, pg_dump, pg_restore, the file system, GitHub and the operating system are
  external: the models have of them what the code relies on.
