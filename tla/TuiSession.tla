----------------------------- MODULE TuiSession -----------------------------
(***************************************************************************)
(* The terminal UI: internal/tui/app.go (Update, the key handlers,         *)
(* startSyncCmd, waitSyncProgressCmd), mouse.go, and the loop of           *)
(* cmd/pgsync/tui_runner.go that alternates the application with the       *)
(* settings form.                                                          *)
(*                                                                         *)
(* Bubble Tea runs Update on one message at a time and runs the commands   *)
(* it returns in goroutines, so a catalogue listing, the message that a    *)
(* sync has started, the wait for its next event and the message that ends *)
(* the program are all in flight while keys go on arriving.  The sync is a *)
(* goroutine of its own that talks over two channels: events, a buffer of  *)
(* Cap, and done, a buffer of one.                                         *)
(*                                                                         *)
(* A database has one table, whose row in the report stands for its        *)
(* progress events.  Mouse actions do what a key does.  Scrolling, tabs    *)
(* and cursor movement change the layout only.                             *)
(***************************************************************************)
EXTENDS Naturals, Sequences, FiniteSets

CONSTANTS
  DBs,         \* the databases of the remote server
  Cap,         \* capacity of the events channel (256 in the code)
  MaxSyncs,    \* bound on the syncs of a process
  MaxQueued    \* bound on the databases in the queues of all of them

ASSUME SessionAssumption == Cap \in Nat \ {0} /\ MaxSyncs \in Nat /\ MaxQueued \in Nat

Syncs == 1..MaxSyncs
NoSync == 0
NoDB == "none"

VARIABLES
  \* The State of app.go:
  \*   current    the screen            running    Running
  \*   quit       Quit                  err        Err is set
  \*   databases  the listing           selected   SelectedDatabases
  \*   report     the sync whose SyncFinishedMsg filled Result and Results
  \*   rows       Progress.TableResults, as <<sync, database>>
  \*   channels   the sync that ProgressEvents and SyncDone belong to
  state,
  \* The Bubble Tea runtime and the runner's loop:
  \*   mode       "app", "editor" (the settings form) or "exited"
  \*   loading    a catalogue listing is in flight
  \*   starting   the sync whose syncStartedMsg is in flight
  \*   waiting    the sync that waitSyncProgressCmd waits for
  \*   quitting   tea.Quit is in flight
  tea,
  \* The goroutine of each sync:
  \*   pc         "idle", "plan", "execute", "close", "ended"
  \*   queue      its databases         planned    those planned
  \*   at         the one in Execute    copied     those whose table event was sent
  \*   outcome    what Execute returned for each: "none", "ok", "failed"
  \*   events     the events channel    done       the done channel
  sync

vars == <<state, tea, sync>>

Screens == {"databaseList", "confirmPlan", "progress", "result", "configEditor", "mainMenu"}
AnySync == Syncs \cup {NoSync}

TypeOK ==
  /\ state \in [current : Screens, running : BOOLEAN, quit : BOOLEAN, err : BOOLEAN,
                databases : SUBSET DBs, selected : SUBSET DBs, report : AnySync,
                rows : SUBSET (Syncs \X DBs), channels : AnySync]
  /\ tea \in [mode : {"app", "editor", "exited"}, loading : BOOLEAN, starting : AnySync,
              waiting : AnySync, quitting : BOOLEAN]
  /\ sync \in [Syncs ->
       [pc : {"idle", "plan", "execute", "close", "ended"}, queue : SUBSET DBs,
        planned : SUBSET DBs, at : DBs \cup {NoDB}, copied : SUBSET DBs,
        outcome : [DBs -> {"none", "ok", "failed"}],
        events : Seq({"plan", "table"} \X DBs), done : {"empty", "ok", "failed"}]]
  /\ \A s \in Syncs : Len(sync[s].events) <= Cap

(* NewAppWithServices and Init, with a valid configuration: the runner     *)
(* lets no other through.                                                  *)
NewState ==
  [current |-> "databaseList", running |-> FALSE, quit |-> FALSE, err |-> FALSE,
   databases |-> {}, selected |-> {}, report |-> NoSync, rows |-> {}, channels |-> NoSync]
NewProgram ==
  [mode |-> "app", loading |-> TRUE, starting |-> NoSync, waiting |-> NoSync, quitting |-> FALSE]

Init ==
  /\ state = NewState
  /\ tea = NewProgram
  /\ sync = [s \in Syncs |->
       [pc |-> "idle", queue |-> {}, planned |-> {}, at |-> NoDB, copied |-> {},
        outcome |-> [d \in DBs |-> "none"], events |-> <<>>, done |-> "empty"]]

On(screen) == tea.mode = "app" /\ state.current = screen

Queued == Cardinality({p \in Syncs \X DBs : p[2] \in sync[p[1]].queue})

(* The bounds of the model leave the user nothing to start. *)
Spent == Queued >= MaxQueued \/ \A s \in Syncs : sync[s].pc # "idle"

(* A key on a screen.  A bound of the model: who has pressed q presses no  *)
(* more keys, and who has seen the last sync end can only quit.            *)
Key(screen) == On(screen) /\ ~state.quit /\ (Spent => state.running)

-----------------------------------------------------------------------------
(* The handlers that only navigate or select. *)

Goto(screen) ==
  /\ state' = [state EXCEPT !.current = screen]
  /\ UNCHANGED <<tea, sync>>

Select(dbs) ==
  /\ state' = [state EXCEPT !.selected = dbs]
  /\ UNCHANGED <<tea, sync>>

ToggleDatabase ==
  /\ Key("databaseList")
  /\ \E d \in state.databases :
       Select(IF d \in state.selected THEN state.selected \ {d} ELSE state.selected \cup {d})

SelectAll  == Key("databaseList") /\ Select(state.selected \cup state.databases)
SelectNone == Key("databaseList") /\ Select({})

(* A bound of the model: a reload waits for the listing in flight. *)
Reload ==
  /\ Key("databaseList") /\ ~tea.loading
  /\ state' = [state EXCEPT !.err = FALSE]
  /\ tea' = [tea EXCEPT !.loading = TRUE]
  /\ UNCHANGED sync

(* Enter takes the database under the cursor when none is selected. *)
ChooseDatabases ==
  /\ Key("databaseList")
  /\ \E dbs \in {state.selected} \cup {{d} : d \in state.databases} :
       /\ dbs # {}
       /\ state.selected # {} => dbs = state.selected
       /\ state' = [state EXCEPT !.current = "confirmPlan", !.selected = dbs]
  /\ UNCHANGED <<tea, sync>>

LeaveConfirm == Key("confirmPlan") /\ Goto("databaseList")
LeaveResult  == Key("result") /\ (Goto("databaseList") \/ Goto("confirmPlan"))

(* The screens of a program that is about to end for the settings form:    *)
(* keys that arrive before its end still count.                            *)
LeaveEditor == Key("configEditor") /\ ~state.err /\ Goto("mainMenu")
LeaveMenu   == Key("mainMenu") /\ Goto("databaseList")

(* Mutant: s opens the settings from the progress screen as well. *)
AnyScreen == Screens

SettingsScreens == {"databaseList", "confirmPlan", "configEditor", "mainMenu"}

OpenSettings ==
  /\ Key(state.current) /\ state.current \in SettingsScreens
  /\ state' = [state EXCEPT !.current = "configEditor"]
  /\ tea' = [tea EXCEPT !.quitting = TRUE]
  /\ UNCHANGED sync

(* q asks on the menu and in the editor when a sync runs, and quits on     *)
(* every other screen.                                                     *)
QuitAllowed == state.current \in {"configEditor", "mainMenu"} => ~state.running

Quit ==
  /\ tea.mode = "app" /\ ~state.quit /\ QuitAllowed
  /\ state' = [state EXCEPT !.quit = TRUE]
  /\ tea' = [tea EXCEPT !.quitting = TRUE]
  /\ UNCHANGED sync

-----------------------------------------------------------------------------
(* loadDatabasesCmd and onDatabasesLoaded: a failed listing empties it.    *)
DatabasesLoaded ==
  /\ tea.mode = "app" /\ tea.loading
  /\ \E dbs \in SUBSET DBs, failed \in BOOLEAN :
       /\ failed => dbs = {}
       /\ state' = [state EXCEPT !.databases = dbs, !.err = failed]
  /\ tea' = [tea EXCEPT !.loading = FALSE]
  /\ UNCHANGED sync

-----------------------------------------------------------------------------
(* Starting a sync. *)

(* Mutant: the progress of the last sync is kept. *)
KeptRows == state.rows

(* NewLiveProgressForQueue *)
RowsAtStart == {}

selectedDatabaseList == state.selected \cap state.databases

ConfirmNothing == Key("confirmPlan") /\ selectedDatabaseList = {} /\ Goto("databaseList")

(* Enter on the confirmation starts the goroutine of startSyncCmd. *)
StartSync(s) ==
  /\ Key("confirmPlan") /\ selectedDatabaseList # {}
  /\ Queued + Cardinality(selectedDatabaseList) <= MaxQueued
  /\ sync[s].pc = "idle" /\ \A r \in 1..(s - 1) : sync[r].pc # "idle"
  /\ state' = [state EXCEPT !.current = "progress", !.running = TRUE, !.rows = RowsAtStart]
  /\ tea' = [tea EXCEPT !.starting = s]
  /\ sync' = [sync EXCEPT ![s] =
       [sync[s] EXCEPT !.pc = "plan", !.queue = selectedDatabaseList]]

(* syncStartedMsg *)
SyncStarted ==
  /\ tea.mode = "app" /\ tea.starting # NoSync
  /\ state' = [state EXCEPT !.channels = tea.starting]
  /\ tea' = [tea EXCEPT !.waiting = tea.starting, !.starting = NoSync]
  /\ UNCHANGED sync

-----------------------------------------------------------------------------
(* The goroutine of startSyncCmd: plan every database, then execute one by *)
(* one.  It dies with the process.                                         *)

At(s, place) == tea.mode # "exited" /\ sync[s].pc = place

HasRoom(s) == Len(sync[s].events) < Cap

Offered(s, event) ==
  IF HasRoom(s) THEN Append(sync[s].events, event) ELSE sync[s].events

(* The select with a default: the event of a full channel is dropped. *)
PlanDatabase(s, d) ==
  /\ At(s, "plan") /\ d \in sync[s].queue \ sync[s].planned
  /\ LET planned == sync[s].planned \cup {d} IN
     sync' = [sync EXCEPT ![s] = [sync[s] EXCEPT
       !.planned = planned,
       !.events = Offered(s, <<"plan", d>>),
       !.pc = IF planned = sync[s].queue THEN "execute" ELSE @]]
  /\ UNCHANGED <<state, tea>>

(* A database cannot be planned, or no executor is configured. *)
PlanFails(s) ==
  /\ At(s, "plan")
  /\ sync' = [sync EXCEPT ![s] = [sync[s] EXCEPT !.pc = "close", !.done = "failed"]]
  /\ UNCHANGED <<state, tea>>

ExecuteDatabase(s, d) ==
  /\ At(s, "execute") /\ sync[s].at = NoDB
  /\ d \in sync[s].queue /\ sync[s].outcome[d] = "none"
  /\ sync' = [sync EXCEPT ![s] = [sync[s] EXCEPT !.at = d]]
  /\ UNCHANGED <<state, tea>>

(* Mutant: the observer has a default as well. *)
NeverBlocks(s) == TRUE

(* The observer blocks while the channel is full: its context is never     *)
(* done.                                                                   *)
ObserverReady(s) == HasRoom(s)

TableCopied(s) ==
  /\ At(s, "execute") /\ sync[s].at \in DBs \ sync[s].copied
  /\ ObserverReady(s)
  /\ sync' = [sync EXCEPT ![s] = [sync[s] EXCEPT
       !.copied = @ \cup {sync[s].at},
       !.events = Offered(s, <<"table", sync[s].at>>)]]
  /\ UNCHANGED <<state, tea>>

ExecuteReturns(s) ==
  /\ At(s, "execute") /\ sync[s].at \in sync[s].copied
  /\ LET last == \A d \in sync[s].queue \ {sync[s].at} : sync[s].outcome[d] # "none" IN
     sync' = [sync EXCEPT ![s] = [sync[s] EXCEPT
       !.outcome = [@ EXCEPT ![sync[s].at] = "ok"],
       !.at = NoDB,
       !.pc = IF last THEN "close" ELSE @,
       !.done = IF last THEN "ok" ELSE @]]
  /\ UNCHANGED <<state, tea>>

(* The first error ends the queue. *)
ExecuteFails(s) ==
  /\ At(s, "execute") /\ sync[s].at # NoDB
  /\ sync' = [sync EXCEPT ![s] = [sync[s] EXCEPT
       !.outcome = [@ EXCEPT ![sync[s].at] = "failed"],
       !.at = NoDB, !.pc = "close", !.done = "failed"]]
  /\ UNCHANGED <<state, tea>>

(* The deferred close of the events channel. *)
CloseEvents(s) ==
  /\ At(s, "close")
  /\ sync' = [sync EXCEPT ![s] = [sync[s] EXCEPT !.pc = "ended"]]
  /\ UNCHANGED <<state, tea>>

-----------------------------------------------------------------------------
(* waitSyncProgressCmd and the messages it returns. *)

(* Mutant: only progress events are followed by another wait. *)
WaitAfterTable(kind) == IF kind = "table" THEN state.channels ELSE NoSync

WaitAgain(kind) == state.channels

(* syncProgressMsg and dbPlanReadyMsg *)
SyncEvent ==
  /\ tea.mode = "app" /\ tea.waiting # NoSync
  /\ sync[tea.waiting].events # <<>>
  /\ LET m == Head(sync[tea.waiting].events) IN
       /\ state' = IF m[1] = "plan" THEN state
                   ELSE [state EXCEPT !.rows = @ \cup {<<tea.waiting, m[2]>>}]
       /\ tea' = [tea EXCEPT !.waiting = WaitAgain(m[1])]
  /\ sync' = [sync EXCEPT ![tea.waiting] = [sync[tea.waiting] EXCEPT !.events = Tail(@)]]

(* When both channels are ready Go picks either, so the end may be seen    *)
(* with events still in the buffer.                                        *)
SyncFinished ==
  /\ tea.mode = "app" /\ tea.waiting # NoSync
  /\ sync[tea.waiting].done # "empty"
  /\ state' = [state EXCEPT !.running = FALSE, !.current = "result", !.report = tea.waiting,
                            !.err = (sync[tea.waiting].done = "failed")]
  /\ tea' = [tea EXCEPT !.waiting = NoSync]
  /\ sync' = [sync EXCEPT ![tea.waiting] = [sync[tea.waiting] EXCEPT !.done = "empty"]]

-----------------------------------------------------------------------------
(* The loop of runInteractiveTUI: the program ends for the settings form   *)
(* or for good; the form is completed, validated and saved, or the command *)
(* ends with the form's error.                                             *)
ProgramEnds ==
  /\ tea.mode = "app" /\ tea.quitting
  /\ tea' = [tea EXCEPT !.mode =
       IF state.current = "configEditor" /\ ~state.quit THEN "editor" ELSE "exited"]
  /\ UNCHANGED <<state, sync>>

SettingsSaved ==
  /\ tea.mode = "editor"
  /\ state' = NewState /\ tea' = NewProgram
  /\ UNCHANGED sync

SettingsAborted ==
  /\ tea.mode = "editor"
  /\ tea' = [tea EXCEPT !.mode = "exited"]
  /\ UNCHANGED <<state, sync>>

-----------------------------------------------------------------------------
User ==
  \/ ToggleDatabase \/ SelectAll \/ SelectNone \/ Reload \/ ChooseDatabases
  \/ LeaveConfirm \/ LeaveResult \/ LeaveEditor \/ LeaveMenu
  \/ OpenSettings \/ Quit
  \/ ConfirmNothing \/ \E s \in Syncs : StartSync(s)
  \/ SettingsSaved \/ SettingsAborted

Update == DatabasesLoaded \/ SyncStarted \/ SyncEvent \/ SyncFinished \/ ProgramEnds

(* The steps of the goroutine that need no failure. *)
Progresses(s) ==
  \/ \E d \in DBs : PlanDatabase(s, d) \/ ExecuteDatabase(s, d)
  \/ TableCopied(s) \/ ExecuteReturns(s) \/ CloseEvents(s)

Exited == tea.mode = "exited" /\ UNCHANGED vars

Next ==
  \/ User
  \/ Update
  \/ \E s \in Syncs : Progresses(s) \/ PlanFails(s) \/ ExecuteFails(s)
  \/ Exited

Spec == Init /\ [][Next]_vars

(* The Go scheduler runs every goroutine, and a planner and an executor    *)
(* that meet no failure finish.  The user is free to do nothing.           *)
FairSpec ==
  /\ Spec
  /\ WF_vars(SyncStarted) /\ WF_vars(SyncEvent) /\ WF_vars(SyncFinished) /\ WF_vars(ProgramEnds)
  /\ \A s \in Syncs : WF_vars(Progresses(s))

-----------------------------------------------------------------------------
(* The goroutine of s may still touch a target database. *)
Active(s) == sync[s].pc \in {"plan", "execute"}

(* While a sync works on the target its progress is what the user sees: no *)
(* second sync can be started, and no settings changed, under it.          *)
WatchedWhileActive ==
  \A s \in Syncs : Active(s) /\ tea.mode # "exited" =>
    /\ On("progress") /\ state.running
    /\ \A r \in Syncs \ {s} : ~Active(r)

(* What the screen shows is of the sync it shows: no event of an earlier   *)
(* sync is counted, and none is counted before its table was copied.       *)
OwnRows ==
  \A r \in state.rows :
    /\ r[2] \in sync[r[1]].copied
    /\ \A s \in Syncs : sync[s].pc # "idle" => s <= r[1]

(* No table event is lost while its sync is watched: it is applied or      *)
(* still in the channel, however full that is.                             *)
Buffered(s) == {sync[s].events[i] : i \in 1..Len(sync[s].events)}
EventsKept ==
  \A s \in Syncs : tea.mode = "app" /\ (tea.starting = s \/ tea.waiting = s) =>
    state.rows = {<<s, d>> : d \in {e \in sync[s].copied : <<"table", e>> \notin Buffered(s)}}

(* Mutant: one good result makes the queue good. *)
AnyResult(s) ==
  IF \E d \in DBs : sync[s].outcome[d] = "ok" THEN "SUCCESS"
  ELSE IF \E d \in DBs : sync[s].outcome[d] = "failed" THEN "FAILED"
  ELSE "No sync result yet."

(* aggregateResult and renderResultSummary *)
Status(s) ==
  IF \E d \in DBs : sync[s].outcome[d] = "failed" THEN "FAILED"
  ELSE IF \E d \in DBs : sync[s].outcome[d] = "ok" THEN "SUCCESS"
  ELSE "No sync result yet."

(* The report says SUCCESS only for a queue whose databases all succeeded. *)
SuccessIsWhole ==
  On("result") /\ Status(state.report) = "SUCCESS" =>
    \A d \in sync[state.report].queue : sync[state.report].outcome[d] = "ok"

(* A sync that nobody quits reaches its report: its goroutine never waits  *)
(* on a full channel that nobody reads, and its end is always read.        *)
SyncReported == state.running ~> ~state.running \/ tea.mode = "exited"

=============================================================================
