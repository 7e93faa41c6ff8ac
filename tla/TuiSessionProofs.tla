-------------------------- MODULE TuiSessionProofs --------------------------
(***************************************************************************)
(* Proofs about TuiSession for any databases, any channel capacity and any *)
(* number of syncs.                                                        *)
(***************************************************************************)
EXTENDS TuiSession, TLAPS

SyncRecord ==
  [pc : {"idle", "plan", "execute", "close", "ended"}, queue : SUBSET DBs,
   planned : SUBSET DBs, at : DBs \cup {NoDB}, copied : SUBSET DBs,
   outcome : [DBs -> {"none", "ok", "failed"}],
   events : Seq({"plan", "table"} \X DBs), done : {"empty", "ok", "failed"}]

StateTypes ==
  state \in [current : Screens, running : BOOLEAN, quit : BOOLEAN, err : BOOLEAN,
             databases : SUBSET DBs, selected : SUBSET DBs, report : AnySync,
             rows : SUBSET (Syncs \X DBs), channels : AnySync]
TeaTypes ==
  tea \in [mode : {"app", "editor", "exited"}, loading : BOOLEAN, starting : AnySync,
           waiting : AnySync, quitting : BOOLEAN]
SyncTypes == sync \in [Syncs -> SyncRecord]

(* A working sync is the one whose start or next event is awaited, and     *)
(* something is awaited on the progress screen only.                       *)
Front ==
  tea.mode # "exited" =>
    /\ tea.starting # NoSync \/ tea.waiting # NoSync => On("progress") /\ state.running
    /\ tea.starting = NoSync \/ tea.waiting = NoSync
    /\ tea.waiting # NoSync => state.channels = tea.waiting
Awaited ==
  /\ Front
  /\ \A s \in Syncs : Active(s) /\ tea.mode # "exited" => tea.starting = s \/ tea.waiting = s
  /\ \A s \in Syncs : sync[s].pc \in {"idle", "plan", "execute"} => sync[s].done = "empty"

(* Syncs start in order, and what is awaited is of the last one.           *)
InOrder ==
  /\ \A r, s \in Syncs : r < s /\ sync[s].pc # "idle" => sync[r].pc # "idle"
  /\ \A s \in Syncs : tea.starting = s \/ tea.waiting = s =>
       \A r \in Syncs : sync[r].pc # "idle" => r <= s

(* The table events of a sequence are of copied tables, each of another.   *)
Good(events, copied) ==
  /\ \A i \in 1..Len(events) : events[i][1] = "table" => events[i][2] \in copied
  /\ \A i, j \in 1..Len(events) : i # j /\ events[i][1] = "table" => events[i] # events[j]

EventsSound ==
  \A s \in Syncs :
    /\ Good(sync[s].events, sync[s].copied)
    /\ sync[s].pc = "idle" => sync[s].copied = {}

Room == \A s \in Syncs : Len(sync[s].events) <= Cap

(* The steps of a session, one by one. *)
LEMMA StepCases ==
  ASSUME [Next]_vars
  PROVE  \/ ToggleDatabase \/ SelectAll \/ SelectNone \/ Reload \/ ChooseDatabases
         \/ LeaveConfirm \/ LeaveResult \/ LeaveEditor \/ LeaveMenu
         \/ OpenSettings \/ Quit \/ ConfirmNothing \/ SettingsSaved \/ SettingsAborted
         \/ DatabasesLoaded \/ SyncStarted \/ SyncEvent \/ SyncFinished \/ ProgramEnds
         \/ (\E s \in Syncs : StartSync(s))
         \/ (\E s \in Syncs, d \in DBs : PlanDatabase(s, d))
         \/ (\E s \in Syncs, d \in DBs : ExecuteDatabase(s, d))
         \/ (\E s \in Syncs : PlanFails(s))
         \/ (\E s \in Syncs : TableCopied(s))
         \/ (\E s \in Syncs : ExecuteReturns(s))
         \/ (\E s \in Syncs : ExecuteFails(s))
         \/ (\E s \in Syncs : CloseEvents(s))
         \/ UNCHANGED vars
  BY DEF Next, User, Update, Progresses, Exited

(* Syncs are numbered from one.                                            *)
LEMMA SyncNumbers == NoSync \notin Syncs /\ Syncs \subseteq Nat
  BY SessionAssumption DEF NoSync, Syncs

(* A new selection keeps the types of the state.                           *)
LEMMA SelectTypes ==
  ASSUME StateTypes, NEW dbs \in SUBSET DBs, Select(dbs)
  PROVE  StateTypes'
  BY DEF StateTypes, Select

(* The steps that leave the goroutines alone. *)
LEMMA SessionOnly ==
  ASSUME \/ ToggleDatabase \/ SelectAll \/ SelectNone \/ Reload \/ ChooseDatabases
         \/ LeaveConfirm \/ LeaveResult \/ LeaveEditor \/ LeaveMenu \/ OpenSettings \/ Quit
         \/ ConfirmNothing \/ SettingsSaved \/ SettingsAborted \/ DatabasesLoaded \/ SyncStarted
         \/ ProgramEnds \/ UNCHANGED vars
  PROVE  UNCHANGED sync
  BY DEF ToggleDatabase, SelectAll, SelectNone, Select, Reload, ChooseDatabases, LeaveConfirm,
         LeaveResult, LeaveEditor, LeaveMenu, OpenSettings, Quit, ConfirmNothing, Goto,
         SettingsSaved, SettingsAborted, DatabasesLoaded, SyncStarted, ProgramEnds, vars

(* Every step keeps the types of the state of app.go.                      *)
LEMMA StateTypesStep ==
  ASSUME StateTypes, TeaTypes, SyncTypes, [Next]_vars
  PROVE  StateTypes'
<1> USE SyncNumbers DEF StateTypes, TeaTypes, SyncTypes, SyncRecord, AnySync, Screens
<1>1. CASE ToggleDatabase
  <2>1. PICK d \in state.databases :
          Select(IF d \in state.selected THEN state.selected \ {d} ELSE state.selected \cup {d})
    BY <1>1 DEF ToggleDatabase
  <2>2. QED BY <2>1, SelectTypes
<1>2. CASE SelectAll BY <1>2, SelectTypes DEF SelectAll
<1>3. CASE SelectNone
  <2>1. {} \in SUBSET DBs
    OBVIOUS
  <2>2. QED BY <1>3, <2>1, SelectTypes DEF SelectNone
<1>4. CASE Reload BY <1>4 DEF Reload
<1>5. CASE ChooseDatabases
  <2>1. PICK dbs \in {state.selected} \cup {{d} : d \in state.databases} :
          state' = [state EXCEPT !.current = "confirmPlan", !.selected = dbs]
    BY <1>5 DEF ChooseDatabases
  <2>2. dbs \in SUBSET DBs
    BY <2>1
  <2>3. QED BY <2>1, <2>2
<1>6. CASE LeaveConfirm BY <1>6 DEF LeaveConfirm, Goto
<1>7. CASE LeaveResult BY <1>7 DEF LeaveResult, Goto
<1>8. CASE LeaveEditor BY <1>8 DEF LeaveEditor, Goto
<1>9. CASE LeaveMenu BY <1>9 DEF LeaveMenu, Goto
<1>10. CASE OpenSettings BY <1>10 DEF OpenSettings
<1>11. CASE Quit BY <1>11 DEF Quit
<1>12. CASE ConfirmNothing BY <1>12 DEF ConfirmNothing, Goto
<1>13. CASE SettingsSaved BY <1>13 DEF SettingsSaved, NewState
<1>14. CASE SettingsAborted BY <1>14 DEF SettingsAborted
<1>15. CASE DatabasesLoaded BY <1>15 DEF DatabasesLoaded
<1>16. CASE SyncStarted BY <1>16 DEF SyncStarted
<1>17. CASE SyncEvent
  <2> DEFINE m == Head(sync[tea.waiting].events)
  <2>1. m \in {"plan", "table"} \X DBs
    BY <1>17 DEF SyncEvent
  <2>2. <<tea.waiting, m[2]>> \in Syncs \X DBs
    BY <1>17, <2>1 DEF SyncEvent
  <2>3. state' = IF m[1] = "plan" THEN state
                 ELSE [state EXCEPT !.rows = @ \cup {<<tea.waiting, m[2]>>}]
    BY <1>17 DEF SyncEvent
  <2> HIDE DEF m
  <2>4. QED BY <2>2, <2>3
<1>18. CASE SyncFinished BY <1>18 DEF SyncFinished
<1>19. CASE ProgramEnds BY <1>19 DEF ProgramEnds
<1>20. ASSUME NEW s \in Syncs, StartSync(s) PROVE StateTypes'
  BY <1>20 DEF StartSync, RowsAtStart
<1>21. CASE UNCHANGED state BY <1>21
<1>22. ASSUME NEW s \in Syncs, NEW d \in DBs, PlanDatabase(s, d) \/ ExecuteDatabase(s, d)
       PROVE  UNCHANGED state
  BY <1>22 DEF PlanDatabase, ExecuteDatabase
<1>23. ASSUME NEW s \in Syncs, 
             PlanFails(s) \/ TableCopied(s) \/ ExecuteReturns(s) \/ ExecuteFails(s) \/ CloseEvents(s)
       PROVE  UNCHANGED state
  BY <1>23 DEF PlanFails, TableCopied, ExecuteReturns, ExecuteFails, CloseEvents
<1>24. UNCHANGED vars => UNCHANGED state
  BY DEF vars
<1>25. QED
  BY <1>1, <1>2, <1>3, <1>4, <1>5, <1>6, <1>7, <1>8, <1>9, <1>10, <1>11, <1>12, <1>13, <1>14, <1>15,
     <1>16, <1>17, <1>18, <1>19, <1>20, <1>21, <1>22, <1>23, <1>24, StepCases

(* Every step keeps the types of the runtime.                              *)
LEMMA TeaTypesStep ==
  ASSUME StateTypes, TeaTypes, SyncTypes, [Next]_vars
  PROVE  TeaTypes'
<1> USE SyncNumbers DEF StateTypes, TeaTypes, AnySync
<1>1. CASE Reload BY <1>1 DEF Reload
<1>2. CASE OpenSettings BY <1>2 DEF OpenSettings
<1>3. CASE Quit BY <1>3 DEF Quit
<1>4. CASE SettingsSaved BY <1>4 DEF SettingsSaved, NewProgram
<1>5. CASE SettingsAborted BY <1>5 DEF SettingsAborted
<1>6. CASE DatabasesLoaded BY <1>6 DEF DatabasesLoaded
<1>7. CASE SyncStarted BY <1>7 DEF SyncStarted
<1>8. CASE SyncEvent BY <1>8 DEF SyncEvent, WaitAgain
<1>9. CASE SyncFinished BY <1>9 DEF SyncFinished
<1>10. CASE ProgramEnds BY <1>10 DEF ProgramEnds
<1>11. ASSUME NEW s \in Syncs, StartSync(s) PROVE TeaTypes'
  BY <1>11 DEF StartSync
<1>12. CASE UNCHANGED tea BY <1>12
<1>13. ToggleDatabase \/ SelectAll \/ SelectNone \/ ChooseDatabases \/ LeaveConfirm \/ LeaveResult
         \/ LeaveEditor \/ LeaveMenu \/ ConfirmNothing => UNCHANGED tea
  BY DEF ToggleDatabase, SelectAll, SelectNone, Select, ChooseDatabases, LeaveConfirm, LeaveResult,
         LeaveEditor, LeaveMenu, ConfirmNothing, Goto
<1>14. ASSUME NEW s \in Syncs, NEW d \in DBs, PlanDatabase(s, d) \/ ExecuteDatabase(s, d)
       PROVE  UNCHANGED tea
  BY <1>14 DEF PlanDatabase, ExecuteDatabase
<1>15. ASSUME NEW s \in Syncs,
              
             PlanFails(s) \/ TableCopied(s) \/ ExecuteReturns(s) \/ ExecuteFails(s) \/ CloseEvents(s)
       PROVE  UNCHANGED tea
  BY <1>15 DEF PlanFails, TableCopied, ExecuteReturns, ExecuteFails, CloseEvents
<1>16. UNCHANGED vars => UNCHANGED tea
  BY DEF vars
<1>17. QED
  BY <1>1, <1>2, <1>3, <1>4, <1>5, <1>6, <1>7, <1>8, <1>9, <1>10, <1>11, <1>12, <1>13, <1>14, <1>15,
     <1>16, StepCases

(* An offered event fits: the channel keeps its type and its capacity.     *)
LEMMA Offer ==
  ASSUME SyncTypes, NEW s \in Syncs, NEW event \in {"plan", "table"} \X DBs
  PROVE  /\ Offered(s, event) \in Seq({"plan", "table"} \X DBs)
         /\ Len(sync[s].events) <= Cap => Len(Offered(s, event)) <= Cap
<1>1. sync[s].events \in Seq({"plan", "table"} \X DBs)
  BY DEF SyncTypes, SyncRecord
<1> DEFINE E == sync[s].events
<1>2. /\ Append(E, event) \in Seq({"plan", "table"} \X DBs)
      /\ Len(Append(E, event)) = Len(E) + 1 /\ Len(E) \in Nat
  BY <1>1
<1>3. QED BY <1>1, <1>2, SessionAssumption DEF Offered, HasRoom

(* Types are kept by a step that changes one sync.                         *)
LEMMA OneSync ==
  ASSUME SyncTypes, NEW s \in Syncs, NEW r \in SyncRecord, sync' = [sync EXCEPT ![s] = r]
  PROVE  SyncTypes'
  BY DEF SyncTypes

(* Every step keeps the types of the goroutines.                           *)
LEMMA SyncTypesStep ==
  ASSUME StateTypes, TeaTypes, SyncTypes, [Next]_vars
  PROVE  SyncTypes'
<1>0. \A s \in Syncs : sync[s] \in SyncRecord
  BY DEF SyncTypes
<1>1. ASSUME NEW s \in Syncs, StartSync(s) PROVE SyncTypes'
  <2>1. selectedDatabaseList \in SUBSET DBs
    BY DEF selectedDatabaseList, StateTypes
  <2>2. [sync[s] EXCEPT !.pc = "plan", !.queue = selectedDatabaseList] \in SyncRecord
    BY <1>0, <2>1 DEF SyncRecord
  <2>3. QED BY <1>1, <2>2, OneSync DEF StartSync
<1>2. ASSUME NEW s \in Syncs, NEW d \in DBs, PlanDatabase(s, d) PROVE SyncTypes'
  <2> DEFINE events == Offered(s, <<"plan", d>>)
             planned == sync[s].planned \cup {d}
             pc == IF planned = sync[s].queue THEN "execute" ELSE sync[s].pc
  <2>1. events \in Seq({"plan", "table"} \X DBs)
    BY Offer
  <2>2. planned \in SUBSET DBs
    BY <1>0 DEF SyncRecord
  <2>3. pc \in {"idle", "plan", "execute", "close", "ended"}
    BY <1>0 DEF SyncRecord
  <2>4. sync' = [sync EXCEPT ![s] = [sync[s] EXCEPT !.planned = planned, !.events = events, !.pc = pc]]
    BY <1>2 DEF PlanDatabase
  <2> HIDE DEF events, planned, pc
  <2>5. [sync[s] EXCEPT !.planned = planned, !.events = events, !.pc = pc] \in SyncRecord
    BY <1>0, <2>1, <2>2, <2>3 DEF SyncRecord
  <2>6. QED BY <2>4, <2>5, OneSync
<1>3. ASSUME NEW s \in Syncs, PlanFails(s) PROVE SyncTypes'
  <2>1. [sync[s] EXCEPT !.pc = "close", !.done = "failed"] \in SyncRecord
    BY <1>0 DEF SyncRecord
  <2>2. QED BY <1>3, <2>1, OneSync DEF PlanFails
<1>4. ASSUME NEW s \in Syncs, NEW d \in DBs, ExecuteDatabase(s, d) PROVE SyncTypes'
  <2>1. [sync[s] EXCEPT !.at = d] \in SyncRecord
    BY <1>0 DEF SyncRecord
  <2>2. QED BY <1>4, <2>1, OneSync DEF ExecuteDatabase
<1>5. ASSUME NEW s \in Syncs, TableCopied(s) PROVE SyncTypes'
  <2> DEFINE events == Offered(s, <<"table", sync[s].at>>)
             copied == sync[s].copied \cup {sync[s].at}
  <2>1. sync[s].at \in DBs
    BY <1>5 DEF TableCopied
  <2>2. events \in Seq({"plan", "table"} \X DBs)
    BY <2>1, Offer
  <2>3. copied \in SUBSET DBs
    BY <1>0, <2>1 DEF SyncRecord
  <2>4. sync' = [sync EXCEPT ![s] = [sync[s] EXCEPT !.copied = copied, !.events = events]]
    BY <1>5 DEF TableCopied
  <2> HIDE DEF events, copied
  <2>5. [sync[s] EXCEPT !.copied = copied, !.events = events] \in SyncRecord
    BY <1>0, <2>2, <2>3 DEF SyncRecord
  <2>6. QED BY <2>4, <2>5, OneSync
<1>6. ASSUME NEW s \in Syncs, ExecuteReturns(s) PROVE SyncTypes'
  <2> DEFINE outcome == [sync[s].outcome EXCEPT ![sync[s].at] = "ok"]
  <2>1. outcome \in [DBs -> {"none", "ok", "failed"}]
    BY <1>0 DEF SyncRecord
  <2>2. PICK pc \in {"close", sync[s].pc}, done \in {"ok", sync[s].done} :
          sync' = [sync EXCEPT ![s] = [sync[s] EXCEPT
            !.outcome = outcome, !.at = NoDB, !.pc = pc, !.done = done]]
    BY <1>6 DEF ExecuteReturns
  <2> HIDE DEF outcome
  <2>3. [sync[s] EXCEPT !.outcome = outcome, !.at = NoDB, !.pc = pc, !.done = done] \in SyncRecord
    BY <1>0, <2>1 DEF SyncRecord
  <2>4. QED BY <2>2, <2>3, OneSync
<1>7. ASSUME NEW s \in Syncs, ExecuteFails(s) PROVE SyncTypes'
  <2> DEFINE outcome == [sync[s].outcome EXCEPT ![sync[s].at] = "failed"]
  <2>1. outcome \in [DBs -> {"none", "ok", "failed"}]
    BY <1>0 DEF SyncRecord
  <2>2. sync' = [sync EXCEPT ![s] = [sync[s] EXCEPT
          !.outcome = outcome, !.at = NoDB, !.pc = "close", !.done = "failed"]]
    BY <1>7 DEF ExecuteFails
  <2> HIDE DEF outcome
  <2>3. [sync[s] EXCEPT !.outcome = outcome, !.at = NoDB, !.pc = "close", !.done = "failed"]
          \in SyncRecord
    BY <1>0, <2>1 DEF SyncRecord
  <2>4. QED BY <2>2, <2>3, OneSync
<1>8. ASSUME NEW s \in Syncs, CloseEvents(s) PROVE SyncTypes'
  <2>1. [sync[s] EXCEPT !.pc = "ended"] \in SyncRecord
    BY <1>0 DEF SyncRecord
  <2>2. QED BY <1>8, <2>1, OneSync DEF CloseEvents
<1>9. CASE SyncEvent
  <2>1. tea.waiting \in Syncs /\ sync[tea.waiting].events # <<>>
    BY <1>9 DEF SyncEvent, TeaTypes, AnySync
  <2>2. sync[tea.waiting].events \in Seq({"plan", "table"} \X DBs)
    BY <1>0, <2>1 DEF SyncRecord
  <2>3. Tail(sync[tea.waiting].events) \in Seq({"plan", "table"} \X DBs)
    BY <2>1, <2>2
  <2>4. [sync[tea.waiting] EXCEPT !.events = Tail(sync[tea.waiting].events)] \in SyncRecord
    BY <1>0, <2>1, <2>3 DEF SyncRecord
  <2>5. QED BY <1>9, <2>1, <2>4, OneSync DEF SyncEvent
<1>10. CASE SyncFinished
  <2>1. tea.waiting \in Syncs
    BY <1>10 DEF SyncFinished, TeaTypes, AnySync
  <2>2. [sync[tea.waiting] EXCEPT !.done = "empty"] \in SyncRecord
    BY <1>0, <2>1 DEF SyncRecord
  <2>3. QED BY <1>10, <2>1, <2>2, OneSync DEF SyncFinished
<1>11. CASE UNCHANGED sync BY <1>11 DEF SyncTypes
<1>12. QED
  BY <1>1, <1>2, <1>3, <1>4, <1>5, <1>6, <1>7, <1>8, <1>9, <1>10, <1>11, SessionOnly, StepCases

(* What a step that starts no sync does to one of them. *)
SyncKept(q) ==
  /\ sync[q].pc' = "idle" <=> sync[q].pc = "idle"
  /\ Active(q)' => Active(q)
  /\ sync[q].pc' \in {"idle", "plan", "execute"} =>
       /\ sync[q].pc \in {"idle", "plan", "execute"}
       /\ sync[q].done = "empty" => sync[q].done' = "empty"
  /\ \/ sync[q].events' = sync[q].events /\ sync[q].copied' = sync[q].copied
     \/ \E d \in DBs :
          /\ sync[q].events' = Offered(q, <<"plan", d>>) /\ sync[q].copied' = sync[q].copied
     \/ \E d \in DBs \ sync[q].copied :
          /\ HasRoom(q) /\ sync[q].events' = Offered(q, <<"table", d>>)
          /\ sync[q].copied' = sync[q].copied \cup {d}
          /\ sync[q].pc = "execute"
     \/ /\ SyncEvent /\ tea.waiting = q
        /\ sync[q].events' = Tail(sync[q].events) /\ sync[q].copied' = sync[q].copied

(* A sync that does not change is kept.                                    *)
LEMMA SameSync ==
  ASSUME NEW q \in Syncs, sync[q]' = sync[q]
  PROVE  SyncKept(q)
  BY DEF SyncKept, Active

(* A step on one sync keeps the others.                                    *)
LEMMA OtherSync ==
  ASSUME SyncTypes, NEW q \in Syncs, NEW s \in Syncs, NEW r, sync' = [sync EXCEPT ![s] = r]
  PROVE  IF q = s THEN sync[q]' = r ELSE SyncKept(q)
<1>1. q = s => sync[q]' = r
  BY DEF SyncTypes
<1>2. q # s => sync[q]' = sync[q]
  BY DEF SyncTypes
<1>3. QED BY <1>1, <1>2, SameSync

(* Every step but the start of a sync keeps each of them.                  *)
LEMMA SyncStep ==
  ASSUME StateTypes, TeaTypes, SyncTypes, [Next]_vars, NEW q \in Syncs,
         \A s \in Syncs : ~StartSync(s)
  PROVE  SyncKept(q)
<1>0. sync[q] \in SyncRecord
  BY DEF SyncTypes
<1>1. ASSUME NEW s \in Syncs, NEW d \in DBs, PlanDatabase(s, d) PROVE SyncKept(q)
  <2>1. CASE q # s BY <1>1, <2>1, OtherSync DEF PlanDatabase
  <2>2. CASE q = s
    <3> DEFINE pc == IF sync[q].planned \cup {d} = sync[q].queue THEN "execute" ELSE sync[q].pc
    <3>1. sync[q]' = [sync[q] EXCEPT !.planned = @ \cup {d}, !.events = Offered(q, <<"plan", d>>), !.pc = pc]
      BY <1>1, <2>2, OtherSync DEF PlanDatabase
    <3>2. sync[q].pc = "plan"
      BY <1>1, <2>2 DEF PlanDatabase, At
    <3>3. /\ sync[q].pc' = pc /\ sync[q].events' = Offered(q, <<"plan", d>>)
          /\ sync[q].copied' = sync[q].copied /\ sync[q].done' = sync[q].done
      BY <1>0, <3>1 DEF SyncRecord
    <3>4. QED BY <3>2, <3>3 DEF SyncKept, Active
  <2>3. QED BY <2>1, <2>2
<1>2. ASSUME NEW s \in Syncs, PlanFails(s) PROVE SyncKept(q)
  <2>1. CASE q # s BY <1>2, <2>1, OtherSync DEF PlanFails
  <2>2. CASE q = s
    <3>1. sync[q]' = [sync[q] EXCEPT !.pc = "close", !.done = "failed"] /\ sync[q].pc = "plan"
      BY <1>2, <2>2, OtherSync DEF PlanFails, At
    <3>2. QED BY <1>0, <3>1 DEF SyncKept, Active, SyncRecord
  <2>3. QED BY <2>1, <2>2
<1>3. ASSUME NEW s \in Syncs, NEW d \in DBs, ExecuteDatabase(s, d) PROVE SyncKept(q)
  <2>1. CASE q # s BY <1>3, <2>1, OtherSync DEF ExecuteDatabase
  <2>2. CASE q = s
    <3>1. sync[q]' = [sync[q] EXCEPT !.at = d]
      BY <1>3, <2>2, OtherSync DEF ExecuteDatabase
    <3>2. QED BY <1>0, <3>1 DEF SyncKept, Active, SyncRecord
  <2>3. QED BY <2>1, <2>2
<1>4. ASSUME NEW s \in Syncs, TableCopied(s) PROVE SyncKept(q)
  <2>1. CASE q # s BY <1>4, <2>1, OtherSync DEF TableCopied
  <2>2. CASE q = s
    <3> DEFINE d == sync[q].at
    <3>1. sync[q]' = [sync[q] EXCEPT !.copied = @ \cup {d}, !.events = Offered(q, <<"table", d>>)]
      BY <1>4, <2>2, OtherSync DEF TableCopied
    <3>2. d \in DBs \ sync[q].copied /\ HasRoom(q) /\ sync[q].pc = "execute"
      BY <1>4, <2>2 DEF TableCopied, ObserverReady, At
    <3> HIDE DEF d
    <3>3. /\ sync[q].pc' = sync[q].pc /\ sync[q].events' = Offered(q, <<"table", d>>)
          /\ sync[q].copied' = sync[q].copied \cup {d} /\ sync[q].done' = sync[q].done
      BY <1>0, <3>1 DEF SyncRecord
    <3>4. QED BY <3>2, <3>3 DEF SyncKept, Active
  <2>3. QED BY <2>1, <2>2
<1>5. ASSUME NEW s \in Syncs, ExecuteReturns(s) PROVE SyncKept(q)
  <2>1. CASE q # s BY <1>5, <2>1, OtherSync DEF ExecuteReturns
  <2>2. CASE q = s
    <3> DEFINE outcome == [sync[q].outcome EXCEPT ![sync[q].at] = "ok"]
               last == \A d \in sync[q].queue \ {sync[q].at} : sync[q].outcome[d] # "none"
               pc == IF last THEN "close" ELSE sync[q].pc
               done == IF last THEN "ok" ELSE sync[q].done
    <3>0. sync' = [sync EXCEPT ![q] =
                    [sync[q] EXCEPT !.outcome = outcome, !.at = NoDB, !.pc = pc, !.done = done]]
      BY <1>5, <2>2 DEF ExecuteReturns
    <3>1. /\ sync[q]' = [sync[q] EXCEPT !.outcome = outcome, !.at = NoDB, !.pc = pc, !.done = done]
          /\ sync[q].pc = "execute"
      BY <1>5, <2>2, <3>0, OtherSync DEF ExecuteReturns, At
    <3>2. pc = "close" \/ (pc = sync[q].pc /\ done = sync[q].done)
      OBVIOUS
    <3> HIDE DEF outcome, last, pc, done
    <3>3. /\ sync[q].pc' = pc /\ sync[q].events' = sync[q].events
          /\ sync[q].copied' = sync[q].copied /\ sync[q].done' = done
      BY <1>0, <3>1 DEF SyncRecord
    <3>4. QED BY <3>1, <3>2, <3>3 DEF SyncKept, Active
  <2>3. QED BY <2>1, <2>2
<1>6. ASSUME NEW s \in Syncs, ExecuteFails(s) PROVE SyncKept(q)
  <2>1. CASE q # s BY <1>6, <2>1, OtherSync DEF ExecuteFails
  <2>2. CASE q = s
    <3> DEFINE outcome == [sync[q].outcome EXCEPT ![sync[q].at] = "failed"]
    <3>1. /\ sync[q]' = [sync[q] EXCEPT !.outcome = outcome, !.at = NoDB, !.pc = "close", !.done = "failed"]
          /\ sync[q].pc = "execute"
      BY <1>6, <2>2, OtherSync DEF ExecuteFails, At
    <3> HIDE DEF outcome
    <3>2. QED BY <1>0, <3>1 DEF SyncKept, Active, SyncRecord
  <2>3. QED BY <2>1, <2>2
<1>7. ASSUME NEW s \in Syncs, CloseEvents(s) PROVE SyncKept(q)
  <2>1. CASE q # s BY <1>7, <2>1, OtherSync DEF CloseEvents
  <2>2. CASE q = s
    <3>1. sync[q]' = [sync[q] EXCEPT !.pc = "ended"] /\ sync[q].pc = "close"
      BY <1>7, <2>2, OtherSync DEF CloseEvents, At
    <3>2. QED BY <1>0, <3>1 DEF SyncKept, Active, SyncRecord
  <2>3. QED BY <2>1, <2>2
<1>8. CASE SyncEvent
  <2>1. PICK s \in Syncs :
          /\ s = tea.waiting
          /\ sync' = [sync EXCEPT ![s] = [sync[s] EXCEPT !.events = Tail(sync[s].events)]]
    BY <1>8 DEF SyncEvent, TeaTypes, AnySync
  <2>2. CASE q # s BY <2>1, <2>2, OtherSync
  <2>3. CASE q = s
    <3> DEFINE r == [sync[q] EXCEPT !.events = Tail(sync[q].events)]
    <3>0. sync' = [sync EXCEPT ![q] = r]
      BY <2>1, <2>3
    <3> HIDE DEF r
    <3>1. sync[q]' = r
      BY <3>0, OtherSync
    <3> USE DEF r
    <3>2. /\ sync[q].pc' = sync[q].pc /\ sync[q].events' = Tail(sync[q].events)
          /\ sync[q].copied' = sync[q].copied /\ sync[q].done' = sync[q].done
      BY <1>0, <3>1 DEF SyncRecord
    <3>3. QED BY <1>8, <2>1, <2>3, <3>2 DEF SyncKept, Active
  <2>4. QED BY <2>2, <2>3
<1>9. CASE SyncFinished
  <2>1. PICK s \in Syncs : sync' = [sync EXCEPT ![s] = [sync[s] EXCEPT !.done = "empty"]]
    BY <1>9 DEF SyncFinished, TeaTypes, AnySync
  <2>2. CASE q # s BY <2>1, <2>2, OtherSync
  <2>3. CASE q = s
    <3>1. sync[q]' = [sync[q] EXCEPT !.done = "empty"]
      BY <2>1, <2>3, OtherSync
    <3>2. QED BY <1>0, <3>1 DEF SyncKept, Active, SyncRecord
  <2>4. QED BY <2>2, <2>3
<1>10. CASE UNCHANGED sync BY <1>10, SameSync
<1>11. QED
  BY <1>1, <1>2, <1>3, <1>4, <1>5, <1>6, <1>7, <1>8, <1>9, <1>10, SessionOnly, StepCases

(* The goroutines at the start of a sync. *)
LEMMA StartedSync ==
  ASSUME SyncTypes, NEW s \in Syncs, StartSync(s), NEW q \in Syncs
  PROVE  /\ q # s => sync[q]' = sync[q]
         /\ q = s => sync[q].pc = "idle" /\ sync[q].pc' = "plan"
         /\ sync[q].done' = sync[q].done /\ sync[q].copied' = sync[q].copied
         /\ sync[q].events' = sync[q].events
<1>1. sync[q] \in SyncRecord
  BY DEF SyncTypes
<1>2. /\ sync' = [sync EXCEPT ![s] = [sync[s] EXCEPT !.pc = "plan", !.queue = selectedDatabaseList]]
      /\ sync[s].pc = "idle"
  BY DEF StartSync
<1>3. IF q = s THEN sync[q]' = [sync[q] EXCEPT !.pc = "plan", !.queue = selectedDatabaseList]
               ELSE sync[q]' = sync[q]
  BY <1>2 DEF SyncTypes
<1>4. CASE q # s BY <1>3, <1>4
<1>5. CASE q = s
  <2> DEFINE r == sync[q]
  <2>1. sync[q]' = [r EXCEPT !.pc = "plan", !.queue = selectedDatabaseList] /\ r \in SyncRecord
    BY <1>1, <1>3, <1>5
  <2>2. /\ sync[q].pc' = "plan" /\ sync[q].done' = sync[q].done
        /\ sync[q].copied' = sync[q].copied /\ sync[q].events' = sync[q].events
    BY <2>1 DEF SyncRecord
  <2>3. QED BY <1>2, <1>5, <2>2
<1>6. QED BY <1>4, <1>5

(* What the user sees of an awaited sync changes only with its messages. *)
LEMMA FrontStep ==
  ASSUME StateTypes, TeaTypes, Front, [Next]_vars, \A s \in Syncs : ~StartSync(s)
  PROVE  Front'
<1> USE SyncNumbers DEF Front, StateTypes, TeaTypes, AnySync, Screens, On, Key
<1>1. CASE ToggleDatabase
  <2>1. UNCHANGED tea /\ state.current = "databaseList"
    BY <1>1 DEF ToggleDatabase, Select
  <2>2. QED BY <2>1
<1>2. CASE SelectAll BY <1>2 DEF SelectAll, Select
<1>3. CASE SelectNone BY <1>3 DEF SelectNone, Select
<1>4. CASE Reload BY <1>4 DEF Reload
<1>5. CASE ChooseDatabases
  <2>1. UNCHANGED tea /\ state.current = "databaseList"
    BY <1>5 DEF ChooseDatabases
  <2>2. QED BY <2>1
<1>6. CASE LeaveConfirm BY <1>6 DEF LeaveConfirm, Goto
<1>7. CASE LeaveResult BY <1>7 DEF LeaveResult, Goto
<1>8. CASE LeaveEditor BY <1>8 DEF LeaveEditor, Goto
<1>9. CASE LeaveMenu BY <1>9 DEF LeaveMenu, Goto
<1>10. CASE OpenSettings BY <1>10 DEF OpenSettings, SettingsScreens
<1>11. CASE Quit BY <1>11 DEF Quit
<1>12. CASE ConfirmNothing BY <1>12 DEF ConfirmNothing, Goto
<1>13. CASE SettingsSaved BY <1>13 DEF SettingsSaved, NewState, NewProgram
<1>14. CASE SettingsAborted BY <1>14 DEF SettingsAborted
<1>15. CASE DatabasesLoaded
  <2>1. /\ UNCHANGED <<tea.starting, tea.waiting, tea.mode, state.current, state.running>>
        /\ UNCHANGED state.channels
    BY <1>15 DEF DatabasesLoaded
  <2>2. QED BY <2>1
<1>16. CASE SyncStarted BY <1>16 DEF SyncStarted
<1>17. CASE SyncEvent
  <2>1. /\ UNCHANGED <<tea.starting, tea.mode, state.current, state.running, state.channels>>
        /\ tea.waiting' = state.channels
    BY <1>17 DEF SyncEvent, WaitAgain
  <2>2. QED BY <1>17, <2>1 DEF SyncEvent
<1>18. CASE SyncFinished BY <1>18 DEF SyncFinished
<1>19. CASE ProgramEnds BY <1>19 DEF ProgramEnds
<1>20. CASE UNCHANGED <<state, tea>> BY <1>20
<1>21. ASSUME NEW s \in Syncs, NEW d \in DBs, PlanDatabase(s, d) \/ ExecuteDatabase(s, d)
       PROVE  UNCHANGED <<state, tea>>
  BY <1>21 DEF PlanDatabase, ExecuteDatabase
<1>22. ASSUME NEW s \in Syncs,
              
             PlanFails(s) \/ TableCopied(s) \/ ExecuteReturns(s) \/ ExecuteFails(s) \/ CloseEvents(s)
       PROVE  UNCHANGED <<state, tea>>
  BY <1>22 DEF PlanFails, TableCopied, ExecuteReturns, ExecuteFails, CloseEvents
<1>23. UNCHANGED vars => UNCHANGED <<state, tea>>
  BY DEF vars
<1>24. QED
  BY <1>1, <1>2, <1>3, <1>4, <1>5, <1>6, <1>7, <1>8, <1>9, <1>10, <1>11, <1>12, <1>13, <1>14, <1>15,
     <1>16, <1>17, <1>18, <1>19, <1>20, <1>21, <1>22, <1>23, StepCases

(* The messages awaited change with the start of a sync, its first message *)
(* and its last, and with a new program.                                   *)
LEMMA TeaStep ==
  ASSUME StateTypes, TeaTypes, Front, [Next]_vars, \A s \in Syncs : ~StartSync(s)
  PROVE  \/ SyncStarted \/ SyncFinished \/ SettingsSaved
         \/ /\ tea.starting' = tea.starting /\ tea.waiting' = tea.waiting
            /\ tea.mode' # "exited" => tea.mode # "exited"
<1> DEFINE Same == /\ tea.starting' = tea.starting /\ tea.waiting' = tea.waiting
                   /\ tea.mode' # "exited" => tea.mode # "exited"
<1> USE DEF TeaTypes, AnySync
<1>1. Reload \/ OpenSettings \/ Quit \/ SettingsAborted \/ DatabasesLoaded \/ ProgramEnds => Same
  BY DEF Reload, OpenSettings, Quit, SettingsAborted, DatabasesLoaded, ProgramEnds
<1>2. SyncEvent => Same
  BY DEF SyncEvent, WaitAgain, Front
<1>3. UNCHANGED tea => Same
  OBVIOUS
<1>4. ToggleDatabase \/ SelectAll \/ SelectNone \/ ChooseDatabases \/ LeaveConfirm \/ LeaveResult
        \/ LeaveEditor \/ LeaveMenu \/ ConfirmNothing \/ UNCHANGED vars => UNCHANGED tea
  BY DEF ToggleDatabase, SelectAll, SelectNone, Select, ChooseDatabases, LeaveConfirm, LeaveResult,
         LeaveEditor, LeaveMenu, ConfirmNothing, Goto, vars
<1>5. ASSUME NEW s \in Syncs, NEW d \in DBs, PlanDatabase(s, d) \/ ExecuteDatabase(s, d)
      PROVE  UNCHANGED tea
  BY <1>5 DEF PlanDatabase, ExecuteDatabase
<1>6. ASSUME NEW s \in Syncs,
             
             PlanFails(s) \/ TableCopied(s) \/ ExecuteReturns(s) \/ ExecuteFails(s) \/ CloseEvents(s)
      PROVE  UNCHANGED tea
  BY <1>6 DEF PlanFails, TableCopied, ExecuteReturns, ExecuteFails, CloseEvents
<1> HIDE DEF Same
<1>7. SyncStarted \/ SyncFinished \/ SettingsSaved \/ Same
  BY <1>1, <1>2, <1>3, <1>4, <1>5, <1>6, StepCases
<1>8. QED BY <1>7 DEF Same

(* No step leaves a working sync unwatched. *)
LEMMA AwaitedStep ==
  ASSUME StateTypes, TeaTypes, SyncTypes, Awaited, [Next]_vars
  PROVE  Awaited'
<1>1. ASSUME NEW s \in Syncs, StartSync(s) PROVE Awaited'
  <2>1. /\ tea.mode = "app" /\ tea.starting = NoSync /\ tea.waiting = NoSync
        /\ \A q \in Syncs : ~Active(q)
    BY <1>1, SyncNumbers DEF StartSync, Key, On, Awaited, Front
  <2>2. /\ state'.current = "progress" /\ state'.running
        /\ tea'.starting = s /\ tea'.waiting = NoSync /\ tea'.mode = "app"
    BY <1>1, <2>1 DEF StartSync, StateTypes, TeaTypes
  <2>3. \A q \in Syncs : Active(q)' => q = s
    BY <1>1, <2>1, StartedSync DEF Active
  <2>4. \A q \in Syncs : sync[q].pc' \in {"idle", "plan", "execute"} => sync[q].done' = "empty"
    BY <1>1, StartedSync DEF Awaited
  <2>5. QED BY <2>2, <2>3, <2>4 DEF Awaited, Front, On
<1>2. CASE \A s \in Syncs : ~StartSync(s)
  <2>0. \A q \in Syncs : SyncKept(q)
    BY <1>2, SyncStep
  <2>1. \A q \in Syncs : sync[q].pc' \in {"idle", "plan", "execute"} => sync[q].done' = "empty"
    BY <2>0 DEF SyncKept, Awaited
  <2>2. \A q \in Syncs : Active(q)' => Active(q)
    BY <2>0 DEF SyncKept
  <2>3. Front'
    BY <1>2, FrontStep DEF Awaited
  <2>4. ASSUME NEW q \in Syncs, Active(q)', tea.mode' # "exited"
        PROVE  tea.starting' = q \/ tea.waiting' = q
    <3>1. Active(q) /\ sync[q].done = "empty" /\ q # NoSync
      BY <2>2, <2>4, SyncNumbers DEF Awaited, Active
    <3>2. tea.mode # "exited" => tea.starting = q \/ tea.waiting = q
      BY <3>1 DEF Awaited
    <3>3. CASE SyncStarted
      BY <3>1, <3>2, <3>3 DEF SyncStarted, TeaTypes, Awaited, Front
    <3>4. CASE SyncFinished
      BY <3>1, <3>2, <3>4 DEF SyncFinished, Awaited, Front
    <3>5. CASE SettingsSaved
      BY <3>1, <3>2, <3>5 DEF SettingsSaved, Awaited, Front, On
    <3>6. QED BY <1>2, <2>4, <3>2, <3>3, <3>4, <3>5, TeaStep DEF Awaited
  <2>5. QED BY <2>1, <2>3, <2>4 DEF Awaited
<1>3. QED BY <1>1, <1>2

(* Syncs start one after the other, and the messages awaited are the last  *)
(* one's.                                                                  *)
LEMMA InOrderStep ==
  ASSUME StateTypes, TeaTypes, SyncTypes, Awaited, InOrder, [Next]_vars
  PROVE  InOrder'
<1>1. ASSUME NEW s \in Syncs, StartSync(s) PROVE InOrder'
  <2>1. \A q \in Syncs : IF q = s THEN sync[q].pc = "idle" /\ sync[q].pc' = "plan"
                                  ELSE sync[q].pc' = sync[q].pc
    BY <1>1, StartedSync
  <2>2. \A q \in Syncs : q < s => sync[q].pc # "idle"
    BY <1>1, SyncNumbers DEF StartSync, Syncs
  <2>3. \A q \in Syncs : s < q => sync[q].pc = "idle"
    BY <2>1 DEF InOrder
  <2>4. tea.starting' = s /\ tea.waiting' = NoSync
    <3>1. tea.waiting = NoSync
      BY <1>1, SyncNumbers DEF StartSync, Key, On, Awaited, Front
    <3>2. QED BY <1>1, <3>1 DEF StartSync, TeaTypes
  <2>5. \A q \in Syncs : q < s \/ q = s \/ s < q
    BY SyncNumbers
  <2>6. \A q \in Syncs : sync[q].pc' # "idle" => q <= s
    BY <2>1, <2>3, <2>5, SyncNumbers
  <2>7. ASSUME NEW r \in Syncs, NEW q \in Syncs, r < q, sync[q].pc' # "idle"
        PROVE  sync[r].pc' # "idle"
    <3>1. r < s
      BY <2>6, <2>7, SyncNumbers
    <3>2. QED BY <2>1, <2>2, <3>1, SyncNumbers
  <2>8. ASSUME NEW q \in Syncs, tea.starting' = q \/ tea.waiting' = q
        PROVE  q = s
    BY <2>4, <2>8, SyncNumbers
  <2>9. QED BY <2>6, <2>7, <2>8 DEF InOrder
<1>2. CASE \A s \in Syncs : ~StartSync(s)
  <2>1. \A q \in Syncs : sync[q].pc' = "idle" <=> sync[q].pc = "idle"
    BY <1>2, SyncStep DEF SyncKept
  <2>2. ASSUME NEW q \in Syncs, tea.starting' = q \/ tea.waiting' = q
        PROVE  tea.starting = q \/ tea.waiting = q
    <3>1. CASE SyncStarted BY <2>2, <3>1, SyncNumbers DEF SyncStarted, TeaTypes
    <3>2. CASE SyncFinished BY <2>2, <3>2, SyncNumbers DEF SyncFinished, TeaTypes
    <3>3. CASE SettingsSaved BY <2>2, <3>3, SyncNumbers DEF SettingsSaved, NewProgram
    <3>4. QED BY <1>2, <2>2, <3>1, <3>2, <3>3, TeaStep DEF Awaited
  <2>3. QED BY <2>1, <2>2 DEF InOrder
<1>3. QED BY <1>1, <1>2

(* What the channel holds after each of the goroutine's steps. *)
LEMMA GoodPlan ==
  ASSUME NEW E \in Seq({"plan", "table"} \X DBs), NEW C, Good(E, C), NEW d
  PROVE  Good(Append(E, <<"plan", d>>), C)
<1> DEFINE F == Append(E, <<"plan", d>>)
<1>1. /\ Len(F) = Len(E) + 1 /\ Len(E) \in Nat /\ F[Len(E) + 1] = <<"plan", d>>
      /\ \A i \in 1..Len(E) : F[i] = E[i]
  OBVIOUS
<1>2. <<"plan", d>>[1] = "plan"
  OBVIOUS
<1> HIDE DEF F
<1>3. \A i \in 1..Len(F) : F[i][1] = "table" => F[i][2] \in C
  BY <1>1, <1>2 DEF Good
<1>4. \A i, j \in 1..Len(F) : i # j /\ F[i][1] = "table" => F[i] # F[j]
  <2> SUFFICES ASSUME NEW i \in 1..Len(F), NEW j \in 1..Len(F), i # j, F[i][1] = "table"
               PROVE  F[i] # F[j]
    OBVIOUS
  <2>1. i \in 1..Len(E) /\ F[i] = E[i]
    BY <1>1, <1>2
  <2>2. CASE j \in 1..Len(E) BY <1>1, <2>1, <2>2 DEF Good
  <2>3. CASE j = Len(E) + 1 BY <1>1, <1>2, <2>1, <2>3
  <2>4. QED BY <1>1, <2>2, <2>3
<1>5. QED BY <1>3, <1>4 DEF F, Good

(* A table event is sent once, after its table was copied.                 *)
LEMMA GoodTable ==
  ASSUME NEW E \in Seq({"plan", "table"} \X DBs), NEW C, Good(E, C), NEW d, d \notin C
  PROVE  Good(Append(E, <<"table", d>>), C \cup {d})
<1> DEFINE F == Append(E, <<"table", d>>)
<1>1. /\ Len(F) = Len(E) + 1 /\ Len(E) \in Nat /\ F[Len(E) + 1] = <<"table", d>>
      /\ \A i \in 1..Len(E) : F[i] = E[i]
  OBVIOUS
<1>2. \A i \in 1..Len(E) : E[i] # <<"table", d>>
  BY DEF Good
<1> HIDE DEF F
<1>3. \A i \in 1..Len(F) : F[i][1] = "table" => F[i][2] \in C \cup {d}
  <2>1. <<"table", d>>[2] = d
    OBVIOUS
  <2>2. QED BY <1>1, <2>1 DEF Good
<1>4. \A i, j \in 1..Len(F) : i # j /\ F[i][1] = "table" => F[i] # F[j]
  BY <1>1, <1>2 DEF Good
<1>5. QED BY <1>3, <1>4 DEF F, Good

(* What is left of a sound channel is sound.                               *)
LEMMA GoodTail ==
  ASSUME NEW E \in Seq({"plan", "table"} \X DBs), NEW C, Good(E, C), E # <<>>
  PROVE  Good(Tail(E), C)
<1> DEFINE F == Tail(E)
<1>1. Len(E) \in Nat /\ Len(F) = Len(E) - 1 /\ \A i \in 1..Len(F) : F[i] = E[i + 1] /\ i + 1 \in 1..Len(E)
  OBVIOUS
<1> HIDE DEF F
<1>2. \A i, j \in 1..Len(F) : i # j => i + 1 # j + 1
  OBVIOUS
<1>3. \A i \in 1..Len(F) : F[i][1] = "table" => F[i][2] \in C
  BY <1>1 DEF Good
<1>4. \A i, j \in 1..Len(F) : i # j /\ F[i][1] = "table" => F[i] # F[j]
  BY <1>1, <1>2 DEF Good
<1>5. QED BY <1>3, <1>4 DEF F, Good

(* The channel holds events of tables that were copied, each once, and     *)
(* never more than its capacity.                                           *)
LEMMA EventsStep ==
  ASSUME StateTypes, TeaTypes, SyncTypes, EventsSound, Room, [Next]_vars, NEW q \in Syncs
  PROVE  /\ Good(sync[q].events', sync[q].copied')
         /\ sync[q].pc' = "idle" => sync[q].copied' = {}
         /\ Len(sync[q].events') <= Cap
<1> DEFINE E == sync[q].events
           C == sync[q].copied
<1>0. /\ E \in Seq({"plan", "table"} \X DBs) /\ Len(E) <= Cap /\ Good(E, C)
      /\ sync[q].pc = "idle" => C = {}
  BY DEF SyncTypes, SyncRecord, EventsSound, Room
<1>1. CASE \E s \in Syncs : StartSync(s)
  <2>1. E' = E /\ C' = C /\ (sync[q].pc' = "idle" => sync[q].pc = "idle")
    BY <1>1, StartedSync
  <2>2. QED BY <1>0, <2>1
<1>2. CASE \A s \in Syncs : ~StartSync(s)
  <2>0. SyncKept(q)
    BY <1>2, SyncStep
  <2>1. CASE E' = E /\ C' = C
    BY <1>0, <2>0, <2>1 DEF SyncKept
  <2>2. ASSUME NEW d \in DBs, E' = Offered(q, <<"plan", d>>), C' = C
        PROVE  Good(E', C') /\ Len(E') <= Cap
    <3>1. Len(E') <= Cap
      BY <1>0, <2>2, Offer
    <3>2. Good(E', C')
      BY <1>0, <2>2, GoodPlan DEF Offered
    <3>3. QED BY <3>1, <3>2
  <2>3. ASSUME NEW d \in DBs \ C, E' = Offered(q, <<"table", d>>), C' = C \cup {d}, HasRoom(q)
        PROVE  Good(E', C') /\ Len(E') <= Cap
    <3>1. Len(E') <= Cap
      BY <1>0, <2>3, Offer
    <3>2. Good(E', C')
      <4>1. E' = Append(E, <<"table", d>>)
        BY <2>3 DEF Offered
      <4>2. d \notin C
        BY <2>3
      <4> HIDE DEF E, C
      <4>3. Good(Append(E, <<"table", d>>), C \cup {d})
        BY <1>0, <4>2, GoodTable
      <4>4. QED BY <2>3, <4>1, <4>3
    <3>3. QED BY <3>1, <3>2
  <2>4. CASE SyncEvent /\ tea.waiting = q /\ E' = Tail(E) /\ C' = C
    <3>1. E # <<>>
      BY <2>4 DEF SyncEvent
    <3>2. Good(E', C')
      BY <1>0, <2>4, <3>1, GoodTail
    <3>3. Len(E') <= Cap
      BY <1>0, <2>4, <3>1, SessionAssumption
    <3>4. QED BY <1>0, <2>0, <2>4, <3>2, <3>3 DEF SyncKept
  <2>5. Good(E', C') /\ Len(E') <= Cap
    BY <2>0, <2>1, <2>2, <2>3, <2>4 DEF SyncKept
  <2>6. sync[q].pc' = "idle" => C' = {}
    BY <1>0, <2>0 DEF SyncKept
  <2>7. QED BY <2>5, <2>6
<1>3. QED BY <1>1, <1>2

-----------------------------------------------------------------------------
(* The table events of a sequence. *)
TableIn(E, d) == \E i \in 1..Len(E) : E[i] = <<"table", d>>

(* An event is in the channel if it was or is the new one.                 *)
LEMMA AppendIn ==
  ASSUME NEW E \in Seq({"plan", "table"} \X DBs), NEW x \in {"plan", "table"} \X DBs, NEW d
  PROVE  TableIn(Append(E, x), d) <=> TableIn(E, d) \/ x = <<"table", d>>
<1> DEFINE F == Append(E, x)
<1>1. /\ Len(F) = Len(E) + 1 /\ Len(E) \in Nat /\ F[Len(E) + 1] = x
      /\ \A i \in 1..Len(E) : F[i] = E[i]
  OBVIOUS
<1> HIDE DEF F
<1>2. TableIn(F, d) <=> TableIn(E, d) \/ x = <<"table", d>>
  <2>1. \A i \in 1..Len(F) : i \in 1..Len(E) \/ i = Len(E) + 1
    BY <1>1
  <2>2. 1..Len(E) \subseteq 1..Len(F) /\ Len(E) + 1 \in 1..Len(F)
    BY <1>1
  <2>3. QED BY <1>1, <2>1, <2>2 DEF TableIn
<1>3. QED BY <1>2 DEF F

(* The event at the head leaves the channel, and no other with it.         *)
LEMMA TailIn ==
  ASSUME NEW E \in Seq({"plan", "table"} \X DBs), NEW C, Good(E, C), E # <<>>, NEW d
  PROVE  TableIn(Tail(E), d) <=> TableIn(E, d) /\ Head(E) # <<"table", d>>
<1> DEFINE F == Tail(E)
<1>1. /\ Len(E) \in Nat \ {0} /\ Len(F) = Len(E) - 1 /\ Head(E) = E[1]
      /\ \A i \in 1..Len(F) : F[i] = E[i + 1] /\ i + 1 \in 1..Len(E)
  OBVIOUS
<1>2. <<"table", d>>[1] = "table"
  OBVIOUS
<1> HIDE DEF F
<1>3. TableIn(F, d) => TableIn(E, d) /\ Head(E) # <<"table", d>>
  <2> SUFFICES ASSUME NEW i \in 1..Len(F), F[i] = <<"table", d>>
               PROVE  TableIn(E, d) /\ Head(E) # <<"table", d>>
    BY DEF TableIn
  <2>1. E[i + 1] = <<"table", d>> /\ i + 1 \in 1..Len(E) /\ 1 \in 1..Len(E) /\ i + 1 # 1
    BY <1>1
  <2>2. E[i + 1] # E[1]
    BY <1>2, <2>1 DEF Good
  <2>3. QED BY <1>1, <2>1, <2>2 DEF TableIn
<1>4. TableIn(E, d) /\ Head(E) # <<"table", d>> => TableIn(F, d)
  <2> SUFFICES ASSUME NEW i \in 1..Len(E), E[i] = <<"table", d>>, Head(E) # <<"table", d>>
               PROVE  TableIn(F, d)
    BY DEF TableIn
  <2>1. i # 1 /\ i - 1 \in 1..Len(F) /\ (i - 1) + 1 = i
    BY <1>1
  <2>2. F[i - 1] = E[i]
    BY <1>1, <2>1
  <2>3. QED BY <2>1, <2>2 DEF TableIn
<1>5. QED BY <1>3, <1>4 DEF F

(* The rows of the report change with a table event and start anew with a  *)
(* sync or a program.                                                      *)
LEMMA RowsStep ==
  ASSUME StateTypes, [Next]_vars
  PROVE  \/ \E s \in Syncs : StartSync(s) /\ state.rows' = {}
         \/ SettingsSaved /\ state.rows' = {}
         \/ SyncEvent
         \/ state.rows' = state.rows
<1> DEFINE Same == state.rows' = state.rows
<1> USE DEF StateTypes
<1>1. ASSUME NEW s \in Syncs, StartSync(s) PROVE state.rows' = {}
  BY <1>1 DEF StartSync, RowsAtStart
<1>2. SettingsSaved => state.rows' = {}
  BY DEF SettingsSaved, NewState
<1>3. ToggleDatabase => Same
  <2>1. \A dbs : Select(dbs) => Same
    BY DEF Select
  <2>2. QED BY <2>1 DEF ToggleDatabase
<1>4. SelectAll \/ SelectNone \/ Reload \/ LeaveConfirm \/ LeaveResult \/ LeaveEditor \/ LeaveMenu => Same
  BY DEF SelectAll, SelectNone, Select, Reload, LeaveConfirm, LeaveResult, LeaveEditor,
         LeaveMenu, Goto
<1>5. ChooseDatabases => Same
  <2>1. ChooseDatabases => \E dbs : state' = [state EXCEPT !.current = "confirmPlan", !.selected = dbs]
    BY DEF ChooseDatabases
  <2>2. QED BY <2>1
<1>6. OpenSettings \/ Quit \/ ConfirmNothing \/ SyncStarted \/ SyncFinished => Same
  BY DEF OpenSettings, Quit, ConfirmNothing, Goto, SyncStarted, SyncFinished
<1>7. DatabasesLoaded => Same
  <2>1. DatabasesLoaded => \E dbs, failed : state' = [state EXCEPT !.databases = dbs, !.err = failed]
    BY DEF DatabasesLoaded
  <2>2. QED BY <2>1
<1>8. UNCHANGED state => Same
  OBVIOUS
<1>9. SettingsAborted \/ ProgramEnds \/ UNCHANGED vars => UNCHANGED state
  BY DEF SettingsAborted, ProgramEnds, vars
<1>10. ASSUME NEW s \in Syncs, NEW d \in DBs, PlanDatabase(s, d) \/ ExecuteDatabase(s, d)
       PROVE  UNCHANGED state
  BY <1>10 DEF PlanDatabase, ExecuteDatabase
<1>11. ASSUME NEW s \in Syncs,
              
             PlanFails(s) \/ TableCopied(s) \/ ExecuteReturns(s) \/ ExecuteFails(s) \/ CloseEvents(s)
       PROVE  UNCHANGED state
  BY <1>11 DEF PlanFails, TableCopied, ExecuteReturns, ExecuteFails, CloseEvents
<1> HIDE DEF Same
<1>12. (\E s \in Syncs : StartSync(s) /\ state.rows' = {}) \/ (SettingsSaved /\ state.rows' = {})
         \/ SyncEvent \/ Same
  BY <1>1, <1>2, <1>3, <1>4, <1>5, <1>6, <1>7, <1>8, <1>9, <1>10, <1>11, StepCases
<1>13. QED BY <1>12 DEF Same

(* What SyncEvent does with the event at the head of the channel. *)
LEMMA EventApplied ==
  ASSUME StateTypes, TeaTypes, SyncTypes, SyncEvent
  PROVE  LET s == tea.waiting
             m == Head(sync[s].events)
         IN  /\ s \in Syncs /\ sync[s].events # <<>> /\ tea.mode = "app"
             /\ m \in {"plan", "table"} \X DBs /\ sync[s].events[1] = m /\ 1 \in 1..Len(sync[s].events)
             /\ state.rows' = IF m[1] = "plan" THEN state.rows ELSE state.rows \cup {<<s, m[2]>>}
<1> DEFINE s == tea.waiting
           E == sync[s].events
<1>1. s \in Syncs /\ E # <<>> /\ tea.mode = "app"
  BY DEF SyncEvent, TeaTypes, AnySync
<1>2. E \in Seq({"plan", "table"} \X DBs)
  BY <1>1 DEF SyncTypes, SyncRecord
<1>3. Head(E) \in {"plan", "table"} \X DBs /\ E[1] = Head(E) /\ 1 \in 1..Len(E)
  BY <1>1, <1>2
<1>4. state.rows' = IF Head(E)[1] = "plan" THEN state.rows ELSE state.rows \cup {<<s, Head(E)[2]>>}
  BY DEF SyncEvent, StateTypes
<1>5. QED BY <1>1, <1>3, <1>4

(* Every step keeps the rows those of the latest sync.                     *)
LEMMA OwnRowsStep ==
  ASSUME StateTypes, TeaTypes, SyncTypes, InOrder, EventsSound, OwnRows, [Next]_vars
  PROVE  OwnRows'
<1>1. CASE state.rows' = {} BY <1>1 DEF OwnRows
<1>2. CASE \A s \in Syncs : ~StartSync(s)
  <2>1. \A q \in Syncs : /\ sync[q].pc' = "idle" <=> sync[q].pc = "idle"
                         /\ sync[q].copied \subseteq sync[q].copied'
    BY <1>2, SyncStep DEF SyncKept
  <2> DEFINE Own(r) == /\ r[1] \in Syncs /\ r[2] \in sync[r[1]].copied
                       /\ \A s \in Syncs : sync[s].pc # "idle" => s <= r[1]
  <2>2. \A r \in state.rows : Own(r)
    BY DEF OwnRows, StateTypes
  <2>3. ASSUME \A r \in state.rows' : Own(r) PROVE OwnRows'
    <3>1. SUFFICES ASSUME NEW r \in state.rows'
                   PROVE  /\ r[2] \in sync[r[1]].copied'
                          /\ \A s \in Syncs : sync[s].pc' # "idle" => s <= r[1]
      BY DEF OwnRows
    <3>2. Own(r)
      BY <2>3
    <3>3. r[1] \in Syncs /\ r[2] \in sync[r[1]].copied
      BY <3>2
    <3>4. \A s \in Syncs : sync[s].pc # "idle" => s <= r[1]
      BY <3>2
    <3> HIDE DEF Own
    <3>5. r[2] \in sync[r[1]].copied'
      BY <2>1, <3>3
    <3>6. \A s \in Syncs : sync[s].pc' # "idle" => s <= r[1]
      BY <2>1, <3>4
    <3>7. QED BY <3>5, <3>6
  <2>4. CASE state.rows' = state.rows
    <3> HIDE DEF Own
    <3>1. QED BY <2>2, <2>3, <2>4
  <2>5. CASE SyncEvent
    <3> DEFINE s == tea.waiting
               m == Head(sync[s].events)
    <3>1. /\ s \in Syncs /\ m \in {"plan", "table"} \X DBs
          /\ sync[s].events[1] = m /\ 1 \in 1..Len(sync[s].events)
          /\ state.rows' = IF m[1] = "plan" THEN state.rows ELSE state.rows \cup {<<s, m[2]>>}
      BY <2>5, EventApplied
    <3>2. m[1] # "plan" => m[2] \in sync[s].copied
      <4>1. m[1] # "plan" => m[1] = "table"
        BY <3>1
      <4>2. QED BY <3>1, <4>1 DEF EventsSound, Good
    <3>3. \A q \in Syncs : sync[q].pc # "idle" => q <= s
      BY <3>1 DEF InOrder
    <3> HIDE DEF s, m
    <3>4. m[1] # "plan" => Own(<<s, m[2]>>)
      BY <3>1, <3>2, <3>3
    <3> HIDE DEF Own
    <3>5. \A r \in state.rows' : Own(r)
      BY <2>2, <3>1, <3>4
    <3>6. QED BY <2>3, <3>5
  <2>6. QED BY <1>1, <1>2, <2>4, <2>5, RowsStep
<1>3. ASSUME NEW s \in Syncs, StartSync(s) PROVE state.rows' = {}
  BY <1>3 DEF StartSync, RowsAtStart, StateTypes
<1>4. QED BY <1>1, <1>2, <1>3

-----------------------------------------------------------------------------
(* The tables whose events have left the channel, and their rows. *)
Applied(E, C) == {e \in C : ~TableIn(E, e)}
RowsOf(s, S) == {<<s, d>> : d \in S}

(* A planned database leaves the applied tables as they are. *)
LEMMA AppliedPlan ==
  ASSUME NEW E \in Seq({"plan", "table"} \X DBs), NEW C \in SUBSET DBs, NEW d \in DBs
  PROVE  Applied(Append(E, <<"plan", d>>), C) = Applied(E, C)
<1>1. ASSUME NEW e PROVE TableIn(Append(E, <<"plan", d>>), e) <=> TableIn(E, e)
  BY AppendIn
<1>2. QED BY <1>1 DEF Applied

(* So does a copied table: its event is in the channel. *)
LEMMA AppliedTable ==
  ASSUME NEW E \in Seq({"plan", "table"} \X DBs), NEW C \in SUBSET DBs, NEW d \in DBs \ C
  PROVE  Applied(Append(E, <<"table", d>>), C \cup {d}) = Applied(E, C)
<1>1. ASSUME NEW e
      PROVE  TableIn(Append(E, <<"table", d>>), e) <=> TableIn(E, e) \/ e = d
  <2>1. <<"table", d>> \in {"plan", "table"} \X DBs
    OBVIOUS
  <2>2. TableIn(Append(E, <<"table", d>>), e) <=> TableIn(E, e) \/ <<"table", d>> = <<"table", e>>
    BY <2>1, AppendIn
  <2>3. QED BY <2>2
<1>2. QED BY <1>1 DEF Applied

(* The event that leaves the channel is applied. *)
LEMMA AppliedTail ==
  ASSUME NEW E \in Seq({"plan", "table"} \X DBs), NEW C \in SUBSET DBs, Good(E, C), E # <<>>
  PROVE  Applied(Tail(E), C) =
           IF Head(E)[1] = "plan" THEN Applied(E, C) ELSE Applied(E, C) \cup {Head(E)[2]}
<1> DEFINE m == Head(E)
<1>1. m \in {"plan", "table"} \X DBs /\ E[1] = m /\ 1 \in 1..Len(E)
  OBVIOUS
<1>2. ASSUME NEW e PROVE TableIn(Tail(E), e) <=> TableIn(E, e) /\ m # <<"table", e>>
  BY TailIn
<1> DEFINE F == Tail(E)
<1> HIDE DEF m, F
<1>3. CASE m[1] = "plan"
  <2>1. ASSUME NEW e PROVE m # <<"table", e>>
    BY <1>3
  <2>2. ASSUME NEW e PROVE TableIn(F, e) <=> TableIn(E, e)
    BY <1>2, <2>1 DEF F
  <2>3. Applied(F, C) = Applied(E, C)
    BY <2>2 DEF Applied
  <2>4. QED BY <1>3, <2>3 DEF F, m
<1>4. CASE m[1] # "plan"
  <2>1. m = <<"table", m[2]>> /\ m[1] = "table"
    BY <1>1, <1>4
  <2>2. m[2] \in C
    BY <1>1, <2>1 DEF Good
  <2>3. ASSUME NEW e PROVE m # <<"table", e>> <=> e # m[2]
    BY <2>1
  <2>4. ASSUME NEW e PROVE TableIn(F, e) <=> TableIn(E, e) /\ e # m[2]
    BY <1>2, <2>3 DEF F
  <2>5. Applied(F, C) = Applied(E, C) \cup {m[2]}
    BY <2>2, <2>4 DEF Applied
  <2>6. QED BY <1>4, <2>5 DEF F, m
<1>5. QED BY <1>3, <1>4

(* What is awaited was awaited before, unless it has just been started. *)
LEMMA StillAwaited ==
  ASSUME StateTypes, TeaTypes, Front, [Next]_vars, \A s \in Syncs : ~StartSync(s),
         NEW s \in Syncs, tea.mode' = "app", tea.starting' = s \/ tea.waiting' = s
  PROVE  /\ tea.mode = "app" /\ (tea.starting = s \/ tea.waiting = s)
         /\ ~SettingsSaved
<1> USE SyncNumbers
<1>1. CASE SyncStarted
  <2>1. tea.starting = s /\ tea.mode = "app"
    BY <1>1 DEF SyncStarted, TeaTypes
  <2>2. ~SettingsSaved
    BY <2>1 DEF SettingsSaved
  <2>3. QED BY <2>1, <2>2
<1>2. ~SyncFinished
  BY DEF SyncFinished, TeaTypes, Front
<1>3. ~SettingsSaved
  BY DEF SettingsSaved, NewProgram
<1>4. CASE /\ tea.starting' = tea.starting /\ tea.waiting' = tea.waiting
           /\ tea.mode' # "exited" => tea.mode # "exited"
  <2>1. tea.mode # "exited" /\ (tea.starting = s \/ tea.waiting = s)
    BY <1>4
  <2>2. On("progress")
    BY <2>1 DEF Front
  <2>3. QED BY <1>3, <2>1, <2>2 DEF On
<1>5. QED BY <1>1, <1>2, <1>3, <1>4, TeaStep

(* Every step keeps each copied table shown or in the channel.             *)
LEMMA EventsKeptStep ==
  ASSUME StateTypes, TeaTypes, SyncTypes, Awaited, EventsSound, EventsKept, [Next]_vars
  PROVE  EventsKept'
<1> SUFFICES ASSUME NEW s \in Syncs, tea.mode' = "app", tea.starting' = s \/ tea.waiting' = s
             PROVE  state.rows' = RowsOf(s, {e \in sync[s].copied' : <<"table", e>> \notin Buffered(s)'})
  BY DEF EventsKept, RowsOf
<1>shown. {e \in sync[s].copied' : <<"table", e>> \notin Buffered(s)'}
        = Applied(sync[s].events', sync[s].copied')
  BY DEF Buffered, Applied, TableIn
<1> SUFFICES state.rows' = RowsOf(s, Applied(sync[s].events', sync[s].copied'))
  BY <1>shown
<1> DEFINE E == sync[s].events
           C == sync[s].copied
<1>0. /\ E \in Seq({"plan", "table"} \X DBs) /\ C \in SUBSET DBs /\ Good(E, C)
      /\ sync[s].pc = "idle" => C = {}
  BY DEF SyncTypes, SyncRecord, EventsSound
<1>1. ASSUME NEW q \in Syncs, StartSync(q) PROVE state.rows' = RowsOf(s, Applied(E', C'))
  <2>1. state.rows' = {}
    BY <1>1 DEF StartSync, RowsAtStart, StateTypes
  <2>2. s = q
    BY <1>1, SyncNumbers DEF StartSync, TeaTypes, Awaited, Front, Key, On
  <2>3. C' = {}
    BY <1>0, <1>1, <2>2, StartedSync
  <2>4. QED BY <2>1, <2>3 DEF RowsOf, Applied
<1>2. CASE \A q \in Syncs : ~StartSync(q)
  <2>1. tea.mode = "app" /\ (tea.starting = s \/ tea.waiting = s) /\ ~SettingsSaved
    BY <1>2, StillAwaited DEF Awaited
  <2>2. state.rows = RowsOf(s, Applied(E, C))
    <3>1. {e \in C : <<"table", e>> \notin Buffered(s)} = Applied(E, C)
      BY DEF Buffered, Applied, TableIn
    <3>2. state.rows = RowsOf(s, {e \in C : <<"table", e>> \notin Buffered(s)})
      BY <2>1 DEF EventsKept, RowsOf
    <3>3. QED BY <3>1, <3>2
  <2>3. SyncKept(s)
    BY <1>2, SyncStep
  <2>4. CASE SyncEvent
    <3>1. tea.waiting = s
      BY <2>1, <2>4, SyncNumbers DEF Awaited, Front, SyncEvent
    <3>2. E # <<>> /\ sync' = [sync EXCEPT ![s] = [sync[s] EXCEPT !.events = Tail(@)]]
      BY <2>4, <3>1 DEF SyncEvent
    <3>3. E' = Tail(E) /\ C' = C
      BY <3>2 DEF SyncTypes, SyncRecord
    <3>4. /\ Head(E) \in {"plan", "table"} \X DBs
          /\ state.rows' = IF Head(E)[1] = "plan" THEN state.rows
                           ELSE state.rows \cup {<<s, Head(E)[2]>>}
      BY <2>4, <3>1, EventApplied
    <3> HIDE DEF E, C
    <3>5. Applied(Tail(E), C) =
            IF Head(E)[1] = "plan" THEN Applied(E, C) ELSE Applied(E, C) \cup {Head(E)[2]}
      BY <1>0, <3>2, AppliedTail
    <3> DEFINE m == Head(E)
               A == Applied(E, C)
               B == Applied(Tail(E), C)
    <3> HIDE DEF m, A, B
    <3>6. B = IF m[1] = "plan" THEN A ELSE A \cup {m[2]}
      BY <3>5 DEF m, A, B
    <3>7. state.rows' = IF m[1] = "plan" THEN RowsOf(s, A) ELSE RowsOf(s, A) \cup {<<s, m[2]>>}
      BY <2>2, <3>4 DEF m, A
    <3>8. state.rows' = RowsOf(s, B)
      BY <3>6, <3>7 DEF RowsOf
    <3>9. Applied(E', C') = B
      BY <3>3 DEF B
    <3>10. QED BY <3>8, <3>9 DEF E, C
  <2>5. CASE ~SyncEvent
    <3>1. state.rows' = state.rows
      BY <1>2, <2>1, <2>5, RowsStep
    <3>2. CASE E' = E /\ C' = C
      BY <2>2, <3>1, <3>2
    <3>3. ASSUME NEW d \in DBs, E' = Offered(s, <<"plan", d>>), C' = C
          PROVE  Applied(E', C') = Applied(E, C)
      <4>1. E' = E \/ E' = Append(E, <<"plan", d>>)
        BY <3>3 DEF Offered
      <4> HIDE DEF E, C
      <4>2. QED BY <1>0, <3>3, <4>1, AppliedPlan
    <3>4. ASSUME NEW d \in DBs \ C, HasRoom(s), E' = Offered(s, <<"table", d>>), C' = C \cup {d}
          PROVE  Applied(E', C') = Applied(E, C)
      <4>1. E' = Append(E, <<"table", d>>)
        BY <3>4 DEF Offered
      <4> HIDE DEF E, C
      <4>2. Applied(Append(E, <<"table", d>>), C \cup {d}) = Applied(E, C)
        BY <1>0, <3>4, AppliedTable
      <4> DEFINE D == C \cup {d}
      <4> HIDE DEF D
      <4>3. E' = Append(E, <<"table", d>>) /\ C' = D /\ Applied(Append(E, <<"table", d>>), D) = Applied(E, C)
        BY <3>4, <4>1, <4>2 DEF D
      <4>4. QED BY <4>3
    <3>5. (E' = E /\ C' = C) \/ Applied(E', C') = Applied(E, C)
      BY <2>3, <2>5, <3>3, <3>4 DEF SyncKept
    <3>6. QED BY <2>2, <3>1, <3>2, <3>5
  <2>6. QED BY <2>4, <2>5
<1>3. QED BY <1>1, <1>2

-----------------------------------------------------------------------------
(* What Execute returned for the databases of a queue, by where its        *)
(* goroutine is: a queue ends with a failure, with no result at all, or    *)
(* with every result good.                                                 *)
Settled(r) ==
  \/ \E d \in DBs : r.outcome[d] = "failed"
  \/ \A d \in DBs : r.outcome[d] = "none"
  \/ \A d \in r.queue : r.outcome[d] = "ok"

OutcomeSound(r) ==
  /\ r.pc \in {"idle", "plan"} => \A d \in DBs : r.outcome[d] = "none"
  /\ r.pc = "execute" => \A d \in DBs : r.outcome[d] \in {"none", "ok"}
  /\ r.pc \in {"close", "ended"} => Settled(r)

OutcomesSound == \A s \in Syncs : OutcomeSound(sync[s])

(* The report on the screen is of a sync whose queue has ended. *)
ReportEnded ==
  state.current = "result" =>
    state.report \in Syncs /\ sync[state.report].pc \in {"close", "ended"}

(* A step that gives one sync a sound record keeps all of them sound. *)
LEMMA OneOutcome ==
  ASSUME SyncTypes, OutcomesSound, NEW s \in Syncs, NEW r, OutcomeSound(r),
         sync' = [sync EXCEPT ![s] = r]
  PROVE  OutcomesSound'
<1>1. \A q \in Syncs : sync'[q] = IF q = s THEN r ELSE sync[q]
  BY DEF SyncTypes
<1>2. \A q \in Syncs : OutcomeSound(sync'[q])
  BY <1>1 DEF OutcomesSound
<1>3. QED BY <1>2 DEF OutcomesSound

(* A record with the same queue and outcomes is sound where the other is,  *)
(* if its goroutine stays or goes from planning to executing or from       *)
(* closing to ended.                                                       *)
LEMMA SameOutcome ==
  ASSUME NEW r \in SyncRecord, NEW t \in SyncRecord, OutcomeSound(r),
         t.queue = r.queue \/ t.pc = "plan", t.outcome = r.outcome,
         \/ t.pc = r.pc
         \/ r.pc \in {"idle", "plan"}
         \/ r.pc = "close" /\ t.pc = "ended"
  PROVE  OutcomeSound(t)
  BY DEF OutcomeSound, Settled, SyncRecord

(* The last good result of a queue finds all the others good, and a first  *)
(* bad one ends it (app.go:572-592).                                       *)
LEMMA OutcomesStep ==
  ASSUME StateTypes, TeaTypes, SyncTypes, OutcomesSound, [Next]_vars
  PROVE  OutcomesSound'
<1>0. \A s \in Syncs : sync[s] \in SyncRecord /\ OutcomeSound(sync[s])
  BY DEF SyncTypes, OutcomesSound
<1>1. ASSUME NEW s \in Syncs, StartSync(s) PROVE OutcomesSound'
  <2> DEFINE t == [sync[s] EXCEPT !.pc = "plan", !.queue = selectedDatabaseList]
  <2>1. sync' = [sync EXCEPT ![s] = t] /\ sync[s].pc = "idle"
    BY <1>1 DEF StartSync
  <2>2. selectedDatabaseList \in SUBSET DBs
    BY DEF selectedDatabaseList, StateTypes
  <2>3. t \in SyncRecord /\ t.pc = "plan" /\ t.outcome = sync[s].outcome
    BY <1>0, <2>2 DEF SyncRecord
  <2> HIDE DEF t
  <2>4. OutcomeSound(t)
    BY <1>0, <2>1, <2>3, SameOutcome
  <2>5. QED BY <2>1, <2>4, OneOutcome
<1>2. ASSUME NEW s \in Syncs, NEW d \in DBs, PlanDatabase(s, d) PROVE OutcomesSound'
  <2> DEFINE pc == IF sync[s].planned \cup {d} = sync[s].queue THEN "execute" ELSE sync[s].pc
             t == [sync[s] EXCEPT !.planned = sync[s].planned \cup {d},
                                  !.events = Offered(s, <<"plan", d>>), !.pc = pc]
  <2>1. sync' = [sync EXCEPT ![s] = t] /\ sync[s].pc = "plan"
    BY <1>2 DEF PlanDatabase, At
  <2>2. pc \in {"plan", "execute"}
    BY <2>1
  <2>3. sync[s].planned \cup {d} \in SUBSET DBs
    BY <1>0 DEF SyncRecord
  <2>4. Offered(s, <<"plan", d>>) \in Seq({"plan", "table"} \X DBs)
    BY Offer
  <2>5. t \in SyncRecord /\ t.outcome = sync[s].outcome /\ t.queue = sync[s].queue
    <3> HIDE DEF pc
    <3>1. QED BY <1>0, <2>2, <2>3, <2>4 DEF SyncRecord
  <2> HIDE DEF t, pc
  <2>6. OutcomeSound(t)
    BY <1>0, <2>1, <2>5, SameOutcome
  <2>7. QED BY <2>1, <2>6, OneOutcome
<1>3. ASSUME NEW s \in Syncs, PlanFails(s) PROVE OutcomesSound'
  <2> DEFINE t == [sync[s] EXCEPT !.pc = "close", !.done = "failed"]
  <2>1. sync' = [sync EXCEPT ![s] = t] /\ sync[s].pc = "plan"
    BY <1>3 DEF PlanFails, At
  <2>2. t \in SyncRecord /\ t.outcome = sync[s].outcome /\ t.queue = sync[s].queue
    BY <1>0 DEF SyncRecord
  <2> HIDE DEF t
  <2>3. OutcomeSound(t)
    BY <1>0, <2>1, <2>2, SameOutcome
  <2>4. QED BY <2>1, <2>3, OneOutcome
<1>4. ASSUME NEW s \in Syncs, NEW d \in DBs, ExecuteDatabase(s, d) PROVE OutcomesSound'
  <2> DEFINE t == [sync[s] EXCEPT !.at = d]
  <2>1. sync' = [sync EXCEPT ![s] = t]
    BY <1>4 DEF ExecuteDatabase
  <2>2. t \in SyncRecord /\ t.outcome = sync[s].outcome /\ t.queue = sync[s].queue /\ t.pc = sync[s].pc
    BY <1>0 DEF SyncRecord
  <2> HIDE DEF t
  <2>3. OutcomeSound(t)
    BY <1>0, <2>2, SameOutcome
  <2>4. QED BY <2>1, <2>3, OneOutcome
<1>5. ASSUME NEW s \in Syncs, TableCopied(s) PROVE OutcomesSound'
  <2> DEFINE d == sync[s].at
             t == [sync[s] EXCEPT !.copied = sync[s].copied \cup {d},
                                  !.events = Offered(s, <<"table", d>>)]
  <2>1. sync' = [sync EXCEPT ![s] = t] /\ d \in DBs
    BY <1>5 DEF TableCopied
  <2>2. sync[s].copied \cup {d} \in SUBSET DBs
    BY <1>0, <2>1 DEF SyncRecord
  <2>3. Offered(s, <<"table", d>>) \in Seq({"plan", "table"} \X DBs)
    BY <2>1, Offer
  <2>4. t \in SyncRecord /\ t.outcome = sync[s].outcome /\ t.queue = sync[s].queue /\ t.pc = sync[s].pc
    <3> HIDE DEF d
    <3>1. QED BY <1>0, <2>2, <2>3 DEF SyncRecord
  <2> HIDE DEF t, d
  <2>5. OutcomeSound(t)
    BY <1>0, <2>4, SameOutcome
  <2>6. QED BY <2>1, <2>5, OneOutcome
<1>6. ASSUME NEW s \in Syncs, ExecuteReturns(s) PROVE OutcomesSound'
  <2> DEFINE r == sync[s]
             outcome == [r.outcome EXCEPT ![r.at] = "ok"]
             last == \A d \in r.queue \ {r.at} : r.outcome[d] # "none"
             pc == IF last THEN "close" ELSE r.pc
             done == IF last THEN "ok" ELSE r.done
             t == [r EXCEPT !.outcome = outcome, !.at = NoDB, !.pc = pc, !.done = done]
  <2>1. sync' = [sync EXCEPT ![s] = t] /\ r.pc = "execute" /\ r.at \in r.copied
    BY <1>6 DEF ExecuteReturns, At
  <2>2. r.at \in DBs /\ r.outcome \in [DBs -> {"none", "ok", "failed"}] /\ r.queue \subseteq DBs
    BY <1>0, <2>1 DEF SyncRecord
  <2>3. \A d \in DBs : r.outcome[d] \in {"none", "ok"}
    BY <1>0, <2>1 DEF OutcomeSound
  <2>4. \A d \in DBs : outcome[d] = IF d = r.at THEN "ok" ELSE r.outcome[d]
    BY <2>2
  <2>5. t.outcome = outcome /\ t.queue = r.queue /\ t.pc = pc
    <3> HIDE DEF outcome, last, pc, done
    <3>1. QED BY <1>0 DEF SyncRecord
  <2>6. CASE last
    <3>1. \A d \in r.queue : outcome[d] = "ok"
      BY <2>2, <2>3, <2>4, <2>6
    <3>2. t.pc = "close"
      BY <2>5, <2>6
    <3> HIDE DEF t, outcome
    <3>3. OutcomeSound(t)
      BY <2>5, <3>1, <3>2 DEF OutcomeSound, Settled
    <3>4. QED BY <2>1, <3>3, OneOutcome
  <2>7. CASE ~last
    <3>1. \A d \in DBs : outcome[d] \in {"none", "ok"}
      BY <2>3, <2>4
    <3>2. t.pc = "execute"
      BY <2>1, <2>5, <2>7
    <3> HIDE DEF t, outcome
    <3>3. OutcomeSound(t)
      BY <2>5, <3>1, <3>2 DEF OutcomeSound
    <3>4. QED BY <2>1, <3>3, OneOutcome
  <2>8. QED BY <2>6, <2>7
<1>7. ASSUME NEW s \in Syncs, ExecuteFails(s) PROVE OutcomesSound'
  <2> DEFINE r == sync[s]
             outcome == [r.outcome EXCEPT ![r.at] = "failed"]
             t == [r EXCEPT !.outcome = outcome, !.at = NoDB, !.pc = "close", !.done = "failed"]
  <2>1. sync' = [sync EXCEPT ![s] = t] /\ r.at \in DBs
    BY <1>0, <1>7 DEF ExecuteFails, SyncRecord
  <2>2. outcome[r.at] = "failed"
    BY <1>0, <2>1 DEF SyncRecord
  <2>3. t.outcome = outcome /\ t.pc = "close"
    <3> HIDE DEF outcome
    <3>1. QED BY <1>0 DEF SyncRecord
  <2> HIDE DEF t, outcome
  <2>4. OutcomeSound(t)
    BY <2>1, <2>2, <2>3 DEF OutcomeSound, Settled
  <2>5. QED BY <2>1, <2>4, OneOutcome
<1>8. ASSUME NEW s \in Syncs, CloseEvents(s) PROVE OutcomesSound'
  <2> DEFINE t == [sync[s] EXCEPT !.pc = "ended"]
  <2>1. sync' = [sync EXCEPT ![s] = t] /\ sync[s].pc = "close"
    BY <1>8 DEF CloseEvents, At
  <2>2. t \in SyncRecord /\ t.outcome = sync[s].outcome /\ t.queue = sync[s].queue /\ t.pc = "ended"
    BY <1>0 DEF SyncRecord
  <2> HIDE DEF t
  <2>3. OutcomeSound(t)
    BY <1>0, <2>1, <2>2, SameOutcome
  <2>4. QED BY <2>1, <2>3, OneOutcome
<1>9. CASE SyncEvent
  <2> DEFINE s == tea.waiting
             t == [sync[s] EXCEPT !.events = Tail(sync[s].events)]
  <2>1. s \in Syncs /\ sync' = [sync EXCEPT ![s] = t] /\ sync[s].events # <<>>
    BY <1>9, SyncNumbers DEF SyncEvent, TeaTypes, AnySync
  <2>2. sync[s].events \in Seq({"plan", "table"} \X DBs)
    BY <1>0, <2>1 DEF SyncRecord
  <2>3. Tail(sync[s].events) \in Seq({"plan", "table"} \X DBs)
    BY <2>1, <2>2
  <2>4. t \in SyncRecord /\ t.outcome = sync[s].outcome /\ t.queue = sync[s].queue /\ t.pc = sync[s].pc
    <3> HIDE DEF s
    <3>1. QED BY <1>0, <2>1, <2>3 DEF SyncRecord
  <2> HIDE DEF t, s
  <2>5. OutcomeSound(t)
    BY <1>0, <2>1, <2>4, SameOutcome
  <2>6. QED BY <2>1, <2>5, OneOutcome
<1>10. CASE SyncFinished
  <2> DEFINE s == tea.waiting
             t == [sync[s] EXCEPT !.done = "empty"]
  <2>1. s \in Syncs /\ sync' = [sync EXCEPT ![s] = t]
    BY <1>10, SyncNumbers DEF SyncFinished, TeaTypes, AnySync
  <2>2. t \in SyncRecord /\ t.outcome = sync[s].outcome /\ t.queue = sync[s].queue /\ t.pc = sync[s].pc
    BY <1>0, <2>1 DEF SyncRecord
  <2> HIDE DEF t, s
  <2>3. OutcomeSound(t)
    BY <1>0, <2>1, <2>2, SameOutcome
  <2>4. QED BY <2>1, <2>3, OneOutcome
<1>11. CASE UNCHANGED sync
  BY <1>11 DEF OutcomesSound
<1>12. QED
  BY <1>1, <1>2, <1>3, <1>4, <1>5, <1>6, <1>7, <1>8, <1>9, <1>10, <1>11, SessionOnly, StepCases

(* Only the end of a sync brings the user to its report.                   *)
LEMMA ReportStep ==
  ASSUME StateTypes, TeaTypes, SyncTypes, Awaited, ReportEnded, [Next]_vars
  PROVE  ReportEnded'
<1>0. \A s \in Syncs : sync[s] \in SyncRecord
  BY DEF SyncTypes
<1>1. CASE SyncFinished
  <2> DEFINE s == tea.waiting
  <2>1. s \in Syncs /\ sync' = [sync EXCEPT ![s] = [sync[s] EXCEPT !.done = "empty"]]
        /\ sync[s].done # "empty" /\ state.report' = s
    BY <1>1, SyncNumbers DEF SyncFinished, TeaTypes, AnySync, StateTypes
  <2>2. sync[s].pc \in {"close", "ended"}
    BY <1>0, <2>1 DEF Awaited, SyncRecord
  <2>3. sync'[s] = [sync[s] EXCEPT !.done = "empty"]
    BY <2>1 DEF SyncTypes
  <2>4. sync'[s].pc = sync[s].pc
    BY <1>0, <2>1, <2>3 DEF SyncRecord
  <2>5. state'.report = s
    BY <2>1
  <2> HIDE DEF s
  <2>6. QED BY <2>1, <2>2, <2>4, <2>5 DEF ReportEnded
<1>2. ASSUME NEW s \in Syncs, StartSync(s) PROVE ReportEnded'
  <2>1. state.current' = "progress"
    BY <1>2 DEF StartSync, StateTypes
  <2>2. QED BY <2>1 DEF ReportEnded
<1>3. ASSUME ~SyncFinished, \A s \in Syncs : ~StartSync(s) PROVE ReportEnded'
  <2>1. state.current' = "result" => state.current = "result" /\ state.report' = state.report
    <3> USE DEF StateTypes
    <3>1. CASE \/ ToggleDatabase \/ SelectAll \/ SelectNone
      <4>1. PICK dbs : state' = [state EXCEPT !.selected = dbs]
        BY <3>1 DEF ToggleDatabase, SelectAll, SelectNone, Select
      <4>2. QED BY <4>1
    <3>2. CASE ChooseDatabases
      <4>1. PICK dbs : state' = [state EXCEPT !.current = "confirmPlan", !.selected = dbs]
        BY <3>2 DEF ChooseDatabases
      <4>2. QED BY <4>1
    <3>3. CASE \/ LeaveConfirm \/ LeaveResult \/ LeaveEditor \/ LeaveMenu \/ ConfirmNothing
      <4>1. PICK screen \in {"databaseList", "confirmPlan", "mainMenu"} :
              state' = [state EXCEPT !.current = screen]
        BY <3>3 DEF LeaveConfirm, LeaveResult, LeaveEditor, LeaveMenu, ConfirmNothing, Goto
      <4>2. QED BY <4>1
    <3>4. CASE Reload BY <3>4 DEF Reload
    <3>5. CASE OpenSettings BY <3>5 DEF OpenSettings
    <3>6. CASE Quit BY <3>6 DEF Quit
    <3>7. CASE SettingsSaved BY <3>7 DEF SettingsSaved, NewState
    <3>8. CASE DatabasesLoaded
      <4>1. PICK dbs, failed : state' = [state EXCEPT !.databases = dbs, !.err = failed]
        BY <3>8 DEF DatabasesLoaded
      <4>2. QED BY <4>1
    <3>9. CASE SyncStarted BY <3>9 DEF SyncStarted
    <3>10. CASE SyncEvent
      <4>1. \/ state' = state
            \/ \E rows : state' = [state EXCEPT !.rows = rows]
        BY <3>10 DEF SyncEvent
      <4>2. QED BY <4>1
    <3>11. CASE UNCHANGED state BY <3>11
    <3>12. SettingsAborted \/ ProgramEnds \/ UNCHANGED vars => UNCHANGED state
      BY DEF SettingsAborted, ProgramEnds, vars
    <3>13. ASSUME NEW s \in Syncs, NEW d \in DBs, PlanDatabase(s, d) \/ ExecuteDatabase(s, d)
           PROVE  UNCHANGED state
      BY <3>13 DEF PlanDatabase, ExecuteDatabase
    <3>14. ASSUME NEW s \in Syncs,
                  \/ PlanFails(s) \/ TableCopied(s) \/ ExecuteReturns(s) \/ ExecuteFails(s)
                  \/ CloseEvents(s)
           PROVE  UNCHANGED state
      BY <3>14 DEF PlanFails, TableCopied, ExecuteReturns, ExecuteFails, CloseEvents
    <3>15. QED
      BY <1>3, <3>1, <3>2, <3>3, <3>4, <3>5, <3>6, <3>7, <3>8, <3>9, <3>10, <3>11, <3>12,
         <3>13, <3>14, StepCases
  <2>2. SUFFICES ASSUME state.current' = "result" PROVE ReportEnded'
    BY DEF ReportEnded
  <2>3. PICK q \in Syncs :
          q = state.report /\ sync[q].pc \in {"close", "ended"} /\ state'.report = q
    BY <2>1, <2>2 DEF ReportEnded
  <2>4. SyncKept(q)
    BY <1>3, SyncStep
  <2>5. sync'[q] \in SyncRecord
    BY SyncTypesStep DEF SyncTypes
  <2>6. sync'[q].pc \in {"close", "ended"}
    BY <2>3, <2>4, <2>5 DEF SyncKept, SyncRecord
  <2>7. QED BY <2>3, <2>6 DEF ReportEnded
<1>4. QED BY <1>1, <1>2, <1>3

-----------------------------------------------------------------------------
(* The inductive invariant: what is awaited is what works (Awaited), it is *)
(* the latest sync (InOrder), and the channel holds one event for every    *)
(* copied table that is not shown yet (EventsSound, EventsKept).  What is  *)
(* reported is of a queue that has ended (ReportEnded, OutcomesSound).     *)
Session ==
  /\ StateTypes /\ TeaTypes /\ SyncTypes /\ Room
  /\ Awaited /\ InOrder /\ EventsSound
  /\ OwnRows /\ EventsKept
  /\ OutcomesSound /\ ReportEnded

(* A session starts with nothing awaited and empty channels.               *)
LEMMA SessionInit ==
  ASSUME Init
  PROVE  Session
<1> DEFINE fresh == [pc |-> "idle", queue |-> {}, planned |-> {}, at |-> NoDB, copied |-> {},
                     outcome |-> [d \in DBs |-> "none"], events |-> <<>>, done |-> "empty"]
<1>1. /\ state = NewState /\ tea = NewProgram
      /\ sync = [s \in Syncs |-> fresh]
  BY DEF Init
<1>2. fresh \in SyncRecord
  <2>1. <<>> \in Seq({"plan", "table"} \X DBs) /\ [d \in DBs |-> "none"] \in [DBs -> {"none", "ok", "failed"}]
    OBVIOUS
  <2> DEFINE none == [d \in DBs |-> "none"]
  <2> HIDE DEF none
  <2>2. [pc |-> "idle", queue |-> {}, planned |-> {}, at |-> NoDB, copied |-> {},
         outcome |-> none, events |-> <<>>, done |-> "empty"] \in SyncRecord
    BY <2>1 DEF SyncRecord, none
  <2>3. QED BY <2>2 DEF none
<1>3. /\ fresh.pc = "idle" /\ fresh.copied = {} /\ fresh.events = <<>> /\ fresh.done = "empty"
      /\ Len(fresh.events) = 0 /\ \A d \in DBs : fresh.outcome[d] = "none"
  OBVIOUS
<1> HIDE DEF fresh
<1>4. \A s \in Syncs : sync[s] = fresh
  BY <1>1
<1>5. SyncTypes
  BY <1>1, <1>2 DEF SyncTypes
<1>6. StateTypes /\ TeaTypes
  BY <1>1 DEF NewState, NewProgram, StateTypes, TeaTypes, Screens, AnySync
<1>7. Room
  BY <1>3, <1>4, SessionAssumption DEF Room
<1>8. Awaited /\ InOrder
  BY <1>1, <1>3, <1>4, SyncNumbers DEF Awaited, Front, InOrder, Active, NewProgram, NewState
<1>9. EventsSound
  BY <1>3, <1>4 DEF EventsSound, Good
<1>10. OwnRows /\ EventsKept
  BY <1>1, SyncNumbers DEF OwnRows, EventsKept, NewState, NewProgram
<1>11. OutcomesSound /\ ReportEnded
  BY <1>1, <1>3, <1>4 DEF OutcomesSound, OutcomeSound, ReportEnded, NewState
<1>12. QED BY <1>5, <1>6, <1>7, <1>8, <1>9, <1>10, <1>11 DEF Session

(* Every step keeps the invariant.                                         *)
LEMMA SessionStep ==
  ASSUME Session, [Next]_vars
  PROVE  Session'
<1> USE DEF Session
<1>1. StateTypes' /\ TeaTypes' /\ SyncTypes'
  BY StateTypesStep, TeaTypesStep, SyncTypesStep
<1>2. Awaited' /\ InOrder'
  BY AwaitedStep, InOrderStep
<1>3. Room' /\ EventsSound'
  BY EventsStep DEF Room, EventsSound
<1>4. OwnRows' /\ EventsKept'
  BY OwnRowsStep, EventsKeptStep
<1>5. OutcomesSound' /\ ReportEnded'
  BY OutcomesStep, ReportStep
<1>6. QED BY <1>1, <1>2, <1>3, <1>4, <1>5

(* The invariant holds of every session.                                   *)
LEMMA SessionInvariant == Spec => []Session
<1>1. Init => Session
  BY SessionInit
<1>2. Session /\ [Next]_vars => Session'
  BY SessionStep
<1>3. QED BY <1>1, <1>2, PTL DEF Spec

(* Every field keeps its type, and no channel holds more than its capacity.*)
THEOREM SessionTypes == Spec => []TypeOK
<1>1. Session => TypeOK
  BY DEF Session, StateTypes, TeaTypes, SyncTypes, SyncRecord, Room, TypeOK
<1>2. QED BY <1>1, SessionInvariant, PTL

(* A sync that works is the only one, on the progress screen, in a program *)
(* that knows it is running: startSyncCmd is reached from the confirmation *)
(* only, and the settings cannot be opened from the progress screen.       *)
THEOREM SessionWatched == Spec => []WatchedWhileActive
<1>1. Session => WatchedWhileActive
  BY SyncNumbers DEF Session, Awaited, Front, WatchedWhileActive
<1>2. QED BY <1>1, SessionInvariant, PTL

(* The rows on the screen are of the latest sync and of copied tables,     *)
(* whatever the order in which messages and events arrive.                 *)
THEOREM SessionOwnRows == Spec => []OwnRows
<1>1. Session => OwnRows
  BY DEF Session
<1>2. QED BY <1>1, SessionInvariant, PTL

(* A full channel loses plan events only: every copied table is shown or   *)
(* still in the channel while its sync is watched.                         *)
THEOREM SessionEventsKept == Spec => []EventsKept
<1>1. Session => EventsKept
  BY DEF Session
<1>2. QED BY <1>1, SessionInvariant, PTL

(* The result screen says SUCCESS only of a queue whose databases have all *)
(* been executed without an error (aggregateResult, app.go:494-521, as     *)
(* renderResultSummary shows it): never of one that is still running, that *)
(* a failure cut short, or whose databases were never reached.             *)
THEOREM SessionSuccess == Spec => []SuccessIsWhole
<1>1. Session => SuccessIsWhole
  <2> SUFFICES ASSUME Session, On("result"), Status(state.report) = "SUCCESS"
               PROVE  \A d \in sync[state.report].queue : sync[state.report].outcome[d] = "ok"
    BY DEF SuccessIsWhole
  <2> DEFINE r == sync[state.report]
  <2>1. Settled(r)
    BY DEF Session, ReportEnded, OutcomesSound, OutcomeSound, On
  <2>2. ~(\E d \in DBs : r.outcome[d] = "failed") /\ \E d \in DBs : r.outcome[d] = "ok"
    BY DEF Status
  <2>3. QED BY <2>1, <2>2 DEF Settled
<1>2. QED BY <1>1, SessionInvariant, PTL
=============================================================================
