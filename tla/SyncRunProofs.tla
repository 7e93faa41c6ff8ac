---------------------------- MODULE SyncRunProofs ---------------------------
(***************************************************************************)
(* Proofs about SyncRun for any set of tables, any set of sequences and    *)
(* any number of failures, crashes and restarts: what a run reports, what  *)
(* it leaves behind and what it spares.                                    *)
(***************************************************************************)
EXTENDS SyncRun, TLAPS

USE DEF targetVars, serverVars, runVars, Running, Outcomes, Resources, Stages, AfterReset

(* The order of executeStages, stage by stage. *)
LEMMA FollowingStages ==
  /\ Following["snapshot"] = "dumpPreData"
  /\ Following["dumpPreData"] = "checkExtensions"
  /\ Following["checkExtensions"] = "resetTarget"
  /\ Following["resetTarget"] = "connectTarget"
  /\ Following["connectTarget"] = "applyPreData"
  /\ Following["applyPreData"] = "copyTables"
  /\ Following["copyTables"] = "dumpPostData"
  /\ Following["dumpPostData"] = "applyPostData"
  /\ Following["applyPostData"] = "repairSequences"
  /\ Following["repairSequences"] = "unwind"
  BY DEF Following

(* One step of the specification is one action, or changes nothing. *)
LEMMA StepCases ==
  ASSUME [Next]_vars
  PROVE  \/ CancelRun \/ ForeignSession \/ Crash \/ Rerun \/ Start \/ Enter
         \/ ConnectSnapshot \/ ExportSnapshot \/ DumpPreData \/ CheckExtensions
         \/ ConnectMaintenance \/ TerminateSessions \/ DropDatabase \/ CreateDatabase
         \/ ConnectTarget \/ ApplyPreData \/ CopyTablesReturns \/ CreateArchive \/ DumpArchive
         \/ ApplyPostData \/ RepairSequencesReturns \/ Finish
         \/ (\E t \in Tables : CopyTable(t)) \/ (\E s \in Seqs : RepairSequence(s))
         \/ (\E i \in 1..3 : Release(i))
         \/ UNCHANGED vars
  BY DEF Next, Engine, Succeeded

(* The servers keep their types. *)
LEMMA ServerTypesStep ==
  ASSUME TypeOK, [Next]_vars
  PROVE  ServerTypes'
<1> USE FollowingStages, SyncAssumption DEF TypeOK, ServerTypes, RunTypes, ResourceTypes
<1>1. CASE CancelRun
  BY <1>1 DEF CancelRun, Fault
<1>2. CASE ForeignSession
  BY <1>2 DEF ForeignSession, Fault
<1>3. CASE Crash
  BY <1>3 DEF Crash, Fault
<1>4. CASE Rerun
  BY <1>4 DEF Rerun
<1>5. CASE Start
  BY <1>5 DEF Start
<1>6. CASE Enter
  BY <1>6 DEF Enter, ContextErr
<1>7. CASE ConnectSnapshot
  BY <1>7 DEF ConnectSnapshot, Proceed, StageFails, StageError, Fault
<1>8. CASE ExportSnapshot
  BY <1>8 DEF ExportSnapshot, StageDone, OpenAfterExport, OpenAfterFailedExport, StageFails,
              StageError, Fault
<1>9. CASE DumpPreData
  BY <1>9 DEF DumpPreData, StageDone, StageFails, StageError, Fault
<1>10. CASE CheckExtensions
  BY <1>10 DEF CheckExtensions, ExtensionsAvailable, Refused, StageDone, StageFails, StageError,
               Fault
<1>11. CASE ConnectMaintenance
  BY <1>11 DEF ConnectMaintenance, Proceed, StageFails, StageError, Fault
<1>12. CASE TerminateSessions
  BY <1>12 DEF TerminateSessions, Proceed, StageFails, StageError, Fault
<1>13. CASE DropDatabase
  BY <1>13 DEF DropDatabase, DropAccepted, Dropped, Present, Refused, Proceed, StageFails,
               StageError, Fault
<1>14. CASE CreateDatabase
  BY <1>14 DEF CreateDatabase, StageDone, StageFails, StageError, Fault
<1>15. CASE ConnectTarget
  BY <1>15 DEF ConnectTarget, StageDone, StageFails, StageError, Fault
<1>16. CASE ApplyPreData
  BY <1>16 DEF ApplyPreData, StageDone, StageFails, StageError, Fault
<1>17. CASE CopyTablesReturns
  BY <1>17 DEF CopyTablesReturns, Copy!Return, Copy!MayReturn, Copy!Outcomes, StageDone,
               StageFails, StageError, Fault
<1>18. CASE CreateArchive
  BY <1>18 DEF CreateArchive, Proceed, StageFails, StageError, Fault
<1>19. CASE DumpArchive
  BY <1>19 DEF DumpArchive, StageDone, StageFails, StageError, Fault
<1>20. CASE ApplyPostData
  BY <1>20 DEF ApplyPostData, StageDone, StageFails, StageError, Fault
<1>21. CASE RepairSequencesReturns
  BY <1>21 DEF RepairSequencesReturns, AllRepaired, StageDone, StageFails, StageError, Fault
<1>22. CASE Finish
  BY <1>22 DEF Finish, StagesError
<1>23. ASSUME NEW t \in Tables, CopyTable(t) PROVE ServerTypes'
  BY <1>23 DEF CopyTable, Copy!CommitItem
<1>24. ASSUME NEW s \in Seqs, RepairSequence(s) PROVE ServerTypes'
  BY <1>24 DEF RepairSequence
<1>25. ASSUME NEW i \in 1..3, Release(i) PROVE ServerTypes'
  BY <1>25 DEF Release, ReleaseOrder, Fault, Join
<1>26. CASE UNCHANGED vars
  BY <1>26 DEF vars
<1>27. QED
  BY StepCases, <1>1, <1>2, <1>3, <1>4, <1>5, <1>6, <1>7, <1>8, <1>9, <1>10, <1>11, <1>12,
     <1>13, <1>14, <1>15, <1>16, <1>17, <1>18, <1>19, <1>20, <1>21, <1>22, <1>23, <1>24,
     <1>25, <1>26


(* The run keeps its types. *)
LEMMA RunTypesStep ==
  ASSUME TypeOK, [Next]_vars
  PROVE  RunTypes'
<1> USE FollowingStages, SyncAssumption DEF TypeOK, ServerTypes, RunTypes, ResourceTypes
<1>1. CASE CancelRun
  BY <1>1 DEF CancelRun, Fault
<1>2. CASE ForeignSession
  BY <1>2 DEF ForeignSession, Fault
<1>3. CASE Crash
  BY <1>3 DEF Crash, Fault
<1>4. CASE Rerun
  BY <1>4 DEF Rerun
<1>5. CASE Start
  BY <1>5 DEF Start
<1>6. CASE Enter
  BY <1>6 DEF Enter, ContextErr
<1>7. CASE ConnectSnapshot
  BY <1>7 DEF ConnectSnapshot, Proceed, StageFails, StageError, Fault
<1>8. CASE ExportSnapshot
  BY <1>8 DEF ExportSnapshot, StageDone, OpenAfterExport, OpenAfterFailedExport, StageFails,
              StageError, Fault
<1>9. CASE DumpPreData
  BY <1>9 DEF DumpPreData, StageDone, StageFails, StageError, Fault
<1>10. CASE CheckExtensions
  BY <1>10 DEF CheckExtensions, ExtensionsAvailable, Refused, StageDone, StageFails, StageError,
               Fault
<1>11. CASE ConnectMaintenance
  BY <1>11 DEF ConnectMaintenance, Proceed, StageFails, StageError, Fault
<1>12. CASE TerminateSessions
  BY <1>12 DEF TerminateSessions, Proceed, StageFails, StageError, Fault
<1>13. CASE DropDatabase
  BY <1>13 DEF DropDatabase, DropAccepted, Dropped, Present, Refused, Proceed, StageFails,
               StageError, Fault
<1>14. CASE CreateDatabase
  BY <1>14 DEF CreateDatabase, StageDone, StageFails, StageError, Fault
<1>15. CASE ConnectTarget
  BY <1>15 DEF ConnectTarget, StageDone, StageFails, StageError, Fault
<1>16. CASE ApplyPreData
  BY <1>16 DEF ApplyPreData, StageDone, StageFails, StageError, Fault
<1>17. CASE CopyTablesReturns
  BY <1>17 DEF CopyTablesReturns, Copy!Return, Copy!MayReturn, Copy!Outcomes, StageDone,
               StageFails, StageError, Fault
<1>18. CASE CreateArchive
  BY <1>18 DEF CreateArchive, Proceed, StageFails, StageError, Fault
<1>19. CASE DumpArchive
  BY <1>19 DEF DumpArchive, StageDone, StageFails, StageError, Fault
<1>20. CASE ApplyPostData
  BY <1>20 DEF ApplyPostData, StageDone, StageFails, StageError, Fault
<1>21. CASE RepairSequencesReturns
  BY <1>21 DEF RepairSequencesReturns, AllRepaired, StageDone, StageFails, StageError, Fault
<1>22. CASE Finish
  BY <1>22 DEF Finish, StagesError
<1>23. ASSUME NEW t \in Tables, CopyTable(t) PROVE RunTypes'
  BY <1>23 DEF CopyTable, Copy!CommitItem
<1>24. ASSUME NEW s \in Seqs, RepairSequence(s) PROVE RunTypes'
  BY <1>24 DEF RepairSequence
<1>25. ASSUME NEW i \in 1..3, Release(i) PROVE RunTypes'
  BY <1>25 DEF Release, ReleaseOrder, Fault, Join
<1>26. CASE UNCHANGED vars
  BY <1>26 DEF vars
<1>27. QED
  BY StepCases, <1>1, <1>2, <1>3, <1>4, <1>5, <1>6, <1>7, <1>8, <1>9, <1>10, <1>11, <1>12,
     <1>13, <1>14, <1>15, <1>16, <1>17, <1>18, <1>19, <1>20, <1>21, <1>22, <1>23, <1>24,
     <1>25, <1>26


(* So do its resources. *)
LEMMA ResourceTypesStep ==
  ASSUME TypeOK, [Next]_vars
  PROVE  ResourceTypes'
<1> USE FollowingStages, SyncAssumption DEF TypeOK, ServerTypes, RunTypes, ResourceTypes
<1>1. CASE CancelRun
  BY <1>1 DEF CancelRun, Fault
<1>2. CASE ForeignSession
  BY <1>2 DEF ForeignSession, Fault
<1>3. CASE Crash
  BY <1>3 DEF Crash, Fault
<1>4. CASE Rerun
  BY <1>4 DEF Rerun
<1>5. CASE Start
  BY <1>5 DEF Start
<1>6. CASE Enter
  BY <1>6 DEF Enter, ContextErr
<1>7. CASE ConnectSnapshot
  BY <1>7 DEF ConnectSnapshot, Proceed, StageFails, StageError, Fault
<1>8. CASE ExportSnapshot
  BY <1>8 DEF ExportSnapshot, StageDone, OpenAfterExport, OpenAfterFailedExport, StageFails,
              StageError, Fault
<1>9. CASE DumpPreData
  BY <1>9 DEF DumpPreData, StageDone, StageFails, StageError, Fault
<1>10. CASE CheckExtensions
  BY <1>10 DEF CheckExtensions, ExtensionsAvailable, Refused, StageDone, StageFails, StageError,
               Fault
<1>11. CASE ConnectMaintenance
  BY <1>11 DEF ConnectMaintenance, Proceed, StageFails, StageError, Fault
<1>12. CASE TerminateSessions
  BY <1>12 DEF TerminateSessions, Proceed, StageFails, StageError, Fault
<1>13. CASE DropDatabase
  BY <1>13 DEF DropDatabase, DropAccepted, Dropped, Present, Refused, Proceed, StageFails,
               StageError, Fault
<1>14. CASE CreateDatabase
  BY <1>14 DEF CreateDatabase, StageDone, StageFails, StageError, Fault
<1>15. CASE ConnectTarget
  BY <1>15 DEF ConnectTarget, StageDone, StageFails, StageError, Fault
<1>16. CASE ApplyPreData
  BY <1>16 DEF ApplyPreData, StageDone, StageFails, StageError, Fault
<1>17. CASE CopyTablesReturns
  BY <1>17 DEF CopyTablesReturns, Copy!Return, Copy!MayReturn, Copy!Outcomes, StageDone,
               StageFails, StageError, Fault
<1>18. CASE CreateArchive
  BY <1>18 DEF CreateArchive, Proceed, StageFails, StageError, Fault
<1>19. CASE DumpArchive
  BY <1>19 DEF DumpArchive, StageDone, StageFails, StageError, Fault
<1>20. CASE ApplyPostData
  BY <1>20 DEF ApplyPostData, StageDone, StageFails, StageError, Fault
<1>21. CASE RepairSequencesReturns
  BY <1>21 DEF RepairSequencesReturns, AllRepaired, StageDone, StageFails, StageError, Fault
<1>22. CASE Finish
  BY <1>22 DEF Finish, StagesError
<1>23. ASSUME NEW t \in Tables, CopyTable(t) PROVE ResourceTypes'
  BY <1>23 DEF CopyTable, Copy!CommitItem
<1>24. ASSUME NEW s \in Seqs, RepairSequence(s) PROVE ResourceTypes'
  BY <1>24 DEF RepairSequence
<1>25. ASSUME NEW i \in 1..3, Release(i) PROVE ResourceTypes'
  BY <1>25 DEF Release, ReleaseOrder, Fault, Join
<1>26. CASE UNCHANGED vars
  BY <1>26 DEF vars
<1>27. QED
  BY StepCases, <1>1, <1>2, <1>3, <1>4, <1>5, <1>6, <1>7, <1>8, <1>9, <1>10, <1>11, <1>12,
     <1>13, <1>14, <1>15, <1>16, <1>17, <1>18, <1>19, <1>20, <1>21, <1>22, <1>23, <1>24,
     <1>25, <1>26


(* The failures stay within their bound. *)
LEMMA FaultsStep ==
  ASSUME TypeOK, [Next]_vars
  PROVE  (faults \in 0..MaxFaults)'
<1> USE SyncAssumption DEF TypeOK
<1>1. CASE CancelRun
  BY <1>1 DEF CancelRun, Fault
<1>2. CASE ForeignSession
  BY <1>2 DEF ForeignSession, Fault
<1>3. CASE Crash
  BY <1>3 DEF Crash, Fault
<1>4. CASE Rerun
  BY <1>4 DEF Rerun
<1>5. CASE Start
  BY <1>5 DEF Start
<1>6. CASE Enter
  BY <1>6 DEF Enter, ContextErr
<1>7. CASE ConnectSnapshot
  BY <1>7 DEF ConnectSnapshot, Proceed, StageFails, StageError, Fault
<1>8. CASE ExportSnapshot
  BY <1>8 DEF ExportSnapshot, StageDone, OpenAfterExport, OpenAfterFailedExport, StageFails,
              StageError, Fault
<1>9. CASE DumpPreData
  BY <1>9 DEF DumpPreData, StageDone, StageFails, StageError, Fault
<1>10. CASE CheckExtensions
  BY <1>10 DEF CheckExtensions, ExtensionsAvailable, Refused, StageDone, StageFails, StageError,
               Fault
<1>11. CASE ConnectMaintenance
  BY <1>11 DEF ConnectMaintenance, Proceed, StageFails, StageError, Fault
<1>12. CASE TerminateSessions
  BY <1>12 DEF TerminateSessions, Proceed, StageFails, StageError, Fault
<1>13. CASE DropDatabase
  BY <1>13 DEF DropDatabase, DropAccepted, Dropped, Present, Refused, Proceed, StageFails,
               StageError, Fault
<1>14. CASE CreateDatabase
  BY <1>14 DEF CreateDatabase, StageDone, StageFails, StageError, Fault
<1>15. CASE ConnectTarget
  BY <1>15 DEF ConnectTarget, StageDone, StageFails, StageError, Fault
<1>16. CASE ApplyPreData
  BY <1>16 DEF ApplyPreData, StageDone, StageFails, StageError, Fault
<1>17. CASE CopyTablesReturns
  BY <1>17 DEF CopyTablesReturns, Copy!Return, Copy!MayReturn, Copy!Outcomes, StageDone,
               StageFails, StageError, Fault
<1>18. CASE CreateArchive
  BY <1>18 DEF CreateArchive, Proceed, StageFails, StageError, Fault
<1>19. CASE DumpArchive
  BY <1>19 DEF DumpArchive, StageDone, StageFails, StageError, Fault
<1>20. CASE ApplyPostData
  BY <1>20 DEF ApplyPostData, StageDone, StageFails, StageError, Fault
<1>21. CASE RepairSequencesReturns
  BY <1>21 DEF RepairSequencesReturns, AllRepaired, StageDone, StageFails, StageError, Fault
<1>22. CASE Finish
  BY <1>22 DEF Finish, StagesError
<1>23. ASSUME NEW t \in Tables, CopyTable(t) PROVE (faults \in 0..MaxFaults)'
  BY <1>23 DEF CopyTable, Copy!CommitItem
<1>24. ASSUME NEW s \in Seqs, RepairSequence(s) PROVE (faults \in 0..MaxFaults)'
  BY <1>24 DEF RepairSequence
<1>25. ASSUME NEW i \in 1..3, Release(i) PROVE (faults \in 0..MaxFaults)'
  BY <1>25 DEF Release, ReleaseOrder, Fault, Join
<1>26. CASE UNCHANGED vars
  BY <1>26 DEF vars
<1>27. QED
  BY StepCases, <1>1, <1>2, <1>3, <1>4, <1>5, <1>6, <1>7, <1>8, <1>9, <1>10, <1>11, <1>12,
     <1>13, <1>14, <1>15, <1>16, <1>17, <1>18, <1>19, <1>20, <1>21, <1>22, <1>23, <1>24,
     <1>25, <1>26


(* The target is what the run's place says. *)
LEMMA TargetStep ==
  ASSUME TypeOK, TargetByStage, [Next]_vars
  PROVE  TargetByStage'
<1> USE FollowingStages DEF TypeOK, ServerTypes, RunTypes, ResourceTypes, TargetByStage,
                            IsComplete, Fresh
<1>1. CASE CancelRun
  BY <1>1 DEF CancelRun, Fault
<1>2. CASE ForeignSession
  BY <1>2 DEF ForeignSession, Fault
<1>3. CASE Crash
  BY <1>3 DEF Crash, Fault
<1>4. CASE Rerun
  BY <1>4 DEF Rerun
<1>5. CASE Start
  BY <1>5 DEF Start
<1>6. CASE Enter
  BY <1>6 DEF Enter, ContextErr
<1>7. CASE ConnectSnapshot
  BY <1>7 DEF ConnectSnapshot, Proceed, StageFails, StageError, Fault
<1>8. CASE ExportSnapshot
  BY <1>8 DEF ExportSnapshot, StageDone, OpenAfterExport, OpenAfterFailedExport, StageFails,
              StageError, Fault
<1>9. CASE DumpPreData
  BY <1>9 DEF DumpPreData, StageDone, StageFails, StageError, Fault
<1>10. CASE CheckExtensions
  BY <1>10 DEF CheckExtensions, ExtensionsAvailable, Refused, StageDone, StageFails, StageError,
               Fault
<1>11. CASE ConnectMaintenance
  BY <1>11 DEF ConnectMaintenance, Proceed, StageFails, StageError, Fault
<1>12. CASE TerminateSessions
  BY <1>12 DEF TerminateSessions, Proceed, StageFails, StageError, Fault
<1>13. CASE DropDatabase
  BY <1>13 DEF DropDatabase, DropAccepted, Dropped, Present, Refused, Proceed, StageFails,
               StageError, Fault
<1>14. CASE CreateDatabase
  BY <1>14 DEF CreateDatabase, StageDone, StageFails, StageError, Fault
<1>15. CASE ConnectTarget
  BY <1>15 DEF ConnectTarget, StageDone, StageFails, StageError, Fault
<1>16. CASE ApplyPreData
  BY <1>16 DEF ApplyPreData, StageDone, StageFails, StageError, Fault
<1>17. CASE CopyTablesReturns
  BY <1>17 DEF CopyTablesReturns, Copy!Return, Copy!MayReturn, Copy!Outcomes, StageDone,
               StageFails, StageError, Fault
<1>18. CASE CreateArchive
  BY <1>18 DEF CreateArchive, Proceed, StageFails, StageError, Fault
<1>19. CASE DumpArchive
  BY <1>19 DEF DumpArchive, StageDone, StageFails, StageError, Fault
<1>20. CASE ApplyPostData
  BY <1>20 DEF ApplyPostData, StageDone, StageFails, StageError, Fault
<1>21. CASE RepairSequencesReturns
  BY <1>21 DEF RepairSequencesReturns, AllRepaired, StageDone, StageFails, StageError, Fault
<1>22. CASE Finish
  BY <1>22 DEF Finish, StagesError
<1>23. ASSUME NEW t \in Tables, CopyTable(t) PROVE TargetByStage'
  BY <1>23 DEF CopyTable, Copy!CommitItem
<1>24. ASSUME NEW s \in Seqs, RepairSequence(s) PROVE TargetByStage'
  BY <1>24 DEF RepairSequence
<1>25. ASSUME NEW i \in 1..3, Release(i) PROVE TargetByStage'
  BY <1>25 DEF Release, ReleaseOrder, Fault, Join
<1>26. CASE UNCHANGED vars
  BY <1>26 DEF vars
<1>27. QED
  BY StepCases, <1>1, <1>2, <1>3, <1>4, <1>5, <1>6, <1>7, <1>8, <1>9, <1>10, <1>11, <1>12,
     <1>13, <1>14, <1>15, <1>16, <1>17, <1>18, <1>19, <1>20, <1>21, <1>22, <1>23, <1>24,
     <1>25, <1>26


(* What is open is released later or being set up. *)
LEMMA OpenStep ==
  ASSUME TypeOK, OpenByStage, [Next]_vars
  PROVE  OpenByStage'
<1> USE FollowingStages DEF TypeOK, ServerTypes, RunTypes, ResourceTypes, OpenByStage
<1>1. CASE CancelRun
  BY <1>1 DEF CancelRun, Fault
<1>2. CASE ForeignSession
  BY <1>2 DEF ForeignSession, Fault
<1>3. CASE Crash
  BY <1>3 DEF Crash, Fault
<1>4. CASE Rerun
  BY <1>4 DEF Rerun
<1>5. CASE Start
  BY <1>5 DEF Start
<1>6. CASE Enter
  BY <1>6 DEF Enter, ContextErr
<1>7. CASE ConnectSnapshot
  BY <1>7 DEF ConnectSnapshot, Proceed, StageFails, StageError, Fault
<1>8. CASE ExportSnapshot
  BY <1>8 DEF ExportSnapshot, StageDone, OpenAfterExport, OpenAfterFailedExport, StageFails,
              StageError, Fault
<1>9. CASE DumpPreData
  BY <1>9 DEF DumpPreData, StageDone, StageFails, StageError, Fault
<1>10. CASE CheckExtensions
  BY <1>10 DEF CheckExtensions, ExtensionsAvailable, Refused, StageDone, StageFails, StageError,
               Fault
<1>11. CASE ConnectMaintenance
  BY <1>11 DEF ConnectMaintenance, Proceed, StageFails, StageError, Fault
<1>12. CASE TerminateSessions
  BY <1>12 DEF TerminateSessions, Proceed, StageFails, StageError, Fault
<1>13. CASE DropDatabase
  BY <1>13 DEF DropDatabase, DropAccepted, Dropped, Present, Refused, Proceed, StageFails,
               StageError, Fault
<1>14. CASE CreateDatabase
  BY <1>14 DEF CreateDatabase, StageDone, StageFails, StageError, Fault
<1>15. CASE ConnectTarget
  BY <1>15 DEF ConnectTarget, StageDone, StageFails, StageError, Fault
<1>16. CASE ApplyPreData
  BY <1>16 DEF ApplyPreData, StageDone, StageFails, StageError, Fault
<1>17. CASE CopyTablesReturns
  BY <1>17 DEF CopyTablesReturns, Copy!Return, Copy!MayReturn, Copy!Outcomes, StageDone,
               StageFails, StageError, Fault
<1>18. CASE CreateArchive
  BY <1>18 DEF CreateArchive, Proceed, StageFails, StageError, Fault
<1>19. CASE DumpArchive
  BY <1>19 DEF DumpArchive, StageDone, StageFails, StageError, Fault
<1>20. CASE ApplyPostData
  BY <1>20 DEF ApplyPostData, StageDone, StageFails, StageError, Fault
<1>21. CASE RepairSequencesReturns
  BY <1>21 DEF RepairSequencesReturns, AllRepaired, StageDone, StageFails, StageError, Fault
<1>22. CASE Finish
  BY <1>22 DEF Finish, StagesError
<1>23. ASSUME NEW t \in Tables, CopyTable(t) PROVE OpenByStage'
  BY <1>23 DEF CopyTable, Copy!CommitItem
<1>24. ASSUME NEW s \in Seqs, RepairSequence(s) PROVE OpenByStage'
  BY <1>24 DEF RepairSequence
<1>25. ASSUME NEW i \in 1..3, Release(i) PROVE OpenByStage'
  BY <1>25 DEF Release, ReleaseOrder, Fault, Join
<1>26. CASE UNCHANGED vars
  BY <1>26 DEF vars
<1>27. QED
  BY StepCases, <1>1, <1>2, <1>3, <1>4, <1>5, <1>6, <1>7, <1>8, <1>9, <1>10, <1>11, <1>12,
     <1>13, <1>14, <1>15, <1>16, <1>17, <1>18, <1>19, <1>20, <1>21, <1>22, <1>23, <1>24,
     <1>25, <1>26


(* Nothing is destroyed before the checks. *)
LEMMA ChecksStep ==
  ASSUME TypeOK, ChecksFirst, [Next]_vars
  PROVE  ChecksFirst'
<1> USE FollowingStages DEF TypeOK, ServerTypes, RunTypes, ResourceTypes, ChecksFirst, Touched
<1>1. CASE CancelRun
  BY <1>1 DEF CancelRun, Fault
<1>2. CASE ForeignSession
  BY <1>2 DEF ForeignSession, Fault
<1>3. CASE Crash
  BY <1>3 DEF Crash, Fault
<1>4. CASE Rerun
  BY <1>4 DEF Rerun
<1>5. CASE Start
  BY <1>5 DEF Start
<1>6. CASE Enter
  BY <1>6 DEF Enter, ContextErr
<1>7. CASE ConnectSnapshot
  BY <1>7 DEF ConnectSnapshot, Proceed, StageFails, StageError, Fault
<1>8. CASE ExportSnapshot
  BY <1>8 DEF ExportSnapshot, StageDone, OpenAfterExport, OpenAfterFailedExport, StageFails,
              StageError, Fault
<1>9. CASE DumpPreData
  BY <1>9 DEF DumpPreData, StageDone, StageFails, StageError, Fault
<1>10. CASE CheckExtensions
  BY <1>10 DEF CheckExtensions, ExtensionsAvailable, Refused, StageDone, StageFails, StageError,
               Fault
<1>11. CASE ConnectMaintenance
  BY <1>11 DEF ConnectMaintenance, Proceed, StageFails, StageError, Fault
<1>12. CASE TerminateSessions
  BY <1>12 DEF TerminateSessions, Proceed, StageFails, StageError, Fault
<1>13. CASE DropDatabase
  BY <1>13 DEF DropDatabase, DropAccepted, Dropped, Present, Refused, Proceed, StageFails,
               StageError, Fault
<1>14. CASE CreateDatabase
  BY <1>14 DEF CreateDatabase, StageDone, StageFails, StageError, Fault
<1>15. CASE ConnectTarget
  BY <1>15 DEF ConnectTarget, StageDone, StageFails, StageError, Fault
<1>16. CASE ApplyPreData
  BY <1>16 DEF ApplyPreData, StageDone, StageFails, StageError, Fault
<1>17. CASE CopyTablesReturns
  BY <1>17 DEF CopyTablesReturns, Copy!Return, Copy!MayReturn, Copy!Outcomes, StageDone,
               StageFails, StageError, Fault
<1>18. CASE CreateArchive
  BY <1>18 DEF CreateArchive, Proceed, StageFails, StageError, Fault
<1>19. CASE DumpArchive
  BY <1>19 DEF DumpArchive, StageDone, StageFails, StageError, Fault
<1>20. CASE ApplyPostData
  BY <1>20 DEF ApplyPostData, StageDone, StageFails, StageError, Fault
<1>21. CASE RepairSequencesReturns
  BY <1>21 DEF RepairSequencesReturns, AllRepaired, StageDone, StageFails, StageError, Fault
<1>22. CASE Finish
  BY <1>22 DEF Finish, StagesError
<1>23. ASSUME NEW t \in Tables, CopyTable(t) PROVE ChecksFirst'
  BY <1>23 DEF CopyTable, Copy!CommitItem
<1>24. ASSUME NEW s \in Seqs, RepairSequence(s) PROVE ChecksFirst'
  BY <1>24 DEF RepairSequence
<1>25. ASSUME NEW i \in 1..3, Release(i) PROVE ChecksFirst'
  BY <1>25 DEF Release, ReleaseOrder, Fault, Join
<1>26. CASE UNCHANGED vars
  BY <1>26 DEF vars
<1>27. QED
  BY StepCases, <1>1, <1>2, <1>3, <1>4, <1>5, <1>6, <1>7, <1>8, <1>9, <1>10, <1>11, <1>12,
     <1>13, <1>14, <1>15, <1>16, <1>17, <1>18, <1>19, <1>20, <1>21, <1>22, <1>23, <1>24,
     <1>25, <1>26


(* Rows, then constraints, then sequences. *)
LEMMA PhasesStep ==
  ASSUME TypeOK, TargetByStage, PhasesInOrder, [Next]_vars
  PROVE  PhasesInOrder'
<1> USE FollowingStages DEF TypeOK, ServerTypes, RunTypes, ResourceTypes, TargetByStage,
                            PhasesInOrder, Fresh
<1>1. CASE CancelRun
  BY <1>1 DEF CancelRun, Fault
<1>2. CASE ForeignSession
  BY <1>2 DEF ForeignSession, Fault
<1>3. CASE Crash
  BY <1>3 DEF Crash, Fault
<1>4. CASE Rerun
  BY <1>4 DEF Rerun
<1>5. CASE Start
  BY <1>5 DEF Start
<1>6. CASE Enter
  BY <1>6 DEF Enter, ContextErr
<1>7. CASE ConnectSnapshot
  BY <1>7 DEF ConnectSnapshot, Proceed, StageFails, StageError, Fault
<1>8. CASE ExportSnapshot
  BY <1>8 DEF ExportSnapshot, StageDone, OpenAfterExport, OpenAfterFailedExport, StageFails,
              StageError, Fault
<1>9. CASE DumpPreData
  BY <1>9 DEF DumpPreData, StageDone, StageFails, StageError, Fault
<1>10. CASE CheckExtensions
  BY <1>10 DEF CheckExtensions, ExtensionsAvailable, Refused, StageDone, StageFails, StageError,
               Fault
<1>11. CASE ConnectMaintenance
  BY <1>11 DEF ConnectMaintenance, Proceed, StageFails, StageError, Fault
<1>12. CASE TerminateSessions
  BY <1>12 DEF TerminateSessions, Proceed, StageFails, StageError, Fault
<1>13. CASE DropDatabase
  BY <1>13 DEF DropDatabase, DropAccepted, Dropped, Present, Refused, Proceed, StageFails,
               StageError, Fault
<1>14. CASE CreateDatabase
  BY <1>14 DEF CreateDatabase, StageDone, StageFails, StageError, Fault
<1>15. CASE ConnectTarget
  BY <1>15 DEF ConnectTarget, StageDone, StageFails, StageError, Fault
<1>16. CASE ApplyPreData
  BY <1>16 DEF ApplyPreData, StageDone, StageFails, StageError, Fault
<1>17. CASE CopyTablesReturns
  BY <1>17 DEF CopyTablesReturns, Copy!Return, Copy!MayReturn, Copy!Outcomes, StageDone,
               StageFails, StageError, Fault
<1>18. CASE CreateArchive
  BY <1>18 DEF CreateArchive, Proceed, StageFails, StageError, Fault
<1>19. CASE DumpArchive
  BY <1>19 DEF DumpArchive, StageDone, StageFails, StageError, Fault
<1>20. CASE ApplyPostData
  BY <1>20 DEF ApplyPostData, StageDone, StageFails, StageError, Fault
<1>21. CASE RepairSequencesReturns
  BY <1>21 DEF RepairSequencesReturns, AllRepaired, StageDone, StageFails, StageError, Fault
<1>22. CASE Finish
  BY <1>22 DEF Finish, StagesError
<1>23. ASSUME NEW t \in Tables, CopyTable(t) PROVE PhasesInOrder'
  BY <1>23 DEF CopyTable, Copy!CommitItem
<1>24. ASSUME NEW s \in Seqs, RepairSequence(s) PROVE PhasesInOrder'
  BY <1>24 DEF RepairSequence
<1>25. ASSUME NEW i \in 1..3, Release(i) PROVE PhasesInOrder'
  BY <1>25 DEF Release, ReleaseOrder, Fault, Join
<1>26. CASE UNCHANGED vars
  BY <1>26 DEF vars
<1>27. QED
  BY StepCases, <1>1, <1>2, <1>3, <1>4, <1>5, <1>6, <1>7, <1>8, <1>9, <1>10, <1>11, <1>12,
     <1>13, <1>14, <1>15, <1>16, <1>17, <1>18, <1>19, <1>20, <1>21, <1>22, <1>23, <1>24,
     <1>25, <1>26


(* Success is reported at the end only. *)
LEMMA SuccessStep ==
  ASSUME TypeOK, TargetByStage, SuccessMeansComplete, [Next]_vars
  PROVE  SuccessMeansComplete'
<1> USE FollowingStages DEF TypeOK, ServerTypes, RunTypes, ResourceTypes, TargetByStage,
                            SuccessMeansComplete, IsComplete
<1>1. CASE CancelRun
  BY <1>1 DEF CancelRun, Fault
<1>2. CASE ForeignSession
  BY <1>2 DEF ForeignSession, Fault
<1>3. CASE Crash
  BY <1>3 DEF Crash, Fault
<1>4. CASE Rerun
  BY <1>4 DEF Rerun
<1>5. CASE Start
  BY <1>5 DEF Start
<1>6. CASE Enter
  BY <1>6 DEF Enter, ContextErr
<1>7. CASE ConnectSnapshot
  BY <1>7 DEF ConnectSnapshot, Proceed, StageFails, StageError, Fault
<1>8. CASE ExportSnapshot
  BY <1>8 DEF ExportSnapshot, StageDone, OpenAfterExport, OpenAfterFailedExport, StageFails,
              StageError, Fault
<1>9. CASE DumpPreData
  BY <1>9 DEF DumpPreData, StageDone, StageFails, StageError, Fault
<1>10. CASE CheckExtensions
  BY <1>10 DEF CheckExtensions, ExtensionsAvailable, Refused, StageDone, StageFails, StageError,
               Fault
<1>11. CASE ConnectMaintenance
  BY <1>11 DEF ConnectMaintenance, Proceed, StageFails, StageError, Fault
<1>12. CASE TerminateSessions
  BY <1>12 DEF TerminateSessions, Proceed, StageFails, StageError, Fault
<1>13. CASE DropDatabase
  BY <1>13 DEF DropDatabase, DropAccepted, Dropped, Present, Refused, Proceed, StageFails,
               StageError, Fault
<1>14. CASE CreateDatabase
  BY <1>14 DEF CreateDatabase, StageDone, StageFails, StageError, Fault
<1>15. CASE ConnectTarget
  BY <1>15 DEF ConnectTarget, StageDone, StageFails, StageError, Fault
<1>16. CASE ApplyPreData
  BY <1>16 DEF ApplyPreData, StageDone, StageFails, StageError, Fault
<1>17. CASE CopyTablesReturns
  BY <1>17 DEF CopyTablesReturns, Copy!Return, Copy!MayReturn, Copy!Outcomes, StageDone,
               StageFails, StageError, Fault
<1>18. CASE CreateArchive
  BY <1>18 DEF CreateArchive, Proceed, StageFails, StageError, Fault
<1>19. CASE DumpArchive
  BY <1>19 DEF DumpArchive, StageDone, StageFails, StageError, Fault
<1>20. CASE ApplyPostData
  BY <1>20 DEF ApplyPostData, StageDone, StageFails, StageError, Fault
<1>21. CASE RepairSequencesReturns
  BY <1>21 DEF RepairSequencesReturns, AllRepaired, StageDone, StageFails, StageError, Fault
<1>22. CASE Finish
  BY <1>22 DEF Finish, StagesError
<1>23. ASSUME NEW t \in Tables, CopyTable(t) PROVE SuccessMeansComplete'
  BY <1>23 DEF CopyTable, Copy!CommitItem
<1>24. ASSUME NEW s \in Seqs, RepairSequence(s) PROVE SuccessMeansComplete'
  BY <1>24 DEF RepairSequence
<1>25. ASSUME NEW i \in 1..3, Release(i) PROVE SuccessMeansComplete'
  BY <1>25 DEF Release, ReleaseOrder, Fault, Join
<1>26. CASE UNCHANGED vars
  BY <1>26 DEF vars
<1>27. QED
  BY StepCases, <1>1, <1>2, <1>3, <1>4, <1>5, <1>6, <1>7, <1>8, <1>9, <1>10, <1>11, <1>12,
     <1>13, <1>14, <1>15, <1>16, <1>17, <1>18, <1>19, <1>20, <1>21, <1>22, <1>23, <1>24,
     <1>25, <1>26

-----------------------------------------------------------------------------
(* The state before the first run. *)
LEMMA InvInit == Init => IInv
<1> SUFFICES ASSUME Init PROVE IInv
  OBVIOUS
<1>1. TypeOK
  <2>1. ServerTypes
    BY DEF Init, ServerTypes
  <2>2. RunTypes /\ ResourceTypes
    BY DEF Init, RunTypes, ResourceTypes
  <2>3. faults \in 0..MaxFaults
    BY SyncAssumption DEF Init
  <2>4. QED BY <2>1, <2>2, <2>3 DEF TypeOK
<1>2. TargetByStage /\ OpenByStage /\ ChecksFirst /\ PhasesInOrder /\ SuccessMeansComplete
  BY DEF Init, TargetByStage, OpenByStage, ChecksFirst, PhasesInOrder, SuccessMeansComplete,
     Touched
<1>3. QED BY <1>1, <1>2 DEF IInv

(* Every step keeps the invariant. *)
LEMMA InvStep == IInv /\ [Next]_vars => IInv'
<1> SUFFICES ASSUME IInv, [Next]_vars PROVE IInv'
  OBVIOUS
<1>1. /\ TypeOK /\ TargetByStage /\ OpenByStage /\ ChecksFirst
      /\ PhasesInOrder /\ SuccessMeansComplete
  BY DEF IInv
<1>2. TypeOK'
  BY <1>1, ServerTypesStep, RunTypesStep, ResourceTypesStep, FaultsStep DEF TypeOK
<1>3. QED
  BY <1>1, <1>2, TargetStep, OpenStep, ChecksStep, PhasesStep, SuccessStep DEF IInv

(* Whatever fails, is cancelled or crashes, and however often the command  *)
(* is run again, the target is what the run's place says it is.            *)
THEOREM Invariance == Spec => []IInv
<1>1. QED BY InvInit, InvStep, PTL DEF Spec

(* The types of the run and of the servers (native.go:288-373). *)
THEOREM TypeCorrect == Spec => []TypeOK
<1>1. IInv => TypeOK
  BY DEF IInv
<1>2. QED BY <1>1, Invariance, PTL

(* A run reports success only for a whole target, although CopyTables may  *)
(* return no error when its caller cancelled: runVoidStage looks at the    *)
(* context before the stage that follows (native.go:357-373, 480-492).     *)
THEOREM SuccessIsComplete == Spec => []SuccessMeansComplete
<1>1. IInv => SuccessMeansComplete
  BY DEF IInv
<1>2. QED BY <1>1, Invariance, PTL

(* Constraints are restored over all rows, and sequences repaired after    *)
(* that (native.go:354-372).                                               *)
THEOREM PhasesOrdered == Spec => []PhasesInOrder
<1>1. IInv => PhasesInOrder
  BY DEF IInv
<1>2. QED BY <1>1, Invariance, PTL

(* A run that returns holds no connection and no archive                   *)
(* (native.go:329-331, 350-352, 364, 388-390).                             *)
THEOREM EverythingReleased == Spec => []ReleasesEverything
<1>1. IInv => ReleasesEverything
  BY DEF IInv, OpenByStage, TypeOK, ResourceTypes, ReleasesEverything
<1>2. QED BY <1>1, Invariance, PTL

-----------------------------------------------------------------------------
(* The target and what only the reset and the later stages may change. *)
LEMMA TargetUnchanged ==
  ASSUME [Next]_vars, ~DropDatabase, ~CreateDatabase, ~ApplyPreData, ~ApplyPostData,
         \A t \in Tables : ~CopyTable(t), \A s \in Seqs : ~RepairSequence(s)
  PROVE  UNCHANGED targetVars
<1>1. CASE CancelRun \/ ForeignSession \/ Crash \/ Rerun \/ Start \/ Enter \/ Finish
  BY <1>1 DEF CancelRun, ForeignSession, Crash, Rerun, Start, Enter, Finish
<1>2. CASE ConnectSnapshot \/ ExportSnapshot \/ DumpPreData \/ CheckExtensions
           \/ ConnectMaintenance \/ TerminateSessions \/ ConnectTarget
  BY <1>2 DEF ConnectSnapshot, ExportSnapshot, DumpPreData, CheckExtensions,
     ConnectMaintenance, TerminateSessions, ConnectTarget
<1>3. CASE CopyTablesReturns \/ CreateArchive \/ DumpArchive \/ RepairSequencesReturns
  BY <1>3 DEF CopyTablesReturns, CreateArchive, DumpArchive, RepairSequencesReturns
<1>4. ASSUME NEW i \in 1..3, Release(i) PROVE UNCHANGED targetVars
  BY <1>4 DEF Release
<1>5. CASE UNCHANGED vars
  BY <1>5 DEF vars
<1>6. QED BY StepCases, <1>1, <1>2, <1>3, <1>4, <1>5

(* A run that lacks an extension or only plans changes no target           *)
(* (native.go:310-312, 337-345).                                           *)
THEOREM PreflightSpares == Spec => PreflightSparesTarget
<1>1. ASSUME IInv, [Next]_vars, ~extensions \/ dryRun PROVE UNCHANGED targetVars
  <2>1. at \notin AfterReset \cup {"resetTarget"}
    BY <1>1 DEF IInv, ChecksFirst
  <2>2. QED
    BY <1>1, <2>1, TargetUnchanged
       DEF DropDatabase, CreateDatabase, ApplyPreData, ApplyPostData, CopyTable, RepairSequence
<1>2. QED BY <1>1, Invariance, PTL DEF Spec, PreflightSparesTarget

(* Rows are committed only while the exported snapshot is open             *)
(* (native.go:325-331, 357).                                               *)
THEOREM RowsAreSnapshotRows == Spec => RowsUnderSnapshot
<1>1. ASSUME IInv, [Next]_vars, committed' \ committed # {} PROVE "snapshot" \in open
  <2>1. PICK t \in Tables : CopyTable(t)
    <3>1. ~(committed' \subseteq committed)
      BY <1>1
    <3>2. ~DropDatabase /\ ~CreateDatabase /\ ~ApplyPreData /\ ~ApplyPostData
      BY <3>1 DEF DropDatabase, Dropped, CreateDatabase, ApplyPreData, ApplyPostData
    <3>3. \A s \in Seqs : ~RepairSequence(s)
      BY <3>1 DEF RepairSequence
    <3>4. QED BY <1>1, <3>1, <3>2, <3>3, TargetUnchanged
  <2>2. at = "copyTables"
    BY <2>1 DEF CopyTable
  <2>3. QED BY <1>1, <2>2 DEF IInv, OpenByStage
<1>2. QED BY <1>1, Invariance, PTL DEF Spec, RowsUnderSnapshot

-----------------------------------------------------------------------------
(* The run starts where its contract starts. *)
LEMMA ContractStart == Init => Contract!ContractInit
  BY DEF Init, Contract!ContractInit, TargetState, Touched

(* What a step of a stage may do to the target, for the contract. *)
TargetStepAllowed ==
  \/ UNCHANGED TargetState
  \/ TargetState' = "partial"
  \/ TargetState = "partial" /\ TargetState' = "complete"

(* The stages after the checks build the target and never complete one     *)
(* they have not started.                                                  *)
LEMMA BuildStep ==
  ASSUME IInv, IInv',
         \/ DropDatabase \/ CreateDatabase \/ ApplyPreData \/ ApplyPostData
         \/ (\E t \in Tables : CopyTable(t)) \/ (\E s \in Seqs : RepairSequence(s))
  PROVE  /\ outcome = "running" /\ ~dryRun /\ UNCHANGED <<dryRun, outcome>>
         /\ TargetStepAllowed
<1> USE DEF TargetStepAllowed, TargetState, Touched, IsComplete
<1>1. TypeOK /\ TargetByStage /\ ChecksFirst /\ TypeOK' /\ TargetByStage'
  BY DEF IInv
<1>2. at \in AfterReset \cup {"resetTarget"} /\ UNCHANGED <<dryRun, outcome>>
  BY DEF DropDatabase, CreateDatabase, ApplyPreData, ApplyPostData, CopyTable, RepairSequence,
     Proceed, StageDone, StageFails, StageError, Fault, Refused
<1>3. outcome = "running" /\ ~dryRun
  BY <1>1, <1>2 DEF TypeOK, ResourceTypes, RunTypes, ChecksFirst
<1>4. ASSUME DropDatabase PROVE TargetStepAllowed
  BY <1>4 DEF DropDatabase, Dropped, Present
<1>5. ASSUME CreateDatabase PROVE TargetStepAllowed
  BY <1>1, <1>5 DEF CreateDatabase, TargetByStage, Fresh
<1>6. ASSUME ApplyPreData PROVE TargetStepAllowed
  BY <1>1, <1>6 DEF ApplyPreData, TargetByStage, Fresh
<1>7. ASSUME ApplyPostData PROVE TargetStepAllowed
  BY <1>1, <1>7 DEF ApplyPostData, TargetByStage
<1>8. ASSUME NEW t \in Tables, CopyTable(t) PROVE TargetStepAllowed
  BY <1>1, <1>8 DEF CopyTable, TargetByStage
<1>9. ASSUME NEW s \in Seqs, RepairSequence(s) PROVE TargetStepAllowed
  BY <1>1, <1>9 DEF RepairSequence, TargetByStage
<1>10. QED BY <1>2, <1>3, <1>4, <1>5, <1>6, <1>7, <1>8, <1>9

(* The target is in one of three states, and complete after success. *)
LEMMA ReportedState ==
  ASSUME IInv
  PROVE  /\ TargetState \in {"untouched", "partial", "complete"}
         /\ IsComplete => TargetState = "complete"
         /\ dryRun => TargetState = "untouched"
  BY DEF IInv, ChecksFirst, TargetState, Touched, IsComplete

(* A step of the run is a step of its contract or none. *)
LEMMA ContractStep ==
  IInv /\ IInv' /\ [Next]_vars => [Contract!ContractNext]_Contract!contractVars
<1> SUFFICES ASSUME IInv, IInv', [Next]_vars
             PROVE  Contract!ContractNext \/ UNCHANGED <<dryRun, TargetState, outcome>>
  BY DEF Contract!contractVars
<1> USE DEF Contract!ContractNext
<1>1. CASE \/ DropDatabase \/ CreateDatabase \/ ApplyPreData \/ ApplyPostData
           \/ (\E t \in Tables : CopyTable(t)) \/ (\E s \in Seqs : RepairSequence(s))
  <2>1. /\ outcome = "running" /\ ~dryRun /\ UNCHANGED <<dryRun, outcome>>
        /\ TargetStepAllowed
    BY <1>1, BuildStep
  <2>2. QED BY <2>1 DEF TargetStepAllowed, Contract!Rebuild, Contract!Complete
<1>2. CASE UNCHANGED targetVars
  <2>1. UNCHANGED TargetState
    BY <1>2 DEF TargetState, Touched, IsComplete
  <2>2. CASE Crash
    <3>1. Contract!Report("crashed")
      BY <2>1, <2>2 DEF Crash, Contract!Report
    <3>2. QED BY <3>1
  <2>3. CASE Rerun
    BY <2>1, <2>3 DEF Rerun, Contract!Restart
  <2>4. CASE Start
    <3>1. CASE dryRun
      <4>1. TargetState = "untouched" /\ outcome = "running"
        BY <2>4, <3>1, ReportedState DEF IInv, TypeOK, ResourceTypes, Start
      <4>2. Contract!Report("nil")
        BY <2>1, <2>4, <3>1, <4>1 DEF Start, Contract!Report, Contract!Outcomes
      <4>3. QED BY <4>2 DEF Contract!Outcomes
    <3>2. CASE ~dryRun
      BY <2>1, <2>4, <3>2 DEF Start
    <3>3. QED BY <3>1, <3>2
  <2>5. CASE Finish
    <3>1. err \in Outcomes /\ outcome = "running"
      BY <2>5 DEF IInv, TypeOK, RunTypes, ResourceTypes, Finish
    <3>2. err = "nil" => TargetState = "complete" /\ ~dryRun
      BY <2>5, ReportedState DEF IInv, TargetByStage, Finish
    <3>3. Contract!Report(err)
      BY <2>1, <2>5, <3>1, <3>2 DEF Finish, StagesError, Contract!Report, Contract!Outcomes
    <3>4. QED BY <3>1, <3>3 DEF Contract!Outcomes
  <2>6. CASE ~Crash /\ ~Rerun /\ ~Start /\ ~Finish
    <3>1. UNCHANGED <<dryRun, outcome>>
      <4>1. CASE CancelRun \/ ForeignSession \/ Enter \/ ConnectSnapshot \/ ExportSnapshot
                 \/ DumpPreData \/ CheckExtensions \/ ConnectMaintenance \/ TerminateSessions
        BY <4>1 DEF CancelRun, ForeignSession, Enter, ConnectSnapshot, ExportSnapshot,
           DumpPreData, CheckExtensions, ConnectMaintenance, TerminateSessions,
           Proceed, StageDone, StageFails, StageError, Fault, Refused
      <4>2. CASE ConnectTarget \/ CopyTablesReturns \/ CreateArchive \/ DumpArchive
                 \/ RepairSequencesReturns
        BY <4>2 DEF ConnectTarget, CopyTablesReturns, CreateArchive, DumpArchive,
           RepairSequencesReturns, Proceed, StageDone, StageFails, StageError, Fault
      <4>3. ASSUME NEW i \in 1..3, Release(i) PROVE UNCHANGED <<dryRun, outcome>>
        BY <4>3 DEF Release
      <4>4. CASE \/ DropDatabase \/ CreateDatabase \/ ApplyPreData \/ ApplyPostData
                 \/ (\E t \in Tables : CopyTable(t)) \/ (\E s \in Seqs : RepairSequence(s))
        BY <4>4, BuildStep
      <4>5. CASE UNCHANGED vars
        BY <4>5 DEF vars
      <4>6. QED BY StepCases, <2>6, <4>1, <4>2, <4>3, <4>4, <4>5
    <3>2. QED BY <2>1, <3>1
  <2>7. QED BY <2>2, <2>3, <2>4, <2>5, <2>6
<1>3. QED BY <1>1, <1>2, TargetUnchanged

(* Execute implements SyncContract over any number of runs: no error means *)
(* a whole copy, a dry run touches nothing, and a failed run may be        *)
(* started again (native.go:142-157, 308-373).                             *)
THEOREM RunKeepsContract == Spec => KeepsContract
<1>1. QED
  BY Invariance, ContractStart, ContractStep, PTL
     DEF Spec, KeepsContract, Contract!ContractSpec
=============================================================================
