--------------------------- MODULE PostDataRestore --------------------------
(***************************************************************************)
(* The apply-post-data stage: internal/engine/native/schema.go, DumpArchive *)
(* and ArchiveRestorer.Restore.  pg_restore runs up to `jobs` workers, each *)
(* adding one foreign key; the server locks the referencing table first    *)
(* and the referenced one second, and keeps both until the statement       *)
(* commits.  Foreign keys that point at each other can then wait for each  *)
(* other, which the server ends with "deadlock detected", and the error    *)
(* aborts the restore.                                                     *)
(*                                                                         *)
(* pg_restore keeps two workers off one table by the TABLE entries of the  *)
(* archive it reads, so what DumpArchive puts into the archive decides.    *)
(***************************************************************************)
EXTENDS NativeCommon, FiniteSets

CONSTANTS
  Tables,        \* the tables of the source schema
  ForeignKeys,   \* its foreign keys
  From,          \* the table each of them is on
  To,            \* the table it references
  Threads        \* plan.Threads

ASSUME RestoreAssumption ==
  /\ From \in [ForeignKeys -> Tables]
  /\ To \in [ForeignKeys -> Tables]
  /\ Threads \in Int

VARIABLES
  pending,   \* foreign keys no worker has started on
  locked,    \* the tables the statement of each foreign key has locked
  added,     \* foreign keys that are committed
  aborted    \* an error has ended the restore

vars == <<pending, locked, added, aborted>>

TablesOf(f) == {From[f], To[f]}

(* The foreign keys a worker is at. *)
Active == ForeignKeys \ (pending \cup added)

(* Mutant: an archive cut to what the stage restores. *)
PostDataOnly == {"postData"}

(* The sections pg_dump writes: DumpArchive passes no --section.  Restore  *)
(* then picks the post-data of the archive.  The TABLE entries are         *)
(* pre-data.                                                               *)
ArchiveSections == {"preData", "postData"}
HasTableEntries == "preData" \in ArchiveSections

TypeOK ==
  /\ pending \subseteq ForeignKeys
  /\ added \subseteq ForeignKeys
  /\ locked \in [ForeignKeys -> SUBSET Tables]
  /\ aborted \in BOOLEAN
  /\ \A f \in ForeignKeys : f \notin Active \/ aborted => locked[f] = {}

Init ==
  /\ pending = ForeignKeys
  /\ locked = [f \in ForeignKeys |-> {}]
  /\ added = {}
  /\ aborted = FALSE

(* pg_restore hands f to a free worker.  With TABLE entries it knows the   *)
(* tables of every item and holds back one that shares a table with an     *)
(* item in progress.                                                       *)
Start(f) ==
  /\ ~aborted
  /\ f \in pending
  /\ Cardinality(Active) < workerCount(Threads)
  /\ HasTableEntries => \A g \in Active : TablesOf(f) \cap TablesOf(g) = {}
  /\ pending' = pending \ {f}
  /\ UNCHANGED <<locked, added, aborted>>

(* The table f's ALTER TABLE needs next. *)
Wants(f) == IF From[f] \in locked[f] THEN To[f] ELSE From[f]

IsFree(t, f) == \A g \in ForeignKeys \ {f} : t \notin locked[g]

Lock(f) ==
  /\ ~aborted
  /\ f \in Active
  /\ Wants(f) \notin locked[f]
  /\ IsFree(Wants(f), f)
  /\ locked' = [locked EXCEPT ![f] = @ \cup {Wants(f)}]
  /\ UNCHANGED <<pending, added, aborted>>

Commit(f) ==
  /\ ~aborted
  /\ f \in Active
  /\ TablesOf(f) \subseteq locked[f]
  /\ added' = added \cup {f}
  /\ locked' = [locked EXCEPT ![f] = {}]
  /\ UNCHANGED <<pending, aborted>>

LocksAfterAbort(f) == {}

(* The rows violate the constraint, or the connection is lost.  With       *)
(* --exit-on-error the first error ends every worker.                      *)
Abort ==
  /\ ~aborted
  /\ Active # {}
  /\ aborted' = TRUE
  /\ locked' = [f \in ForeignKeys |-> LocksAfterAbort(f)]
  /\ UNCHANGED <<pending, added>>

Ended == (aborted \/ added = ForeignKeys) /\ UNCHANGED vars

Restore(f) == Start(f) \/ Lock(f) \/ Commit(f)

Next ==
  \/ \E f \in ForeignKeys : Restore(f)
  \/ Abort
  \/ Ended

Spec == Init /\ [][Next]_vars

-----------------------------------------------------------------------------
(* f waits for a lock that g's statement holds. *)
WaitsFor(f, g) ==
  /\ f \in Active /\ g \in Active \ {f}
  /\ Wants(f) \in locked[g] \ locked[f]

(* The statements of S wait for each other in a circle. *)
IsDeadlock(S) == S # {} /\ \A f \in S : \E g \in S : WaitsFor(f, g)

(* No two ALTER TABLE statements of the restore ever end in "deadlock      *)
(* detected", cycles of foreign keys included.                             *)
NoDeadlock == \A S \in SUBSET Active : ~IsDeadlock(S)

(* Two foreign keys in progress never share a table. *)
WorkersApart ==
  \A f, g \in Active : f # g => TablesOf(f) \cap TablesOf(g) = {}
=============================================================================
