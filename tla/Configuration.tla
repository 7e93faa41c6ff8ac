--------------------------- MODULE Configuration ---------------------------
(***************************************************************************)
(* The configuration file and the programs that share it: config/store.go  *)
(* (Save, Load), cli/config.go, the loop of cmd/pgsync/tui_runner.go, and  *)
(* runSync and Resolve of cli, which read it.                              *)
(*                                                                         *)
(* Save writes path.tmp and renames it, whoever saves, so two processes    *)
(* that save write one file.  A file is an inode: a process that has       *)
(* path.tmp open goes on writing it after another has given it the name    *)
(* of the configuration.                                                   *)
(*                                                                         *)
(* A process can be killed and the machine can lose power; the file system *)
(* keeps a name it has given, and of a file that was not synced it keeps   *)
(* any part.  What is left of a file may still decode: TOML has no end.    *)
(***************************************************************************)
EXTENDS ConfigSources, Faults, FiniteSets

CONSTANTS
  Procs,
  Handwritten,    \* the files a user may have written before
  Fragments,      \* what a file that is not whole may decode to
  Environments,   \* the environments of the processes
  FlagSets,       \* the flags a command may get
  Arguments,      \* the arguments a sync may get
  Edits,          \* what a user may fill in in the form
  MaxEditors,     \* bounds on the programs of each kind, and on the forms
  MaxSyncs,       \* filled in
  MaxForms

ASSUME ConfigurationAssumption ==
  /\ IsFiniteSet(Procs)
  /\ \A c \in Handwritten \cup Fragments \cup FlagSets \cup Edits : IsConfig(c)
  /\ \A e \in Environments : IsEnvironment(e)
  /\ Arguments \subseteq SUBSET DBNames

VARIABLES
  disk,      \* the inodes named path and tmp; 0 is none
  inodes,    \* what each holds, and whether it is synced
  env,       \* the environment
  procs,     \* the programs, by process
  started,   \* programs started, by kind, and forms
  killed,    \* history: a save was killed
  suspect    \* history: a hand wrote the file badly or two saves overlapped,
             \* and no lone save came after

configVars == <<disk, inodes, env, procs, started, faults, killed, suspect>>

(* A process has one inode open at most, path and tmp name one each.  One  *)
(* without a name that nobody has open is gone.                            *)
Inodes == 1..(Cardinality(Procs) + 2)
Live == ({disk["path"], disk["tmp"]} \cup {procs[p].fd : p \in Procs}) \ {0}
Kept == inodes' = [i \in Live' |-> inodes[i]]
Changed(i, inode) == inodes' = [j \in Live' |-> IF j = i THEN inode ELSE inodes[j]]

(* The bytes of a file, by what they decode to.  Torn is what is left when *)
(* lines are missing or two saves ran together: a part of a configuration  *)
(* or of two, with a number cut short perhaps, or nothing that decodes.    *)
Whole(c) == [kind |-> "whole", cfg |-> c]
Empty == [kind |-> "empty", cfg |-> Nothing]
Malformed == [kind |-> "malformed", cfg |-> Nothing]
Absent == [kind |-> "absent", cfg |-> Nothing]
Torn == {[kind |-> "part", cfg |-> c] : c \in Fragments} \cup {Malformed}

DataAt(name) == IF disk[name] = 0 THEN Absent ELSE inodes[disk[name]].data

\*   pc      where the program is       mode    "sync", "app", "edit", "reset"
\*   cfg     the configuration it has   base    the file it read or wrote last
\*   fd      the inode it has open      alone   no other save overlaps its own
\*   edited  the settings changed in the form
\*   flags, args   of the command line
Idle == [pc |-> "idle", mode |-> "sync", cfg |-> Nothing, base |-> Absent, fd |-> 0,
         alone |-> FALSE, edited |-> {}, flags |-> Nothing, args |-> {}]

SavingPcs == {"write", "sync", "rename"}
Pcs == {"idle", "load", "form", "session", "open", "remove", "ask", "ready"} \cup SavingPcs
Saving(p) == procs[p].pc \in SavingPcs
HasTmp(p) == Saving(p) \/ procs[p].pc = "remove"

IsData(d) ==
  /\ d.kind \in {"whole", "part", "empty", "malformed", "absent"} /\ IsConfig(d.cfg)
  /\ d.kind \notin {"whole", "part"} => d.cfg = Nothing

ConfigTypeOK ==
  /\ disk \in [{"path", "tmp"} -> Inodes \cup {0}]
  /\ Live \subseteq Inodes /\ DOMAIN inodes = Live
  /\ \A i \in Live : IsData(inodes[i].data) /\ inodes[i].synced \in BOOLEAN
  /\ \A p \in Procs :
       LET r == procs[p] IN
       /\ r.pc \in Pcs /\ r.mode \in {"sync", "app", "edit", "reset"}
       /\ IsConfig(r.cfg) /\ IsData(r.base) /\ r.fd \in Inodes \cup {0}
       /\ r.alone \in BOOLEAN /\ r.edited \subseteq Settings
       /\ IsConfig(r.flags) /\ r.args \subseteq DBNames
       /\ r.fd # 0 <=> Saving(p)
  /\ started \in [{"editors", "syncs", "forms"} -> Nat]
  /\ killed \in BOOLEAN /\ suspect \in BOOLEAN

ConfigInit ==
  /\ \E file \in {Absent} \cup Torn \cup {Whole(c) : c \in Handwritten} :
       /\ disk = [name \in {"path", "tmp"} |-> IF name = "path" /\ file # Absent THEN 1 ELSE 0]
       /\ inodes = [i \in IF file = Absent THEN {} ELSE {1} |-> [data |-> file, synced |-> TRUE]]
       /\ suspect = (file \in Torn)
  /\ env \in Environments
  /\ procs = [p \in Procs |-> Idle]
  /\ started = [editors |-> 0, syncs |-> 0, forms |-> 0] /\ faults = 0 /\ killed = FALSE

At(p, pc) == procs[p].pc = pc
Becomes(p, r) == procs' = [procs EXCEPT ![p] = r]
Goes(p, pc) == Becomes(p, [procs[p] EXCEPT !.pc = pc])

Most == [editors |-> MaxEditors, syncs |-> MaxSyncs, forms |-> MaxForms]
Count(kind) == started[kind] < Most[kind] /\ started' = [started EXCEPT ![kind] = @ + 1]
Start(p, kind, r) == At(p, "idle") /\ Count(kind) /\ Becomes(p, r)

-----------------------------------------------------------------------------
(* Load: a file that is cut at the end of a line is one that says less,    *)
(* and an empty one says nothing; both load without an error.              *)
LoadFails(data) == data.kind \in {"absent", "malformed"}
Loaded(data) == data.cfg

-----------------------------------------------------------------------------
(* Save *)

(* O_CREATE and O_TRUNC *)
OpenTmp(p) ==
  /\ At(p, "open")
  /\ LET i == IF disk["tmp"] # 0 THEN disk["tmp"] ELSE CHOOSE j \in Inodes : j \notin Live
         others == {q \in Procs \ {p} : Saving(q)} IN
     /\ disk' = [disk EXCEPT !["tmp"] = i]
     /\ procs' = [q \in Procs |->
          IF q = p THEN [procs[p] EXCEPT !.pc = "write", !.fd = i, !.alone = (others = {})]
          ELSE [procs[q] EXCEPT !.alone = @ /\ q \notin others]]
     /\ Changed(i, [data |-> Empty, synced |-> FALSE])
     /\ suspect' = (suspect \/ others # {})
  /\ UNCHANGED <<env, started, faults, killed>>

Encoded(p) == procs[p].cfg

(* The encoder writes once.  Over the bytes of another save it leaves the  *)
(* end of the longer one, which adds nothing to it or makes it malformed.  *)
WriteTmp(p) ==
  /\ At(p, "write")
  /\ Goes(p, "sync") /\ UNCHANGED disk
  /\ \E data \in {Whole(Encoded(p))}
                   \cup (IF inodes[procs[p].fd].data = Empty THEN {} ELSE {Malformed}) :
       Changed(procs[p].fd, [data |-> data, synced |-> FALSE])
  /\ UNCHANGED <<env, started, faults, killed, suspect>>

(* Mutant: nothing is flushed. *)
NoFlush(p) == [inodes[procs[p].fd] EXCEPT !.synced = @]

Flushed(p) == [inodes[procs[p].fd] EXCEPT !.synced = TRUE]

SyncTmp(p) ==
  /\ At(p, "sync")
  /\ Goes(p, "rename") /\ UNCHANGED disk
  /\ Changed(procs[p].fd, Flushed(p))
  /\ UNCHANGED <<env, started, faults, killed, suspect>>

(* Close and rename.  The settings form of the application goes back to    *)
(* it; any other program ends.                                             *)
AfterSave(p) ==
  IF procs[p].mode = "app"
  THEN [procs[p] EXCEPT !.pc = "session", !.fd = 0, !.alone = FALSE, !.edited = {},
                        !.base = Whole(procs[p].cfg)]
  ELSE Idle

RenameTmp(p) ==
  /\ At(p, "rename") /\ disk["tmp"] # 0
  /\ disk' = [path |-> disk["tmp"], tmp |-> 0]
  /\ Becomes(p, AfterSave(p)) /\ Kept
  /\ suspect' = (suspect /\ ~procs[p].alone)
  /\ UNCHANGED <<env, started, faults, killed>>

Failing == [Idle EXCEPT !.pc = "remove"]

(* A call of Save fails: part of the bytes may be written.  The file is    *)
(* closed, then removed.                                                   *)
SaveFails(p) ==
  /\ Saving(p) /\ Fault
  /\ Becomes(p, Failing) /\ UNCHANGED disk
  /\ \/ Kept
     \/ At(p, "write") /\ \E data \in Torn : Changed(procs[p].fd, [data |-> data, synced |-> FALSE])
  /\ UNCHANGED <<env, started, killed, suspect>>

(* Another save has renamed or removed path.tmp. *)
RenameMisses(p) ==
  /\ At(p, "rename") /\ disk["tmp"] = 0
  /\ Becomes(p, Failing) /\ UNCHANGED disk /\ Kept
  /\ UNCHANGED <<env, started, faults, killed, suspect>>

RemoveTmp == [disk EXCEPT !["tmp"] = 0]

(* Remove, whose file path.tmp may be by now.  The error ends the program. *)
CleanUp(p) ==
  /\ At(p, "remove")
  /\ disk' = RemoveTmp /\ Becomes(p, Idle) /\ Kept
  /\ UNCHANGED <<env, started, faults, killed, suspect>>

OpenFails(p) ==
  /\ At(p, "open") /\ Fault
  /\ Becomes(p, Idle)
  /\ UNCHANGED <<disk, inodes, env, started, killed, suspect>>

-----------------------------------------------------------------------------
(* The programs that save: pgsync (the application), pgsync config and     *)
(* pgsync config reset, which removes the file, if it can, before it asks. *)

StartEditor(p) ==
  /\ \E mode \in {"app", "edit"} : Start(p, "editors", [Idle EXCEPT !.pc = "load", !.mode = mode])
  /\ UNCHANGED <<disk, inodes, env, faults, killed, suspect>>

StartReset(p) ==
  /\ Start(p, "editors", [Idle EXCEPT !.pc = "load", !.mode = "reset"])
  /\ \/ disk' = [disk EXCEPT !["path"] = 0] /\ UNCHANGED faults
     \/ UNCHANGED disk /\ Fault
  /\ Kept /\ UNCHANGED <<env, killed, suspect>>

(* loadTUIConfig: whatever is wrong with the file or the environment, the  *)
(* form opens on what is left.                                             *)
LoadEditor(p) ==
  /\ At(p, "load")
  /\ LET data == DataAt("path")
         file == FromFileTui(Loaded(data))
         found == IF EnvParses(env) THEN ApplyEnv(file, env) ELSE file
         cfg == IF procs[p].mode = "reset" THEN Defaults ELSE found
         needsConfig ==
           procs[p].mode # "app" \/ LoadFails(data) \/ ~EnvParses(env) \/ ~Valid(cfg) IN
     Becomes(p, [procs[p] EXCEPT !.pc = IF needsConfig THEN "form" ELSE "session",
                                 !.cfg = cfg, !.base = data])
  /\ UNCHANGED <<disk, inodes, env, started, faults, killed, suspect>>

(* The form lets no invalid value through, so Validate accepts what it     *)
(* returns.                                                                *)
FillForm(p) ==
  /\ At(p, "form") /\ Count("forms")
  /\ \E edit \in Edits :
       /\ Valid(Over(edit, procs[p].cfg))
       /\ Becomes(p, [procs[p] EXCEPT !.pc = "open", !.cfg = Over(edit, @), !.edited = DOMAIN edit])
  /\ UNCHANGED <<disk, inodes, env, faults, killed, suspect>>

AbortForm(p) ==
  /\ At(p, "form") /\ Becomes(p, Idle)
  /\ UNCHANGED <<disk, inodes, env, started, faults, killed, suspect>>

(* The application keeps the configuration it has: it does not read the    *)
(* file again.                                                             *)
OpenSettings(p) ==
  /\ At(p, "session") /\ Goes(p, "form")
  /\ UNCHANGED <<disk, inodes, env, started, faults, killed, suspect>>

EndSession(p) ==
  /\ At(p, "session") /\ Becomes(p, Idle)
  /\ UNCHANGED <<disk, inodes, env, started, faults, killed, suspect>>

-----------------------------------------------------------------------------
(* pgsync sync *)

(* A configuration with both databases is validated, one without waits     *)
(* for Infisical.                                                          *)
Checked(r) ==
  IF ~DatabasesNamed(r.cfg) THEN [r EXCEPT !.pc = "ask"]
  ELSE IF Valid(r.cfg) /\ ValidPlan(r.cfg, r.args) THEN [r EXCEPT !.pc = "ready"] ELSE Idle

Resolve(p) ==
  /\ \E flags \in FlagSets, args \in Arguments :
       LET data == DataAt("path")
           given == ApplyPositional(flags, args)
           cfg == Layered(Loaded(data), env, given)
           refused == ~EnvParses(env) \/ (LoadFails(data) /\ ~HostsProvided(env, given)) IN
       Start(p, "syncs",
             IF refused THEN Idle
             ELSE Checked([Idle EXCEPT !.cfg = cfg, !.base = data,
                                       !.flags = flags, !.args = args]))
  /\ UNCHANGED <<disk, inodes, env, faults, killed, suspect>>

(* ResolveDBName: the project's Infisical workspace has a name, or the     *)
(* command ends with an error.                                             *)
AskInfisical(p) ==
  /\ At(p, "ask")
  /\ \/ \E name \in DBNames :
          Becomes(p, Checked([procs[p] EXCEPT !.cfg = FillDatabases(@, name)]))
     \/ Becomes(p, Idle)
  /\ UNCHANGED <<disk, inodes, env, started, faults, killed, suspect>>

(* Plan and Execute do not look at the file again. *)
SyncEnds(p) ==
  /\ At(p, "ready") /\ Becomes(p, Idle)
  /\ UNCHANGED <<disk, inodes, env, started, faults, killed, suspect>>

-----------------------------------------------------------------------------
(* Killed elsewhere, a program ends as when the user leaves it.            *)
Kill(p) ==
  /\ HasTmp(p) /\ Fault
  /\ Becomes(p, Idle) /\ UNCHANGED disk /\ Kept
  /\ killed' = TRUE
  /\ UNCHANGED <<env, started, suspect>>

Remains(inode) ==
  IF inode.synced \/ inode.data = Empty THEN {inode.data} ELSE {inode.data, Empty} \cup Torn

PowerLoss ==
  /\ Fault
  /\ procs' = [p \in Procs |-> Idle] /\ UNCHANGED disk
  /\ \E data \in [Live' -> UNION {Remains(inodes[i]) : i \in Live'}] :
       /\ \A i \in Live' : data[i] \in Remains(inodes[i])
       /\ inodes' = [i \in Live' |-> [data |-> data[i], synced |-> TRUE]]
  /\ killed' = (killed \/ \E p \in Procs : HasTmp(p))
  /\ UNCHANGED <<env, started, suspect>>

Finished ==
  /\ \A p \in Procs : At(p, "idle")
  /\ started.editors = MaxEditors /\ started.syncs = MaxSyncs
  /\ UNCHANGED configVars

Save(p) ==
  \/ OpenTmp(p) \/ WriteTmp(p) \/ SyncTmp(p) \/ RenameTmp(p)
  \/ SaveFails(p) \/ RenameMisses(p) \/ CleanUp(p) \/ OpenFails(p)

Edit(p) ==
  \/ StartEditor(p) \/ StartReset(p) \/ LoadEditor(p) \/ FillForm(p) \/ AbortForm(p)
  \/ OpenSettings(p) \/ EndSession(p)

Sync(p) == Resolve(p) \/ AskInfisical(p) \/ SyncEnds(p)

ConfigNext ==
  \/ \E p \in Procs : Save(p) \/ Edit(p) \/ Sync(p) \/ Kill(p)
  \/ PowerLoss
  \/ Finished

ConfigSpec == ConfigInit /\ [][ConfigNext]_configVars

-----------------------------------------------------------------------------
(* The file is a whole configuration, whatever was killed or lost power,   *)
(* as long as no two saves overlap; and a save that is alone heals what    *)
(* two that were not have left.                                            *)
WholeUnlessSuspect == disk["path"] # 0 /\ ~suspect => DataAt("path").kind = "whole"

(* What was not edited, and is not what the environment said, survives:    *)
(* the local database, which the form does not show, among it.             *)
KeepsUntouched(p) ==
  LET base == procs[p].base
      spared == Settings \ (procs[p].edited \cup DOMAIN env) IN
  procs[p].mode # "reset" /\ DataAt("path") = base /\ base.kind = "whole" =>
    Only(FromFile(DataAt("path").cfg)', spared) = Only(FromFile(base.cfg), spared)

(* A save that no other overlaps and that reports success has put its own  *)
(* configuration there, and has changed nothing else of a file that is     *)
(* still the one it has read.                                              *)
LoneSaveSticks ==
  [][\A p \in Procs : RenameTmp(p) /\ procs[p].alone =>
       /\ DataAt("path")' = Whole(procs[p].cfg)
       /\ KeepsUntouched(p)]_configVars

(* path.tmp outlives its saves only when one was killed. *)
NoLeftovers == disk["tmp"] # 0 /\ ~killed => \E p \in Procs : HasTmp(p)

(* "CLI > env > config > defaults": a sync that starts takes each setting  *)
(* from the highest source that gives it; the argument ranks below the     *)
(* flags, and what the file gives is what it decoded to, if it did, where  *)
(* a switch that is off is not given.                                      *)
HighestSourceWins ==
  \A p \in Procs : At(p, "ready") =>
    LET r == procs[p]
        argument == [s \in {"remoteDatabase", "localDatabase"} |-> r.args]
        sources == <<r.flags, env, NotZero(Loaded(r.base)), Defaults>> IN
    \A s \in Settings :
      LET givers == {k \in DOMAIN sources : Given(sources[k], s)} IN
      IF s \in DOMAIN argument /\ r.args # {} /\ 1 \notin givers THEN r.cfg[s] \in r.args
      ELSE \A k \in givers : (\A j \in givers : k <= j) => r.cfg[s] = sources[k][s]

(* A database named as the argument of sync needs no Infisical, and is the *)
(* one that is synced.                                                     *)
PositionalNamesIt ==
  \A p \in Procs : procs[p].args # {} =>
    /\ ~At(p, "ask")
    /\ At(p, "ready") => PlanDatabase(procs[p].cfg, procs[p].args) \in procs[p].args

(* The hosts of a sync were given by a flag, by the environment or by what *)
(* the file decoded to: nothing makes up for a file that does not load.    *)
HostsAreGiven ==
  \A p \in Procs : At(p, "ready") => \A s \in {"remote", "local"} :
    LET r == procs[p] IN
    \/ Given(r.flags, s) \/ Given(env, s)
    \/ ~LoadFails(r.base) /\ Given(Loaded(r.base), s)

(* The file is whole, a failed Save cleans up after itself, an argument of *)
(* sync bypasses Infisical, and a sync never starts on hosts nobody gave.  *)
ConfigInv == ConfigTypeOK /\ WholeUnlessSuspect /\ NoLeftovers /\ PositionalNamesIt /\ HostsAreGiven
=============================================================================
