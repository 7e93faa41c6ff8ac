-------------------------- MODULE PlanningProofs --------------------------
(***************************************************************************)
(* What a sync is started with: proofs about Configuration, for any        *)
(* processes, files, environments, flags, arguments and faults, and about  *)
(* SyncPlan, for any tables, names, foreign keys, requests and number of   *)
(* migrations.                                                             *)
(***************************************************************************)
EXTENDS SyncPlan, Configuration, FiniteSetTheorems, TLAPS

(* What the operators on sources return. *)

LEMMA ValuesOfSettings ==
  ASSUME NEW s \in Settings
  PROVE  ValuesOf(s) = IF s \in {"remote", "local"} THEN Hosts
                       ELSE IF s = "threads" THEN Counts
                       ELSE IF s = "tools" THEN {"on", "off"} ELSE DBNames
  BY DEF ValuesOf, Settings

(* Over and Only make a configuration of configurations. *)
LEMMA OverIsConfig ==
  ASSUME NEW top, NEW base, IsConfig(top), IsConfig(base)
  PROVE  IsConfig(Over(top, base))
  BY DEF IsConfig, Over, Given

LEMMA OnlyIsConfig ==
  ASSUME NEW settings, NEW d, IsConfig(settings)
  PROVE  IsConfig(Only(settings, d))
  BY DEF IsConfig, Only

LEMMA NothingIsConfig == IsConfig(Nothing)
  BY DEF IsConfig, Nothing

LEMMA DefaultsAreConfig == IsConfig(Defaults)
  BY SourcesAssumption, ValuesOfSettings DEF IsConfig, Defaults, Settings

LEMMA FromFileIsConfig ==
  ASSUME NEW file, IsConfig(file)
  PROVE  IsConfig(FromFile(file))
  BY OverIsConfig, OnlyIsConfig, DefaultsAreConfig DEF FromFile, NotZero

LEMMA EnvIsConfig ==
  ASSUME NEW e, IsEnvironment(e), EnvParses(e), NEW cfg, IsConfig(cfg)
  PROVE  IsConfig(ApplyEnv(cfg, e))
<1>1. IsConfig(Only(e, Variables))
  BY DEF IsConfig, Only, IsEnvironment, EnvParses, Variables
<1> QED
  BY <1>1, OverIsConfig DEF ApplyEnv

LEMMA PositionalIsConfig ==
  ASSUME NEW flags, IsConfig(flags), NEW args \in SUBSET DBNames
  PROVE  IsConfig(ApplyPositional(flags, args))
<1> DEFINE names == IF args = {} THEN {} ELSE {"remoteDatabase", "localDatabase"}
           named == [s \in names |-> CHOOSE a \in args : TRUE]
<1>1. args # {} => (CHOOSE a \in args : TRUE) \in DBNames
  OBVIOUS
<1>2. IsConfig(named)
  BY <1>1, ValuesOfSettings DEF IsConfig, Settings
<1> QED
  BY <1>2, OverIsConfig DEF ApplyPositional

LEMMA FilledIsConfig ==
  ASSUME NEW cfg, IsConfig(cfg), NEW name \in DBNames
  PROVE  IsConfig(FillDatabases(cfg, name))
<1> DEFINE named == [s \in {"remoteDatabase", "localDatabase", "defaultDatabase"} |-> name]
<1>1. IsConfig(named)
  BY ValuesOfSettings DEF IsConfig, Settings
<1> QED
  BY <1>1, OverIsConfig DEF FillDatabases

(* Two configurations agree on some settings when they give the same ones  *)
(* of them the same values.                                                *)
LEMMA Agreement ==
  ASSUME NEW one, NEW two, NEW d
  PROVE  Only(one, d) = Only(two, d) <=>
           \A s \in d : /\ Given(one, s) <=> Given(two, s)
                        /\ Given(one, s) => one[s] = two[s]
<1>1. ASSUME Only(one, d) = Only(two, d), NEW s \in d
      PROVE  (Given(one, s) <=> Given(two, s)) /\ (Given(one, s) => one[s] = two[s])
  <2>1. DOMAIN Only(one, d) = DOMAIN one \cap d /\ DOMAIN Only(two, d) = DOMAIN two \cap d
    BY DEF Only
  <2>2. Given(one, s) => Only(one, d)[s] = one[s]
    BY DEF Only, Given
  <2>3. Given(two, s) => Only(two, d)[s] = two[s]
    BY DEF Only, Given
  <2> QED
    BY <1>1, <2>1, <2>2, <2>3 DEF Given
<1>2. ASSUME \A s \in d : (Given(one, s) <=> Given(two, s)) /\ (Given(one, s) => one[s] = two[s])
      PROVE  Only(one, d) = Only(two, d)
  BY <1>2 DEF Only, Given
<1> QED
  BY <1>1, <1>2

(* What is read from a file. *)
LEMMA FileValues ==
  ASSUME NEW file, NEW s
  PROVE  /\ Given(FromFile(file), s)
              <=> (Given(file, s) /\ file[s] # "off") \/ s \in {"threads", "tools"}
         /\ Given(FromFile(file), s) =>
              FromFile(file)[s] =
                IF Given(file, s) /\ file[s] # "off" THEN file[s] ELSE Defaults[s]
  BY DEF FromFile, NotZero, Over, Only, Given, Defaults

LEMMA OverValues ==
  ASSUME NEW top, NEW base, NEW s
  PROVE  /\ Given(Over(top, base), s) <=> Given(top, s) \/ Given(base, s)
         /\ Given(top, s) \/ Given(base, s) =>
              Over(top, base)[s] = IF Given(top, s) THEN top[s] ELSE base[s]
  BY DEF Over, Given

LEMMA OnlyValues ==
  ASSUME NEW settings, NEW d, NEW s
  PROVE  /\ Given(Only(settings, d), s) <=> Given(settings, s) /\ s \in d
         /\ Given(settings, s) /\ s \in d => Only(settings, d)[s] = settings[s]
  BY DEF Only, Given

(* A file that is written from what was read of one reads the same. *)
LEMMA ReadTwice ==
  ASSUME NEW file, NEW s, Given(FromFile(file), s)
  PROVE  /\ Given(FromFile(FromFile(file)), s)
         /\ FromFile(FromFile(file))[s] = FromFile(file)[s]
<1>1. CASE Given(file, s) /\ file[s] # "off"
  BY <1>1, FileValues
<1>2. CASE ~(Given(file, s) /\ file[s] # "off")
  <2>1. s \in {"threads", "tools"} /\ FromFile(file)[s] = Defaults[s]
    BY <1>2, FileValues
  <2> QED
    BY <2>1, FileValues
<1> QED
  BY <1>1, <1>2

(* What a program has resolved, setting by setting. *)
LEMMA LayeredValues ==
  ASSUME NEW file, NEW e, IsEnvironment(e), NEW flags, NEW args, NEW s \in Settings
  PROVE  LET named == args # {} /\ s \in {"remoteDatabase", "localDatabase"}
             layered == Layered(file, e, ApplyPositional(flags, args)) IN
         /\ Given(layered, s)
              <=> (Given(flags, s) \/ named \/ Given(e, s) \/ Given(FromFile(file), s))
         /\ Given(layered, s) =>
              layered[s] = IF Given(flags, s) THEN flags[s]
                           ELSE IF named THEN CHOOSE a \in args : TRUE
                           ELSE IF Given(e, s) THEN e[s] ELSE FromFile(file)[s]
<1> DEFINE named == args # {} /\ s \in {"remoteDatabase", "localDatabase"}
           positional == [t \in IF args = {} THEN {} ELSE {"remoteDatabase", "localDatabase"} |->
                            CHOOSE a \in args : TRUE]
           given == ApplyPositional(flags, args)
           below == ApplyEnv(FromFile(file), e)
<1>1. (Given(positional, s) <=> named) /\ (named => positional[s] = CHOOSE a \in args : TRUE)
  BY DEF Given
<1>2. /\ Given(given, s) <=> Given(flags, s) \/ named
      /\ Given(given, s) =>
           given[s] = IF Given(flags, s) THEN flags[s] ELSE CHOOSE a \in args : TRUE
  <2> HIDE DEF positional
  <2>1. given = Over(flags, positional)
    BY DEF ApplyPositional, positional
  <2> HIDE DEF given, named
  <2> QED
    BY <1>1, <2>1, OverValues
<1>3. Given(e, s) => s \in Variables
  BY DEF IsEnvironment, Given
<1>4. /\ Given(below, s) <=> Given(e, s) \/ Given(FromFile(file), s)
      /\ Given(below, s) => below[s] = IF Given(e, s) THEN e[s] ELSE FromFile(file)[s]
  BY <1>3, OverValues, OnlyValues DEF ApplyEnv
<1>5. Layered(file, e, given) = Over(given, below)
  BY DEF Layered
<1> HIDE DEF named, given, below
<1>6. /\ Given(Layered(file, e, given), s) <=> Given(given, s) \/ Given(below, s)
      /\ Given(given, s) \/ Given(below, s) =>
           Layered(file, e, given)[s] = IF Given(given, s) THEN given[s] ELSE below[s]
  BY <1>5, OverValues
<1> QED
  BY <1>2, <1>4, <1>6 DEF named, given

(* An argument names both databases. *)
LEMMA ArgumentNames ==
  ASSUME NEW file, NEW e, IsEnvironment(e), NEW flags, NEW args, args # {},
         NEW s \in {"remoteDatabase", "localDatabase"}
  PROVE  Given(Layered(file, e, ApplyPositional(flags, args)), s)
<1>1. s \in Settings
  BY DEF Settings
<1> QED
  BY <1>1, LayeredValues

-----------------------------------------------------------------------------
(* The inductive invariant.                                                *)
(*                                                                         *)
(* Of each program: its types; what a sync has resolved, to which only     *)
(* Infisical has added; that a form has changed no more than it says; and  *)
(* where it is when it has edits or an argument.                           *)
IsProgram(r) ==
  /\ DOMAIN r = DOMAIN Idle
  /\ r.pc \in Pcs /\ r.mode \in {"sync", "app", "edit", "reset"}
  /\ IsConfig(r.cfg) /\ IsData(r.base) /\ r.fd \in Inodes \cup {0}
  /\ r.alone \in BOOLEAN /\ r.edited \subseteq Settings
  /\ IsConfig(r.flags) /\ r.args \subseteq DBNames
  /\ r.fd # 0 <=> r.pc \in SavingPcs

Resolved(r, e) == Layered(r.base.cfg, e, ApplyPositional(r.flags, r.args))

Layers(r, e) ==
  r.pc \in {"ask", "ready"} =>
    /\ \A s \in Settings : Given(Resolved(r, e), s) =>
         Given(r.cfg, s) /\ r.cfg[s] = Resolved(r, e)[s]
    /\ \A s \in {"remote", "local"} : Given(r.cfg, s) => Given(Resolved(r, e), s)
    /\ r.pc = "ready" => Valid(r.cfg)

LEMMA ReadyValues ==
  ASSUME NEW r, NEW e, IsEnvironment(e), Layers(r, e), r.pc = "ready", NEW s \in Settings
  PROVE  LET named == r.args # {} /\ s \in {"remoteDatabase", "localDatabase"}
             file == FromFile(r.base.cfg) IN
         /\ Given(r.flags, s) => r.cfg[s] = r.flags[s]
         /\ (~Given(r.flags, s) /\ named) => r.cfg[s] = CHOOSE a \in r.args : TRUE
         /\ (~Given(r.flags, s) /\ ~named /\ Given(e, s)) => r.cfg[s] = e[s]
         /\ (~Given(r.flags, s) /\ ~named /\ ~Given(e, s) /\ Given(file, s)) => r.cfg[s] = file[s]
<1> DEFINE named == r.args # {} /\ s \in {"remoteDatabase", "localDatabase"}
           file == FromFile(r.base.cfg)
<1>1. Given(Resolved(r, e), s) => r.cfg[s] = Resolved(r, e)[s]
  BY DEF Layers
<1>2. /\ Given(Resolved(r, e), s)
           <=> (Given(r.flags, s) \/ named \/ Given(e, s) \/ Given(file, s))
      /\ Given(Resolved(r, e), s) =>
           Resolved(r, e)[s] = IF Given(r.flags, s) THEN r.flags[s]
                               ELSE IF named THEN CHOOSE a \in r.args : TRUE
                               ELSE IF Given(e, s) THEN e[s] ELSE file[s]
  <2> DEFINE base == r.base.cfg
             flags == r.flags
             args == r.args
  <2>1. Resolved(r, e) = Layered(base, e, ApplyPositional(flags, args))
    BY DEF Resolved
  <2> HIDE DEF base, flags, args
  <2>2. LET given == args # {} /\ s \in {"remoteDatabase", "localDatabase"}
            layered == Layered(base, e, ApplyPositional(flags, args)) IN
        /\ Given(layered, s)
             <=> (Given(flags, s) \/ given \/ Given(e, s) \/ Given(FromFile(base), s))
        /\ Given(layered, s) =>
             layered[s] = IF Given(flags, s) THEN flags[s]
                          ELSE IF given THEN CHOOSE a \in args : TRUE
                          ELSE IF Given(e, s) THEN e[s] ELSE FromFile(base)[s]
    BY LayeredValues, Zenon
  <2> QED
    BY <2>1, <2>2 DEF base, flags, args
<1> HIDE DEF named, file
<1>3. /\ Given(r.flags, s) => r.cfg[s] = r.flags[s]
      /\ (~Given(r.flags, s) /\ named) => r.cfg[s] = CHOOSE a \in r.args : TRUE
      /\ (~Given(r.flags, s) /\ ~named /\ Given(e, s)) => r.cfg[s] = e[s]
      /\ (~Given(r.flags, s) /\ ~named /\ ~Given(e, s) /\ Given(file, s)) => r.cfg[s] = file[s]
  BY <1>1, <1>2
<1> QED
  BY <1>3 DEF named, file

Spared(r, e) ==
  LET spared == Settings \ (r.edited \cup DOMAIN e) IN
  /\ r.pc \in {"form", "session", "open"} \cup SavingPcs
  /\ r.mode # "reset" /\ r.base.kind = "whole"
  =>
    Only(FromFile(r.cfg), spared) = Only(FromFile(r.base.cfg), spared)

Begins(r) ==
  /\ r.pc \in {"load", "form", "session"} => r.edited = {}
  /\ r.args # {} => r.pc = "ready"

Sound(r, e) == IsProgram(r) /\ Layers(r, e) /\ Spared(r, e) /\ Begins(r)

Programs ==
  /\ env \in Environments
  /\ DOMAIN procs = Procs /\ \A p \in Procs : Sound(procs[p], env)

IsFile(f) == DOMAIN f = {"data", "synced"} /\ IsData(f.data) /\ f.synced \in BOOLEAN

Files ==
  /\ disk \in [{"path", "tmp"} -> Inodes \cup {0}]
  /\ DOMAIN inodes = Live /\ \A i \in Live : IsFile(inodes[i])
  /\ suspect \in BOOLEAN

(* A save that overlaps no other has path.tmp, unless a save that failed   *)
(* has removed it, and nobody else writes its file; saves that overlap     *)
(* leave the configuration suspect.                                        *)
FileOf(p) == inodes[procs[p].fd]

Alone(p) ==
  Saving(p) /\ procs[p].alone =>
    /\ \A q \in Procs \ {p} : ~Saving(q)
    /\ disk["tmp"] \in {0, procs[p].fd} /\ disk["path"] # procs[p].fd
    /\ FileOf(p).data = IF At(p, "write") THEN Empty ELSE Whole(procs[p].cfg)
    /\ At(p, "rename") => FileOf(p).synced = TRUE

Apart ==
  /\ disk["tmp"] # 0 => disk["tmp"] # disk["path"]
  /\ \A p \in Procs : Alone(p) /\ (Saving(p) /\ ~procs[p].alone => suspect)

WholeAndSynced ==
  disk["path"] # 0 /\ ~suspect =>
    inodes[disk["path"]].data.kind = "whole" /\ inodes[disk["path"]].synced = TRUE

Counters ==
  /\ started \in [{"editors", "syncs", "forms"} -> Nat]
  /\ killed \in BOOLEAN

ConfigInd == Programs /\ Files /\ Apart /\ WholeAndSynced /\ NoLeftovers /\ Counters

-----------------------------------------------------------------------------
(* What each program does keeps it sound. *)

LEMMA Environment ==
  ASSUME NEW e \in Environments
  PROVE  IsEnvironment(e)
  BY ConfigurationAssumption

LEMMA IdleIsSound ==
  ASSUME NEW e
  PROVE  Sound(Idle, e) /\ Sound(Failing, e)
<1>1. IsData(Absent)
  BY NothingIsConfig DEF IsData, Absent
<1>2. DOMAIN Failing = DOMAIN Idle
  BY DEF Failing, Idle
<1>3. IsProgram(Idle) /\ IsProgram(Failing)
  BY <1>1, <1>2, NothingIsConfig DEF IsProgram, Idle, Failing, Pcs, SavingPcs
<1>4. Layers(Idle, e) /\ Layers(Failing, e)
  BY DEF Layers, Idle, Failing
<1>5. Spared(Idle, e) /\ Spared(Failing, e)
  BY DEF Spared, Idle, Failing, SavingPcs
<1>6. Begins(Idle) /\ Begins(Failing)
  BY DEF Begins, Idle, Failing
<1> QED
  BY <1>3, <1>4, <1>5, <1>6 DEF Sound

LEMMA ProgramFields ==
  ASSUME NEW r, NEW e, Sound(r, e)
  PROVE  DOMAIN r = {"pc", "mode", "cfg", "base", "fd", "alone", "edited", "flags", "args"}
  BY DEF Sound, IsProgram, Idle

(* A program that saves goes on, or opens the file. *)
LEMMA SavesOn ==
  ASSUME NEW r, NEW e, Sound(r, e),
         NEW point \in SavingPcs, NEW fd \in Inodes, NEW alone \in BOOLEAN,
         r.pc \in SavingPcs \cup {"open"}
  PROVE  Sound([r EXCEPT !.pc = point, !.fd = fd, !.alone = alone], e)
<1> DEFINE next == [r EXCEPT !.pc = point, !.fd = fd, !.alone = alone]
<1>1. DOMAIN r = {"pc", "mode", "cfg", "base", "fd", "alone", "edited", "flags", "args"}
  BY DEF Sound, IsProgram, Idle
<1>2. /\ DOMAIN next = DOMAIN r /\ next.pc = point /\ next.fd = fd /\ next.alone = alone
      /\ next.mode = r.mode /\ next.cfg = r.cfg /\ next.base = r.base
      /\ next.edited = r.edited /\ next.flags = r.flags /\ next.args = r.args
  BY <1>1
<1> HIDE DEF next
<1>3. fd # 0
  BY DEF Inodes
<1>4. IsProgram(next)
  BY <1>1, <1>2, <1>3 DEF Sound, IsProgram, SavingPcs, Pcs
<1>5. Layers(next, e) /\ Begins(next)
  BY <1>2 DEF Sound, Begins, Layers, SavingPcs
<1>6. Spared(next, e)
  BY <1>2 DEF Sound, Spared
<1> QED
  BY <1>4, <1>5, <1>6 DEF Sound, next

(* Its save is not alone any more. *)
LEMMA Overlaps ==
  ASSUME NEW r, NEW e, Sound(r, e), NEW others
  PROVE  Sound([r EXCEPT !.alone = @ /\ others], e)
<1> DEFINE next == [r EXCEPT !.alone = @ /\ others]
<1>1. /\ DOMAIN next = DOMAIN r /\ next.pc = r.pc /\ next.cfg = r.cfg /\ next.base = r.base
      /\ next.mode = r.mode /\ next.fd = r.fd
      /\ next.edited = r.edited /\ next.flags = r.flags /\ next.args = r.args
  BY ProgramFields
<1>2. next.alone \in BOOLEAN
  BY ProgramFields
<1> HIDE DEF next
<1>3. IsProgram(next)
  BY <1>1, <1>2 DEF Sound, IsProgram
<1>4. Layers(next, e)
  BY <1>1 DEF Sound, Layers, Resolved
<1>5. Spared(next, e)
  BY <1>1 DEF Sound, Spared
<1>6. Begins(next)
  BY <1>1 DEF Sound, Begins
<1> QED
  BY <1>3, <1>4, <1>5, <1>6 DEF Sound, next

(* The application goes back to its session with the file it has written. *)
LEMMA Returns ==
  ASSUME NEW r, NEW e, Sound(r, e), r.pc \in SavingPcs
  PROVE  Sound([r EXCEPT !.pc = "session", !.fd = 0, !.alone = FALSE, !.edited = {},
                         !.base = Whole(r.cfg)], e)
<1> DEFINE next == [r EXCEPT !.pc = "session", !.fd = 0, !.alone = FALSE, !.edited = {},
                             !.base = Whole(r.cfg)]
<1>1. /\ DOMAIN next = DOMAIN r /\ next.pc = "session" /\ next.fd = 0 /\ next.alone = FALSE
      /\ next.mode = r.mode /\ next.cfg = r.cfg /\ next.base = Whole(r.cfg)
      /\ next.edited = {} /\ next.flags = r.flags /\ next.args = r.args
  BY ProgramFields
<1> HIDE DEF next
<1>2. IsData(Whole(r.cfg)) /\ Whole(r.cfg).cfg = r.cfg
  BY DEF Sound, IsProgram, IsData, Whole
<1>3. IsProgram(next)
  BY <1>1, <1>2 DEF Sound, IsProgram, SavingPcs, Pcs
<1>4. Layers(next, e) /\ Begins(next)
  BY <1>1 DEF Sound, Begins, Layers, SavingPcs
<1>5. Spared(next, e)
  BY <1>1, <1>2 DEF Spared
<1> QED
  BY <1>3, <1>4, <1>5 DEF Sound, next

LEMMA Starts ==
  ASSUME NEW e, NEW mode \in {"app", "edit", "reset"}
  PROVE  Sound([Idle EXCEPT !.pc = "load", !.mode = mode], e)
<1> DEFINE next == [Idle EXCEPT !.pc = "load", !.mode = mode]
<1>1. Sound(Idle, e)
  BY IdleIsSound
<1>2. /\ DOMAIN next = DOMAIN Idle /\ next.pc = "load" /\ next.mode = mode
      /\ next.cfg = Nothing /\ next.base = Absent /\ next.fd = 0 /\ next.alone = FALSE
      /\ next.edited = {} /\ next.flags = Nothing /\ next.args = {}
  BY DEF Idle
<1>3. IsProgram(next)
  <2> HIDE DEF next
  <2>1. IsData(Absent)
    BY NothingIsConfig DEF IsData, Absent
  <2> QED
    BY <1>2, <2>1, NothingIsConfig DEF IsProgram, SavingPcs, Pcs
<1>4. Layers(next, e) /\ Begins(next)
  BY <1>2 DEF Layers, Begins
<1>5. Spared(next, e)
  BY <1>2 DEF Spared, SavingPcs
<1> QED
  BY <1>3, <1>4, <1>5 DEF Sound

(* What the environment did not say is as the file said it. *)
LEMMA ReadSpares ==
  ASSUME NEW file, NEW e, NEW spared, \A s \in spared : ~Given(e, s)
  PROVE  /\ Only(FromFile(FromFile(file)), spared) = Only(FromFile(file), spared)
         /\ Only(FromFile(ApplyEnv(FromFile(file), e)), spared) = Only(FromFile(file), spared)
<1>1. ASSUME NEW s \in spared
      PROVE  /\ Given(FromFile(FromFile(file)), s) <=> Given(FromFile(file), s)
             /\ Given(FromFile(file), s) => FromFile(FromFile(file))[s] = FromFile(file)[s]
  BY ReadTwice, FileValues
<1>2. ASSUME NEW s \in spared
      PROVE  /\ Given(ApplyEnv(FromFile(file), e), s) <=> Given(FromFile(file), s)
             /\ Given(FromFile(file), s) => ApplyEnv(FromFile(file), e)[s] = FromFile(file)[s]
  BY OverValues, OnlyValues DEF ApplyEnv
<1> DEFINE cfg == ApplyEnv(FromFile(file), e)
           once == FromFile(file)
<1>3. ASSUME NEW s \in spared
      PROVE  /\ Given(FromFile(cfg), s) <=> Given(FromFile(once), s)
             /\ Given(FromFile(cfg), s) => FromFile(cfg)[s] = FromFile(once)[s]
  <2> HIDE DEF cfg, once
  <2>1. (Given(cfg, s) <=> Given(once, s)) /\ (Given(once, s) => cfg[s] = once[s])
    BY <1>2 DEF cfg, once
  <2> QED
    BY <2>1, FileValues
<1> HIDE DEF cfg, once
<1>4. Only(FromFile(cfg), spared) = Only(FromFile(once), spared)
  BY <1>3, Agreement
<1>5. Only(FromFile(once), spared) = Only(once, spared)
  BY <1>1, Agreement DEF once
<1> QED
  BY <1>4, <1>5 DEF cfg, once

LEMMA Opens ==
  ASSUME NEW r, NEW e \in Environments, Sound(r, e), r.pc = "load",
         NEW data, IsData(data), NEW cfg, NEW point \in {"form", "session"},
         LET found == IF EnvParses(e) THEN ApplyEnv(FromFileTui(data.cfg), e)
                      ELSE FromFileTui(data.cfg) IN
         cfg = IF r.mode = "reset" THEN Defaults ELSE found
  PROVE  Sound([r EXCEPT !.pc = point, !.cfg = cfg, !.base = data], e)
<1> DEFINE next == [r EXCEPT !.pc = point, !.cfg = cfg, !.base = data]
           spared == Settings \ (r.edited \cup DOMAIN e)
<1>1. /\ DOMAIN next = DOMAIN r /\ next.pc = point /\ next.cfg = cfg /\ next.base = data
      /\ next.mode = r.mode /\ next.fd = r.fd /\ next.alone = r.alone
      /\ next.edited = r.edited /\ next.flags = r.flags /\ next.args = r.args
  BY ProgramFields
<1> HIDE DEF next
<1>2. IsConfig(data.cfg)
  BY DEF IsData
<1>3. IsConfig(cfg)
  BY <1>2, Environment, FromFileIsConfig, EnvIsConfig, DefaultsAreConfig DEF FromFileTui
<1>4. IsProgram(next)
  BY <1>1, <1>3 DEF Sound, IsProgram, SavingPcs, Pcs
<1>5. Layers(next, e) /\ Begins(next)
  BY <1>1 DEF Sound, Begins, Layers
<1>6. r.mode # "reset" => Only(FromFile(cfg), spared) = Only(FromFile(data.cfg), spared)
  <2>1. \A s \in spared : ~Given(e, s)
    BY DEF Given
  <2> HIDE DEF spared
  <2> QED
    BY <2>1, ReadSpares DEF FromFileTui
<1>7. Spared(next, e)
  BY <1>1, <1>6 DEF Spared
<1> QED
  BY <1>4, <1>5, <1>7 DEF Sound, next

LEMMA Fills ==
  ASSUME NEW r, NEW e, Sound(r, e), r.pc = "form", NEW edit \in Edits
  PROVE  Sound([r EXCEPT !.pc = "open", !.cfg = Over(edit, @), !.edited = DOMAIN edit], e)
<1> DEFINE next == [r EXCEPT !.pc = "open", !.cfg = Over(edit, @), !.edited = DOMAIN edit]
           cfg == Over(edit, r.cfg)
           spared == Settings \ (DOMAIN edit \cup DOMAIN e)
<1>1. /\ DOMAIN next = DOMAIN r /\ next.pc = "open" /\ next.cfg = cfg /\ next.base = r.base
      /\ next.mode = r.mode /\ next.fd = r.fd /\ next.alone = r.alone
      /\ next.edited = DOMAIN edit /\ next.flags = r.flags /\ next.args = r.args
  BY ProgramFields
<1>2. IsConfig(edit)
  BY ConfigurationAssumption
<1>3. IsConfig(cfg)
  BY <1>2, OverIsConfig DEF Sound, IsProgram
<1>4. \A s \in spared : /\ Given(cfg, s) <=> Given(r.cfg, s)
                        /\ Given(cfg, s) => cfg[s] = r.cfg[s]
  BY OverValues DEF Given
<1> HIDE DEF next, cfg
<1>5. IsProgram(next)
  BY <1>1, <1>2, <1>3 DEF Sound, IsProgram, IsConfig, SavingPcs, Pcs
<1>6. Layers(next, e) /\ Begins(next)
  BY <1>1 DEF Sound, Begins, Layers
<1>7. Only(FromFile(cfg), spared) = Only(FromFile(r.cfg), spared)
  <2> HIDE DEF spared
  <2>1. \A s \in spared : /\ Given(FromFile(cfg), s) <=> Given(FromFile(r.cfg), s)
                          /\ Given(FromFile(cfg), s) => FromFile(cfg)[s] = FromFile(r.cfg)[s]
    BY <1>4, FileValues
  <2> QED
    BY <2>1, Agreement
<1>8. ASSUME r.mode # "reset", r.base.kind = "whole"
      PROVE  Only(FromFile(r.cfg), spared) = Only(FromFile(r.base.cfg), spared)
  <2> DEFINE before == Settings \ (r.edited \cup DOMAIN e)
  <2>1. spared \subseteq before
    BY DEF Sound, Begins
  <2>2. Only(FromFile(r.cfg), before) = Only(FromFile(r.base.cfg), before)
    BY <1>8 DEF Sound, Spared
  <2> HIDE DEF spared, before
  <2>3. \A s \in spared : /\ Given(FromFile(r.cfg), s) <=> Given(FromFile(r.base.cfg), s)
                          /\ Given(FromFile(r.cfg), s) =>
                               FromFile(r.cfg)[s] = FromFile(r.base.cfg)[s]
    BY <2>1, <2>2, Agreement
  <2> QED
    BY <2>3, Agreement
<1>9. Spared(next, e)
  BY <1>1, <1>7, <1>8 DEF Spared
<1> QED
  BY <1>5, <1>6, <1>9 DEF Sound, next

(* The settings are opened again. *)
LEMMA FormAgain ==
  ASSUME NEW r, NEW e, Sound(r, e), r.pc = "session"
  PROVE  Sound([r EXCEPT !.pc = "form"], e)
<1> DEFINE next == [r EXCEPT !.pc = "form"]
<1>1. /\ DOMAIN next = DOMAIN r /\ next.pc = "form" /\ next.cfg = r.cfg /\ next.base = r.base
      /\ next.mode = r.mode /\ next.fd = r.fd /\ next.alone = r.alone
      /\ next.edited = r.edited /\ next.flags = r.flags /\ next.args = r.args
  BY ProgramFields
<1> HIDE DEF next
<1>2. IsProgram(next)
  BY <1>1 DEF Sound, IsProgram, SavingPcs, Pcs
<1>3. Layers(next, e) /\ Begins(next)
  BY <1>1 DEF Sound, Begins, Layers
<1>4. Spared(next, e)
  BY <1>1 DEF Sound, Spared
<1> QED
  BY <1>2, <1>3, <1>4 DEF Sound, next

(* A sync has what Resolve has layered, and perhaps what Infisical said.   *)
Holds(r, e) ==
  /\ \A s \in Settings : Given(Resolved(r, e), s) =>
       Given(r.cfg, s) /\ r.cfg[s] = Resolved(r, e)[s]
  /\ \A s \in {"remote", "local"} : Given(r.cfg, s) => Given(Resolved(r, e), s)

LEMMA Checks ==
  ASSUME NEW r, NEW e, IsProgram(r), r.fd = 0, Holds(r, e), r.args # {} => DatabasesNamed(r.cfg)
  PROVE  Sound(Checked(r), e)
<1> DEFINE at(point) == [r EXCEPT !.pc = point]
<1>1. ASSUME NEW point \in {"ask", "ready"},
             point = "ready" => Valid(r.cfg), point = "ask" => r.args = {}
      PROVE  Sound(at(point), e)
  <2> DEFINE next == [r EXCEPT !.pc = point]
  <2>0. DOMAIN r = {"pc", "mode", "cfg", "base", "fd", "alone", "edited", "flags", "args"}
    BY DEF IsProgram, Idle
  <2>1. /\ DOMAIN next = DOMAIN r /\ next.pc = point /\ next.cfg = r.cfg /\ next.base = r.base
        /\ next.mode = r.mode /\ next.fd = r.fd /\ next.alone = r.alone
        /\ next.edited = r.edited /\ next.flags = r.flags /\ next.args = r.args
    BY <2>0
  <2> HIDE DEF next
  <2>2. IsProgram(next)
    BY <2>1 DEF IsProgram, SavingPcs, Pcs
  <2>3. Resolved(next, e) = Resolved(r, e)
    BY <2>1 DEF Resolved
  <2>4. Layers(next, e)
    BY <1>1, <2>1, <2>3 DEF Holds, Layers
  <2>5. Begins(next)
    BY <1>1, <2>1 DEF Begins
  <2>6. Spared(next, e)
    BY <2>1 DEF Spared, SavingPcs
  <2> QED
    BY <2>2, <2>4, <2>5, <2>6 DEF Sound, next
<1>2. CASE ~DatabasesNamed(r.cfg)
  BY <1>1, <1>2 DEF Checked
<1>3. CASE DatabasesNamed(r.cfg) /\ Valid(r.cfg) /\ ValidPlan(r.cfg, r.args)
  BY <1>1, <1>3 DEF Checked
<1>4. CASE DatabasesNamed(r.cfg) /\ ~(Valid(r.cfg) /\ ValidPlan(r.cfg, r.args))
  BY <1>4, IdleIsSound DEF Checked
<1> QED
  BY <1>2, <1>3, <1>4

LEMMA Resolves ==
  ASSUME NEW e \in Environments, EnvParses(e), NEW data, IsData(data),
         NEW flags \in FlagSets, NEW args \in Arguments
  PROVE  LET cfg == Layered(data.cfg, e, ApplyPositional(flags, args)) IN
         Sound(Checked([Idle EXCEPT !.cfg = cfg, !.base = data,
                                    !.flags = flags, !.args = args]), e)
<1> DEFINE cfg == Layered(data.cfg, e, ApplyPositional(flags, args))
           r == [Idle EXCEPT !.cfg = cfg, !.base = data, !.flags = flags, !.args = args]
<1>1. /\ DOMAIN r = DOMAIN Idle /\ r.pc = "idle" /\ r.cfg = cfg /\ r.base = data
      /\ r.mode = "sync" /\ r.fd = 0 /\ r.alone = FALSE
      /\ r.edited = {} /\ r.flags = flags /\ r.args = args
  BY DEF Idle
<1>2. IsConfig(flags) /\ args \in SUBSET DBNames
  BY ConfigurationAssumption
<1>3. IsConfig(cfg)
  <2>1. IsConfig(ApplyPositional(flags, args))
    BY <1>2, PositionalIsConfig
  <2>2. IsConfig(ApplyEnv(FromFile(data.cfg), e))
    BY FromFileIsConfig, EnvIsConfig, Environment DEF IsData
  <2> QED
    BY <2>1, <2>2, OverIsConfig DEF Layered
<1>4. args # {} => DatabasesNamed(cfg)
  <2> SUFFICES ASSUME args # {}, NEW s \in {"remoteDatabase", "localDatabase"}
               PROVE  Given(cfg, s)
    BY DEF DatabasesNamed
  <2> QED
    BY Environment, ArgumentNames
<1> HIDE DEF r, cfg
<1>5. IsProgram(r)
  BY <1>1, <1>2, <1>3 DEF IsProgram, SavingPcs, Pcs
<1>6. Resolved(r, e) = r.cfg
  BY <1>1 DEF Resolved, cfg
<1>7. Holds(r, e)
  BY <1>6 DEF Holds
<1>8. Sound(Checked(r), e)
  BY <1>1, <1>4, <1>5, <1>7, Checks
<1> QED
  BY <1>8 DEF r, cfg

LEMMA Asks ==
  ASSUME NEW r, NEW e, Sound(r, e), r.pc = "ask", NEW name \in DBNames
  PROVE  Sound(Checked([r EXCEPT !.cfg = FillDatabases(@, name)]), e)
<1> DEFINE next == [r EXCEPT !.cfg = FillDatabases(@, name)]
           cfg == FillDatabases(r.cfg, name)
           named == [s \in {"remoteDatabase", "localDatabase", "defaultDatabase"} |-> name]
<1>1. /\ DOMAIN next = DOMAIN r /\ next.pc = "ask" /\ next.cfg = cfg /\ next.base = r.base
      /\ next.mode = r.mode /\ next.fd = r.fd /\ next.alone = r.alone
      /\ next.edited = r.edited /\ next.flags = r.flags /\ next.args = r.args
  BY ProgramFields
<1>2. IsConfig(cfg)
  BY FilledIsConfig DEF Sound, IsProgram
<1>3. cfg = Over(r.cfg, named)
  BY DEF FillDatabases
<1>4. \A s \in {"remote", "local"} : ~Given(named, s)
  BY DEF Given
<1> HIDE DEF named
<1>5. \A s : Given(r.cfg, s) => Given(cfg, s) /\ cfg[s] = r.cfg[s]
  BY <1>3, OverValues
<1>6. \A s \in {"remote", "local"} : Given(cfg, s) => Given(r.cfg, s)
  BY <1>3, <1>4, OverValues
<1> HIDE DEF next, cfg
<1>7. IsProgram(next) /\ next.fd = 0
  BY <1>1, <1>2 DEF Sound, IsProgram, SavingPcs, Pcs
<1>8. Resolved(next, e) = Resolved(r, e)
  BY <1>1 DEF Resolved
<1>9. Holds(next, e)
  BY <1>1, <1>5, <1>6, <1>8 DEF Holds, Sound, Layers
<1>10. next.args = {}
  BY <1>1 DEF Sound, Begins
<1> QED
  BY <1>7, <1>9, <1>10, Checks DEF next

-----------------------------------------------------------------------------
(* The programs stay sound. *)

Turns(p) == \E r : Sound(r, env) /\ Becomes(p, r)

LEMMA DataIsData ==
  ASSUME Files
  PROVE  IsData(DataAt("path"))
<1>1. CASE disk["path"] = 0
  BY <1>1, NothingIsConfig DEF DataAt, Absent, IsData
<1>2. CASE disk["path"] # 0
  <2>1. disk["path"] \in Live
    BY <1>2 DEF Live
  <2> QED
    BY <1>2, <2>1 DEF DataAt, Files, IsFile
<1> QED
  BY <1>1, <1>2

LEMMA SaveTurns ==
  ASSUME Programs, NEW p \in Procs,
         WriteTmp(p) \/ SyncTmp(p) \/ RenameTmp(p) \/ SaveFails(p) \/ RenameMisses(p)
           \/ CleanUp(p) \/ OpenFails(p) \/ Kill(p)
  PROVE  Turns(p) /\ env' = env
<1> DEFINE r == procs[p]
<1>1. Sound(r, env)
  BY DEF Programs
<1>2. ASSUME NEW point \in {"sync", "rename"}, r.pc \in SavingPcs, Goes(p, point)
      PROVE  Turns(p)
  <2> HIDE DEF r
  <2>1. r.fd \in Inodes /\ r.alone \in BOOLEAN
    BY <1>1, <1>2 DEF Sound, IsProgram
  <2>2. [r EXCEPT !.pc = point, !.fd = r.fd, !.alone = r.alone] = [r EXCEPT !.pc = point]
    BY <1>1, ProgramFields
  <2>3. Sound([r EXCEPT !.pc = point, !.fd = r.fd, !.alone = r.alone], env)
    BY <1>1, <1>2, <2>1, SavesOn DEF SavingPcs
  <2> QED
    BY <1>2, <2>2, <2>3 DEF Turns, Goes, r
<1>3. CASE WriteTmp(p)
  BY <1>2, <1>3 DEF WriteTmp, At, SavingPcs
<1>4. CASE SyncTmp(p)
  BY <1>2, <1>4 DEF SyncTmp, At, SavingPcs
<1>5. CASE RenameTmp(p)
  <2>1. r.pc \in SavingPcs
    BY <1>5 DEF RenameTmp, At, SavingPcs
  <2>2. Sound(AfterSave(p), env)
    BY <1>1, <2>1, Returns, IdleIsSound DEF AfterSave
  <2> QED
    BY <1>5, <2>2 DEF RenameTmp, Turns
<1>6. CASE SaveFails(p) \/ RenameMisses(p)
  BY <1>6, IdleIsSound DEF SaveFails, RenameMisses, Turns
<1>7. CASE CleanUp(p) \/ OpenFails(p) \/ Kill(p)
  BY <1>7, IdleIsSound DEF CleanUp, OpenFails, Kill, Turns
<1> QED
  BY <1>3, <1>4, <1>5, <1>6, <1>7 DEF WriteTmp, SyncTmp, RenameTmp

LEMMA EditTurns ==
  ASSUME Programs, Files, NEW p \in Procs, Edit(p)
  PROVE  Turns(p) /\ env' = env
<1> DEFINE r == procs[p]
<1>1. Sound(r, env) /\ env \in Environments
  BY DEF Programs
<1>2. CASE StartEditor(p) \/ StartReset(p)
  BY <1>2, Starts DEF StartEditor, StartReset, Start, Turns
<1>3. CASE LoadEditor(p)
  <2> DEFINE data == DataAt("path")
             file == FromFileTui(data.cfg)
             found == IF EnvParses(env) THEN ApplyEnv(file, env) ELSE file
             cfg == IF r.mode = "reset" THEN Defaults ELSE found
             point == IF r.mode # "app" \/ LoadFails(data) \/ ~EnvParses(env) \/ ~Valid(cfg)
                      THEN "form" ELSE "session"
             next == [r EXCEPT !.pc = point, !.cfg = cfg, !.base = data]
  <2>1. r.pc = "load"
    BY <1>3 DEF LoadEditor, At
  <2>2. Becomes(p, next)
    BY <1>3, Zenon DEF LoadEditor, Loaded
  <2>3. point \in {"form", "session"}
    OBVIOUS
  <2> HIDE DEF point
  <2>4. Sound(next, env)
    BY <1>1, <2>1, <2>3, DataIsData, Opens
  <2> HIDE DEF next
  <2> QED
    BY <1>3, <2>2, <2>4 DEF LoadEditor, Turns
<1>4. CASE FillForm(p)
  BY <1>1, <1>4, Fills DEF FillForm, At, Turns
<1>5. CASE OpenSettings(p)
  BY <1>1, <1>5, FormAgain DEF OpenSettings, At, Goes, Turns
<1>6. CASE AbortForm(p) \/ EndSession(p)
  BY <1>6, IdleIsSound DEF AbortForm, EndSession, Turns
<1> QED
  BY <1>2, <1>3, <1>4, <1>5, <1>6 DEF Edit

LEMMA SyncTurns ==
  ASSUME Programs, Files, NEW p \in Procs, Sync(p)
  PROVE  Turns(p) /\ env' = env
<1>1. Sound(procs[p], env) /\ env \in Environments
  BY DEF Programs
<1>2. CASE Resolve(p)
  <2> DEFINE data == DataAt("path")
             resolved(flags, args) ==
               [Idle EXCEPT !.cfg = Layered(data.cfg, env, ApplyPositional(flags, args)),
                            !.base = data, !.flags = flags, !.args = args]
             refused(flags, args) ==
               \/ ~EnvParses(env)
               \/ LoadFails(data) /\ ~HostsProvided(env, ApplyPositional(flags, args))
  <2>1. PICK flags \in FlagSets, args \in Arguments :
          Start(p, "syncs", IF refused(flags, args) THEN Idle ELSE Checked(resolved(flags, args)))
    BY <1>2, Zenon DEF Resolve, Loaded
  <2>2. EnvParses(env) => Sound(Checked(resolved(flags, args)), env)
    BY <1>1, <2>1, DataIsData, Resolves
  <2>3. ~refused(flags, args) => EnvParses(env)
    OBVIOUS
  <2> HIDE DEF resolved, refused
  <2> QED
    BY <1>2, <2>1, <2>2, <2>3, IdleIsSound DEF Resolve, Start, Turns
<1>3. CASE AskInfisical(p)
  BY <1>1, <1>3, Asks, IdleIsSound DEF AskInfisical, At, Turns
<1>4. CASE SyncEnds(p)
  BY <1>4, IdleIsSound DEF SyncEnds, Turns
<1> QED
  BY <1>2, <1>3, <1>4 DEF Sync

LEMMA OpenTurns ==
  ASSUME Programs, Files, NEW p \in Procs, OpenTmp(p), disk'["tmp"] \in Inodes
  PROVE  Programs'
<1> DEFINE others == {q \in Procs \ {p} : Saving(q)}
           i == disk'["tmp"]
           next(q) == IF q = p
                      THEN [procs[p] EXCEPT !.pc = "write", !.fd = i, !.alone = (others = {})]
                      ELSE [procs[q] EXCEPT !.alone = @ /\ q \notin others]
<1>1. env' = env /\ procs' = [q \in Procs |-> next(q)]
  <2> DEFINE j == IF disk["tmp"] # 0 THEN disk["tmp"] ELSE CHOOSE j \in Inodes : j \notin Live
  <2>1. disk' = [disk EXCEPT !["tmp"] = j]
    BY Zenon DEF OpenTmp
  <2>2. i = j
    BY <2>1, Zenon DEF Files
  <2>3. procs' = [q \in Procs |->
          IF q = p THEN [procs[p] EXCEPT !.pc = "write", !.fd = j, !.alone = (others = {})]
          ELSE [procs[q] EXCEPT !.alone = @ /\ q \notin others]]
    BY Zenon DEF OpenTmp
  <2> QED
    BY <2>2, <2>3, Zenon DEF OpenTmp
<1>2. ASSUME NEW q \in Procs
      PROVE  Sound(next(q), env)
  <2> DEFINE r == procs[q]
  <2>1. Sound(r, env)
    BY DEF Programs
  <2>2. CASE q = p
    BY <2>1, <2>2, SavesOn DEF OpenTmp, At, SavingPcs
  <2>3. CASE q # p
    BY <2>1, <2>3, Overlaps
  <2> QED
    BY <2>2, <2>3
<1> QED
  BY <1>1, <1>2 DEF Programs

(* One inode is always free: each process has one open at most.            *)
LEMMA FreeInode ==
  ASSUME Programs, Files, disk["tmp"] = 0
  PROVE  \E j \in Inodes : j \notin Live
<1> DEFINE open == {procs[p].fd : p \in Procs}
           used == open \cup {disk["path"]}
<1>0. IsFiniteSet(Procs) /\ Cardinality(Procs) \in Nat
  BY ConfigurationAssumption, FS_CardinalityType
<1>1. IsFiniteSet(open) /\ Cardinality(open) <= Cardinality(Procs)
  <2> DEFINE fds == [p \in Procs |-> procs[p].fd]
  <2>1. fds \in Surjection(Procs, open)
    BY DEF Surjection
  <2> HIDE DEF fds, open
  <2> QED
    BY <1>0, <2>1, FS_Surjection
<1>2. IsFiniteSet(used) /\ Cardinality(used) <= Cardinality(Procs) + 1
  <2> HIDE DEF open
  <2>1. Cardinality(open) \in Nat
    BY <1>1, FS_CardinalityType
  <2>2. /\ IsFiniteSet(used)
        /\ Cardinality(used) =
             IF disk["path"] \in open THEN Cardinality(open) ELSE Cardinality(open) + 1
    BY <1>1, FS_AddElement
  <2> HIDE DEF used
  <2> QED
    BY <1>0, <1>1, <2>1, <2>2
<1>3. Live \subseteq used
  BY DEF Live
<1>4. IsFiniteSet(Inodes) /\ Cardinality(Inodes) = Cardinality(Procs) + 2
  <2> DEFINE n == Cardinality(Procs) + 2
  <2>1. n \in Nat /\ n > 1
    BY <1>0
  <2> HIDE DEF n
  <2>2. IsFiniteSet(1..n) /\ Cardinality(1..n) = n
    BY <2>1, FS_Interval
  <2> QED
    BY <2>2 DEF n, Inodes
<1> HIDE DEF used
<1>5. Inodes \in SUBSET used => Cardinality(Inodes) <= Cardinality(used)
  BY <1>2, FS_Subset
<1>6. Cardinality(used) \in Nat
  BY <1>2, FS_CardinalityType
<1>7. ~(Inodes \in SUBSET used)
  BY <1>0, <1>2, <1>4, <1>5, <1>6
<1> QED
  BY <1>3, <1>7

LEMMA OpenNames ==
  ASSUME Programs, Files, NEW p \in Procs, OpenTmp(p)
  PROVE  /\ disk' = [disk EXCEPT !["tmp"] = disk'["tmp"]] /\ disk'["tmp"] \in Inodes
         /\ disk["tmp"] # 0 => disk'["tmp"] = disk["tmp"]
         /\ disk["tmp"] = 0 => disk'["tmp"] \notin Live
         /\ procs'[p].fd = disk'["tmp"]
         /\ inodes' = [j \in Live' |-> IF j = disk'["tmp"] THEN [data |-> Empty, synced |-> FALSE]
                                        ELSE inodes[j]]
<1> DEFINE i == IF disk["tmp"] # 0 THEN disk["tmp"] ELSE CHOOSE j \in Inodes : j \notin Live
<1>1. i \in Inodes /\ (disk["tmp"] = 0 => i \notin Live)
  BY FreeInode DEF Files
<1>2. disk' = [disk EXCEPT !["tmp"] = i]
  BY Zenon DEF OpenTmp
<1>3. disk'["tmp"] = i
  BY <1>2, Zenon DEF Files
<1>4. /\ procs'[p].fd = i
      /\ inodes' = [j \in Live' |-> IF j = i THEN [data |-> Empty, synced |-> FALSE]
                                    ELSE inodes[j]]
  <2>1. procs'[p] = [procs[p] EXCEPT !.pc = "write", !.fd = i,
                                     !.alone = ({q \in Procs \ {p} : Saving(q)} = {})]
    BY Zenon DEF OpenTmp
  <2>2. "fd" \in DOMAIN procs[p]
    BY ProgramFields DEF Programs
  <2>3. procs'[p].fd = i
    BY <2>1, <2>2
  <2> QED
    BY <2>3, Zenon DEF OpenTmp, Changed
<1>5. disk["tmp"] # 0 => i = disk["tmp"]
  OBVIOUS
<1> HIDE DEF i
<1> QED
  BY <1>1, <1>2, <1>3, <1>4, <1>5

LEMMA ProgramsStep ==
  ASSUME Programs, Files, [ConfigNext]_configVars
  PROVE  Programs'
<1>1. ASSUME NEW p \in Procs, Turns(p), env' = env
      PROVE  Programs'
  BY <1>1 DEF Programs, Turns, Becomes
<1>2. ASSUME NEW p \in Procs, Save(p)
      PROVE  Programs'
  BY <1>1, <1>2, OpenTurns, OpenNames, SaveTurns DEF Save
<1>3. ASSUME NEW p \in Procs, Edit(p) \/ Sync(p) \/ Kill(p)
      PROVE  Programs'
  BY <1>1, <1>3, EditTurns, SyncTurns, SaveTurns
<1>4. CASE PowerLoss
  BY <1>4, IdleIsSound DEF PowerLoss, Programs
<1>5. CASE UNCHANGED configVars
  BY <1>5 DEF configVars, Programs
<1> QED
  BY <1>2, <1>3, <1>4, <1>5 DEF ConfigNext, Finished

-----------------------------------------------------------------------------
(* What the programs do to the files. *)

Others(p) == \A q \in Procs \ {p} : procs'[q] = procs[q]
Same(p) ==
  /\ procs'[p].fd = procs[p].fd /\ procs'[p].alone = procs[p].alone
  /\ procs'[p].cfg = procs[p].cfg
KeepsFiles == DOMAIN inodes' = Live' /\ \A i \in Live' : inodes'[i] = inodes[i]
Puts(p, file) ==
  /\ IsFile(file) /\ DOMAIN inodes' = Live'
  /\ \A i \in Live' : inodes'[i] = IF i = procs[p].fd THEN file ELSE inodes[i]

Writes(p) ==
  /\ At(p, "write") /\ procs'[p].pc = "sync" /\ Others(p) /\ Same(p)
  /\ UNCHANGED <<disk, suspect, killed>>
  /\ \E file : Puts(p, file) /\ (FileOf(p).data = Empty => file.data = Whole(procs[p].cfg))

Flushes(p) ==
  /\ At(p, "sync") /\ procs'[p].pc = "rename" /\ Others(p) /\ Same(p)
  /\ UNCHANGED <<disk, suspect, killed>>
  /\ \E file : Puts(p, file) /\ file.data = FileOf(p).data /\ file.synced = TRUE

Renames(p) ==
  /\ At(p, "rename") /\ procs'[p].pc \in {"session", "idle"} /\ Others(p) /\ KeepsFiles
  /\ disk["tmp"] # 0 /\ disk'["path"] = disk["tmp"] /\ disk'["tmp"] = 0
  /\ disk' \in [{"path", "tmp"} -> Inodes \cup {0}]
  /\ suspect' = (suspect /\ ~procs[p].alone) /\ UNCHANGED killed

Stops(p) ==
  /\ HasTmp(p) /\ procs'[p].pc \in {"remove", "idle"} /\ Others(p)
  /\ UNCHANGED <<disk, suspect>>
  /\ killed' = TRUE \/ (procs'[p].pc = "remove" /\ UNCHANGED killed)
  /\ KeepsFiles \/ (Saving(p) /\ \E file : Puts(p, file))

Removes(p) ==
  /\ procs'[p].pc = "idle" /\ ~Saving(p) /\ Others(p) /\ KeepsFiles
  /\ disk' = [disk EXCEPT !["tmp"] = 0] /\ UNCHANGED <<suspect, killed>>

(* A step that has nothing to do with path.tmp. *)
Quiet(p) ==
  /\ ~HasTmp(p) /\ ~(procs'[p].pc \in SavingPcs \cup {"remove"}) /\ Others(p) /\ KeepsFiles
  /\ UNCHANGED <<suspect, killed>>
  /\ disk' \in {disk, [disk EXCEPT !["path"] = 0]}

LEMMA Turning ==
  ASSUME Programs, NEW p \in Procs, NEW r, Becomes(p, r)
  PROVE  Others(p) /\ procs'[p] = r
  BY DEF Programs, Becomes, Others

LEMMA Going ==
  ASSUME Programs, NEW p \in Procs, NEW point, Goes(p, point)
  PROVE  Others(p) /\ Same(p) /\ procs'[p].pc = point
<1>1. Others(p) /\ procs'[p] = [procs[p] EXCEPT !.pc = point]
  BY Turning DEF Goes
<1>2. DOMAIN procs[p] = {"pc", "mode", "cfg", "base", "fd", "alone", "edited", "flags", "args"}
  BY ProgramFields DEF Programs
<1> QED
  BY <1>1, <1>2 DEF Same

LEMMA WholeIsData ==
  ASSUME NEW c, IsConfig(c)
  PROVE  IsData(Whole(c)) /\ IsData(Empty) /\ \A data \in Torn : IsData(data)
  BY NothingIsConfig, ConfigurationAssumption DEF IsData, Whole, Empty, Torn, Malformed

LEMMA OpenFile ==
  ASSUME Programs, Files, NEW p \in Procs, Saving(p)
  PROVE  /\ procs[p].fd \in Live /\ procs[p].fd # 0 /\ procs[p].fd \in Inodes
         /\ IsFile(FileOf(p)) /\ IsConfig(procs[p].cfg)
<1>1. procs[p].fd # 0 /\ procs[p].fd \in Inodes /\ IsConfig(procs[p].cfg)
  BY DEF Programs, Sound, IsProgram, Saving
<1>2. procs[p].fd \in Live
  BY <1>1 DEF Live
<1> QED
  BY <1>1, <1>2 DEF Files, FileOf

LEMMA WriteCase ==
  ASSUME Programs, Files, NEW p \in Procs, WriteTmp(p)
  PROVE  Writes(p)
<1>1. At(p, "write") /\ Saving(p) /\ UNCHANGED <<disk, suspect, killed>>
  BY DEF WriteTmp, At, Saving, SavingPcs
<1>2. procs'[p].pc = "sync" /\ Others(p) /\ Same(p)
  BY Going DEF WriteTmp
<1>3. PICK data \in {Whole(Encoded(p))} \cup (IF FileOf(p).data = Empty THEN {} ELSE {Malformed}) :
        Changed(procs[p].fd, [data |-> data, synced |-> FALSE])
  BY DEF WriteTmp, FileOf
<1> DEFINE file == [data |-> data, synced |-> FALSE]
<1>4. IsData(data)
  BY <1>1, <1>3, OpenFile, WholeIsData DEF Encoded, Torn
<1>5. IsFile(file) /\ file.data = data
  BY <1>4 DEF IsFile
<1>6. Changed(procs[p].fd, file)
  BY <1>3
<1> HIDE DEF file
<1>7. Puts(p, file)
  BY <1>5, <1>6 DEF Puts, Changed
<1>8. FileOf(p).data = Empty => file.data = Whole(procs[p].cfg)
  BY <1>3, <1>5 DEF Encoded
<1> QED
  BY <1>1, <1>2, <1>7, <1>8 DEF Writes

LEMMA FlushCase ==
  ASSUME Programs, Files, NEW p \in Procs, SyncTmp(p)
  PROVE  Flushes(p)
<1>1. At(p, "sync") /\ Saving(p) /\ UNCHANGED <<disk, suspect, killed>>
  BY DEF SyncTmp, At, Saving, SavingPcs
<1>2. procs'[p].pc = "rename" /\ Others(p) /\ Same(p)
  BY Going DEF SyncTmp
<1> DEFINE file == [FileOf(p) EXCEPT !.synced = TRUE]
<1>3. Changed(procs[p].fd, file)
  BY DEF SyncTmp, Flushed, FileOf
<1>4. IsFile(file) /\ file.data = FileOf(p).data /\ file.synced = TRUE
  BY <1>1, OpenFile DEF IsFile
<1> HIDE DEF file
<1>5. Puts(p, file)
  BY <1>3, <1>4 DEF Puts, Changed
<1> QED
  BY <1>1, <1>2, <1>4, <1>5 DEF Flushes

LEMMA RenameCase ==
  ASSUME Programs, Files, NEW p \in Procs, RenameTmp(p)
  PROVE  Renames(p)
<1>1. /\ At(p, "rename") /\ disk["tmp"] # 0 /\ suspect' = (suspect /\ ~procs[p].alone)
      /\ UNCHANGED killed
  BY DEF RenameTmp
<1>2. Others(p) /\ procs'[p] = AfterSave(p)
  BY Turning DEF RenameTmp
<1>3. AfterSave(p).pc \in {"session", "idle"}
  <2>1. "pc" \in DOMAIN procs[p]
    BY ProgramFields DEF Programs
  <2> QED
    BY <2>1 DEF AfterSave, Idle
<1>4. /\ disk'["path"] = disk["tmp"] /\ disk'["tmp"] = 0
      /\ disk' \in [{"path", "tmp"} -> Inodes \cup {0}]
  BY DEF RenameTmp, Files
<1>5. KeepsFiles
  BY DEF RenameTmp, Kept, KeepsFiles
<1> QED
  BY <1>1, <1>2, <1>3, <1>4, <1>5 DEF Renames

LEMMA StopCase ==
  ASSUME Programs, Files, NEW p \in Procs, SaveFails(p) \/ RenameMisses(p) \/ Kill(p)
  PROVE  Stops(p)
<1>1. ASSUME Kept
      PROVE  KeepsFiles
  BY <1>1 DEF Kept, KeepsFiles
<1>2. CASE SaveFails(p)
  <2>1. Others(p) /\ procs'[p].pc = "remove"
    BY <1>2, Turning DEF SaveFails, Failing, Idle
  <2>2. Saving(p) /\ UNCHANGED <<disk, suspect, killed>>
    BY <1>2 DEF SaveFails
  <2>3. KeepsFiles \/ \E file : Puts(p, file)
    <3>1. ASSUME NEW data \in Torn, Changed(procs[p].fd, [data |-> data, synced |-> FALSE])
          PROVE  \E file : Puts(p, file)
      <4> DEFINE file == [data |-> data, synced |-> FALSE]
      <4>1. IsFile(file)
        BY <2>2, <3>1, OpenFile, WholeIsData DEF IsFile
      <4>2. Changed(procs[p].fd, file)
        BY <3>1
      <4> HIDE DEF file
      <4> QED
        BY <4>1, <4>2 DEF Puts, Changed
    <3> QED
      BY <1>1, <1>2, <3>1 DEF SaveFails
  <2> QED
    BY <2>1, <2>2, <2>3 DEF Stops, HasTmp
<1>3. CASE RenameMisses(p)
  <2>1. Others(p) /\ procs'[p].pc = "remove"
    BY <1>3, Turning DEF RenameMisses, Failing, Idle
  <2>2. HasTmp(p)
    BY <1>3 DEF RenameMisses, HasTmp, Saving, SavingPcs, At
  <2>3. KeepsFiles
    BY <1>1, <1>3 DEF RenameMisses
  <2>4. UNCHANGED <<disk, suspect, killed>>
    BY <1>3 DEF RenameMisses
  <2> QED
    BY <2>1, <2>2, <2>3, <2>4 DEF Stops
<1>4. CASE Kill(p)
  <2>1. Others(p) /\ procs'[p].pc = "idle"
    BY <1>4, Turning DEF Kill, Idle
  <2>2. HasTmp(p) /\ UNCHANGED <<disk, suspect>> /\ killed' = TRUE
    BY <1>4 DEF Kill
  <2>3. KeepsFiles
    BY <1>1, <1>4 DEF Kill
  <2> QED
    BY <2>1, <2>2, <2>3 DEF Stops
<1> QED
  BY <1>2, <1>3, <1>4

LEMMA RemoveCase ==
  ASSUME Programs, Files, NEW p \in Procs, CleanUp(p)
  PROVE  Removes(p)
<1>1. Others(p) /\ procs'[p].pc = "idle"
  BY Turning DEF CleanUp, Idle
<1>2. ~Saving(p) /\ disk' = [disk EXCEPT !["tmp"] = 0] /\ UNCHANGED <<suspect, killed>>
  BY DEF CleanUp, RemoveTmp, At, Saving, SavingPcs
<1>3. KeepsFiles
  BY DEF CleanUp, Kept, KeepsFiles
<1> QED
  BY <1>1, <1>2, <1>3 DEF Removes

LEMMA Untouched ==
  ASSUME Programs, Files, NEW p \in Procs, Others(p), procs'[p].fd = procs[p].fd,
         UNCHANGED <<disk, inodes>>
  PROVE  KeepsFiles
<1>1. \A q \in Procs : procs'[q].fd = procs[q].fd
  BY DEF Others
<1>2. Live' = Live
  BY <1>1 DEF Live
<1> QED
  BY <1>2 DEF Files, KeepsFiles

LEMMA CheckedPcs ==
  ASSUME NEW r, DOMAIN r = DOMAIN Idle
  PROVE  Checked(r).pc \in {"ask", "ready", "idle"}
  BY DEF Checked, Idle

LEMMA QuietCase ==
  ASSUME Programs, Files, Programs', NEW p \in Procs, OpenFails(p) \/ Edit(p) \/ Sync(p)
  PROVE  Quiet(p)
<1> DEFINE pcs == {"idle", "load", "form", "session", "open", "ask", "ready"}
<1>1. DOMAIN procs[p] = DOMAIN Idle
  BY DEF Programs, Sound, IsProgram
<1>2. ASSUME procs[p].pc \in pcs, procs'[p].pc \in pcs, Others(p), UNCHANGED <<suspect, killed>>,
             UNCHANGED <<disk, inodes>> \/ (Kept /\ disk' \in {disk, [disk EXCEPT !["path"] = 0]})
      PROVE  Quiet(p)
  <2>1. ~HasTmp(p) /\ ~(procs'[p].pc \in SavingPcs \cup {"remove"})
    BY <1>2 DEF HasTmp, Saving, SavingPcs
  <2>2. procs[p].fd = 0 /\ procs'[p].fd = 0
    BY <1>2, <2>1 DEF Programs, Sound, IsProgram, HasTmp, Saving
  <2>3. KeepsFiles
    BY <1>2, <2>2, Untouched DEF Kept, KeepsFiles
  <2> QED
    BY <1>2, <2>1, <2>3 DEF Quiet
<1>3. CASE OpenFails(p)
  <2>1. Others(p) /\ procs'[p] = Idle
    BY <1>3, Turning DEF OpenFails
  <2> QED
    BY <1>2, <1>3, <2>1 DEF OpenFails, At, Idle
<1>4. CASE StartEditor(p)
  <2>1. PICK mode \in {"app", "edit"} : Becomes(p, [Idle EXCEPT !.pc = "load", !.mode = mode])
    BY <1>4 DEF StartEditor, Start
  <2>2. Others(p) /\ procs'[p] = [Idle EXCEPT !.pc = "load", !.mode = mode]
    BY <2>1, Turning
  <2>3. procs'[p].pc = "load"
    BY <2>2 DEF Idle
  <2> QED
    BY <1>2, <1>4, <2>2, <2>3 DEF StartEditor, Start, At
<1>5. CASE StartReset(p)
  <2>1. Others(p) /\ procs'[p] = [Idle EXCEPT !.pc = "load", !.mode = "reset"]
    BY <1>5, Turning DEF StartReset, Start
  <2>2. procs'[p].pc = "load"
    BY <2>1 DEF Idle
  <2> QED
    BY <1>2, <1>5, <2>1, <2>2 DEF StartReset, Start, At
<1>6. CASE LoadEditor(p)
  <2> DEFINE data == DataAt("path")
             file == FromFileTui(data.cfg)
             found == IF EnvParses(env) THEN ApplyEnv(file, env) ELSE file
             cfg == IF procs[p].mode = "reset" THEN Defaults ELSE found
             point == IF procs[p].mode # "app" \/ LoadFails(data) \/ ~EnvParses(env) \/ ~Valid(cfg)
                      THEN "form" ELSE "session"
             next == [procs[p] EXCEPT !.pc = point, !.cfg = cfg, !.base = data]
  <2>1. Becomes(p, next)
    BY <1>6, Zenon DEF LoadEditor, Loaded
  <2>2. Others(p) /\ procs'[p] = next
    BY <2>1, Turning
  <2>3. procs'[p].pc \in {"form", "session"}
    <3>1. point \in {"form", "session"}
      OBVIOUS
    <3> HIDE DEF point
    <3> QED
      BY <1>1, <2>2, <3>1 DEF Idle
  <2> HIDE DEF next
  <2> QED
    BY <1>2, <1>6, <2>2, <2>3 DEF LoadEditor, At
<1>7. CASE FillForm(p)
  <2> DEFINE next(edit) == [procs[p] EXCEPT !.pc = "open", !.cfg = Over(edit, @),
                                            !.edited = DOMAIN edit]
  <2>1. PICK edit : Becomes(p, next(edit))
    BY <1>7 DEF FillForm
  <2>2. Others(p) /\ procs'[p] = next(edit)
    BY <2>1, Turning
  <2>3. procs'[p].pc = "open"
    BY <1>1, <2>2 DEF Idle
  <2> QED
    BY <1>2, <1>7, <2>2, <2>3 DEF FillForm, At
<1>8. CASE OpenSettings(p)
  <2>1. Others(p) /\ procs'[p].pc = "form"
    BY <1>8, Going DEF OpenSettings
  <2> QED
    BY <1>2, <1>8, <2>1 DEF OpenSettings, At
<1>9. CASE AbortForm(p) \/ EndSession(p) \/ SyncEnds(p)
  <2>1. Others(p) /\ procs'[p].pc = "idle"
    BY <1>9, Turning DEF AbortForm, EndSession, SyncEnds, Idle
  <2> QED
    BY <1>2, <1>9, <2>1 DEF AbortForm, EndSession, SyncEnds, At
<1>10. CASE Resolve(p)
  <2>1. PICK r : Becomes(p, r) /\ r.pc \in {"ask", "ready", "idle"}
    <3> DEFINE resolved(cfg, flags, args) ==
                 [Idle EXCEPT !.cfg = cfg, !.base = DataAt("path"),
                              !.flags = flags, !.args = args]
    <3>1. PICK cfg, flags, args :
            Becomes(p, Idle) \/ Becomes(p, Checked(resolved(cfg, flags, args)))
      <4> HIDE DEF resolved
      <4> DEFINE given(flags, args) == ApplyPositional(flags, args)
                 cfg(flags, args) == Layered(DataAt("path").cfg, env, given(flags, args))
                 refused(flags, args) ==
                   \/ ~EnvParses(env)
                   \/ LoadFails(DataAt("path")) /\ ~HostsProvided(env, given(flags, args))
      <4>1. PICK flags \in FlagSets, args \in Arguments :
              Start(p, "syncs", IF refused(flags, args) THEN Idle
                                ELSE Checked(resolved(cfg(flags, args), flags, args)))
        BY <1>10, Zenon DEF Resolve, Loaded, resolved
      <4> HIDE DEF refused, cfg
      <4> QED
        BY <4>1 DEF Start
    <3>2. DOMAIN resolved(cfg, flags, args) = DOMAIN Idle
      OBVIOUS
    <3> HIDE DEF resolved
    <3>3. Idle.pc = "idle" /\ Checked(resolved(cfg, flags, args)).pc \in {"ask", "ready", "idle"}
      BY <3>2, CheckedPcs DEF Idle
    <3> QED
      BY <3>1, <3>3
  <2>2. Others(p) /\ procs'[p] = r
    BY <2>1, Turning
  <2> QED
    BY <1>2, <1>10, <2>1, <2>2 DEF Resolve, Start, At
<1>11. CASE AskInfisical(p)
  <2>1. PICK r : Becomes(p, r) /\ r.pc \in {"ask", "ready", "idle"}
    <3>1. ASSUME NEW name
          PROVE  Checked([procs[p] EXCEPT !.cfg = FillDatabases(@, name)]).pc
                   \in {"ask", "ready", "idle"}
      BY <1>1, CheckedPcs
    <3>2. Idle.pc = "idle"
      BY DEF Idle
    <3> QED
      BY <1>11, <3>1, <3>2 DEF AskInfisical
  <2>2. Others(p) /\ procs'[p] = r
    BY <2>1, Turning
  <2> QED
    BY <1>2, <1>11, <2>1, <2>2 DEF AskInfisical, At
<1> QED
  BY <1>3, <1>4, <1>5, <1>6, <1>7, <1>8, <1>9, <1>10, <1>11 DEF Edit, Sync

LEMMA FileCases ==
  ASSUME Programs, Files, [ConfigNext]_configVars, Programs'
  PROVE  \/ \E p \in Procs : \/ OpenTmp(p) \/ Writes(p) \/ Flushes(p) \/ Renames(p)
                            \/ Stops(p) \/ Removes(p) \/ Quiet(p)
         \/ PowerLoss \/ UNCHANGED configVars
<1>1. ASSUME NEW p \in Procs, Save(p)
      PROVE  \/ OpenTmp(p) \/ Writes(p) \/ Flushes(p) \/ Renames(p)
             \/ Stops(p) \/ Removes(p) \/ Quiet(p)
  BY <1>1, WriteCase, FlushCase, RenameCase, StopCase, RemoveCase, QuietCase DEF Save
<1>2. ASSUME NEW p \in Procs, Edit(p) \/ Sync(p) \/ Kill(p)
      PROVE  Stops(p) \/ Quiet(p)
  BY <1>2, StopCase, QuietCase
<1> QED
  BY <1>1, <1>2 DEF ConfigNext, Finished

-----------------------------------------------------------------------------
(* The parts about the files are kept, one by one. *)

LEMMA NotSaving ==
  ASSUME Programs, NEW p \in Procs
  PROVE  procs[p].fd = 0 <=> ~Saving(p)
  BY DEF Programs, Sound, IsProgram, Saving

LEMMA NotSavingNext ==
  ASSUME Programs', NEW p \in Procs
  PROVE  procs'[p].fd = 0 <=> ~(procs'[p].pc \in SavingPcs)
  BY DEF Programs, Sound, IsProgram

(* What a step of p leaves open or named was so before. *)
LEMMA NoMore ==
  ASSUME NEW p \in Procs, Others(p), procs'[p].fd \in {procs[p].fd, 0},
         disk'["path"] \in {disk["path"], disk["tmp"], 0}, disk'["tmp"] \in {disk["tmp"], 0}
  PROVE  Live' \subseteq Live
  BY DEF Live, Others

LEMMA LiveStep ==
  ASSUME Programs, Files, Programs', NEW p \in Procs,
         Writes(p) \/ Flushes(p) \/ Renames(p) \/ Stops(p) \/ Removes(p) \/ Quiet(p)
  PROVE  /\ Live' \subseteq Live /\ disk' \in [{"path", "tmp"} -> Inodes \cup {0}]
         /\ suspect' \in BOOLEAN
<1>1. CASE Writes(p) \/ Flushes(p)
  <2>1. Others(p) /\ procs'[p].fd = procs[p].fd /\ UNCHANGED <<disk, suspect>>
    BY <1>1 DEF Writes, Flushes, Same
  <2> QED
    BY <2>1, NoMore DEF Files
<1>2. CASE Renames(p)
  <2>1. procs'[p].fd = 0
    BY <1>2, NotSavingNext DEF Renames, SavingPcs
  <2> QED
    BY <1>2, <2>1, NoMore DEF Renames, Files
<1>3. CASE Stops(p)
  <2>1. procs'[p].fd = 0
    BY <1>3, NotSavingNext DEF Stops, SavingPcs
  <2> QED
    BY <1>3, <2>1, NoMore DEF Stops, Files
<1>4. CASE Removes(p)
  <2>1. procs'[p].fd = 0
    BY <1>4, NotSavingNext DEF Removes, SavingPcs
  <2>2. /\ disk'["path"] = disk["path"] /\ disk'["tmp"] = 0
        /\ disk' \in [{"path", "tmp"} -> Inodes \cup {0}]
    BY <1>4 DEF Removes, Files
  <2> QED
    BY <1>4, <2>1, <2>2, NoMore DEF Removes, Files
<1>5. CASE Quiet(p)
  <2>1. procs'[p].fd = 0
    BY <1>5, NotSavingNext DEF Quiet
  <2>2. /\ disk'["path"] \in {disk["path"], 0} /\ disk'["tmp"] = disk["tmp"]
        /\ disk' \in [{"path", "tmp"} -> Inodes \cup {0}]
    BY <1>5 DEF Quiet, Files
  <2> QED
    BY <1>5, <2>1, <2>2, NoMore DEF Quiet, Files
<1> QED
  BY <1>1, <1>2, <1>3, <1>4, <1>5

LEMMA PowerKeeps ==
  ASSUME Files, PowerLoss
  PROVE  /\ Live' \subseteq Live /\ DOMAIN inodes' = Live' /\ UNCHANGED <<disk, suspect>>
         /\ \A i \in Live' : IsFile(inodes'[i]) /\ inodes'[i].synced = TRUE
         /\ \A i \in Live' : inodes[i].synced = TRUE => inodes'[i].data = inodes[i].data
<1>1. Live' \subseteq Live
  BY DEF PowerLoss, Live, Idle
<1>2. PICK data \in [Live' -> UNION {Remains(inodes[i]) : i \in Live'}] :
        /\ \A i \in Live' : data[i] \in Remains(inodes[i])
        /\ inodes' = [i \in Live' |-> [data |-> data[i], synced |-> TRUE]]
  BY DEF PowerLoss
<1>3. ASSUME NEW i \in Live'
      PROVE  /\ IsFile(inodes'[i]) /\ inodes'[i].synced = TRUE
             /\ inodes[i].synced = TRUE => inodes'[i].data = inodes[i].data
  <2>1. IsData(inodes[i].data) /\ IsData(Empty) /\ \A d \in Torn : IsData(d)
    BY <1>1, <1>3, WholeIsData, NothingIsConfig DEF Files, IsFile
  <2>2. IsData(data[i]) /\ (inodes[i].synced = TRUE => data[i] = inodes[i].data)
    BY <1>2, <1>3, <2>1 DEF Remains
  <2>3. inodes'[i] = [data |-> data[i], synced |-> TRUE]
    BY <1>2, <1>3
  <2> QED
    BY <2>2, <2>3 DEF IsFile
<1> QED
  BY <1>1, <1>2, <1>3 DEF PowerLoss

LEMMA FilesStep ==
  ASSUME Programs, Files, [ConfigNext]_configVars, Programs'
  PROVE  Files'
<1>1. CASE \E p \in Procs : OpenTmp(p)
  <2> PICK p \in Procs : OpenTmp(p)
    BY <1>1
  <2> DEFINE i == disk'["tmp"]
             new == [data |-> Empty, synced |-> FALSE]
  <2>1. /\ disk' = [disk EXCEPT !["tmp"] = i] /\ i \in Inodes
        /\ inodes' = [j \in Live' |-> IF j = i THEN new ELSE inodes[j]]
    BY OpenNames
  <2>2. \A q \in Procs \ {p} : procs'[q].fd = procs[q].fd
    <3>1. ASSUME NEW q \in Procs \ {p}
          PROVE  procs'[q] = [procs[q] EXCEPT
                                !.alone = @ /\ q \notin {o \in Procs \ {p} : Saving(o)}]
      BY Zenon DEF OpenTmp
    <3>2. ASSUME NEW q \in Procs \ {p}
          PROVE  "fd" \in DOMAIN procs[q]
      BY ProgramFields DEF Programs
    <3> QED
      BY <3>1, <3>2
  <2>3. procs'[p].fd = i
    BY OpenNames
  <2>4. disk'["path"] = disk["path"] /\ disk' \in [{"path", "tmp"} -> Inodes \cup {0}]
    BY <2>1 DEF Files
  <2>5. Live' \subseteq Live \cup {i}
    BY <2>2, <2>3, <2>4 DEF Live
  <2>6. IsFile(new)
    BY NothingIsConfig DEF IsFile, IsData, Empty
  <2>7. suspect' \in BOOLEAN
    BY DEF OpenTmp, Files
  <2> HIDE DEF new, i
  <2> QED
    BY <2>1, <2>4, <2>5, <2>6, <2>7 DEF Files
<1>2. ASSUME NEW p \in Procs,
             Writes(p) \/ Flushes(p) \/ Renames(p) \/ Stops(p) \/ Removes(p) \/ Quiet(p)
      PROVE  Files'
  <2>1. /\ Live' \subseteq Live /\ disk' \in [{"path", "tmp"} -> Inodes \cup {0}]
        /\ suspect' \in BOOLEAN
    BY <1>2, LiveStep
  <2>2. KeepsFiles \/ \E file : Puts(p, file)
    BY <1>2 DEF Writes, Flushes, Renames, Stops, Removes, Quiet
  <2> QED
    BY <2>1, <2>2 DEF Files, KeepsFiles, Puts
<1>3. CASE PowerLoss
  <2>1. disk' \in [{"path", "tmp"} -> Inodes \cup {0}] /\ suspect' \in BOOLEAN
    BY <1>3, PowerKeeps DEF Files
  <2>2. DOMAIN inodes' = Live'
    BY <1>3, PowerKeeps
  <2>3. \A i \in Live' : IsFile(inodes'[i])
    BY <1>3, PowerKeeps
  <2> QED
    BY <2>1, <2>2, <2>3 DEF Files
<1>4. CASE UNCHANGED configVars
  BY <1>4 DEF configVars, Files, Live
<1> QED
  BY <1>1, <1>2, <1>3, <1>4, FileCases

(* Saves stay apart. *)
LEMMA ApartStep ==
  ASSUME Programs, Files, Apart, [ConfigNext]_configVars, Programs', Files'
  PROVE  Apart'
<1>1. ASSUME NEW p \in Procs, Saving(p), procs[p].alone
      PROVE  Alone(p) /\ \A q \in Procs \ {p} : ~Saving(q)
  BY <1>1 DEF Apart, Alone
<1>2. CASE \E p \in Procs : OpenTmp(p)
  <2> PICK p \in Procs : OpenTmp(p)
    BY <1>2
  <2> DEFINE i == disk'["tmp"]
             others == {o \in Procs \ {p} : Saving(o)}
  <2>1. disk'["tmp"] # disk'["path"]
    <3>1. disk'["path"] = disk["path"] /\ i # 0
      <4>1. disk' = [disk EXCEPT !["tmp"] = i] /\ i \in Inodes
        BY OpenNames
      <4> QED
        BY <4>1 DEF Files, Inodes
    <3>2. disk["path"] \in Live \cup {0}
      BY DEF Live
    <3>3. CASE disk["tmp"] # 0
      BY <3>1, <3>3, OpenNames DEF Apart
    <3>4. CASE disk["tmp"] = 0
      BY <3>1, <3>2, <3>4, OpenNames
    <3> QED
      BY <3>3, <3>4
  <2>2. suspect' = (suspect \/ others # {})
    BY DEF OpenTmp
  <2>3. /\ procs'[p].pc = "write" /\ procs'[p].fd = i
        /\ procs'[p].alone <=> others = {}
    <3>1. procs'[p] = [procs[p] EXCEPT !.pc = "write", !.fd = procs'[p].fd,
                                       !.alone = (others = {})]
      <4>1. PICK j : procs'[p] = [procs[p] EXCEPT !.pc = "write", !.fd = j,
                                                  !.alone = (others = {})]
        BY Zenon DEF OpenTmp
      <4>2. {"pc", "fd", "alone"} \subseteq DOMAIN procs[p]
        BY ProgramFields DEF Programs
      <4> QED
        BY <4>1, <4>2
    <3>2. {"pc", "fd", "alone"} \subseteq DOMAIN procs[p]
      BY ProgramFields DEF Programs
    <3> QED
      BY <3>1, <3>2, OpenNames
  <2>4. ASSUME NEW q \in Procs \ {p}
        PROVE  /\ procs'[q].pc = procs[q].pc /\ procs'[q].fd = procs[q].fd
               /\ procs'[q].alone <=> procs[q].alone /\ q \notin others
    <3>1. procs'[q] = [procs[q] EXCEPT !.alone = @ /\ q \notin others]
      BY Zenon DEF OpenTmp
    <3>2. {"pc", "fd", "alone"} \subseteq DOMAIN procs[q]
      BY ProgramFields DEF Programs
    <3> QED
      BY <3>1, <3>2
  <2>5. ASSUME NEW q \in Procs
        PROVE  Alone(q)' /\ (Saving(q) /\ ~procs[q].alone => suspect)'
    <3>1. CASE q = p
      <4>1. others = {} => \A o \in Procs \ {p} : ~Saving(o)'
        BY <2>4 DEF Saving
      <4>2. FileOf(p)' = [data |-> Empty, synced |-> FALSE]
        <5>0. i # 0
          BY OpenNames DEF Inodes
        <5>1. i \in Live'
          BY <5>0, <2>3 DEF Live
        <5> QED
          BY <2>3, <5>1, OpenNames DEF FileOf
      <4>3. Alone(p)'
        BY <2>1, <2>3, <4>1, <4>2 DEF Alone, Saving, At
      <4> QED
        BY <2>2, <2>3, <3>1, <4>3
    <3>2. CASE q # p
      <4>1. Saving(q)' => q \in others
        BY <2>4, <3>2 DEF Saving
      <4>2. Saving(q)' => ~procs'[q].alone
        BY <2>4, <3>2, <4>1
      <4> QED
        BY <2>2, <4>1, <4>2 DEF Alone
    <3> QED
      BY <3>1, <3>2
  <2> QED
    BY <2>1, <2>5 DEF Apart
<1>3. ASSUME NEW p \in Procs, Saving(p), Others(p),
             NEW q \in Procs \ {p}, procs'[q].pc \in SavingPcs
      PROVE  ~procs'[q].alone /\ suspect /\ ~procs[p].alone
  <2>1. procs'[q] = procs[q]
    BY <1>3 DEF Others
  <2>2. Saving(q)
    BY <1>3, <2>1 DEF Saving
  <2>3. ~procs[q].alone /\ ~procs[p].alone
    BY <1>1, <1>3, <2>2
  <2> QED
    BY <2>1, <2>2, <2>3 DEF Apart
<1>4. CASE \E p \in Procs : Writes(p) \/ Flushes(p)
  <2> PICK p \in Procs : Writes(p) \/ Flushes(p)
    BY <1>4
  <2>1. /\ Saving(p) /\ Others(p) /\ Same(p) /\ UNCHANGED <<disk, suspect>>
        /\ procs'[p].pc \in {"sync", "rename"}
    BY DEF Writes, Flushes, Saving, SavingPcs, At
  <2>2. ASSUME procs[p].alone
        PROVE  Alone(p)'
    <3>1. /\ \A o \in Procs \ {p} : ~Saving(o)'
          /\ disk'["tmp"] \in {0, procs'[p].fd} /\ disk'["path"] # procs'[p].fd
      BY <1>1, <2>1, <2>2 DEF Alone, Others, Same, Saving
    <3>2. procs[p].fd \in Live'
      BY <2>1, OpenFile DEF Live, Same
    <3>3. FileOf(p).data = IF At(p, "write") THEN Empty ELSE Whole(procs[p].cfg)
      BY <1>1, <2>1, <2>2 DEF Alone
    <3>4. /\ FileOf(p)'.data = Whole(procs[p].cfg)
          /\ procs'[p].pc = "rename" => FileOf(p)'.synced = TRUE
      BY <2>1, <3>2, <3>3 DEF Writes, Flushes, Puts, FileOf, Same, At
    <3> QED
      BY <2>1, <3>1, <3>4 DEF Alone, At, Same
  <2>3. ASSUME NEW q \in Procs
        PROVE  Alone(q)' /\ (Saving(q) /\ ~procs[q].alone => suspect)'
    <3>1. CASE q = p
      BY <2>1, <2>2, <3>1 DEF Apart, Alone, Same
    <3>2. CASE q # p
      BY <1>3, <2>1, <3>2 DEF Alone, Saving
    <3> QED
      BY <3>1, <3>2
  <2> QED
    BY <2>1, <2>3 DEF Apart
<1>5. CASE \E p \in Procs : Renames(p)
  <2> PICK p \in Procs : Renames(p)
    BY <1>5
  <2>1. /\ Saving(p) /\ Others(p) /\ ~Saving(p)' /\ disk'["tmp"] = 0
        /\ suspect' = (suspect /\ ~procs[p].alone)
    BY DEF Renames, Saving, SavingPcs, At
  <2>2. ASSUME NEW q \in Procs
        PROVE  Alone(q)' /\ (Saving(q) /\ ~procs[q].alone => suspect)'
    <3>1. CASE q = p
      BY <2>1, <3>1 DEF Alone
    <3>2. CASE q # p
      BY <1>3, <2>1, <3>2 DEF Alone, Saving
    <3> QED
      BY <3>1, <3>2
  <2> QED
    BY <2>1, <2>2 DEF Apart
<1>6. ASSUME NEW p \in Procs, Others(p), UNCHANGED suspect, procs'[p].pc \notin SavingPcs,
             Saving(p) \/ KeepsFiles,
             disk'["tmp"] \in {disk["tmp"], 0}, disk'["path"] \in {disk["path"], 0}
      PROVE  Apart'
  <2>1. ASSUME NEW q \in Procs \ {p}, Saving(q)', ~Saving(p)
        PROVE  Alone(q)' /\ (~procs'[q].alone => suspect')
    <3>1. procs'[q] = procs[q] /\ Saving(q)
      BY <1>6, <2>1 DEF Others, Saving
    <3>2. procs[q].fd \in Live' /\ procs[q].fd # 0
      BY <3>1, OpenFile DEF Live
    <3>3. FileOf(q)' = FileOf(q)
      BY <1>6, <2>1, <3>1, <3>2 DEF KeepsFiles, FileOf
    <3>4. \A o \in Procs \ {q} : ~Saving(o) => ~Saving(o)'
      BY <1>6 DEF Others, Saving
    <3>5. Alone(q) /\ (~procs[q].alone => suspect)
      BY <3>1 DEF Apart
    <3> QED
      BY <1>6, <3>1, <3>2, <3>3, <3>4, <3>5 DEF Alone, At
  <2>2. ASSUME NEW q \in Procs
        PROVE  Alone(q)' /\ (Saving(q) /\ ~procs[q].alone => suspect)'
    <3>1. CASE q = p
      BY <1>6, <3>1 DEF Alone, Saving
    <3>2. CASE q # p /\ Saving(p)
      BY <1>3, <1>6, <3>2 DEF Alone, Saving
    <3>3. CASE q # p /\ ~Saving(p)
      BY <2>1, <3>3 DEF Alone
    <3> QED
      BY <3>1, <3>2, <3>3
  <2> QED
    BY <1>6, <2>2 DEF Apart
<1>7. CASE \E p \in Procs : Stops(p) \/ Removes(p) \/ Quiet(p)
  <2> PICK p \in Procs : Stops(p) \/ Removes(p) \/ Quiet(p)
    BY <1>7
  <2>1. Others(p) /\ UNCHANGED suspect /\ procs'[p].pc \notin SavingPcs
    BY DEF Stops, Removes, Quiet, SavingPcs
  <2>2. Saving(p) \/ KeepsFiles
    BY DEF Stops, Removes, Quiet
  <2>3. disk'["tmp"] \in {disk["tmp"], 0} /\ disk'["path"] \in {disk["path"], 0}
    BY DEF Stops, Removes, Quiet, Files
  <2> QED
    BY <1>6, <2>1, <2>2, <2>3
<1>8. CASE PowerLoss
  BY <1>8 DEF PowerLoss, Apart, Alone, Saving, Idle, SavingPcs
<1>9. CASE UNCHANGED configVars
  BY <1>9 DEF configVars, Apart, Alone, Saving, At, FileOf
<1> QED
  BY <1>2, <1>4, <1>5, <1>7, <1>8, <1>9, FileCases

(* The name of the configuration goes from whole file to whole file.       *)
LEMMA WholeStep ==
  ASSUME Programs, Files, Apart, WholeAndSynced, [ConfigNext]_configVars, Programs', Files'
  PROVE  WholeAndSynced'
<1> SUFFICES ASSUME disk'["path"] # 0, ~suspect'
             PROVE  /\ inodes'[disk'["path"]].data.kind = "whole"
                    /\ inodes'[disk'["path"]].synced = TRUE
  BY DEF WholeAndSynced
<1> DEFINE i == disk'["path"]
<1>1. i \in Live'
  BY DEF Live
<1>2. ASSUME disk'["path"] = disk["path"], ~suspect, inodes'[i] = inodes[i]
      PROVE  inodes'[i].data.kind = "whole" /\ inodes'[i].synced = TRUE
  BY <1>2 DEF WholeAndSynced
<1>3. CASE \E p \in Procs : OpenTmp(p)
  <2> PICK p \in Procs : OpenTmp(p)
    BY <1>3
  <2>1. i = disk["path"] /\ ~suspect
    <3>1. disk' = [disk EXCEPT !["tmp"] = disk'["tmp"]]
      BY OpenNames
    <3> QED
      BY <3>1 DEF OpenTmp, Files
  <2>2. i # disk'["tmp"]
    <3>1. disk["tmp"] # 0 => disk["tmp"] # i
      BY <2>1 DEF Apart
    <3>2. i \in Live
      BY <2>1 DEF Live
    <3> QED
      BY <3>1, <3>2, OpenNames
  <2> HIDE DEF i
  <2>3. inodes'[i] = inodes[i]
    BY <1>1, <2>2, OpenNames
  <2> QED
    BY <1>2, <2>1, <2>3 DEF i
<1>4. CASE \E p \in Procs : Writes(p) \/ Flushes(p)
  <2> PICK p \in Procs : Writes(p) \/ Flushes(p)
    BY <1>4
  <2>1. UNCHANGED <<disk, suspect>> /\ Saving(p)
    BY DEF Writes, Flushes, Saving, SavingPcs, At
  <2>2. i # procs[p].fd
    BY <2>1 DEF Apart, Alone
  <2>3. inodes'[i] = inodes[i]
    BY <1>1, <2>2 DEF Writes, Flushes, Puts
  <2> QED
    BY <1>2, <2>1, <2>3
<1>5. CASE \E p \in Procs : Renames(p)
  <2> PICK p \in Procs : Renames(p)
    BY <1>5
  <2>1. Saving(p) /\ At(p, "rename") /\ disk["tmp"] # 0 /\ i = disk["tmp"]
    BY DEF Renames, Saving, SavingPcs, At
  <2>2. procs[p].alone
    BY <2>1 DEF Renames, Apart
  <2>3. /\ i = procs[p].fd /\ FileOf(p).synced = TRUE
        /\ FileOf(p).data = Whole(procs[p].cfg)
    BY <2>1, <2>2 DEF Apart, Alone, At
  <2>4. inodes'[i] = FileOf(p)
    BY <1>1, <2>3 DEF Renames, KeepsFiles, FileOf
  <2> QED
    BY <2>3, <2>4 DEF Whole
<1>6. CASE \E p \in Procs : Stops(p) \/ Removes(p) \/ Quiet(p)
  <2> PICK p \in Procs : Stops(p) \/ Removes(p) \/ Quiet(p)
    BY <1>6
  <2>1. UNCHANGED suspect
    BY DEF Stops, Removes, Quiet
  <2>2. i = disk["path"]
    BY DEF Stops, Removes, Quiet, Files
  <2>3. inodes'[i] = inodes[i]
    <3>1. Saving(p) => i # procs[p].fd
      BY <2>1, <2>2 DEF Apart, Alone
    <3> QED
      BY <1>1, <3>1 DEF Stops, Removes, Quiet, KeepsFiles, Puts
  <2> QED
    BY <1>2, <2>1, <2>2, <2>3
<1>7. CASE PowerLoss
  <2>1. i = disk["path"] /\ ~suspect
    BY <1>7, PowerKeeps
  <2>2. inodes[i].synced = TRUE /\ inodes[i].data.kind = "whole"
    BY <2>1 DEF WholeAndSynced
  <2> HIDE DEF i
  <2>3. inodes'[i].data = inodes[i].data /\ inodes'[i].synced = TRUE
    BY <1>1, <1>7, <2>2, PowerKeeps
  <2> QED
    BY <2>2, <2>3 DEF i
<1>8. CASE UNCHANGED configVars
  BY <1>2, <1>8 DEF configVars
<1> QED
  BY <1>3, <1>4, <1>5, <1>6, <1>7, <1>8, FileCases

(* path.tmp is somebody's, or one was killed. *)
LEMMA LeftoversStep ==
  ASSUME Programs, Files, NoLeftovers, [ConfigNext]_configVars, Programs', Counters
  PROVE  NoLeftovers'
<1> SUFFICES ASSUME disk'["tmp"] # 0, ~killed'
             PROVE  \E q \in Procs : HasTmp(q)'
  BY DEF NoLeftovers
<1>1. CASE \E p \in Procs : OpenTmp(p)
  <2> PICK p \in Procs : OpenTmp(p)
    BY <1>1
  <2>1. procs'[p].fd # 0
    BY OpenNames DEF Inodes
  <2>2. Saving(p)'
    BY <2>1, NotSavingNext DEF Saving
  <2> QED
    BY <2>2 DEF HasTmp
<1>2. CASE \E p \in Procs : Writes(p) \/ Flushes(p)
  BY <1>2 DEF Writes, Flushes, HasTmp, Saving, SavingPcs
<1>3. CASE \E p \in Procs : Renames(p)
  BY <1>3 DEF Renames
<1>4. CASE \E p \in Procs : Stops(p)
  BY <1>4 DEF Stops, HasTmp
<1>5. CASE \E p \in Procs : Removes(p)
  BY <1>5 DEF Removes, Files
<1>6. CASE \E p \in Procs : Quiet(p)
  <2> PICK p \in Procs : Quiet(p)
    BY <1>6
  <2>1. disk["tmp"] # 0 /\ ~killed
    BY DEF Quiet, Files
  <2>2. PICK q \in Procs : HasTmp(q)
    BY <2>1 DEF NoLeftovers
  <2>3. procs'[q] = procs[q]
    BY <2>2 DEF Quiet, Others
  <2> QED
    BY <2>2, <2>3 DEF HasTmp, Saving
<1>7. CASE PowerLoss
  <2>1. disk' = disk /\ (killed' <=> killed \/ \E q \in Procs : HasTmp(q))
    BY <1>7, Zenon DEF PowerLoss
  <2> QED
    BY <2>1 DEF NoLeftovers
<1>8. CASE UNCHANGED configVars
  BY <1>8 DEF configVars, NoLeftovers, HasTmp, Saving
<1> QED
  BY <1>1, <1>2, <1>3, <1>4, <1>5, <1>6, <1>7, <1>8, FileCases

LEMMA CountersStep ==
  ASSUME Counters, [ConfigNext]_configVars
  PROVE  Counters'
<1>1. ASSUME NEW kind \in {"editors", "syncs", "forms"}, Count(kind)
      PROVE  started' \in [{"editors", "syncs", "forms"} -> Nat]
  BY <1>1 DEF Counters, Count
<1>2. ASSUME NEW p \in Procs, Save(p) \/ Kill(p)
      PROVE  Counters'
  BY <1>2 DEF Counters, Save, OpenTmp, WriteTmp, SyncTmp, RenameTmp, SaveFails,
              RenameMisses, CleanUp, OpenFails, Kill
<1>3. ASSUME NEW p \in Procs, Edit(p)
      PROVE  Counters'
  BY <1>1, <1>3 DEF Counters, Edit, StartEditor, StartReset, Start, LoadEditor, FillForm,
                    AbortForm, OpenSettings, EndSession
<1>4. ASSUME NEW p \in Procs, Sync(p)
      PROVE  Counters'
  BY <1>1, <1>4 DEF Counters, Sync, Resolve, Start, AskInfisical, SyncEnds
<1>5. CASE PowerLoss
  BY <1>5, Zenon DEF PowerLoss, Counters
<1>6. CASE UNCHANGED configVars
  BY <1>6 DEF configVars, Counters
<1> QED
  BY <1>2, <1>3, <1>4, <1>5, <1>6 DEF ConfigNext, Finished

-----------------------------------------------------------------------------
(* The invariant. *)

LEMMA ConfigBegins ==
  ASSUME ConfigInit
  PROVE  ConfigInd
<1>1. PICK file \in {Absent} \cup Torn \cup {Whole(c) : c \in Handwritten} :
        /\ disk = [name \in {"path", "tmp"} |-> IF name = "path" /\ file # Absent THEN 1 ELSE 0]
        /\ inodes = [i \in IF file = Absent THEN {} ELSE {1} |-> [data |-> file, synced |-> TRUE]]
        /\ suspect = (file \in Torn)
  BY DEF ConfigInit
<1>2. Programs
  BY IdleIsSound DEF ConfigInit, Programs
<1>3. disk["tmp"] = 0 /\ disk["path"] \in {0, 1} /\ (disk["path"] = 0 <=> file = Absent)
  BY <1>1
<1>4. Live = IF file = Absent THEN {} ELSE {1}
  <2>1. \A p \in Procs : procs[p].fd = 0
    BY DEF ConfigInit, Idle
  <2> QED
    BY <1>3, <2>1 DEF Live
<1>5. Files
  <2>1. IsData(file)
    <3>1. \A c \in Handwritten : IsConfig(c)
      BY ConfigurationAssumption
    <3> QED
      BY <1>1, <3>1, WholeIsData, NothingIsConfig DEF Absent, IsData
  <2>2. IsFile([data |-> file, synced |-> TRUE])
    BY <2>1 DEF IsFile
  <2>3. 1 \in Inodes
    <3>1. Cardinality(Procs) \in Nat
      BY ConfigurationAssumption, FS_CardinalityType
    <3> QED
      BY <3>1 DEF Inodes
  <2>4. suspect \in BOOLEAN
    BY <1>1
  <2>5. disk \in [{"path", "tmp"} -> Inodes \cup {0}]
    BY <1>1, <2>3
  <2>6. \A i \in Live : inodes[i] = [data |-> file, synced |-> TRUE]
    BY <1>1, <1>4
  <2>7. DOMAIN inodes = Live
    BY <1>1, <1>4
  <2> QED
    BY <2>2, <2>4, <2>5, <2>6, <2>7 DEF Files
<1>6. Apart
  BY <1>3 DEF ConfigInit, Apart, Alone, Saving, Idle, SavingPcs
<1>7. WholeAndSynced
  <2> SUFFICES ASSUME disk["path"] # 0, ~suspect
               PROVE  inodes[1].data.kind = "whole" /\ inodes[1].synced = TRUE /\ disk["path"] = 1
    BY DEF WholeAndSynced
  <2>1. disk["path"] = 1 /\ inodes[1] = [data |-> file, synced |-> TRUE]
    BY <1>1, <1>3
  <2>2. file.kind = "whole"
    <3>1. file \notin Torn /\ file # Absent
      BY <1>1, <1>3
    <3> QED
      BY <1>1, <3>1 DEF Whole
  <2> QED
    BY <2>1, <2>2
<1>8. NoLeftovers
  BY <1>3 DEF NoLeftovers
<1>9. Counters
  <2>1. started = [editors |-> 0, syncs |-> 0, forms |-> 0] /\ killed = FALSE
    BY DEF ConfigInit
  <2>2. started \in [{"editors", "syncs", "forms"} -> Nat]
    BY <2>1
  <2> QED
    BY <2>1, <2>2 DEF Counters
<1> QED
  BY <1>2, <1>5, <1>6, <1>7, <1>8, <1>9 DEF ConfigInd

LEMMA ConfigStep ==
  ASSUME ConfigInd, [ConfigNext]_configVars
  PROVE  ConfigInd'
<1>1. Programs' /\ Files'
  BY ProgramsStep, FilesStep DEF ConfigInd
<1> QED
  BY <1>1, ApartStep, WholeStep, LeftoversStep, CountersStep DEF ConfigInd

LEMMA ConfigImplies ==
  ASSUME ConfigInd
  PROVE  ConfigInv
<1>1. ConfigTypeOK
  <2>1. ASSUME NEW p \in Procs
        PROVE  LET r == procs[p] IN
               /\ r.pc \in Pcs /\ r.mode \in {"sync", "app", "edit", "reset"}
               /\ IsConfig(r.cfg) /\ IsData(r.base) /\ r.fd \in Inodes \cup {0}
               /\ r.alone \in BOOLEAN /\ r.edited \subseteq Settings
               /\ IsConfig(r.flags) /\ r.args \subseteq DBNames
               /\ r.fd # 0 <=> Saving(p)
    BY DEF ConfigInd, Programs, Sound, IsProgram, Saving
  <2>2. disk["path"] \in Inodes \cup {0} /\ disk["tmp"] \in Inodes \cup {0}
    BY DEF ConfigInd, Files
  <2>3. Live \subseteq Inodes
    BY <2>1, <2>2 DEF Live
  <2>4. \A i \in Live : IsData(inodes[i].data) /\ inodes[i].synced \in BOOLEAN
    BY DEF ConfigInd, Files, IsFile
  <2> QED
    BY <2>1, <2>3, <2>4, Zenon DEF ConfigTypeOK, ConfigInd, Files, Counters
<1>2. WholeUnlessSuspect
  BY DEF ConfigInd, WholeAndSynced, WholeUnlessSuspect, DataAt
<1>3. PositionalNamesIt
  <2> SUFFICES ASSUME NEW p \in Procs, procs[p].args # {}
               PROVE  /\ ~At(p, "ask")
                      /\ PlanDatabase(procs[p].cfg, procs[p].args) \in procs[p].args
    BY DEF PositionalNamesIt
  <2>1. procs[p].pc = "ready"
    BY DEF ConfigInd, Programs, Sound, Begins
  <2> QED
    BY <2>1 DEF At, PlanDatabase
<1>4. HostsAreGiven
  <2> SUFFICES ASSUME NEW p \in Procs, At(p, "ready"), NEW s \in {"remote", "local"},
                      ~Given(procs[p].flags, s), ~Given(env, s)
               PROVE  ~LoadFails(procs[p].base) /\ Given(procs[p].base.cfg, s)
    BY DEF HostsAreGiven, Loaded
  <2> DEFINE r == procs[p]
  <2>1. Given(Resolved(r, env), s)
    BY DEF At, ConfigInd, Programs, Sound, Layers, Valid
  <2>2. s \in Settings /\ IsEnvironment(env)
    BY Environment DEF Settings, ConfigInd, Programs
  <2>3. Given(FromFile(r.base.cfg), s)
    BY <2>1, <2>2, LayeredValues DEF Resolved
  <2>4. Given(r.base.cfg, s)
    BY <2>3, FileValues
  <2>5. IsData(r.base)
    BY DEF ConfigInd, Programs, Sound, IsProgram
  <2>6. ~LoadFails(r.base)
    BY <2>4, <2>5 DEF LoadFails, IsData, Nothing, Given
  <2> QED
    BY <2>4, <2>6
<1> QED
  BY <1>1, <1>2, <1>3, <1>4 DEF ConfigInd, ConfigInv

(* The configuration is a whole file or suspect, path.tmp is left over     *)
(* only by a save that was killed, an argument of sync names the database, *)
(* and no sync starts on hosts that no flag, no variable and no file that  *)
(* loaded gave (Save and Load of config/store.go, Resolve of               *)
(* cli/config_resolver.go).                                                *)
THEOREM ConfigIsSound == ConfigSpec => []ConfigInv
<1>1. ConfigInd /\ [ConfigNext]_configVars => ConfigInd'
  BY ConfigStep
<1> QED
  BY <1>1, ConfigBegins, ConfigImplies, PTL DEF ConfigSpec

(* A sync that starts takes each setting from the highest source that      *)
(* gives it (Resolve and applyPositionalDatabase).                         *)
THEOREM SourcesAreLayered == ConfigSpec => []HighestSourceWins
<1>1. ASSUME ConfigInd
      PROVE  HighestSourceWins
  <2> SUFFICES ASSUME NEW p \in Procs, At(p, "ready"), NEW s \in Settings
               PROVE  LET r == procs[p]
                          argument == [t \in {"remoteDatabase", "localDatabase"} |-> r.args]
                          sources == <<r.flags, env, NotZero(Loaded(r.base)), Defaults>>
                          givers == {k \in DOMAIN sources : Given(sources[k], s)} IN
                      IF s \in DOMAIN argument /\ r.args # {} /\ 1 \notin givers
                      THEN r.cfg[s] \in r.args
                      ELSE \A k \in givers :
                             (\A j \in givers : k <= j) => r.cfg[s] = sources[k][s]
    BY DEF HighestSourceWins
  <2> DEFINE r == procs[p]
             file == r.base.cfg
             named == r.args # {} /\ s \in {"remoteDatabase", "localDatabase"}
             sources == <<r.flags, env, NotZero(file), Defaults>>
             givers == {k \in DOMAIN sources : Given(sources[k], s)}
  <2>1. /\ Given(r.flags, s) => r.cfg[s] = r.flags[s]
        /\ (~Given(r.flags, s) /\ named) => r.cfg[s] = CHOOSE a \in r.args : TRUE
        /\ (~Given(r.flags, s) /\ ~named /\ Given(env, s)) => r.cfg[s] = env[s]
        /\ (~Given(r.flags, s) /\ ~named /\ ~Given(env, s) /\ Given(FromFile(file), s)) =>
             r.cfg[s] = FromFile(file)[s]
    <3>1. IsEnvironment(env)
      BY <1>1, Environment DEF ConfigInd, Programs
    <3>2. Layers(r, env) /\ r.pc = "ready"
      BY <1>1 DEF ConfigInd, Programs, Sound, At
    <3> HIDE DEF r
    <3> QED
      BY <3>1, <3>2, ReadyValues
  <2>2. /\ 1 \in givers <=> Given(r.flags, s)
        /\ 2 \in givers <=> Given(env, s)
        /\ 3 \in givers <=> (Given(file, s) /\ file[s] # "off")
        /\ 4 \in givers <=> s \in {"threads", "tools"}
        /\ givers \subseteq {1, 2, 3, 4}
    <3>1. Given(NotZero(file), s) <=> (Given(file, s) /\ file[s] # "off")
      BY DEF NotZero, Only, Given
    <3>2. Given(Defaults, s) <=> s \in {"threads", "tools"}
      BY DEF Defaults, Given
    <3> HIDE DEF r, file
    <3> QED
      BY <3>1, <3>2
  <2>3. /\ sources[1] = r.flags /\ sources[2] = env
        /\ sources[3] = NotZero(file) /\ sources[4] = Defaults
    OBVIOUS
  <2>4. Given(file, s) /\ file[s] # "off" => NotZero(file)[s] = file[s]
    BY DEF NotZero, Only, Given
  <2>5. CASE named /\ 1 \notin givers
    BY <2>1, <2>2, <2>5
  <2>6. ASSUME ~(named /\ 1 \notin givers), NEW k \in givers, \A j \in givers : k <= j
        PROVE  r.cfg[s] = sources[k][s]
    <3>1. \A j \in {1, 2, 3, 4} : j < k => j \notin givers
      BY <2>2, <2>6
    <3> HIDE DEF r, file, named, sources, givers
    <3>2. CASE k = 1
      BY <2>1, <2>2, <2>3, <2>6, <3>2
    <3>3. CASE k = 2
      BY <2>1, <2>2, <2>3, <2>6, <3>1, <3>3
    <3>4. CASE k = 3
      BY <2>1, <2>2, <2>3, <2>4, <2>6, <3>1, <3>4, FileValues
    <3>5. CASE k = 4
      BY <2>1, <2>2, <2>3, <2>6, <3>1, <3>5, FileValues
    <3> QED
      BY <2>2, <2>6, <3>2, <3>3, <3>4, <3>5
  <2>7. Loaded(r.base) = file
    BY DEF Loaded
  <2> QED
    BY <2>5, <2>6, <2>7
<1>2. ConfigInd /\ [ConfigNext]_configVars => ConfigInd'
  BY ConfigStep
<1> QED
  BY <1>1, <1>2, ConfigBegins, PTL DEF ConfigSpec

(* A lone save that succeeds has put its configuration in place and has    *)
(* changed only what was edited (Save, loadTUIConfig and the form).        *)
THEOREM SavesStick == ConfigSpec => LoneSaveSticks
<1>1. ASSUME ConfigInd, NEW p \in Procs, RenameTmp(p), procs[p].alone
      PROVE  DataAt("path")' = Whole(procs[p].cfg) /\ KeepsUntouched(p)
  <2>1. Renames(p) /\ Saving(p) /\ Sound(procs[p], env)
    BY <1>1, RenameCase DEF ConfigInd, Programs, RenameTmp, At, Saving, SavingPcs
  <2>2. /\ disk["tmp"] = procs[p].fd /\ disk'["path"] = procs[p].fd /\ disk'["path"] # 0
        /\ FileOf(p).data = Whole(procs[p].cfg)
    BY <1>1, <2>1 DEF ConfigInd, Apart, Alone, Renames, At
  <2>3. inodes'[disk'["path"]] = FileOf(p)
    <3>1. disk'["path"] \in Live'
      BY <2>2 DEF Live
    <3> QED
      BY <2>1, <2>2, <3>1 DEF Renames, KeepsFiles, FileOf
  <2>4. DataAt("path")' = Whole(procs[p].cfg)
    BY <2>2, <2>3 DEF DataAt
  <2>5. KeepsUntouched(p)
    <3>1. FromFile(DataAt("path").cfg)' = FromFile(procs[p].cfg)
      <4>1. DataAt("path").cfg' = procs[p].cfg
        BY <2>4 DEF Whole
      <4> QED
        BY <4>1
    <3> QED
      BY <1>1, <2>1, <3>1 DEF KeepsUntouched, Sound, Spared, RenameTmp, At, SavingPcs
  <2> QED
    BY <2>4, <2>5
<1>2. ConfigInd /\ [ConfigNext]_configVars => ConfigInd'
  BY ConfigStep
<1>3. ConfigInd /\ [ConfigNext]_configVars =>
        [\A p \in Procs : RenameTmp(p) /\ procs[p].alone =>
             /\ DataAt("path")' = Whole(procs[p].cfg)
             /\ KeepsUntouched(p)]_configVars
  BY <1>1
<1> QED
  BY <1>2, <1>3, ConfigBegins, PTL DEF ConfigSpec, LoneSaveSticks

-----------------------------------------------------------------------------
(* The plan. *)

Selecting == pc \in {"expand", "graph", "sort", "count", "planned"} \/ err = "cycle"
Sorting == pc \in {"sort", "count", "planned"} \/ err = "cycle"

(* What the queries have returned, while the source stays as it was.       *)
CatalogueRead ==
  /\ \A fk \in source.fks : fk[1] \in source.tables /\ fk[2] \in source.tables
  /\ migrations = 0 =>
       /\ ~(pc \in {"tables", "failed"}) => read.tables = source.tables
       /\ ~(pc \in {"tables", "deps", "failed"}) => read.deps = source.fks
       /\ ~(pc \in {"tables", "deps", "sequences", "failed"}) =>
            read.sequences = source.tables \cap Serial

(* The worklist: of a selected table that is not in the queue any more the *)
(* parents are selected.                                                   *)
Worklist ==
  /\ Selecting => ~Missing /\ Seeds \subseteq selected
  /\ Selecting /\ requested = {} => selected = read.tables /\ queue = {}
  /\ pc = "expand" /\ requested # {} =>
       \A fk \in read.deps : fk[1] \in selected \ queue => fk[2] \in selected
  /\ pc \in {"graph", "sort", "count", "planned"} /\ requested # {} => ClosedUnder(selected)

(* The numbers and the list of the sort are what their names say.          *)
Graph ==
  /\ \A t \in selected : indegrees[t] = Cardinality(Awaited(t) \ Emitted)
  /\ ready = {t \in selected \ Emitted : Awaited(t) \subseteq Emitted}
  /\ Len(out) = Cardinality(Emitted)
  /\ \A i, j \in 1..Len(out) : out[i] = out[j] => i = j

SortState ==
  /\ ~Sorting /\ pc # "failed" => out = <<>> /\ ready = {}
  /\ err = "cycle" => pc = "failed" /\ ready = {} /\ Emitted # selected
  /\ Sorting => Graph
  /\ pc \in {"count", "planned"} => Emitted = selected

PlanInv ==
  TypeOK /\ CatalogueRead /\ Worklist /\ PlanIsLeast /\ SortState /\ ParentsFirst /\ FirstReady

(* The steps of a plan, one by one. *)
LEMMA StepCases ==
  ASSUME [Next]_vars
  PROVE  \/ ListTables \/ ListFKDeps \/ ListSequences \/ QueryFails \/ SeedTables
         \/ (\E head \in Tables : ExpandParents(head))
         \/ ClosureEnds \/ BuildGraph
         \/ (\E head \in Tables : Sort(head))
         \/ SortEnds \/ CountExactRows
         \/ (\E t \in Tables : DropTable(t))
         \/ (\E t \in Tables, fks \in SUBSET ForeignKeys : CreateTable(t, fks))
         \/ (\E fk \in ForeignKeys : AddForeignKey(fk))
         \/ UNCHANGED vars
  BY DEF Next, Planning

(* The source changes, the plan does not. *)
LEMMA Migrations ==
  ASSUME \/ \E t \in Tables : DropTable(t)
         \/ \E t \in Tables, fks \in SUBSET ForeignKeys : CreateTable(t, fks)
         \/ \E fk \in ForeignKeys : AddForeignKey(fk)
         \/ UNCHANGED vars
  PROVE  UNCHANGED <<requested, pc, err, read, closure, graph>>
  BY DEF DropTable, CreateTable, AddForeignKey, Migrate, vars, catalogue

LEMMA FiniteTables ==
  ASSUME NEW S \in SUBSET Tables
  PROVE  IsFiniteSet(S) /\ Cardinality(S) \in Nat
<1>1. 1 \in Int /\ N \in Int
  BY PlanAssumption
<1> HIDE DEF Tables
<1>2. IsFiniteSet(Tables)
  BY <1>1, FS_Interval DEF Tables
<1>3. QED BY <1>2, FS_Subset, FS_CardinalityType

(* A migration leaves a catalogue. *)
LEMMA MigrateTypes ==
  ASSUME TypeOK, NEW to \in Catalogues, Migrate(to)
  PROVE  TypeOK'
<1>1. source' \in Catalogues /\ migrations' \in 0..MaxMigrations
  BY PlanAssumption DEF TypeOK, Migrate
<1>2. UNCHANGED <<requested, pc, err, read, selected, queue, indegrees, ready, out>>
  BY DEF Migrate, closure, graph
<1>3. QED BY <1>1, <1>2 DEF TypeOK

LEMMA TypesInit == Init => TypeOK
<1> SUFFICES ASSUME Init PROVE TypeOK
  OBVIOUS
<1>1. out \in Seq(selected)
  BY DEF Init
<1>2. indegrees \in [Tables -> Nat]
  BY DEF Init
<1>3. migrations \in 0..MaxMigrations
  BY PlanAssumption DEF Init
<1>4. QED BY <1>1, <1>2, <1>3 DEF Init, TypeOK

(* The head of the list, before it is sorted. *)
LEMMA HeadFacts ==
  ASSUME TypeOK, SortState, ParentsFirst, NEW head \in Tables, Sort(head)
  PROVE  /\ Graph
         /\ head \in selected /\ head \notin Emitted /\ Awaited(head) \subseteq Emitted
         /\ Emitted \subseteq selected
         /\ \A c \in Waiting(head) : c # head /\ c \notin Emitted
<1>1. Graph /\ head \in ready
  BY DEF Sort, First, SortState, Sorting
<1>2. head \in selected /\ head \notin Emitted /\ Awaited(head) \subseteq Emitted
  BY <1>1 DEF Graph
<1>3. Emitted \subseteq selected
  <2>1. out \in Seq(selected)
    BY DEF TypeOK
  <2>2. \A i \in 1..Len(out) : out[i] \in selected
    BY <2>1
  <2>3. QED BY <2>2 DEF Emitted
<1>4. ASSUME NEW c \in Waiting(head)
      PROVE  c # head /\ c \notin Emitted
  <2>1. c \in selected /\ head \in Awaited(c) /\ c # head
    BY DEF Waiting, Awaited
  <2>2. head \in DependsOn(c)
    BY <2>1, <1>2 DEF Awaited, Parents, DependsOn
  <2>3. ASSUME c \in Emitted PROVE head \in Emitted
    <3>1. PICK i \in 1..Len(out) : out[i] = c
      BY <2>3 DEF Emitted
    <3>2. PICK j \in 1..(i - 1) : out[j] = head
      BY <2>2, <3>1 DEF ParentsFirst
    <3>3. j \in 1..Len(out)
      <4>1. out \in Seq(selected)
        BY DEF TypeOK
      <4>2. Len(out) \in Nat
        BY <4>1
      <4>3. QED BY <3>1, <3>2, <4>2
    <3>4. QED BY <3>2, <3>3 DEF Emitted
  <2>4. QED BY <2>1, <2>3, <1>2
<1>5. QED BY <1>1, <1>2, <1>3, <1>4

(* Sorting one more table. *)
LEMMA Emits ==
  ASSUME TypeOK, NEW head \in Tables, Sort(head)
  PROVE  /\ out \in Seq(selected) /\ Len(out) \in Nat
         /\ head \in selected => out' \in Seq(selected)
         /\ Len(out') = Len(out) + 1
         /\ out'[Len(out) + 1] = head
         /\ \A i \in 1..Len(out) : out'[i] = out[i]
         /\ Emitted' = Emitted \cup {head}
<1>1. out \in Seq(selected) /\ out' = Append(out, head)
  BY DEF TypeOK, Sort
<1>2. Len(out) \in Nat
  BY <1>1
<1>3. head \in selected => out' \in Seq(selected)
  BY <1>1
<1>4. /\ Len(out') = Len(out) + 1
      /\ out'[Len(out) + 1] = head
      /\ \A i \in 1..Len(out) : out'[i] = out[i]
  BY <1>1
<1>5. Emitted' = {out'[i] : i \in 1..(Len(out) + 1)}
  BY <1>4 DEF Emitted
<1>6. 1..(Len(out) + 1) = 1..Len(out) \cup {Len(out) + 1}
  BY <1>2
<1>7. Emitted' = Emitted \cup {head}
  BY <1>4, <1>5, <1>6 DEF Emitted
<1>8. QED BY <1>1, <1>2, <1>3, <1>4, <1>7

(* What a child still waits for, before and after.                         *)
LEMMA SortDegrees ==
  ASSUME TypeOK, SortState, ParentsFirst, NEW head \in Tables, Sort(head),
         NEW t \in selected
  PROVE  /\ indegrees'[t] = Cardinality(Awaited(t) \ Emitted')
         /\ indegrees'[t] \in Nat
         /\ t \in Waiting(head) => (Released(t) <=> Awaited(t) \subseteq Emitted')
<1> DEFINE W == Awaited(t) \ Emitted
<1>1. Graph /\ head \notin Emitted /\ Emitted' = Emitted \cup {head}
  BY HeadFacts, Emits
<1>2. W \subseteq Tables /\ t \in Tables
  BY DEF Awaited, Parents, TypeOK
<1>3. IsFiniteSet(W) /\ Cardinality(W) \in Nat
  BY <1>2, FiniteTables
<1>4. indegrees[t] = Cardinality(W)
  BY <1>1 DEF Graph
<1>5. Awaited(t) \ Emitted' = W \ {head}
  BY <1>1
<1>6. indegrees'[t] = IF t \in Waiting(head) THEN indegrees[t] - 1 ELSE indegrees[t]
  BY <1>2 DEF Sort
<1>7. t \in Waiting(head) <=> head \in W
  BY <1>1 DEF Waiting
<1>8. /\ Cardinality(W \ {head}) = IF head \in W THEN Cardinality(W) - 1 ELSE Cardinality(W)
      /\ IsFiniteSet(W \ {head})
  BY <1>3, FS_RemoveElement
<1>9. Cardinality(W \ {head}) \in Nat
  BY <1>8, FS_CardinalityType
<1>10. ASSUME t \in Waiting(head)
       PROVE  Released(t) <=> Awaited(t) \subseteq Emitted'
  <2>1. Released(t) <=> Cardinality(W \ {head}) = 0
    BY <1>3, <1>4, <1>7, <1>8, <1>10 DEF Released
  <2>2. Cardinality(W \ {head}) = 0 <=> W \ {head} = {}
    BY <1>8, FS_EmptySet
  <2>3. QED BY <2>1, <2>2, <1>5
<1>11. QED BY <1>4, <1>5, <1>6, <1>7, <1>8, <1>9, <1>10

LEMMA TypesStep == PlanInv /\ [Next]_vars => TypeOK'
<1> SUFFICES ASSUME PlanInv, [Next]_vars PROVE TypeOK'
  OBVIOUS
<1> USE DEF PlanInv
<1>1. CASE ListTables \/ ListFKDeps \/ ListSequences \/ QueryFails
  <2>1. UNCHANGED <<source, migrations, requested, selected, queue, indegrees, ready, out>>
    BY <1>1 DEF ListTables, ListFKDeps, ListSequences, QueryFails, catalogue, closure, graph
  <2>2. read' \in [tables : SUBSET Tables, deps : SUBSET ForeignKeys, sequences : SUBSET Serial]
    BY <1>1 DEF ListTables, ListFKDeps, ListSequences, QueryFails, TypeOK, Catalogues
  <2>3. /\ pc' \in {"tables", "deps", "sequences", "closure", "expand", "graph", "sort", "count",
                    "planned", "failed"}
        /\ err' \in {"none", "catalogue", "notFound", "cycle"}
    BY <1>1 DEF ListTables, ListFKDeps, ListSequences, QueryFails, Goto, Fail, TypeOK
  <2>4. QED BY <2>1, <2>2, <2>3 DEF TypeOK
<1>2. CASE SeedTables
  <2>1. UNCHANGED <<source, migrations, requested, read, indegrees, ready, out>>
    BY <1>2 DEF SeedTables, catalogue, graph
  <2>2. out = <<>> /\ ready = {}
    BY <1>2 DEF SeedTables, SortState, Sorting
  <2>3. selected' \subseteq Tables /\ queue' \subseteq selected'
    BY <1>2 DEF SeedTables, Found, TypeOK, closure
  <2>4. pc' \in {"expand", "failed"} /\ err' \in {"none", "catalogue", "notFound", "cycle"}
    BY <1>2 DEF SeedTables, Goto, Fail, TypeOK
  <2>5. QED BY <2>1, <2>2, <2>3, <2>4 DEF TypeOK
<1>3. ASSUME NEW head \in Tables, ExpandParents(head) PROVE TypeOK'
  <2>1. UNCHANGED <<source, migrations, requested, pc, err, read, indegrees, ready, out>>
    BY <1>3 DEF ExpandParents, catalogue, graph
  <2>2. out = <<>> /\ ready = {}
    BY <1>3 DEF ExpandParents, SortState, Sorting
  <2>3. selected' \subseteq Tables /\ queue' \subseteq selected'
    BY <1>3 DEF ExpandParents, Parents, Enqueue, TypeOK
  <2>4. QED BY <2>1, <2>2, <2>3 DEF TypeOK
<1>4. CASE ClosureEnds \/ SortEnds \/ CountExactRows
  <2>1. UNCHANGED <<source, migrations, requested, read, selected, queue, indegrees, ready, out>>
    BY <1>4 DEF ClosureEnds, SortEnds, CountExactRows, catalogue, closure, graph
  <2>2. /\ pc' \in {"graph", "count", "planned", "failed"}
        /\ err' \in {"none", "catalogue", "notFound", "cycle"}
    BY <1>4 DEF ClosureEnds, SortEnds, CountExactRows, Goto, Fail, TypeOK
  <2>3. QED BY <2>1, <2>2 DEF TypeOK
<1>5. CASE BuildGraph
  <2>1. /\ UNCHANGED <<source, migrations, requested, read, selected, queue, out>>
        /\ pc' = "sort" /\ err' = err
    BY <1>5 DEF BuildGraph, catalogue, closure, Goto
  <2>2. ready' \subseteq selected
    BY <1>5 DEF BuildGraph
  <2>3. ASSUME NEW t \in Tables
        PROVE  (IF t \in selected THEN Cardinality(Awaited(t)) ELSE 0) \in Nat
    <3>1. Awaited(t) \subseteq Tables
      BY DEF Awaited, Parents
    <3>2. QED BY <3>1, FiniteTables
  <2>4. indegrees' \in [Tables -> Nat]
    BY <1>5, <2>3 DEF BuildGraph
  <2>5. QED BY <2>1, <2>2, <2>4 DEF TypeOK
<1>6. ASSUME NEW head \in Tables, Sort(head) PROVE TypeOK'
  <2>1. UNCHANGED <<source, migrations, requested, pc, err, read, selected, queue>>
    BY <1>6 DEF Sort, catalogue, closure
  <2>2. out' \in Seq(selected)
    BY <1>6, HeadFacts, Emits
  <2>3. ready' \subseteq selected
    BY <1>6 DEF Sort, Waiting, TypeOK
  <2>4. ASSUME NEW t \in Tables PROVE indegrees'[t] \in Nat
    <3>1. CASE t \in selected
      BY <1>6, <3>1, SortDegrees
    <3>2. CASE t \notin selected
      BY <1>6, <3>2 DEF Sort, Waiting, TypeOK
    <3>3. QED BY <3>1, <3>2
  <2>5. indegrees' \in [Tables -> Nat]
    BY <1>6, <2>4 DEF Sort
  <2>6. QED BY <2>1, <2>2, <2>3, <2>5 DEF TypeOK
<1>7. ASSUME NEW t \in Tables, DropTable(t) PROVE TypeOK'
  BY <1>7, MigrateTypes DEF DropTable, TypeOK, Catalogues
<1>8. ASSUME NEW t \in Tables, NEW fks \in SUBSET ForeignKeys, CreateTable(t, fks) PROVE TypeOK'
  BY <1>8, MigrateTypes DEF CreateTable, TypeOK, Catalogues
<1>9. ASSUME NEW fk \in ForeignKeys, AddForeignKey(fk) PROVE TypeOK'
  <2>1. [source EXCEPT !.fks = @ \cup {fk}] \in Catalogues
    BY DEF TypeOK, Catalogues
  <2>2. QED BY <1>9, <2>1, MigrateTypes DEF AddForeignKey
<1>10. CASE UNCHANGED vars
  BY <1>10 DEF TypeOK, vars, catalogue, closure, graph
<1>11. QED BY <1>1, <1>2, <1>3, <1>4, <1>5, <1>6, <1>7, <1>8, <1>9, <1>10, StepCases

-----------------------------------------------------------------------------
LEMMA CatalogueStep == PlanInv /\ [Next]_vars => CatalogueRead'
<1> SUFFICES ASSUME PlanInv, [Next]_vars PROVE CatalogueRead'
  OBVIOUS
<1> USE DEF PlanInv
<1>1. CASE ListTables \/ ListFKDeps \/ ListSequences \/ QueryFails
  BY <1>1 DEF ListTables, ListFKDeps, ListSequences, QueryFails, CatalogueRead, Goto, Fail,
              catalogue, TypeOK
<1>2. CASE SeedTables \/ ClosureEnds \/ BuildGraph \/ SortEnds \/ CountExactRows
  BY <1>2 DEF SeedTables, ClosureEnds, BuildGraph, SortEnds, CountExactRows, CatalogueRead,
              Goto, Fail, catalogue
<1>3. CASE \E head \in Tables : ExpandParents(head) \/ Sort(head)
  BY <1>3 DEF ExpandParents, Sort, CatalogueRead, catalogue
<1>4. ASSUME NEW to \in Catalogues, Migrate(to),
             \A fk \in to.fks : fk[1] \in to.tables /\ fk[2] \in to.tables
      PROVE  CatalogueRead'
  <2>1. migrations' # 0
    BY <1>4 DEF Migrate, TypeOK
  <2>2. QED BY <1>4, <2>1 DEF CatalogueRead, Migrate
<1>5. ASSUME NEW t \in Tables, DropTable(t) PROVE CatalogueRead'
  <2> DEFINE to == [tables |-> source.tables \ {t},
                    fks |-> {fk \in source.fks : t \notin {fk[1], fk[2]}}]
  <2>1. to \in Catalogues /\ \A fk \in to.fks : fk[1] \in to.tables /\ fk[2] \in to.tables
    BY DEF TypeOK, Catalogues, CatalogueRead
  <2>2. Migrate(to)
    BY <1>5 DEF DropTable
  <2>3. QED BY <2>1, <2>2, <1>4
<1>6. ASSUME NEW t \in Tables, NEW fks \in SUBSET ForeignKeys, CreateTable(t, fks)
      PROVE  CatalogueRead'
  <2> DEFINE to == [tables |-> source.tables \cup {t}, fks |-> source.fks \cup fks]
  <2>1. to \in Catalogues /\ \A fk \in to.fks : fk[1] \in to.tables /\ fk[2] \in to.tables
    BY <1>6 DEF TypeOK, Catalogues, CatalogueRead, CreateTable
  <2>2. Migrate(to)
    BY <1>6 DEF CreateTable
  <2>3. QED BY <2>1, <2>2, <1>4
<1>7. ASSUME NEW fk \in ForeignKeys, AddForeignKey(fk) PROVE CatalogueRead'
  <2> DEFINE to == [source EXCEPT !.fks = @ \cup {fk}]
  <2>1. to \in Catalogues /\ \A k \in to.fks : k[1] \in to.tables /\ k[2] \in to.tables
    BY <1>7 DEF TypeOK, Catalogues, CatalogueRead, AddForeignKey
  <2>2. Migrate(to)
    BY <1>7 DEF AddForeignKey
  <2>3. QED BY <2>1, <2>2, <1>4
<1>8. CASE UNCHANGED vars
  BY <1>8 DEF CatalogueRead, vars, catalogue
<1>9. QED BY <1>1, <1>2, <1>3, <1>5, <1>6, <1>7, <1>8, StepCases

(* Until the plan is made, only these steps select tables.                 *)
LEMMA Selects ==
  ASSUME [Next]_vars
  PROVE  \/ SeedTables \/ \E head \in Tables : ExpandParents(head)
         \/ UNCHANGED selected
  BY StepCases, Migrations
     DEF ListTables, ListFKDeps, ListSequences, QueryFails, ClosureEnds, BuildGraph, Sort,
         SortEnds, CountExactRows, closure

(* What has been read is not read again. *)
LEMMA ReadOnce ==
  ASSUME [Next]_vars
  PROVE  /\ requested' = requested
         /\ UNCHANGED read \/ pc \in {"tables", "deps", "sequences"}
         /\ pc \in {"tables", "deps", "sequences"} =>
              /\ err' \in {err, "catalogue"}
              /\ pc' \in {pc, "deps", "sequences", "closure", "failed"}
<1>1. requested' = requested
  BY StepCases, Migrations
     DEF ListTables, ListFKDeps, ListSequences, QueryFails, SeedTables, ExpandParents,
         ClosureEnds, BuildGraph, Sort, SortEnds, CountExactRows, catalogue
<1>2. UNCHANGED read \/ pc \in {"tables", "deps", "sequences"}
  BY StepCases, Migrations
     DEF ListTables, ListFKDeps, ListSequences, QueryFails, SeedTables, ExpandParents,
         ClosureEnds, BuildGraph, Sort, SortEnds, CountExactRows
<1>3. pc \in {"tables", "deps", "sequences"} =>
        /\ err' \in {err, "catalogue"}
        /\ pc' \in {pc, "deps", "sequences", "closure", "failed"}
  BY StepCases, Migrations
     DEF ListTables, ListFKDeps, ListSequences, QueryFails, SeedTables, ExpandParents,
         ClosureEnds, BuildGraph, Sort, SortEnds, CountExactRows, Goto, Fail
<1>4. QED BY <1>1, <1>2, <1>3

LEMMA WorklistStep == PlanInv /\ [Next]_vars => Worklist'
<1> SUFFICES ASSUME PlanInv, [Next]_vars PROVE Worklist'
  OBVIOUS
<1> USE DEF PlanInv
<1>1. CASE pc \in {"tables", "deps", "sequences"}
  <2>1. err # "cycle"
    BY <1>1 DEF SortState
  <2>2. ~Selecting'
    BY <1>1, <2>1, ReadOnce DEF Selecting
  <2>3. QED BY <2>2 DEF Worklist, Selecting
<1> SUFFICES ASSUME ~(pc \in {"tables", "deps", "sequences"}) PROVE Worklist'
  BY <1>1
<1>2. UNCHANGED <<read, requested>>
  BY ReadOnce
<1>3. Missing' = Missing /\ Seeds' = Seeds /\ \A C : ClosedUnder(C)' <=> ClosedUnder(C)
  BY <1>2 DEF Missing, Seeds, Found, ClosedUnder
<1>4. CASE SeedTables
  <2>1. CASE Missing
    <3>1. ~Selecting'
      BY <1>4, <2>1 DEF SeedTables, Selecting, Fail
    <3>2. QED BY <3>1 DEF Worklist, Selecting
  <2>2. CASE ~Missing
    <3>1. /\ pc' = "expand" /\ selected' = Seeds
          /\ queue' = IF requested = {} THEN {} ELSE selected'
      BY <1>4, <2>2 DEF SeedTables, Goto, Seeds
    <3>2. requested = {} => selected' = read.tables
      BY <3>1 DEF Seeds
    <3>3. QED BY <1>2, <1>3, <2>2, <3>1, <3>2 DEF Worklist
  <2>3. QED BY <2>1, <2>2
<1>5. ASSUME NEW head \in Tables, ExpandParents(head) PROVE Worklist'
  <2>1. /\ pc = "expand" /\ pc' = "expand" /\ err' = err /\ head \in queue
        /\ selected' = selected \cup Parents(head)
        /\ queue' = (queue \cup (Parents(head) \ selected)) \ {head}
    BY <1>5 DEF ExpandParents, Enqueue
  <2>2. requested # {}
    <3>1. requested = {} => queue = {}
      BY <2>1 DEF Worklist, Selecting
    <3>2. QED BY <2>1, <3>1
  <2>3. ASSUME NEW fk \in read.deps, fk[1] \in selected' \ queue' PROVE fk[2] \in selected'
    <3>1. fk \in Tables \X Tables /\ fk = <<fk[1], fk[2]>>
      BY PlanAssumption DEF TypeOK
    <3>2. CASE fk[1] = head
      BY <2>1, <3>1, <3>2 DEF Parents
    <3>3. CASE fk[1] # head
      BY <2>1, <2>2, <2>3, <3>3 DEF Worklist
    <3>4. QED BY <3>2, <3>3
  <2>4. QED BY <1>2, <1>3, <2>1, <2>2, <2>3 DEF Worklist, Selecting
<1>6. CASE ClosureEnds
  <2>1. /\ pc = "expand" /\ pc' = "graph" /\ err' = err
        /\ queue = {} /\ UNCHANGED <<selected, queue>>
    BY <1>6 DEF ClosureEnds, Goto, closure
  <2>2. requested # {} => ClosedUnder(selected)
    BY <2>1 DEF Worklist, ClosedUnder
  <2>3. QED BY <1>2, <1>3, <2>1, <2>2 DEF Worklist, Selecting
<1>7. CASE BuildGraph \/ SortEnds \/ CountExactRows \/ QueryFails
  <2>1. UNCHANGED <<selected, queue>>
    BY <1>7 DEF BuildGraph, SortEnds, CountExactRows, QueryFails, closure
  <2>2. /\ pc' # "expand" /\ (Selecting' => Selecting)
        /\ pc' \in {"graph", "sort", "count", "planned"} =>
             pc \in {"graph", "sort", "count", "planned"}
    BY <1>7 DEF BuildGraph, SortEnds, CountExactRows, QueryFails, Goto, Fail, Selecting
  <2>3. QED BY <1>2, <1>3, <2>1, <2>2 DEF Worklist
<1>8. CASE UNCHANGED <<pc, err, read, requested, closure>>
  BY <1>8, <1>3 DEF Worklist, Selecting, closure
<1>9. ASSUME NEW head \in Tables, Sort(head) PROVE UNCHANGED <<pc, err, read, requested, closure>>
  BY <1>9 DEF Sort, catalogue
<1>10. QED BY <1>4, <1>5, <1>6, <1>7, <1>8, <1>9, StepCases, Migrations
              DEF ListTables, ListFKDeps, ListSequences

(* Nothing but requested tables and parents of selected ones is selected.  *)
LEMMA LeastStep == PlanInv /\ [Next]_vars => PlanIsLeast'
<1> SUFFICES ASSUME PlanInv, [Next]_vars,
                    pc' \in {"expand", "graph", "sort", "count", "planned"},
                    NEW C \in SUBSET Tables, Seeds' \subseteq C, ClosedUnder(C)'
             PROVE  selected' \subseteq C
  BY DEF PlanIsLeast
<1> USE DEF PlanInv
<1>1. ~(pc \in {"tables", "deps", "sequences"})
  BY ReadOnce, StepCases, Migrations
     DEF ListTables, ListFKDeps, ListSequences, QueryFails, SeedTables, ExpandParents,
         ClosureEnds, BuildGraph, Sort, SortEnds, CountExactRows, Goto, Fail
<1>2. UNCHANGED <<read, requested>>
  BY <1>1, ReadOnce
<1>3. Seeds \subseteq C /\ ClosedUnder(C)
  BY <1>2 DEF Seeds, Found, ClosedUnder
<1>4. CASE SeedTables
  BY <1>3, <1>4 DEF SeedTables, Goto, Fail, Seeds
<1>5. ASSUME NEW head \in Tables, ExpandParents(head) PROVE selected' \subseteq C
  <2>1. pc = "expand" /\ head \in selected /\ selected' = selected \cup Parents(head)
    BY <1>5 DEF ExpandParents, TypeOK
  <2>2. selected \subseteq C
    BY <1>3, <2>1 DEF PlanIsLeast
  <2>3. Parents(head) \subseteq C
    BY <1>3, <2>1, <2>2 DEF Parents, ClosedUnder
  <2>4. QED BY <2>1, <2>2, <2>3
<1>6. CASE UNCHANGED selected
  <2>1. CASE pc \in {"expand", "graph", "sort", "count", "planned"}
    BY <1>3, <1>6, <2>1 DEF PlanIsLeast
  <2>2. CASE ~(pc \in {"expand", "graph", "sort", "count", "planned"})
    <3>1. pc \in {"closure", "failed"}
      BY <1>1, <2>2 DEF TypeOK
    <3>2. SeedTables
      BY <3>1, StepCases, Migrations
         DEF ListTables, ListFKDeps, ListSequences, QueryFails, ExpandParents, ClosureEnds,
             BuildGraph, Sort, SortEnds, CountExactRows, Goto, Fail
    <3>3. QED BY <3>2, <1>4
  <2>3. QED BY <2>1, <2>2
<1>7. QED BY <1>4, <1>5, <1>6, Selects

-----------------------------------------------------------------------------
(* Only Sort and BuildGraph touch the graph, and Sort alone the result.    *)
LEMMA Sorts ==
  ASSUME [Next]_vars
  PROVE  \/ \E head \in Tables : Sort(head)
         \/ BuildGraph
         \/ UNCHANGED <<indegrees, ready, out>>
  BY StepCases, Migrations
     DEF ListTables, ListFKDeps, ListSequences, QueryFails, SeedTables, ExpandParents,
         ClosureEnds, SortEnds, CountExactRows, graph

LEMMA GraphAtStart ==
  ASSUME PlanInv, BuildGraph
  PROVE  Graph'
<1> USE DEF PlanInv
<1>1. pc = "graph" /\ out = <<>> /\ UNCHANGED <<out, selected, read>>
  BY DEF BuildGraph, SortState, Sorting, closure
<1>2. Emitted = {} /\ Emitted' = {} /\ Len(out') = 0
  BY <1>1 DEF Emitted
<1>3. \A t \in Tables : Awaited(t)' = Awaited(t) /\ Awaited(t) \subseteq Tables
  BY <1>1 DEF Awaited, Parents
<1>4. \A t \in selected : t \in Tables /\ indegrees'[t] = Cardinality(Awaited(t))
  BY DEF BuildGraph, TypeOK
<1>5. \A t \in selected : indegrees'[t] = 0 <=> Awaited(t) = {}
  BY <1>3, <1>4, FiniteTables, FS_EmptySet
<1>6. ready' = {t \in selected : Awaited(t) = {}}
  BY <1>5 DEF BuildGraph
<1>7. Len(out') = Cardinality(Emitted')
  BY <1>2, FS_EmptySet
<1>8. ready' = {t \in selected' \ Emitted' : Awaited(t)' \subseteq Emitted'}
  BY <1>1, <1>2, <1>3, <1>4, <1>6
<1>9. \A t \in selected' : indegrees'[t] = Cardinality(Awaited(t)' \ Emitted')
  <2>1. \A t \in selected : Awaited(t)' \ Emitted' = Awaited(t)
    BY <1>2, <1>3, <1>4
  <2>2. QED BY <1>1, <1>4, <2>1
<1>10. \A i, j \in 1..Len(out') : out'[i] = out'[j] => i = j
  BY <1>2
<1>11. QED BY <1>7, <1>8, <1>9, <1>10 DEF Graph

LEMMA GraphKept ==
  ASSUME PlanInv, NEW head \in Tables, Sort(head)
  PROVE  Graph'
<1> USE DEF PlanInv
<1>1. /\ Graph /\ head \in selected /\ head \notin Emitted /\ Awaited(head) \subseteq Emitted
      /\ Emitted \subseteq selected
      /\ \A c \in Waiting(head) : c # head /\ c \notin Emitted
  BY HeadFacts
<1>2. UNCHANGED <<selected, read>>
  BY DEF Sort, closure
<1>3. \A t : Awaited(t)' = Awaited(t)
  BY <1>2 DEF Awaited, Parents
<1>4. /\ Len(out) \in Nat /\ Len(out') = Len(out) + 1 /\ out'[Len(out) + 1] = head
      /\ \A i \in 1..Len(out) : out'[i] = out[i]
      /\ Emitted' = Emitted \cup {head}
  BY Emits
<1>5. \A t \in selected' : indegrees'[t] = Cardinality(Awaited(t)' \ Emitted')
  BY <1>2, <1>3, SortDegrees
<1>6. Len(out') = Cardinality(Emitted')
  <2>1. Emitted \subseteq Tables
    BY <1>1 DEF TypeOK
  <2>2. Cardinality(Emitted \cup {head}) = Cardinality(Emitted) + 1
    BY <2>1, <1>1, FiniteTables, FS_AddElement
  <2>3. QED BY <1>1, <1>4, <2>2 DEF Graph
<1>7. \A i, j \in 1..Len(out') : out'[i] = out'[j] => i = j
  <2>1. \A i \in 1..Len(out) : out'[i] \in Emitted
    BY <1>4 DEF Emitted
  <2>2. \A i \in 1..Len(out) : out'[i] # head
    BY <2>1, <1>1
  <2>3. \A i \in 1..Len(out') : i \in 1..Len(out) \/ i = Len(out) + 1
    BY <1>4
  <2>4. \A i, j \in 1..Len(out) : out'[i] = out'[j] => i = j
    BY <1>1, <1>4 DEF Graph
  <2>5. QED BY <2>2, <2>3, <2>4, <1>4
<1>8. ready' = {t \in selected' \ Emitted' : Awaited(t)' \subseteq Emitted'}
  <2> DEFINE R == {t \in selected \ Emitted' : Awaited(t) \subseteq Emitted'}
  <2>1. ready' = (ready \ {head}) \cup {c \in Waiting(head) : Released(c)}
    BY DEF Sort
  <2>2. ready \ {head} \subseteq R
    BY <1>1, <1>4 DEF Graph
  <2>3. ASSUME NEW c \in Waiting(head), Released(c) PROVE c \in R
    <3>1. c \in selected /\ c \notin Emitted'
      BY <1>1, <1>4 DEF Waiting
    <3>2. Awaited(c) \subseteq Emitted'
      BY <3>1, <2>3, SortDegrees
    <3>3. QED BY <3>1, <3>2
  <2>4. ASSUME NEW t \in R PROVE t \in ready'
    <3>1. CASE t \in Waiting(head)
      BY <2>1, <2>4, <3>1, SortDegrees
    <3>2. CASE t \notin Waiting(head)
      <4>1. t \in selected \ Emitted /\ t # head
        BY <1>4, <2>4
      <4>2. Awaited(t) \subseteq Emitted
        BY <1>4, <2>4, <3>2, <4>1 DEF Waiting
      <4>3. QED BY <1>1, <2>1, <4>1, <4>2 DEF Graph
    <3>3. QED BY <3>1, <3>2
  <2>5. ready' = R
    BY <2>1, <2>2, <2>3, <2>4
  <2>6. QED BY <2>5, <1>2, <1>3
<1>9. QED BY <1>5, <1>6, <1>7, <1>8 DEF Graph

(* The tables read and selected stay as they are once the sort has begun.  *)
LEMMA Settled ==
  ASSUME PlanInv, [Next]_vars, Sorting \/ pc = "failed"
  PROVE  UNCHANGED <<selected, read>> /\ ~BuildGraph
<1> USE DEF PlanInv
<1>1. pc \in {"sort", "count", "planned", "failed"}
  BY DEF Sorting, SortState
<1>2. ~SeedTables /\ ~BuildGraph /\ \A head \in Tables : ~ExpandParents(head)
  BY <1>1 DEF SeedTables, BuildGraph, ExpandParents
<1>3. QED BY <1>1, <1>2, Selects, ReadOnce

LEMMA GraphStep ==
  PlanInv /\ [Next]_vars /\ Sorting /\ UNCHANGED <<indegrees, ready, out>> =>
    Graph' /\ Emitted' = Emitted
<1> SUFFICES ASSUME PlanInv, [Next]_vars, Sorting, UNCHANGED <<indegrees, ready, out>>
             PROVE  Graph' /\ Emitted' = Emitted
  OBVIOUS
<1>1. UNCHANGED <<selected, read>>
  BY Settled
<1>2. \A t : Awaited(t)' = Awaited(t)
  BY <1>1 DEF Awaited, Parents
<1>3. Emitted' = Emitted
  BY DEF Emitted
<1>4. QED BY <1>1, <1>2, <1>3 DEF PlanInv, SortState, Graph

LEMMA SortStateStep == PlanInv /\ [Next]_vars => SortState'
<1> SUFFICES ASSUME PlanInv, [Next]_vars PROVE SortState'
  OBVIOUS
<1> USE DEF PlanInv
<1>1. CASE BuildGraph
  <2>1. pc' = "sort" /\ err' = err /\ err # "cycle"
    BY <1>1 DEF BuildGraph, Goto, SortState
  <2>2. QED BY <1>1, <2>1, GraphAtStart DEF SortState, Sorting
<1>2. ASSUME NEW head \in Tables, Sort(head) PROVE SortState'
  <2>1. pc' = "sort" /\ err' = err /\ err # "cycle"
    BY <1>2 DEF Sort, SortState
  <2>2. QED BY <1>2, <2>1, GraphKept DEF SortState, Sorting
<1>3. CASE SortEnds
  <2>1. pc = "sort" /\ ready = {} /\ UNCHANGED <<indegrees, ready, out, selected>> /\ Graph
    BY <1>3 DEF SortEnds, graph, closure, SortState, Sorting
  <2>2. Graph' /\ Emitted' = Emitted
    BY <2>1, GraphStep DEF Sorting
  <2>3. out \in Seq(selected)
    BY DEF TypeOK
  <2>4. Emitted \subseteq selected /\ selected \subseteq Tables
    BY <2>3 DEF Emitted, TypeOK
  <2>5. Len(out) = Cardinality(selected) <=> Emitted = selected
    <3>1. Len(out) = Cardinality(Emitted)
      BY <2>1 DEF Graph
    <3>2. IsFiniteSet(selected)
      BY <2>4, FiniteTables
    <3>3. Cardinality(selected) = Cardinality(Emitted) => selected = Emitted
      BY <2>4, <3>2, FS_Subset
    <3>4. QED BY <3>1, <3>3
  <2>6. \/ Emitted = selected /\ pc' = "count" /\ err' = err
        \/ Emitted # selected /\ pc' = "failed" /\ err' = "cycle"
    BY <1>3, <2>5 DEF SortEnds, Goto, Fail
  <2>7. err # "cycle"
    BY <2>1 DEF SortState
  <2>8. QED BY <2>1, <2>2, <2>6, <2>7 DEF SortState, Sorting
<1>4. CASE UNCHANGED <<indegrees, ready, out>> /\ ~SortEnds /\ ~BuildGraph
  <2>1. CASE Sorting
    <3>1. Graph' /\ Emitted' = Emitted /\ selected' = selected
      BY <1>4, <2>1, GraphStep, Settled
    <3>2. \/ pc' = pc /\ err' = err
          \/ pc = "count" /\ pc' = "planned" /\ err' = err
          \/ pc = "count" /\ pc' = "failed" /\ err' = "catalogue"
      BY <1>4, <2>1, StepCases, Migrations
         DEF ListTables, ListFKDeps, ListSequences, QueryFails, SeedTables, ExpandParents,
             ClosureEnds, BuildGraph, Sort, CountExactRows, Goto, Fail, Sorting, SortState
    <3>3. QED BY <1>4, <2>1, <3>1, <3>2 DEF SortState, Sorting
  <2>2. CASE ~Sorting
    <3>1. ~Sorting' /\ (pc = "failed" => pc' = "failed") /\ err' # "cycle"
      BY <1>4, <2>2, StepCases, Migrations, Settled
         DEF ListTables, ListFKDeps, ListSequences, QueryFails, SeedTables, ExpandParents,
             ClosureEnds, BuildGraph, Sort, CountExactRows, Goto, Fail, Sorting, SortState
    <3>2. QED BY <1>4, <2>2, <3>1 DEF SortState, Sorting
  <2>3. QED BY <2>1, <2>2
<1>5. QED BY <1>1, <1>2, <1>3, <1>4, Sorts

-----------------------------------------------------------------------------
(* The result and what it is judged by change in Sort only.                *)
LEMMA ResultSteps ==
  ASSUME PlanInv, [Next]_vars
  PROVE  \/ \E head \in Tables : Sort(head)
         \/ out' = <<>>
         \/ UNCHANGED <<out, selected, read>>
<1> USE DEF PlanInv
<1>1. CASE Sorting \/ pc = "failed"
  BY <1>1, Settled, Sorts
<1>2. CASE ~(Sorting \/ pc = "failed")
  <2>1. out = <<>>
    BY <1>2 DEF SortState
  <2>2. CASE BuildGraph
    BY <2>1, <2>2 DEF BuildGraph
  <2>3. QED BY <2>1, <2>2, Sorts
<1>3. QED BY <1>1, <1>2

LEMMA ParentsFirstStep == PlanInv /\ [Next]_vars => ParentsFirst'
<1> SUFFICES ASSUME PlanInv, [Next]_vars PROVE ParentsFirst'
  OBVIOUS
<1> USE DEF PlanInv
<1>1. CASE out' = <<>>
  BY <1>1 DEF ParentsFirst
<1>2. CASE UNCHANGED <<out, selected, read>>
  BY <1>2 DEF ParentsFirst, DependsOn
<1>3. ASSUME NEW head \in Tables, Sort(head) PROVE ParentsFirst'
  <2>1. UNCHANGED <<selected, read>>
    BY <1>3 DEF Sort, closure
  <2>2. \A t : DependsOn(t)' = DependsOn(t)
    BY <2>1 DEF DependsOn
  <2>3. /\ Len(out) \in Nat /\ Len(out') = Len(out) + 1 /\ out'[Len(out) + 1] = head
        /\ \A i \in 1..Len(out) : out'[i] = out[i]
    BY <1>3, Emits
  <2>4. DependsOn(head) \subseteq Emitted
    <3>1. DependsOn(head) \subseteq Awaited(head)
      BY DEF DependsOn, Awaited, Parents, TypeOK
    <3>2. QED BY <3>1, <1>3, HeadFacts
  <2>5. ASSUME NEW i \in 1..Len(out'), NEW p \in DependsOn(out'[i])
        PROVE  \E j \in 1..(i - 1) : out'[j] = p
    <3>1. CASE i = Len(out) + 1
      <4>1. PICK j \in 1..Len(out) : out[j] = p
        BY <2>3, <2>4, <2>5, <3>1 DEF Emitted
      <4>2. QED BY <2>3, <3>1, <4>1
    <3>2. CASE i # Len(out) + 1
      <4>1. i \in 1..Len(out) /\ out'[i] = out[i]
        BY <2>3, <3>2
      <4>2. PICK j \in 1..(i - 1) : out[j] = p
        BY <2>5, <4>1 DEF ParentsFirst
      <4>3. j \in 1..Len(out)
        BY <2>3, <4>1, <4>2
      <4>4. QED BY <2>3, <4>2, <4>3
    <3>3. QED BY <3>1, <3>2
  <2>6. QED BY <2>2, <2>5 DEF ParentsFirst
<1>4. QED BY <1>1, <1>2, <1>3, ResultSteps

LEMMA OrderStep == PlanInv /\ [Next]_vars => FirstReady'
<1> SUFFICES ASSUME PlanInv, [Next]_vars PROVE FirstReady'
  OBVIOUS
<1> USE DEF PlanInv
<1>1. CASE out' = <<>>
  BY <1>1 DEF FirstReady
<1>2. CASE UNCHANGED <<out, selected, read>>
  BY <1>2 DEF FirstReady, DependsOn
<1>3. ASSUME NEW head \in Tables, Sort(head) PROVE FirstReady'
  <2>1. UNCHANGED <<selected, read>>
    BY <1>3 DEF Sort, closure
  <2>2. \A t : DependsOn(t)' = DependsOn(t)
    BY <2>1 DEF DependsOn
  <2>3. /\ Len(out) \in Nat /\ Len(out') = Len(out) + 1 /\ out'[Len(out) + 1] = head
        /\ \A i \in 1..Len(out) : out'[i] = out[i]
    BY <1>3, Emits
  <2>4. ASSUME NEW i \in 1..Len(out'), NEW t \in selected,
               t \notin {out'[j] : j \in 1..(i - 1)},
               DependsOn(t) \subseteq {out'[j] : j \in 1..(i - 1)}
        PROVE  out'[i] <= t
    <3>1. {out'[j] : j \in 1..(i - 1)} = {out[j] : j \in 1..(i - 1)}
      <4>1. \A j \in 1..(i - 1) : j \in 1..Len(out)
        BY <2>3
      <4>2. \A j \in 1..(i - 1) : out'[j] = out[j]
        BY <2>3, <4>1
      <4>3. QED BY <4>2
    <3>2. CASE i = Len(out) + 1
      <4>1. {out[j] : j \in 1..(i - 1)} = Emitted
        BY <2>3, <3>2 DEF Emitted
      <4>2. Awaited(t) = DependsOn(t)
        BY DEF Awaited, Parents, DependsOn, TypeOK
      <4>3. t \notin Emitted /\ Awaited(t) \subseteq Emitted
        BY <2>4, <3>1, <4>1, <4>2
      <4>4. Graph
        BY <1>3, HeadFacts
      <4>5. t \in ready
        BY <4>3, <4>4 DEF Graph
      <4>6. QED BY <1>3, <2>3, <3>2, <4>5 DEF Sort, First
    <3>3. CASE i # Len(out) + 1
      <4>1. i \in 1..Len(out) /\ out'[i] = out[i]
        BY <2>3, <3>3
      <4>2. QED BY <2>4, <3>1, <4>1 DEF FirstReady
    <3>4. QED BY <3>2, <3>3
  <2>5. QED BY <2>1, <2>2, <2>4 DEF FirstReady
<1>4. QED BY <1>1, <1>2, <1>3, ResultSteps

-----------------------------------------------------------------------------
(* The invariant holds of every plan. *)
LEMMA PlanInvariant == Spec => []PlanInv
<1>1. Init => PlanInv
  <2> SUFFICES ASSUME Init PROVE PlanInv
    OBVIOUS
  <2>1. TypeOK
    BY TypesInit
  <2>2. CatalogueRead
    BY DEF Init, CatalogueRead
  <2>3. Worklist /\ PlanIsLeast
    BY DEF Init, Worklist, PlanIsLeast, Selecting
  <2>4. SortState /\ ParentsFirst /\ FirstReady
    BY DEF Init, SortState, Sorting, ParentsFirst, FirstReady
  <2>5. QED BY <2>1, <2>2, <2>3, <2>4 DEF PlanInv
<1>2. PlanInv /\ [Next]_vars => PlanInv'
  BY TypesStep, CatalogueStep, WorklistStep, LeastStep, SortStateStep, ParentsFirstStep,
     OrderStep DEF PlanInv
<1>3. QED BY <1>1, <1>2, PTL DEF Spec

(* Every part of the plan keeps its type; no count of parents goes below   *)
(* zero, although each child is released once per parent.                  *)
THEOREM PlanTypes == Spec => []TypeOK
<1>1. PlanInv => TypeOK
  BY DEF PlanInv
<1>2. QED BY <1>1, PlanInvariant, PTL

(* TopoSort puts parents before children in every schema it accepts.       *)
THEOREM PlanOrdersParentsFirst == Spec => []ParentsFirst
<1>1. PlanInv => ParentsFirst
  BY DEF PlanInv
<1>2. QED BY <1>1, PlanInvariant, PTL

(* The order of TopoSort is one function of the tables and foreign keys.   *)
THEOREM PlanOrderIsCanonical == Spec => []OrderIsCanonical
<1>1. PlanInv => OrderIsCanonical
  BY DEF PlanInv, OrderIsCanonical
<1>2. QED BY <1>1, PlanInvariant, PTL

(* FKClosure returns a closed set, whatever the order of its queue.        *)
THEOREM PlanClosed == Spec => []PlanIsClosed
<1>1. PlanInv => PlanIsClosed
  <2> SUFFICES ASSUME PlanInv, pc = "planned", requested # {} \/ migrations = 0
               PROVE  ClosedUnder(selected)
    BY DEF PlanIsClosed
  <2>1. CASE requested # {}
    BY <2>1 DEF PlanInv, Worklist
  <2>2. CASE requested = {} /\ migrations = 0
    BY <2>2 DEF PlanInv, Worklist, CatalogueRead, Selecting, ClosedUnder
  <2>3. QED BY <2>1, <2>2
<1>2. QED BY <1>1, PlanInvariant, PTL

(* FKClosure returns the least such set. *)
THEOREM PlanLeast == Spec => []PlanIsLeast
<1>1. PlanInv => PlanIsLeast
  BY DEF PlanInv
<1>2. QED BY <1>1, PlanInvariant, PTL

(* What was requested is planned, and nothing is planned twice.            *)
THEOREM PlanWhole == Spec => []PlanIsWhole
<1>1. PlanInv => PlanIsWhole
  <2> SUFFICES ASSUME PlanInv, pc = "planned" PROVE PlanIsWhole
    BY DEF PlanIsWhole
  <2>1. Emitted = selected /\ Graph /\ Seeds \subseteq selected /\ ~Missing
    BY DEF PlanInv, SortState, Worklist, Selecting, Sorting
  <2>2. ASSUME NEW raw \in requested PROVE \E t \in Emitted : raw \in {t, NameOf[t]}
    <3>1. PICK t \in Found(raw) : TRUE
      BY <2>1 DEF Missing
    <3>2. t \in Seeds
      BY <3>1 DEF Seeds
    <3>3. raw \in {t, NameOf[t]}
      BY <3>1 DEF Found
    <3>4. QED BY <2>1, <3>2, <3>3
  <2>3. requested = {} => Emitted = read.tables
    BY <2>1 DEF PlanInv, Worklist, Selecting
  <2>4. migrations = 0 => PlannedSequences = Serial \cap Emitted
    <3> SUFFICES ASSUME migrations = 0 PROVE read.sequences \cap selected = Serial \cap selected
      BY <2>1 DEF PlannedSequences
    <3>1. /\ read.tables = source.tables /\ read.deps = source.fks
          /\ read.sequences = source.tables \cap Serial
          /\ ClosedUnder(read.tables)
      BY DEF PlanInv, CatalogueRead, ClosedUnder
    <3>2. read.tables \in SUBSET Tables /\ Seeds \subseteq read.tables
      BY DEF PlanInv, TypeOK, Seeds, Found
    <3>3. selected \subseteq read.tables
      BY <3>1, <3>2 DEF PlanInv, PlanIsLeast
    <3>4. QED BY <3>1, <3>3
  <2>5. QED BY <2>1, <2>2, <2>3, <2>4 DEF PlanIsWhole, Graph
<1>2. QED BY <1>1, PlanInvariant, PTL

(* A plan is the least closed set of tables with the requested ones        *)
(* (pgschema/filter.go, native.go Plan).                                   *)
THEOREM PlanIsTheClosure == Spec => []PlanIsClosure
  BY PlanClosed, PlanLeast, PlanWhole, PTL DEF PlanIsClosure

(* TopoSort refuses a schema only for tables that wait for each other.     *)
THEOREM PlanRefusesOnlyCycles == Spec => []RefusesOnlyCycles
<1>1. PlanInv => RefusesOnlyCycles
  <2> SUFFICES ASSUME PlanInv, err = "cycle"
               PROVE  \E S \in SUBSET selected : S # {} /\ \A t \in S : DependsOn(t) \cap S # {}
    BY DEF RefusesOnlyCycles
  <2> DEFINE S == selected \ Emitted
  <2>1. Graph /\ ready = {} /\ Emitted # selected
    BY DEF PlanInv, SortState, Sorting
  <2>2. out \in Seq(selected) /\ selected \subseteq Tables
    BY DEF PlanInv, TypeOK
  <2>3. Emitted \subseteq selected
    BY <2>2 DEF Emitted
  <2>4. ASSUME NEW t \in S PROVE DependsOn(t) \cap S # {}
    <3>1. ~(Awaited(t) \subseteq Emitted)
      BY <2>1, <2>4 DEF Graph
    <3>2. PICK p \in Awaited(t) : p \notin Emitted
      BY <3>1
    <3>3. QED BY <3>2 DEF Awaited, Parents, DependsOn
  <2>5. QED BY <2>1, <2>3, <2>4
<1>2. QED BY <1>1, PlanInvariant, PTL

-----------------------------------------------------------------------------
(* How far planning is. *)
Places ==
  {"tables", "deps", "sequences", "closure", "expand", "graph", "sort", "count",
   "planned", "failed"}

LEMMA PlaceValues ==
  /\ \A p \in Places : Place[p] \in 0..8
  /\ \A p \in Places \ {"planned", "failed"} : Place[p] > 0
  /\ Place["tables"] = 8 /\ Place["deps"] = 7 /\ Place["sequences"] = 6
  /\ Place["closure"] = 5 /\ Place["expand"] = 4 /\ Place["graph"] = 3
  /\ Place["sort"] = 2 /\ Place["count"] = 1
  /\ Place["planned"] = 0 /\ Place["failed"] = 0
  BY DEF Places, Place

LEMMA AtMostN ==
  ASSUME NEW S \in SUBSET Tables
  PROVE  Cardinality(S) \in 0..N
<1>1. 1 \in Int /\ N \in Int /\ N \in Nat /\ (IF 1 > N THEN 0 ELSE N - 1 + 1) = N
  BY PlanAssumption
<1> HIDE DEF Tables
<1>2. IsFiniteSet(Tables) /\ Cardinality(Tables) = N
  BY <1>1, FS_Interval DEF Tables
<1>3. Cardinality(S) <= N /\ Cardinality(S) \in Nat
  BY <1>2, FS_Subset, FiniteTables
<1>4. QED BY <1>1, <1>3

(* No more tables are sorted than there are. *)
LEMMA OutIsBounded == PlanInv /\ PlanInv' /\ [Next]_vars /\ Len(out) <= N => Len(out') <= N
<1> SUFFICES ASSUME PlanInv, PlanInv', [Next]_vars, Len(out) <= N PROVE Len(out') <= N
  OBVIOUS
<1>1. ASSUME NEW head \in Tables, Sort(head) PROVE Len(out') <= N
  <2>1. Graph'
    BY <1>1, GraphKept
  <2>2. out' \in Seq(selected') /\ selected' \subseteq Tables
    BY DEF PlanInv, TypeOK
  <2>3. Emitted' \subseteq Tables
    BY <2>2 DEF Emitted
  <2>4. Len(out') = Cardinality(Emitted')
    BY <2>1 DEF Graph
  <2>5. Cardinality(Emitted') \in 0..N
    BY <2>3, AtMostN
  <2>6. QED BY <2>4, <2>5, PlanAssumption
<1>2. CASE BuildGraph
  BY <1>2 DEF BuildGraph
<1>3. CASE UNCHANGED out
  BY <1>3
<1>4. QED BY <1>1, <1>2, <1>3, Sorts

(* Nothing is selected before the closure, and what is sorted fits.        *)
Bounded ==
  /\ PlanInv
  /\ Len(out) <= N
  /\ pc \in {"tables", "deps", "sequences", "closure"} => selected = {}

LEMMA BoundedStep == Bounded /\ PlanInv' /\ [Next]_vars => Bounded'
<1> SUFFICES ASSUME Bounded, PlanInv', [Next]_vars,
                    pc' \in {"tables", "deps", "sequences", "closure"}
             PROVE  selected' = {}
  BY OutIsBounded DEF Bounded
<1>1. pc \in {"tables", "deps", "sequences", "closure"} /\ UNCHANGED selected
  BY StepCases, Migrations
     DEF ListTables, ListFKDeps, ListSequences, QueryFails, SeedTables, ExpandParents,
         ClosureEnds, BuildGraph, Sort, SortEnds, CountExactRows, Goto, Fail, closure,
         Bounded, PlanInv, TypeOK
<1>2. QED BY <1>1 DEF Bounded

LEMMA PlanStaysBounded == Spec => []Bounded
<1>1. Init => Len(out) <= N /\ selected = {}
  BY PlanAssumption DEF Init
<1>2. Init /\ PlanInv => Bounded
  BY <1>1 DEF Bounded
<1>3. QED BY <1>2, BoundedStep, PlanInvariant, PTL DEF Spec

(* The three parts of what is left. *)
LEMMA StepsAreBounded ==
  ASSUME Bounded
  PROVE  /\ StepsLeft \in 0..(2 * N + 8)
         /\ Place[pc] \in 0..8 /\ Len(out) \in 0..N
         /\ Cardinality(selected \ queue) \in 0..N
<1>1. pc \in Places
  BY DEF Bounded, PlanInv, TypeOK, Places
<1>2. Place[pc] \in 0..8
  BY <1>1, PlaceValues
<1>3. out \in Seq(selected) /\ selected \ queue \subseteq Tables
  BY DEF Bounded, PlanInv, TypeOK
<1>4. Len(out) \in 0..N
  BY <1>3, PlanAssumption DEF Bounded
<1>5. Cardinality(selected \ queue) \in 0..N
  BY <1>3, AtMostN
<1> DEFINE p == Place[pc]  c == Cardinality(selected \ queue)  l == Len(out)
<1>6. p + (N - c) + (N - l) \in 0..(2 * N + 8)
  <2> HIDE DEF p, c, l
  <2>1. p \in 0..8 /\ c \in 0..N /\ l \in 0..N /\ N \in Nat
    BY <1>2, <1>4, <1>5, PlanAssumption DEF p, c, l
  <2>2. QED BY <2>1
<1>7. QED BY <1>2, <1>4, <1>5, <1>6 DEF StepsLeft

(* Less of one part and no more of the others is less.                     *)
LEMMA LessIsLeft ==
  ASSUME NEW p \in Int, NEW c \in Int, NEW l \in Int,
         NEW p2 \in Int, NEW c2 \in Int, NEW l2 \in Int,
         p2 <= p, c2 >= c, l2 >= l, p2 < p \/ c2 > c \/ l2 > l
  PROVE  p2 + (N - c2) + (N - l2) < p + (N - c) + (N - l)
  BY PlanAssumption

LEMMA Advances ==
  ASSUME Bounded, Bounded',
         Place[pc'] <= Place[pc],
         Cardinality(selected' \ queue') >= Cardinality(selected \ queue),
         Len(out') >= Len(out),
         \/ Place[pc'] < Place[pc]
         \/ Cardinality(selected' \ queue') > Cardinality(selected \ queue)
         \/ Len(out') > Len(out)
  PROVE  StepsLeft' < StepsLeft
<1>1. Place[pc] \in Int /\ Len(out) \in Int /\ Cardinality(selected \ queue) \in Int
  BY StepsAreBounded
<1>2. Place[pc'] \in Int
  BY PlaceValues DEF Bounded, PlanInv, TypeOK, Places
<1>3. selected' \ queue' \subseteq Tables /\ out' \in Seq(selected')
  BY DEF Bounded, PlanInv, TypeOK
<1>4. Len(out') \in Int /\ Cardinality(selected' \ queue') \in Int
  BY <1>3, AtMostN
<1> DEFINE p == Place[pc]  c == Cardinality(selected \ queue)  l == Len(out)
           p2 == Place[pc']  c2 == Cardinality(selected' \ queue')  l2 == Len(out')
<1>5. p2 + (N - c2) + (N - l2) < p + (N - c) + (N - l)
  <2>1. /\ p \in Int /\ c \in Int /\ l \in Int /\ p2 \in Int /\ c2 \in Int /\ l2 \in Int
        /\ p2 <= p /\ c2 >= c /\ l2 >= l
        /\ p2 < p \/ c2 > c \/ l2 > l
    BY <1>1, <1>2, <1>4
  <2> HIDE DEF p, c, l, p2, c2, l2
  <2>2. QED BY <2>1, LessIsLeft
<1>6. QED BY <1>5 DEF StepsLeft

(* A step from place to place leaves the tables as they are.               *)
LEMMA PlaceAdvances ==
  ASSUME Bounded, Bounded', Place[pc'] < Place[pc], UNCHANGED <<selected, queue, out>>
  PROVE  StepsLeft' < StepsLeft
<1>1. Place[pc] \in Int /\ Len(out) \in Int /\ Cardinality(selected \ queue) \in Int
  BY StepsAreBounded
<1>2. Place[pc'] \in Int
  BY PlaceValues DEF Bounded, PlanInv, TypeOK, Places
<1>3. /\ Place[pc'] <= Place[pc]
      /\ Cardinality(selected' \ queue') >= Cardinality(selected \ queue)
      /\ Len(out') >= Len(out)
  BY <1>1, <1>2
<1>4. QED BY <1>3, Advances

LEMMA SeedingAdvances ==
  ASSUME Bounded, Bounded', SeedTables
  PROVE  StepsLeft' < StepsLeft
<1>1. pc = "closure" /\ pc' \in {"expand", "failed"} /\ UNCHANGED out
  BY DEF SeedTables, Goto, Fail, graph
<1>2. selected \ queue = {} /\ Cardinality({}) = 0
  BY <1>1, FS_EmptySet DEF Bounded
<1>3. Place[pc'] < Place[pc] /\ Place[pc'] <= Place[pc]
  BY <1>1, PlaceValues
<1>4. selected' \ queue' \subseteq Tables /\ Len(out) \in Int
  BY StepsAreBounded DEF Bounded, PlanInv, TypeOK
<1>5. Cardinality(selected' \ queue') >= Cardinality(selected \ queue)
  BY <1>2, <1>4, FiniteTables
<1>6. QED BY <1>1, <1>3, <1>4, <1>5, Advances

(* The head of the queue is one table more whose parents are selected.     *)
LEMMA ExpandingAdvances ==
  ASSUME Bounded, Bounded', NEW head \in Tables, ExpandParents(head)
  PROVE  StepsLeft' < StepsLeft
<1>1. head \in queue /\ queue \subseteq selected /\ selected \subseteq Tables
  BY DEF ExpandParents, Bounded, PlanInv, TypeOK
<1>2. selected' \ queue' = (selected \ queue) \cup {head}
  BY <1>1 DEF ExpandParents, Enqueue
<1>3. /\ Cardinality(selected' \ queue') = Cardinality(selected \ queue) + 1
      /\ Cardinality(selected \ queue) \in Int
  <2>1. IsFiniteSet(selected \ queue) /\ Cardinality(selected \ queue) \in Nat
    BY <1>1, FiniteTables
  <2>2. head \notin selected \ queue
    BY <1>1
  <2> DEFINE S == selected \ queue
  <2>3. Cardinality(S \cup {head}) = Cardinality(S) + 1
    <3> HIDE DEF S
    <3>1. IsFiniteSet(S) /\ head \notin S
      BY <2>1, <2>2 DEF S
    <3>2. QED BY <3>1, FS_AddElement
  <2>4. Cardinality(selected' \ queue') = Cardinality(S) + 1
    BY <1>2, <2>3, Zenon
  <2>5. QED BY <2>1, <2>4
<1>4. UNCHANGED <<pc, out>>
  BY DEF ExpandParents, graph
<1>5. Place[pc] \in Int /\ Len(out) \in Int
  BY StepsAreBounded
<1>6. /\ Cardinality(selected' \ queue') > Cardinality(selected \ queue)
      /\ Cardinality(selected' \ queue') >= Cardinality(selected \ queue)
      /\ Place[pc'] <= Place[pc] /\ Len(out') >= Len(out)
  BY <1>3, <1>4, <1>5
<1>7. QED BY <1>6, Advances

(* The head of the ready list is one table more in the order.              *)
LEMMA SortingAdvances ==
  ASSUME Bounded, Bounded', NEW head \in Tables, Sort(head)
  PROVE  StepsLeft' < StepsLeft
<1>1. UNCHANGED <<pc, selected, queue>>
  BY DEF Sort, closure
<1>2. Len(out') = Len(out) + 1 /\ Len(out) \in Nat
  BY Emits DEF Bounded, PlanInv
<1>3. Place[pc] \in Int /\ Cardinality(selected \ queue) \in Int
  BY StepsAreBounded
<1>4. /\ Len(out') > Len(out) /\ Len(out') >= Len(out)
      /\ Place[pc'] <= Place[pc]
      /\ Cardinality(selected' \ queue') >= Cardinality(selected \ queue)
  BY <1>1, <1>2, <1>3
<1>5. QED BY <1>4, Advances

(* FKClosure and TopoSort come to an end on every schema, also one whose   *)
(* foreign keys form cycles: planning N tables takes 2N + 8 steps at most  *)
(* (filter.go:62-83, deps.go:93-127).                                      *)
THEOREM PlanningIsBounded == Spec => PlanningAdvances
<1>1. Bounded => StepsLeft \in 0..(2 * N + 8)
  BY StepsAreBounded
<1>2. ASSUME Bounded, Bounded', Planning
      PROVE  StepsLeft' < StepsLeft
  <2> USE <1>2
  <2>1. CASE ListTables \/ ListFKDeps \/ ListSequences \/ QueryFails \/ ClosureEnds
             \/ BuildGraph \/ SortEnds \/ CountExactRows
    <3>1. UNCHANGED <<selected, queue, out>>
      BY <2>1 DEF ListTables, ListFKDeps, ListSequences, QueryFails, ClosureEnds, BuildGraph,
                  SortEnds, CountExactRows, closure, graph
    <3>2. Place[pc'] < Place[pc]
      BY <2>1, PlaceValues
         DEF ListTables, ListFKDeps, ListSequences, QueryFails, ClosureEnds, BuildGraph,
             SortEnds, CountExactRows, Goto, Fail
    <3>3. QED BY <3>1, <3>2, PlaceAdvances
  <2>2. CASE SeedTables
    BY <2>2, SeedingAdvances
  <2>3. CASE \E head \in Tables : ExpandParents(head) \/ Sort(head)
    BY <2>3, ExpandingAdvances, SortingAdvances
  <2>4. QED BY <2>1, <2>2, <2>3 DEF Planning
<1>3. ASSUME [Next]_vars, ~Planning
      PROVE  StepsLeft' = StepsLeft
  <2>1. UNCHANGED <<pc, selected, queue, out>>
    BY <1>3, Migrations DEF Next, closure, graph
  <2>2. QED BY <2>1 DEF StepsLeft
<1>4. Bounded /\ Bounded' /\ [Next]_vars =>
        [IF Planning THEN StepsLeft' < StepsLeft ELSE StepsLeft' = StepsLeft]_vars
  BY <1>2, <1>3
<1>5. QED BY <1>1, <1>4, PlanStaysBounded, PTL DEF Spec, PlanningAdvances
=============================================================================
