--------------------------- MODULE ConfigSources ---------------------------
(***************************************************************************)
(* How a configuration is put together: config/config.go, override.go,     *)
(* validate.go, cli/config_resolver.go, applyPositionalDatabase of         *)
(* cli/sync.go and the overlay functions of cmd/pgsync/tui_runner.go.      *)
(*                                                                         *)
(* A source of settings is a function on the settings it gives: what is    *)
(* not in its domain is empty, zero or not mentioned.  The settings kept   *)
(* are the ones the code treats apart: "remote" and "local" (hosts, for    *)
(* all that has no default), "threads" (for all that has one), "tools"     *)
(* (a switch that is "on" or "off") and the three database names.          *)
(***************************************************************************)
CONSTANTS
  Hosts,    \* the values of a host
  DBNames,    \* the names of databases
  Counts,   \* the numbers of threads
  Cores     \* the number of processors, the default of threads

ASSUME SourcesAssumption == Cores \in Counts

Settings == {"remote", "local", "threads", "tools",
             "remoteDatabase", "localDatabase", "defaultDatabase"}

(* A value that does not parse, which only an environment can give. *)
Bad == "bad"

ValuesOf(s) ==
  CASE s \in {"remote", "local"} -> Hosts
    [] s = "threads" -> Counts
    [] s = "tools" -> {"on", "off"}
    [] OTHER -> DBNames

IsConfig(c) == DOMAIN c \subseteq Settings /\ \A s \in DOMAIN c : c[s] \in ValuesOf(s)

Given(source, s) == s \in DOMAIN source
Nothing == [s \in {} |-> Bad]
Only(source, d) == [s \in DOMAIN source \cap d |-> source[s]]

(* The settings of top, and where it gives none those of base. *)
Over(top, base) ==
  [s \in DOMAIN top \cup DOMAIN base |-> IF Given(top, s) THEN top[s] ELSE base[s]]

-----------------------------------------------------------------------------
(* Mutant: the local server is on some host unless a source says where. *)
LocalByDefault ==
  [s \in {"local", "threads", "tools"} |->
     CASE s = "local" -> CHOOSE h \in Hosts : TRUE [] s = "threads" -> Cores [] s = "tools" -> "off"]

Defaults == [s \in {"threads", "tools"} |-> IF s = "threads" THEN Cores ELSE "off"]

(* overlayConfig and its copy overlayTUIConfig take the fields of a file   *)
(* that are not zero: a file cannot turn a switch off.                     *)
NotZero(file) == Only(file, {s \in DOMAIN file : file[s] # "off"})
FromFile(file) == Over(NotZero(file), Defaults)

(* Mutant: the copy of the overlay in tui_runner.go forgets the database. *)
FromFileNoDatabase(file) ==
  Over(Only(NotZero(file), Settings \ {"localDatabase"}), Defaults)

FromFileTui(file) == FromFile(file)

(* PGSYNC_* variables: there is none for the local database, and a value   *)
(* that is not a number or a switch is an error.                           *)
Variables == Settings \ {"localDatabase"}
IsEnvironment(env) ==
  DOMAIN env \subseteq Variables /\ \A s \in DOMAIN env : env[s] \in ValuesOf(s) \cup {Bad}
EnvParses(env) == \A s \in DOMAIN env : env[s] # Bad
ApplyEnv(cfg, env) == Over(Only(env, Variables), cfg)

(* The flags of the command line: no default and no local database. *)
Flags == {"remote", "local", "threads", "tools", "remoteDatabase"}

(* Mutant: the local database is left to the resolver. *)
RemoteDatabaseOnly(flags, args) ==
  Over(flags, [s \in IF args = {} THEN {} ELSE {"remoteDatabase"} |-> CHOOSE a \in args : TRUE])

(* applyPositionalDatabase: the argument of sync, if there is one, names   *)
(* both databases unless a flag does.                                      *)
ApplyPositional(flags, args) ==
  Over(flags, [s \in IF args = {} THEN {} ELSE {"remoteDatabase", "localDatabase"} |->
                 CHOOSE a \in args : TRUE])

(* Mutant: the environment is read last. *)
EnvLast(file, env, flags) == ApplyEnv(Over(flags, FromFile(file)), env)

(* The order of Resolve. *)
Layered(file, env, flags) == Over(flags, ApplyEnv(FromFile(file), env))

(* connectionHostsProvided: a file that cannot be loaded does not matter   *)
(* when both hosts come from elsewhere.                                    *)
HostsProvided(env, flags) ==
  \A s \in {"remote", "local"} : Given(flags, s) \/ Given(env, s)

(* fillDatabaseFromInfisical *)
DatabasesNamed(cfg) == \A s \in {"remoteDatabase", "localDatabase"} : Given(cfg, s)
FillDatabases(cfg, name) ==
  Over(cfg, [s \in {"remoteDatabase", "localDatabase", "defaultDatabase"} |-> name])

Valid(cfg) == \A s \in {"remote", "local", "threads"} : Given(cfg, s)

(* PlanOptionsFromConfig: the argument, else the default, else the remote  *)
(* database.                                                               *)
PlanDatabase(cfg, args) ==
  IF args # {} THEN CHOOSE a \in args : TRUE
  ELSE IF Given(cfg, "defaultDatabase") THEN cfg["defaultDatabase"]
  ELSE cfg["remoteDatabase"]

(* PlanOptions.Validate: a plan needs both servers and a database, but no  *)
(* number of threads.                                                      *)
ValidPlan(cfg, args) ==
  /\ \A s \in {"remote", "local"} : Given(cfg, s)
  /\ args # {} \/ \E s \in {"defaultDatabase", "remoteDatabase"} : Given(cfg, s)
=============================================================================
