------------------------------ MODULE SyncPlan ------------------------------
(***************************************************************************)
(* Plan of internal/engine/native/native.go: it reads the catalogue of the *)
(* source with three queries in no transaction, takes the closure of the   *)
(* requested tables under foreign keys (FKClosure, pgschema/filter.go),    *)
(* sorts it parents first (TopoSort, pgschema/deps.go), and counts rows.   *)
(* Migrations of the source may happen between any two queries.            *)
(*                                                                         *)
(* A table is its rank in the order of the qualified names, in which the   *)
(* queries list and the sort compares.  A request is a qualified name (the *)
(* table) or a bare name, which tables of several schemas may share.       *)
(***************************************************************************)
EXTENDS Naturals, Sequences, FiniteSets

CONSTANTS
  N,             \* how many tables there can be
  NameOf,        \* the bare name of each
  ForeignKeys,   \* <<child, parent>>: the foreign keys there can be
  Serial,        \* the tables that own a sequence
  Requests,      \* the values of the option --tables
  MaxMigrations  \* bound on the migrations during a plan

Tables == 1..N
Names == {NameOf[t] : t \in Tables}

ASSUME PlanAssumption ==
  /\ N \in Nat /\ MaxMigrations \in Nat
  /\ NameOf = [t \in Tables |-> NameOf[t]]
  /\ ForeignKeys \subseteq Tables \X Tables /\ Serial \subseteq Tables
  /\ Requests \subseteq SUBSET (Tables \cup Names)

VARIABLES
  source,      \* the tables and the foreign keys of the source database
  migrations,  \* how often it has changed since the start
  requested,   \* the option --tables; nothing means all
  pc,
  err,         \* why the plan failed
  read,        \* what the queries have returned: tables, deps, sequences
  selected,    \* FKClosure: the tables so far, those whose parents are still
  queue,       \*   to be added
  indegrees,   \* TopoSort: the parents not sorted yet, the tables without one,
  ready,       \*   the result
  out

catalogue == <<source, migrations, requested>>
closure == <<selected, queue>>
graph == <<indegrees, ready, out>>
vars == <<catalogue, pc, err, read, closure, graph>>

Catalogues == [tables : SUBSET Tables, fks : SUBSET ForeignKeys]

TypeOK ==
  /\ source \in Catalogues /\ migrations \in 0..MaxMigrations /\ requested \in Requests
  /\ pc \in {"tables", "deps", "sequences", "closure", "expand", "graph", "sort", "count",
             "planned", "failed"}
  /\ err \in {"none", "catalogue", "notFound", "cycle"}
  /\ read \in [tables : SUBSET Tables, deps : SUBSET ForeignKeys, sequences : SUBSET Serial]
  /\ selected \subseteq Tables /\ queue \subseteq selected
  /\ indegrees \in [Tables -> Nat]
  /\ ready \subseteq selected
  /\ out \in Seq(selected)

Init ==
  /\ source \in Catalogues
  /\ \A fk \in source.fks : fk[1] \in source.tables /\ fk[2] \in source.tables
  /\ migrations = 0 /\ requested \in Requests
  /\ pc = "tables" /\ err = "none"
  /\ read = [tables |-> {}, deps |-> {}, sequences |-> {}]
  /\ selected = {} /\ queue = {}
  /\ indegrees = [t \in Tables |-> 0] /\ ready = {} /\ out = <<>>

-----------------------------------------------------------------------------
(* Other clients of the source. *)
Migrate(to) ==
  /\ migrations < MaxMigrations /\ ~(pc \in {"planned", "failed"})
  /\ source' = to /\ migrations' = migrations + 1
  /\ UNCHANGED <<requested, pc, err, read, closure, graph>>

CreateTable(t, fks) ==
  /\ t \in Tables \ source.tables
  /\ \A fk \in fks : t \in {fk[1], fk[2]} /\ {fk[1], fk[2]} \subseteq source.tables \cup {t}
  /\ Migrate([tables |-> source.tables \cup {t}, fks |-> source.fks \cup fks])

DropTable(t) ==
  /\ t \in source.tables
  /\ Migrate([tables |-> source.tables \ {t},
              fks |-> {fk \in source.fks : t \notin {fk[1], fk[2]}}])

AddForeignKey(fk) ==
  /\ fk[1] \in source.tables /\ fk[2] \in source.tables /\ fk \notin source.fks
  /\ Migrate([source EXCEPT !.fks = @ \cup {fk}])

-----------------------------------------------------------------------------
Goto(place) == pc' = place /\ err' = err
Fail(why) == pc' = "failed" /\ err' = why

ListTables ==
  /\ pc = "tables"
  /\ read' = [read EXCEPT !.tables = source.tables]
  /\ Goto("deps")
  /\ UNCHANGED <<catalogue, closure, graph>>

ListFKDeps ==
  /\ pc = "deps"
  /\ read' = [read EXCEPT !.deps = source.fks]
  /\ Goto("sequences")
  /\ UNCHANGED <<catalogue, closure, graph>>

ListSequences ==
  /\ pc = "sequences"
  /\ read' = [read EXCEPT !.sequences = source.tables \cap Serial]
  /\ Goto("closure")
  /\ UNCHANGED <<catalogue, closure, graph>>

QueryFails ==
  /\ pc \in {"tables", "deps", "sequences", "count"}
  /\ Fail("catalogue")
  /\ UNCHANGED <<catalogue, read, closure, graph>>

-----------------------------------------------------------------------------
(* indexTables: a later table takes the bare name from an earlier one.     *)
Found(raw) ==
  {t \in read.tables :
     t = raw \/ (NameOf[t] = raw /\ \A u \in read.tables : NameOf[u] = raw => u <= t)}

Missing == \E raw \in requested : Found(raw) = {}

SeedTables ==
  /\ pc = "closure"
  /\ IF Missing
     THEN Fail("notFound") /\ UNCHANGED closure
     ELSE /\ Goto("expand")
          /\ selected' = IF requested = {} THEN read.tables ELSE UNION {Found(raw) : raw \in requested}
          /\ queue' = IF requested = {} THEN {} ELSE selected'
  /\ UNCHANGED <<catalogue, read, graph>>

(* Mutant: the tables that refer to t are taken. *)
Children(t) == {c \in Tables : <<c, t>> \in read.deps}

Parents(t) == {p \in Tables : <<t, p>> \in read.deps}

(* Mutant: a parent is not visited in its turn. *)
Seen(parents) == queue

(* Mutant: a table is visited again whenever a child of it is. *)
Revisit(parents) == queue \cup parents

Enqueue(parents) == queue \cup (parents \ selected)

(* One table of the queue.  It starts in the order of a map, so any will   *)
(* do.                                                                     *)
ExpandParents(head) ==
  /\ pc = "expand" /\ head \in queue
  /\ selected' = selected \cup Parents(head)
  /\ queue' = Enqueue(Parents(head)) \ {head}
  /\ UNCHANGED <<catalogue, pc, err, read, graph>>

ClosureEnds ==
  /\ pc = "expand" /\ queue = {}
  /\ Goto("graph")
  /\ UNCHANGED <<catalogue, read, closure, graph>>

-----------------------------------------------------------------------------
(* skipDep: not itself, a known table, and each only once.                 *)
Awaited(t) == (Parents(t) \cap selected) \ {t}

BuildGraph ==
  /\ pc = "graph"
  /\ indegrees' = [t \in Tables |-> IF t \in selected THEN Cardinality(Awaited(t)) ELSE 0]
  /\ ready' = {t \in selected : indegrees'[t] = 0}
  /\ Goto("sort")
  /\ UNCHANGED <<catalogue, read, closure, out>>

(* Mutant: the order is that of a map. *)
AnyOf(head) == head \in ready

(* The first in the sorted order. *)
First(head) == head \in ready /\ \A t \in ready : head <= t

(* The parent sorted now was the last one awaited. *)
Released(child) == indegrees[child] = 1

Waiting(head) == {c \in selected : head \in Awaited(c)}

(* The head of the list, and releaseChildren. *)
Sort(head) ==
  /\ pc = "sort" /\ First(head)
  /\ indegrees' = [t \in Tables |-> IF t \in Waiting(head) THEN indegrees[t] - 1 ELSE indegrees[t]]
  /\ ready' = (ready \ {head}) \cup {c \in Waiting(head) : Released(c)}
  /\ out' = Append(out, head)
  /\ UNCHANGED <<catalogue, pc, err, read, closure>>

SortEnds ==
  /\ pc = "sort" /\ ready = {}
  /\ IF Len(out) = Cardinality(selected) THEN Goto("count") ELSE Fail("cycle")
  /\ UNCHANGED <<catalogue, read, closure, graph>>

(* A table dropped since it was listed fails its SELECT count( * ); one    *)
(* dropped after its count does not.                                       *)
CountExactRows ==
  /\ pc = "count" /\ selected \subseteq source.tables
  /\ Goto("planned")
  /\ UNCHANGED <<catalogue, read, closure, graph>>

(* What Plan returns: the tables in their order, and sequencesForTables.   *)
PlannedSequences == read.sequences \cap selected

Planning ==
  \/ ListTables \/ ListFKDeps \/ ListSequences \/ QueryFails \/ SeedTables
  \/ \E head \in Tables : ExpandParents(head) \/ Sort(head)
  \/ ClosureEnds \/ BuildGraph \/ SortEnds \/ CountExactRows

Next ==
  \/ Planning
  \/ \E t \in Tables : DropTable(t) \/ \E fks \in SUBSET ForeignKeys : CreateTable(t, fks)
  \/ \E fk \in ForeignKeys : AddForeignKey(fk)

Spec == Init /\ [][Next]_vars
FairSpec == Spec /\ WF_vars(Planning)

-----------------------------------------------------------------------------
Emitted == {out[i] : i \in 1..Len(out)}
Seeds == IF requested = {} THEN read.tables ELSE UNION {Found(raw) : raw \in requested}
DependsOn(t) == {p \in selected \ {t} : <<t, p>> \in read.deps}
ClosedUnder(C) == \A fk \in read.deps : fk[1] \in C => fk[2] \in C

(* A table is copied after every table it refers to: each prefix of the    *)
(* order contains the parents of its tables.                               *)
ParentsFirst ==
  \A i \in 1..Len(out) : \A p \in DependsOn(out[i]) : \E j \in 1..(i - 1) : out[j] = p

(* The next table is the least of those that could be next. *)
FirstReady ==
  \A i \in 1..Len(out) : \A t \in selected :
    LET before == {out[j] : j \in 1..(i - 1)} IN
    t \notin before /\ DependsOn(t) \subseteq before => out[i] <= t

(* The plan does not depend on the order of Go's maps: at each place there *)
(* is the first of all tables whose parents have been sorted.              *)
OrderIsCanonical == ParentsFirst /\ FirstReady

(* "we must also include any tables those depend on (transitively), so FKs *)
(* apply on the target": a plan of requested tables is closed.  A plan of  *)
(* all tables is closed unless a migration came between the queries.       *)
PlanIsClosed ==
  pc = "planned" /\ (requested # {} \/ migrations = 0) => ClosedUnder(selected)

(* Nothing more is selected than every closed set with the requested       *)
(* tables has.                                                             *)
PlanIsLeast ==
  pc \in {"expand", "graph", "sort", "count", "planned"} =>
    \A C \in SUBSET Tables : Seeds \subseteq C /\ ClosedUnder(C) => selected \subseteq C

(* Everything the user asked for is in the plan, once, and the sequences   *)
(* of all its tables are.                                                  *)
PlanIsWhole ==
  pc = "planned" =>
    /\ migrations = 0 => PlannedSequences = Serial \cap Emitted
    /\ \A raw \in requested : \E t \in Emitted : raw \in {t, NameOf[t]}
    /\ requested = {} => Emitted = read.tables
    /\ \A i, j \in 1..Len(out) : out[i] = out[j] => i = j

(* A plan is what was requested, closed, and nothing else.                 *)
PlanIsClosure == PlanIsClosed /\ PlanIsLeast /\ PlanIsWhole

(* "Real cycles across distinct nodes return *CycleError": a schema is     *)
(* refused only if there are tables that wait for each other.              *)
RefusesOnlyCycles ==
  err = "cycle" =>
    \E S \in SUBSET selected : S # {} /\ \A t \in S : DependsOn(t) \cap S # {}

(* How many steps planning has left at most: its places in their order, the *)
(* tables whose parents are not selected yet, those not sorted yet.        *)
Place ==
  [tables |-> 8, deps |-> 7, sequences |-> 6, closure |-> 5, expand |-> 4, graph |-> 3,
   sort |-> 2, count |-> 1, planned |-> 0, failed |-> 0]

StepsLeft == Place[pc] + (N - Cardinality(selected \ queue)) + (N - Len(out))

(* Whatever the foreign keys and whatever migrations come in between, each *)
(* step of planning comes nearer to its end: no table is expanded or       *)
(* sorted twice, for a cycle neither.                                      *)
PlanningAdvances ==
  /\ [](StepsLeft \in 0..(2 * N + 8))
  /\ [][IF Planning THEN StepsLeft' < StepsLeft ELSE StepsLeft' = StepsLeft]_vars

(* Planning ends, for cyclic schemas too, within that many steps.          *)
PlanEnds == PlanningAdvances /\ <>(pc \in {"planned", "failed"})
=============================================================================
