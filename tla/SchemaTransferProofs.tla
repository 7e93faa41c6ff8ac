------------------------ MODULE SchemaTransferProofs ------------------------
(***************************************************************************)
(* Proofs about SchemaTransfer and its two parts, the restore of           *)
(* PostDataRestore for any schema, cycles of foreign keys included, and    *)
(* any number of workers, and the tunnel of ProxyTunnel for any number of  *)
(* connections and an answer of any length.  The composition implements    *)
(* both, so what is proved of each holds of them together.                 *)
(***************************************************************************)
EXTENDS SchemaTransfer, TLAPS

-----------------------------------------------------------------------------
(* The restore. *)

(* A statement locks only the tables of its own foreign key. *)
LocksOwn == \A f \in ForeignKeys : locked[f] \subseteq TablesOf(f)

RInv == TypeOK /\ WorkersApart /\ LocksOwn

(* DumpArchive leaves the TABLE entries in the archive. *)
LEMMA EntriesPresent == HasTableEntries
  BY DEF HasTableEntries, ArchiveSections

(* A restore starts with nothing in progress. *)
LEMMA RestoreInit == Init => RInv
  BY DEF Init, RInv, TypeOK, WorkersApart, LocksOwn, Active

(* No worker, no commit and no abort breaks the invariant. *)
LEMMA RestoreStep == RInv /\ [Next]_vars => RInv'
<1> SUFFICES ASSUME RInv, [Next]_vars PROVE RInv'
  OBVIOUS
<1> USE RestoreAssumption DEF RInv, TypeOK, WorkersApart, LocksOwn, Active, TablesOf
<1>1. ASSUME NEW f \in ForeignKeys, Start(f) PROVE RInv'
  <2>1. \A g \in Active : TablesOf(f) \cap TablesOf(g) = {}
    BY <1>1, EntriesPresent DEF Start
  <2>2. Active' \subseteq Active \cup {f}
    BY <1>1 DEF Start
  <2>3. WorkersApart'
    BY <2>1, <2>2
  <2>4. QED BY <1>1, <2>3 DEF Start
<1>2. ASSUME NEW f \in ForeignKeys, Lock(f) PROVE RInv'
  BY <1>2 DEF Lock, Wants
<1>3. ASSUME NEW f \in ForeignKeys, Commit(f) PROVE RInv'
  BY <1>3 DEF Commit
<1>4. CASE Abort
  BY <1>4 DEF Abort, LocksAfterAbort
<1>5. CASE UNCHANGED vars
  BY <1>5 DEF vars
<1>6. QED
  BY <1>1, <1>2, <1>3, <1>4, <1>5 DEF Next, Restore, Ended

(* The invariant holds throughout a restore. *)
LEMMA RestoreInvariance == Spec => []RInv
  BY RestoreInit, RestoreStep, PTL DEF Spec

(* The state of the restore is well typed, and only a statement in         *)
(* progress holds locks (schema.go:136-174, --exit-on-error).              *)
THEOREM RestoreTypes == Spec => []TypeOK
<1>1. RInv => TypeOK
  BY DEF RInv
<1>2. QED BY <1>1, RestoreInvariance, PTL

(* Two workers of one restore never work on one table (schema.go:72-78).   *)
THEOREM RestoreApart == Spec => []WorkersApart
<1>1. RInv => WorkersApart
  BY DEF RInv
<1>2. QED BY <1>1, RestoreInvariance, PTL

(* No schema makes the restore end in "deadlock detected", foreign keys    *)
(* that point at each other included (schema.go:72-80): who waits shares a *)
(* table with the one it waits for.                                        *)
THEOREM RestoreNeverDeadlocks == Spec => []NoDeadlock
<1>1. ASSUME RInv PROVE NoDeadlock
  <2> SUFFICES ASSUME NEW S \in SUBSET Active, NEW f \in S, NEW g \in S, WaitsFor(f, g)
               PROVE  FALSE
    BY DEF NoDeadlock, IsDeadlock
  <2>1. f \in Active /\ g \in Active /\ f # g /\ Active \subseteq ForeignKeys
    BY DEF WaitsFor, Active
  <2>2. Wants(f) \in TablesOf(f) /\ Wants(f) \in TablesOf(g)
    BY <1>1, <2>1 DEF WaitsFor, Wants, TablesOf, RInv, LocksOwn
  <2>3. QED BY <1>1, <2>1, <2>2 DEF RInv, WorkersApart
<1>2. QED BY <1>1, RestoreInvariance, PTL

-----------------------------------------------------------------------------
(* The tunnel. *)

(* What is read was forwarded, and what is forwarded was sent. *)
Flow(r) ==
  /\ r.serverGot <= r.upDone /\ r.upDone <= r.toolSent
  /\ r.toolGot <= r.downDone /\ r.downDone <= r.serverSent

(* The server is reached and a copier runs only once the dial succeeded. *)
NotBefore(r) ==
  /\ r.bridge \in {"none", "queued", "dial"} => r.server = "none"
  /\ r.bridge = "copy" => r.server # "none"
  /\ r.server = "none" => r.up = "none" /\ r.down = "none" /\ r.copyDone = 0

CopierDone(r) == r.up \in {"send", "ended"} \/ r.down \in {"send", "ended"}

(* Who receives an end receives the one of a copier. *)
Received(r) ==
  /\ r.copyDone > 0 => CopierDone(r)
  /\ r.bridge = "ended" /\ r.server # "none" => CopierDone(r)

(* Why the first copier has ended: a peer closed, and either all it had    *)
(* sent is forwarded or it closed over something it had not read.          *)
Cause(r) ==
  \/ r.tool = "closed" /\ (r.upDone = r.toolSent \/ r.downDone < r.serverSent)
  \/ r.server = "closed" /\ (r.downDone = r.serverSent \/ r.upDone < r.toolSent
                             \/ r.serverGot < r.upDone)

Record ==
  [tool : {"none", "open", "closed"}, server : {"none", "open", "closed"},
   bridge : {"none", "queued", "dial", "copy", "ended"},
   up : {"none", "copy", "send", "ended"}, down : {"none", "copy", "send", "ended"},
   copyDone : 0..2, toolSent : 0..2, upDone : 0..2, serverGot : 0..2,
   serverSent : Nat, downDone : Nat, toolGot : Nat]

(* A connection the tool has not made has no bridge, and one it has made   *)
(* does not become unmade.                                                 *)
Begun(r) == r.tool = "none" => r.bridge = "none"

ConnInv(r) ==
  /\ r \in Record
  /\ Flow(r) /\ NotBefore(r) /\ Received(r) /\ Begun(r)
  /\ CopierDone(r) => Cause(r)

(* pg_dump has ended when its tunnel is closed. *)
HasExited == call = "cleanup" => exit # "none"

TInv == Tunnel!TypeOK /\ HasExited /\ \A c \in Conns : ConnInv(conn[c])

(* No connection is made before the first step. *)
LEMMA TunnelInit == Tunnel!Init => TInv
<1> SUFFICES ASSUME Tunnel!Init PROVE TInv
  OBVIOUS
<1>1. ConnInv(Tunnel!Closed)
  BY DEF ConnInv, Record, Tunnel!Closed, Flow, NotBefore, Received, Begun, CopierDone
<1>2. conn = [c \in Conns |-> Tunnel!Closed]
  BY DEF Tunnel!Init
<1>3. \A c \in Conns : ConnInv(conn[c])
  BY <1>1, <1>2
<1>4. Tunnel!TypeOK
  BY <1>2, <1>1 DEF Tunnel!Init, Tunnel!TypeOK, ConnInv, Record
<1>5. QED BY <1>3, <1>4 DEF TInv, HasExited, Tunnel!Init

(* A step that replaces one connection by one that satisfies the invariant *)
(* keeps it.                                                               *)
LEMMA GoesKeeps ==
  ASSUME TInv, NEW c \in Conns, NEW r, ConnInv(r), Tunnel!Goes(c, r), UNCHANGED Tunnel!notConn
  PROVE  TInv'
<1>1. conn' = [conn EXCEPT ![c] = r] /\ conn \in [Conns -> Record]
  BY DEF Tunnel!Goes, TInv, Tunnel!TypeOK, Record
<1>2. \A d \in Conns : ConnInv(conn'[d])
  BY <1>1 DEF TInv
<1>3. conn' \in [Conns -> Record]
  BY <1>1 DEF ConnInv
<1>4. Tunnel!TypeOK'
  BY <1>3 DEF TInv, Tunnel!TypeOK, Record, Tunnel!notConn, Tunnel!callVars
<1>5. QED BY <1>2, <1>4 DEF TInv, HasExited, Tunnel!notConn, Tunnel!callVars

(* pg_dump's sockets are closed with it. *)
LEMMA ExitKeeps ==
  ASSUME TInv, NEW how \in {"ok", "failed"}, Tunnel!ToolExits(how),
         UNCHANGED <<ctxDone, proxy, silent, listener, acceptor>>
  PROVE  TInv'
<1> DEFINE Shut(r) == [r EXCEPT !.tool = "closed"]
<1>1. \A c \in Conns : ConnInv(conn'[c])
  <2> SUFFICES ASSUME NEW c \in Conns PROVE ConnInv(conn'[c])
    OBVIOUS
  <2>1. ConnInv(conn[c]) /\ conn[c] \in Record
    BY DEF TInv, ConnInv
  <2>2. CASE conn[c].tool # "open"
    <3>1. conn'[c] = conn[c]
      BY <2>2 DEF Tunnel!ToolExits
    <3>2. QED BY <2>1, <3>1
  <2>3. CASE conn[c].tool = "open"
    <3>1. conn'[c] = Shut(conn[c])
      BY <2>3 DEF Tunnel!ToolExits
    <3>2. ConnInv(Shut(conn[c]))
      BY <2>1, <2>3
         DEF ConnInv, Record, Flow, NotBefore, Received, Begun, CopierDone, Cause
    <3>3. QED BY <3>1, <3>2
  <2>4. QED BY <2>2, <2>3
<1>2. conn' \in [Conns -> Record]
  BY <1>1 DEF Tunnel!ToolExits, ConnInv
<1>3. Tunnel!TypeOK'
  BY <1>2 DEF TInv, Tunnel!TypeOK, Record, Tunnel!ToolExits
<1>4. QED BY <1>1, <1>3 DEF TInv, HasExited, Tunnel!ToolExits

(* The channel of the copiers holds at most two ends. *)
LEMMA EndsCounted ==
  ASSUME NEW r \in Record
  PROVE  /\ r.copyDone < 2 =>
              /\ [r EXCEPT !.up = "ended", !.copyDone = @ + 1] \in Record
              /\ [r EXCEPT !.down = "ended", !.copyDone = @ + 1] \in Record
         /\ r.copyDone > 0 => [r EXCEPT !.bridge = "ended", !.copyDone = @ - 1] \in Record
<1>1. r.copyDone \in 0..2
  BY DEF Record
<1>2. r.copyDone < 2 => r.copyDone + 1 \in 0..2
  BY <1>1
<1>3. r.copyDone > 0 => r.copyDone - 1 \in 0..2
  BY <1>1
<1>4. QED BY <1>2, <1>3 DEF Record

(* A copier that sends its end, the bridge that receives one, and a tool   *)
(* that leaves with a goodbye keep the invariant of their connection.      *)
LEMMA EndsKeep ==
  ASSUME NEW r, ConnInv(r)
  PROVE  /\ r.copyDone < 2 /\ r.up = "send" =>
              ConnInv([r EXCEPT !.up = "ended", !.copyDone = @ + 1])
         /\ r.copyDone < 2 /\ r.down = "send" =>
              ConnInv([r EXCEPT !.down = "ended", !.copyDone = @ + 1])
         /\ r.copyDone > 0 /\ r.bridge = "copy" =>
              ConnInv([r EXCEPT !.bridge = "ended", !.copyDone = @ - 1])
         /\ r.tool = "open" /\ r.toolSent = 1 =>
              ConnInv([r EXCEPT !.toolSent = 2, !.tool = "closed"])
<1> DEFINE u == [r EXCEPT !.up = "ended", !.copyDone = @ + 1]
           d == [r EXCEPT !.down = "ended", !.copyDone = @ + 1]
           b == [r EXCEPT !.bridge = "ended", !.copyDone = @ - 1]
           t == [r EXCEPT !.toolSent = 2, !.tool = "closed"]
<1>0. r \in Record
  BY DEF ConnInv
<1> USE <1>0 DEF Flow, NotBefore, Received, Begun, CopierDone, Cause
<1>1. r.copyDone < 2 => u \in Record /\ d \in Record
  BY EndsCounted
<1>2. r.copyDone > 0 => b \in Record
  BY EndsCounted
<1>3. t \in Record
  <2>1. [r EXCEPT !.toolSent = 2] \in Record
    BY DEF Record
  <2>2. [[r EXCEPT !.toolSent = 2] EXCEPT !.tool = "closed"] \in Record
    BY <2>1 DEF Record
  <2>3. QED BY <2>2
<1>4. ASSUME r.copyDone < 2, r.up = "send" PROVE ConnInv(u)
  BY <1>1, <1>4 DEF ConnInv, Record
<1>5. ASSUME r.copyDone < 2, r.down = "send" PROVE ConnInv(d)
  BY <1>1, <1>5 DEF ConnInv, Record
<1>6. ASSUME r.copyDone > 0, r.bridge = "copy" PROVE ConnInv(b)
  <2>1. CopierDone(r) /\ r.server # "none"
    BY <1>6 DEF ConnInv
  <2>2. Flow(b) /\ NotBefore(b) /\ Received(b) /\ Begun(b) /\ Cause(b)
    BY <2>1 DEF ConnInv, Record
  <2>3. QED BY <1>2, <1>6, <2>2 DEF ConnInv
<1>7. ASSUME r.tool = "open", r.toolSent = 1 PROVE ConnInv(t)
  BY <1>3, <1>7 DEF ConnInv, Record
<1>8. QED BY <1>4, <1>5, <1>6, <1>7

(* No step of a tool, a server or a bridge breaks the invariant. *)
LEMMA ConnStep ==
  ASSUME TInv, NEW c \in Conns,
         \/ Tunnel!ToolConnects(c) \/ Tunnel!ToolAsks(c) \/ Tunnel!ToolReads(c)
         \/ Tunnel!ToolSeesEnd(c)
         \/ Tunnel!Server(c) \/ Tunnel!ServerCloses(c) \/ Tunnel!Accept(c)
         \/ Tunnel!DialSucceeds(c) \/ Tunnel!DialFails(c) \/ Tunnel!Bridge(c)
  PROVE  TInv'
<1> DEFINE r == conn[c]
<1>0. ConnInv(r) /\ r \in Record
  BY DEF TInv, ConnInv
<1>1. CASE Tunnel!CopierEnds(c)
  BY <1>0, <1>1, EndsKeep, GoesKeeps DEF Tunnel!CopierEnds, Tunnel!Room
<1>2. CASE Tunnel!BridgeEnds(c)
  BY <1>0, <1>2, EndsKeep, GoesKeeps DEF Tunnel!BridgeEnds
<1> USE <1>0
    DEF ConnInv, Record, Flow, NotBefore, Received, Begun, CopierDone, Cause
<1>3. CASE Tunnel!ToolConnects(c)
  <2>1. ConnInv([r EXCEPT !.tool = "open", !.bridge = "queued"])
    BY <1>3 DEF Tunnel!ToolConnects
  <2>2. QED BY <1>3, <2>1, GoesKeeps DEF Tunnel!ToolConnects
<1>4. CASE Tunnel!ToolAsks(c)
  <2>1. ConnInv([r EXCEPT !.toolSent = 1])
    BY <1>4 DEF Tunnel!ToolAsks
  <2>2. QED BY <1>4, <2>1, GoesKeeps DEF Tunnel!ToolAsks
<1>5. CASE Tunnel!ToolReads(c)
  <2>1. ConnInv([r EXCEPT !.toolGot = @ + 1])
    BY <1>5 DEF Tunnel!ToolReads
  <2>2. QED BY <1>5, <2>1, GoesKeeps DEF Tunnel!ToolReads
<1>6. CASE Tunnel!ToolSeesEnd(c)
  <2>1. ConnInv([r EXCEPT !.tool = "closed"])
    BY <1>6 DEF Tunnel!ToolSeesEnd
  <2>2. QED BY <1>6, <2>1, GoesKeeps DEF Tunnel!ToolSeesEnd
<1>7. CASE Tunnel!ServerReads(c)
  <2>1. ConnInv([r EXCEPT !.serverGot = @ + 1])
    BY <1>7 DEF Tunnel!ServerReads
  <2>2. QED BY <1>7, <2>1, GoesKeeps DEF Tunnel!ServerReads
<1>8. CASE Tunnel!ServerAnswers(c)
  <2>1. ConnInv([r EXCEPT !.serverSent = @ + 1])
    BY <1>8 DEF Tunnel!ServerAnswers
  <2>2. QED BY <1>8, <2>1, GoesKeeps DEF Tunnel!ServerAnswers
<1>9. CASE Tunnel!ServerSeesEnd(c) \/ Tunnel!ServerCloses(c)
  <2>1. ConnInv([r EXCEPT !.server = "closed"])
    BY <1>9 DEF Tunnel!ServerSeesEnd, Tunnel!ServerCloses
  <2>2. QED BY <1>9, <2>1, GoesKeeps DEF Tunnel!ServerSeesEnd, Tunnel!ServerCloses
<1>10. CASE Tunnel!Accept(c)
  <2>1. ConnInv([r EXCEPT !.bridge = "dial"])
    BY <1>10 DEF Tunnel!Accept
  <2>2. QED BY <1>10, <2>1, GoesKeeps DEF Tunnel!Accept
<1>11. CASE Tunnel!DialSucceeds(c)
  <2>1. ConnInv([r EXCEPT !.bridge = "copy", !.server = "open", !.up = "copy", !.down = "copy"])
    BY <1>11 DEF Tunnel!DialSucceeds
  <2>2. QED BY <1>11, <2>1, GoesKeeps DEF Tunnel!DialSucceeds
<1>12. CASE Tunnel!DialFails(c)
  <2>1. ConnInv([r EXCEPT !.bridge = "ended"])
    BY <1>12 DEF Tunnel!DialFails
  <2>2. QED BY <1>12, <2>1, GoesKeeps DEF Tunnel!DialFails
<1>13. CASE Tunnel!UpForwards(c)
  <2>1. ConnInv([r EXCEPT !.upDone = @ + 1])
    BY <1>13 DEF Tunnel!UpForwards, Tunnel!RemoteClosed
  <2>2. QED BY <1>13, <2>1, GoesKeeps DEF Tunnel!UpForwards
<1>14. CASE Tunnel!UpEnds(c)
  <2>1. ConnInv([r EXCEPT !.up = "send"])
    BY <1>14 DEF Tunnel!UpEnds, Tunnel!RemoteClosed, Tunnel!LocalClosed
  <2>2. QED BY <1>14, <2>1, GoesKeeps DEF Tunnel!UpEnds
<1>15. CASE Tunnel!DownForwards(c)
  <2>1. ConnInv([r EXCEPT !.downDone = @ + 1])
    BY <1>15 DEF Tunnel!DownForwards, Tunnel!LocalClosed
  <2>2. QED BY <1>15, <2>1, GoesKeeps DEF Tunnel!DownForwards
<1>16. CASE Tunnel!DownEnds(c)
  <2>1. ConnInv([r EXCEPT !.down = "send"])
    BY <1>16 DEF Tunnel!DownEnds, Tunnel!DownAtEnd, Tunnel!RemoteClosed, Tunnel!LocalClosed
  <2>2. QED BY <1>16, <2>1, GoesKeeps DEF Tunnel!DownEnds
<1>17. QED
  BY <1>3, <1>4, <1>5, <1>6, <1>7, <1>8, <1>9, <1>10, <1>11, <1>12, <1>13, <1>14, <1>15,
     <1>16, <1>1, <1>2 DEF Tunnel!Server, Tunnel!Bridge

(* No step breaks the invariant. *)
LEMMA TunnelStep == TInv /\ [Tunnel!Next]_Tunnel!vars => TInv'
<1> SUFFICES ASSUME TInv, [Tunnel!Next]_Tunnel!vars PROVE TInv'
  OBVIOUS
<1>1. CASE conn' = conn /\ Tunnel!TypeOK' /\ HasExited'
  BY <1>1 DEF TInv
<1>2. CASE \/ Tunnel!Cancel \/ Tunnel!PrepareFails \/ Tunnel!StartTunnel
           \/ Tunnel!CloseListener \/ Tunnel!CleanupReturns
           \/ Tunnel!AcceptEnds \/ UNCHANGED Tunnel!vars
  <2>1. conn' = conn
    BY <1>2 DEF Tunnel!Cancel, Tunnel!PrepareFails, Tunnel!StartTunnel, Tunnel!CloseListener,
                Tunnel!CleanupReturns, Tunnel!AcceptEnds, Tunnel!vars, Tunnel!callVars
  <2>2. /\ call' \in {"prepare", "tool", "cleanup", "ok", "failed"}
        /\ exit' \in {"none", "ok", "failed"}
        /\ ctxDone' \in BOOLEAN /\ silent' \in BOOLEAN /\ proxy' \in {"socks", "http"}
        /\ listener' \in {"none", "open", "closed"}
        /\ acceptor' \in {"none", "accepting", "ended"}
        /\ HasExited'
    <3> USE DEF TInv, Tunnel!TypeOK, HasExited
    <3>1. CASE \/ Tunnel!Cancel \/ Tunnel!CloseListener \/ Tunnel!AcceptEnds
               \/ UNCHANGED Tunnel!vars
      BY <3>1 DEF Tunnel!Cancel, Tunnel!CloseListener, Tunnel!AcceptEnds, Tunnel!vars,
                  Tunnel!callVars
    <3>2. CASE Tunnel!PrepareFails
      BY <3>2 DEF Tunnel!PrepareFails
    <3>3. CASE Tunnel!StartTunnel
      BY <3>3 DEF Tunnel!StartTunnel
    <3>4. CASE Tunnel!CleanupReturns
      BY <3>4 DEF Tunnel!CleanupReturns
    <3>5. QED BY <1>2, <3>1, <3>2, <3>3, <3>4
  <2>3. Tunnel!TypeOK'
    BY <2>1, <2>2 DEF TInv, Tunnel!TypeOK
  <2>4. QED BY <1>1, <2>1, <2>2, <2>3
<1>3. CASE Tunnel!ToolFails \/ Tunnel!ToolGivesUp
  BY <1>3, ExitKeeps DEF Tunnel!ToolFails, Tunnel!ToolGivesUp
<1>4. ASSUME NEW c \in Conns, Tunnel!ToolSucceeds(c) PROVE TInv'
  <2> DEFINE r == [conn[c] EXCEPT !.toolSent = 2, !.tool = "closed"]
  <2>0. ConnInv(conn[c]) /\ conn[c] \in Record /\ conn[c].tool = "open" /\ conn[c].toolSent = 1
    BY <1>4 DEF TInv, ConnInv, Tunnel!ToolSucceeds
  <2>1. ConnInv(r)
    BY <2>0, EndsKeep
  <2>2. conn' = [conn EXCEPT ![c] = r] /\ conn \in [Conns -> Record]
    BY <1>4 DEF Tunnel!ToolSucceeds, Tunnel!Goes, TInv, Tunnel!TypeOK, Record
  <2>3. \A d \in Conns : ConnInv(conn'[d])
    BY <2>1, <2>2 DEF TInv
  <2>4. conn' \in [Conns -> Record]
    BY <2>1, <2>2 DEF ConnInv
  <2>5. Tunnel!TypeOK'
    BY <1>4, <2>4 DEF TInv, Tunnel!TypeOK, Record, Tunnel!ToolSucceeds
  <2>6. QED BY <1>4, <2>3, <2>5 DEF TInv, HasExited, Tunnel!ToolSucceeds
<1>5. QED
  BY <1>2, <1>3, <1>4, ConnStep DEF Tunnel!Next, Tunnel!Tool

(* The state of a call is well typed (schema.go:179-265).                  *)
THEOREM TunnelTypes == Tunnel!Spec => []Tunnel!TypeOK
<1>1. TInv => Tunnel!TypeOK
  BY DEF TInv
<1>2. QED BY <1>1, TunnelInit, TunnelStep, PTL DEF Tunnel!Spec

(* The tunnel closes an end only after the other side has closed, and with *)
(* all that was sent before (schema.go:251-265).                           *)
THEOREM TunnelIsTransparent == Tunnel!Spec => Tunnel!NoWorseThanDirect
<1>1. TInv /\ [Tunnel!Next]_Tunnel!vars =>
        [\A c \in Conns :
           /\ Tunnel!ToolSeesEnd(c) /\ conn[c].server # "none" =>
                Tunnel!RemoteClosed(c) /\ (conn[c].toolGot = conn[c].serverSent
                                           \/ conn[c].serverGot < conn[c].toolSent)
           /\ Tunnel!ServerSeesEnd(c) =>
                Tunnel!LocalClosed(c) /\ (conn[c].serverGot = conn[c].toolSent
                                          \/ conn[c].toolGot < conn[c].serverSent)]_Tunnel!vars
  <2> SUFFICES ASSUME TInv, NEW c \in Conns
               PROVE  /\ Tunnel!ToolSeesEnd(c) /\ conn[c].server # "none" =>
                           Tunnel!RemoteClosed(c) /\ (conn[c].toolGot = conn[c].serverSent
                                                      \/ conn[c].serverGot < conn[c].toolSent)
                      /\ Tunnel!ServerSeesEnd(c) =>
                           Tunnel!LocalClosed(c) /\ (conn[c].serverGot = conn[c].toolSent
                                                     \/ conn[c].toolGot < conn[c].serverSent)
    OBVIOUS
  <2>1. ConnInv(conn[c])
    BY DEF TInv
  <2>2. ASSUME conn[c].bridge = "ended", conn[c].server # "none" PROVE Cause(conn[c])
    BY <2>1, <2>2 DEF ConnInv, Received
  <2>3. ASSUME Tunnel!ToolSeesEnd(c), conn[c].server # "none"
        PROVE  Tunnel!RemoteClosed(c) /\ (conn[c].toolGot = conn[c].serverSent
                                          \/ conn[c].serverGot < conn[c].toolSent)
    BY <2>1, <2>2, <2>3
       DEF Tunnel!ToolSeesEnd, Tunnel!RemoteClosed, Cause, ConnInv, Record, Flow
  <2>4. ASSUME Tunnel!ServerSeesEnd(c)
        PROVE  Tunnel!LocalClosed(c) /\ (conn[c].serverGot = conn[c].toolSent
                                         \/ conn[c].toolGot < conn[c].serverSent)
    BY <2>1, <2>2, <2>4
       DEF Tunnel!ServerSeesEnd, Tunnel!LocalClosed, Cause, ConnInv, Record, Flow
  <2>5. QED BY <2>3, <2>4
<1>2. QED BY <1>1, TunnelInit, TunnelStep, PTL DEF Tunnel!Spec, Tunnel!NoWorseThanDirect

-----------------------------------------------------------------------------
(* The two stages together. *)

(* A stage moves the restore or leaves it alone. *)
LEMMA TransferRestores == TransferSpec => Spec
<1>1. TransferInit => Init
  BY DEF TransferInit
<1>2. [TransferNext]_transferVars => [Next]_vars
  BY DEF TransferNext, DumpStage, RestoreStage, TransferEnded, transferVars, Next
<1>3. QED BY <1>1, <1>2, PTL DEF TransferSpec, Spec

(* A stage moves the tunnel or leaves it alone. *)
LEMMA TransferTunnels == TransferSpec => Tunnel!Spec
<1>1. TransferInit => Tunnel!Init
  BY DEF TransferInit
<1>2. [TransferNext]_transferVars => [Tunnel!Next]_Tunnel!vars
  BY DEF TransferNext, DumpStage, RestoreStage, TransferEnded, transferVars, tunnelVars,
         Tunnel!vars, Tunnel!callVars
<1>3. QED BY <1>1, <1>2, PTL DEF TransferSpec, Tunnel!Spec

(* The server and pg_dump see no more of the tunnel than of a direct       *)
(* connection, whatever the restore does (schema.go:251-265).              *)
THEOREM TransferIsTransparent == TransferSpec => NoWorseThanDirect
  BY TransferTunnels, TunnelIsTransparent DEF NoWorseThanDirect

(* No schema makes the restore behind a tunnel end in "deadlock detected"  *)
(* (schema.go:72-80, native.go:355-369).                                   *)
THEOREM TransferNeverDeadlocks == TransferSpec => []NoDeadlock
  BY TransferRestores, RestoreNeverDeadlocks, PTL
=============================================================================
