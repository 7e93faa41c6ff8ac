----------------------------- MODULE ProxyTunnel ----------------------------
(***************************************************************************)
(* A call of pg_dump behind a proxy: internal/engine/native/schema.go,     *)
(* DumpArchive with preparePgTool and the tunnel of                        *)
(* startPgToolProxyTunnel, internal/proxy/dialer.go and                    *)
(* internal/runner/exec.go.                                                *)
(*                                                                         *)
(* pg_dump cannot dial a proxy, so it connects to a local listener; each   *)
(* connection gets a goroutine that dials the server through the proxy and *)
(* two that copy, one each way.  pg_dump may connect again when a          *)
(* connection ends early (libpq does, without TLS).  It asks once, reads   *)
(* an answer of Answer messages, and says goodbye.                         *)
(*                                                                         *)
(* What one end has sent and the other has not read when a socket is       *)
(* closed is lost as TCP loses it: a socket closed with unread data resets *)
(* the connection, and the peer may then lose what it has not read.        *)
(***************************************************************************)
EXTENDS Naturals

CONSTANTS
  Conns,    \* the connections pg_dump may make
  Answer    \* messages of the server's answer

VARIABLES
  call,       \* DumpArchive: "prepare", "tool", "cleanup", "ok", "failed"
  exit,       \* how pg_dump ended
  ctxDone,    \* the context of the stage is cancelled
  proxy,      \* "socks", or "http" for CONNECT
  silent,     \* the proxy takes connections and never answers
  listener,   \* the local listener
  acceptor,   \* the goroutine of acceptPgToolProxyTunnel
  conn        \* each connection, with the goroutines of its bridge

callVars == <<call, exit, listener>>
notConn  == <<callVars, ctxDone, proxy, silent, acceptor>>
vars == <<call, exit, ctxDone, proxy, silent, listener, acceptor, conn>>

Closed == [tool |-> "none", server |-> "none", bridge |-> "none", up |-> "none", down |-> "none",
           copyDone |-> 0, toolSent |-> 0, upDone |-> 0, serverGot |-> 0,
           serverSent |-> 0, downDone |-> 0, toolGot |-> 0]

TypeOK ==
  /\ call \in {"prepare", "tool", "cleanup", "ok", "failed"}
  /\ exit \in {"none", "ok", "failed"}
  /\ ctxDone \in BOOLEAN /\ silent \in BOOLEAN
  /\ proxy \in {"socks", "http"}
  /\ listener \in {"none", "open", "closed"}
  /\ acceptor \in {"none", "accepting", "ended"}
  /\ conn \in [Conns ->
       [tool : {"none", "open", "closed"}, server : {"none", "open", "closed"},
        bridge : {"none", "queued", "dial", "copy", "ended"},
        up : {"none", "copy", "send", "ended"}, down : {"none", "copy", "send", "ended"},
        copyDone : 0..2, toolSent : 0..2, upDone : 0..2, serverGot : 0..2,
        serverSent : Nat, downDone : Nat, toolGot : Nat]]

Init ==
  /\ call = "prepare" /\ exit = "none"
  /\ ctxDone = FALSE
  /\ proxy \in {"socks", "http"} /\ silent \in BOOLEAN
  /\ listener = "none" /\ acceptor = "none"
  /\ conn = [c \in Conns |-> Closed]

Cancel ==
  /\ ~ctxDone /\ ctxDone' = TRUE
  /\ UNCHANGED <<callVars, proxy, silent, acceptor, conn>>

Goes(c, record) == conn' = [conn EXCEPT ![c] = record]

-----------------------------------------------------------------------------
(* DumpArchive *)

(* The dialer cannot be made, or nothing can listen. *)
PrepareFails ==
  /\ call = "prepare"
  /\ call' = "failed"
  /\ UNCHANGED <<exit, ctxDone, proxy, silent, listener, acceptor, conn>>

(* The tunnel; then the connection string, the path of the tool and the    *)
(* temporary file, one of which may be refused, and the tool.              *)
StartTunnel ==
  /\ call = "prepare"
  /\ listener' = "open" /\ acceptor' = "accepting"
  /\ \/ call' = "tool" /\ UNCHANGED exit
     \/ call' = "cleanup" /\ exit' = "failed"
  /\ UNCHANGED <<ctxDone, proxy, silent, conn>>

(* pg_dump exits; the system closes its sockets. *)
ToolExits(how) ==
  /\ call = "tool"
  /\ call' = "cleanup" /\ exit' = how
  /\ conn' = [c \in Conns |-> IF conn[c].tool = "open" THEN [conn[c] EXCEPT !.tool = "closed"]
                              ELSE conn[c]]

(* On its own, for an error on its side. *)
ToolFails == ToolExits("failed") /\ UNCHANGED <<ctxDone, proxy, silent, listener, acceptor>>

(* exec.CommandContext kills it. *)
KillTool == ctxDone /\ ToolFails

(* closeTunnel: listener.Close, and wait for the accept loop. *)
CloseListener ==
  /\ call = "cleanup" /\ listener = "open"
  /\ listener' = "closed"
  /\ UNCHANGED <<call, exit, ctxDone, proxy, silent, acceptor, conn>>

CleanupReturns ==
  /\ call = "cleanup" /\ listener = "closed" /\ acceptor = "ended"
  /\ call' = exit
  /\ UNCHANGED <<exit, ctxDone, proxy, silent, listener, acceptor, conn>>

-----------------------------------------------------------------------------
(* pg_dump *)

(* The next connection, once the ones before have ended. *)
ToolConnects(c) ==
  /\ call = "tool" /\ conn[c].tool = "none"
  /\ \A d \in Conns : conn[d].tool # "open"
  /\ Goes(c, [conn[c] EXCEPT !.tool = "open", !.bridge = "queued"])
  /\ UNCHANGED notConn

ToolAsks(c) ==
  /\ call = "tool" /\ conn[c].tool = "open" /\ conn[c].toolSent = 0
  /\ Goes(c, [conn[c] EXCEPT !.toolSent = 1])
  /\ UNCHANGED notConn

ToolReads(c) ==
  /\ conn[c].tool = "open" /\ conn[c].toolGot < conn[c].downDone
  /\ Goes(c, [conn[c] EXCEPT !.toolGot = @ + 1])
  /\ UNCHANGED notConn

(* The bridge has closed its end: after all it has forwarded, or at once   *)
(* when it left something of the tool unread.                              *)
ToolSeesEnd(c) ==
  /\ conn[c].tool = "open" /\ conn[c].bridge = "ended"
  /\ conn[c].toolGot = conn[c].downDone \/ conn[c].upDone < conn[c].toolSent
  /\ Goes(c, [conn[c] EXCEPT !.tool = "closed"])
  /\ UNCHANGED notConn

(* No connection is left to try. *)
ToolGivesUp == (\A c \in Conns : conn[c].tool = "closed") /\ ToolFails

(* The whole answer is in the archive: a goodbye, and the end. *)
ToolSucceeds(c) ==
  /\ call = "tool" /\ conn[c].tool = "open"
  /\ conn[c].toolSent = 1 /\ conn[c].toolGot = Answer
  /\ call' = "cleanup" /\ exit' = "ok"
  /\ Goes(c, [conn[c] EXCEPT !.toolSent = 2, !.tool = "closed"])
  /\ UNCHANGED <<ctxDone, proxy, silent, listener, acceptor>>

Tool ==
  \/ \E c \in Conns : \/ ToolConnects(c) \/ ToolAsks(c) \/ ToolReads(c) \/ ToolSeesEnd(c)
                      \/ ToolSucceeds(c)
  \/ ToolGivesUp

-----------------------------------------------------------------------------
(* The server, at the far end of the bridge. *)

ServerReads(c) ==
  /\ conn[c].server = "open" /\ conn[c].serverGot < conn[c].upDone
  /\ Goes(c, [conn[c] EXCEPT !.serverGot = @ + 1])
  /\ UNCHANGED notConn

ServerAnswers(c) ==
  /\ conn[c].server = "open" /\ conn[c].serverGot > 0 /\ conn[c].serverSent < Answer
  /\ Goes(c, [conn[c] EXCEPT !.serverSent = @ + 1])
  /\ UNCHANGED notConn

ServerSeesEnd(c) ==
  /\ conn[c].server = "open" /\ conn[c].bridge = "ended"
  /\ conn[c].serverGot = conn[c].upDone \/ conn[c].downDone < conn[c].serverSent
  /\ Goes(c, [conn[c] EXCEPT !.server = "closed"])
  /\ UNCHANGED notConn

(* After the goodbye; or at any time, for reasons of its own. *)
ServerCloses(c) ==
  /\ conn[c].server = "open"
  /\ Goes(c, [conn[c] EXCEPT !.server = "closed"])
  /\ UNCHANGED notConn

Server(c) ==
  \/ ServerReads(c) \/ ServerAnswers(c) \/ ServerSeesEnd(c)
  \/ conn[c].serverGot = 2 /\ ServerCloses(c)

-----------------------------------------------------------------------------
(* acceptPgToolProxyTunnel *)

Accept(c) ==
  /\ acceptor = "accepting" /\ listener = "open" /\ conn[c].bridge = "queued"
  /\ Goes(c, [conn[c] EXCEPT !.bridge = "dial"])
  /\ UNCHANGED notConn

(* Accept fails because the listener is closed, or for want of resources.  *)
AcceptEnds ==
  /\ acceptor = "accepting"
  /\ acceptor' = "ended"
  /\ UNCHANGED <<callVars, ctxDone, proxy, silent, conn>>

-----------------------------------------------------------------------------
(* bridgePgToolProxyConn and the dialers *)

DialSucceeds(c) ==
  /\ conn[c].bridge = "dial" /\ ~silent
  /\ Goes(c, [conn[c] EXCEPT !.bridge = "copy", !.server = "open", !.up = "copy", !.down = "copy"])
  /\ UNCHANGED notConn

(* The proxy or the server refuses, or the context is done.  The HTTP      *)
(* dialer waits for the answer to CONNECT without looking at the context.  *)
DialFails(c) ==
  /\ conn[c].bridge = "dial"
  /\ ~silent \/ (proxy = "socks" /\ ctxDone)
  /\ Goes(c, [conn[c] EXCEPT !.bridge = "ended"])
  /\ UNCHANGED notConn

(* The remote end is closed for the bridge when the server has closed it,  *)
(* the local one when the tool has.                                        *)
RemoteClosed(c) == conn[c].server = "closed"
LocalClosed(c) == conn[c].tool = "closed"

UpForwards(c) ==
  /\ conn[c].up = "copy" /\ conn[c].bridge = "copy"
  /\ conn[c].upDone < conn[c].toolSent /\ ~RemoteClosed(c)
  /\ Goes(c, [conn[c] EXCEPT !.upDone = @ + 1])
  /\ UNCHANGED notConn

(* io.Copy returns at the end of what it reads, and on an error: the other *)
(* side does not take any more, or the bridge has closed the sockets.      *)
UpEnds(c) ==
  /\ conn[c].up = "copy"
  /\ \/ conn[c].bridge = "ended"
     \/ LocalClosed(c) /\ conn[c].upDone = conn[c].toolSent
     \/ RemoteClosed(c) /\ conn[c].upDone < conn[c].toolSent
  /\ Goes(c, [conn[c] EXCEPT !.up = "send"])
  /\ UNCHANGED notConn

DownForwards(c) ==
  /\ conn[c].down = "copy" /\ conn[c].bridge = "copy"
  /\ conn[c].downDone < conn[c].serverSent /\ ~LocalClosed(c)
  /\ Goes(c, [conn[c] EXCEPT !.downDone = @ + 1])
  /\ UNCHANGED notConn

(* Mutant: the end of the server's stream overtakes what is before it.     *)
DownAtOnce(c) == RemoteClosed(c)

(* The end of the stream comes after all of it, unless the server has      *)
(* closed over something unread.                                           *)
DownAtEnd(c) ==
  /\ RemoteClosed(c)
  /\ conn[c].downDone = conn[c].serverSent \/ conn[c].serverGot < conn[c].upDone

DownEnds(c) ==
  /\ conn[c].down = "copy"
  /\ \/ conn[c].bridge = "ended"
     \/ DownAtEnd(c)
     \/ LocalClosed(c) /\ conn[c].downDone < conn[c].serverSent
  /\ Goes(c, [conn[c] EXCEPT !.down = "send"])
  /\ UNCHANGED notConn

(* Mutant: copyDone has no buffer. *)
BridgeReceives(c) == conn[c].bridge = "copy"

(* copyDone has room for both. *)
Room(c) == conn[c].copyDone < 2

CopierEnds(c) ==
  /\ Room(c)
  /\ \/ conn[c].up = "send" /\ Goes(c, [conn[c] EXCEPT !.up = "ended", !.copyDone = @ + 1])
     \/ conn[c].down = "send" /\ Goes(c, [conn[c] EXCEPT !.down = "ended", !.copyDone = @ + 1])
  /\ UNCHANGED notConn

(* The first end received, the deferred calls close both sockets. *)
BridgeEnds(c) ==
  /\ conn[c].bridge = "copy" /\ conn[c].copyDone > 0
  /\ Goes(c, [conn[c] EXCEPT !.bridge = "ended", !.copyDone = @ - 1])
  /\ UNCHANGED notConn

Bridge(c) ==
  \/ UpForwards(c) \/ UpEnds(c) \/ DownForwards(c) \/ DownEnds(c) \/ CopierEnds(c) \/ BridgeEnds(c)

-----------------------------------------------------------------------------
Next ==
  \/ Cancel \/ PrepareFails \/ StartTunnel \/ ToolFails
  \/ CloseListener \/ CleanupReturns \/ AcceptEnds
  \/ Tool
  \/ \E c \in Conns : \/ Server(c) \/ ServerCloses(c) \/ Accept(c)
                      \/ DialSucceeds(c) \/ DialFails(c) \/ Bridge(c)

Spec == Init /\ [][Next]_vars

(* Goroutines run, the tool goes on as long as it can, the system delivers *)
(* what is sent and kills what is to be killed.  That the proxy answers is *)
(* part of "silent".  The server serves; it need not close early.          *)
Fairness ==
  /\ WF_vars(StartTunnel) /\ WF_vars(CloseListener) /\ WF_vars(CleanupReturns)
  /\ WF_vars(KillTool) /\ WF_vars(Tool)
  /\ WF_vars(listener = "closed" /\ AcceptEnds)
  /\ \A c \in Conns :
       /\ WF_vars(Server(c)) /\ WF_vars(Bridge(c)) /\ WF_vars(Accept(c))
       /\ WF_vars(DialSucceeds(c) \/ DialFails(c))
       /\ WF_vars(ToolReads(c)) /\ WF_vars(ToolAsks(c))

-----------------------------------------------------------------------------
(* pg_dump and the server see of each other's closing what they would see  *)
(* without the tunnel.  The connection of either ends only after the other *)
(* has closed it, and then with everything that was sent before, except    *)
(* over what the closing end had not read.                                 *)
NoWorseThanDirect ==
  [][\A c \in Conns :
       /\ ToolSeesEnd(c) /\ conn[c].server # "none" =>
            RemoteClosed(c) /\ (conn[c].toolGot = conn[c].serverSent
                                \/ conn[c].serverGot < conn[c].toolSent)
       /\ ServerSeesEnd(c) =>
            LocalClosed(c) /\ (conn[c].serverGot = conn[c].toolSent
                               \/ conn[c].toolGot < conn[c].serverSent)]_vars

(* The tool waits for what nobody will send: the proxy is silent, or the   *)
(* accept loop has ended before the tool.                                  *)
Stuck == ~ctxDone /\ call = "tool" /\ (silent \/ acceptor = "ended")

(* A goroutine waits for a silent proxy, through HTTP or with a context    *)
(* that nobody cancels.                                                    *)
Dialing ==
  silent /\ (proxy = "http" \/ ~ctxDone) /\ \E c \in Conns : conn[c].bridge = "dial"

(* No goroutine of the tunnel is left. *)
Quiet ==
  \A c \in Conns : /\ conn[c].bridge \in {"none", "queued", "ended"}
                   /\ conn[c].up \in {"none", "ended"} /\ conn[c].down \in {"none", "ended"}
=============================================================================
