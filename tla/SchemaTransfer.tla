--------------------------- MODULE SchemaTransfer ---------------------------
(***************************************************************************)
(* The stages dump-post-data and apply-post-data of a run, in sequence:    *)
(* internal/engine/native/native.go, executeStages.  pg_dump writes the    *)
(* archive through the tunnel of ProxyTunnel, pg_restore reads it as       *)
(* PostDataRestore has it.  What pg_dump leaves running in the tunnel      *)
(* overlaps the restore.                                                   *)
(***************************************************************************)
EXTENDS PostDataRestore

CONSTANTS Conns, Answer

VARIABLES call, exit, ctxDone, proxy, silent, listener, acceptor, conn

Tunnel == INSTANCE ProxyTunnel

tunnelVars == <<call, exit, ctxDone, proxy, silent, listener, acceptor, conn>>
transferVars == <<vars, tunnelVars>>

TransferInit == Init /\ Tunnel!Init

(* dumpPostData has returned an archive. *)
ArchiveReady == call = "ok"

DumpStage == Tunnel!Next /\ UNCHANGED vars
RestoreStage == ArchiveReady /\ (Abort \/ \E f \in ForeignKeys : Restore(f)) /\ UNCHANGED tunnelVars

(* The run goes on, or ends. *)
RunEnded == call = "failed" \/ aborted \/ added = ForeignKeys
TransferEnded == RunEnded /\ UNCHANGED transferVars

TransferNext == DumpStage \/ RestoreStage \/ TransferEnded

TransferSpec == TransferInit /\ [][TransferNext]_transferVars

FairTransfer ==
  /\ TransferSpec
  /\ Tunnel!Fairness
  /\ \A f \in ForeignKeys : WF_vars(ArchiveReady /\ Restore(f) /\ UNCHANGED tunnelVars)

-----------------------------------------------------------------------------
(* pg_dump and the server see no more of the tunnel than of a direct       *)
(* connection.                                                             *)
NoWorseThanDirect == Tunnel!NoWorseThanDirect

(* The two stages end, unless the tunnel waits for a proxy or a listener   *)
(* that nobody cancels; and they leave no goroutine of the tunnel behind   *)
(* but those a silent proxy holds.                                         *)
TransferEnds ==
  <>[](Tunnel!Stuck) \/ <>[](RunEnded /\ (Tunnel!Quiet \/ Tunnel!Dialing))
=============================================================================
