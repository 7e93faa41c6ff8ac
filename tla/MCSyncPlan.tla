---------------------------- MODULE MCSyncPlan ----------------------------
(***************************************************************************)
(* Three tables, two of them of one bare name in two schemas, and all      *)
(* foreign keys between them but for two that refer to their own table.    *)
(***************************************************************************)
EXTENDS SyncPlan

CONSTANTS orders, users

MCNameOf == <<orders, users, users>>
MCForeignKeys == (Tables \X Tables) \ {<<2, 2>>, <<3, 3>>}
MCSerial == {2}
MCRequests == {{}, {orders}, {users}, {2}, {orders, 2}}
=============================================================================
