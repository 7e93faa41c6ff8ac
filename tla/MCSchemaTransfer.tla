-------------------------- MODULE MCSchemaTransfer --------------------------
(* Two tables that reference each other. *)
EXTENDS SchemaTransfer

MCForeignKeys == {"ab", "ba"}
MCFrom == [ab |-> "a", ba |-> "b"]
MCTo   == [ab |-> "b", ba |-> "a"]
=============================================================================
