-------------------------- MODULE MCConfiguration --------------------------
(***************************************************************************)
(* Every source gives some settings that others give too: a host, the      *)
(* switch, the threads and the databases each come from all their sources. *)
(***************************************************************************)
EXTENDS Configuration, TLC

CONSTANTS h1, h2, n1, n2, few, many

MCHandwritten ==
  {[remote |-> h1, local |-> h1, localDatabase |-> n1, tools |-> "on"]}
MCFragments == {[remote |-> h1, local |-> h1], [remote |-> h2]}
MCEnvironments ==
  {Nothing, [threads |-> Bad],
   [remote |-> h2, local |-> h2, tools |-> "off", remoteDatabase |-> n2]}
MCFlagSets ==
  {Nothing, [remote |-> h2, local |-> h1, tools |-> "on"], [remoteDatabase |-> n1, threads |-> few]}
MCEdits ==
  {[remote |-> h2, local |-> h2, tools |-> "off"], [threads |-> many, defaultDatabase |-> n2]}
MCArguments == {{}, {n1}}
MCSymmetry == Permutations(Procs)
=============================================================================
