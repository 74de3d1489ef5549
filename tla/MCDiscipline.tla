---------------------------- MODULE MCDiscipline ----------------------------
(* Model checking Discipline: a source polled at one rate and one polled   *)
(* at two.                                                                 *)
EXTENDS Discipline

CONSTANT none

MCPeers == {[minpoll |-> 1, maxpoll |-> 1], [minpoll |-> 1, maxpoll |-> 2]}
=============================================================================
