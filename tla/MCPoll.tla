------------------------------- MODULE MCPoll -------------------------------
(* Model checking Poll: every kind of association the daemon mobilizes.    *)
EXTENDS Poll

Kind(cast, hmode, flags) ==
  [cast |-> cast, hmode |-> hmode,
   config |-> "config" \in flags, preempt |-> "preempt" \in flags,
   iburst |-> "iburst" \in flags, burst |-> "burst" \in flags,
   xleave |-> "xleave" \in flags]

(* A server or peer polled in bursts, an ephemeral and a preemptable       *)
(* association, and the three that expect no reply of their own.           *)
MCKinds ==
  {Kind("ucast", "client", {"config", "iburst", "burst"}),
   Kind("ucast", "passive", {}),
   Kind("ucast", "bclient", {"preempt"}),
   Kind("bcast", "broadcast", {"config"}),
   Kind("acast", "client", {"config"}),
   Kind("pool", "client", {"config"})}

(* The associations whose polls must never cease, one in bursts that are   *)
(* interleaved.                                                            *)
MCPeers ==
  {Kind("ucast", "client", {"config"}),
   Kind("ucast", "active", {"config", "xleave", "iburst"}),
   Kind("ucast", "passive", {})}
=============================================================================
