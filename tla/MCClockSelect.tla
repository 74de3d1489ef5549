--------------------------- MODULE MCClockSelect ----------------------------
(***************************************************************************)
(* Up to three peers.  Samples a and b are close enough for the clockhop   *)
(* dance; c is apart from a and touches b.                                 *)
(***************************************************************************)
EXTENDS ClockSelect

a == [off |-> 0, dist |-> 2]
b == [off |-> 1, dist |-> 2]
c == [off |-> 5, dist |-> 2]

Cast(k, ivs, sane) == [kind |-> k, brings |-> ivs, minsane |-> sane]

(* Three servers; a prefer peer and the ATOM driver; the two last resorts  *)
(* beside a server that is always true; another PPS driver; a prototype.   *)
MCCasts ==
  {Cast(<<"plain", "plain", "plain">>, <<{a}, {b, c}, {c}>>, 1),
   Cast(<<"plain", "prefer", "atom">>, <<{a}, {a, c}, {a, b}>>, 2),
   Cast(<<"true", "local", "orphan">>, <<{a}, {b}, {b}>>, 1),
   Cast(<<"plain", "plain", "pps">>, <<{a}, {b}, {b}>>, 1),
   Cast(<<"plain", "caster", "pps">>, <<{a, c}, {}, {b}>>, 1)}
=============================================================================
