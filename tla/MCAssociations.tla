--------------------------- MODULE MCAssociations ---------------------------
(* Instances of Associations for TLC. *)
EXTENDS Associations, TLC

CONSTANTS lo, d1, d2, g, h1, clock, pool

Request(src, hmode, preempt) ==
  [srcadr |-> src, hmode |-> hmode, preempt |-> preempt]

Packet(dst, mode, auth) ==
  [src |-> h1, dst |-> dst, mode |-> mode, auth |-> auth, usable |-> TRUE]

MCHash == [a \in Addrs |-> IF a = clock THEN 0 ELSE 1]

MCRequests ==
  {Request(h1, "client", FALSE), Request(h1, "active", TRUE),
   Request(clock, "client", FALSE), Request(clock, "client", TRUE),
   Request(pool, "client", FALSE)}

MCPackets ==
  {Packet(d, m, "none") : d \in {d1, d2}, m \in {"active", "server"}} \cup
  {Packet(g, "broadcast", "none"), Packet(d2, "broadcast", "none"),
   Packet(d1, "server", "nak"), Packet(d1, "passive", "none"),
   Packet(d1, "active", "error")}
=============================================================================
