------------------------------ MODULE MCOnWire ------------------------------
(* Model checking OnWire: every pairing of roles, basic and interleaved.   *)
EXTENDS OnWire

Pair(a, b) == [h \in Hosts |-> IF h = A THEN a ELSE b]

Config(a, b, xleave, limited, prompt) ==
  [mode |-> Pair(a, b), xleave |-> xleave, limited |-> limited,
   prompt |-> prompt]

(* Arbitrary delays everywhere, except where a symmetric host interleaves. *)
MCConfigs ==
  {Config("client", "server", {}, {B}, FALSE),
   Config("active", "active", {}, {B}, FALSE),
   Config("active", "active", {A}, {}, TRUE),
   Config("active", "active", {A, B}, {}, TRUE),
   Config("bclient", "broadcast", {}, {}, FALSE),
   Config("bclient", "broadcast", {B}, {}, FALSE)}

(* Two symmetric hosts in basic mode.                                      *)
MCSymmetric == {Config("active", "active", {}, {}, TRUE)}

(* Two symmetric hosts in interleaved mode.                                *)
MCInterleaved == {Config("active", "active", {A, B}, {}, TRUE)}
=============================================================================
