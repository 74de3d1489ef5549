---------------------------- MODULE MCRateLimit -----------------------------
(***************************************************************************)
(* Sites with addresses of two bits: one whose restrictions change; one    *)
(* with an interface and a server, restricted or not, that come and go;    *)
(* one where a client on the server's host calls now and then; and some    *)
(* without restrictions but with clients that fill their MRU lists, which  *)
(* go above mru_maxdepth for the increment, for the first allocation and   *)
(* for mru_mindepth.                                                       *)
(***************************************************************************)
EXTENDS RateLimit

Net == [addr |-> 2, len |-> 1, mflags |-> 0]
NetNtp == [addr |-> 2, len |-> 1, mflags |-> NtpOnly]

Site(keys, ifaces, peers, clients, mru) ==
  [keys |-> keys, ifaces |-> ifaces, peers |-> peers, clients |-> clients,
   mindepth |-> mru[1], maxdepth |-> mru[2],
   initalloc |-> mru[3], incalloc |-> mru[4]]

MCSites ==
  {Site({DefaultKey, Net, NetNtp, HostKey(2, 0)}, {}, {}, {}, <<1, 1, 1, 1>>),
   Site({DefaultKey, HostKey(3, 0)}, {1}, {3}, {}, <<1, 1, 1, 1>>),
   Site({DefaultKey}, {1}, {3}, {3}, <<1, 1, 1, 1>>),
   Site({}, {}, {}, {1, 2}, <<0, 2, 1, 2>>),
   Site({}, {}, {}, {1, 2, 3}, <<0, 1, 2, 1>>),
   Site({}, {}, {}, {1, 2, 3}, <<2, 1, 1, 1>>)}

MCFlagSets == {{"limited", "kod"}, {"ignore"}}
MCSourceFlags == {"limited"}
=============================================================================
