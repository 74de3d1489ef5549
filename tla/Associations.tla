---------------------------- MODULE Associations ----------------------------
(***************************************************************************)
(* The association table of ntpd/ntp_peer.c and the events that change it: *)
(* configuration, the dispatch of received packets in receive(), timeouts, *)
(* solicitations, and the coming and going of local endpoints.             *)
(*                                                                         *)
(* A struct peer is a number, as the code reuses the structs of the        *)
(* associations it demobilizes.  The lists of structs are newest first.    *)
(***************************************************************************)
EXTENDS Integers, Sequences, SequencesExt, FiniteSets

CONSTANTS
  Hosts,           \* remote addresses
  Clocks,          \* reference clock addresses
  Pools,           \* host names of pools
  Manycasts,       \* group addresses of manycast servers
  Endpoints,       \* local unicast endpoints: the structures
  Loopback,        \* the endpoint of the reference clocks
  Groups,          \* local endpoints that only receive multicasts
  None,            \* no endpoint, no association
  Requests,        \* what the configuration may ask for
  Packets,         \* the packets that may arrive, but for their origin
  Volley,          \* is sys_bdelay zero?
  Authenticate,    \* sys_authenticate, or RES_NOPEER for every host
  AddrHash,        \* NTP_HASH_ADDR, from addresses to buckets
  HashSize,        \* NTP_HASH_SIZE (128)
  InitPeerAlloc,   \* INIT_PEER_ALLOC (8)
  IncPeerAlloc,    \* INC_PEER_ALLOC (4)
  AssocIdMax,      \* ASSOCID_MAX (65535)
  FirstId,         \* the association ID that init_peer draws at random
  MaxClock,        \* sys_maxclock (10)
  MaxMobilized,    \* bound: associations that are ever mobilized
  MaxSolicited     \* bound: solicitations that are ever sent

Addrs == Hosts \cup Clocks \cup Pools \cup Manycasts
LocalAddrs == Endpoints \cup Groups
HostModes == {"active", "passive", "client", "bclient"}
PacketModes == {"active", "passive", "client", "server", "broadcast"}
Casts == {"ucast", "uclnt", "bclnt", "pool", "acast"}
Solicitors == {"pool", "acast"}
Buckets == 0 .. (HashSize - 1)

ASSUME TableConstants ==
  /\ {HashSize, InitPeerAlloc, IncPeerAlloc, AssocIdMax} \subseteq Nat \ {0}
  /\ FirstId \in 1 .. AssocIdMax
  /\ {MaxClock, MaxMobilized, MaxSolicited} \subseteq Nat
  /\ None \notin Addrs \cup LocalAddrs
  /\ Loopback \in Endpoints
  /\ AddrHash \in [Addrs -> Buckets]
  /\ {Authenticate, Volley} \subseteq BOOLEAN
ASSUME InputsAssumption ==
  /\ Requests \subseteq [srcadr : Addrs, hmode : HostModes, preempt : BOOLEAN]
  /\ Packets \subseteq
       [src : Hosts, dst : LocalAddrs, mode : PacketModes,
        auth : {"none", "ok", "error", "nak"}, usable : BOOLEAN]

VARIABLES
  table,      \* the struct peers, the lists they are on and the counters
  up,         \* the local endpoints that exist
  solicited,  \* how many solicitations have been sent
  failed,     \* history: reference clocks, preemptable or not, that did
              \* not start
  stale,      \* history: is an association bound to a deleted endpoint?
  wanted      \* history: what the operator configured without preempt and
              \* has not unconfigured

vars == <<table, up, solicited, failed, stale, wanted>>

(* A struct peer; on the free list it is zeroed.                           *)
Zeroed ==
  [associd |-> 0, srcadr |-> None, hmode |-> "unspec", cast |-> "none",
   config |-> FALSE, preempt |-> FALSE, bcvol |-> FALSE, dstadr |-> None,
   aorg |-> 0]

Mobilized(t) == ToSet(t.peer_list)
Both(p, q, cast) == p.cast = cast /\ q.cast = cast

-----------------------------------------------------------------------------
(* Mutant of SetPeerDst: the association stays on the list of the endpoint *)
(* it leaves.                                                              *)
SetPeerDstKeepsOld(t, s, e) ==
  IF t.peer[s].dstadr = e THEN t
  ELSE [t EXCEPT !.peer[s].dstadr = e,
                 !.peers = IF e = None THEN @
                           ELSE [@ EXCEPT ![e] = <<s>> \o @]]

(* set_peerdstadr: the association and the lists of its endpoints.         *)
SetPeerDst(t, s, e) ==
  LET old == t.peer[s].dstadr
      without == IF old = None THEN t.peers
                 ELSE [t.peers EXCEPT ![old] = Remove(@, s)] IN
  IF \/ old = e
     \/ e \in Groups /\ t.peer[s].bcvol /\ t.peer[s].hmode = "client"
    THEN t
    ELSE [t EXCEPT !.peer[s].dstadr = e,
                   !.peers = IF e = None THEN without
                             ELSE [without EXCEPT ![e] = <<s>> \o @]]

(* Mutant of Existing: broadcast clients are compared by mode and endpoint *)
(* like the others.                                                        *)
ExistingSameMode(t, r, dst) ==
  \E s \in Mobilized(t) :
    /\ t.peer[s].srcadr = r.srcadr
    /\ t.peer[s].hmode = r.hmode
    /\ dst = None \/ t.peer[s].dstadr = dst

(* findexistingpeer as newpeer uses it: is there one like r already?       *)
Existing(t, r, dst) ==
  \E s \in Mobilized(t) :
    LET p == t.peer[s] IN
    /\ p.srcadr = r.srcadr
    /\ p.hmode = r.hmode \/ Both(p, r, "bclnt")
    /\ dst = None \/ p.dstadr = dst \/ Both(p, r, "bclnt")

(* getmorepeermem: IncPeerAlloc more structs when the free list is empty.  *)
GetMorePeerMem(t) ==
  LET n == Len(t.peer)
      more == (n + 1) .. (n + IncPeerAlloc) IN
  IF t.peer_free # <<>> THEN t
  ELSE [t EXCEPT !.peer = [s \in 1 .. (n + IncPeerAlloc) |->
                             IF s \in more THEN Zeroed ELSE @[s]],
                 !.peer_free = [i \in 1 .. IncPeerAlloc |-> n + i]]

(* Mutant of NextId: the ID wraps around to zero.                          *)
NextIdZero(id) == IF id = AssocIdMax THEN 0 ELSE id + 1

(* The next association ID; zero is never one.                             *)
NextId(id) == IF id = AssocIdMax THEN 1 ELSE id + 1

(* newpeer up to the reference clock support: a struct off the free list,  *)
(* counted and bound to an endpoint, but on no list yet.                   *)
Allocate(t, r, e) ==
  LET m == GetMorePeerMem(t)
      s == Head(m.peer_free) IN
  SetPeerDst(
    [m EXCEPT !.peer_free = Tail(@),
              !.peer_associations = @ + 1,
              !.peer_preempt = IF r.preempt THEN @ + 1 ELSE @,
              !.association_ID = NextId(@),
              !.mobilized = @ + 1,
              !.peer[s] = [associd |-> t.association_ID,
                           srcadr |-> r.srcadr, hmode |-> r.hmode,
                           cast |-> r.cast, config |-> r.config,
                           preempt |-> r.preempt, bcvol |-> r.bcvol,
                           dstadr |-> None,
                           aorg |-> MaxSolicited + t.mobilized + 1]],
    s, e)

(* newpeer at its end: the new association is linked into the lists.       *)
Link(t, s) ==
  LET p == t.peer[s] IN
  [t EXCEPT !.peer_hash[AddrHash[p.srcadr]] = <<s>> \o @,
            !.assoc_hash[p.associd % HashSize] = <<s>> \o @,
            !.peer_list = <<s>> \o @]

(* free_peer: back to the free list.                                       *)
Free(t, s) ==
  [t EXCEPT !.peer[s] = Zeroed, !.peer_free = <<s>> \o @]

(* Mutant of Unlink: the association stays in the association ID table.    *)
UnlinkKeepsId(t, s) ==
  [t EXCEPT !.peer_hash[AddrHash[t.peer[s].srcadr]] = Remove(@, s),
            !.peer_list = Remove(@, s)]

(* free_peer with unlink_peer: off the two hash tables and the list.       *)
Unlink(t, s) ==
  LET p == t.peer[s] IN
  [t EXCEPT !.peer_hash[AddrHash[p.srcadr]] = Remove(@, s),
            !.assoc_hash[p.associd % HashSize] = Remove(@, s),
            !.peer_list = Remove(@, s)]

(* Mutant of Unpeer: the preemptable associations are not counted down.    *)
UnpeerKeepsPreempt(t, s) ==
  Free(Unlink([SetPeerDst(t, s, None) EXCEPT !.peer_associations = @ - 1], s),
       s)

(* unpeer: demobilize an association.                                      *)
Unpeer(t, s) ==
  LET u == SetPeerDst(t, s, None) IN
  Free(Unlink([u EXCEPT !.peer_associations = @ - 1,
                        !.peer_preempt = IF t.peer[s].preempt THEN @ - 1
                                         ELSE @], s), s)

(* select_peerinterface: the endpoint given, the loopback for a reference  *)
(* clock, or the one that findbcastinter() or findinterface() picks.       *)
Routes(src) ==
  IF src \in Clocks THEN {IF Loopback \in up THEN Loopback ELSE None}
  ELSE IF up = {} THEN {None} ELSE up

SelectPeerInterface(r, dst) ==
  IF dst = None \/ r.srcadr \in Clocks \/ r.cast \in {"bclnt", "acast"}
    THEN Routes(r.srcadr) ELSE {dst}

(* newpeer: the tables it may leave; the old one if r is a duplicate.      *)
NewPeer(t, r, dst) ==
  IF Existing(t, r, dst) THEN {t}
  ELSE {Link(Allocate(t, r, e), Head(GetMorePeerMem(t).peer_free)) :
          e \in SelectPeerInterface(r, dst)}

(* What the receive process asks newpeer for.                              *)
Ephemeral(src, hmode, cast, preempt, bcvol) ==
  [srcadr |-> src, hmode |-> hmode, cast |-> cast, config |-> FALSE,
   preempt |-> preempt, bcvol |-> bcvol]

-----------------------------------------------------------------------------
(* peer_config: what the configuration asks newpeer for.                   *)
PeerConfig(r) ==
  LET cast == IF r.hmode # "client" THEN "ucast"
              ELSE IF r.srcadr \in Pools THEN "pool"
              ELSE IF r.srcadr \in Manycasts THEN "acast" ELSE "ucast" IN
  [srcadr |-> r.srcadr, hmode |-> r.hmode, cast |-> cast, config |-> TRUE,
   preempt |-> r.preempt /\ cast \notin Solicitors, bcvol |-> FALSE]

Configure ==
  /\ ~stale
  /\ table.mobilized < MaxMobilized
  /\ \E r \in Requests :
       /\ table' \in NewPeer(table, PeerConfig(r), None)
       /\ wanted' = IF PeerConfig(r).preempt THEN wanted
                    ELSE wanted \cup (Mobilized(table') \ Mobilized(table))
  /\ UNCHANGED <<up, solicited, failed, stale>>

(* newpeer of a reference clock that does not start: refclock_newpeer()    *)
(* fails before the association is on the lists.                           *)
ConfigureFails ==
  /\ ~stale
  /\ table.mobilized < MaxMobilized
  /\ \E r \in Requests : \E e \in Routes(r.srcadr) :
       LET s == Head(GetMorePeerMem(table).peer_free) IN
       /\ r.srcadr \in Clocks
       /\ ~Existing(table, PeerConfig(r), None)
       /\ table' = Free(SetPeerDst(Allocate(table, PeerConfig(r), e), s, None),
                        s)
       /\ failed' = [failed EXCEPT ![PeerConfig(r).preempt] = @ + 1]
  /\ UNCHANGED <<up, solicited, stale, wanted>>

(* The unpeer command, an unconfig request: every association may go.      *)
Unconfigure ==
  /\ ~stale
  /\ \E s \in Mobilized(table) :
       table' = Unpeer(table, s) /\ wanted' = wanted \ {s}
  /\ UNCHANGED <<up, solicited, failed, stale>>

(* Mutant of TimesOut: the configured flag is not looked at.               *)
TimesOutAny(p) == ~p.preempt \/ table.peer_associations > MaxClock

(* transmit(): an association times out; score_all() picks among the       *)
(* preemptable ones.                                                       *)
TimesOut(p) ==
  \/ ~p.config /\ ~p.preempt
  \/ p.preempt /\ table.peer_associations > MaxClock

Timeout ==
  /\ ~stale
  /\ \E s \in Mobilized(table) :
       TimesOut(table.peer[s]) /\ table' = Unpeer(table, s)
  /\ UNCHANGED <<up, solicited, failed, stale, wanted>>

(* peer_xmit, pool_xmit: a manycast client solicits every server of its    *)
(* group, a pool one of its addresses that is no server yet.  A manycast   *)
(* client does so at any number of associations (the beacon), and so does  *)
(* a pool: the limit was tested when the lookup of its name began.         *)
Solicit ==
  /\ ~stale
  /\ solicited < MaxSolicited
  /\ \E s \in Mobilized(table) :
       /\ table.peer[s].cast \in Solicitors
       /\ table.peer[s].cast = "pool" =>
            \E h \in Hosts : \A x \in Mobilized(table) :
              table.peer[x].srcadr = h => table.peer[x].hmode # "client"
       /\ table' = [table EXCEPT !.peer[s].aorg = solicited + 1]
  /\ solicited' = solicited + 1
  /\ UNCHANGED <<up, failed, stale, wanted>>

(* update_interfaces(): an endpoint is deleted or created, and every       *)
(* association is given a chance to find a better one.                     *)
Disconnect(t, e) ==
  FoldLeft(LAMBDA u, s : SetPeerDst(u, s, None), t, t.peers[e])

RefreshAll(t, route) ==
  FoldLeft(LAMBDA u, s : SetPeerDst(u, s, route[u.peer[s].srcadr]), t,
           t.peer_list)

EndpointChange ==
  /\ ~stale
  /\ \E e \in Endpoints :
       up' = IF e \in up THEN up \ {e} ELSE up \cup {e}
  /\ \E route \in [{table.peer[s].srcadr : s \in Mobilized(table)} ->
                    up' \cup {None}] :
       /\ \A a \in DOMAIN route : route[a] \in Routes(a)'
       /\ table' = RefreshAll(FoldLeft(Disconnect, table,
                                       SetToSeq(up \ up')), route)
  /\ UNCHANGED <<solicited, failed, stale, wanted>>

-----------------------------------------------------------------------------
(* The association matching table AM of ntp_peer.c.                        *)
Match(hmode, mode) ==
  CASE hmode = "active" /\ mode \in {"active", "passive"} -> "procpkt"
    [] hmode = "passive" /\ mode = "active" -> "procpkt"
    [] hmode = "passive" /\ mode = "passive" -> "err"
    [] hmode = "client" /\ mode = "server" -> "procpkt"
    [] hmode = "bclient" /\ mode = "broadcast" -> "procpkt"
    [] OTHER -> "nomatch"

NoPeer(mode) ==
  CASE mode = "active" -> "newpass"
    [] mode = "client" -> "fxmit"
    [] mode = "server" -> "manycast"
    [] mode = "broadcast" -> "newbcl"
    [] OTHER -> "nomatch"

(* findmanycastpeer: the solicitor whose solicitation the packet answers.  *)
Soliciting(org) ==
  {s \in Mobilized(table) :
     table.peer[s].cast \in Solicitors /\ table.peer[s].aorg = org}

(* findpeer: the first association of the chain that wants the packet.     *)
Wants(k) ==
  SelectSeq(table.peer_hash[AddrHash[k.src]],
            LAMBDA s : /\ table.peer[s].srcadr = k.src
                       /\ Match(table.peer[s].hmode, k.mode) # "nomatch")

FindPeer(k) == IF Wants(k) = <<>> THEN None ELSE Head(Wants(k))

(* ... and what is to be done with the packet, of origin timestamp org.    *)
MatchAssoc(k, org) ==
  LET p == table.peer[FindPeer(k)] IN
  IF FindPeer(k) = None THEN NoPeer(k.mode)
  ELSE IF k.mode = "server" /\ p.aorg # org /\ Soliciting(org) # {}
    THEN "err" ELSE Match(p.hmode, k.mode)

(* The AUTH macro.                                                         *)
Auth(required, auth) == auth = "ok" \/ (~required /\ auth = "none")

(* The origin timestamps a packet may carry: those of the solicitations,   *)
(* and those of the polls.                                                 *)
Origins == 1 .. (MaxSolicited + MaxMobilized)

(* A receive buffer names the endpoint it came in by.  timer() may delete  *)
(* the endpoint before the main loop gets to the buffer, and findpeer and  *)
(* newpeer then bind the association to what was freed.  What the daemon   *)
(* does with it next is not defined: the model stops there.                *)
Binds(e) == stale' = (e \notin up \cup Groups /\ table'.peers[e] # <<>>)

(* AM_PROCPKT: findpeer binds the association to the endpoint the packet   *)
(* came in by.  A preemptable association goes when authentication fails;  *)
(* a broadcast client ends its volley when it is fit, and its calibration  *)
(* with the next broadcast.                                                *)
ReceiveProcpkt ==
  /\ ~stale
  /\ \E k \in Packets :
       /\ \E org \in Origins : MatchAssoc(k, org) = "procpkt"
       /\ LET s == FindPeer(k)
              t == SetPeerDst(table, s, k.dst)
              p == t.peer[s] IN
          \/ table' = t
          \/ /\ k.auth \in {"error", "nak"} /\ p.preempt
             /\ table' = Unpeer(t, s)
          \/ /\ k.auth \in {"none", "ok"} /\ p.bcvol /\ p.hmode = "client"
             /\ table' = [t EXCEPT !.peer[s].hmode = "bclient"]
          \/ /\ k.auth \in {"none", "ok"} /\ p.bcvol /\ k.mode = "broadcast"
             /\ table' = [t EXCEPT !.peer[s].bcvol = FALSE]
       /\ Binds(k.dst)
  /\ UNCHANGED <<up, solicited, failed, wanted>>

(* AM_NEWPASS: a symmetric active packet that matches no association.      *)
ReceiveNewpass ==
  /\ ~stale
  /\ table.mobilized < MaxMobilized
  /\ \E k \in Packets :
       /\ MatchAssoc(k, 0) = "newpass"
       /\ Auth(Authenticate, k.auth) \/ ~Auth(FALSE, k.auth)
       /\ k.usable
       /\ table' \in NewPeer(table, Ephemeral(k.src, "passive", "ucast",
                                              FALSE, FALSE), k.dst)
       /\ Binds(k.dst)
  /\ UNCHANGED <<up, solicited, failed, wanted>>

(* AM_NEWBCL: the first broadcast of a server, with or without a volley.   *)
ReceiveNewbcl ==
  /\ ~stale
  /\ table.mobilized < MaxMobilized
  /\ \E k \in Packets :
       /\ MatchAssoc(k, 0) = "newbcl"
       /\ Auth(Authenticate, k.auth)
       /\ k.usable
       /\ table' \in NewPeer(table,
            Ephemeral(k.src, IF Volley THEN "client" ELSE "bclient", "bclnt",
                      TRUE, Volley),
            IF k.dst \in Groups THEN None ELSE k.dst)
       /\ Binds(k.dst)
  /\ UNCHANGED <<up, solicited, failed, wanted>>

(* AM_MANYCAST: a server answers a solicitation.                           *)
ReceiveManycast ==
  /\ ~stale
  /\ table.mobilized < MaxMobilized
  /\ \E k \in Packets, org \in 1 .. solicited : \E s \in Soliciting(org) :
       /\ MatchAssoc(k, org) = "manycast"
       /\ Auth(table.peer[s].cast # "pool" /\ Authenticate, k.auth)
       /\ k.usable
       /\ table' \in NewPeer(table, Ephemeral(k.src, "client", "uclnt",
                                              TRUE, FALSE), k.dst)
       /\ Binds(k.dst)
  /\ UNCHANGED <<up, solicited, failed, wanted>>

Init ==
  /\ table = [peer |-> [s \in 1 .. InitPeerAlloc |-> Zeroed],
              peer_free |-> [s \in 1 .. InitPeerAlloc |-> s],
              peer_list |-> <<>>,
              peer_hash |-> [b \in Buckets |-> <<>>],
              assoc_hash |-> [b \in Buckets |-> <<>>],
              peers |-> [e \in LocalAddrs |-> <<>>],
              peer_associations |-> 0, peer_preempt |-> 0,
              association_ID |-> FirstId, mobilized |-> 0]
  /\ up = Endpoints
  /\ solicited = 0
  /\ failed = [preempt \in BOOLEAN |-> 0]
  /\ stale = FALSE
  /\ wanted = {}

Next ==
  \/ Configure \/ ConfigureFails \/ Unconfigure
  \/ Timeout \/ Solicit \/ EndpointChange
  \/ ReceiveProcpkt \/ ReceiveNewpass \/ ReceiveNewbcl \/ ReceiveManycast

Spec == Init /\ [][Next]_vars

-----------------------------------------------------------------------------
Structs == [associd : 0 .. AssocIdMax, srcadr : Addrs \cup {None},
            hmode : HostModes \cup {"unspec"}, cast : Casts \cup {"none"},
            config : BOOLEAN, preempt : BOOLEAN, bcvol : BOOLEAN,
            dstadr : LocalAddrs \cup {None}, aorg : {0} \cup Origins]

(* Types: no list holds a struct twice, and no counter is below zero.      *)
TypeOK ==
  /\ table.peer \in Seq(Structs)
  /\ LET lists == {table.peer_list, table.peer_free} \cup
                  Range(table.peer_hash) \cup Range(table.assoc_hash) \cup
                  Range(table.peers) IN
     \A l \in lists : l \in Seq(DOMAIN table.peer) /\ IsInjective(l)
  /\ {table.peer_associations, table.peer_preempt} \subseteq Nat
  /\ table.association_ID \in 1 .. AssocIdMax
  /\ table.mobilized \in 0 .. MaxMobilized
  /\ up \subseteq Endpoints
  /\ solicited \in 0 .. MaxSolicited
  /\ failed \in [BOOLEAN -> 0 .. MaxMobilized]
  /\ stale \in BOOLEAN
  /\ wanted \subseteq DOMAIN table.peer

(* The subsequence of the mobilized associations that satisfy P, in order. *)
OfAll(P(_)) == SelectSeq(table.peer_list, LAMBDA s : P(table.peer[s]))

(* newpeer, unpeer and set_peerdstadr keep the lists in step: a struct is  *)
(* free or mobilized, each chain of the two hash tables holds exactly the  *)
(* associations of its bucket, and the list of an endpoint holds exactly   *)
(* the associations bound to it.  Only a packet received before its        *)
(* endpoint was deleted, and handled after, binds an association to an     *)
(* endpoint that is gone.                                                  *)
ListsAgree ==
  /\ ToSet(table.peer_free) = DOMAIN table.peer \ Mobilized(table)
  /\ \A s \in ToSet(table.peer_free) : table.peer[s] = Zeroed
  /\ \A b \in Buckets :
       /\ table.peer_hash[b] = OfAll(LAMBDA p : AddrHash[p.srcadr] = b)
       /\ table.assoc_hash[b] = OfAll(LAMBDA p : p.associd % HashSize = b)
  /\ \A e \in LocalAddrs :
       /\ ToSet(table.peers[e]) = ToSet(OfAll(LAMBDA p : p.dstadr = e))
       /\ table.peers[e] # <<>> => e \in up \cup Groups \/ stale

(* The counters that transmit() compares with sys_maxclock count the       *)
(* mobilized associations and, of these, the preemptable ones, but for one *)
(* too many in each for every reference clock of the kind that did not     *)
(* start: newpeer() counts it and never takes it back.                     *)
Counted ==
  /\ table.peer_associations =
       Len(table.peer_list) + failed[TRUE] + failed[FALSE]
  /\ table.peer_preempt = Len(OfAll(LAMBDA p : p.preempt)) + failed[TRUE]

(* findpeerbyassoc finds every association by its ID, also after the IDs   *)
(* have wrapped around, until as many have been given out as there are.    *)
FoundById ==
  table.mobilized <= AssocIdMax =>
    \A s \in Mobilized(table) :
      LET id == table.peer[s].associd IN
      /\ id # 0
      /\ SelectSeq(table.assoc_hash[id % HashSize],
                   LAMBDA x : table.peer[x].associd = id) = <<s>>

(* However the associations were mobilized, and whatever endpoints their   *)
(* packets came in by, two of the same mode with the same server are a     *)
(* broadcast client in its volley and a client that is not one.            *)
NearlyUnique ==
  \A s, x \in Mobilized(table) :
    LET p == table.peer[s] q == table.peer[x] IN
    s # x /\ p.srcadr = q.srcadr /\ p.hmode = q.hmode =>
      /\ p.hmode = "client"
      /\ (p.cast = "bclnt") # (q.cast = "bclnt")

(* The comment in newpeer: no duplicates of an association are allowed.    *)
NoDuplicates ==
  \A s, x \in Mobilized(table) :
    LET p == table.peer[s] q == table.peer[x] IN
    p.srcadr = q.srcadr /\ p.hmode = q.hmode /\ p.dstadr = q.dstadr => s = x

(* The comment at peer_associations: it counts mobilized associations.     *)
AssociationsCounted == table.peer_associations = Len(table.peer_list)

(* Only the operator demobilizes what was configured without preempt: the  *)
(* packets, the timeouts and the endpoints never do, and no association    *)
(* that a packet mobilized takes its place.                                *)
ConfiguredStay ==
  wanted = ToSet(OfAll(LAMBDA p : p.config /\ ~p.preempt))
=============================================================================
