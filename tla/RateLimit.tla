----------------------------- MODULE RateLimit ------------------------------
(***************************************************************************)
(* What a packet's source may do: the restrict list (ntpd/ntp_restrict.c), *)
(* the list of the most recently used sources with its leaky buckets       *)
(* (ntpd/ntp_monitor.c), and the way the first turns the second on.        *)
(*                                                                         *)
(* Addresses have Bits bits; a mask is the number of its leading ones (the *)
(* commands accept masks with holes, which are left out).                  *)
(* Times between packets are counted in half seconds, the finest that the  *)
(* rounding in ntp_monitor() tells apart.  The hash table is left out: it  *)
(* holds what the MRU list holds.  IPv6 is the same code on another list.  *)
(***************************************************************************)
EXTENDS Integers, FiniteSets, Sequences, FiniteSetsExt

CONSTANTS
  Bits,         \* the length of an address
  Sites,        \* the sites examined: what is configured, who is about
  FlagSets,     \* the flags that a command may carry
  SourceFlags, SourceMflags,   \* of "restrict source"
  MaxAge,       \* mru_maxage
  MinPkt,       \* ntp_minpkt
  Headway,      \* 1 << ntp_minpoll
  Shift,        \* NTP_SHIFT
  AgeMax,       \* bound: half seconds after which a silence is just long
  Back, Ahead,  \* half seconds by which the clock may be stepped
  MaxDrift      \* bound: how far below zero the reference count may go

Limit == Shift * Headway
Flags == {"limited", "kod", "ignore"}
Addrs == 0 .. (2^Bits - 1)

(* RESM_NTPONLY, RESM_NTPONLY | RESM_INTERFACE, and RESM_SOURCE, which     *)
(* alone or with RESM_NTPONLY is what "restrict source" gives its entries. *)
NtpOnly == 2
Interface == 3
Source == 4
SourceNtpOnly == 6

(* An address with the bits that a mask leaves out cleared.                *)
Masked(a, len) == a - (a % 2^(Bits - len))

Keys == {k \in [addr : Addrs, len : 0 .. Bits,
                mflags : {0, NtpOnly, Interface, Source, SourceNtpOnly}] :
           Masked(k.addr, k.len) = k.addr}

DefaultKey == [addr |-> 0, len |-> 0, mflags |-> 0]
(* The endpoint of a packet whose interface has been deleted since.        *)
Stale == -1

HostKey(a, mflags) == [addr |-> a, len |-> Bits, mflags |-> mflags]

ASSUME RateConstants ==
  /\ {Bits, MinPkt, Shift, AgeMax, Back, Ahead, MaxDrift} \subseteq Nat \ {0}
  /\ MaxAge \in Int
  /\ Headway \in Nat /\ Headway >= 2 /\ AgeMax > Headway
  /\ FlagSets \subseteq SUBSET Flags /\ SourceFlags \subseteq Flags
  /\ SourceMflags \in {Source, SourceNtpOnly}
  /\ \A s \in Sites :
       /\ s.keys \subseteq {k \in Keys : k.mflags \in {0, NtpOnly}}
       /\ 0 \notin s.ifaces
       /\ s.ifaces \cup s.peers \cup s.clients \subseteq Addrs
       /\ {s.mindepth, s.maxdepth} \subseteq Nat
       /\ {s.initalloc, s.incalloc} \subseteq Nat \ {0}

(* Powers of two: what the proofs use of them.                             *)
ASSUME MaskPowers ==
  /\ 2^0 = 1
  /\ \A i \in 0 .. Bits : 2^i \in Nat \ {0}
  /\ \A i \in 0 .. Bits : \A j \in i .. Bits : \E r \in 1 .. 2^Bits : 2^j = r * 2^i

VARIABLES
  site,                \* [keys, ifaces, peers, clients, mindepth, maxdepth,
                       \* initalloc, incalloc]: the keys that commands
                       \* name, the addresses of interfaces, of servers
                       \* and pool members, and of clients; "mru" options
  restrictlist,        \* restrictlist4
  res_limited_refcnt,
  drift,               \* history: an entry with flags but without limited
                       \* has been freed
  mon,                 \* the state of ntp_monitor.c
  deleted,             \* history: has an interface been deleted?
  kodgap               \* history: the half seconds by which the clock had
                       \* advanced from the KoD before to the last one from
                       \* the same entry, capped

vars == <<site, restrictlist, res_limited_refcnt, drift, mon, deleted, kodgap>>

Init ==
  /\ site \in Sites
  /\ restrictlist = <<[key |-> DefaultKey, flags |-> {}, expire |-> "never"]>>
  /\ res_limited_refcnt = 0
  /\ drift = FALSE
  /\ mon = [enabled |-> {"on"}, mru |-> <<>>, entries |-> 0,
            free |-> site.initalloc, alloc |-> site.initalloc]
  /\ deleted = FALSE
  /\ kodgap = Headway + 1

(* The state that the functions below pass along, and what becomes of it.  *)
Now == [list |-> restrictlist, refcnt |-> res_limited_refcnt,
        drift |-> drift, mon |-> mon]

Becomes(s) ==
  /\ s.refcnt >= -MaxDrift
  /\ restrictlist' = s.list
  /\ res_limited_refcnt' = s.refcnt
  /\ drift' = s.drift
  /\ mon' = s.mon
  /\ UNCHANGED site

-----------------------------------------------------------------------------
(* ntp_monitor.c: the switch and the list.                                 *)

MonStart(m, mode) == [m EXCEPT !.enabled = @ \cup {mode}]

(* A list without its i-th element.                                        *)
Unlink(seq, i) == SubSeq(seq, 1, i - 1) \o SubSeq(seq, i + 1, Len(seq))

(* When the last mode goes, all entries go to the free list.               *)
MonStop(m, mode) ==
  IF m.enabled = {mode}
    THEN [m EXCEPT !.enabled = {}, !.mru = <<>>, !.entries = 0,
                   !.free = @ + Len(m.mru)]
    ELSE [m EXCEPT !.enabled = @ \ {mode}]

MonGetMoreMem(m) ==
  [m EXCEPT !.free = @ + site.incalloc, !.alloc = @ + site.incalloc]

(* Mutant of MonReclaimEntry: mru_entries is left as it is.                *)
MonReclaimEntryUncounted(m) == [m EXCEPT !.mru = Unlink(@, Len(@))]

(* The oldest entry is unlinked for another source.                        *)
MonReclaimEntry(m) ==
  [m EXCEPT !.mru = Unlink(@, Len(@)), !.entries = @ - 1]

(* An entry from the free list.                                            *)
MonAllocEntry(m) ==
  [(IF m.free = 0 THEN MonGetMoreMem(m) ELSE m) EXCEPT !.free = @ - 1]

(* The elements of seq at the positions I, in their order.                 *)
Sublist(seq, I) ==
  [n \in 1 .. Cardinality(I) |->
     seq[CHOOSE i \in I : Cardinality({j \in I : j <= i}) = n]]

(* mon_clearinterface                                                      *)
MonClearInterface(m, a) ==
  LET kept == {i \in DOMAIN m.mru : m.mru[i].lcladr # a}
      gone == Len(m.mru) - Cardinality(kept)
  IN [m EXCEPT !.mru = Sublist(@, kept), !.entries = @ - gone, !.free = @ + gone]

(* The seconds that the code makes of an age, rounding halves up; the age  *)
(* is negative after a step back of the clock.                             *)
Seconds(age) ==
  IF age < AgeMax THEN {(age + 1) \div 2}
  ELSE ((AgeMax + 1) \div 2) .. (Limit + Headway)

Unlimited(flags) == flags \ {"limited", "kod"}

(* Mutant of Bucket: the counter is not filled up with the KoD.            *)
BucketNotFilled(left, interval, flags) ==
  IF interval + 1 >= MinPkt /\ left + Headway < Limit
    THEN [leak |-> left + Headway - 2, flags |-> Unlimited(flags)]
  ELSE IF left < Limit THEN [leak |-> left + Headway, flags |-> flags]
  ELSE [leak |-> left, flags |-> flags \ {"kod"}]

(* The leaky bucket, with what is left in it after the interval.           *)
Bucket(left, interval, flags) ==
  IF interval + 1 >= MinPkt /\ left + Headway < Limit
    THEN [leak |-> left + Headway - 2, flags |-> Unlimited(flags)]
  ELSE IF left < Limit THEN [leak |-> Limit + Headway, flags |-> flags]
  ELSE [leak |-> left, flags |-> flags \ {"kod"}]

SendsKod(flags) == {"limited", "kod"} \subseteq flags

(* ntp_monitor for a source that has an entry, the i-th.                   *)
MonitorKnown(m, i, flags) ==
  LET e == m.mru[i] IN
  {LET b == Bucket(Max({0, e.leak - interval}), interval, flags)
       new == [e EXCEPT !.leak = b.leak, !.age = 0,
                        !.kod = IF SendsKod(b.flags) THEN 0 ELSE @]
   IN [mon |-> [m EXCEPT !.mru = <<new>> \o Unlink(@, i)],
       flags |-> b.flags, gap |-> e.kod] : interval \in Seconds(e.age)}

(* Where the entry for a new source may come from.  The last resort is the *)
(* oldest entry, or by chance none.                                        *)
MonitorEntry(m) ==
  IF m.entries < site.mindepth THEN {MonAllocEntry(m)}
  ELSE UNION {
    IF m.mru # <<>> /\ MaxAge < age THEN {MonReclaimEntry(m)}
    ELSE IF m.free > 0 \/ m.alloc < site.maxdepth THEN {MonAllocEntry(m)}
    ELSE {MonReclaimEntry(m), m} :
      age \in IF m.mru = <<>> THEN {0} ELSE Seconds(m.mru[Len(m.mru)].age)}

MonitorNew(m, src, lcladr, flags) ==
  {[mon |-> IF n = m THEN m
            ELSE [n EXCEPT !.entries = @ + 1,
                           !.mru = <<[src |-> src, lcladr |-> lcladr,
                                      age |-> 0, leak |-> 0,
                                      kod |-> Headway + 1]>> \o @],
    flags |-> Unlimited(flags), gap |-> Headway + 1] : n \in MonitorEntry(m)}

NtpMonitor(m, src, lcladr, flags) ==
  LET known == {i \in DOMAIN m.mru : m.mru[i].src = src} IN
  IF m.enabled = {}
    THEN {[mon |-> m, flags |-> Unlimited(flags), gap |-> Headway + 1]}
  ELSE IF known # {} THEN MonitorKnown(m, Min(known), flags)
  ELSE MonitorNew(m, src, lcladr, flags)

-----------------------------------------------------------------------------
(* ntp_restrict.c                                                          *)

IncLimited(s) ==
  [s EXCEPT !.refcnt = @ + 1,
            !.mon = IF s.refcnt = 0 THEN MonStart(@, "res") ELSE @]

DecLimited(s) ==
  [s EXCEPT !.refcnt = @ - 1,
            !.mon = IF s.refcnt = 1 THEN MonStop(@, "res") ELSE @]

(* The counter goes down for an entry with any flags at all, not only for  *)
(* one with RES_LIMITED.                                                   *)
FreeRes(s, i) ==
  LET e == s.list[i]
      t == IF e.flags # {} THEN DecLimited(s) ELSE s
  IN [t EXCEPT !.list = Unlink(@, i),
               !.drift = @ \/ (e.flags # {} /\ "limited" \notin e.flags)]

Matches(e, a, ntpport) ==
  /\ e.key.addr = Masked(a, e.key.len)
  /\ e.key.mflags \in {0, Source} \/ ntpport

(* What is left of an entry that the search has found expired: all zeroes, *)
(* which match any address.                                                *)
Zeroed == [key |-> DefaultKey, flags |-> {}, expire |-> "never"]

(* match_restrict4_addr: the state after the search and the entry found.   *)
MatchRestrict(s, a, ntpport) ==
  LET i == Min({j \in DOMAIN s.list : \/ s.list[j].expire = "past"
                                      \/ Matches(s.list[j], a, ntpport)})
  IN
  IF s.list[i].expire = "past" THEN [s |-> FreeRes(s, i), res |-> Zeroed]
  ELSE [s |-> s, res |-> s.list[i]]

(* Mutant of SortsBefore: the wider mask comes first.                      *)
SortsBeforeWide(k, l) ==
  \/ k.addr > l.addr
  \/ k.addr = l.addr /\ k.len < l.len
  \/ k.addr = l.addr /\ k.len = l.len /\ k.mflags > l.mflags

SortsBefore(k, l) ==
  \/ k.addr > l.addr
  \/ k.addr = l.addr /\ k.len > l.len
  \/ k.addr = l.addr /\ k.len = l.len /\ k.mflags > l.mflags

Insert(list, e) ==
  LET after == {i \in DOMAIN list : SortsBefore(e.key, list[i].key)} IN
  IF after = {} THEN Append(list, e)
  ELSE SubSeq(list, 1, Min(after) - 1) \o <<e>> \o SubSeq(list, Min(after), Len(list))

(* match_restrict_entry: the entry with this key, or 0.                    *)
Find(s, key) ==
  LET I == {i \in DOMAIN s.list : s.list[i].key = key} IN
  IF I = {} THEN 0 ELSE Min(I)

(* Mutant of RestrictFlags: an entry that is limited is counted again.     *)
RestrictFlagsAgain(s, key, flags, expire) ==
  LET i == Find(s, key)
      t == IF "limited" \in flags THEN IncLimited(s) ELSE s
  IN
  IF i = 0
    THEN [t EXCEPT !.list =
            Insert(@, [key |-> key, flags |-> flags, expire |-> expire])]
    ELSE [t EXCEPT !.list[i].flags = @ \cup flags]

(* hack_restrict, by operation.                                            *)
RestrictFlags(s, key, flags, expire) ==
  LET i == Find(s, key)
      new == /\ "limited" \in flags
             /\ i = 0 \/ "limited" \notin s.list[i].flags
      t == IF new THEN IncLimited(s) ELSE s
  IN
  IF i = 0
    THEN [t EXCEPT !.list =
            Insert(@, [key |-> key, flags |-> flags, expire |-> expire])]
    ELSE [t EXCEPT !.list[i].flags = @ \cup flags]

RestrictUnflag(s, key, flags) ==
  LET i == Find(s, key) IN
  IF i = 0 THEN s
  ELSE LET t == IF "limited" \in s.list[i].flags \cap flags
                  THEN DecLimited(s) ELSE s
       IN [t EXCEPT !.list[i].flags = @ \ flags]

RestrictRemove(s, key) ==
  LET i == Find(s, key) IN
  IF i = 0 \/ key = DefaultKey THEN s ELSE FreeRes(s, i)

(* restrict_source for a new association or a pool solicitation.           *)
RestrictSource(s, a, expire) ==
  LET m == MatchRestrict(s, a, TRUE)
      specific == m.res.key.len = Bits
      fleeting == expire = "never" /\ m.res.expire # "never"
      t == IF specific /\ fleeting THEN FreeRes(m.s, Find(m.s, m.res.key))
                                   ELSE m.s
  IN
  IF specific /\ ~fleeting THEN m.s
  ELSE RestrictFlags(t, HostKey(a, SourceMflags), SourceFlags, expire)

-----------------------------------------------------------------------------
(* Commands: "restrict" and "unrestrict", the monitor switch, interfaces.  *)
(* A command has one entry.  The loops of do_restrict over the entries of  *)
(* a mode 7 request are left out: the second begins with the count that    *)
(* the checks of the first have used up (request.c:1733 and 1766), and so  *)
(* goes on behind the last entry.  What it finds there, if it does not     *)
(* crash, it takes for more of these operations, any of which Next allows. *)

AddRestrict(key, flags) ==
  /\ Becomes(RestrictFlags(Now, key, flags, "never"))
  /\ UNCHANGED <<deleted, kodgap>>

Unrestrict(key) ==
  /\ \/ \E flags \in FlagSets : Becomes(RestrictUnflag(Now, key, flags))
     \/ Becomes(RestrictRemove(Now, key))
  /\ UNCHANGED <<deleted, kodgap>>

Monitor ==
  /\ \/ Becomes([Now EXCEPT !.mon = MonStart(@, "on")])
     \/ Becomes([Now EXCEPT !.mon = MonStop(@, "on")])
  /\ UNCHANGED <<deleted, kodgap>>

(* The interfaces that are there, each with its entry; 0 is the wildcard.  *)
Endpoints ==
  {0} \cup {a \in site.ifaces : Find(Now, HostKey(a, Interface)) # 0}

InterfaceUp(a) ==
  /\ a \notin Endpoints
  /\ Becomes(RestrictFlags(Now, HostKey(a, Interface), {"ignore"}, "never"))
  /\ UNCHANGED <<deleted, kodgap>>

InterfaceDown(a) ==
  /\ a \in Endpoints
  /\ Becomes(RestrictRemove([Now EXCEPT !.mon = MonClearInterface(@, a)],
                            HostKey(a, Interface)))
  /\ deleted' = TRUE
  /\ UNCHANGED kodgap

NewPeer(a) ==
  Becomes(RestrictSource(Now, a, "never")) /\ UNCHANGED <<deleted, kodgap>>

(* restrict_source's farewell asks for the entry without match flags, not  *)
(* for the one that it made.                                               *)
UnPeer(a) ==
  Becomes(RestrictRemove(Now, HostKey(a, 0))) /\ UNCHANGED <<deleted, kodgap>>

(* pool_xmit asks for the restrictions first.                              *)
PoolXmit(a) ==
  LET m == MatchRestrict(Now, a, TRUE) IN
  /\ Becomes(IF m.res.flags \ {"kod"} = {} THEN m.s
             ELSE RestrictSource(m.s, a, "pending"))
  /\ UNCHANGED <<deleted, kodgap>>

(* receive for a client's packet: the restrictions, then the monitor.      *)
(* timer() may have deleted the interface since the packet came in.        *)
Arrivals == Endpoints \cup (IF deleted THEN {Stale} ELSE {})

Receive(src, lcladr, ntpport) ==
  LET m == MatchRestrict(Now, src, ntpport) IN
  IF "ignore" \in m.res.flags THEN Becomes(m.s) /\ UNCHANGED <<deleted, kodgap>>
  ELSE \E r \in NtpMonitor(m.s.mon, src, lcladr, m.res.flags) :
         /\ Becomes([m.s EXCEPT !.mon = r.mon])
         /\ kodgap' = IF SendsKod(r.flags) THEN r.gap ELSE kodgap
         /\ UNCHANGED deleted

(* An entry of the MRU list when the clock has advanced by d, and when it  *)
(* has been stepped back; a long silence is still a long one.              *)
Aged(e, d) ==
  [e EXCEPT !.age = Min({@ + d, AgeMax}), !.kod = Min({@ + d, Headway + 1})]
Rewound(e) == [e EXCEPT !.age = IF @ = AgeMax THEN @ ELSE @ - Back]

(* Half a second passes; an entry of the restrict list may expire.         *)
Tick ==
  /\ mon' = [mon EXCEPT !.mru = [i \in DOMAIN @ |-> Aged(@[i], 1)]]
  /\ \/ UNCHANGED restrictlist
     \/ \E i \in DOMAIN restrictlist :
          /\ restrictlist[i].expire = "pending"
          /\ restrictlist' = [restrictlist EXCEPT ![i].expire = "past"]
  /\ UNCHANGED <<site, res_limited_refcnt, drift, deleted, kodgap>>

(* The system clock is stepped, forward or back.  Bound: not back again    *)
(* until the sources have called or aged, and their counters have gone     *)
(* down.                                                                   *)
StepClock ==
  /\ \/ mon' = [mon EXCEPT !.mru = [i \in DOMAIN @ |-> Aged(@[i], Ahead)]]
     \/ /\ \A i \in DOMAIN mon.mru : /\ mon.mru[i].age >= 0
                                     /\ mon.mru[i].leak <= Limit + Headway
        /\ mon' = [mon EXCEPT !.mru = [i \in DOMAIN @ |-> Rewound(@[i])]]
  /\ UNCHANGED <<site, restrictlist, res_limited_refcnt, drift, deleted, kodgap>>

Next ==
  \/ \E key \in site.keys : \/ \E flags \in FlagSets : AddRestrict(key, flags)
                            \/ Unrestrict(key)
  \/ Monitor
  \/ \E a \in site.ifaces : InterfaceUp(a) \/ InterfaceDown(a)
  \/ \E a \in site.peers : NewPeer(a) \/ UnPeer(a) \/ PoolXmit(a)
  \/ \E a \in site.clients, lcladr \in Arrivals, ntpport \in BOOLEAN :
       Receive(a, lcladr, ntpport)
  \/ Tick
  \/ StepClock

Spec == Init /\ [][Next]_vars

-----------------------------------------------------------------------------
(* The entries of the two lists, and the two lists themselves.             *)
Rules == [key : Keys, flags : SUBSET Flags, expire : {"never", "pending", "past"}]
Clients == [src : Addrs, lcladr : Addrs \cup {Stale}, age : -Back .. AgeMax,
            leak : 0 .. Limit + Headway + Back, kod : 0 .. Headway + 1]

TypeOK ==
  /\ site \in Sites
  /\ restrictlist \in Seq(Rules)
  /\ res_limited_refcnt \in Int
  /\ drift \in BOOLEAN
  /\ mon \in [enabled : SUBSET {"on", "res"}, mru : Seq(Clients),
              entries : Nat, free : Nat, alloc : Nat]
  /\ deleted \in BOOLEAN
  /\ kodgap \in 0 .. Headway + 1

(* "The list is kept sorted to ... make sure you get the set of            *)
(* restrictions most specific to the address" (restrict.c:22): the first   *)
(* match has the longest mask of all entries that match, and match flags   *)
(* if one of that mask has them.  Except where the search meets an expired *)
(* entry on the way: match_restrict4_addr frees it and then compares with  *)
(* what is left of it (restrict.c:269), so that this once nothing applies. *)
MostSpecific ==
  \A a \in Addrs, ntpport \in BOOLEAN :
    LET m == MatchRestrict(Now, a, ntpport) IN
    m.s.list = restrictlist =>
      \A i \in DOMAIN restrictlist :
        Matches(restrictlist[i], a, ntpport) =>
          \/ m.res.key.len > restrictlist[i].key.len
          \/ /\ m.res.key.len = restrictlist[i].key.len
             /\ m.res.key.mflags >= restrictlist[i].key.mflags

(* "Count number of restriction entries referring to RES_LIMITED, to       *)
(* control implicit activation/deactivation of the MRU monlist"            *)
(* (restrict.c:81): it counts them, and the monitor is on while there is   *)
(* one.  Until an entry is freed that has other flags only: free_res tests *)
(* for any flags (restrict.c:218), and from then on the count is too low.  *)
LimitedCounted ==
  ~drift =>
    /\ res_limited_refcnt =
         Cardinality({i \in DOMAIN restrictlist :
                        "limited" \in restrictlist[i].flags})
    /\ "res" \in mon.enabled <=> res_limited_refcnt > 0

(* No entry of the MRU list is lost or found twice, each source has one,   *)
(* an interface takes its entries with it when it goes                     *)
(* (mon_clearinterface), so that only a packet handled after its interface *)
(* was deleted makes one that refers to it (ntpd.c:1026), and the memory   *)
(* is bounded.  The bound is not mru_maxdepth, the "hard limit on the      *)
(* number of entries" (monitor.c:418): below it a whole increment is       *)
(* allocated, and free entries are used without a test (monitor.c:453).    *)
MruAccounted ==
  /\ mon.entries = Len(mon.mru)
  /\ mon.free + Len(mon.mru) = mon.alloc
  /\ \A i, j \in DOMAIN mon.mru : mon.mru[i].src = mon.mru[j].src => i = j
  /\ \A i \in DOMAIN mon.mru : mon.mru[i].lcladr \in Endpoints \cup {Stale}
  /\ mon.alloc <= Max({site.initalloc, site.maxdepth + site.incalloc - 1,
                       site.mindepth + site.incalloc - 1})

(* "This rate-limits the KoDs to no less than the average headway"         *)
(* (monitor.c:386): from one KoD to the next on account of one entry the   *)
(* clock advances, by running or by steps forward, by more than half of    *)
(* 1 << ntp_minpoll.  It may be that little: each interval is rounded up   *)
(* and the counter leaks as much (monitor.c:366), however often.  A step   *)
(* back puts something in and only makes the next KoD wait.                *)
KodSpacing == kodgap >= Headway + 1
=============================================================================
