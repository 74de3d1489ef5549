---------------------------- MODULE ClockSelect -----------------------------
(***************************************************************************)
(* The system process of ntpd/ntp_proto.c: clock_select() and what leads   *)
(* to it.  clock_filter() leaves an offset and a distance with a peer and  *)
(* calls clock_select(), which looks for the interval that most sources    *)
(* agree on, casts out the falsetickers, trims the rest, chooses the       *)
(* system peer, and winds the clock if the choice brings a new sample.     *)
(*                                                                         *)
(* Peers are associations, numbered in the order of peer_list; 0 is NULL.  *)
(* Which structure an association has shows in one place: unpeer() leaves  *)
(* sys_peer pointing at the structure it frees, and a new association may  *)
(* be given that one (newpeer() takes the one freed last).                 *)
(*                                                                         *)
(* The order of the samples' epochs is kept as one bit per peer, is its    *)
(* epoch later than sys_epoch; which peers stay ahead when sys_epoch moves *)
(* is left open.  So are the metrics by which survivors are trimmed and    *)
(* the best one is chosen, and the discipline's verdict (slew or step).  A *)
(* distance is that of the last sample: its growth since shows only as a   *)
(* peer that is no longer fit.                                             *)
(***************************************************************************)
EXTENDS Integers, FiniteSets, Sequences, SequencesExt, FiniteSetsExt

CONSTANTS
  N,          \* the number of associations
  Casts,      \* the configurations: the kind of each peer, the intervals
              \* (offset, root distance) its samples have, and sys_minsane
  MinDisp,    \* sys_mindisp
  MinClock,   \* sys_minclock
  HopMax      \* bound: the halvings after which sys_clockhop underflows

Peers == 1 .. N
Kinds == {"plain", "prefer", "true", "pps", "atom", "local", "orphan",
          "caster"}

(* Where sys_peer points when the structure it points at has been freed.   *)
Ghost == N + 1

ASSUME SelectConstants ==
  /\ N \in Nat \ {0}
  /\ Casts \subseteq [kind : [Peers -> Kinds], minsane : Nat,
                      brings : [Peers -> SUBSET [off : Int, dist : Nat \ {0}]]]
  /\ {MinDisp, MinClock, HopMax} \subseteq Nat \ {0}

VARIABLES
  kind,           \* the flags PREFER, TRUE and PPS (on the ATOM driver or
                  \* another), the local clock, an orphan parent; or the
                  \* prototype of a broadcast, manycast or pool, which has
                  \* no samples
  brings,         \* the samples a peer may have
  sys_minsane,
  peer,           \* struct peer: mobilized, fit, the sample, a later epoch
  status,         \* peer->status: rejected, survivor or system peer
  sys_peer,
  sys_clockhop,   \* 0, or how often sys_mindisp was halved, plus one
  lost,           \* history: has sys_peer, a PPS driver, been cleared or
                  \* freed since it was chosen?
  turn            \* history: p if clock_select has just seen a sample of
                  \* p later than sys_epoch, -p if it has seen p run empty

config == <<kind, brings, sys_minsane>>
vars == <<config, peer, status, sys_peer, sys_clockhop, lost, turn>>

Zero == [off |-> 0, dist |-> 1]
Cleared == [mob |-> TRUE, fit |-> FALSE, iv |-> Zero, fresh |-> FALSE]
Freed == [Cleared EXCEPT !.mob = FALSE]

Init ==
  /\ \E c \in Casts :
       kind = c.kind /\ brings = c.brings /\ sys_minsane = c.minsane
  /\ peer = [p \in Peers |-> Freed]
  /\ status = [p \in Peers |-> "reject"]
  /\ sys_peer = 0
  /\ sys_clockhop = 0
  /\ lost = FALSE
  /\ turn = 0

-----------------------------------------------------------------------------
(* The intersection algorithm, on the intervals of a set of candidates.    *)

Lower(iv) == iv.off - iv.dist
Upper(iv) == iv.off + iv.dist

(* The list endpoint[], in the order of peer_list.                         *)
Endpoints(ivs) ==
  FlattenSeq([i \in 1 .. Cardinality(DOMAIN ivs) |->
    LET iv == ivs[SetToSortSeq(DOMAIN ivs, <)[i]] IN
    <<[val |-> Lower(iv), type |-> -1], [val |-> Upper(iv), type |-> 1]>>])

(* One round of the selection sort: the first of the least comes to i.     *)
SortRound(s, i) ==
  LET k == CHOOSE k \in i .. Len(s) :
             /\ \A j \in i .. Len(s) : s[k].val <= s[j].val
             /\ \A j \in i .. (k - 1) : s[k].val < s[j].val
  IN [s EXCEPT ![i] = s[k], ![k] = s[i]]

Sorted(s) == FoldLeft(SortRound, s, [i \in 1 .. Len(s) |-> i])

(* How many intervals the scan is inside of after the first i endpoints    *)
(* from below, or from the i-th on from above.                             *)
Ends(s, range, t) == Cardinality({j \in range : s[j].type = t})
FromBelow(s, i) == Ends(s, 1 .. i, -1) - Ends(s, 1 .. i, 1)
FromAbove(s, i) == Ends(s, i .. Len(s), 1) - Ends(s, i .. Len(s), -1)

(* Where the scans stop when m intervals are to be met, or at the end.     *)
Low(s, m) ==
  LET hits == {i \in 1 .. Len(s) : FromBelow(s, i) >= m} IN
  s[IF hits = {} THEN Len(s) ELSE Min(hits)].val
High(s, m) ==
  LET hits == {i \in 1 .. Len(s) : FromAbove(s, i) >= m} IN
  s[IF hits = {} THEN 1 ELSE Max(hits)].val

(* Mutant of Falsetickers: half of the candidates may be falsetickers.     *)
FalsetickersHalf(n) == {a \in 0 .. n : 2 * a <= n /\ a < n}

(* The numbers of falsetickers that are tried, in this order.              *)
Falsetickers(n) == {a \in 0 .. n : 2 * a < n}

NoInterval == [low |-> 1, high |-> 0]

Intersection(ivs) ==
  LET s == Sorted(Endpoints(ivs))
      n == Cardinality(DOMAIN ivs)
      found == {a \in Falsetickers(n) : High(s, n - a) > Low(s, n - a)}
  IN
  IF found = {} THEN NoInterval
  ELSE [low |-> Low(s, n - Min(found)), high |-> High(s, n - Min(found))]

Overlaps(iv, i) ==
  i.high > i.low /\ Upper(iv) >= i.low /\ Lower(iv) <= i.high

(* The result for all that the candidates may bring, tabulated.            *)
Table ==
  LET all == UNION {UNION {c.brings[p] : p \in Peers} : c \in Casts} IN
  {[ivs |-> ivs, found |-> Intersection(ivs)] :
     ivs \in UNION {[ps -> all] : ps \in SUBSET Peers}}

Found(ivs) == (CHOOSE row \in Table : row.ivs = ivs).found

-----------------------------------------------------------------------------
(* clock_select                                                            *)

Fit(pr) == {p \in Peers : pr[p].mob /\ pr[p].fit}
Candidates(pr) == {p \in Fit(pr) : kind[p] \notin {"local", "orphan"}}

(* Mutant of Truechimers: the falsetickers stay on the island.             *)
TruechimersAll(pr) == Candidates(pr)

Samples(pr) == [p \in Candidates(pr) |-> pr[p].iv]

Truechimers(pr) ==
  LET i == Found(Samples(pr)) IN
  {p \in Candidates(pr) : Overlaps(pr[p].iv, i) \/ kind[p] = "true"}

First(ps) == IF ps = {} THEN 0 ELSE Min(ps)
PpsPeers == {p \in Peers : kind[p] \in {"pps", "atom"}}

(* With no truechimers: the local clock if the orphan wait is over, which  *)
(* is left open, or else the orphan parent, if there is one.               *)
Fallback(pr) ==
  LET local == {p \in Fit(pr) : kind[p] = "local"}
      orphans == {p \in Fit(pr) : kind[p] = "orphan"}
  IN
  (IF local = {} THEN {} ELSE {{Min(local)}}) \cup
  (IF orphans = {} THEN {{}} ELSE {{p} : p \in orphans})

(* What may be left after the clustering: as long as there are more than   *)
(* sys_minclock, one without immunity may go.                              *)
Survivors(pr, chimers) ==
  IF chimers = {} THEN Fallback(pr)
  ELSE {s \in SUBSET chimers :
          /\ Cardinality(s) >= Min({Cardinality(chimers), MinClock})
          /\ \A p \in chimers \ s : kind[p] \notin {"true", "prefer"}}

(* The offset and the epoch of a structure, which are zero in a freed one. *)
Offset(pr, p) == IF p = Ghost THEN 0 ELSE pr[p].iv.off
Fresh(pr, p) == p # Ghost /\ pr[p].fresh

(* Mutant of Dance: sys_clockhop is not halved.                            *)
DanceOn(pr, best) ==
  LET x == Offset(pr, best) - Offset(pr, sys_peer) IN
  IF -MinDisp < x /\ x < MinDisp
    THEN [peer |-> sys_peer, hop |-> 1] ELSE [peer |-> best, hop |-> 0]

(* The clockhop dance: stay with the system peer while its offset is close *)
(* to the best survivor's, closer each time.                               *)
Dance(pr, best) ==
  LET x == Offset(pr, best) - Offset(pr, sys_peer)
      hop == Min({sys_clockhop + 1, HopMax})
      near(h) == -MinDisp < x * 2^(h - 1) /\ x * 2^(h - 1) < MinDisp
  IN
  IF near(1) /\ near(hop) /\ hop < HopMax
    THEN [peer |-> sys_peer, hop |-> hop] ELSE [peer |-> best, hop |-> 0]

Choice(pr, surv, best) ==
  IF surv = {} \/ Cardinality(surv) < sys_minsane
    THEN [peer |-> 0, hop |-> sys_clockhop]
  ELSE IF sys_peer \in {0, best} THEN [peer |-> best, hop |-> 0]
  ELSE Dance(pr, best)

(* A prefer peer among the survivors replaces the choice.                  *)
Preferred(surv, choice) ==
  LET prefer == {p \in surv : kind[p] = "prefer"} IN
  IF prefer # {} /\ choice.peer # 0
    THEN [peer |-> Max(prefer), hop |-> 0] ELSE choice

(* A PPS driver that is a truechimer replaces either while the offset is   *)
(* small; the ATOM driver only with a prefer peer, or where nothing else   *)
(* is chosen and no survivors are required.                                *)
PpsApplies(surv, choice, pps) ==
  \/ kind[pps] = "pps"
  \/ \E p \in surv : kind[p] = "prefer"
  \/ choice.peer = 0 /\ sys_minsane = 0

NewStatus(surv, choice, pps) ==
  [p \in Peers |-> IF p = pps THEN "pps"
                   ELSE IF p = choice THEN "syspeer"
                   ELSE IF p \in surv THEN "survivor"
                   ELSE "reject"]

(* There is no choice: no system peer, and the orphan wait begins anew.    *)
NoSysPeer(pr, new) ==
  /\ peer' = pr
  /\ sys_peer' = 0
  /\ lost' = FALSE
  /\ status' = new

(* Mutant of OldData: the new status is published before the test.         *)
OldDataPublished(pr, new) ==
  /\ peer' = pr
  /\ status' = new
  /\ UNCHANGED <<sys_peer, lost>>

(* The chosen peer's sample is not later than the last one used.           *)
OldData(pr, new) ==
  /\ peer' = pr
  /\ UNCHANGED <<sys_peer, status, lost>>

(* clock_update: sys_epoch moves; the clock is slewed, or it is stepped    *)
(* and clear_all forgets the samples and the status of every peer.         *)
ClockUpdate(pr, t, new) ==
  /\ sys_peer' = t
  /\ lost' = FALSE
  /\ \/ /\ \E behind \in SUBSET {p \in Peers : pr[p].fresh} :
             /\ t \in behind
             /\ peer' = [p \in Peers |->
                          IF p \in behind THEN [pr[p] EXCEPT !.fresh = FALSE]
                                          ELSE pr[p]]
        /\ status' = new
     \/ /\ peer' = [p \in Peers |-> IF pr[p].mob THEN Cleared ELSE Freed]
        /\ status' = [p \in Peers |-> "reject"]

(* What clock_select may settle on, given the best survivor and a PPS      *)
(* driver, or 0 if there is none or the offset is not small.               *)
Outcome(pr, surv, best, pps) ==
  LET c == Preferred(surv, Choice(pr, surv, best)) IN
  IF pps # 0 /\ PpsApplies(surv, c, pps)
    THEN [peer |-> pps, hop |-> 0, status |-> NewStatus(surv, c.peer, pps)]
    ELSE [peer |-> c.peer, hop |-> c.hop,
          status |-> NewStatus(surv, c.peer, 0)]

Best(surv) == IF surv = {} THEN {0} ELSE surv

Outcomes(pr) ==
  LET true == Truechimers(pr) IN
  UNION {{Outcome(pr, surv, best, pps) :
            best \in Best(surv), pps \in {0, First(true \cap PpsPeers)}} :
         surv \in Survivors(pr, true \ PpsPeers)}

ClockSelect(pr) ==
  \E o \in Outcomes(pr) :
    /\ sys_clockhop' = o.hop
    /\ IF o.peer = 0 THEN NoSysPeer(pr, o.status)
       ELSE IF ~Fresh(pr, o.peer) THEN OldData(pr, o.status)
       ELSE ClockUpdate(pr, o.peer, o.status)
    /\ UNCHANGED config

-----------------------------------------------------------------------------
(* What happens to a peer.                                                 *)

SystemUnchanged ==
  /\ turn' = 0
  /\ UNCHANGED <<config, status, sys_peer, sys_clockhop, lost>>

(* clock_filter finds a sample later than the last it used of this peer;   *)
(* its epoch may still be no later than sys_epoch.                         *)
Sampled(p, iv, fresh) ==
  [peer EXCEPT ![p].iv = iv, ![p].fit = TRUE, ![p].fresh = fresh]

FilterAndSelect(p, fresh) ==
  /\ peer[p].mob
  /\ \E pr \in {Sampled(p, iv, fresh) : iv \in brings[p]} : ClockSelect(pr)
  /\ turn' = IF fresh THEN p ELSE 0

(* The same in a burst, where clock_select is not called; and a popcorn    *)
(* spike or an old sample, which replaces the offset and no more.          *)
FilterNoSelect(p) ==
  /\ peer[p].mob
  /\ \E iv \in brings[p] :
       \/ \E fresh \in {TRUE, peer[p].fresh} : peer' = Sampled(p, iv, fresh)
       \/ peer' = [peer EXCEPT ![p].iv = iv]
  /\ SystemUnchanged

(* No acceptable sample is left in the shift register.  A prototype never  *)
(* gets there: transmit() returns before the filter.                       *)
FilterEmpty(p) ==
  /\ peer[p].mob /\ kind[p] # "caster"
  /\ \E pr \in {[peer EXCEPT ![p].fit = FALSE]} : ClockSelect(pr)
  /\ turn' = -p

(* A peer becomes unfit: unreachable, too distant, a loop, unsynchronized. *)
Unfit(p) ==
  /\ peer[p].mob /\ peer[p].fit
  /\ peer' = [peer EXCEPT ![p].fit = FALSE]
  /\ SystemUnchanged

(* The status word goes with the structure, whoever still points at it.    *)
Zeroed(p) ==
  /\ status' = [status EXCEPT ![p] = "reject"]
  /\ lost' = (lost \/ (p = sys_peer /\ status[p] = "pps"))
  /\ turn' = 0
  /\ UNCHANGED <<config, sys_clockhop>>

(* peer_clear: another local endpoint, a restart or a failure of           *)
(* authentication.                                                         *)
PeerClear(p) ==
  /\ peer[p].mob
  /\ peer' = [peer EXCEPT ![p] = Cleared]
  /\ Zeroed(p)
  /\ UNCHANGED sys_peer

(* unpeer: the structure is zeroed and freed.                              *)
Unpeer(p) ==
  /\ peer[p].mob
  /\ peer' = [peer EXCEPT ![p] = Freed]
  /\ Zeroed(p)
  /\ sys_peer' = IF sys_peer = p THEN Ghost ELSE sys_peer

(* newpeer takes a structure from the free list, maybe that one.           *)
Newpeer(p) ==
  /\ ~peer[p].mob
  /\ peer' = [peer EXCEPT ![p] = Cleared]
  /\ sys_peer' \in {sys_peer} \cup (IF sys_peer = Ghost THEN {p} ELSE {})
  /\ turn' = 0
  /\ UNCHANGED <<config, status, sys_clockhop, lost>>

Next ==
  \E p \in Peers : \/ \E fresh \in {TRUE, peer[p].fresh} :
                         FilterAndSelect(p, fresh)
                   \/ FilterNoSelect(p)
                   \/ FilterEmpty(p)
                   \/ Unfit(p)
                   \/ PeerClear(p)
                   \/ Unpeer(p)
                   \/ Newpeer(p)

Spec == Init /\ [][Next]_vars

(* The daemon goes on, and polls a mobilized peer, unless it is a          *)
(* prototype, for ever.  The samples that sys_epoch has overtaken leave    *)
(* the shift register after NTP_SHIFT polls: either the peer has later     *)
(* ones again and again, or it has none any more and its register runs     *)
(* empty.                                                                  *)
Polled(p) ==
  \/ kind[p] = "caster"
  \/ []<>(turn = p \/ ~peer[p].mob)
  \/ []<>(turn = -p) /\ <>[]~peer[p].fit

FairSpec == Spec /\ []<><<TRUE>>_vars /\ \A p \in Peers : Polled(p)

-----------------------------------------------------------------------------
TypeOK ==
  /\ [kind |-> kind, brings |-> brings, minsane |-> sys_minsane] \in Casts
  /\ peer \in [Peers -> [mob : BOOLEAN, fit : BOOLEAN, fresh : BOOLEAN,
                         iv : (UNION Range(brings)) \cup {Zero}]]
  /\ status \in [Peers -> {"reject", "survivor", "syspeer", "pps"}]
  /\ sys_peer \in 0 .. Ghost
  /\ sys_clockhop \in 0 .. HopMax
  /\ lost \in BOOLEAN
  /\ turn \in -N .. N

(* Sorting and scanning endpoints finds what the comments of clock_select  *)
(* say (proto.c 2573, 2595): the interval between the extreme endpoints    *)
(* that lie in the most candidates, given that these are a majority.  It   *)
(* does so in the order the endpoints happen to be sorted where no two     *)
(* candidates just touch; where they do, at least no minority prevails.    *)
Intersects ==
  LET ivs == Samples(peer)
      cands == DOMAIN ivs
      ends == {Lower(ivs[p]) : p \in cands} \cup {Upper(ivs[p]) : p \in cands}
      depth(x) == Cardinality({p \in cands : /\ Lower(ivs[p]) <= x
                                             /\ x <= Upper(ivs[p])})
      most == Max({depth(x) : x \in ends})
      deepest == {x \in ends : depth(x) = most}
      majority(n) == 2 * n > Cardinality(cands)
      apart == \A p, q \in cands : Lower(ivs[p]) # Upper(ivs[q])
      found == Found(ivs)
  IN
  cands # {} =>
    /\ found # NoInterval =>
         majority(Cardinality({p \in cands : Overlaps(ivs[p], found)}))
    /\ apart =>
         found = IF majority(most)
                   THEN [low |-> Min(deepest), high |-> Max(deepest)]
                   ELSE NoInterval

(* What the status words of the peers report is what the daemon follows:   *)
(* one peer at most is shown as the system peer, and it is sys_peer, or    *)
(* sys_peer is a PPS driver and is shown as such, unless it has been       *)
(* cleared or freed since (proto.c:2879 returns with the new status words  *)
(* computed and not published; structures are zeroed, freed and reused).   *)
StatusAgrees ==
  \A p \in Peers :
    /\ status[p] = "syspeer" =>
         /\ \/ sys_peer = p
            \/ \E q \in Peers : sys_peer = q /\ status[q] = "pps"
            \/ lost
         /\ \A q \in Peers : status[q] = "syspeer" => p = q
    /\ status[p] = "pps" => sys_peer = p

(* A new system peer is fit, is mobilized, and is a truechimer by the      *)
(* samples of that moment, or the fallback when there is none; and unless  *)
(* it is a PPS driver there are sys_minsane survivors (proto.c:2786,       *)
(* "Unless there are at least sys_misane survivors, leave the building     *)
(* dark").  After a step the samples are gone and there is nothing to say. *)
Stepped == \A p \in Peers : ~peer'[p].fit /\ ~peer'[p].fresh

InAgreement(p, pr) ==
  kind[p] = "true" \/ Overlaps(pr[p].iv, Found(Samples(pr)))

SameMobilized == \A p \in Peers : peer'[p].mob = peer[p].mob

HopsToTruechimer ==
  [][sys_peer' \notin {0, sys_peer} /\ SameMobilized /\ ~Stepped =>
       /\ sys_peer' \in Fit(peer')
       /\ IF sys_peer' \in Candidates(peer')
            THEN InAgreement(sys_peer', peer')
            ELSE \A p \in Candidates(peer') \ PpsPeers : ~InAgreement(p, peer')
       /\ \/ sys_peer' \in PpsPeers
          \/ Cardinality({p \in Peers : status'[p] # "reject"}) >= sys_minsane
    ]_vars

(* unpeer leaves sys_peer pointing at the freed structure (peer.c:544),    *)
(* and the clockhop dance may choose it again and again (proto.c:2808).    *)
(* It does not go on: once associations no longer come, go or are cleared, *)
(* and while there is one that has samples, the daemon does not follow for *)
(* good a freed structure, or one that a prototype has been given.         *)
Dangling ==
  sys_peer = Ghost \/ \E p \in Peers : sys_peer = p /\ kind[p] = "caster"

SysPeerLeaves ==
  <>[][SameMobilized /\ \A p \in Peers : ~PeerClear(p)]_vars =>
    []<>(~Dangling \/ \A p \in Peers : peer[p].mob => kind[p] = "caster")
=============================================================================
