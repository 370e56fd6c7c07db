----------------------------- MODULE NavHistory -----------------------------
(***************************************************************************)
(* What the navigation reader remembers, and what a frame or the operator  *)
(* is told from it (rig/nav.py, NavReader).                                *)
(*                                                                         *)
(* Every message of a PGN replaces the latest one and joins a ring, both   *)
(* bounded in age.  The operator's view takes the latest; a frame, which   *)
(* is pulled seconds after its exposure, takes the sample nearest to it.   *)
(***************************************************************************)
EXTENDS Integers, Sequences, FiniteSets, FiniteSetsExt, SequencesExt

CONSTANTS
    StaleAfter,    \* RAPID_STALE_S, SLOW_STALE_S: PGN -> ticks
    HistoryAge,    \* HISTORY_S in ticks
    HistoryLen,    \* HISTORY_N
    MaxInstant     \* bound: the host's clock

ASSUME NavHistoryAssumption ==
    /\ {HistoryAge, MaxInstant} \subseteq Nat /\ HistoryLen \in Nat \ {0}
    /\ StaleAfter.pos \in Nat /\ StaleAfter.gnss \in Nat

\* 129025, the position; 129029, the fix with its method.
PGNs == {"pos", "gnss"}
Methods == {"fix", "none"}

VARIABLES
    instant,    \* the host's clock
    latest,     \* _latest
    navRing        \* _hist

historyVars == <<instant, latest, navRing>>

NoSample == [at |-> 0 - 1, method |-> "none"]

HistoryInit ==
    /\ instant = 0
    /\ latest = [p \in PGNs |-> NoSample]
    /\ navRing = [p \in PGNs |-> <<>>]

\* _ingest(): the ring drops its oldest while it is full, and while it is too
\* old; the sample that just joined is neither.
Kept(samples) ==
    LET cut == IF Len(samples) > HistoryLen
               THEN SubSeq(samples, Len(samples) - HistoryLen + 1, Len(samples))
               ELSE samples
        young == {k \in DOMAIN cut : instant - cut[k].at <= HistoryAge}
    IN  SubSeq(cut, Min(young), Len(cut))

Ingest(p, method) ==
    LET v == [at |-> instant, method |-> method] IN
    /\ latest' = [latest EXCEPT ![p] = v]
    /\ navRing' = [navRing EXCEPT ![p] = Kept(Append(@, v))]
    /\ UNCHANGED instant

HistoryTick == /\ instant < MaxInstant
               /\ instant' = instant + 1
               /\ UNCHANGED <<latest, navRing>>

HistoryNext ==
    \/ HistoryTick
    \/ \E p \in PGNs, method \in Methods : Ingest(p, method)

HistorySpec == HistoryInit /\ [][HistoryNext]_historyVars

-----------------------------------------------------------------------------
(***************************************************************************)
(* The two views.                                                          *)
(***************************************************************************)
Away(a, b) == IF a < b THEN b - a ELSE a - b

\* _latest_pair(): the operator's.
Latest(p, at) ==
    IF latest[p] = NoSample \/ at - latest[p].at > StaleAfter[p] THEN NoSample
    ELSE latest[p]

\* _nearest(): from the newest backwards, keeping the strictly closer, until
\* nothing earlier can be.
MutantStopsAtFirst(v, at, best) == Away(v.at, at) >= best
Stops(v, at, best) == Away(v.at, at) >= best /\ v.at < at - best

Look(before, v, at) ==
    LET dist == Away(before.best.at, at) IN
    IF before.done THEN before
    ELSE IF before.best = NoSample \/ Away(v.at, at) < dist
    THEN [before EXCEPT !.best = v]
    ELSE [before EXCEPT !.done = Stops(v, at, dist)]

Walk(items, at) ==
    LET walk[i \in 0..Len(items)] ==
            IF i = 0 THEN [best |-> NoSample, done |-> FALSE]
            ELSE Look(walk[i - 1], items[i], at)
    IN  walk

Nearest(p, at) ==
    LET items == Reverse(navRing[p])
        found == Walk(items, at)[Len(items)].best
    IN  IF found = NoSample \/ Away(found.at, at) > StaleAfter[p] THEN NoSample
        ELSE found

\* _fill(): a position of either PGN, unless the fresh fix says there is none.
Position(view) ==
    IF view.gnss # NoSample /\ view.gnss.method = "none" THEN NoSample
    ELSE IF view.pos # NoSample THEN view.pos ELSE view.gnss

Snapshot == Position([p \in PGNs |-> Latest(p, instant)])
FixAt(at) == Position([p \in PGNs |-> Nearest(p, at)])

-----------------------------------------------------------------------------

\* A frame's sample is the closest there is, of those close enough.
NearestIsNearest ==
    \A p \in PGNs : \A at \in 0..MaxInstant + 1 :
        LET close == {i \in 1..Len(navRing[p]) :
                        Away(navRing[p][i].at, at) <= StaleAfter[p]}
            v == Nearest(p, at)
        IN  IF close = {} THEN v = NoSample
            ELSE /\ \E i \in close : navRing[p][i] = v
                 /\ \A i \in close : Away(v.at, at) <= Away(navRing[p][i].at, at)

\* A frame exposed now and the operator are told the same position: the ring
\* and the latest value never part (_ingest, snapshot, fix_at).
ViewsAgree == FixAt(instant) = Snapshot

HistoryIsHonest == NearestIsNearest /\ ViewsAgree
=============================================================================
