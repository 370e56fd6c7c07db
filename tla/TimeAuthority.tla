--------------------------- MODULE TimeAuthority ---------------------------
(***************************************************************************)
(* The time authority of the navigation reader: when the stamps of a run   *)
(* are GPS time, and by which offset (rig/nav.py, TimeAuthority).          *)
(*                                                                         *)
(* Several devices of the boat's bus send time words.  A word of a         *)
(* satellite source is a candidate; a second one of the same sender that   *)
(* agrees with it confirms, and the best sender that is live is the        *)
(* authority.  Confirmations are kept as spans, so a frame pulled long     *)
(* after its exposure asks what held at the exposure.                      *)
(***************************************************************************)
EXTENDS Integers, Sequences, FiniteSets, FiniteSetsExt, SequencesExt, TLC

CONSTANTS
    Senders,      \* source addresses on the bus
    Satellite,    \* those that send PGN 129029; the others send 126992
    Offsets,      \* offsets a word may show: gps - host, in units
    Tolerance,    \* CONFIRM_TOL_S in those units
    Stale,        \* STALE_S in ticks
    GapsKept,     \* gaps of a sender its cadence is judged by
    SpansKept,    \* confirmation spans kept
    MaxNow        \* bound: the host's clock

ASSUME TimeAuthorityAssumption ==
    /\ Senders \subseteq Nat /\ Satellite \subseteq Senders
    /\ Offsets \subseteq Int
    /\ {Tolerance, Stale, MaxNow} \subseteq Nat
    /\ {GapsKept, SpansKept} \subseteq Nat \ {0}

VARIABLES
    now,        \* the host's clock
    slots,      \* _senders
    spans,      \* _spans, newest last
    dispute,    \* _disagreement: the live senders that contradict the chosen
    heard,      \* history: the last satellite word of each sender
    earned,     \* history: [at, off] a satellite sender agreed on with itself
    stood       \* history: instant -> the offset the authority had there

authorityVars == <<now, slots, spans, dispute, heard, earned, stood>>

NoWord == [at |-> 0 - 1, off |-> 0, satellite |-> FALSE]
NoSlot == [streak |-> 0, gaps |-> <<>>, off |-> 0, at |-> 0]

AuthorityInit ==
    /\ now = 0
    /\ slots = [s \in Senders |-> NoSlot]
    /\ spans = <<>>
    /\ dispute = {}
    /\ heard = [s \in Senders |-> NoWord] /\ earned = {} /\ stood = <<>>

Abs(n) == IF n < 0 THEN 0 - n ELSE n
Agree(a, b) == Abs(a - b) <= Tolerance

-----------------------------------------------------------------------------
(***************************************************************************)
(* Choosing the authority.                                                 *)
(***************************************************************************)
\* A sender confirms against itself, while it is not quiet for too long.
Known(s) == slots[s].streak > 0 /\ now - slots[s].at <= Stale
Streak(s, off) ==
    IF Known(s) /\ Agree(off, slots[s].off) THEN slots[s].streak + 1 ELSE 1

LastOf(seq, n) == SubSeq(seq, IF Len(seq) > n THEN Len(seq) - n + 1 ELSE 1,
                         Len(seq))
Slot(s, off) ==
    [streak |-> Streak(s, off), off |-> off, at |-> now,
     gaps |-> IF Known(s) THEN LastOf(Append(slots[s].gaps, now - slots[s].at),
                                      GapsKept)
              ELSE <<>>]

Live(table) == {s \in Senders : table[s].streak >= 2
                                /\ now - table[s].at <= Stale}

\* _sender_rank(): the satellite fix, then the steadiest cadence, then the
\* lowest address.
Unsteady == MaxNow + 1
Jitter(slot) == IF Len(slot.gaps) < 2 THEN Unsteady
                ELSE Max(Range(slot.gaps)) - Min(Range(slot.gaps))
Rank(table, s) == <<IF s \in Satellite THEN 0 ELSE 1, Jitter(table[s]), s>>
Precedes(a, b) == \/ a[1] < b[1]
                  \/ a[1] = b[1] /\ a[2] < b[2]
                  \/ a[1] = b[1] /\ a[2] = b[2] /\ a[3] <= b[3]
Best(table) ==
    CHOOSE s \in Live(table) :
        \A u \in Live(table) : Precedes(Rank(table, s), Rank(table, u))

\* _confirm_locked(): the open span grows while its offset stands; a gap or
\* a step begins a new one.
MutantExtendsAcross(off) == spans # <<>> /\ now - Last(spans).end <= Stale
Extends(off) ==
    /\ spans # <<>>
    /\ now - Last(spans).end <= Stale
    /\ Agree(off, Last(spans).off)
Confirmed(off) ==
    IF Extends(off)
    THEN [spans EXCEPT ![Len(spans)] =
              [start |-> @.start, end |-> now, off |-> off]]
    ELSE LastOf(Append(spans, [start |-> now, end |-> now, off |-> off]),
                SpansKept)

-----------------------------------------------------------------------------
(***************************************************************************)
(* feed()                                                                  *)
(***************************************************************************)
\* _trustworthy(), and an offset that is plausible at all.
Trusted(word) == word.satellite

\* History: two words of one satellite sender in a row, close and agreeing.
Earns(s, word) ==
    /\ word.satellite /\ heard[s] # NoWord
    /\ now - heard[s].at <= Stale
    /\ Agree(word.off, heard[s].off)

\* The live senders that contradict the chosen one; the operator is told.
Disputers(table) ==
    {u \in Live(table) : ~Agree(table[u].off, table[Best(table)].off)}

Feed(s, off, satellite) ==
    LET word == [off |-> off, satellite |-> satellite, at |-> now]
        table == [slots EXCEPT ![s] = Slot(s, off)]
        chosen == Live(table) # {} /\ Best(table) = s
    IN
    /\ heard[s].at # now
    /\ heard' = IF satellite THEN [heard EXCEPT ![s] = word] ELSE heard
    /\ earned' = IF Earns(s, word) THEN earned \cup {[at |-> now, off |-> off]}
                 ELSE earned
    /\ IF ~Trusted(word) THEN UNCHANGED <<slots, spans, dispute, stood>>
       ELSE /\ slots' = table
            /\ spans' = IF chosen THEN Confirmed(off) ELSE spans
            /\ stood' = IF chosen
                        THEN [x \in DOMAIN stood \cup {now} |->
                                  IF x = now THEN off ELSE stood[x]]
                        ELSE stood
            /\ dispute' = IF Live(table) = {} THEN dispute ELSE Disputers(table)
    /\ UNCHANGED now

AuthorityTick == /\ now < MaxNow
                 /\ now' = now + 1
                 /\ UNCHANGED <<slots, spans, dispute, heard, earned, stood>>

AuthorityNext ==
    \/ AuthorityTick
    \/ \E s \in Senders, off \in Offsets, satellite \in BOOLEAN :
            Feed(s, off, satellite)

AuthoritySpec == AuthorityInit /\ [][AuthorityNext]_authorityVars

-----------------------------------------------------------------------------
(***************************************************************************)
(* What a frame asks, of the instant of its exposure.                      *)
(***************************************************************************)
Distance(span, x) == IF x < span.start THEN span.start - x
                     ELSE IF x > span.end THEN x - span.end ELSE 0

\* _covering_span(): the nearest span that reaches x, the newer of two.
Reaching(x) == {i \in 1..Len(spans) : Distance(spans[i], x) <= Stale}
Covering(x) ==
    CHOOSE i \in Reaching(x) :
        \A j \in Reaching(x) :
            \/ Distance(spans[i], x) < Distance(spans[j], x)
            \/ Distance(spans[i], x) = Distance(spans[j], x) /\ i >= j
Source(x) == IF Reaching(x) = {} THEN "host" ELSE "gps"
OffsetTo(x) == IF Reaching(x) = {} THEN 0 ELSE spans[Covering(x)].off

-----------------------------------------------------------------------------
(***************************************************************************)
(* Properties.                                                             *)
(***************************************************************************)
Instants == 0..(MaxNow + Stale)

\* A stamp is GPS time only by an offset that two words of one satellite
\* sender agreed on, not further from the instant than the staleness bound
\* (TimeAuthority's five conditions).
SourceIsEarned ==
    \A x \in Instants :
        Source(x) = "gps" =>
            \E e \in earned : /\ Abs(e.at - x) <= Stale
                              /\ Agree(OffsetTo(x), e.off)

\* A frame exposed while an offset stood keeps it, whatever the clock steps
\* or the choice of sender do afterwards (_covering_span).
StepKeepsThePast ==
    Len(spans) < SpansKept =>
        \A x \in DOMAIN stood : Agree(OffsetTo(x), stood[x])

\* A sender that agrees with itself is not starved by any other (the candidate
\* per sender), where one device sends each kind of word.
NoSenderIsStarved ==
    \A s \in Senders :
        slots[s].streak >= 2 /\ slots[s].at = now => Source(now) = "gps"

\* The host's clock stands or steps against GPS: it does not drift from one
\* offset to another through those between.
OffsetsDoNotDrift ==
    \A a, b, c \in Offsets : Agree(a, b) /\ Agree(b, c) => Agree(a, c)

\* No two senders of one PGN: they would be the best by turns (_sender_rank).
OneSenderOfEach ==
    \A s, u \in Senders : s # u => (s \in Satellite <=> u \notin Satellite)

\* The stamps of the frames are GPS time exactly when that is earned.
AuthorityIsHonest == SourceIsEarned /\ StepKeepsThePast /\ NoSenderIsStarved

=============================================================================
