----------------------------- MODULE EdgeMatch -----------------------------
(***************************************************************************)
(* Which hardware edge a pulled frame is stamped with (rig/run.py,         *)
(* PullWorker._capture_instant and _edge_result, RunManager.               *)
(* match_exposure_edge, return_edge and match_rise).                       *)
(*                                                                         *)
(* The node records the fall and the rise of the EXPOSURE line, and names  *)
(* the fire it attributes each to.  A pull worker claims a command for a   *)
(* frame, takes the edge of that command, and checks it against the        *)
(* frame's own EXIF instant; a claim that is off by one is put back.       *)
(* Which command a frame claims is the claim queue's business: any here.   *)
(***************************************************************************)
EXTENDS Integers, Sequences, FiniteSets, FiniteSetsExt, SequencesExt

CONSTANTS
    Gaps,          \* times between two shots, in ticks
    Window,        \* how far the nearest edge may lie: 0.20 s in the code
    Near,          \* the claim tolerance of an EXIF with subseconds
    Coarse,        \* the claim tolerance of an EXIF without them
    RiseLimit,     \* match_rise's longest plausible exposure
    MaxTries,      \* claims one frame walks: 4 in the code
    MaxStrikes,    \* frames that disagree with their claim: 5 in the code
    MaxShots,      \* bound: shots
    MaxSlips       \* bound: what goes otherwise than it should

ASSUME EdgeMatchAssumption ==
    /\ Gaps \subseteq Nat
    /\ {Window, Near, Coarse, RiseLimit, MaxTries, MaxStrikes, MaxShots,
        MaxSlips} \subseteq Nat
    /\ Window <= Near

VARIABLES
    shots,      \* every command and every exposure of the body, in order
    ring,       \* the node's edge events
    cursor,     \* _edge_cursor: events read
    falls,      \* _edge_buf
    rises,      \* _rise_buf
    handling,   \* the frame being dated
    strikes,    \* _plaus_strikes
    stamped     \* the rows written

edgeVars == <<shots, ring, cursor, falls, rises, handling, strikes, stamped>>

NoFrame == [frame |-> 0, claim |-> 0, tries |-> 0, exif |-> "none"]

EdgeInit ==
    /\ shots = <<>> /\ ring = <<>> /\ cursor = 0
    /\ falls = <<>> /\ rises = <<>>
    /\ handling = NoFrame /\ strikes = 0
    /\ stamped = {}

Apart(a, b) == IF a < b THEN b - a ELSE a - b

-----------------------------------------------------------------------------
(***************************************************************************)
(* The body and its node.                                                  *)
(***************************************************************************)
\* An edge event; `of` is the shot that really made it.
Event(edge, t, fire, soft, of) ==
    [edge |-> edge, t |-> t, fire |-> fire, soft |-> soft, of |-> of]

\* A fire whose answer was heard (its edges carry its number), one whose
\* answer was lost, one the body did not follow, or the body's own shutter.
\* An edge may be missed, be stamped in software only, or carry the number of
\* the fire before, which still waited for its own.
Shoot(gap, kind, fall, rise, soft) ==
    LET n == Len(shots) + 1
        at == (IF n = 1 THEN 0 ELSE Last(shots).at) + gap
        tag(who) == IF who = "before" THEN n - 1
                    ELSE IF kind = "fire" THEN n ELSE 0
        made(edge, t, who) ==
            IF who = "lost" \/ kind = "dud" THEN <<>>
            ELSE <<Event(edge, t, tag(who), soft, n)>>
        slips == Cardinality({i \in 1..4 : <<kind # "fire", fall # "own",
                                             rise # "own", soft>>[i]})
    IN
    /\ n <= MaxShots
    /\ slips + FoldSeq(LAMBDA x, y : x.slips + y, 0, shots) <= MaxSlips
    /\ shots' = Append(shots, [at |-> at, kind |-> kind, slips |-> slips])
    /\ ring' = ring \o made("fall", at, fall) \o made("rise", at + 1, rise)
    /\ UNCHANGED <<cursor, falls, rises, handling, strikes, stamped>>

-----------------------------------------------------------------------------
(***************************************************************************)
(* The edge buffers.                                                       *)
(***************************************************************************)
\* match_exposure_edge(), first half: what the node recorded since the last
\* call joins the buffers, one event after the other.
Read(buffer, edge) ==
    LET upTo[i \in 0..Len(ring)] ==
            IF i <= cursor THEN buffer
            ELSE IF ring[i].edge = edge THEN Append(upTo[i - 1], ring[i])
            ELSE upTo[i - 1]
    IN  upTo[Len(ring)]

Without(buffer, k) == RemoveAt(buffer, k)
MutantStays(buffer, k) == buffer
Taken(buffer, k) == Without(buffer, k)

\* return_edge(): back behind the last one that is not later, with what it was
\* worth.
Returned(buffer, e) ==
    InsertAt(buffer, Max({0} \cup {k \in DOMAIN buffer : buffer[k].t <= e.t}) + 1, e)

\* The edge of a fire that was answered is the one that names it and no
\* neighbour's; without a number it is the nearest one in the window.
ByFire(buffer, fire) == {k \in DOMAIN buffer : buffer[k].fire = fire}
Closest(buffer, at) ==
    {k \in DOMAIN buffer :
        /\ Apart(buffer[k].t, at) <= Window
        /\ \A j \in DOMAIN buffer : Apart(buffer[k].t, at) <= Apart(buffer[j].t, at)}
First(ks) == IF ks = {} THEN 0 ELSE Min(ks)
OfCommand(buffer, c) ==
    First(IF shots[c].kind = "fire" THEN ByFire(buffer, c)
          ELSE Closest(buffer, shots[c].at))
OfInstant(buffer, at) == First(Closest(buffer, at))

\* match_rise(): the rise that names the fire, or the first one in a
\* plausible exposure; one that is soft or too late closes no window.
Closes(r, fall) == ~r.soft /\ r.t - fall.t \in 1..RiseLimit
RiseOf(buffer, fall, fire) ==
    LET named == IF fire = 0 THEN {} ELSE ByFire(buffer, fire)
        open == {k \in DOMAIN buffer : Closes(buffer[k], fall)}
    IN  IF named # {} THEN Min(named) ELSE First(open)

-----------------------------------------------------------------------------
(***************************************************************************)
(* Dating one frame.                                                       *)
(***************************************************************************)
Idle == handling = NoFrame
F == handling.frame
C == handling.claim
Checkable == handling.exif # "none"
Distrusted == strikes > MaxStrikes
ClaimTolerance == IF handling.exif = "fine" THEN Near ELSE Coarse
Commands == {c \in DOMAIN shots : shots[c].kind # "body"}

\* A frame is downloaded and claims a command, or finds none queued.
Pull(f, c, exif) ==
    /\ Idle
    /\ shots[f].kind # "dud"
    /\ \A r \in stamped : r.frame < f
    /\ handling' = [frame |-> f, claim |-> c, tries |-> 1, exif |-> exif]
    /\ UNCHANGED <<shots, ring, cursor, falls, rises, strikes, stamped>>

\* The row, and the window of an edge that was measured.
Stamp(src, k, buffer) ==
    LET e == buffer[k]
        risen == Read(rises, "rise")
        fire == IF C # 0 /\ shots[C].kind = "fire" THEN C ELSE 0
        r == IF src = "gpio_edge" THEN RiseOf(risen, e, fire) ELSE 0
    IN  /\ stamped' = stamped \cup
                {[frame |-> F, src |-> src, exif |-> handling.exif,
                  edge |-> IF k = 0 \/ src = "exif" THEN 0 ELSE e.of,
                  hard |-> k # 0 /\ src = "gpio_edge"
                              /\ \E i \in DOMAIN ring :
                                     ring[i].edge = "fall" /\ ring[i].of = e.of
                                     /\ ~ring[i].soft,
                  rise |-> IF r = 0 THEN 0
                           ELSE IF Closes(risen[r], e) THEN risen[r].of ELSE 0]}
        /\ rises' = IF r = 0 THEN risen ELSE Taken(risen, r)

\* _edge_result(): a software stamp yields to an EXIF that is tighter.
Result(k, buffer) ==
    /\ falls' = IF k = 0 THEN buffer ELSE Taken(buffer, k)
    /\ cursor' = Len(ring)
    /\ IF k # 0 /\ ~buffer[k].soft THEN Stamp("gpio_edge", k, buffer)
       ELSE IF k # 0 /\ handling.exif # "fine" THEN Stamp("gpio_edge_soft", k, buffer)
       ELSE Stamp("exif", 0, buffer)
    /\ handling' = NoFrame
    /\ UNCHANGED <<shots, ring>>

Delta == shots[C].at - shots[F].at

\* The frame was exposed long after its claim, or its edge lies elsewhere:
\* the claim is orphaned and the next command tried.  The first claim a frame
\* loses is a strike, on top of `sofar`.
Orphaned(next, sofar) ==
    /\ next \in {c \in Commands : c > C} \cup {0}
    /\ strikes' = IF handling.tries = 1 THEN sofar + 1 ELSE sofar
    /\ handling' = IF handling.tries = 1 /\ sofar + 1 > MaxStrikes
                   THEN [handling EXCEPT !.tries = MaxTries + 1]
                   ELSE [handling EXCEPT !.claim = next, !.tries = @ + 1]

Trying == ~Idle /\ C # 0 /\ ~Distrusted /\ handling.tries <= MaxTries

TooEarly ==
    /\ Trying /\ Checkable /\ Delta > ClaimTolerance
    /\ handling' = [handling EXCEPT !.claim = 0]
    /\ UNCHANGED <<shots, ring, cursor, falls, rises, strikes, stamped>>

TooLate(next) ==
    /\ Trying /\ Checkable /\ Delta < 0 - ClaimTolerance
    /\ Orphaned(next, strikes)
    /\ UNCHANGED <<shots, ring, cursor, falls, rises, stamped>>

\* The edge of the claimed command, in tolerance of the frame's EXIF.
Matched ==
    LET buffer == Read(falls, "fall")
        k == OfCommand(buffer, C)
    IN
    /\ Trying
    /\ Checkable => Apart(Delta, 0) <= ClaimTolerance
    /\ k # 0 /\ Checkable => Apart(buffer[k].t, shots[F].at) <= ClaimTolerance
    /\ strikes' = IF Checkable THEN 0 ELSE strikes
    /\ Result(k, buffer)

\* The command is in tolerance, which forgives every strike, but its edge is
\* not the frame's: it goes back, and the claim is orphaned like a late one.
Elsewhere(next) ==
    LET buffer == Read(falls, "fall")
        k == OfCommand(buffer, C)
    IN
    /\ Trying /\ Checkable /\ Apart(Delta, 0) <= ClaimTolerance
    /\ k # 0 /\ Apart(buffer[k].t, shots[F].at) > ClaimTolerance
    /\ Orphaned(next, 0)
    /\ falls' = Returned(Without(buffer, k), buffer[k])
    /\ cursor' = Len(ring) /\ rises' = Read(rises, "rise")
    /\ UNCHANGED <<shots, ring, stamped>>

\* No claim, or none to be trusted: the edge at the frame's own instant; an
\* unscheduled frame without one takes the oldest edge there is.
Unclaimed ==
    LET buffer == Read(falls, "fall")
        k == IF Checkable THEN OfInstant(buffer, shots[F].at)
             ELSE IF C = 0 /\ buffer # <<>> THEN 1 ELSE 0
    IN
    /\ ~Idle /\ (C = 0 \/ Distrusted)
    /\ UNCHANGED strikes
    /\ Result(k, buffer)

\* Four claims walked and none fits.
GivesUpClaims ==
    /\ ~Idle /\ C # 0 /\ ~Distrusted /\ handling.tries > MaxTries
    /\ UNCHANGED strikes
    /\ Result(0, Read(falls, "fall"))

Dating ==
    \/ TooEarly \/ Matched \/ Unclaimed \/ GivesUpClaims
    \/ \E next \in Commands \cup {0} : TooLate(next) \/ Elsewhere(next)

EdgeNext ==
    \/ \E gap \in Gaps, kind \in {"fire", "unheard", "dud", "body"},
          fall \in {"own", "before", "lost"},
          rise \in {"own", "before", "lost"}, soft \in BOOLEAN :
            Shoot(gap, kind, fall, rise, soft)
    \/ \E f \in DOMAIN shots, c \in Commands \cup {0},
          exif \in {"none", "rough", "fine"} : Pull(f, c, exif)
    \/ Dating

EdgeSpec == EdgeInit /\ [][EdgeNext]_edgeVars

-----------------------------------------------------------------------------
(***************************************************************************)
(* Properties.                                                             *)
(***************************************************************************)
\* One exposure edge stamps at most one frame (match_exposure_edge pops it).
EdgeServesOneFrame ==
    \A r, s \in stamped : r.edge # 0 /\ r.edge = s.edge => r = s

\* A row says "gpio_edge" only of an edge the kernel stamped, also when that
\* edge was handed out, returned and handed out again (return_edge).
HardMeansHard == \A r \in stamped : r.src = "gpio_edge" => r.hard

\* Whatever command it claimed, a frame whose EXIF is fine is not dated further
\* from its own exposure than the claim tolerance: the edge it is stamped with
\* is its own, or of a shot that came that close to it (_capture_instant).
FineFramesStayNear ==
    \A r \in stamped :
        r.exif = "fine" /\ r.edge # 0
            => Apart(shots[r.edge].at, shots[r.frame].at) <= Near

\* The rise that closes a window ends the exposure whose fall opened it, or one
\* that began before the longest plausible exposure had passed (match_rise).
WindowIsPlausible ==
    \A r \in stamped :
        r.rise # 0 => /\ r.edge # 0
                      /\ shots[r.rise].at - shots[r.edge].at \in 0..(RiseLimit - 1)

EdgesAreHonest ==
    EdgeServesOneFrame /\ HardMeansHard /\ FineFramesStayNear
    /\ WindowIsPlausible
=============================================================================
