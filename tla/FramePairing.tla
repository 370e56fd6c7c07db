---------------------------- MODULE FramePairing ----------------------------
(***************************************************************************)
(* The watcher that feeds a run's review images to the odometry engine     *)
(* while they are pulled (rig/vslam.py, VslamRunner).                      *)
(*                                                                         *)
(* Every second it lists both cameras' directories.  A file is ready when  *)
(* two listings agree on it.  Frames of the first camera are fed in the    *)
(* order of their instants, each with the second camera's frame of the     *)
(* same fire; a frame without one waits for it, but not for long.          *)
(***************************************************************************)
EXTENDS Integers, Sequences, FiniteSets, FiniteSetsExt, SequencesExt

CONSTANTS
    Shots,         \* 1..n: the fires of the run
    Interval,      \* between two fires, in ticks
    Skew,          \* of the second camera's exposure, in ticks
    FirstTol,      \* the tolerance before a gap was seen, in ticks
    Enough,        \* frames before "auto" decides: 4 in the code
    Grace,         \* polls a frame waits for its other half
    Lately,        \* frames the tolerance is taken from: 40 in the code
    MaxLost,       \* bound: frames that never arrive
    MaxRaises      \* bound: feeds that raise

ASSUME FramePairingAssumption ==
    /\ IsFiniteSet(Shots) /\ Shots = 1..Cardinality(Shots)
    /\ {Interval, Skew, FirstTol, Enough, Grace, Lately, MaxLost, MaxRaises} \subseteq Nat
    /\ Skew <= FirstTol /\ FirstTol + Skew < Interval /\ 2 * Skew < Interval

VARIABLES
    lost,       \* <<cam, shot>> that never arrive
    pairDir,    \* the second camera's directory is there
    dir,        \* cam -> shots whose file is in its directory
    pending,    \* _pending: cam -> files listed once
    seen,       \* _seen: cam -> files that were ready
    queue,      \* _q1
    age,        \* polls since _ready_at, of the queued
    ready2,     \* _ready2
    history,    \* _e1_hist: the last frames queued
    lastFed,    \* _last_fed
    decided,    \* mono, stereo, or nothing yet
    polling,    \* a poll is feeding
    fed,        \* what the engine was given: <<shot, partner>>, and (history)
                \* whether the frames showed their true cadence then
    counted,    \* out_of_order: frames too late for the chain
    raised      \* the feeds that raised

pairVars == <<lost, pairDir, dir, pending, seen, queue, age, ready2, history,
              lastFed, decided, polling, fed, counted, raised>>

PairCams == {1, 2}
Instant(cam, i) == i * Interval + (IF cam = 2 THEN Skew ELSE 0)

PairInit ==
    /\ lost \in {s \in SUBSET (PairCams \X Shots) : Cardinality(s) <= MaxLost}
    /\ pairDir \in BOOLEAN
    /\ dir = [c \in PairCams |-> {}] /\ pending = dir /\ seen = dir
    /\ queue = <<>> /\ age = [i \in Shots |-> 0]
    /\ ready2 = {} /\ history = <<>>
    /\ lastFed = 0 /\ decided = "none" /\ polling = FALSE
    /\ fed = <<>> /\ counted = {} /\ raised = <<>>

\* A file is pulled: a little out of order, and the cameras independently.
Arrives(cam, i) ==
    /\ ~polling
    /\ cam = 2 => pairDir
    /\ i \notin dir[cam] /\ <<cam, i>> \notin lost
    /\ \A j \in Shots : j < i - 1 => j \in dir[cam] \/ <<cam, j>> \in lost
    /\ dir' = [dir EXCEPT ![cam] = @ \cup {i}]
    /\ UNCHANGED <<lost, pairDir, pending, seen, queue, age, ready2, history,
                   lastFed, decided, polling, fed, counted, raised>>

-----------------------------------------------------------------------------
(***************************************************************************)
(* _poll()                                                                 *)
(***************************************************************************)
\* _scan_cam(): ready is what a second listing finds unchanged.
Ready(cam) == dir[cam] \cap pending[cam]
Wants2 == pairDir /\ decided # "mono"

RecentShots == ToSet(history)
Newest(frames) ==
    IF Len(frames) <= Lately THEN frames
    ELSE SubSeq(frames, Len(frames) - Lately + 1, Len(frames))

\* _tol(): half the median gap, so the next frame never qualifies.  The median
\* is the least gap that more than half of them do not exceed.
GapsOf(known) ==
    [i \in {i \in known : \E j \in known : i < j} |->
        Instant(1, Min({j \in known : i < j})) - Instant(1, i)]
UpTo(gaps, i) == {k \in DOMAIN gaps : gaps[k] <= gaps[i]}
Median(gaps) ==
    Min({gaps[i] : i \in {i \in DOMAIN gaps :
            2 * Cardinality(UpTo(gaps, i)) > Cardinality(DOMAIN gaps)}})
MutantFullGap(known) ==
    IF DOMAIN GapsOf(known) = {} THEN FirstTol ELSE Median(GapsOf(known))
Tol(known) ==
    IF DOMAIN GapsOf(known) = {} THEN FirstTol ELSE Median(GapsOf(known)) \div 2

\* History: these frames have no gap.
Steady(known) == \A i \in DOMAIN GapsOf(known) : GapsOf(known)[i] = Interval

Between(a, b) == IF a < b THEN b - a ELSE a - b
Halves(i, tol) == {j \in ready2 : Between(Instant(2, j), Instant(1, i)) <= tol}

\* _decide(): stereo when more than half of what is queued has a partner.
Decision(q, halves, tol) ==
    LET paired == {k \in 1..Len(q) :
                    \E j \in halves : Between(Instant(2, j), Instant(1, q[k])) <= tol}
    IN  IF decided # "none" THEN decided
        ELSE IF ~pairDir THEN IF q = <<>> THEN "none" ELSE "mono"
        ELSE IF Len(q) < Enough THEN "none"
        ELSE IF 2 * Cardinality(paired) > Len(q) THEN "stereo" ELSE "mono"

\* The members of a set as a sorted list.
Ascending(S) ==
    CHOOSE s \in [1..Cardinality(S) -> S] :
        ToSet(s) = S /\ \A i, j \in DOMAIN s : i < j => s[i] < s[j]

\* One listing of both directories, and the decision.
Scan ==
    LET new1 == Ready(1) \ seen[1]
        late == {i \in new1 : i <= lastFed}
        new2 == IF Wants2 THEN Ready(2) \ seen[2] ELSE {}
    IN
    /\ ~polling
    /\ pending' = [c \in PairCams |-> IF c = 1 \/ Wants2 THEN dir[c] ELSE pending[c]]
    /\ seen' = [seen EXCEPT ![1] = @ \cup new1, ![2] = @ \cup new2]
    /\ counted' = counted \cup late
    /\ queue' = Ascending(ToSet(queue) \cup (new1 \ late))
    /\ history' = Newest(history \o Ascending(new1 \ late))
    /\ age' = [i \in Shots |-> IF i \notin ToSet(queue) THEN 0
                               ELSE IF age[i] < Grace THEN age[i] + 1 ELSE Grace]
    /\ ready2' = ready2 \cup new2
    /\ decided' = Decision(queue', ready2', Tol(RecentShots'))
    /\ polling' = (decided' # "none" /\ queue' # <<>>)
    /\ UNCHANGED <<lost, pairDir, dir, lastFed, fed, raised>>

\* The partner is the nearest half in tolerance; without one the frame is held
\* for its grace, and what comes after it too.
Partner(i) ==
    LET near == Halves(i, Tol(RecentShots)) IN
    IF near = {} THEN 0
    ELSE CHOOSE j \in near :
            \A k \in near : Between(Instant(2, j), Instant(1, i))
                                <= Between(Instant(2, k), Instant(1, i))
MutantAlwaysWaits(i) == Partner(i) = 0
Waits(i) == Partner(i) = 0 /\ age[i] < Grace

FeedStereo(raises) ==
    LET i == Head(queue)
        j == Partner(i)
    IN
    /\ polling /\ queue # <<>> /\ decided = "stereo"
    /\ ~Waits(i)
    /\ raises => Len(raised) < MaxRaises
    /\ IF raises
       THEN /\ raised' = Append(raised, i)
            /\ UNCHANGED <<fed, lastFed>>
       ELSE /\ fed' = Append(fed, <<i, j, Steady(RecentShots)>>)
            /\ lastFed' = i
            /\ UNCHANGED raised
    /\ queue' = Tail(queue)
    /\ ready2' = (ready2 \ {j}) \
            (IF raises THEN {}
             ELSE {k \in ready2 : Instant(2, k) < Instant(1, i) - Tol(RecentShots)})
    /\ polling' = (queue' # <<>> /\ ~raises)
    /\ UNCHANGED <<lost, pairDir, dir, pending, seen, age, history, decided,
                   counted>>

\* Mono: the whole queue at once, and it is cleared at the end only; a feed
\* that raises leaves what was fed before it in the queue.
FeedMono(n) ==
    /\ polling /\ decided = "mono"
    /\ n \in 0..Len(queue)
    /\ fed' = fed \o [k \in 1..n |-> <<queue[k], 0, FALSE>>]
    /\ lastFed' = IF n = 0 THEN lastFed ELSE queue[n]
    /\ IF n = Len(queue)
       THEN /\ queue' = <<>>
            /\ UNCHANGED raised
       ELSE /\ Len(raised) < MaxRaises
            /\ raised' = Append(raised, queue[n + 1])
            /\ UNCHANGED queue
    /\ polling' = FALSE
    /\ UNCHANGED <<lost, pairDir, dir, pending, seen, age, ready2, history,
                   decided, counted>>

HoldsBack ==
    /\ polling /\ queue # <<>>
    /\ decided = "stereo" /\ Waits(Head(queue))
    /\ polling' = FALSE
    /\ UNCHANGED <<lost, pairDir, dir, pending, seen, queue, age, ready2, history,
                   lastFed, decided, fed, counted, raised>>

Poll ==
    \/ Scan \/ HoldsBack
    \/ \E raises \in BOOLEAN : FeedStereo(raises)
    \/ \E n \in 0..Cardinality(Shots) : FeedMono(n)

PairNext ==
    \/ \E cam \in PairCams, i \in Shots : Arrives(cam, i)
    \/ Poll

PairSpec == PairInit /\ [][PairNext]_pairVars
FairPairSpec == PairSpec /\ WF_pairVars(Poll)

-----------------------------------------------------------------------------
(***************************************************************************)
(* Properties.                                                             *)
(***************************************************************************)
\* The engine is given frames in the order of their instants, each once, as
\* long as no feed of a mono chain raised.
FedInOrder ==
    (decided = "mono" => raised = <<>>) =>
        \A k \in 1..Len(fed) - 1 : fed[k][1] < fed[k + 1][1]

\* A pair is one fire, whichever halves are missing or late, as long as the
\* first camera's frames show their cadence (_tol, _poll).
PairsAreOneFire ==
    \A k \in 1..Len(fed) : fed[k][3] => fed[k][2] \in {0, fed[k][1]}

\* A frame that was ready is queued, fed, counted, or its feed raised.
FramesAreAccounted ==
    seen[1] = ToSet(queue) \cup {fed[k][1] : k \in 1..Len(fed)}
                \cup counted \cup ToSet(raised)

FeedIsHonest == FedInOrder /\ PairsAreOneFire /\ FramesAreAccounted

\* Once the mode is decided no frame is held for ever (the grace period).
FramesGetFed ==
    \A i \in Shots :
        decided # "none" /\ i \in dir[1]
            ~> i \in counted \cup ToSet(raised) \cup {fed[k][1] : k \in 1..Len(fed)}
=============================================================================
