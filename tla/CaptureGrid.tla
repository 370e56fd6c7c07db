---------------------------- MODULE CaptureGrid ----------------------------
(***************************************************************************)
(* The capture grid of one run (rig/run.py, class RunManager): the loop    *)
(* that fires every member at shared instants, the verdict on each shot,   *)
(* the pause after DeadAfter failed fires of one member, and the probe     *)
(* fires, with backoff, that end the pause.                                *)
(*                                                                         *)
(* Shots run on threads of their own and are judged when their last member *)
(* has answered, so verdicts come out of order.  A fire answered ok means  *)
(* the trigger line was pulsed; only a frame proves an exposure.  Members  *)
(* are numbered as they entered `fail_streak`.                             *)
(***************************************************************************)
EXTENDS Naturals, FiniteSets, FiniteSetsExt

CONSTANTS
    NNodes,     \* run members
    Frames,     \* the run's frame budget, config["frames"]
    DeadAfter,  \* failed fires in a row that pause the grid: 3
    MaxLevel,   \* doublings from the least to the longest backoff
    MaxFlight,  \* bound: shots whose fires have neither answered nor timed out
    MaxFaults   \* bound: nodes or bodies lost, answers lost, frames late,
                \* holds expired and switches, together

ASSUME GridAssumption ==
    /\ NNodes \in Nat \ {0} /\ Frames \in Nat /\ DeadAfter \in Nat \ {0}
    /\ MaxLevel \in Nat /\ MaxFlight \in Nat \ {0} /\ MaxFaults \in Nat

Nodes == 1 .. NNodes
None == 0

VARIABLES
    body,       \* members whose camera body can expose
    pi,         \* members whose Pi answers
    on,         \* members the operator has not switched off
    snap,       \* per member: what its monitor last saw
    budget,     \* faults left
    shots,      \* shots in flight
    streak,     \* run["fail_streak"]
    lonely,     \* per member: shots of others alone since it last answered or
                \* was last switched
    pause,      \* run["paused_for"]
    last,       \* run["last_resume"]
    loop,       \* where the capture loop is
    k,          \* shots fired
    stop,       \* the run's cap_stop
    quiet,      \* members in _cal_busy: the puller stays off
    probe,      \* locals of _probe_fire
    frame       \* the frame of a probe fire: whose, where, and if reported

env   == <<body, pi, on, budget>>
run   == <<streak, lonely, pause, last>>
probing == <<quiet, probe, frame>>
vars == <<env, snap, shots, run, loop, k, stop, probing>>

NoFrame == [node |-> None, at |-> "none", told |-> FALSE]
NoProbe == [fired |-> FALSE, ok |-> FALSE]

-----------------------------------------------------------------------------
(***************************************************************************)
(* The nodes, and what their monitors see.                                 *)
(***************************************************************************)
Lose(n) ==
    /\ budget > 0
    /\ \/ body' = body \ {n} /\ UNCHANGED pi
       \/ pi' = pi \ {n} /\ UNCHANGED body
    /\ <<body', pi'>> # <<body, pi>>
    /\ budget' = budget - 1
    /\ UNCHANGED <<on, snap, shots, run, loop, k, stop, probing>>

Mend(n) ==
    /\ n \notin body \intersect pi
    /\ body' = body \union {n} /\ pi' = pi \union {n}
    /\ UNCHANGED <<on, budget, snap, shots, run, loop, k, stop, probing>>

Switch(n) ==
    /\ budget > 0
    /\ on' = IF n \in on THEN on \ {n} ELSE on \union {n}
    /\ budget' = budget - 1
    /\ lonely' = [lonely EXCEPT ![n] = 0]
    /\ UNCHANGED <<body, pi, snap, shots, streak, pause, last, loop, k, stop,
                   probing>>

\* A monitor's poll: `seen` says last_seen is newer than the pause.
Poll(n) ==
    /\ snap' = [snap EXCEPT ![n] =
            [health |-> n \in pi, conn |-> n \in body \intersect pi,
             seen |-> @.seen \/ n \in pi]]
    /\ snap' # snap
    /\ UNCHANGED <<env, shots, run, loop, k, stop, probing>>

-----------------------------------------------------------------------------
(***************************************************************************)
(* One shot.                                                               *)
(***************************************************************************)
\* A seeded fault of ShotOf: who cannot be reached has not failed.
MutantAbsentUnjudged ==
    LET live == {n \in on : snap[n].conn}
    IN  [no |-> k + 1, roster |-> on, wait |-> live, ok |-> {}, bad |-> {}]

\* Members that are not connected are failed fires without being contacted;
\* members switched off are not part of the shot.
ShotOf ==
    LET live == {n \in on : snap[n].conn}
    IN  [no |-> k + 1, roster |-> on, wait |-> live, ok |-> {},
         bad |-> on \ live]

\* The members that were contacted pulse and answer, or do not.
Answer(s) ==
    /\ s.wait # {}
    /\ shots' = (shots \ {s}) \union
            {[s EXCEPT !.wait = {}, !.ok = s.wait \intersect pi,
                       !.bad = @ \union (s.wait \ pi)]}
    /\ UNCHANGED <<env, snap, run, loop, k, stop, probing>>

Streaks(s) ==
    [n \in Nodes |-> IF n \in s.ok THEN 0
                     ELSE IF n \in s.bad THEN streak[n] + 1 ELSE streak[n]]

Judge(s) ==
    /\ s.wait = {}
    /\ shots' = shots \ {s}
    /\ streak' = Streaks(s)
    /\ lonely' = [n \in Nodes |->
            IF n \in s.ok THEN 0
            ELSE IF n \in s.roster /\ s.ok # {} THEN lonely[n] + 1 ELSE lonely[n]]
    /\ UNCHANGED <<env, snap, pause, last, loop, k, stop, probing>>

-----------------------------------------------------------------------------
(***************************************************************************)
(* The loop.                                                               *)
(***************************************************************************)
DeadNodes == {n \in on : streak[n] >= DeadAfter}
DeadNode == Min(DeadNodes)

LoopOver == stop \/ k >= Frames

LoopEnds ==
    /\ (loop = "top" /\ LoopOver) \/ (loop = "wake" /\ stop)
    /\ loop' = "ended"
    /\ UNCHANGED <<env, snap, shots, run, k, stop, probing>>

\* A member that resumed a moment ago starts at twice its last backoff.
FirstLevel(n) ==
    IF last.node = n /\ last.recent THEN Min({last.level + 1, MaxLevel}) ELSE 0

Pauses ==
    /\ loop = "top" /\ ~LoopOver /\ DeadNodes # {}
    /\ pause.node # DeadNode
    /\ pause' = [node |-> DeadNode, level |-> FirstLevel(DeadNode), due |-> FALSE]
    /\ snap' = [snap EXCEPT ![DeadNode].seen = FALSE]
    /\ UNCHANGED <<env, shots, streak, lonely, last, loop, k, stop, probing>>

\* A frame that came too late for the last probe lands and is pulled before
\* the next: the backoff after a failed probe is 4 s or more.
BackoffOver ==
    /\ pause.node # None /\ ~pause.due
    /\ frame.at \in {"coming", "spool"} => frame.node # pause.node
    /\ pause' = [pause EXCEPT !.due = TRUE]
    /\ UNCHANGED <<env, snap, shots, streak, lonely, last, loop, k, stop, probing>>

ResumeAges ==
    /\ last.recent
    /\ last' = [last EXCEPT !.recent = FALSE]
    /\ UNCHANGED <<env, snap, shots, streak, lonely, pause, loop, k, stop, probing>>

\* The member answers its health poll, was seen since the pause, and its body
\* is connected; and the backoff is over.
MayProbe ==
    /\ pause.node # None /\ pause.due
    /\ LET s == snap[pause.node] IN s.health /\ s.seen /\ s.conn

ProbeBegins ==
    /\ loop = "top" /\ ~LoopOver /\ DeadNodes # {}
    /\ pause.node = DeadNode /\ MayProbe
    /\ loop' = "list"
    /\ quiet' = quiet \union {pause.node}
    /\ probe' = NoProbe
    /\ UNCHANGED <<env, snap, shots, run, k, stop, frame>>

\* Nobody is dead: a pause that is still on ends here, and the loop waits for
\* the lead of the next instant.
Aims ==
    /\ loop = "top" /\ ~LoopOver /\ DeadNodes = {}
    /\ pause' = [node |-> None, level |-> 0, due |-> FALSE]
    /\ loop' = "wake"
    /\ UNCHANGED <<env, snap, shots, streak, lonely, last, k, stop, probing>>

Fires ==
    /\ loop = "wake" /\ ~stop
    /\ Cardinality(shots) < MaxFlight
    /\ shots' = IF on = {} THEN shots ELSE shots \union {ShotOf}
    /\ k' = k + 1
    /\ loop' = "top"
    /\ UNCHANGED <<env, snap, run, stop, probing>>

StopGrid ==
    /\ ~stop /\ stop' = TRUE
    /\ UNCHANGED <<env, snap, shots, run, loop, k, probing>>

-----------------------------------------------------------------------------
(***************************************************************************)
(* _probe_fire: hold the puller off, list, fire the member alone, wait for *)
(* the frame and name it as a calibration exposure.                        *)
(***************************************************************************)
Me == pause.node
InSpool(n) == frame.node = n /\ frame.at = "spool"

\* A seeded fault of Verdict: the member that passed is not forgiven.
MutantStreakStays(n, passed) ==
    /\ quiet' = quiet \ {n} /\ probe' = NoProbe
    /\ loop' = "top"
    /\ pause' = IF passed THEN [node |-> None, level |-> 0, due |-> FALSE]
                ELSE [pause EXCEPT !.due = FALSE]
    /\ UNCHANGED <<streak, lonely, last>>

\* The verdict: a member that failed its probe is probed again at twice the
\* backoff; one that passed is forgiven.
Verdict(n, passed) ==
    /\ quiet' = quiet \ {n} /\ probe' = NoProbe
    /\ loop' = "top"
    /\ IF passed
       THEN /\ streak' = [streak EXCEPT ![n] = 0]
            /\ lonely' = [lonely EXCEPT ![n] = 0]
            /\ last' = [node |-> n, level |-> pause.level, recent |-> TRUE]
            /\ pause' = [node |-> None, level |-> 0, due |-> FALSE]
       ELSE /\ pause' = [pause EXCEPT !.level = Min({@ + 1, MaxLevel}),
                                      !.due = FALSE]
            /\ UNCHANGED <<streak, lonely, last>>

ProbeLists ==
    /\ loop = "list" /\ Me \in pi
    /\ loop' = "fire"
    /\ UNCHANGED <<env, snap, shots, run, k, stop, probing>>

\* Without a before-listing the probe does not fire.
ProbeUnlisted ==
    /\ loop = "list" /\ Me \notin pi
    /\ Verdict(Me, FALSE)
    /\ UNCHANGED <<env, snap, shots, k, stop, frame>>

\* The pulse: a body that can expose has a frame on its way.
Exposed ==
    frame' = IF Me \in body
             THEN [node |-> Me, at |-> "coming", told |-> FALSE] ELSE NoFrame

\* A seeded fault of ProbeAbandoned: no answer is no fire.
MutantAbandonedMeansUnfired ==
    /\ loop = "fire" /\ Me \in pi /\ budget > 0
    /\ Exposed
    /\ budget' = budget - 1
    /\ Verdict(Me, FALSE)
    /\ UNCHANGED <<body, pi, on, snap, shots, k, stop>>

\* The answer was lost by a timeout: it may have fired, so its frame is still
\* waited for, but the probe has not passed.
ProbeAbandoned ==
    /\ loop = "fire" /\ Me \in pi /\ budget > 0
    /\ Exposed
    /\ budget' = budget - 1
    /\ probe' = [fired |-> TRUE, ok |-> FALSE]
    /\ loop' = "name"
    /\ UNCHANGED <<body, pi, on, snap, shots, run, k, stop, quiet>>

ProbeAccepted ==
    /\ loop = "fire" /\ Me \in pi
    /\ Exposed
    /\ probe' = [fired |-> TRUE, ok |-> TRUE]
    /\ loop' = "name"
    /\ UNCHANGED <<env, snap, shots, run, k, stop, quiet>>

\* The Pi refuses, or is not there at all: nothing was exposed.
ProbeRefused ==
    /\ loop = "fire" /\ Me \notin pi
    /\ Verdict(Me, FALSE)
    /\ UNCHANGED <<env, snap, shots, k, stop, frame>>

\* An after-listing shows something new.  One release is named; it is kept
\* out of the transect, and it is the proof.
ProbeNames ==
    /\ loop = "name" /\ Me \in pi /\ InSpool(Me)
    /\ frame' = NoFrame
    /\ Verdict(Me, probe.ok)
    /\ UNCHANGED <<env, snap, shots, k, stop>>

\* A pass that shows nothing new renews the hold.
ProbeHolds ==
    /\ loop = "name" /\ Me \notin quiet
    /\ quiet' = quiet \union {Me}
    /\ UNCHANGED <<env, snap, shots, run, loop, k, stop, probe, frame>>

\* A seeded fault of ProbeGivesUp: the pulse is taken for the proof.
MutantPulseIsProof ==
    /\ loop = "name"
    /\ frame.at = "coming" => budget > 0
    /\ Me \in pi => ~InSpool(Me)
    /\ frame' = [frame EXCEPT !.told = @ \/ frame.node = Me]
    /\ Verdict(Me, probe.ok)
    /\ budget' = IF frame.at = "coming" THEN budget - 1 ELSE budget
    /\ UNCHANGED <<body, pi, on, snap, shots, k, stop>>

\* CAL_QUIET_S is over, or the listing stopped answering: the probe failed,
\* and a frame it may have made is reported as unaccounted for.  A frame that
\* takes longer than the wait is a fault.
ProbeGivesUp ==
    /\ loop = "name"
    /\ frame.at = "coming" => budget > 0
    /\ Me \in pi => ~InSpool(Me)
    /\ frame' = [frame EXCEPT !.told = @ \/ frame.node = Me]
    /\ Verdict(Me, FALSE)
    /\ budget' = IF frame.at = "coming" THEN budget - 1 ELSE budget
    /\ UNCHANGED <<body, pi, on, snap, shots, k, stop>>

\* The hold is an absolute expiry: listing and fire may outlast it.
HoldExpires(n) ==
    /\ n \in quiet /\ loop \in {"list", "fire", "name"} /\ budget > 0
    /\ budget' = budget - 1
    /\ quiet' = quiet \ {n}
    /\ UNCHANGED <<body, pi, on, snap, shots, run, loop, k, stop, probe, frame>>

FrameLands ==
    /\ frame.at = "coming"
    /\ frame' = [frame EXCEPT !.at = "spool"]
    /\ UNCHANGED <<env, snap, shots, run, loop, k, stop, quiet, probe>>

\* The pull worker, whenever it is not held off, takes what is in the spool.
\* What it takes is in the transect as survey data.
Pulls ==
    /\ frame.at = "spool" /\ frame.node \notin quiet
    /\ frame' = [frame EXCEPT !.at = "pulled"]
    /\ UNCHANGED <<env, snap, shots, run, loop, k, stop, quiet, probe>>

-----------------------------------------------------------------------------
Init ==
    /\ body = Nodes /\ pi = Nodes /\ on = Nodes
    /\ snap = [n \in Nodes |-> [health |-> TRUE, conn |-> TRUE, seen |-> TRUE]]
    /\ budget = MaxFaults
    /\ shots = {} /\ k = 0 /\ loop = "top" /\ stop = FALSE
    /\ streak = [n \in Nodes |-> 0] /\ lonely = [n \in Nodes |-> 0]
    /\ pause = [node |-> None, level |-> 0, due |-> FALSE]
    /\ last = [node |-> None, level |-> 0, recent |-> FALSE]
    /\ quiet = {} /\ probe = NoProbe
    /\ frame = NoFrame

ShotNext == \E s \in shots : Answer(s) \/ Judge(s)

ProbeNext ==
    \/ ProbeLists \/ ProbeUnlisted \/ ProbeRefused \/ ProbeGivesUp \/ ProbeHolds
    \/ ProbeAccepted \/ ProbeAbandoned \/ ProbeNames

LoopNext == LoopEnds \/ Pauses \/ ProbeBegins \/ Aims \/ Fires \/ ProbeNext

EnvNext ==
    \/ \E n \in Nodes : Lose(n) \/ Mend(n) \/ Switch(n) \/ Poll(n) \/ HoldExpires(n)
    \/ FrameLands \/ Pulls \/ BackoffOver \/ ResumeAges \/ StopGrid

Next == ShotNext \/ LoopNext \/ EnvNext

Spec == Init /\ [][Next]_vars

\* Threads run, fires answer or time out, monitors poll, backoffs run out and
\* frames land; faults, repairs, switches and the stop are up to the world.
Fairness ==
    /\ WF_vars(ShotNext) /\ WF_vars(LoopNext) /\ WF_vars(BackoffOver)
    /\ WF_vars(FrameLands) /\ WF_vars(Pulls)
    /\ \A n \in Nodes : WF_vars(Poll(n))

FairSpec == Spec /\ Fairness

-----------------------------------------------------------------------------

\* A member that stopped answering does not leave the others shooting alone:
\* the shots they fired without it are bounded by the streak that pauses the
\* grid and by what was in flight then (_judge_shot, _start_capture_loop; the
\* transect of 28 single-camera shots the comment at run.py:2689 tells of).  A
\* member that is switched on while the loop waits for the next instant is
\* counted afresh: its streak is looked at after that shot.
LonelyShotsBounded == \A n \in Nodes : lonely[n] <= DeadAfter + MaxFlight

\* The frame of a probe is named, or somebody was told that it was not: it
\* never enters the transect silently (_probe_fire, _name_probe_frame).
ProbeFrameAccounted ==
    frame.at # "none" => frame.told \/ (loop = "name" /\ frame.node = Me)

\* A resume by probe has seen a frame come out of that body: the grid does
\* not resume on a pulse, or on a health answer, alone.
ResumedByFrame ==
    [][\A n \in Nodes : (last' # last /\ last'.node = n /\ last'.recent)
            => InSpool(n)]_vars

\* Once every member is well for good, the transect is completed: no pause, no
\* backoff and no probe holds the grid for ever.
TransectCompletes == <>[](body = Nodes /\ pi = Nodes) => <>(loop = "ended")
=============================================================================
