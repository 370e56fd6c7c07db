---------------------------- MODULE RunLifecycle ----------------------------
(***************************************************************************)
(* Starting, stopping and draining (rig/run.py, class RunManager; rig/     *)
(* rigd.py, the POST handlers, start_drain and the static-fix latch).      *)
(*                                                                         *)
(* rigd answers every HTTP request on a thread of its own.  A start probes *)
(* the bodies between two holds of the run lock; a stop signals under the  *)
(* lock, waits outside it and finalises under it again; a stop may hand    *)
(* over to a card drain; a housekeeping tick and an adopting thread come   *)
(* in between.  A run is named by the start request that created it, and   *)
(* so is the token of a latched static-fix decision.                       *)
(***************************************************************************)
EXTENDS Integers, FiniteSets

CONSTANTS
    Starts,     \* POST /api/run/start requests
    Stops,      \* POST /api/run/stop requests
    Nodes,      \* cameras
    NoRun,      \* no run, and no request
    Patient     \* TRUE: a stop is sent when no other stop, nor the start it
                \* is meant for, is waiting for its answer

ASSUME LifeAssumption ==
    /\ NoRun \notin Starts /\ Patient \in BOOLEAN
    /\ Starts \intersect {"none", "calibrating", "awake", "ended"} = {}

VARIABLES
    active,     \* self.active: the run that is recording
    latest,     \* the run whose events are in _cap_stop and _adopt_stop
    workers,    \* self.workers, <<run, node>>
    pull,       \* per run and node: its pull worker, and if it was told to stop
    signalled,  \* runs whose _cap_stop and _adopt_stop are set
    grid,       \* per run: its calibration thread; a run: the capture loop it
                \* armed fires until that run's _cap_stop is set
    adopt,      \* per run: its adopting thread; a run: it waits on its event
    starting,   \* per start request: where its handler is
    stopping,   \* per stop request: where its handler is
    snap,       \* per stop request: the workers it is waiting for
    stopped,    \* per stop request: the run it finalised
    draining,   \* runmgr.draining
    drainer,    \* the drain thread and _drain_status
    latch,      \* the static-fix decision: who took it, whose it is
    tokens,     \* start requests that hold a token for a decision
    tick,       \* _nav_time_loop: waiting, or about to use a status it read
    born        \* runs created so far

runVars   == <<active, latest, workers, pull, signalled, born>>
gridVars  == <<grid, adopt>>
startVars == <<starting, tokens>>
stopVars  == <<stopping, snap, stopped>>
drainVars == <<draining, drainer>>
navVars   == <<latch, tick>>
vars == <<runVars, gridVars, startVars, stopVars, drainVars, navVars>>

Runs == Starts \union {NoRun}
Threads == Starts \X Nodes

-----------------------------------------------------------------------------
(***************************************************************************)
(* StaticFixNav: the latched decision.  A start in flight answers within   *)
(* START_GRACE_S.  `at` is history: the runs there had been when a run was *)
(* last created, or the decision taken, with its start still in flight.    *)
(***************************************************************************)
NoLatch(gen) == [held |-> FALSE, gen |-> gen, run |-> NoRun,
                 pending |-> FALSE, at |-> 0]

Cleared == NoLatch(latch.gen)

\* History: the start that took the decision still stands for it.
InFlight(s) == s # NoRun /\ starting[s] \in {"check", "probe", "bind", "refused"}
Seen == IF latch.held /\ latch.run = NoRun /\ InFlight(latch.gen)
        THEN [latch EXCEPT !.at = born] ELSE latch

\* The decision is owned by the run that is recording, or by a start in flight.
Spoken == \/ latch.run # NoRun /\ latch.run = active
          \/ latch.run = NoRun /\ latch.pending

\* A seeded fault of CanBind.
MutantBindsAny(r, tok) ==
    /\ r # NoRun /\ latch.held
    /\ tok # NoRun => tok = latch.gen

CanBind(r, tok) ==
    /\ r # NoRun /\ latch.held
    /\ tok # NoRun => tok = latch.gen
    /\ latch.run \in {NoRun, r}
Bind(r) == latch' = [held |-> latch.held, gen |-> latch.gen, run |-> r,
                     pending |-> FALSE, at |-> latch.at]

\* end_run(token=...): a start that was refused.
CanRelease(tok) ==
    tok # NoRun /\ latch.held /\ tok = latch.gen /\ latch.run = NoRun

\* end_run(run_id): a stop, or, with no run, the tick.
CanEnd(r) ==
    /\ latch.held
    /\ IF latch.run # NoRun THEN r \in {NoRun, latch.run} ELSE ~latch.pending
EndRun(r) == latch' = IF CanEnd(r) THEN Cleared ELSE latch

-----------------------------------------------------------------------------
(***************************************************************************)
(* POST /api/run/start.                                                    *)
(***************************************************************************)
\* begin_run_nav(): a token, unless the decision is spoken for.
BeginNav(s) ==
    /\ starting[s] = "new"
    /\ starting' = [starting EXCEPT ![s] = "check"]
    /\ IF Spoken THEN UNCHANGED <<latch, tokens>>
       ELSE /\ latch' = [held |-> TRUE, gen |-> s, run |-> NoRun,
                         pending |-> TRUE, at |-> born]
            /\ tokens' = tokens \union {s}
    /\ UNCHANGED <<runVars, gridVars, stopVars, drainVars, tick>>

Refused == active # NoRun \/ draining

\* The first hold of the run lock; the bodies are probed outside it.
StartCheck(s) ==
    /\ starting[s] = "check"
    /\ starting' = [starting EXCEPT ![s] = IF Refused THEN "refused"
                                                      ELSE "probe"]
    /\ UNCHANGED <<runVars, gridVars, tokens, stopVars, drainVars, navVars>>

\* Refused under the second hold, or a body is stuck in transfer mode.
StartRefused(s) ==
    /\ starting[s] = "probe"
    /\ starting' = [starting EXCEPT ![s] = "refused"]
    /\ UNCHANGED <<runVars, gridVars, tokens, stopVars, drainVars, navVars>>

\* The second hold: the run, its workers, its calibration and its adopter.
CreateRun(s) ==
    /\ active' = s /\ latest' = s /\ born' = born + 1
    /\ \E live \in SUBSET Nodes :
          /\ workers' = {s} \X live
          /\ pull' = [t \in Threads |-> IF t \in {s} \X live THEN "pulling"
                                                             ELSE pull[t]]
    /\ grid' = [grid EXCEPT ![s] = "calibrating"]
    /\ adopt' = [adopt EXCEPT ![s] = s]
    /\ starting' = [starting EXCEPT ![s] = "bind"]
    /\ latch' = Seen
    /\ UNCHANGED <<signalled, tokens, stopVars, drainVars, tick>>

\* A seeded fault of StartRun.
MutantStartUnchecked(s) ==
    /\ starting[s] = "probe"
    /\ CreateRun(s)

StartRun(s) ==
    /\ starting[s] = "probe" /\ ~Refused
    /\ CreateRun(s)

TokenOf(s) == IF s \in tokens THEN s ELSE NoRun

\* bind_run_nav(); a start that could not bind releases its token.
BindNav(s) ==
    /\ starting[s] = "bind"
    /\ IF CanBind(s, TokenOf(s))
       THEN Bind(s) /\ starting' = [starting EXCEPT ![s] = "done"]
       ELSE UNCHANGED latch /\ starting' = [starting EXCEPT ![s] = "refused"]
    /\ UNCHANGED <<runVars, gridVars, tokens, stopVars, drainVars, tick>>

\* A seeded fault of ReleaseNav.
MutantTokenLeaks(s) ==
    /\ starting[s] = "refused"
    /\ starting' = [starting EXCEPT ![s] = "done"]
    /\ UNCHANGED <<runVars, gridVars, tokens, stopVars, drainVars, navVars>>

ReleaseNav(s) ==
    /\ starting[s] = "refused"
    /\ starting' = [starting EXCEPT ![s] = "done"]
    /\ latch' = IF CanRelease(TokenOf(s)) THEN Cleared ELSE latch
    /\ UNCHANGED <<runVars, gridVars, tokens, stopVars, drainVars, tick>>

-----------------------------------------------------------------------------
(***************************************************************************)
(* The threads of a run.                                                   *)
(***************************************************************************)

\* A seeded fault of ArmGrid.
MutantArmsAnyRun(r) ==
    /\ grid[r] = "calibrating"
    /\ grid' = [grid EXCEPT ![r] =
                  IF active # NoRun /\ active \notin signalled THEN active
                                                               ELSE "ended"]
    /\ UNCHANGED <<runVars, adopt, startVars, stopVars, drainVars, navVars>>

\* Calibration is over; the grid is armed for the run it was started for.
ArmGrid(r) ==
    /\ grid[r] = "calibrating"
    /\ grid' = [grid EXCEPT ![r] =
                  IF active = r /\ r \notin signalled THEN active
                                                      ELSE "ended"]
    /\ UNCHANGED <<runVars, adopt, startVars, stopVars, drainVars, navVars>>

\* Told to stop, or out of its frame budget.
GridEnds(r) ==
    /\ grid[r] \in Starts
    /\ grid' = [grid EXCEPT ![r] = "ended"]
    /\ UNCHANGED <<runVars, adopt, startVars, stopVars, drainVars, navVars>>

\* _adopt_loop(): 3 s are over, or the event it waits on is set.
AdoptWakes(r) ==
    /\ adopt[r] \in Starts
    /\ adopt' = [adopt EXCEPT ![r] = IF adopt[r] \in signalled THEN "ended"
                                                               ELSE "awake"]
    /\ UNCHANGED <<runVars, grid, startVars, stopVars, drainVars, navVars>>

\* Under the run lock: every camera that is up and has no worker gets one.  It
\* then waits again, on whatever event _adopt_stop is by now.
AdoptJoins(r) ==
    /\ adopt[r] = "awake" /\ active # NoRun
    /\ adopt' = [adopt EXCEPT ![r] = latest]
    /\ \E up \in SUBSET Nodes :
          LET joins == ({active} \X up) \ workers IN
          /\ workers' = workers \union joins
          /\ pull' = [t \in Threads |-> IF t \in joins THEN "pulling"
                                                       ELSE pull[t]]
    /\ UNCHANGED <<active, latest, signalled, born, grid, startVars, stopVars,
                   drainVars, navVars>>

AdoptLeaves(r) ==
    /\ adopt[r] = "awake" /\ active = NoRun
    /\ adopt' = [adopt EXCEPT ![r] = "ended"]
    /\ UNCHANGED <<runVars, grid, startVars, stopVars, drainVars, navVars>>

-----------------------------------------------------------------------------
(***************************************************************************)
(* POST /api/run/stop.                                                     *)
(***************************************************************************)
Waiting == {p \in Stops : stopping[p] \in {"join", "grace", "told"}}

StopAllowed == Patient => Waiting = {} /\ starting[active] = "done"

\* The first hold: the capture grid and the adopter are signalled.
StopSignals(p) ==
    /\ stopping[p] = "new" /\ active # NoRun /\ StopAllowed
    /\ signalled' = signalled \union {active}
    /\ stopping' = [stopping EXCEPT ![p] = "join"]
    /\ UNCHANGED <<active, latest, workers, pull, born, gridVars, startVars,
                   snap, stopped, drainVars, navVars>>

StopRefused(p) ==
    /\ stopping[p] = "new" /\ active = NoRun
    /\ stopping' = [stopping EXCEPT ![p] = "nav"]
    /\ UNCHANGED <<runVars, gridVars, startVars, snap, stopped, drainVars,
                   navVars>>

\* The capture loop was joined, or 6 s are over.  The second hold reads
\* self.active.get("fired"): with no run left the handler raises.
StopSnapshots(p) ==
    /\ stopping[p] = "join"
    /\ IF active = NoRun
       THEN stopping' = [stopping EXCEPT ![p] = "done"] /\ UNCHANGED snap
       ELSE /\ stopping' = [stopping EXCEPT ![p] = "grace"]
            /\ snap' = [snap EXCEPT ![p] = workers]
    /\ UNCHANGED <<runVars, gridVars, startVars, stopped, drainVars, navVars>>

\* The fired frames landed, or their 6 s are over.
StopTellsWorkers(p) ==
    /\ stopping[p] = "grace"
    /\ pull' = [t \in Threads |-> IF t \in snap[p] /\ pull[t] = "pulling"
                                  THEN "told" ELSE pull[t]]
    /\ stopping' = [stopping EXCEPT ![p] = "told"]
    /\ UNCHANGED <<active, latest, workers, signalled, born, gridVars,
                   startVars, snap, stopped, drainVars, navVars>>

\* The workers were joined, or 8 s each are over: the last hold of the lock
\* finalises whatever run is active.
StopFinalises(p) ==
    /\ stopping[p] = "told"
    /\ stopped' = [stopped EXCEPT ![p] = active]
    /\ active' = NoRun
    /\ workers' = IF active = NoRun THEN workers ELSE {}
    /\ snap' = [snap EXCEPT ![p] = {}]
    /\ stopping' = [stopping EXCEPT ![p] = "nav"]
    /\ UNCHANGED <<latest, pull, signalled, born, gridVars, startVars,
                   drainVars, navVars>>

\* end_run_nav(run_id): with no run_id when the stop was refused.
StopEndsNav(p) ==
    /\ stopping[p] = "nav"
    /\ EndRun(stopped[p])
    /\ stopping' = [stopping EXCEPT ![p] = IF stopped[p] = NoRun THEN "done"
                                                                 ELSE "drain"]
    /\ stopped' = [stopped EXCEPT ![p] = NoRun]
    /\ UNCHANGED <<runVars, gridVars, startVars, snap, drainVars, tick>>

-----------------------------------------------------------------------------
(***************************************************************************)
(* The card drain.                                                         *)
(***************************************************************************)
DrainFree == drainer = "none" /\ active = NoRun /\ ~draining

\* start_drain(): the claim is made under _drain_lock and the run lock; it is
\* refused as well when none of the nodes can be drained.
ClaimDrain ==
    \/ DrainFree /\ draining' = TRUE /\ drainer' = "draining"
    \/ UNCHANGED <<draining, drainer>>

\* The auto-drain after a stop, if the policy asks for it.
StopDrains(p) ==
    /\ stopping[p] = "drain"
    /\ ClaimDrain
    /\ stopping' = [stopping EXCEPT ![p] = "done"]
    /\ UNCHANGED <<runVars, gridVars, startVars, snap, stopped, navVars>>

DrainRequest ==
    /\ ClaimDrain
    /\ UNCHANGED <<runVars, gridVars, startVars, stopVars, navVars>>

\* Every node is done, or cancelled, or failed: the claim goes first, then
\* _drain_status.
DrainReleases ==
    /\ drainer = "draining"
    /\ draining' = FALSE /\ drainer' = "ending"
    /\ UNCHANGED <<runVars, gridVars, startVars, stopVars, navVars>>

DrainEnds ==
    /\ drainer = "ending"
    /\ drainer' = "none"
    /\ UNCHANGED <<runVars, gridVars, startVars, stopVars, draining, navVars>>

-----------------------------------------------------------------------------
\* _nav_time_loop(): what it read of the status may be stale when it acts.
TickReads ==
    /\ tick.pc = "wait"
    /\ tick' = [pc |-> "act", saw |-> active]
    /\ UNCHANGED <<runVars, gridVars, startVars, stopVars, drainVars, latch>>

TickActs ==
    /\ tick.pc = "act"
    /\ tick' = [pc |-> "wait", saw |-> NoRun]
    /\ IF tick.saw = NoRun THEN EndRun(NoRun)
       ELSE IF CanBind(tick.saw, NoRun) THEN Bind(tick.saw)
       ELSE UNCHANGED latch
    /\ UNCHANGED <<runVars, gridVars, startVars, stopVars, drainVars>>

Init ==
    /\ active = NoRun /\ latest = NoRun /\ workers = {}
    /\ pull = [t \in Threads |-> "none"]
    /\ signalled = {} /\ born = 0
    /\ grid = [r \in Starts |-> "none"]
    /\ adopt = [r \in Starts |-> "none"]
    /\ starting = [s \in Starts |-> "new"]
    /\ stopping = [p \in Stops |-> "new"]
    /\ snap = [p \in Stops |-> {}]
    /\ stopped = [p \in Stops |-> NoRun]
    /\ draining = FALSE /\ drainer = "none"
    /\ latch = NoLatch(NoRun) /\ tokens = {}
    /\ tick = [pc |-> "wait", saw |-> NoRun]

StartNext(s) == \/ BeginNav(s) \/ StartCheck(s) \/ StartRefused(s)
                \/ StartRun(s) \/ BindNav(s) \/ ReleaseNav(s)
StopNext(p) == \/ StopSignals(p) \/ StopRefused(p) \/ StopSnapshots(p)
               \/ StopTellsWorkers(p) \/ StopFinalises(p) \/ StopEndsNav(p)
               \/ StopDrains(p)
RunNext(r) == \/ ArmGrid(r) \/ GridEnds(r) \/ AdoptWakes(r) \/ AdoptJoins(r)
              \/ AdoptLeaves(r)
DrainNext == DrainRequest \/ DrainReleases \/ DrainEnds
TickNext == TickReads \/ TickActs

Next ==
    \/ \E s \in Starts : StartNext(s) \/ RunNext(s)
    \/ \E p \in Stops : StopNext(p)
    \/ DrainNext \/ TickNext

Spec == Init /\ [][Next]_vars

\* A handler goes on, and the tick comes round.
FairSpec ==
    /\ Spec /\ WF_vars(TickNext)
    /\ \A s \in Starts : WF_vars(StartNext(s))

-----------------------------------------------------------------------------
(***************************************************************************)
(* Properties.                                                             *)
(***************************************************************************)
Latches == [held : BOOLEAN, gen : Runs, run : Runs, pending : BOOLEAN,
            at : Nat]

\* Every variable stays in its type (the fields of RunManager and of Rig).
TypeOK ==
    /\ active \in Runs /\ latest \in Runs
    /\ workers \in SUBSET Threads
    /\ pull \in [Threads -> {"none", "pulling", "told"}]
    /\ signalled \in SUBSET Starts /\ born \in Nat
    /\ grid \in [Starts -> Starts \union {"none", "calibrating", "ended"}]
    /\ adopt \in [Starts -> Starts \union {"none", "awake", "ended"}]
    /\ starting \in [Starts -> {"new", "check", "probe", "bind", "refused",
                                "done"}]
    /\ stopping \in [Stops -> {"new", "join", "grace", "told", "nav", "drain",
                               "done"}]
    /\ snap \in [Stops -> SUBSET Threads] /\ stopped \in [Stops -> Runs]
    /\ draining \in BOOLEAN /\ drainer \in {"none", "draining", "ending"}
    /\ latch \in Latches
    /\ tokens \in SUBSET Starts
    /\ tick \in [pc : {"wait", "act"}, saw : Runs]

\* No run records while a card drain holds a body in transfer mode, whichever
\* of the two was asked for first (start() and start_drain()).
RunXorDrain == active = NoRun \/ ~draining

\* A capture grid that has not been told to stop is the recording run's own:
\* no late calibration arms a second grid on another run, and no finished run
\* goes on exposing (_start_capture_loop, stop).
GridFiresForActiveRun ==
    \A r \in Starts :
        grid[r] \in Starts \ signalled => grid[r] = r /\ active = r

\* No run's rows are stamped by the decision of an earlier run: the start that
\* took it was still to answer when this run was created, or came after that
\* (StaticFixNav.armed()).
Governs == latch.held /\ active # NoRun /\ latch.run \in {NoRun, active}
NoInheritedDecision == Governs => latch.at >= born - 1

\* A decision whose run is over, or whose start was refused, is released.
Idle == active = NoRun /\ \A s \in Starts : starting[s] \in {"new", "done"}
LatchIsReleased == latch.held /\ Idle ~> ~latch.held \/ ~Idle
=============================================================================
