----------------------------- MODULE RunProofs ------------------------------
(***************************************************************************)
(* Type correctness of RunLifecycle, the mutual exclusion of runs and card *)
(* drains, and, for patient clients, that a capture grid ends with its     *)
(* run: for any number of requests, runs and cameras.  And what a run's    *)
(* review images become: each is fed to the odometry engine once, in its   *)
(* turn and with its other half, for any fires, cadence and losses.        *)
(***************************************************************************)
EXTENDS RunLifecycle, FramePairing, FiniteSetTheorems, SequenceTheorems,
        WellFoundedInduction, TLAPS

\* The events in self._cap_stop and self._adopt_stop are the recording run's.
EventsAreActive == active # NoRun => latest = active

\* Binding and clearing leave a decision a decision.
LEMMA LatchTyped ==
  ASSUME latch \in Latches
  PROVE  /\ Cleared \in Latches
         /\ born \in Nat => Seen \in Latches
         /\ \A r \in Runs : Bind(r) => latch' \in Latches
<1>1. Cleared \in Latches
  BY DEF Cleared, NoLatch, Latches, Runs
<1>2. ASSUME NEW r \in Runs, Bind(r) PROVE latch' \in Latches
  BY <1>2 DEF Bind, Latches
<1>3. born \in Nat => Seen \in Latches
  BY DEF Seen, Latches
<1> QED BY <1>1, <1>2, <1>3

\* Every step keeps every variable in its type.
LEMMA TypeStep ==
  ASSUME TypeOK, EventsAreActive, [Next]_vars
  PROVE  TypeOK'
<1> USE LifeAssumption
        DEF TypeOK, Runs, Threads, runVars, gridVars, startVars, stopVars,
            drainVars, navVars
<1>0. /\ Cleared \in Latches /\ Seen \in Latches
      /\ \A r \in Runs : Bind(r) => latch' \in Latches
  BY LatchTyped
<1>1. ASSUME NEW s \in Starts, StartNext(s) PROVE TypeOK'
  <2>1. CASE BeginNav(s)
    <3>1. CASE Spoken
      BY <2>1, <3>1 DEF BeginNav
    <3>2. CASE ~Spoken
      <4>1. latch' = [held |-> TRUE, gen |-> s, run |-> NoRun,
                      pending |-> TRUE, at |-> born]
        BY <2>1, <3>2 DEF BeginNav
      <4>2. latch' \in Latches
        BY <4>1 DEF Latches
      <4> QED BY <2>1, <3>2, <4>2 DEF BeginNav
    <3> QED BY <3>1, <3>2
  <2>2. CASE StartCheck(s)
    BY <2>2 DEF StartCheck
  <2>3. CASE StartRefused(s)
    BY <2>3 DEF StartRefused
  <2>4. CASE StartRun(s)
    <3>1. latch' \in Latches
      BY <1>0, <2>4 DEF StartRun, CreateRun
    <3> QED BY <2>4, <3>1 DEF StartRun, CreateRun
  <2>5. CASE BindNav(s)
    BY <1>0, <2>5 DEF BindNav
  <2>6. CASE ReleaseNav(s)
    BY <1>0, <2>6 DEF ReleaseNav
  <2> QED BY <1>1, <2>1, <2>2, <2>3, <2>4, <2>5, <2>6 DEF StartNext
<1>2. ASSUME NEW r \in Starts, RunNext(r) PROVE TypeOK'
  <2>1. CASE ArmGrid(r)
    BY <2>1 DEF ArmGrid
  <2>2. CASE GridEnds(r)
    BY <2>2 DEF GridEnds
  <2>3. CASE AdoptWakes(r)
    BY <2>3 DEF AdoptWakes
  <2>4. CASE AdoptJoins(r)
    <3>1. latest \in Starts
      BY <2>4 DEF AdoptJoins, EventsAreActive
    <3>2. PICK up \in SUBSET Nodes :
             LET joins == ({active} \X up) \ workers IN
             /\ workers' = workers \union joins
             /\ pull' = [t \in Threads |-> IF t \in joins THEN "pulling"
                                                          ELSE pull[t]]
      BY <2>4 DEF AdoptJoins
    <3>3. workers' \in SUBSET Threads
      BY <2>4, <3>2 DEF AdoptJoins
    <3>4. pull' \in [Threads -> {"none", "pulling", "told"}]
      BY <3>2
    <3>5. adopt' \in [Starts -> Starts \union {"none", "awake", "ended"}]
      BY <2>4, <3>1 DEF AdoptJoins
    <3> QED BY <2>4, <3>3, <3>4, <3>5 DEF AdoptJoins
  <2>5. CASE AdoptLeaves(r)
    BY <2>5 DEF AdoptLeaves
  <2> QED BY <1>2, <2>1, <2>2, <2>3, <2>4, <2>5 DEF RunNext
<1>3. ASSUME NEW p \in Stops, StopNext(p) PROVE TypeOK'
  <2>1. CASE StopSignals(p)
    BY <2>1 DEF StopSignals
  <2>2. CASE StopRefused(p)
    BY <2>2 DEF StopRefused
  <2>3. CASE StopSnapshots(p)
    BY <2>3 DEF StopSnapshots
  <2>4. CASE StopTellsWorkers(p)
    BY <2>4 DEF StopTellsWorkers
  <2>5. CASE StopFinalises(p)
    BY <2>5 DEF StopFinalises
  <2>6. CASE StopEndsNav(p)
    BY <1>0, <2>6 DEF StopEndsNav, EndRun
  <2>7. CASE StopDrains(p)
    <3>1. /\ draining' \in BOOLEAN
          /\ drainer' \in {"none", "draining", "ending"}
      BY <2>7 DEF StopDrains, ClaimDrain
    <3> QED BY <2>7, <3>1 DEF StopDrains
  <2> QED BY <1>3, <2>1, <2>2, <2>3, <2>4, <2>5, <2>6, <2>7 DEF StopNext
<1>4. CASE DrainNext
  <2>1. CASE DrainRequest
    BY <2>1 DEF DrainRequest, ClaimDrain
  <2>2. CASE DrainReleases
    BY <2>2 DEF DrainReleases
  <2>3. CASE DrainEnds
    BY <2>3 DEF DrainEnds
  <2> QED BY <1>4, <2>1, <2>2, <2>3 DEF DrainNext
<1>5. CASE TickNext
  <2>1. CASE TickReads
    BY <2>1 DEF TickReads
  <2>2. CASE TickActs
    <3>1. latch' \in Latches
      BY <1>0, <2>2 DEF TickActs, EndRun
    <3> QED BY <2>2, <3>1 DEF TickActs
  <2> QED BY <1>5, <2>1, <2>2 DEF TickNext
<1>6. CASE UNCHANGED vars
  BY <1>6 DEF vars
<1> QED BY <1>1, <1>2, <1>3, <1>4, <1>5, <1>6 DEF Next

\* A run and its events are made together, and only the next run replaces them.
LEMMA EventsStep ==
  ASSUME TypeOK, EventsAreActive, [Next]_vars
  PROVE  EventsAreActive'
<1> USE DEF EventsAreActive, runVars
<1>1. ASSUME NEW s \in Starts, StartNext(s) PROVE EventsAreActive'
  BY <1>1 DEF StartNext, BeginNav, StartCheck, StartRefused, StartRun,
     CreateRun, BindNav, ReleaseNav
<1>2. ASSUME NEW r \in Starts, RunNext(r) PROVE EventsAreActive'
  BY <1>2 DEF RunNext, ArmGrid, GridEnds, AdoptWakes, AdoptJoins, AdoptLeaves
<1>3. ASSUME NEW p \in Stops, StopNext(p) PROVE EventsAreActive'
  BY <1>3 DEF StopNext, StopSignals, StopRefused, StopSnapshots,
     StopTellsWorkers, StopFinalises, StopEndsNav, StopDrains
<1>4. CASE DrainNext \/ TickNext \/ UNCHANGED vars
  BY <1>4 DEF DrainNext, DrainRequest, DrainReleases, DrainEnds, TickNext,
     TickReads, TickActs, vars
<1> QED BY <1>1, <1>2, <1>3, <1>4 DEF Next

\* A run starts under the lock that the drain claims under, and each of them
\* looks at the other's claim there.
LEMMA ExclusionStep ==
  ASSUME TypeOK, RunXorDrain, [Next]_vars
  PROVE  RunXorDrain'
<1> USE DEF RunXorDrain, runVars, drainVars
<1>1. ASSUME NEW s \in Starts, StartNext(s) PROVE RunXorDrain'
  BY <1>1 DEF StartNext, BeginNav, StartCheck, StartRefused, StartRun, Refused,
     CreateRun, BindNav, ReleaseNav
<1>2. ASSUME NEW r \in Starts, RunNext(r) PROVE RunXorDrain'
  BY <1>2 DEF RunNext, ArmGrid, GridEnds, AdoptWakes, AdoptJoins, AdoptLeaves
<1>3. ASSUME NEW p \in Stops, StopNext(p) PROVE RunXorDrain'
  BY <1>3 DEF StopNext, StopSignals, StopRefused, StopSnapshots, ClaimDrain,
     DrainFree, StopTellsWorkers, StopFinalises, StopEndsNav, StopDrains
<1>4. CASE DrainNext \/ TickNext \/ UNCHANGED vars
  BY <1>4 DEF DrainNext, DrainRequest, DrainReleases, DrainEnds, ClaimDrain,
     DrainFree, TickNext, TickReads, TickActs, vars
<1> QED BY <1>1, <1>2, <1>3, <1>4 DEF Next

-----------------------------------------------------------------------------
LifeInv == TypeOK /\ EventsAreActive /\ RunXorDrain

LEMMA LifeInductive == Spec => []LifeInv
<1>1. Init => LifeInv
  <2> SUFFICES ASSUME Init PROVE LifeInv
    OBVIOUS
  <2>1. latch \in Latches
    BY DEF Init, NoLatch, Latches, Runs
  <2>2. /\ pull \in [Threads -> {"none", "pulling", "told"}]
        /\ snap \in [Stops -> SUBSET Threads] /\ stopped \in [Stops -> Runs]
        /\ tick \in [pc : {"wait", "act"}, saw : Runs]
    BY DEF Init, Runs
  <2>3. TypeOK
    BY <2>1, <2>2 DEF Init, TypeOK, Runs
  <2>4. EventsAreActive /\ RunXorDrain
    BY DEF Init, EventsAreActive, RunXorDrain
  <2> QED BY <2>3, <2>4 DEF LifeInv
<1>2. LifeInv /\ [Next]_vars => LifeInv'
  BY TypeStep, EventsStep, ExclusionStep DEF LifeInv
<1> QED BY <1>1, <1>2, PTL DEF Spec

\* Every variable stays in its type, however many requests come.
THEOREM LifecycleTyped == Spec => []TypeOK
<1>1. LifeInv => TypeOK
  BY DEF LifeInv
<1> QED BY <1>1, LifeInductive, PTL

\* No run records while a card drain holds the bodies, whatever the requests
\* and however they interleave (start() and start_drain()).
THEOREM RunsAndDrainsExclude == Spec => []RunXorDrain
<1>1. LifeInv => RunXorDrain
  BY DEF LifeInv
<1> QED BY <1>1, LifeInductive, PTL
-----------------------------------------------------------------------------
(***************************************************************************)
(* A patient client has one stop waiting at most, and that stop has        *)
(* signalled the run that is still recording.                              *)
(***************************************************************************)
OneStopWaits ==
    /\ \A p \in Waiting : active \in signalled
    /\ \A p, q \in Waiting : p = q

PatientInv == OneStopWaits /\ GridFiresForActiveRun

LEMMA PatientStep ==
  ASSUME Patient, TypeOK, PatientInv, [Next]_vars
  PROVE  PatientInv'
<1> USE LifeAssumption
        DEF PatientInv, OneStopWaits, Waiting, GridFiresForActiveRun, runVars,
            gridVars, stopVars
<1>0. NoRun \notin signalled
  BY DEF TypeOK
<1>1. ASSUME NEW s \in Starts, StartNext(s) PROVE PatientInv'
  <2>1. CASE StartRun(s)
    <3>1. active = NoRun /\ Waiting = {}
      BY <1>0, <2>1 DEF StartRun, Refused
    <3> QED BY <2>1, <3>1 DEF StartRun, CreateRun, TypeOK
  <2> QED BY <1>1, <2>1 DEF StartNext, BeginNav, StartCheck, StartRefused,
             BindNav, ReleaseNav
<1>2. ASSUME NEW r \in Starts, RunNext(r) PROVE PatientInv'
  <2>1. CASE ArmGrid(r)
    BY <2>1 DEF ArmGrid, TypeOK
  <2>2. CASE GridEnds(r)
    BY <2>2 DEF GridEnds, TypeOK
  <2> QED BY <1>2, <2>1, <2>2 DEF RunNext, AdoptWakes, AdoptJoins, AdoptLeaves
<1>3. ASSUME NEW p \in Stops, StopNext(p) PROVE PatientInv'
  <2>1. CASE StopSignals(p)
    BY <2>1 DEF StopSignals, StopAllowed, TypeOK
  <2>2. CASE StopSnapshots(p) \/ StopTellsWorkers(p)
    BY <1>0, <2>2 DEF StopSnapshots, StopTellsWorkers, TypeOK
  <2>3. CASE StopFinalises(p)
    <3>1. Waiting' = {}
      BY <2>3 DEF StopFinalises, TypeOK
    <3> QED BY <2>3, <3>1 DEF StopFinalises, TypeOK
  <2>4. CASE StopRefused(p) \/ StopEndsNav(p) \/ StopDrains(p)
    BY <2>4 DEF StopRefused, StopEndsNav, StopDrains, TypeOK
  <2> QED BY <1>3, <2>1, <2>2, <2>3, <2>4 DEF StopNext
<1>4. CASE DrainNext \/ TickNext \/ UNCHANGED vars
  BY <1>4 DEF DrainNext, DrainRequest, DrainReleases, DrainEnds, TickNext,
     TickReads, TickActs, vars
<1> QED BY <1>1, <1>2, <1>3, <1>4 DEF Next

\* While stops come one at a time, a capture grid that has not been told to
\* stop is the recording run's own (_start_capture_loop and stop()).
THEOREM GridEndsWithItsRun ==
  ASSUME Patient
  PROVE  Spec => []GridFiresForActiveRun
<1>1. Init => PatientInv
  BY LifeAssumption
     DEF Init, PatientInv, OneStopWaits, Waiting, GridFiresForActiveRun
<1>2. TypeOK /\ PatientInv /\ [Next]_vars => PatientInv'
  BY PatientStep
<1>3. PatientInv => GridFiresForActiveRun
  BY DEF PatientInv
<1> QED BY <1>1, <1>2, <1>3, LifecycleTyped, PTL DEF Spec

-----------------------------------------------------------------------------
(***************************************************************************)
(* A decision that is not bound yet is of a start in flight, which binds   *)
(* it or gives it up before it answers; the run it is bound to exists.     *)
(***************************************************************************)
Created(r) == r # NoRun /\ starting[r] \notin {"new", "check", "probe"}

Unbound == latch.held /\ latch.run = NoRun

DecisionInv ==
    /\ active # NoRun => Created(active)
    /\ tick.saw # NoRun => Created(tick.saw)
    /\ latch.run # NoRun => Created(latch.run)
    /\ Unbound => latch.gen \in tokens /\ InFlight(latch.gen)
    /\ Governs => latch.at >= born - 1
    /\ Unbound => latch.at \in {born - 1, born}

LEMMA DecisionStep ==
  ASSUME TypeOK, DecisionInv, [Next]_vars
  PROVE  DecisionInv'
<1> USE LifeAssumption DEF runVars, gridVars, startVars, stopVars, drainVars, navVars
<1>0. /\ active \in Runs /\ latch \in Latches /\ tokens \in SUBSET Starts /\ born \in Nat
      /\ tick \in [pc : {"wait", "act"}, saw : Runs]
      /\ starting \in [Starts -> {"new", "check", "probe", "bind", "refused", "done"}]
      /\ NoRun \notin Starts /\ Runs = Starts \cup {NoRun}
  BY DEF TypeOK, Runs
\* A step that leaves the decision alone, or clears it.
<1>1. ASSUME latch' = latch \/ latch' = Cleared, UNCHANGED <<born, tokens>>,
             active' \in {active, NoRun}, tick'.saw \in {tick.saw, active, NoRun},
             \A r \in Starts : /\ Created(r) => Created(r)'
                               /\ Unbound' /\ r = latch.gen /\ InFlight(r) => InFlight(r)'
      PROVE  DecisionInv'
  <2>1. latch'.held = FALSE \/ latch' = latch
    BY <1>1 DEF Cleared, NoLatch
  <2>2. latch'.run = latch.run \/ latch'.run = NoRun
    BY <1>1 DEF Cleared, NoLatch
  <2>3. latch.gen \in Runs /\ latch.run \in Runs
    BY <1>0 DEF Latches
  <2>4. \A r \in Runs : Created(r) => Created(r)'
    BY <1>0, <1>1 DEF Created
  <2>5. (active # NoRun => Created(active))' /\ (tick.saw # NoRun => Created(tick.saw))'
    BY <1>0, <1>1, <2>4 DEF DecisionInv
  <2>6. (latch.run # NoRun => Created(latch.run))'
    BY <2>2, <2>3, <2>4 DEF DecisionInv
  <2>7. ASSUME Unbound' PROVE Unbound /\ latch' = latch
    BY <2>1, <2>7 DEF Unbound
  <2>8. (Unbound => latch.gen \in tokens /\ InFlight(latch.gen))'
    <3>1. SUFFICES ASSUME Unbound' PROVE latch'.gen \in tokens' /\ InFlight(latch.gen)'
      OBVIOUS
    <3>2. latch.gen \in tokens /\ InFlight(latch.gen) /\ latch' = latch /\ latch.gen \in Starts
      BY <1>0, <2>7, <3>1 DEF DecisionInv
    <3>3. InFlight(latch.gen)'
      BY <1>1, <3>1, <3>2 DEF InFlight
    <3> QED BY <1>1, <3>2, <3>3
  <2>9. (Governs => latch.at >= born - 1)'
    BY <1>1, <2>1 DEF DecisionInv, Governs
  <2>10. (Unbound => latch.at \in {born - 1, born})'
    BY <1>1, <2>7 DEF DecisionInv
  <2> QED BY <2>5, <2>6, <2>8, <2>9, <2>10 DEF DecisionInv
\* A decision is bound to a run that exists.
<1>2. ASSUME NEW r \in Starts, NEW tok, CanBind(r, tok), Bind(r), Created(r)',
             UNCHANGED <<born, tokens, active>>, tick'.saw \in {tick.saw, NoRun},
             \A x \in Starts : Created(x) => Created(x)'
      PROVE  DecisionInv'
  <2>1. latch' = [held |-> latch.held, gen |-> latch.gen, run |-> r,
                  pending |-> FALSE, at |-> latch.at]
    BY <1>2 DEF Bind
  <2>2. latch.held /\ latch.run \in {NoRun, r} /\ latch'.run = r /\ latch'.at = latch.at
        /\ ~Unbound'
    BY <1>0, <1>2, <2>1 DEF CanBind, Unbound
  <2>3. \A x \in Runs : Created(x) => Created(x)'
    BY <1>0, <1>2 DEF Created
  <2>4. (active # NoRun => Created(active))' /\ (tick.saw # NoRun => Created(tick.saw))'
    BY <1>0, <1>2, <2>3 DEF DecisionInv
  <2>5. Governs' => Governs
    BY <1>2, <2>2 DEF Governs
  <2>6. (Governs => latch.at >= born - 1)'
    BY <1>2, <2>2, <2>5 DEF DecisionInv
  <2> QED BY <1>2, <2>2, <2>4, <2>6 DEF DecisionInv
<1>3. ASSUME NEW s \in Starts, StartNext(s) PROVE DecisionInv'
  <2>1. CASE BeginNav(s)
    <3>1. CASE Spoken
      BY <1>0, <1>1, <2>1, <3>1 DEF BeginNav, Created, InFlight
    <3>2. CASE ~Spoken
      <4>1. /\ latch' = [held |-> TRUE, gen |-> s, run |-> NoRun, pending |-> TRUE, at |-> born]
            /\ tokens' = tokens \cup {s} /\ UNCHANGED <<born, active, tick>>
            /\ starting' = [starting EXCEPT ![s] = "check"] /\ starting[s] = "new"
        BY <2>1, <3>2 DEF BeginNav
      <4>2. \A x \in Runs : Created(x) => Created(x)'
        BY <1>0, <4>1 DEF Created
      <4>3. (active # NoRun => Created(active))' /\ (tick.saw # NoRun => Created(tick.saw))'
        BY <1>0, <4>1, <4>2 DEF DecisionInv
      <4>4. InFlight(latch.gen)'
        BY <1>0, <4>1 DEF InFlight
      <4>5. latch'.gen \in tokens' /\ latch'.run = NoRun /\ latch'.at = born
        BY <4>1
      <4>6. latch'.at >= born' - 1 /\ latch'.at \in {born' - 1, born'}
        BY <1>0, <4>1, <4>5
      <4> QED BY <4>3, <4>4, <4>5, <4>6 DEF DecisionInv
    <3> QED BY <3>1, <3>2
  <2>2. CASE StartCheck(s)
    BY <1>0, <1>1, <2>2 DEF StartCheck, Created, InFlight
  <2>3. CASE StartRefused(s)
    BY <1>0, <1>1, <2>3 DEF StartRefused, Created, InFlight
  <2>4. CASE StartRun(s)
    <3>1. /\ active = NoRun /\ active' = s /\ born' = born + 1 /\ latch' = Seen
          /\ starting[s] = "probe" /\ starting' = [starting EXCEPT ![s] = "bind"]
          /\ UNCHANGED <<tokens, tick>>
      BY <2>4 DEF StartRun, CreateRun, Refused
    <3>2. \A x \in Runs : Created(x) => Created(x)'
      BY <1>0, <3>1 DEF Created
    <3>3. Created(s)'
      BY <1>0, <3>1 DEF Created
    <3>4. /\ latch'.held = latch.held /\ latch'.run = latch.run /\ latch'.gen = latch.gen
          /\ Unbound => latch'.at = born
      BY <1>0, <3>1 DEF Seen, Latches, Unbound, DecisionInv
    <3>5. latch.run # s
      BY <3>1 DEF DecisionInv, Created
    <3>6. Unbound' => Unbound /\ InFlight(latch.gen)'
      <4>1. Unbound' => Unbound
        BY <3>4 DEF Unbound
      <4>2. Unbound => latch.gen \in Starts /\ InFlight(latch.gen)
        BY <1>0 DEF DecisionInv
      <4> QED BY <1>0, <3>1, <3>4, <4>1, <4>2 DEF InFlight
    <3>7. Governs' => Unbound
      BY <3>1, <3>4, <3>5 DEF Governs, Unbound
    <3>8. (Governs => latch.at >= born - 1)' /\ (Unbound => latch.at \in {born - 1, born})'
      BY <1>0, <3>1, <3>4, <3>6, <3>7
    <3>9. (latch.run # NoRun => Created(latch.run))'
      BY <1>0, <3>2, <3>4 DEF DecisionInv, Latches
    <3>10. (Unbound => latch.gen \in tokens /\ InFlight(latch.gen))'
      BY <3>1, <3>4, <3>6 DEF DecisionInv
    <3>11. (tick.saw # NoRun => Created(tick.saw))' /\ (active # NoRun => Created(active))'
      BY <1>0, <3>1, <3>2, <3>3 DEF DecisionInv
    <3> QED BY <3>8, <3>9, <3>10, <3>11 DEF DecisionInv
  <2>5. CASE BindNav(s)
    <3>1. \A x \in Starts : Created(x) => Created(x)'
      BY <1>0, <2>5 DEF BindNav, Created
    <3>2. CASE CanBind(s, TokenOf(s))
      <4>1. Bind(s) /\ Created(s)' /\ UNCHANGED <<born, tokens, active, tick>>
        BY <1>0, <2>5, <3>2 DEF BindNav, Created
      <4> QED BY <1>2, <3>1, <3>2, <4>1
    <3>3. CASE ~CanBind(s, TokenOf(s))
      <4>1. /\ latch' = latch /\ UNCHANGED <<born, tokens, active, tick>>
            /\ starting' = [starting EXCEPT ![s] = "refused"]
        BY <2>5, <3>3 DEF BindNav
      <4>2. \A x \in Starts : InFlight(x) => InFlight(x)'
        BY <1>0, <4>1 DEF InFlight
      <4> QED BY <1>1, <3>1, <4>1, <4>2
    <3> QED BY <3>2, <3>3
  <2>6. CASE ReleaseNav(s)
    <3>1. /\ starting[s] = "refused" /\ starting' = [starting EXCEPT ![s] = "done"]
          /\ latch' = (IF CanRelease(TokenOf(s)) THEN Cleared ELSE latch)
          /\ UNCHANGED <<born, tokens, active, tick>>
      BY <2>6 DEF ReleaseNav
    <3>2. \A x \in Starts : Created(x) => Created(x)'
      BY <1>0, <3>1 DEF Created
    <3>3. ASSUME NEW x \in Starts, Unbound', x = latch.gen, InFlight(x) PROVE InFlight(x)'
      <4>1. latch' = latch /\ Unbound /\ ~CanRelease(TokenOf(s))
        BY <3>1, <3>3 DEF Unbound, Cleared, NoLatch
      <4>2. s # latch.gen
        BY <1>0, <4>1 DEF CanRelease, TokenOf, Unbound, DecisionInv
      <4> QED BY <1>0, <3>1, <3>3, <4>2 DEF InFlight
    <3> QED BY <1>1, <3>1, <3>2, <3>3
  <2> QED BY <1>3, <2>1, <2>2, <2>3, <2>4, <2>5, <2>6 DEF StartNext
<1>4. ASSUME UNCHANGED <<latch, starting, tokens, born, tick>>, active' \in {active, NoRun}
      PROVE  DecisionInv'
  BY <1>1, <1>4 DEF Created, InFlight
<1>5. ASSUME NEW r \in Starts, RunNext(r) PROVE DecisionInv'
  BY <1>4, <1>5 DEF RunNext, ArmGrid, GridEnds, AdoptWakes, AdoptJoins, AdoptLeaves
<1>6. ASSUME NEW p \in Stops, StopNext(p) PROVE DecisionInv'
  <2>1. CASE StopEndsNav(p)
    BY <1>1, <2>1 DEF StopEndsNav, EndRun, Created, InFlight
  <2>2. CASE StopFinalises(p)
    BY <1>4, <2>2 DEF StopFinalises
  <2> QED BY <1>4, <1>6, <2>1, <2>2 DEF StopNext, StopSignals, StopRefused, StopSnapshots,
             StopTellsWorkers, StopDrains
<1>7. CASE DrainNext
  BY <1>4, <1>7 DEF DrainNext, DrainRequest, DrainReleases, DrainEnds
<1>8. CASE TickReads
  BY <1>0, <1>1, <1>8 DEF TickReads, Created, InFlight
<1>9. CASE TickActs
  <2>1. UNCHANGED <<born, tokens, active, starting>> /\ tick'.saw = NoRun
    BY <1>9 DEF TickActs
  <2>2. CASE tick.saw # NoRun /\ CanBind(tick.saw, NoRun)
    <3>1. PICK r \in Starts : r = tick.saw
      BY <1>0, <2>2
    <3>2. Bind(r) /\ CanBind(r, NoRun)
      BY <1>9, <2>2, <3>1 DEF TickActs
    <3>3. Created(r)' /\ \A x \in Starts : Created(x) => Created(x)'
      BY <2>1, <2>2, <3>1 DEF DecisionInv, Created
    <3> QED BY <1>2, <2>1, <3>2, <3>3
  <2>3. CASE ~(tick.saw # NoRun /\ CanBind(tick.saw, NoRun))
    <3>1. latch' = latch \/ latch' = Cleared
      BY <1>9, <2>3 DEF TickActs, EndRun
    <3> QED BY <1>1, <2>1, <3>1 DEF Created, InFlight
  <2> QED BY <2>2, <2>3
<1>10. CASE UNCHANGED vars
  BY <1>4, <1>10 DEF vars
<1> QED BY <1>3, <1>5, <1>6, <1>7, <1>8, <1>9, <1>10 DEF Next, TickNext

\* No run is stamped by the decision of an earlier one: whatever starts, stops
\* and ticks overlap, the start whose decision governs a run was still to
\* answer when the run was created, or came later (bind_run, end_run).
THEOREM DecisionsAreNotInherited == Spec => []NoInheritedDecision
<1>1. Init => DecisionInv
  BY DEF Init, DecisionInv, Unbound, Governs, NoLatch
<1>2. TypeOK /\ DecisionInv /\ [Next]_vars => DecisionInv'
  BY DecisionStep
<1>3. DecisionInv => NoInheritedDecision
  BY DEF DecisionInv, NoInheritedDecision
<1> QED BY <1>1, <1>2, <1>3, LifecycleTyped, PTL DEF Spec

-----------------------------------------------------------------------------
(***************************************************************************)
(* Least numbers, and induction along an interval.                         *)
(***************************************************************************)
\* A set of numbers that is not empty has a least one, and Min finds it.
LEMMA LeastOf ==
  ASSUME NEW S \in SUBSET Nat, S # {}
  PROVE  Min(S) \in S /\ \A x \in S : Min(S) <= x
<1> DEFINE below(k) == S \cap (0..k)
           T == {below(k) : k \in S}
<1>1. T \subseteq FiniteSubsetsOf(Nat) /\ T # {}
  <2>1. ASSUME NEW k \in S PROVE below(k) \in FiniteSubsetsOf(Nat)
    <3>1. IsFiniteSet(0..k)
      BY FS_Interval
    <3>2. IsFiniteSet(below(k))
      BY <3>1, FS_Subset
    <3> QED BY <3>2 DEF FiniteSubsetsOf
  <2> QED BY <2>1
<1>2. IsWellFoundedOn(StrictSubsetOrdering(Nat), FiniteSubsetsOf(Nat))
  BY FS_StrictSubsetOrderingWellFounded
<1>3. PICK X \in T : \A Y \in T : ~(<<Y, X>> \in StrictSubsetOrdering(Nat))
  <2> HIDE DEF T
  <2> QED BY <1>1, <1>2, WFMin
<1>4. PICK m \in S : X = below(m)
  OBVIOUS
<1>5. ASSUME NEW y \in S, y < m PROVE FALSE
  <2>1. below(y) \in T /\ below(y) \subseteq X /\ below(y) # X
    BY <1>4, <1>5
  <2> QED BY <2>1, <1>3, <1>4 DEF StrictSubsetOrdering
<1>6. \A y \in S : m <= y
  BY <1>5
<1> QED BY <1>6 DEF Min

\* Induction along an interval: what holds of 0 and of the next of whatever it
\* holds of holds of all.
LEMMA Along ==
  ASSUME NEW n \in Nat, NEW S, 0 \in S,
         \A k \in 0..n - 1 : k \in S => k + 1 \in S
  PROVE  \A k \in 0..n : k \in S
<1> DEFINE T == {k \in 0..n : k \notin S}
<1>1. SUFFICES ASSUME T # {} PROVE FALSE
  OBVIOUS
<1>2. T \in SUBSET Nat
  OBVIOUS
<1>3. PICK m \in T : \A x \in T : m <= x
  <2> HIDE DEF T
  <2> QED BY <1>1, <1>2, LeastOf
<1>4. m - 1 \in 0..n - 1 /\ m - 1 \notin T /\ (m - 1) + 1 = m
  BY <1>3
<1> QED BY <1>3, <1>4

-----------------------------------------------------------------------------
(***************************************************************************)
(* Which other half a frame is fed with.                                   *)
(***************************************************************************)
Feeds == Shots \X (Shots \cup {0}) \X BOOLEAN
Modes == {"none", "mono", "stereo"}

PairTypeOK ==
    /\ seen \in [PairCams -> SUBSET Shots]
    /\ dir \in [PairCams -> SUBSET Shots]
    /\ queue \in Seq(Shots) /\ ready2 \in SUBSET Shots /\ history \in Seq(Shots)
    /\ lastFed \in Shots \cup {0} /\ decided \in Modes
    /\ fed \in Seq(Feeds) /\ counted \in SUBSET Shots /\ raised \in Seq(Shots)

Rises(s) == \A i, j \in 1..Len(s) : i < j => s[i] < s[j]
Clean == decided = "mono" => raised = <<>>

\* What is queued is in order and comes after what was fed, which is in order.
FeedsInOrder ==
    /\ decided = "none" => raised = <<>>
    /\ Clean => /\ Rises(queue) /\ \A k \in 1..Len(queue) : queue[k] > lastFed
                /\ \A i, j \in 1..Len(fed) : i < j => fed[i][1] < fed[j][1]
                /\ \A k \in 1..Len(fed) : fed[k][1] <= lastFed

PairInv == PairTypeOK /\ FeedsInOrder /\ PairsAreOneFire /\ FramesAreAccounted

LEMMA ShotsAre ==
  /\ Cardinality(Shots) \in Nat /\ IsFiniteSet(Shots)
  /\ Shots = 1..Cardinality(Shots) /\ Shots \subseteq Nat
<1>1. IsFiniteSet(Shots) /\ Shots = 1..Cardinality(Shots)
  BY FramePairingAssumption
<1>2. Cardinality(Shots) \in Nat
  BY <1>1, FS_CardinalityType
<1>3. 1..Cardinality(Shots) \subseteq Nat
  BY <1>2
<1> QED BY <1>1, <1>2, <1>3

-----------------------------------------------------------------------------
\* A finite set of numbers can be listed in order.
Lists(s, S) ==
    /\ s \in [1..Cardinality(S) -> S]
    /\ ToSet(s) = S /\ \A i, j \in DOMAIN s : i < j => s[i] < s[j]

LEMMA ListExists ==
  ASSUME NEW n \in Nat, NEW S \in SUBSET Nat, IsFiniteSet(S), Cardinality(S) = n
  PROVE  \E s : Lists(s, S)
<1> DEFINE Good(m) == \A T \in SUBSET Nat : IsFiniteSet(T) /\ Cardinality(T) = m
                                            => \E s : Lists(s, T)
           G == {m \in 0..n : Good(m)}
<1>1. 0 \in G
  <2>1. ASSUME NEW T \in SUBSET Nat, IsFiniteSet(T), Cardinality(T) = 0
        PROVE  \E s : Lists(s, T)
    <3>1. T = {}
      BY <2>1, FS_EmptySet
    <3>2. Lists(<<>>, T)
      BY <2>1, <3>1 DEF Lists, ToSet
    <3> QED BY <3>2
  <2> QED BY <2>1
<1>2. ASSUME NEW m \in 0..n - 1, m \in G PROVE m + 1 \in G
  <2>1. ASSUME NEW T \in SUBSET Nat, IsFiniteSet(T), Cardinality(T) = m + 1
        PROVE  \E s : Lists(s, T)
    <3> DEFINE x == Min(T)
               U == T \ {x}
    <3>1. T # {}
      BY <2>1, FS_EmptySet
    <3>2. x \in T /\ \A y \in T : x <= y
      BY <3>1, LeastOf
    <3> HIDE DEF x
    <3>3. IsFiniteSet(U) /\ Cardinality(U) = m
      <4>1. IsFiniteSet(U) /\ Cardinality(U) = Cardinality(T) - 1
        BY <2>1, <3>2, FS_RemoveElement
      <4> QED BY <2>1, <4>1
    <3>4. PICK u : Lists(u, U)
      BY <1>2, <3>3
    <3> HIDE DEF U
    <3>5. /\ u \in [1..m -> U] /\ \A y \in U : \E k \in 1..m : u[k] = y
          /\ \A i, j \in 1..m : i < j => u[i] < u[j]
      BY <3>3, <3>4 DEF Lists, ToSet
    <3>6. U \subseteq T /\ T = U \cup {x} /\ \A y \in U : x < y
      BY <3>2 DEF U
    <3> DEFINE s == [i \in 1..m + 1 |-> IF i = 1 THEN x ELSE u[i - 1]]
    <3>7. \A i \in 1..m : i + 1 \in 1..m + 1 /\ (i + 1) # 1 /\ (i + 1) - 1 = i
      OBVIOUS
    <3>8. s[1] = x /\ (\A i \in 1..m : s[i + 1] = u[i]) /\ DOMAIN s = 1..m + 1
      BY <3>7
    <3>9. \A i \in 1..m + 1 : i = 1 \/ \E k \in 1..m : i = k + 1
      <4>1. ASSUME NEW i \in 1..m + 1, i # 1 PROVE i - 1 \in 1..m /\ i = (i - 1) + 1
        BY <4>1
      <4> QED BY <4>1
    <3>10. s \in [1..m + 1 -> T]
      <4>1. ASSUME NEW i \in 1..m + 1 PROVE s[i] \in T
        <5> HIDE DEF s
        <5>1. CASE i = 1
          BY <3>2, <3>8, <5>1
        <5>2. CASE \E k \in 1..m : i = k + 1
          <6>1. PICK k \in 1..m : i = k + 1
            BY <5>2
          <6>2. s[i] = u[k] /\ u[k] \in U
            BY <3>5, <3>8, <6>1
          <6> QED BY <3>6, <6>2
        <5> QED BY <3>9, <5>1, <5>2
      <4> QED BY <4>1
    <3>11. \A y \in T : \E k \in 1..m + 1 : s[k] = y
      <4> HIDE DEF s
      <4> QED BY <3>5, <3>6, <3>7, <3>8
    <3> HIDE DEF s
    <3>12. ToSet(s) = T
      BY <3>8, <3>10, <3>11 DEF ToSet
    <3>13. ASSUME NEW i \in 1..m + 1, NEW j \in 1..m + 1, i < j PROVE s[i] < s[j]
      <4>1. PICK k \in 1..m : j = k + 1
        BY <3>9, <3>13
      <4>2. CASE i = 1
        BY <3>5, <3>6, <3>8, <4>1, <4>2
      <4>3. CASE i # 1
        <5>1. PICK l \in 1..m : i = l + 1
          BY <3>9, <4>3
        <5>2. l < k
          BY <3>13, <4>1, <5>1
        <5> QED BY <3>5, <3>8, <4>1, <5>1, <5>2
      <4> QED BY <4>2, <4>3
    <3> QED BY <2>1, <3>8, <3>10, <3>12, <3>13 DEF Lists
  <2> HIDE DEF Good
  <2>2. Good(m + 1)
    BY <2>1 DEF Good
  <2> QED BY <2>2
<1>3. n \in G
  <2> HIDE DEF G
  <2>1. \A k \in 0..n : k \in G
    BY <1>1, <1>2, Along
  <2> QED BY <2>1
<1> QED BY <1>3

LEMMA AscendingIs ==
  ASSUME NEW S \in SUBSET Nat, IsFiniteSet(S)
  PROVE  /\ Ascending(S) \in Seq(S) /\ ToSet(Ascending(S)) = S
         /\ Rises(Ascending(S))
<1>1. Cardinality(S) \in Nat
  BY FS_CardinalityType
<1>2. \E s : Lists(s, S)
  BY <1>1, ListExists
<1>3. Ascending(S) = CHOOSE s \in [1..Cardinality(S) -> S] :
                        ToSet(s) = S /\ \A i, j \in DOMAIN s : i < j => s[i] < s[j]
  BY DEF Ascending
<1>4. Lists(Ascending(S), S)
  BY <1>2, <1>3 DEF Lists
<1> HIDE DEF Ascending
<1>5. Ascending(S) \in Seq(S) /\ Len(Ascending(S)) = Cardinality(S)
      /\ DOMAIN Ascending(S) = 1..Cardinality(S)
  BY <1>1, <1>4 DEF Lists
<1> QED BY <1>4, <1>5 DEF Lists, Rises

-----------------------------------------------------------------------------
\* The tolerance of a cadence that shows no gap tells neighbours apart.
LEMMA SteadyTol ==
  ASSUME NEW known \in SUBSET Shots, Steady(known)
  PROVE  \/ Tol(known) = FirstTol
         \/ Tol(known) = Interval \div 2
<1> DEFINE gaps == GapsOf(known)
           D == DOMAIN gaps
<1>1. D \subseteq Shots /\ \A i \in D : gaps[i] = Interval
  BY DEF Steady, GapsOf
<1>2. IsFiniteSet(D)
  BY <1>1, ShotsAre, FS_Subset
<1>3. Interval \in Nat
  BY FramePairingAssumption
<1> HIDE DEF gaps
<1>4. CASE D = {}
  BY <1>4 DEF Tol, gaps
<1>5. CASE D # {}
  <2> DEFINE V == {gaps[i] : i \in {i \in D : 2 * Cardinality(UpTo(gaps, i)) > Cardinality(D)}}
  <2>1. ASSUME NEW i \in D PROVE 2 * Cardinality(UpTo(gaps, i)) > Cardinality(D)
    <3>1. UpTo(gaps, i) = D
      BY <1>1, <1>3 DEF UpTo
    <3>2. Cardinality(D) \in Nat /\ Cardinality(D) # 0
      BY <1>2, <1>5, FS_CardinalityType, FS_EmptySet
    <3> QED BY <3>1, <3>2
  <2>2. V = {Interval}
    <3> HIDE DEF D
    <3> QED BY <1>1, <1>5, <2>1
  <2>3. Median(gaps) = Min(V)
    BY DEF Median
  <2> HIDE DEF V
  <2>4. Min(V) \in V
    <3>1. V \in SUBSET Nat /\ V # {}
      BY <1>3, <2>2
    <3> QED BY <3>1, LeastOf
  <2>5. Median(gaps) = Interval
    BY <2>2, <2>3, <2>4
  <2> QED BY <1>5, <2>5 DEF Tol, gaps
<1> QED BY <1>4, <1>5

LEMMA Multiples ==
  ASSUME NEW i \in Nat, NEW j \in Nat, NEW n \in Nat, i < j
  PROVE  i * n \in Nat /\ j * n \in Nat /\ j * n >= i * n + n
<1>1. PICK d \in Nat : j = i + 1 + d
  <2>1. j - i - 1 \in Nat /\ j = i + 1 + (j - i - 1)
    OBVIOUS
  <2> QED BY <2>1
<1>2. j * n = i * n + n + d * n
  BY <1>1
<1>3. i * n \in Nat /\ d * n \in Nat /\ j * n \in Nat
  OBVIOUS
<1> QED BY <1>2, <1>3

LEMMA OwnHalf ==
  ASSUME NEW i \in Shots, NEW j \in Shots, NEW tol,
         tol = FirstTol \/ tol = Interval \div 2,
         Between(Instant(2, j), Instant(1, i)) <= tol
  PROVE  j = i
<1>1. /\ Interval \in Nat /\ Skew \in Nat /\ FirstTol \in Nat
      /\ FirstTol + Skew < Interval /\ 2 * Skew < Interval
  BY FramePairingAssumption
<1>2. i \in Nat /\ j \in Nat
  BY ShotsAre
<1> DEFINE a == i * Interval
           b == j * Interval
           half == Interval \div 2
<1>3. a \in Nat /\ b \in Nat
  BY <1>1, <1>2
<1>4. Instant(1, i) = a /\ Instant(2, j) = b + Skew
  BY <1>1, <1>3 DEF Instant
<1>5. half \in Nat /\ 2 * half <= Interval
  BY <1>1
<1>6. i < j => b >= a + Interval
  BY <1>1, <1>2, Multiples
<1>7. j < i => a >= b + Interval
  BY <1>1, <1>2, Multiples
<1> HIDE DEF a, b, half
<1>8. Between(b + Skew, a) <= tol /\ (tol = FirstTol \/ tol = half)
  BY <1>4 DEF half
<1>9. CASE i < j
  BY <1>1, <1>3, <1>5, <1>6, <1>8, <1>9 DEF Between
<1>10. CASE j < i
  BY <1>1, <1>3, <1>5, <1>7, <1>8, <1>10 DEF Between
<1> QED BY <1>2, <1>9, <1>10

LEMMA PartnerIs ==
  ASSUME PairTypeOK, NEW i \in Shots
  PROVE  /\ Partner(i) \in Shots \cup {0}
         /\ Steady(RecentShots) => Partner(i) \in {0, i}
<1> DEFINE near == Halves(i, Tol(RecentShots))
           best(j) == \A k \in near : Between(Instant(2, j), Instant(1, i))
                                        <= Between(Instant(2, k), Instant(1, i))
<1>1. near \subseteq Shots /\ RecentShots \in SUBSET Shots
      /\ \A j \in near : Between(Instant(2, j), Instant(1, i)) <= Tol(RecentShots)
  BY DEF Halves, PairTypeOK, RecentShots, ToSet
<1>2. CASE near = {}
  BY <1>2 DEF Partner
<1>3. CASE near # {}
  <2>1. \E j \in near : best(j)
    <3> DEFINE far(j) == Between(Instant(2, j), Instant(1, i))
               V == {far(j) : j \in near}
    <3>1. V \in SUBSET Nat /\ V # {}
      <4>1. ASSUME NEW j \in near PROVE far(j) \in Nat
        <5>1. /\ i \in Nat /\ j \in Nat /\ Interval \in Nat /\ Skew \in Nat
          BY <1>1, ShotsAre, FramePairingAssumption
        <5>2. j * Interval \in Nat /\ i * Interval \in Nat
          BY <5>1
        <5> DEFINE x == Instant(1, i)
                   y == Instant(2, j)
        <5>3. x \in Nat /\ y \in Nat
          BY <5>1, <5>2 DEF Instant
        <5> HIDE DEF x, y
        <5>4. Between(y, x) \in Nat
          BY <5>3 DEF Between
        <5> QED BY <5>4 DEF x, y
      <4> HIDE DEF far, near
      <4> QED BY <1>3, <4>1
    <3>2. Min(V) \in V /\ \A x \in V : Min(V) <= x
      <4> HIDE DEF V
      <4> QED BY <3>1, LeastOf
    <3>3. PICK j \in near : Min(V) = far(j)
      BY <3>2
    <3>4. \A k \in near : far(j) <= far(k)
      <4> HIDE DEF far, near
      <4>1. \A k \in near : far(k) \in V
        OBVIOUS
      <4> HIDE DEF V
      <4> QED BY <3>2, <3>3, <4>1
    <3> QED BY <3>4
  <2>2. Partner(i) = CHOOSE j \in near : best(j)
    BY <1>3 DEF Partner
  <2> HIDE DEF near, best
  <2>3. Partner(i) \in near
    BY <2>1, <2>2
  <2>4. ASSUME Steady(RecentShots) PROVE Partner(i) = i
    <3>1. Tol(RecentShots) = FirstTol \/ Tol(RecentShots) = Interval \div 2
      BY <1>1, <2>4, SteadyTol
    <3> QED BY <1>1, <2>3, <3>1, OwnHalf
  <2> QED BY <1>1, <2>3, <2>4
<1> QED BY <1>2, <1>3

-----------------------------------------------------------------------------
(***************************************************************************)
(* The watcher keeps its feed in order and accounted for.                  *)
(***************************************************************************)
LEMMA PairingStarts == PairInit => PairInv
<1> SUFFICES ASSUME PairInit PROVE PairInv
  OBVIOUS
<1>1. /\ seen = [c \in PairCams |-> {}] /\ dir = [c \in PairCams |-> {}]
      /\ queue = <<>> /\ ready2 = {} /\ history = <<>> /\ lastFed = 0
      /\ decided = "none" /\ fed = <<>> /\ counted = {} /\ raised = <<>>
  BY DEF PairInit
<1>2. PairTypeOK
  BY <1>1 DEF PairTypeOK, Modes
<1>3. FeedsInOrder
  BY <1>1 DEF FeedsInOrder, Rises
<1>4. PairsAreOneFire
  BY <1>1 DEF PairsAreOneFire
<1>5. FramesAreAccounted
  <2>1. ToSet(queue) = {} /\ ToSet(raised) = {}
    BY <1>1 DEF ToSet
  <2> QED BY <1>1, <2>1 DEF FramesAreAccounted, PairCams
<1> QED BY <1>2, <1>3, <1>4, <1>5 DEF PairInv

\* An arrival and a frame that is held touch nothing the invariant speaks of.
LEMMA QuietKeeps ==
  ASSUME PairInv, dir' \in [PairCams -> SUBSET Shots],
         UNCHANGED <<seen, queue, ready2, history, lastFed, decided, fed,
                     counted, raised>>
  PROVE  PairInv'
<1>1. PairTypeOK'
  BY DEF PairInv, PairTypeOK
<1>2. FeedsInOrder'
  BY DEF PairInv, FeedsInOrder, Clean
<1>3. PairsAreOneFire'
  BY DEF PairInv, PairsAreOneFire
<1>4. FramesAreAccounted'
  BY DEF PairInv, FramesAreAccounted
<1> QED BY <1>1, <1>2, <1>3, <1>4 DEF PairInv

LEMMA ArrivesKeeps ==
  ASSUME PairInv, NEW cam \in PairCams, NEW i \in Shots, Arrives(cam, i)
  PROVE  PairInv'
<1>1. dir' \in [PairCams -> SUBSET Shots]
  BY DEF PairInv, PairTypeOK, Arrives
<1> QED BY <1>1, QuietKeeps DEF Arrives

\* A list of shots read as a set, and what its tail leaves of it.
LEMMA ListSets ==
  ASSUME NEW S, NEW s \in Seq(S)
  PROVE  /\ ToSet(s) \in SUBSET S
         /\ ToSet(s) = {s[k] : k \in 1..Len(s)}
         /\ s # <<>> => /\ Head(s) \in S /\ Tail(s) \in Seq(S)
                        /\ ToSet(s) = {Head(s)} \cup ToSet(Tail(s))
<1>1. \A t \in Seq(S) : DOMAIN t = 1..Len(t) /\ \A k \in 1..Len(t) : t[k] \in S
  OBVIOUS
<1>2. ToSet(s) \in SUBSET S /\ ToSet(s) = {s[k] : k \in 1..Len(s)}
  BY <1>1 DEF ToSet
<1>3. ASSUME s # <<>>
      PROVE  /\ Head(s) \in S /\ Tail(s) \in Seq(S)
             /\ ToSet(s) = {Head(s)} \cup ToSet(Tail(s))
  <2>1. /\ Head(s) = s[1] /\ Head(s) \in S /\ Tail(s) \in Seq(S)
        /\ Len(Tail(s)) = Len(s) - 1 /\ Len(s) \in Nat /\ Len(s) >= 1
        /\ \A k \in 1..Len(s) - 1 : Tail(s)[k] = s[k + 1]
    BY <1>3
  <2>2. ToSet(Tail(s)) = {Tail(s)[k] : k \in 1..Len(s) - 1}
    BY <1>1, <2>1 DEF ToSet
  <2> DEFINE t == Tail(s)
             n == Len(s)
  <2>3. ASSUME NEW x \in ToSet(s) PROVE x = Head(s) \/ x \in ToSet(t)
    <3>1. PICK k \in 1..n : x = s[k]
      BY <1>2
    <3>2. CASE k = 1
      BY <2>1, <3>1, <3>2
    <3>3. CASE k # 1
      <4>1. k - 1 \in 1..n - 1 /\ k = (k - 1) + 1
        BY <2>1, <3>3
      <4>2. t[k - 1] = x
        BY <2>1, <3>1, <4>1
      <4> QED BY <2>2, <4>1, <4>2
    <3> QED BY <3>2, <3>3
  <2>4. ASSUME NEW x \in ToSet(t) PROVE x \in ToSet(s)
    <3>1. PICK k \in 1..n - 1 : x = t[k]
      BY <2>2
    <3>2. k + 1 \in 1..n /\ x = s[k + 1]
      BY <2>1, <3>1
    <3> QED BY <1>2, <3>2
  <2>5. Head(s) \in ToSet(s)
    BY <1>2, <2>1
  <2> QED BY <2>1, <2>3, <2>4, <2>5
<1> QED BY <1>2, <1>3

\* What one more frame does to the accounts.
Added(t, s, x, S) ==
    /\ t \in Seq(S) /\ Len(t) = Len(s) + 1
    /\ t[Len(s) + 1] = x /\ \A k \in 1..Len(s) : t[k] = s[k]
    /\ ToSet(t) = ToSet(s) \cup {x}

LEMMA OneAdded ==
  ASSUME NEW S, NEW s \in Seq(S), NEW x \in S, NEW t, t = Append(s, x)
  PROVE  Added(t, s, x, S)
<1>1. /\ t \in Seq(S) /\ Len(t) = Len(s) + 1 /\ Len(s) \in Nat
      /\ t[Len(s) + 1] = x /\ \A k \in 1..Len(s) : t[k] = s[k]
  OBVIOUS
<1>2. ToSet(t) = {t[k] : k \in 1..Len(t)} /\ ToSet(s) = {s[k] : k \in 1..Len(s)}
  <2>1. \A u \in Seq(S) : ToSet(u) = {u[k] : k \in 1..Len(u)}
    BY ListSets
  <2> QED BY <1>1, <2>1
<1>3. 1..Len(t) = (1..Len(s)) \cup {Len(s) + 1}
  BY <1>1
<1>4. ToSet(t) = ToSet(s) \cup {x}
  BY <1>1, <1>2, <1>3
<1> QED BY <1>1, <1>4 DEF Added

LEMMA NewestIs ==
  ASSUME NEW S, NEW s \in Seq(S)
  PROVE  Newest(s) \in Seq(S)
<1>1. Lately \in Nat /\ Len(s) \in Nat
  BY FramePairingAssumption
<1>2. CASE Len(s) <= Lately
  BY <1>2 DEF Newest
<1>3. CASE ~(Len(s) <= Lately)
  <2>1. Len(s) - Lately + 1 \in Int
        /\ \A k \in Len(s) - Lately + 1..Len(s) : s[k] \in S
    BY <1>1, <1>3
  <2>2. SubSeq(s, Len(s) - Lately + 1, Len(s)) \in Seq(S)
    BY <1>1, <2>1, SubSeqProperties
  <2> QED BY <1>3, <2>2 DEF Newest
<1> QED BY <1>2, <1>3

-----------------------------------------------------------------------------
\* One listing: what is new and not too late is queued after what was fed.
LEMMA ScanKeeps ==
  ASSUME PairInv, Scan
  PROVE  PairInv'
<1> DEFINE new1 == Ready(1) \ seen[1]
           late == {i \in new1 : i <= lastFed}
           come == new1 \ late
           q == Ascending(ToSet(queue) \cup come)
           new2 == IF Wants2 THEN Ready(2) \ seen[2] ELSE {}
<1>1. /\ seen \in [PairCams -> SUBSET Shots] /\ dir \in [PairCams -> SUBSET Shots]
      /\ queue \in Seq(Shots) /\ ready2 \in SUBSET Shots
      /\ history \in Seq(Shots) /\ lastFed \in Shots \cup {0}
      /\ decided \in Modes /\ counted \in SUBSET Shots
  BY DEF PairInv, PairTypeOK
<1>2. /\ seen' = [seen EXCEPT ![1] = @ \cup new1, ![2] = @ \cup new2]
      /\ counted' = counted \cup late /\ queue' = q
      /\ history' = Newest(history \o Ascending(come)) /\ ready2' = ready2 \cup new2
      /\ UNCHANGED <<dir, lastFed, fed, raised>>
  BY DEF Scan
<1>3. /\ new1 \in SUBSET Shots /\ late \in SUBSET Shots /\ come \in SUBSET Shots
      /\ new2 \in SUBSET Shots /\ new1 = late \cup come
  <2>1. Ready(1) \in SUBSET Shots /\ Ready(2) \in SUBSET Shots
    BY <1>1 DEF Ready, PairCams
  <2> QED BY <2>1
<1>4. \A i \in come : i > lastFed
  <2>1. \A i \in come : ~(i <= lastFed)
    OBVIOUS
  <2>2. \A i \in come : i \in Nat /\ lastFed \in Nat
    BY <1>1, <1>3, ShotsAre
  <2> HIDE DEF come
  <2> QED BY <2>1, <2>2
<1>5. decided' \in Modes /\ (decided # "none" => decided' = decided)
  <2>1. decided' = Decision(queue', ready2', Tol(RecentShots'))
    BY DEF Scan
  <2> QED BY <1>1, <2>1 DEF Decision, Modes
<1> DEFINE Q == ToSet(queue) \cup come
<1>6. Q \in SUBSET Shots
  BY <1>1, <1>3, ListSets
<1>7. q \in Seq(Q) /\ ToSet(q) = Q /\ Rises(q) /\ q \in Seq(Shots)
  <2>1. IsFiniteSet(Q) /\ Q \in SUBSET Nat
    BY <1>6, ShotsAre, FS_Subset
  <2>2. q = Ascending(Q)
    OBVIOUS
  <2> HIDE DEF Q, q
  <2>3. q \in Seq(Q) /\ ToSet(q) = Q /\ Rises(q)
    BY <2>1, <2>2, AscendingIs
  <2> QED BY <1>6, <2>3
<1> HIDE DEF q, new1, late, new2
<1>8. PairTypeOK'
  <2>1. seen' \in [PairCams -> SUBSET Shots]
    BY <1>1, <1>2, <1>3 DEF PairCams
  <2>2. fed' \in Seq(Feeds) /\ raised' \in Seq(Shots)
    BY <1>2 DEF PairInv, PairTypeOK
  <2>3. history' \in Seq(Shots)
    <3>1. IsFiniteSet(come) /\ come \in SUBSET Nat
      BY <1>3, ShotsAre, FS_Subset
    <3> HIDE DEF come
    <3>2. Ascending(come) \in Seq(come)
      BY <3>1, AscendingIs
    <3> DEFINE all == history \o Ascending(come)
    <3>3. all \in Seq(Shots)
      BY <1>1, <1>3, <3>2
    <3> HIDE DEF all
    <3>4. Newest(all) \in Seq(Shots)
      BY <3>3, NewestIs
    <3> QED BY <1>2, <3>4 DEF all
  <2> HIDE DEF come
  <2> QED BY <1>1, <1>2, <1>3, <1>5, <1>7, <2>1, <2>2, <2>3 DEF PairTypeOK
<1>9. FeedsInOrder'
  <2>1. decided' = "none" => raised' = <<>>
    <3>1. decided' = "none" => decided = "none"
      BY <1>5
    <3> QED BY <1>2, <3>1 DEF PairInv, FeedsInOrder
  <2>2. ASSUME Clean'
        PROVE  /\ Rises(queue)' /\ (\A k \in 1..Len(queue) : queue[k] > lastFed)'
               /\ (\A i, j \in 1..Len(fed) : i < j => fed[i][1] < fed[j][1])'
               /\ (\A k \in 1..Len(fed) : fed[k][1] <= lastFed)'
    <3>1. Clean
      <4>1. CASE decided = "none"
        BY <4>1 DEF Clean
      <4>2. CASE decided # "none"
        BY <1>2, <1>5, <2>2, <4>2 DEF Clean
      <4> QED BY <4>1, <4>2
    <3>2. /\ \A k \in 1..Len(queue) : queue[k] > lastFed
          /\ \A i, j \in 1..Len(fed) : i < j => fed[i][1] < fed[j][1]
          /\ \A k \in 1..Len(fed) : fed[k][1] <= lastFed
      BY <3>1 DEF PairInv, FeedsInOrder
    <3>3. Rises(queue)'
      <4>1. Rises(queue')
        BY <1>2, <1>7
      <4> QED BY <4>1 DEF Rises
    <3>4. ASSUME NEW k \in 1..Len(q) PROVE q[k] > lastFed
      <4>1. q[k] \in ToSet(queue) \cup come
        BY <1>7
      <4>2. ASSUME q[k] \in ToSet(queue) PROVE q[k] > lastFed
        <5>1. PICK l \in 1..Len(queue) : q[k] = queue[l]
          BY <1>1, <4>2, ListSets
        <5> QED BY <3>2, <5>1
      <4> QED BY <1>4, <4>1, <4>2
    <3> QED BY <1>2, <3>2, <3>3, <3>4
  <2> QED BY <2>1, <2>2 DEF FeedsInOrder
<1>10. PairsAreOneFire'
  BY <1>2 DEF PairInv, PairsAreOneFire
<1>11. FramesAreAccounted'
  <2>1. seen'[1] = seen[1] \cup new1
    BY <1>1, <1>2 DEF PairCams
  <2>2. seen[1] = ToSet(queue) \cup {fed[k][1] : k \in 1..Len(fed)}
                    \cup counted \cup ToSet(raised)
    BY DEF PairInv, FramesAreAccounted
  <2>3. ToSet(queue') = ToSet(queue) \cup come
    BY <1>2, <1>7
  <2> HIDE DEF come
  <2>4. seen'[1] = ToSet(queue') \cup {fed[k][1] : k \in 1..Len(fed)}
                     \cup counted' \cup ToSet(raised)
    BY <1>2, <1>3, <2>1, <2>2, <2>3
  <2> QED BY <1>2, <2>4 DEF FramesAreAccounted
<1> QED BY <1>8, <1>9, <1>10, <1>11 DEF PairInv

-----------------------------------------------------------------------------
\* A stereo feed takes the head of the queue, whether or not it raises.
LEMMA FeedStereoKeeps ==
  ASSUME PairInv, NEW raises \in BOOLEAN, FeedStereo(raises)
  PROVE  PairInv'
<1> DEFINE i == Head(queue)
           j == Partner(i)
           frame == <<i, j, Steady(RecentShots)>>
<1>1. /\ seen \in [PairCams -> SUBSET Shots] /\ dir \in [PairCams -> SUBSET Shots]
      /\ queue \in Seq(Shots) /\ ready2 \in SUBSET Shots
      /\ history \in Seq(Shots) /\ lastFed \in Shots \cup {0}
      /\ counted \in SUBSET Shots /\ fed \in Seq(Feeds) /\ raised \in Seq(Shots)
  BY DEF PairInv, PairTypeOK
<1>2. /\ queue # <<>> /\ decided = "stereo" /\ queue' = Tail(queue)
      /\ UNCHANGED <<dir, seen, history, decided, counted>>
      /\ ready2' \in SUBSET ready2
  BY DEF FeedStereo
<1>3. raises => raised' = Append(raised, i) /\ UNCHANGED <<fed, lastFed>>
  BY DEF FeedStereo
<1>4. ~raises => fed' = Append(fed, frame) /\ lastFed' = i /\ UNCHANGED raised
  BY DEF FeedStereo
<1>5. /\ i \in Shots /\ queue' \in Seq(Shots)
      /\ ToSet(queue) = {i} \cup ToSet(queue')
  BY <1>1, <1>2, ListSets
<1>6. j \in Shots \cup {0} /\ (Steady(RecentShots) => j \in {0, i})
  BY <1>5, PartnerIs DEF PairInv
<1>7. frame \in Feeds
  <2>1. Steady(RecentShots) \in BOOLEAN
    BY DEF Steady
  <2> HIDE DEF i, j
  <2> QED BY <1>5, <1>6, <2>1 DEF Feeds
<1>8. /\ frame[1] = i /\ frame[2] = j /\ frame[3] = Steady(RecentShots)
  OBVIOUS
<1>9. /\ Rises(queue) /\ \A k \in 1..Len(queue) : queue[k] > lastFed
      /\ \A k, l \in 1..Len(fed) : k < l => fed[k][1] < fed[l][1]
      /\ \A k \in 1..Len(fed) : fed[k][1] <= lastFed
  BY <1>2 DEF PairInv, FeedsInOrder, Clean
<1>10. /\ i = queue[1] /\ Len(queue) \in Nat /\ 1 \in 1..Len(queue)
       /\ Len(queue') = Len(queue) - 1
       /\ \A k \in 1..Len(queue') : queue'[k] = queue[k + 1] /\ k + 1 \in 1..Len(queue)
  BY <1>1, <1>2
<1> HIDE DEF i, j, frame
<1>11. /\ Rises(queue') /\ i > lastFed /\ i \in Nat /\ lastFed \in Nat
       /\ \A k \in 1..Len(queue') : queue'[k] > i /\ queue'[k] > lastFed
  <2>1. i > lastFed /\ i \in Nat /\ lastFed \in Nat
    BY <1>1, <1>5, <1>9, <1>10, ShotsAre
  <2>2. ASSUME NEW k \in 1..Len(queue') PROVE queue'[k] > i /\ queue'[k] > lastFed
    <3>1. queue'[k] = queue[k + 1] /\ k + 1 \in 1..Len(queue) /\ 1 < k + 1
      BY <1>10
    <3>2. queue[1] < queue[k + 1] /\ queue[k + 1] > lastFed
      BY <1>9, <1>10, <3>1 DEF Rises
    <3>3. queue'[k] \in Nat
      BY <1>1, <3>1, ShotsAre
    <3> QED BY <1>10, <2>1, <3>1, <3>2, <3>3
  <2>3. ASSUME NEW k \in 1..Len(queue'), NEW l \in 1..Len(queue'), k < l
        PROVE  queue'[k] < queue'[l]
    <3>1. k + 1 < l + 1
      BY <2>3
    <3> QED BY <1>9, <1>10, <3>1 DEF Rises
  <2> QED BY <2>1, <2>2, <2>3 DEF Rises
<1>12. raises => /\ raised' \in Seq(Shots) /\ ToSet(raised') = ToSet(raised) \cup {i}
  <2>1. raises => Added(raised', raised, i, Shots)
    BY <1>1, <1>3, <1>5, OneAdded
  <2> QED BY <2>1 DEF Added
<1>13. ~raises => /\ fed' \in Seq(Feeds) /\ Len(fed') = Len(fed) + 1
                  /\ fed'[Len(fed) + 1] = frame
                  /\ \A k \in 1..Len(fed) : fed'[k] = fed[k]
  <2>1. ~raises => Added(fed', fed, frame, Feeds)
    BY <1>1, <1>4, <1>7, OneAdded
  <2> QED BY <2>1 DEF Added
<1>14. Len(fed) \in Nat /\ 1..Len(fed) + 1 = (1..Len(fed)) \cup {Len(fed) + 1}
  BY <1>1
<1>15. PairTypeOK'
  <2>1. fed' \in Seq(Feeds) /\ raised' \in Seq(Shots) /\ lastFed' \in Shots \cup {0}
    BY <1>1, <1>3, <1>4, <1>5, <1>12, <1>13
  <2> QED BY <1>1, <1>2, <1>5, <2>1 DEF PairTypeOK, Modes
<1>16. FeedsInOrder'
  <2>1. CASE raises
    <3>1. fed' = fed /\ lastFed' = lastFed
      BY <1>3, <2>1
    <3>2. (decided = "none" => raised = <<>>)'
      BY <1>2
    <3>3. Rises(queue)'
      BY <1>11 DEF Rises
    <3> QED BY <1>9, <1>11, <3>1, <3>2, <3>3 DEF FeedsInOrder
  <2>2. CASE ~raises
    <3>1. lastFed' = i /\ (decided = "none" => raised = <<>>)'
      BY <1>2, <1>4, <2>2
    <3>2. Rises(queue)'
      BY <1>11 DEF Rises
    <3>3. ASSUME NEW k \in 1..Len(fed')
          PROVE  \/ k \in 1..Len(fed) /\ fed'[k] = fed[k] /\ fed[k][1] < i
                 \/ k = Len(fed) + 1 /\ fed'[k][1] = i
      <4>1. k \in 1..Len(fed) \/ k = Len(fed) + 1
        BY <1>13, <1>14, <2>2
      <4>2. ASSUME k \in 1..Len(fed) PROVE fed[k][1] < i
        <5>1. fed[k][1] \in Nat
          BY <1>1, <4>2, ShotsAre DEF Feeds
        <5> QED BY <1>9, <1>11, <4>2, <5>1
      <4> QED BY <1>8, <1>13, <2>2, <4>1, <4>2
    <3>4. ASSUME NEW k \in 1..Len(fed') PROVE fed'[k][1] <= lastFed'
      <4>1. k \in 1..Len(fed) => fed[k][1] \in Nat
        BY <1>1, ShotsAre DEF Feeds
      <4> QED BY <1>11, <3>1, <3>3, <4>1
    <3>5. ASSUME NEW k \in 1..Len(fed'), NEW l \in 1..Len(fed'), k < l
          PROVE  fed'[k][1] < fed'[l][1]
      <4>1. k \in 1..Len(fed) /\ fed'[k] = fed[k] /\ fed[k][1] < i
        <5>1. k # Len(fed) + 1
          BY <1>13, <1>14, <2>2, <3>5
        <5> QED BY <3>3, <5>1
      <4>2. CASE l \in 1..Len(fed) /\ fed'[l] = fed[l]
        BY <1>9, <3>5, <4>1, <4>2
      <4>3. CASE fed'[l][1] = i
        BY <4>1, <4>3
      <4> QED BY <3>3, <4>2, <4>3
    <3> QED BY <1>11, <3>1, <3>2, <3>4, <3>5, <3>2 DEF FeedsInOrder, Rises
  <2> QED BY <2>1, <2>2
<1>17. PairsAreOneFire'
  <2>1. \A k \in 1..Len(fed) : fed[k][3] => fed[k][2] \in {0, fed[k][1]}
    BY DEF PairInv, PairsAreOneFire
  <2>2. CASE raises
    BY <1>3, <2>1, <2>2 DEF PairsAreOneFire
  <2>3. CASE ~raises
    <3>1. ASSUME NEW k \in 1..Len(fed'), fed'[k][3]
          PROVE  fed'[k][2] \in {0, fed'[k][1]}
      <4>1. CASE k \in 1..Len(fed)
        BY <1>13, <2>1, <2>3, <3>1, <4>1
      <4>2. CASE k = Len(fed) + 1
        BY <1>6, <1>8, <1>13, <2>3, <3>1, <4>2
      <4> QED BY <1>13, <1>14, <2>3, <4>1, <4>2
    <3> QED BY <3>1 DEF PairsAreOneFire
  <2> QED BY <2>2, <2>3
<1>18. FramesAreAccounted'
  <2>1. seen[1] = ToSet(queue) \cup {fed[k][1] : k \in 1..Len(fed)}
                    \cup counted \cup ToSet(raised)
    BY DEF PairInv, FramesAreAccounted
  <2> DEFINE done == {fed[k][1] : k \in 1..Len(fed)}
             after == {fed'[k][1] : k \in 1..Len(fed')}
  <2>2. CASE raises
    <3>1. after = done
      BY <1>3, <2>2
    <3> HIDE DEF done, after
    <3>2. seen[1] = ToSet(queue') \cup after \cup counted \cup ToSet(raised')
      BY <1>5, <1>12, <2>1, <2>2, <3>1 DEF done
    <3> QED BY <1>2, <3>2 DEF FramesAreAccounted, after
  <2>3. CASE ~raises
    <3>1. after = done \cup {i}
      BY <1>8, <1>13, <1>14, <2>3
    <3> HIDE DEF done, after
    <3>2. seen[1] = ToSet(queue') \cup after \cup counted \cup ToSet(raised)
      BY <1>5, <2>1, <3>1 DEF done
    <3> QED BY <1>2, <1>4, <2>3, <3>2 DEF FramesAreAccounted, after
  <2> QED BY <2>2, <2>3
<1> QED BY <1>15, <1>16, <1>17, <1>18 DEF PairInv

\* One list put after another.
Onto(x, s, t, S) ==
    /\ x \in Seq(S) /\ Len(x) = Len(s) + Len(t) /\ Len(s) \in Nat
    /\ \A k \in 1..Len(s) : x[k] = s[k]
    /\ \A k \in 1..Len(t) : x[Len(s) + k] = t[k]

LEMMA Appended ==
  ASSUME NEW S, NEW s \in Seq(S), NEW t \in Seq(S), NEW x, x = s \o t
  PROVE  Onto(x, s, t, S)
<1>1. /\ x \in Seq(S) /\ Len(x) = Len(s) + Len(t) /\ Len(s) \in Nat /\ Len(t) \in Nat
      /\ \A i \in 1..Len(s) + Len(t) :
             x[i] = IF i <= Len(s) THEN s[i] ELSE t[i - Len(s)]
  BY ConcatProperties
<1>2. ASSUME NEW k \in 1..Len(s) PROVE x[k] = s[k]
  BY <1>1
<1>3. ASSUME NEW k \in 1..Len(t) PROVE x[Len(s) + k] = t[k]
  <2>1. Len(s) + k \in 1..Len(s) + Len(t) /\ ~(Len(s) + k <= Len(s))
        /\ (Len(s) + k) - Len(s) = k
    BY <1>1
  <2> QED BY <1>1, <2>1
<1> QED BY <1>1, <1>2, <1>3 DEF Onto

\* A mono feed gives the engine the queue, or what comes before the feed that
\* raised; that one leaves the chain unclean, and its order is no longer promised.
LEMMA FeedMonoKeeps ==
  ASSUME PairInv, NEW n \in Nat, FeedMono(n)
  PROVE  PairInv'
<1> DEFINE made == [k \in 1..n |-> <<queue[k], 0, FALSE>>]
           N == Len(fed)
<1>1. /\ seen \in [PairCams -> SUBSET Shots] /\ dir \in [PairCams -> SUBSET Shots]
      /\ queue \in Seq(Shots) /\ ready2 \in SUBSET Shots
      /\ history \in Seq(Shots) /\ lastFed \in Shots \cup {0}
      /\ counted \in SUBSET Shots /\ fed \in Seq(Feeds) /\ raised \in Seq(Shots)
  BY DEF PairInv, PairTypeOK
<1>2. /\ decided = "mono" /\ n \in 0..Len(queue) /\ fed' = fed \o made
      /\ lastFed' = (IF n = 0 THEN lastFed ELSE queue[n])
      /\ UNCHANGED <<dir, seen, ready2, history, decided, counted>>
  BY DEF FeedMono
<1>3. n = Len(queue) => queue' = <<>> /\ raised' = raised
  BY DEF FeedMono
<1>4. n # Len(queue) => raised' = Append(raised, queue[n + 1]) /\ queue' = queue
  BY DEF FeedMono
<1>5. \A k \in 1..n : k \in 1..Len(queue) /\ queue[k] \in Shots
  BY <1>1, <1>2
<1>6. made \in Seq(Feeds) /\ Len(made) = n
      /\ \A k \in 1..n : made[k][1] = queue[k] /\ made[k][2] = 0 /\ made[k][3] = FALSE
  <2>1. \A k \in 1..n : <<queue[k], 0, FALSE>> \in Feeds
    BY <1>5 DEF Feeds
  <2>2. made \in [1..n -> Feeds]
    BY <2>1
  <2>3. made \in Seq(Feeds) /\ Len(made) = n
    <3> HIDE DEF made
    <3> QED BY <2>2
  <2> QED BY <2>3
<1> HIDE DEF made
<1>7. /\ fed' \in Seq(Feeds) /\ Len(fed') = N + n /\ N \in Nat
      /\ \A k \in 1..N : fed'[k] = fed[k]
      /\ \A k \in 1..n : fed'[N + k] = made[k]
  <2>1. Onto(fed', fed, made, Feeds)
    BY <1>1, <1>2, <1>6, Appended
  <2> QED BY <1>6, <2>1 DEF Onto
<1>8. \A k \in 1..Len(fed') : \/ k \in 1..N /\ fed'[k] = fed[k]
                             \/ \E l \in 1..n : k = N + l /\ fed'[k] = made[l]
  <2>1. ASSUME NEW k \in 1..N + n, ~(k \in 1..N) PROVE k - N \in 1..n /\ k = N + (k - N)
    BY <1>7, <2>1
  <2>2. ASSUME NEW k \in 1..Len(fed')
        PROVE  \/ k \in 1..N /\ fed'[k] = fed[k]
               \/ \E l \in 1..n : k = N + l /\ fed'[k] = made[l]
    <3>1. CASE k \in 1..N
      BY <1>7, <3>1
    <3>2. CASE ~(k \in 1..N)
      <4>1. k \in 1..N + n
        BY <1>7
      <4>2. PICK l \in 1..n : k = N + l
        BY <2>1, <3>2, <4>1
      <4>3. fed'[N + l] = made[l]
        BY <1>7
      <4> QED BY <4>2, <4>3
    <3> QED BY <3>1, <3>2
  <2> QED BY <2>2
<1>9. \A k \in 1..n : N + k \in 1..Len(fed')
  BY <1>7
<1> HIDE DEF N
<1>10. /\ raised' \in Seq(Shots)
       /\ n # Len(queue) => /\ queue[n + 1] \in ToSet(queue) /\ raised' # <<>>
                            /\ ToSet(raised') = ToSet(raised) \cup {queue[n + 1]}
  <2>1. CASE n = Len(queue)
    BY <1>1, <1>3, <2>1
  <2>2. CASE n # Len(queue)
    <3>1. n + 1 \in 1..Len(queue)
      BY <1>1, <1>2, <2>2
    <3>2. queue[n + 1] \in Shots /\ queue[n + 1] \in ToSet(queue)
      <4>1. ToSet(queue) = {queue[k] : k \in 1..Len(queue)}
        BY <1>1, ListSets
      <4> QED BY <1>1, <3>1, <4>1
    <3>3. Added(raised', raised, queue[n + 1], Shots)
      BY <1>1, <1>4, <2>2, <3>2, OneAdded
    <3>4. /\ raised' \in Seq(Shots) /\ Len(raised') = Len(raised) + 1
          /\ ToSet(raised') = ToSet(raised) \cup {queue[n + 1]}
      BY <3>3 DEF Added
    <3>5. raised' # <<>>
      BY <1>1, <3>4
    <3> QED BY <3>2, <3>4, <3>5
  <2> QED BY <2>1, <2>2
<1>11. PairTypeOK'
  <2>1. queue' \in Seq(Shots)
    <3>1. CASE n = Len(queue)
      BY <1>3, <3>1
    <3>2. CASE n # Len(queue)
      BY <1>1, <1>4, <3>2
    <3> QED BY <3>1, <3>2
  <2>2. lastFed' \in Shots \cup {0}
    BY <1>1, <1>2, <1>5
  <2> QED BY <1>1, <1>2, <1>7, <1>10, <2>1, <2>2 DEF PairTypeOK, Modes
<1>12. FeedsInOrder'
  <2>1. (decided = "none" => raised = <<>>)'
    BY <1>2
  <2>2. CASE n # Len(queue)
    <3>1. ~Clean'
      BY <1>2, <1>10, <2>2 DEF Clean
    <3> QED BY <2>1, <3>1 DEF FeedsInOrder
  <2>3. CASE n = Len(queue)
    <3>1. Clean' => Clean
      BY <1>2, <1>3, <2>3 DEF Clean
    <3>2. ASSUME Clean'
          PROVE  /\ \A k, l \in 1..Len(fed') : k < l => fed'[k][1] < fed'[l][1]
                 /\ \A k \in 1..Len(fed') : fed'[k][1] <= lastFed'
      <4>1. /\ Rises(queue) /\ \A k \in 1..Len(queue) : queue[k] > lastFed
            /\ \A k, l \in 1..N : k < l => fed[k][1] < fed[l][1]
            /\ \A k \in 1..N : fed[k][1] <= lastFed
        BY <3>1, <3>2 DEF PairInv, FeedsInOrder, N
      <4>2. /\ \A k \in 1..N : fed[k][1] \in Nat
            /\ \A k \in 1..n : queue[k] \in Nat
            /\ lastFed \in Nat
        BY <1>1, <1>5, ShotsAre DEF Feeds, N
      <4>3. ASSUME NEW k \in 1..N, NEW l \in 1..n PROVE fed[k][1] < queue[l]
        BY <1>5, <4>1, <4>2
      <4>4. ASSUME NEW k \in 1..Len(fed'), NEW l \in 1..Len(fed'), k < l
            PROVE  fed'[k][1] < fed'[l][1]
        <5>1. CASE l \in 1..N /\ fed'[l] = fed[l]
          <6>1. k \in 1..N
            BY <1>7, <4>4, <5>1
          <6> QED BY <1>7, <4>1, <4>4, <5>1, <6>1
        <5>2. CASE \E m \in 1..n : l = N + m /\ fed'[l] = made[m]
          <6>1. PICK m \in 1..n : l = N + m /\ fed'[l] = made[m]
            BY <5>2
          <6>2. fed'[l][1] = queue[m]
            BY <1>6, <6>1
          <6>3. CASE k \in 1..N /\ fed'[k] = fed[k]
            BY <4>3, <6>2, <6>3
          <6>4. CASE \E j \in 1..n : k = N + j /\ fed'[k] = made[j]
            <7>1. PICK j \in 1..n : k = N + j /\ fed'[k] = made[j]
              BY <6>4
            <7>2. j < m
              BY <1>7, <4>4, <6>1, <7>1
            <7>3. queue[j] < queue[m]
              BY <1>5, <4>1, <7>2 DEF Rises
            <7> QED BY <1>6, <6>2, <7>1, <7>3
          <6> QED BY <1>8, <6>3, <6>4
        <5> QED BY <1>8, <5>1, <5>2
      <4>5. ASSUME NEW k \in 1..Len(fed') PROVE fed'[k][1] <= lastFed'
        <5>1. CASE n = 0
          <6>1. k \in 1..N /\ fed'[k] = fed[k]
            BY <1>8, <5>1
          <6> QED BY <1>2, <4>1, <5>1, <6>1
        <5>2. CASE n # 0
          <6>1. n \in 1..n /\ lastFed' = queue[n]
            BY <1>2, <5>2
          <6>2. CASE k \in 1..N /\ fed'[k] = fed[k]
            BY <4>2, <4>3, <6>1, <6>2
          <6>3. CASE \E j \in 1..n : k = N + j /\ fed'[k] = made[j]
            <7>1. PICK j \in 1..n : k = N + j /\ fed'[k] = made[j]
              BY <6>3
            <7>2. queue[j] <= queue[n]
              <8>1. CASE j = n
                BY <4>2, <6>1, <8>1
              <8>2. CASE j < n
                <9>1. queue[j] < queue[n]
                  BY <1>5, <4>1, <6>1, <8>2 DEF Rises
                <9> QED BY <4>2, <6>1, <9>1
              <8> QED BY <8>1, <8>2
            <7> QED BY <1>6, <6>1, <7>1, <7>2
          <6> QED BY <1>8, <6>2, <6>3
        <5> QED BY <5>1, <5>2
      <4> QED BY <4>4, <4>5
    <3>3. (Rises(queue) /\ \A k \in 1..Len(queue) : queue[k] > lastFed)'
      BY <1>3, <2>3 DEF Rises
    <3> QED BY <2>1, <3>2, <3>3 DEF FeedsInOrder
  <2> QED BY <2>2, <2>3
<1>13. PairsAreOneFire'
  <2>1. ASSUME NEW k \in 1..Len(fed'), fed'[k][3]
        PROVE  fed'[k][2] \in {0, fed'[k][1]}
    <3>1. CASE k \in 1..N /\ fed'[k] = fed[k]
      BY <2>1, <3>1 DEF PairInv, PairsAreOneFire, N
    <3>2. CASE \E l \in 1..n : k = N + l /\ fed'[k] = made[l]
      BY <1>6, <2>1, <3>2
    <3> QED BY <1>8, <3>1, <3>2
  <2> QED BY <2>1 DEF PairsAreOneFire
<1>14. FramesAreAccounted'
  <2>1. seen[1] = ToSet(queue) \cup {fed[k][1] : k \in 1..N}
                    \cup counted \cup ToSet(raised)
    BY DEF PairInv, FramesAreAccounted, N
  <2> DEFINE done == {fed[k][1] : k \in 1..N}
             now == {queue[k] : k \in 1..n}
             after == {fed'[k][1] : k \in 1..Len(fed')}
  <2>2. after = done \cup now
    <3>1. ASSUME NEW k \in 1..Len(fed') PROVE fed'[k][1] \in done \cup now
      BY <1>6, <1>8
    <3>2. ASSUME NEW k \in 1..N PROVE fed[k][1] \in after
      <4>1. k \in 1..Len(fed') /\ fed'[k] = fed[k]
        BY <1>7
      <4> QED BY <4>1
    <3>3. ASSUME NEW k \in 1..n PROVE queue[k] \in after
      <4>1. N + k \in 1..Len(fed') /\ fed'[N + k][1] = queue[k]
        BY <1>6, <1>7, <1>9
      <4> QED BY <4>1
    <3> QED BY <3>1, <3>2, <3>3
  <2>3. ToSet(queue) = {queue[k] : k \in 1..Len(queue)}
    BY <1>1, ListSets
  <2>4. now \subseteq ToSet(queue)
    BY <1>5, <2>3
  <2> HIDE DEF done, after
  <2>5. seen[1] = ToSet(queue') \cup after \cup counted \cup ToSet(raised')
    <3>1. CASE n = Len(queue)
      <4>1. now = ToSet(queue) /\ ToSet(queue') = {}
        BY <1>3, <2>3, <3>1 DEF ToSet
      <4> HIDE DEF now
      <4> QED BY <1>3, <2>1, <2>2, <3>1, <4>1 DEF done
    <3>2. CASE n # Len(queue)
      <4> HIDE DEF now
      <4> QED BY <1>4, <1>10, <2>1, <2>2, <2>4, <3>2 DEF done
    <3> QED BY <3>1, <3>2
  <2> QED BY <1>2, <2>5 DEF FramesAreAccounted, after
<1> QED BY <1>11, <1>12, <1>13, <1>14 DEF PairInv

LEMMA PairingGoesOn == PairInv /\ [PairNext]_pairVars => PairInv'
<1> SUFFICES ASSUME PairInv, [PairNext]_pairVars PROVE PairInv'
  OBVIOUS
<1>1. CASE UNCHANGED pairVars
  <2>1. dir' \in [PairCams -> SUBSET Shots]
    BY <1>1 DEF PairInv, PairTypeOK, pairVars
  <2> QED BY <1>1, <2>1, QuietKeeps DEF pairVars
<1>2. ASSUME NEW cam \in PairCams, NEW i \in Shots, Arrives(cam, i) PROVE PairInv'
  BY <1>2, ArrivesKeeps
<1>3. CASE Scan
  BY <1>3, ScanKeeps
<1>4. CASE HoldsBack
  <2>1. dir' \in [PairCams -> SUBSET Shots]
    BY <1>4 DEF PairInv, PairTypeOK, HoldsBack
  <2> QED BY <1>4, <2>1, QuietKeeps DEF HoldsBack
<1>5. ASSUME NEW raises \in BOOLEAN, FeedStereo(raises) PROVE PairInv'
  BY <1>5, FeedStereoKeeps
<1>6. ASSUME NEW n \in 0..Cardinality(Shots), FeedMono(n) PROVE PairInv'
  <2>1. n \in Nat
    BY ShotsAre
  <2> QED BY <1>6, <2>1, FeedMonoKeeps
<1> QED BY <1>1, <1>2, <1>3, <1>4, <1>5, <1>6 DEF PairNext, Poll

\* What is queued is ordered and after what was fed, as long as no mono feed
\* raised; and what was listed is in exactly the places it can be in.
THEOREM PairInductive == PairSpec => []PairInv
BY PairingStarts, PairingGoesOn, PTL DEF PairSpec

\* The engine gets the frames in the order of their instants, a pair is one
\* fire whenever the last frames showed their cadence, and no frame that was
\* ready is lost between the listing and the engine.
THEOREM FeedStaysHonest == PairSpec => []FeedIsHonest
<1>1. PairInv => FeedIsHonest
  <2> SUFFICES ASSUME PairInv PROVE FeedIsHonest
    OBVIOUS
  <2>1. FedInOrder
    <3>1. SUFFICES ASSUME Clean, NEW k \in 1..Len(fed) - 1
                   PROVE  fed[k][1] < fed[k + 1][1]
      BY DEF FedInOrder, Clean
    <3>2. Len(fed) \in Nat
      BY DEF PairInv, PairTypeOK
    <3>3. k \in 1..Len(fed) /\ k + 1 \in 1..Len(fed) /\ k < k + 1
      BY <3>2
    <3> QED BY <3>1, <3>3 DEF PairInv, FeedsInOrder
  <2> QED BY <2>1 DEF PairInv, FeedIsHonest
<1> QED BY <1>1, PairInductive, PTL
=============================================================================
