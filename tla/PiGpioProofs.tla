---------------------------- MODULE PiGpioProofs ----------------------------
(***************************************************************************)
(* The agent's answers and records are what happened: for any clients,     *)
(* schedules, leases and waits, any number of calls, and any writes that   *)
(* fail, edges that ring and deaths of the edge monitor.                   *)
(***************************************************************************)
EXTENDS PiGpio, TLAPS

\* The kinds of records.
Shots == [pc : {"idle", "wait", "aimed", "fired"}, lead : BOOLEAN, wait : Nat,
          id : Nat, at : Nat]
Loops == [pc : {"none", "slot", "fire", "gap", "done", "dead"}, left : Int, wait : Nat,
          gap : Nat, stop : BOOLEAN, bad : BOOLEAN]
Directions == {"fall", "rise"}
Stamped == [dir : Directions, n : Nat, stamp : {"good", "absent", "ahead"}]
References == [domain : {"none", "raw", "epoch"}, at : Nat]
EdgeRecords == [dir : Directions, n : Nat, fs : Nat, hw : BOOLEAN, gen : Nat]

PiTypeOK ==
    /\ held \in BOOLEAN /\ wire \in {"idle", "low", "stuck"}
    /\ lease \in Nat /\ ttl \in Nat
    /\ shot \in [PiThreads -> Shots] /\ lock \in PiThreads \cup {None} /\ seq \in Nat
    /\ answers \subseteq [id : Nat, at : Nat]
    /\ pending \in [id : Nat, left : Nat]
    /\ loop \in [Schedules -> Loops] /\ current \in Schedules \cup {None}
    /\ running \in BOOLEAN
    /\ behind \in BOOLEAN /\ stepping \subseteq Clients
    /\ pipe \in Seq(Stamped) /\ exposures \in Seq(Int)
    /\ last \in [Directions -> References] /\ open \in [id : Nat, gen : Nat]
    /\ edges \in Seq(EdgeRecords) /\ deaths \in Nat
    /\ budget \in [{"calls", "faults"} -> Nat]

\* The fire lock is held by the one thread that has a shot; from its aim to its
\* answer the identity it was given is the latest.
Aimed(p) == shot[p].pc \in {"aimed", "fired"}
ShotsInOrder ==
    /\ \A p \in PiThreads : shot[p].pc # "idle" <=> lock = p
    /\ \A p \in PiThreads : Aimed(p) => shot[p].id = seq /\ seq # None

\* A schedule's thread waits for its fire while it has one, and the thread that
\* was not told to stop is the current one, or was when a write killed it.
LoopsInOrder ==
    /\ \A s \in Schedules : loop[s].pc = "fire" <=> shot[s].pc # "idle"
    /\ \A s \in Schedules : Owns(s) => current = s
    /\ running <=> Orphan \/ \E s \in Schedules : Owns(s)

\* The line may differ from what its owner wants only within a fire that has
\* lowered it for itself.
WireInOrder ==
    lock = None \/ ~shot[lock].lead \/ shot[lock].pc = "wait" =>
        (wire = "stuck" /\ ~held) \/ wire = Wanted

\* What is yet to be read was exposed by the latest fire or by the body; of an
\* exposure the falls come first and a rise last, and nothing behind a rise that
\* was recorded is a fall of the same exposure.
Of(n, id) == exposures[n] \in {id, Foreign}
PipeInOrder ==
    /\ \A i \in 1..Len(pipe) : pipe[i].n \in 1..Len(exposures) /\ Of(pipe[i].n, seq)
    /\ \A i, j \in 1..Len(pipe) :
          i < j /\ pipe[i].n = pipe[j].n /\ pipe[i].dir = "rise" => pipe[j].dir = "rise"
    /\ \A i \in 1..Len(pipe) : pipe[i].dir = "fall" =>
          \E j \in i + 1..Len(pipe) : pipe[j].n = pipe[i].n /\ pipe[j].dir = "rise"
    /\ \A d \in Directions : last[d].at \in 0..Len(exposures)
    /\ \A i \in 1..Len(pipe) : pipe[i].n = last["rise"].at => pipe[i].dir = "rise"

\* A fire's identity is given out once for each direction.
Taken(d, id) == \E i \in 1..Len(edges) : edges[i].dir = d /\ edges[i].fs = id
GivenOnce ==
    /\ pending.left > 0 => pending.id = seq /\ seq # None /\ ~Taken("fall", seq)
    /\ open.id # None => Taken("fall", open.id) /\ ~Taken("rise", open.id)
    /\ \A i \in 1..Len(edges) :
          /\ edges[i].fs <= seq
          /\ edges[i].fs # None => Taken("fall", edges[i].fs)
    /\ \A i, j \in 1..Len(edges) :
          edges[i].fs # None /\ edges[i].fs = edges[j].fs /\ edges[i].dir = edges[j].dir
              => i = j

\* Until the rise that closes it is read, an exposure whose fall was seen by the
\* living monitor is of the latest fire.
RiseToCome == \E i \in 1..Len(pipe) :
                  pipe[i].dir = "rise" /\ pipe[i].n # last["rise"].at
Identified ==
    /\ open.gen <= deaths
    /\ open.id # None /\ open.gen = deaths => open.id = seq /\ RiseToCome
    /\ \A i \in 1..Len(edges) :
          /\ edges[i].n \in 1..Len(exposures) /\ edges[i].gen <= deaths
          /\ edges[i].fs # None /\ edges[i].gen = deaths => Of(edges[i].n, edges[i].fs)

\* What was recorded since a fire was aimed is of it, of a later one, or foreign.
Since(at, id) ==
    /\ at <= Len(edges) /\ id <= seq
    /\ \A i \in at + 1..Len(edges) :
          exposures[edges[i].n] >= id \/ exposures[edges[i].n] = Foreign
AnswersBound ==
    /\ \A a \in answers : Since(a.at, a.id)
    /\ \A p \in PiThreads : Aimed(p) => Since(shot[p].at, shot[p].id)

\* While the monitor lives, a fall is on record or on its way to be read, and what
\* a fall is compared with is on record.
Fallen(n) == \E i \in 1..Len(edges) : edges[i].dir = "fall" /\ edges[i].n = n
Falling(n) == \E i \in 1..Len(pipe) : pipe[i].dir = "fall" /\ pipe[i].n = n
FallsKept ==
    deaths = 0 =>
        /\ \A n \in 1..Len(exposures) : Fallen(n) \/ Falling(n)
        /\ last["fall"].at # 0 => Fallen(last["fall"].at)

\* Fires expose in the order of their identities, what was on record when one was
\* aimed is older than it, and while the monitor lives falls are read in turn.
Before(at, id) == \A i \in 1..at : exposures[edges[i].n] < id
FallenBefore(i, n) ==
    \E j \in 1..i - 1 : edges[j].dir = "fall" /\ edges[j].n = n
FallingBefore(i, n) ==
    \E j \in 1..i - 1 : pipe[j].dir = "fall" /\ pipe[j].n = n
FallsInTurn ==
    /\ \A i \in 1..Len(edges) : edges[i].dir = "fall" =>
          \A n \in 1..edges[i].n - 1 : FallenBefore(i, n)
    /\ \A i \in 1..Len(pipe) : pipe[i].dir = "fall" =>
          \A n \in 1..pipe[i].n - 1 : Fallen(n) \/ FallingBefore(i, n)
InTurn ==
    /\ \A k \in 1..Len(exposures) : exposures[k] <= seq
    /\ \A k, m \in 1..Len(exposures) :
          k < m /\ exposures[k] # Foreign /\ exposures[m] # Foreign
              => exposures[k] <= exposures[m]
    /\ \A a \in answers : Before(a.at, a.id)
    /\ \A p \in PiThreads : Aimed(p) => Before(shot[p].at, shot[p].id)
    /\ deaths = 0 => FallsInTurn

PiInv ==
    /\ PiTypeOK /\ ShotsInOrder /\ LoopsInOrder /\ WireInOrder /\ PipeInOrder
    /\ GivenOnce /\ Identified /\ AnswersBound /\ FallsKept /\ InTurn

-----------------------------------------------------------------------------
(***************************************************************************)
(* The beginning, and the steps that leave the edges alone.                *)
(***************************************************************************)
EdgesInOrder ==
    PipeInOrder /\ GivenOnce /\ Identified /\ AnswersBound /\ FallsKept /\ InTurn

\* The constants, as the steps need them.
LEMMA ConstantsAre ==
    /\ PiThreads = Clients \cup Schedules /\ None = 0 /\ None \notin PiThreads
    /\ Schedules \subseteq Nat /\ Frames \in Nat /\ Period \in Nat
    /\ DefaultTtl \in Nat /\ RetryTtl \in Nat /\ EdgeWait \in Nat
    /\ Ttls \subseteq Nat /\ MaxWait \in Nat
    /\ \A c \in Clients : c \notin Schedules
    /\ Foreign = -1
BY PiGpioAssumption DEF PiThreads, None, Foreign

\* Nobody fires, nothing is on the wire.
LEMMA PiBegins == PiInit => PiInv
<1> SUFFICES ASSUME PiInit PROVE PiInv
  OBVIOUS
<1>1. /\ <<>> \in Seq(Stamped) /\ <<>> \in Seq(EdgeRecords) /\ <<>> \in Seq(Int)
      /\ Len(<<>>) = 0
  OBVIOUS
<1>2. /\ \A p \in PiThreads : shot[p] = NoShot
      /\ \A s \in Schedules : loop[s] = NoLoop
      /\ \A d \in Directions : last[d] = [domain |-> "none", at |-> 0]
      /\ pipe = <<>> /\ exposures = <<>> /\ edges = <<>>
  BY DEF PiInit, NoLast, Directions
<1>3. PiTypeOK
  <2>1. NoShot \in Shots /\ NoLoop \in Loops
    BY ConstantsAre DEF NoShot, NoLoop, Shots, Loops
  <2>2. last \in [Directions -> References]
    BY DEF PiInit, NoLast, Directions, References
  <2>3. budget \in [{"calls", "faults"} -> Nat]
    BY PiGpioAssumption DEF PiInit
  <2>4. shot \in [PiThreads -> Shots] /\ loop \in [Schedules -> Loops]
    BY <2>1 DEF PiInit
  <2>5. pending \in [id : Nat, left : Nat] /\ open \in [id : Nat, gen : Nat]
    BY ConstantsAre DEF PiInit, NoPending, NoOpen
  <2> QED
    BY <1>1, <1>2, <2>2, <2>3, <2>4, <2>5, ConstantsAre DEF PiInit, PiTypeOK
<1>4. ShotsInOrder /\ LoopsInOrder /\ WireInOrder
  <2>1. \A p \in PiThreads : shot[p].pc = "idle" /\ lock # p
    BY <1>2, ConstantsAre DEF PiInit, NoShot
  <2>2. \A s \in Schedules : loop[s].pc = "none" /\ ~Owns(s)
    BY <1>2 DEF NoLoop, Owns, Live
  <2>3. ShotsInOrder
    BY <2>1 DEF ShotsInOrder, Aimed
  <2>4. LoopsInOrder
    BY <2>1, <2>2, ConstantsAre DEF LoopsInOrder, Orphan, PiInit
  <2> QED BY <2>3, <2>4 DEF WireInOrder, Wanted, PiInit
<1>5. PipeInOrder
  BY <1>1, <1>2 DEF PipeInOrder
<1>6. GivenOnce /\ Identified
  BY <1>1, <1>2, ConstantsAre DEF GivenOnce, Identified, Taken, PiInit, NoPending, NoOpen
<1>7. AnswersBound /\ FallsKept
  BY <1>1, <1>2 DEF AnswersBound, FallsKept, Aimed, PiInit, NoShot, Directions
<1>8. InTurn
  BY <1>1, <1>2 DEF InTurn, FallsInTurn, Aimed, PiInit, NoShot
<1> QED BY <1>3, <1>4, <1>5, <1>6, <1>7, <1>8 DEF PiInv

\* No edge is stamped, read or given an identity, and nobody aims.
EdgesRest ==
    /\ UNCHANGED <<pipe, exposures, last, open, edges, deaths, seq>>
    /\ \A a \in answers' : a \in answers \/ (Since(a.at, a.id) /\ Before(a.at, a.id))
    /\ pending' = pending \/ pending'.left = 0
           \/ (pending'.id = pending.id /\ pending.left > 0)
    /\ \A p \in PiThreads :
          Aimed(p)' => Aimed(p) /\ shot'[p].id = shot[p].id /\ shot'[p].at = shot[p].at

LEMMA EdgesStay ==
    ASSUME PiInv, EdgesRest
    PROVE  EdgesInOrder'
<1> USE DEF PiInv, EdgesRest
<1>1. PipeInOrder'
  BY DEF PipeInOrder, Of
<1>2. GivenOnce'
  <2>1. pending'.left > 0 => pending'.id = seq' /\ seq' # None /\ ~Taken("fall", seq)
    BY DEF GivenOnce, PiTypeOK
  <2> QED BY <2>1 DEF GivenOnce, Taken
<1>3. Identified'
  BY DEF Identified, RiseToCome, Of
<1>4. AnswersBound'
  BY DEF AnswersBound, Since
<1>5. FallsKept'
  BY DEF FallsKept, Fallen, Falling
<1>6. InTurn'
  <2>1. FallsInTurn => FallsInTurn'
    BY DEF FallsInTurn, FallenBefore, FallingBefore, Fallen
  <2> QED BY <2>1 DEF InTurn, Before
<1> QED BY <1>1, <1>2, <1>3, <1>4, <1>5, <1>6 DEF EdgesInOrder

\* FOCUS is held, released or left, by who does not fire.
FocusMoves ==
    /\ UNCHANGED <<shot, lock, seq, answers, pending, loop, current, running, behind,
                   stepping, pipe, exposures, last, open, edges, deaths>>
    /\ held' \in BOOLEAN /\ lease' \in Nat /\ ttl' \in Nat
    /\ budget' \in [{"calls", "faults"} -> Nat]
    /\ \/ UNCHANGED <<held, wire>>
       \/ held' /\ wire' = "low"
       \/ ~held' /\ wire' = "idle"

LEMMA FocusKeeps ==
    ASSUME PiInv, FocusMoves
    PROVE  PiInv'
<1> USE DEF PiInv, FocusMoves
<1>1. PiTypeOK'
  BY DEF PiTypeOK
<1>2. ShotsInOrder' /\ LoopsInOrder'
  BY DEF ShotsInOrder, LoopsInOrder, Aimed, Owns, Live, Orphan
<1>3. WireInOrder'
  BY DEF WireInOrder, Wanted
<1>4. EdgesInOrder'
  <2>1. EdgesRest
    BY DEF EdgesRest, Aimed
  <2> QED BY <2>1, EdgesStay
<1> QED BY <1>1, <1>2, <1>3, <1>4 DEF EdgesInOrder

\* What is left of a bound.
LEMMA SpendKeeps ==
    ASSUME PiInv, NEW what \in {"calls", "faults"}, Spend(what)
    PROVE  budget' \in [{"calls", "faults"} -> Nat]
<1>1. budget \in [{"calls", "faults"} -> Nat] /\ budget[what] \in Nat /\ budget[what] > 0
  BY DEF Spend, PiInv, PiTypeOK
<1>2. budget[what] - 1 \in Nat
  BY <1>1
<1> QED BY <1>1, <1>2 DEF Spend

LEMMA BudgetKept ==
    ASSUME PiInv, Call \/ Fault \/ UNCHANGED budget
    PROVE  budget' \in [{"calls", "faults"} -> Nat]
BY SpendKeeps DEF Call, Fault, PiInv, PiTypeOK

\* The length of a lease is a length.
LEMMA LeaseIs ==
    ASSUME PiInv, NEW asked \in Ttls \cup {None}, Lease(asked) \/ Keep \/ Renew
    PROVE  lease' \in Nat /\ ttl' \in Nat
<1>1. Granted(asked) \in Nat /\ Granted(None) \in Nat
  BY ConstantsAre DEF Granted, PiInv, PiTypeOK
<1> QED BY <1>1 DEF Lease, Keep, Renew, PiInv, PiTypeOK

LEMMA HoldsKeep ==
    ASSUME PiInv,
           \/ \E asked \in Ttls \cup {None} : Hold(asked)
           \/ Release \/ WatchdogReleases \/ WatchdogFails
    PROVE  PiInv'
<1> USE DEF firing, interval, clock, line, monitor
<1>1. ASSUME NEW asked \in Ttls \cup {None}, Hold(asked) PROVE FocusMoves
  <2>1. Call /\ Lease(asked)
    BY <1>1 DEF Hold
  <2>2. budget' \in [{"calls", "faults"} -> Nat] /\ lease' \in Nat /\ ttl' \in Nat
    BY <2>1, BudgetKept, LeaseIs
  <2> QED BY <1>1, <2>2 DEF Hold, FocusMoves
<1>2. ASSUME Release \/ WatchdogReleases PROVE FocusMoves
  <2>1. budget' \in [{"calls", "faults"} -> Nat]
    BY <1>2, BudgetKept DEF Release, WatchdogReleases
  <2>2. held' = FALSE /\ wire' = "idle" /\ lease' = 0 /\ ttl' = 0
    BY <1>2, ConstantsAre DEF Release, WatchdogReleases, Released
  <2>3. UNCHANGED <<shot, lock, seq, answers, pending, loop, current, running, behind,
                    stepping, pipe, exposures, last, open, edges, deaths>>
    BY <1>2 DEF Release, WatchdogReleases
  <2> QED BY <2>1, <2>2, <2>3 DEF FocusMoves
<1>3. ASSUME WatchdogFails PROVE FocusMoves
  <2>1. budget' \in [{"calls", "faults"} -> Nat]
    BY <1>3, BudgetKept DEF WatchdogFails
  <2> QED BY <1>3, <2>1, ConstantsAre DEF WatchdogFails, FocusMoves, PiInv, PiTypeOK
<1> QED BY <1>1, <1>2, <1>3, FocusKeeps

-----------------------------------------------------------------------------
(***************************************************************************)
(* Fires begin, schedules come and go, the clock is stepped, time goes by. *)
(***************************************************************************)
\* A fire takes the lock, for a thread that has none in flight.
LEMMA TakesKeeps ==
    ASSUME PiInv, NEW p \in PiThreads, NEW lead \in BOOLEAN, NEW wait \in Nat,
           Takes(p, lead, wait)
    PROVE  /\ lock = None /\ lock' = p /\ seq' = seq /\ answers' = answers
           /\ shot' \in [PiThreads -> Shots] /\ shot'[p].pc = "wait"
           /\ \A q \in PiThreads : q # p => shot'[q] = shot[q]
           /\ \A q \in PiThreads : shot[q].pc = "idle"
           /\ ShotsInOrder'
           /\ \A q \in PiThreads : ~Aimed(q)'
<1> DEFINE s == [NoShot EXCEPT !.pc = "wait", !.lead = lead, !.wait = wait]
<1>1. s \in Shots /\ s.pc = "wait"
  BY ConstantsAre DEF NoShot, Shots
<1> HIDE DEF s
<1>2. lock = None /\ lock' = p /\ shot' = [shot EXCEPT ![p] = s] /\ seq' = seq
      /\ answers' = answers
  BY DEF Takes, s
<1>3. /\ shot' \in [PiThreads -> Shots] /\ shot'[p] = s
      /\ \A q \in PiThreads : q # p => shot'[q] = shot[q]
  BY <1>1, <1>2 DEF PiInv, PiTypeOK
<1>4. \A q \in PiThreads : shot[q].pc = "idle"
  BY <1>2, ConstantsAre DEF PiInv, ShotsInOrder
<1>5. \A q \in PiThreads : ~Aimed(q)'
  BY <1>1, <1>3, <1>4 DEF Aimed
<1>6. ShotsInOrder'
  BY <1>1, <1>2, <1>3, <1>4, <1>5 DEF ShotsInOrder
<1> QED BY <1>1, <1>2, <1>3, <1>4, <1>5, <1>6

LEMMA ClientFireKeeps ==
    ASSUME PiInv, NEW c \in Clients, NEW lead \in BOOLEAN, NEW timed \in BOOLEAN,
           NEW wait \in 0..MaxWait, ClientFire(c, lead, timed, wait)
    PROVE  PiInv'
<1> USE DEF PiInv, interval, clock, line, monitor
<1>1. budget' \in [{"calls", "faults"} -> Nat] /\ lease' \in Nat /\ ttl' \in Nat
  <2>1. Keep \/ Renew
    BY DEF ClientFire, Relies
  <2> QED BY <2>1, BudgetKept, LeaseIs, ConstantsAre DEF ClientFire
<1>2. UNCHANGED <<held, wire, pending, loop, current, running, behind, stepping, pipe,
                  exposures, last, open, edges, deaths>>
  BY DEF ClientFire
<1>3. CASE UNCHANGED firing
  <2>1. FocusMoves
    BY <1>1, <1>2, <1>3 DEF FocusMoves, firing, PiTypeOK
  <2> QED BY <2>1, FocusKeeps
<1>4. CASE Takes(c, lead, wait)
  <2>1. c \in PiThreads /\ c \notin Schedules /\ wait \in Nat
    BY ConstantsAre
  <2>2. /\ lock = None /\ lock' = c /\ seq' = seq /\ answers' = answers
        /\ shot' \in [PiThreads -> Shots] /\ shot'[c].pc = "wait"
        /\ \A q \in PiThreads : q # c => shot'[q] = shot[q]
        /\ ShotsInOrder' /\ \A q \in PiThreads : ~Aimed(q)'
    BY <1>4, <2>1, TakesKeeps
  <2>3. PiTypeOK'
    BY <1>1, <1>2, <2>1, <2>2 DEF PiTypeOK
  <2>4. LoopsInOrder'
    BY <1>2, <2>1, <2>2, ConstantsAre DEF LoopsInOrder, Owns, Live, Orphan, Orphan
  <2>5. WireInOrder'
    BY <1>2, <2>2 DEF WireInOrder, Wanted
  <2>6. EdgesInOrder'
    BY <1>2, <2>2, EdgesStay DEF EdgesRest
  <2> QED BY <2>2, <2>3, <2>4, <2>5, <2>6 DEF EdgesInOrder
<1>5. UNCHANGED firing \/ Takes(c, lead, wait)
  <2> HIDE DEF PiInv
  <2> QED BY DEF ClientFire
<1> HIDE DEF PiInv
<1> QED BY <1>3, <1>4, <1>5

\* A schedule's thread goes on without a fire; who owns the schedule is in order.
LoopMoves ==
    /\ UNCHANGED <<held, wire, shot, lock, seq, answers, pending, behind, stepping, pipe,
                   exposures, last, open, edges, deaths>>
    /\ lease' \in Nat /\ ttl' \in Nat /\ budget' \in [{"calls", "faults"} -> Nat]
    /\ loop' \in [Schedules -> Loops] /\ current' \in Schedules \cup {None}
    /\ running' \in BOOLEAN
    /\ \A s \in Schedules : loop'[s].pc = "fire" <=> loop[s].pc = "fire"
    /\ \A s \in Schedules : Owns(s)' => current' = s
    /\ running' <=> Orphan' \/ \E s \in Schedules : Owns(s)'

LEMMA LoopKeeps ==
    ASSUME PiInv, LoopMoves
    PROVE  PiInv'
<1> USE DEF PiInv, LoopMoves
<1>1. PiTypeOK'
  BY DEF PiTypeOK
<1>2. ShotsInOrder' /\ WireInOrder'
  BY DEF ShotsInOrder, Aimed, WireInOrder, Wanted
<1>3. LoopsInOrder'
  BY DEF LoopsInOrder
<1>4. EdgesInOrder'
  <2>1. EdgesRest
    BY DEF EdgesRest, Aimed
  <2> QED BY <2>1, EdgesStay
<1> QED BY <1>1, <1>2, <1>3, <1>4 DEF EdgesInOrder

LEMMA IntervalStartKeeps ==
    ASSUME PiInv, NEW c \in Clients, NEW s \in Schedules, NEW timed \in BOOLEAN,
           NEW wait \in 0..MaxWait, IntervalStart(c, s, timed, wait)
    PROVE  PiInv'
<1> DEFINE l == [NoLoop EXCEPT !.pc = "slot", !.left = Frames, !.wait = wait]
<1>1. l \in Loops /\ l.pc = "slot" /\ ~l.stop
  <2>1. Frames \in Int /\ wait \in Nat
    BY ConstantsAre
  <2> QED BY <2>1 DEF NoLoop, Loops
<1> HIDE DEF l
<1>2. loop' = [loop EXCEPT ![s] = l] /\ current' = s /\ running' = TRUE /\ ~running
      /\ loop[s].pc = "none"
  BY DEF IntervalStart, l
<1>3. /\ loop' \in [Schedules -> Loops] /\ loop'[s] = l
      /\ \A u \in Schedules : u # s => loop'[u] = loop[u]
  BY <1>1, <1>2 DEF PiInv, PiTypeOK
<1>4. budget' \in [{"calls", "faults"} -> Nat]
  BY BudgetKept DEF IntervalStart
<1>5. lease' \in Nat /\ ttl' \in Nat
  <2>1. (5 * Period) \div 2 \in Nat
    BY ConstantsAre
  <2> HIDE DEF IntervalStart
  <2>2. Most(DefaultTtl, (5 * Period) \div 2) \in Nat
    BY <2>1, ConstantsAre DEF Most
  <2>3. Lease(Most(DefaultTtl, (5 * Period) \div 2))
    BY DEF IntervalStart
  <2>4. ttl \in Nat
    BY DEF PiInv, PiTypeOK
  <2> QED BY <2>2, <2>3, <2>4, ConstantsAre DEF Lease, Granted
<1>6. \A u \in Schedules : Owns(u)' <=> u = s
  <2>1. \A u \in Schedules : ~Owns(u)
    BY <1>2 DEF PiInv, LoopsInOrder
  <2> QED BY <1>1, <1>3, <2>1 DEF Owns, Live
<1>7. UNCHANGED <<held, wire, shot, lock, seq, answers, pending, behind, stepping, pipe,
                  exposures, last, open, edges, deaths>>
  BY DEF IntervalStart, firing, clock, line, monitor
<1>8. LoopMoves
  BY <1>1, <1>2, <1>3, <1>4, <1>5, <1>6, <1>7 DEF LoopMoves
<1> QED BY <1>8, LoopKeeps

LEMMA IntervalStopKeeps ==
    ASSUME PiInv, IntervalStop
    PROVE  PiInv'
<1>1. budget' \in [{"calls", "faults"} -> Nat]
  BY BudgetKept DEF IntervalStop
<1>2. UNCHANGED <<held, wire, lease, ttl, shot, lock, seq, answers, pending, current,
                  behind, stepping, pipe, exposures, last, open, edges, deaths>>
  BY DEF IntervalStop, focus, firing, clock, line, monitor
<1>3. running' = FALSE
  BY DEF IntervalStop
<1>4. /\ loop' \in [Schedules -> Loops]
      /\ \A s \in Schedules : loop'[s].pc = loop[s].pc
      /\ \A s \in Schedules : IF s = current THEN loop'[s].stop
                              ELSE loop'[s].stop = loop[s].stop
  <2>1. CASE current = None
    BY <2>1, ConstantsAre DEF IntervalStop, PiInv, PiTypeOK
  <2>2. CASE current # None
    <3>1. current \in Schedules /\ loop \in [Schedules -> Loops]
      BY <2>2 DEF PiInv, PiTypeOK
    <3>2. loop' = [loop EXCEPT ![current] = [loop[current] EXCEPT !.stop = TRUE]]
      BY <2>2, <3>1 DEF IntervalStop
    <3>3. [loop[current] EXCEPT !.stop = TRUE] \in Loops
      BY <3>1 DEF Loops
    <3> QED BY <3>1, <3>2, <3>3 DEF Loops
  <2> QED BY <2>1, <2>2
<1>5. \A s \in Schedules : ~Owns(s)'
  BY <1>4 DEF Owns, Live, PiInv, LoopsInOrder
<1>6. ~Orphan'
  BY <1>2, <1>4, ConstantsAre DEF Orphan, PiInv, PiTypeOK
<1>7. LoopMoves
  BY <1>1, <1>2, <1>3, <1>4, <1>5, <1>6 DEF LoopMoves, PiInv, PiTypeOK
<1> QED BY <1>7, LoopKeeps

LEMMA LoopEndsKeeps ==
    ASSUME PiInv, NEW s \in Schedules, LoopEnds(s)
    PROVE  PiInv'
<1> USE DEF Mine
<1>1. UNCHANGED <<held, wire, shot, lock, seq, answers, pending, current, behind,
                  stepping, pipe, exposures, last, open, edges, deaths, budget>>
  BY DEF LoopEnds, firing, clock, line, monitor
<1>2. loop' = [loop EXCEPT ![s] = [loop[s] EXCEPT !.pc = "done"]]
      /\ running' = (running /\ ~(current = s)) /\ loop[s].pc \in {"slot", "gap"}
  BY DEF LoopEnds, Exit
<1>3. loop \in [Schedules -> Loops] /\ loop[s] \in Loops
  BY DEF PiInv, PiTypeOK
<1>4. [loop[s] EXCEPT !.pc = "done"] \in Loops
  BY <1>3 DEF Loops
<1>5. /\ loop' \in [Schedules -> Loops] /\ loop'[s].pc = "done"
      /\ \A u \in Schedules : u # s => loop'[u] = loop[u]
  BY <1>2, <1>3, <1>4 DEF Loops
<1>6. lease' \in Nat /\ ttl' \in Nat
  BY ConstantsAre DEF LoopEnds, Exit, Keep, Least, PiInv, PiTypeOK
<1>7. \A u \in Schedules : Owns(u)' <=> u # s /\ Owns(u)
  BY <1>5 DEF Owns, Live
<1>8. LoopMoves
  <2>1. \A u \in Schedules : Owns(u)' => current' = u
    BY <1>1, <1>7 DEF PiInv, LoopsInOrder
  <2>2. running' <=> Orphan' \/ \E u \in Schedules : Owns(u)'
    <3>1. CASE current = s
      BY <1>1, <1>2, <1>5, <1>7, <3>1 DEF PiInv, LoopsInOrder, Orphan
    <3>2. CASE current # s
      <4>1. Orphan' <=> Orphan
        BY <1>1, <1>5, <3>2 DEF Orphan, PiInv, PiTypeOK
      <4>2. ~Owns(s)
        BY <3>2 DEF PiInv, LoopsInOrder
      <4>3. running' <=> running
        BY <1>2, <3>2
      <4> QED BY <1>7, <4>1, <4>2, <4>3 DEF PiInv, LoopsInOrder
    <3> QED BY <3>1, <3>2
  <2>3. running' \in BOOLEAN /\ current' \in Schedules \cup {None}
        /\ budget' \in [{"calls", "faults"} -> Nat]
    BY <1>1, <1>2 DEF PiInv, PiTypeOK
  <2>4. \A u \in Schedules : loop'[u].pc = "fire" <=> loop[u].pc = "fire"
    BY <1>2, <1>5
  <2> QED BY <1>1, <1>5, <1>6, <2>1, <2>2, <2>3, <2>4 DEF LoopMoves
<1> QED BY <1>8, LoopKeeps

\* A frame's gap begins.
LEMMA SlottedIs ==
    ASSUME PiInv, NEW s \in Schedules
    PROVE  /\ Slotted(s) \in [Schedules -> Loops]
           /\ Slotted(s)[s].pc = "gap" /\ Slotted(s)[s].stop = loop[s].stop
           /\ \A u \in Schedules : u # s => Slotted(s)[u] = loop[u]
<1> DEFINE l == [loop[s] EXCEPT !.pc = "gap", !.left = loop[s].left - 1, !.wait = 0,
                                !.gap = IF loop[s].bad THEN 0 ELSE Period]
<1>1. loop \in [Schedules -> Loops] /\ loop[s] \in Loops
  BY DEF PiInv, PiTypeOK
<1>2. l \in Loops /\ l.pc = "gap" /\ l.stop = loop[s].stop
  <2>1. Period \in Nat
    BY ConstantsAre
  <2>2. loop[s].left - 1 \in Int
    BY <1>1 DEF Loops
  <2> QED BY <1>1, <2>1, <2>2 DEF Loops
<1>3. Slotted(s) = [loop EXCEPT ![s] = l]
  BY <1>1 DEF Slotted
<1> HIDE DEF l
<1> QED BY <1>1, <1>2, <1>3

LEMMA LoopFiresKeeps ==
    ASSUME PiInv, NEW s \in Schedules, LoopFires(s)
    PROVE  PiInv'
<1> USE DEF clock, line, monitor
<1>1. UNCHANGED <<held, wire, pending, current, running, behind, stepping, pipe,
                  exposures, last, open, edges, deaths, budget>>
      /\ loop[s].pc = "slot" /\ ~loop[s].stop
  BY DEF LoopFires
<1>2. lease' \in Nat /\ ttl' \in Nat
  BY LeaseIs, ConstantsAre DEF LoopFires
<1>3. loop \in [Schedules -> Loops] /\ loop[s] \in Loops
  BY DEF PiInv, PiTypeOK
<1>4. CASE loop' = Slotted(s) /\ UNCHANGED firing
  <2>1. /\ loop' \in [Schedules -> Loops] /\ loop'[s].pc = "gap" /\ ~loop'[s].stop
        /\ \A u \in Schedules : u # s => loop'[u] = loop[u]
    BY <1>1, <1>4, SlottedIs
  <2>2. (\A u \in Schedules : Owns(u)' <=> Owns(u)) /\ (Orphan' <=> Orphan)
    BY <1>1, <2>1 DEF Owns, Live, Orphan, PiInv, PiTypeOK
  <2>3. UNCHANGED <<shot, lock, seq, answers>>
    BY <1>4 DEF firing
  <2>4. LoopMoves
    <3>1. \A u \in Schedules : Owns(u)' => current' = u
      BY <1>1, <2>2 DEF PiInv, LoopsInOrder
    <3>2. running' <=> Orphan' \/ \E u \in Schedules : Owns(u)'
      BY <1>1, <2>2 DEF PiInv, LoopsInOrder
    <3>3. running' \in BOOLEAN /\ current' \in Schedules \cup {None}
          /\ budget' \in [{"calls", "faults"} -> Nat]
      BY <1>1 DEF PiInv, PiTypeOK
    <3>4. \A u \in Schedules : loop'[u].pc = "fire" <=> loop[u].pc = "fire"
      BY <1>1, <2>1
    <3> QED BY <1>1, <1>2, <2>1, <2>3, <3>1, <3>2, <3>3, <3>4 DEF LoopMoves
  <2> QED BY <2>4, LoopKeeps
<1>5. CASE /\ loop' = [loop EXCEPT ![s].pc = "fire"]
           /\ Takes(s, FALSE, loop[s].wait)
  <2>1. s \in PiThreads /\ loop[s].wait \in Nat
    BY <1>3, ConstantsAre DEF Loops
  <2>2. /\ lock = None /\ lock' = s /\ seq' = seq /\ answers' = answers
        /\ shot' \in [PiThreads -> Shots] /\ shot'[s].pc = "wait"
        /\ \A q \in PiThreads : q # s => shot'[q] = shot[q]
        /\ ShotsInOrder' /\ \A q \in PiThreads : ~Aimed(q)'
    BY <1>5, <2>1, TakesKeeps
  <2>3. /\ loop' \in [Schedules -> Loops] /\ loop'[s].pc = "fire" /\ ~loop'[s].stop
        /\ \A u \in Schedules : u # s => loop'[u] = loop[u]
    <3>1. [loop[s] EXCEPT !.pc = "fire"] \in Loops
      BY <1>3 DEF Loops
    <3> QED BY <1>1, <1>3, <1>5, <3>1 DEF Loops
  <2>4. PiTypeOK'
    BY <1>1, <1>2, <2>1, <2>2, <2>3 DEF PiInv, PiTypeOK
  <2>5. LoopsInOrder'
    <3>1. (\A u \in Schedules : Owns(u)' <=> Owns(u)) /\ (Orphan' <=> Orphan)
      BY <1>1, <2>3 DEF Owns, Live, Orphan, PiInv, PiTypeOK
    <3>2. \A u \in Schedules : loop'[u].pc = "fire" <=> shot'[u].pc # "idle"
      BY <2>2, <2>3, ConstantsAre DEF PiInv, LoopsInOrder
    <3> QED BY <1>1, <3>1, <3>2 DEF PiInv, LoopsInOrder
  <2>6. WireInOrder'
    BY <1>1, <2>2 DEF PiInv, WireInOrder, Wanted
  <2>7. EdgesInOrder'
    BY <1>1, <2>2, EdgesStay DEF EdgesRest
  <2> QED BY <2>2, <2>4, <2>5, <2>6, <2>7 DEF PiInv, EdgesInOrder
<1> QED BY <1>4, <1>5 DEF LoopFires

LEMMA LoopWakesKeeps ==
    ASSUME PiInv, NEW s \in Schedules, LoopWakes(s)
    PROVE  PiInv'
<1>1. UNCHANGED <<held, wire, lease, ttl, shot, lock, seq, answers, pending, current,
                  running, behind, stepping, pipe, exposures, last, open, edges, deaths,
                  budget>>
      /\ loop[s].pc = "gap" /\ ~loop[s].stop
      /\ loop' = [loop EXCEPT ![s] = [loop[s] EXCEPT !.pc = "slot"]]
  BY DEF LoopWakes, focus, firing, clock, line, monitor
<1>2. loop \in [Schedules -> Loops] /\ loop[s] \in Loops
  BY DEF PiInv, PiTypeOK
<1>3. [loop[s] EXCEPT !.pc = "slot"] \in Loops
  BY <1>2 DEF Loops
<1>4. /\ loop' \in [Schedules -> Loops] /\ loop'[s].pc = "slot" /\ ~loop'[s].stop
      /\ \A u \in Schedules : u # s => loop'[u] = loop[u]
  BY <1>1, <1>2, <1>3 DEF Loops
<1>5. (\A u \in Schedules : Owns(u)' <=> Owns(u)) /\ (Orphan' <=> Orphan)
  BY <1>1, <1>4 DEF Owns, Live, Orphan, PiInv, PiTypeOK
<1>6. LoopMoves
  <2>1. \A u \in Schedules : Owns(u)' => current' = u
    BY <1>1, <1>5 DEF PiInv, LoopsInOrder
  <2>2. running' <=> Orphan' \/ \E u \in Schedules : Owns(u)'
    BY <1>1, <1>5 DEF PiInv, LoopsInOrder
  <2>3. running' \in BOOLEAN /\ current' \in Schedules \cup {None} /\ lease' \in Nat
        /\ ttl' \in Nat /\ budget' \in [{"calls", "faults"} -> Nat]
    BY <1>1 DEF PiInv, PiTypeOK
  <2>4. \A u \in Schedules : loop'[u].pc = "fire" <=> loop[u].pc = "fire"
    BY <1>1, <1>4
  <2> QED BY <1>1, <1>4, <2>1, <2>2, <2>3, <2>4 DEF LoopMoves
<1> QED BY <1>6, LoopKeeps

\* The clock is asked for a step, and stepped.
LEMMA StepAskedKeeps ==
    ASSUME PiInv, NEW c \in Clients, StepAsked(c)
    PROVE  PiInv'
<1>1. budget' \in [{"calls", "faults"} -> Nat]
  BY BudgetKept DEF StepAsked
<1>2. UNCHANGED <<held, wire, lease, ttl, shot, lock, seq, answers, pending, loop, current,
                  running, behind, pipe, exposures, last, open, edges, deaths>>
      /\ stepping' = stepping \cup {c}
  BY DEF StepAsked, focus, firing, interval, line, monitor
<1>3. PiTypeOK'
  BY <1>1, <1>2 DEF PiInv, PiTypeOK
<1>4. ShotsInOrder' /\ LoopsInOrder' /\ WireInOrder'
  BY <1>2 DEF PiInv, ShotsInOrder, Aimed, LoopsInOrder, Owns, Live, Orphan, WireInOrder, Wanted
<1>5. EdgesInOrder'
  BY <1>2, EdgesStay DEF EdgesRest, Aimed
<1> QED BY <1>3, <1>4, <1>5 DEF PiInv, EdgesInOrder

LEMMA StepTakenKeeps ==
    ASSUME PiInv, NEW c \in Clients, StepTaken(c)
    PROVE  PiInv'
<1>1. UNCHANGED <<held, wire, lease, ttl, shot, lock, seq, answers, pending, current,
                  running, pipe, exposures, last, open, edges, deaths, budget>>
      /\ stepping' = stepping \ {c}
  BY DEF StepTaken, focus, firing, line, monitor
<1>2. loop \in [Schedules -> Loops]
  BY DEF PiInv, PiTypeOK
<1>3. /\ loop' \in [Schedules -> Loops] /\ behind' \in BOOLEAN
      /\ \A s \in Schedules : loop'[s].pc = loop[s].pc /\ loop'[s].stop = loop[s].stop
  <2>1. CASE UNCHANGED <<behind, loop>>
    BY <2>1, <1>2 DEF PiInv, PiTypeOK
  <2>2. CASE /\ behind' = FALSE
             /\ loop' = [s \in Schedules |-> [loop[s] EXCEPT !.bad = @ \/ Live(s)]]
    <3>1. ASSUME NEW s \in Schedules
          PROVE  /\ [loop[s] EXCEPT !.bad = @ \/ Live(s)] \in Loops
                 /\ [loop[s] EXCEPT !.bad = @ \/ Live(s)].pc = loop[s].pc
                 /\ [loop[s] EXCEPT !.bad = @ \/ Live(s)].stop = loop[s].stop
      BY <1>2 DEF Loops, Live
    <3> QED BY <2>2, <3>1
  <2> QED BY <2>1, <2>2 DEF StepTaken
<1>4. PiTypeOK'
  BY <1>1, <1>3 DEF PiInv, PiTypeOK
<1>5. LoopsInOrder'
  <2>1. (\A s \in Schedules : Owns(s)' <=> Owns(s)) /\ (Orphan' <=> Orphan)
    BY <1>1, <1>3 DEF Owns, Live, Orphan, PiInv, PiTypeOK
  <2> QED BY <1>1, <1>3, <2>1 DEF PiInv, LoopsInOrder
<1>6. ShotsInOrder' /\ WireInOrder'
  BY <1>1 DEF PiInv, ShotsInOrder, Aimed, WireInOrder, Wanted
<1>7. EdgesInOrder'
  BY <1>1, EdgesStay DEF EdgesRest, Aimed
<1> QED BY <1>4, <1>5, <1>6, <1>7 DEF PiInv, EdgesInOrder

\* Leases, waits and gaps run down.
LEMMA TickKeeps ==
    ASSUME PiInv, Tick
    PROVE  PiInv'
<1>1. UNCHANGED <<held, wire, lock, seq, answers, current, running, behind, stepping,
                  pipe, exposures, last, open, edges, deaths, budget>>
  BY DEF Tick, clock, line, monitor
<1>2. PiTypeOK
  BY DEF PiInv
<1>3. lease' \in Nat /\ ttl' \in Nat
  <2>1. CASE Lease(None)
    BY <2>1, LeaseIs
  <2>2. CASE lease' = Most(0, lease - 1) /\ UNCHANGED ttl
    BY <1>2, <2>2 DEF Most, PiTypeOK
  <2> QED BY <2>1, <2>2 DEF Tick
<1>4. /\ shot' \in [PiThreads -> Shots]
      /\ \A p \in PiThreads : /\ shot'[p].pc = shot[p].pc /\ shot'[p].lead = shot[p].lead
                            /\ shot'[p].id = shot[p].id /\ shot'[p].at = shot[p].at
  <2>1. shot \in [PiThreads -> Shots]
    BY <1>2 DEF PiTypeOK
  <2>2. ASSUME NEW p \in PiThreads
        PROVE  LET t == [shot[p] EXCEPT !.wait = Most(0, @ - 1)] IN
               t \in Shots /\ t.pc = shot[p].pc /\ t.lead = shot[p].lead
               /\ t.id = shot[p].id /\ t.at = shot[p].at
    BY <2>1 DEF Shots, Most
  <2> QED BY <2>2 DEF Tick
<1>5. /\ loop' \in [Schedules -> Loops]
      /\ \A s \in Schedules : loop'[s].pc = loop[s].pc /\ loop'[s].stop = loop[s].stop
  <2>1. loop \in [Schedules -> Loops]
    BY <1>2 DEF PiTypeOK
  <2>2. ASSUME NEW s \in Schedules
        PROVE  LET t == [loop[s] EXCEPT !.gap = Most(0, @ - 1)] IN
               t \in Loops /\ t.pc = loop[s].pc /\ t.stop = loop[s].stop
    BY <2>1 DEF Loops, Most
  <2> QED BY <2>2 DEF Tick
<1>6. /\ pending' \in [id : Nat, left : Nat]
      /\ pending'.left = 0 \/ (pending'.id = pending.id /\ pending.left > 0)
  <2>1. CASE pending.left > 1
    <3>1. pending' = [pending EXCEPT !.left = pending.left - 1]
      BY <2>1 DEF Tick
    <3>2. pending \in [id : Nat, left : Nat] /\ pending.left - 1 \in Nat
      BY <1>2, <2>1 DEF PiTypeOK
    <3>3. pending' \in [id : Nat, left : Nat] /\ pending'.id = pending.id
      BY <3>1, <3>2
    <3> QED BY <2>1, <3>2, <3>3
  <2>2. CASE ~(pending.left > 1)
    BY <2>2, ConstantsAre DEF Tick, NoPending
  <2> QED BY <2>1, <2>2
<1>7. PiTypeOK'
  BY <1>1, <1>2, <1>3, <1>4, <1>5, <1>6 DEF PiTypeOK
<1>8. ShotsInOrder'
  BY <1>1, <1>4 DEF PiInv, ShotsInOrder, Aimed
<1>9. LoopsInOrder'
  <2>1. (\A s \in Schedules : Owns(s)' <=> Owns(s)) /\ (Orphan' <=> Orphan)
    BY <1>1, <1>2, <1>5 DEF Owns, Live, Orphan, PiTypeOK
  <2> QED BY <1>1, <1>4, <1>5, <2>1, ConstantsAre DEF PiInv, LoopsInOrder
<1>10. WireInOrder'
  <2>1. lock \in PiThreads \cup {None}
    BY <1>2 DEF PiTypeOK
  <2> QED BY <1>1, <1>4, <2>1 DEF PiInv, WireInOrder, Wanted
<1>11. EdgesInOrder'
  BY <1>1, <1>4, <1>6, EdgesStay DEF EdgesRest, Aimed
<1> QED BY <1>7, <1>8, <1>9, <1>10, <1>11 DEF PiInv, EdgesInOrder

-----------------------------------------------------------------------------
(***************************************************************************)
(* A fire: its aim, its pulse, its answer.                                 *)
(***************************************************************************)
\* The thread that fires holds the lock, alone.
LEMMA FiresAlone ==
    ASSUME PiInv, NEW p \in PiThreads, shot[p].pc # "idle"
    PROVE  lock = p /\ \A q \in PiThreads : q # p => shot[q].pc = "idle" /\ ~Aimed(q)
BY DEF PiInv, ShotsInOrder, Aimed

\* The answer, or the error: the line is restored.
LEMMA FireEndsKeeps ==
    ASSUME PiInv, NEW p \in PiThreads, FireEnds(p)
    PROVE  PiInv'
<1>1. Answer(p) \/ Raises(p)
  BY DEF FireEnds
<1>2. UNCHANGED <<held, lease, ttl, seq, pending, current, running, behind, stepping,
                  pipe, exposures, last, open, edges, deaths>>
  BY <1>1 DEF FireEnds, Answer, Raises, clock, line, monitor
<1>3. Aimed(p) /\ lock' = None /\ shot' = [shot EXCEPT ![p] = NoShot]
  BY <1>1 DEF Answer, Raises, Done, Aimed
<1>4. answers' = answers \/ answers' = answers \cup {[id |-> shot[p].id, at |-> shot[p].at]}
  BY <1>1 DEF Answer, Raises, Done
<1>5. budget' \in [{"calls", "faults"} -> Nat]
  BY <1>1, BudgetKept DEF Answer, Raises
<1>6. lock = p /\ shot[p].pc # "idle"
      /\ \A q \in PiThreads : q # p => shot[q].pc = "idle" /\ ~Aimed(q)
  BY <1>3, FiresAlone DEF Aimed
<1>7. /\ shot' \in [PiThreads -> Shots] /\ shot'[p].pc = "idle"
      /\ \A q \in PiThreads : q # p => shot'[q] = shot[q]
  <2>1. NoShot \in Shots /\ NoShot.pc = "idle"
    BY ConstantsAre DEF NoShot, Shots
  <2> QED BY <1>3, <2>1 DEF PiInv, PiTypeOK
<1>8. /\ loop' \in [Schedules -> Loops]
      /\ \A s \in Schedules : Owns(s)' => Owns(s)
      /\ Orphan' \/ (\E s \in Schedules : Owns(s)')
             <=> Orphan \/ \E s \in Schedules : Owns(s)
      /\ \A s \in Schedules : loop'[s].pc # "fire"
  <2>1. CASE p \in Schedules
    <3>1. /\ loop' = Slotted(p) \/ loop' = [loop EXCEPT ![p] = [loop[p] EXCEPT !.pc = "dead"]]
          /\ loop[p].pc = "fire"
      BY <1>6, <2>1 DEF FireEnds, PiInv, LoopsInOrder
    <3>2. loop \in [Schedules -> Loops] /\ loop[p] \in Loops
      BY <2>1 DEF PiInv, PiTypeOK
    <3>3. \A u \in Schedules : u # p => loop[u].pc # "fire"
      BY <1>6, ConstantsAre DEF PiInv, LoopsInOrder
    <3>4. CASE loop' = Slotted(p)
      <4>1. /\ loop' \in [Schedules -> Loops] /\ loop'[p].pc = "gap"
            /\ loop'[p].stop = loop[p].stop
            /\ \A u \in Schedules : u # p => loop'[u] = loop[u]
        BY <2>1, <3>4, SlottedIs
      <4>2. \A u \in Schedules : Owns(u)' <=> Owns(u)
        BY <3>1, <4>1 DEF Owns, Live
      <4>3. Orphan' <=> Orphan
        BY <1>2, <3>1, <4>1 DEF Orphan, PiInv, PiTypeOK
      <4> QED BY <3>3, <4>1, <4>2, <4>3
    <3>5. CASE loop' = [loop EXCEPT ![p] = [loop[p] EXCEPT !.pc = "dead"]]
      <4>1. [loop[p] EXCEPT !.pc = "dead"] \in Loops
        BY <3>2 DEF Loops
      <4>2. /\ loop' \in [Schedules -> Loops] /\ loop'[p].pc = "dead"
            /\ loop'[p].stop = loop[p].stop
            /\ \A u \in Schedules : u # p => loop'[u] = loop[u]
        BY <2>1, <3>2, <3>5, <4>1 DEF Loops
      <4>3. /\ ~Owns(p)' /\ (Owns(p) <=> ~loop[p].stop)
            /\ \A u \in Schedules : u # p => (Owns(u)' <=> Owns(u))
        BY <3>1, <4>2 DEF Owns, Live
      <4>4. CASE current = p
        <5>1. current # None /\ ~Orphan
          BY <2>1, <3>1, <4>4, ConstantsAre DEF Orphan
        <5>2. Orphan' <=> ~loop[p].stop
          BY <1>2, <4>2, <4>4, <5>1 DEF Orphan
        <5>3. \A u \in Schedules : Owns(u) => u = p
          BY <4>4 DEF PiInv, LoopsInOrder
        <5> QED BY <2>1, <3>3, <4>2, <4>3, <5>1, <5>2, <5>3
      <4>5. CASE current # p
        <5>1. Orphan' <=> Orphan
          BY <1>2, <4>2, <4>5 DEF Orphan, PiInv, PiTypeOK
        <5>2. ~Owns(p)
          BY <2>1, <4>5 DEF PiInv, LoopsInOrder
        <5> QED BY <3>3, <4>2, <4>3, <5>1, <5>2
      <4> QED BY <4>4, <4>5
    <3> QED BY <3>1, <3>4, <3>5
  <2>2. CASE p \notin Schedules
    <3>1. loop' = loop
      BY <2>2 DEF FireEnds
    <3>2. \A u \in Schedules : loop[u].pc # "fire"
      BY <1>6, <2>2, ConstantsAre DEF PiInv, LoopsInOrder
    <3> QED BY <1>2, <3>1, <3>2 DEF Owns, Live, Orphan, PiInv, PiTypeOK
  <2> QED BY <2>1, <2>2
<1>9. wire' \in {"idle", "low", "stuck"} /\ ((wire' = "stuck" /\ ~held) \/ wire' = Wanted)
  <2>1. CASE Restored(p)
    BY <1>6, <2>1 DEF Restored, Wanted, PiInv, PiTypeOK, WireInOrder
  <2>2. CASE shot[p].lead /\ ~held /\ wire' = "stuck"
    BY <2>2
  <2> QED BY <1>1, <2>1, <2>2 DEF Answer, Raises
<1>10. PiTypeOK'
  <2>1. answers' \subseteq [id : Nat, at : Nat]
    BY <1>4 DEF PiInv, PiTypeOK, Shots
  <2> QED BY <1>2, <1>3, <1>5, <1>7, <1>8, <1>9, <2>1 DEF PiInv, PiTypeOK
<1>11. ShotsInOrder'
  BY <1>3, <1>6, <1>7, ConstantsAre DEF ShotsInOrder, Aimed
<1>12. LoopsInOrder'
  <2>1. \A s \in Schedules : shot'[s].pc = "idle"
    BY <1>6, <1>7, ConstantsAre
  <2> QED BY <1>2, <1>8, <2>1 DEF PiInv, LoopsInOrder
<1>13. WireInOrder'
  BY <1>2, <1>9 DEF WireInOrder, Wanted
<1>14. EdgesInOrder'
  <2>1. \A a \in answers' : a \in answers \/ (Since(a.at, a.id) /\ Before(a.at, a.id))
    BY <1>3, <1>4 DEF PiInv, AnswersBound, InTurn
  <2>2. \A q \in PiThreads : ~Aimed(q)'
    BY <1>6, <1>7 DEF Aimed
  <2> QED BY <1>2, <2>1, <2>2, EdgesStay DEF EdgesRest
<1> QED BY <1>10, <1>11, <1>12, <1>13, <1>14 DEF PiInv, EdgesInOrder

\* The aim: a new identity, and nothing recorded since.
LEMMA AimKeeps ==
    ASSUME PiInv, NEW p \in PiThreads, Aim(p)
    PROVE  PiInv'
<1> DEFINE s == [shot[p] EXCEPT !.pc = "aimed", !.id = seq + 1, !.at = Len(edges)]
<1>1. UNCHANGED <<held, lease, ttl, lock, answers, loop, current, running, behind, stepping,
                  pipe, exposures, last, open, edges, deaths, budget>>
      /\ pipe = <<>> /\ seq' = seq + 1 /\ pending' = [id |-> seq + 1, left |-> EdgeWait]
      /\ wire' = (IF shot[p].lead THEN "low" ELSE wire)
      /\ shot[p].pc = "wait"
  BY DEF Aim, interval, clock, line, monitor
<1>2. seq \in Nat /\ Len(edges) \in Nat /\ shot \in [PiThreads -> Shots] /\ shot[p] \in Shots
      /\ seq + 1 \in Nat
  BY DEF PiInv, PiTypeOK
<1>3. shot' = [shot EXCEPT ![p] = s]
  BY <1>2 DEF Aim, EdgeSeq
<1>4. s \in Shots /\ s.pc = "aimed" /\ s.lead = shot[p].lead /\ s.id = seq + 1
      /\ s.at = Len(edges)
  BY <1>2 DEF Shots
<1> HIDE DEF s
<1>5. /\ shot' \in [PiThreads -> Shots] /\ shot'[p] = s
      /\ \A q \in PiThreads : q # p => shot'[q] = shot[q]
  BY <1>2, <1>3, <1>4
<1>6. lock = p /\ \A q \in PiThreads : q # p => shot[q].pc = "idle" /\ ~Aimed(q)
  BY <1>1, FiresAlone
<1>7. PiTypeOK'
  BY <1>1, <1>2, <1>5, ConstantsAre DEF PiInv, PiTypeOK
<1>8. ShotsInOrder'
  <2>1. seq' # None
    BY <1>1, <1>2, ConstantsAre
  <2> QED BY <1>1, <1>4, <1>5, <1>6, <2>1 DEF PiInv, ShotsInOrder, Aimed
<1>9. LoopsInOrder'
  BY <1>1, <1>4, <1>5, ConstantsAre DEF PiInv, LoopsInOrder, Owns, Live, Orphan
<1>10. WireInOrder'
  <2>1. lock # None /\ shot'[lock].pc = "aimed" /\ shot'[lock].lead = shot[lock].lead
    BY <1>4, <1>5, <1>6, ConstantsAre
  <2>2. shot[lock].pc = "wait"
    BY <1>1, <1>6
  <2> QED BY <1>1, <1>6, <2>1, <2>2 DEF PiInv, WireInOrder, Wanted
<1>11. PipeInOrder'
  BY <1>1 DEF PiInv, PipeInOrder
<1>12. \A i \in 1..Len(edges) : edges[i] \in EdgeRecords /\ edges[i].fs \in Nat
                                 /\ edges[i].fs <= seq
  <2>1. edges \in Seq(EdgeRecords)
    BY DEF PiInv, PiTypeOK
  <2>2. \A i \in 1..Len(edges) : edges[i].fs <= seq
    BY DEF PiInv, GivenOnce
  <2>3. \A e \in EdgeRecords : e.fs \in Nat
    BY DEF EdgeRecords
  <2> QED BY <2>1, <2>2, <2>3
<1>13. GivenOnce'
  <2>1. ~Taken("fall", seq + 1)
    BY <1>2, <1>12 DEF Taken
  <2>2. seq + 1 # None
    BY <1>2, ConstantsAre
  <2>3. \A i \in 1..Len(edges) : edges[i].fs <= seq + 1
    BY <1>2, <1>12
  <2>4. pending'.left > 0 => pending'.id = seq' /\ seq' # None /\ ~Taken("fall", seq)'
    BY <1>1, <2>1, <2>2 DEF Taken
  <2>5. \A d, x : Taken(d, x)' <=> Taken(d, x)
    BY <1>1 DEF Taken
  <2>6. open'.id # None => Taken("fall", open.id)' /\ ~Taken("rise", open.id)'
    BY <1>1 DEF PiInv, GivenOnce, Taken
  <2>7. \A i \in 1..Len(edges') :
           edges'[i].fs <= seq' /\ (edges'[i].fs # None => Taken("fall", edges[i].fs)')
    BY <1>1, <2>3 DEF PiInv, GivenOnce, Taken
  <2>8. \A i, j \in 1..Len(edges') :
            edges'[i].fs # None /\ edges'[i].fs = edges'[j].fs
            /\ edges'[i].dir = edges'[j].dir => i = j
    BY <1>1 DEF PiInv, GivenOnce
  <2> QED BY <2>4, <2>6, <2>7, <2>8 DEF GivenOnce
<1>14. Identified'
  <2>1. ~RiseToCome
    BY <1>1 DEF RiseToCome
  <2> QED BY <1>1, <2>1 DEF PiInv, Identified, Of
<1>15. AnswersBound'
  <2>1. ASSUME NEW a \in answers' PROVE Since(a.at, a.id)'
    <3>1. Since(a.at, a.id) /\ a.id \in Nat
      BY <1>1, <2>1 DEF PiInv, PiTypeOK, AnswersBound
    <3> QED BY <1>1, <1>2, <3>1 DEF Since
  <2>2. ASSUME NEW q \in PiThreads, Aimed(q)' PROVE Since(shot[q].at, shot[q].id)'
    <3>1. q = p
      BY <1>5, <1>6, <2>2 DEF Aimed
    <3>2. shot'[q].at = Len(edges) /\ shot'[q].id = seq + 1
      BY <1>4, <1>5, <3>1
    <3> QED BY <1>1, <1>2, <3>2 DEF Since
  <2> QED BY <2>1, <2>2 DEF AnswersBound
<1>16. FallsKept'
  BY <1>1 DEF PiInv, FallsKept, Fallen, Falling
<1>17. InTurn'
  <2>1. FallsInTurn => FallsInTurn'
    BY <1>1 DEF FallsInTurn, FallenBefore, FallingBefore, Fallen
  <2>2. exposures \in Seq(Int)
    BY DEF PiInv, PiTypeOK
  <2>3. \A k \in 1..Len(exposures) : exposures[k] \in Int /\ exposures[k] < seq + 1
                                      /\ exposures[k] <= seq + 1
    BY <1>2, <2>2 DEF PiInv, InTurn
  <2>4. \A i \in 1..Len(edges) : exposures[edges[i].n] < seq + 1
    BY <2>3 DEF PiInv, Identified
  <2>5. ASSUME NEW q \in PiThreads, Aimed(q)' PROVE Before(shot[q].at, shot[q].id)'
    <3>1. q = p
      BY <1>5, <1>6, <2>5 DEF Aimed
    <3>2. shot'[q].at = Len(edges) /\ shot'[q].id = seq + 1
      BY <1>4, <1>5, <3>1
    <3> QED BY <1>1, <2>4, <3>2 DEF Before
  <2>6. \A a \in answers' : Before(a.at, a.id)'
    BY <1>1 DEF PiInv, InTurn, Before
  <2> QED BY <1>1, <2>1, <2>3, <2>5, <2>6 DEF PiInv, InTurn
<1> QED BY <1>7, <1>8, <1>9, <1>10, <1>11, <1>13, <1>14, <1>15, <1>16, <1>17 DEF PiInv

\* What the kernel stamps of one exposure: two or three edges, the falls first and a rise
\* last.
Group(g, n) ==
    /\ g \in Seq(Stamped) /\ Len(g) \in 2..3
    /\ \A i \in 1..Len(g) : g[i].n = n
    /\ g[1].dir = "fall" /\ g[Len(g)].dir = "rise"
    /\ \A i, j \in 1..Len(g) : i < j /\ g[i].dir = "rise" => g[j].dir = "rise"

LEMMA GroupsAre ==
    ASSUME NEW n \in Nat
    PROVE  Group(Clean(n), n) /\ \A g \in Noisy(n) : Group(g, n)
<1> DEFINE F(a) == Edge("fall", n, a)
           R(a) == Edge("rise", n, a)
<1>1. \A a \in {"good", "absent", "ahead"} :
          /\ F(a) \in Stamped /\ F(a).n = n /\ F(a).dir = "fall"
          /\ R(a) \in Stamped /\ R(a).n = n /\ R(a).dir = "rise"
  BY DEF Edge, Stamped, Directions
<1> HIDE DEF F, R
<1>2. ASSUME NEW a \in {"good", "absent", "ahead"} PROVE Group(<<F(a), R("good")>>, n)
  <2> DEFINE g == <<F(a), R("good")>>
  <2>1. g \in Seq(Stamped) /\ Len(g) = 2 /\ g[1] = F(a) /\ g[2] = R("good")
    BY <1>1
  <2> HIDE DEF g
  <2>2. g[1].dir = "fall" /\ g[2].dir = "rise" /\ g[1].n = n /\ g[2].n = n
    BY <1>1, <2>1
  <2>3. \A i \in 1..Len(g) : i = 1 \/ i = 2
    BY <2>1
  <2> QED BY <2>1, <2>2, <2>3 DEF Group, g
<1>3. ASSUME NEW a \in {"good", "absent"}, NEW b \in {"good", "absent"}
      PROVE  Group(<<F(a), F(b), R("good")>>, n) /\ Group(<<F("good"), R(a), R(b)>>, n)
  <2>1. ASSUME NEW x, NEW y, NEW z, x \in Stamped, y \in Stamped, z \in Stamped,
               x.n = n, y.n = n, z.n = n, x.dir = "fall", z.dir = "rise"
        PROVE  Group(<<x, y, z>>, n)
    <3> DEFINE g == <<x, y, z>>
    <3>1. g \in Seq(Stamped) /\ Len(g) = 3 /\ g[1] = x /\ g[2] = y /\ g[3] = z
      BY <2>1
    <3> HIDE DEF g
    <3>2. \A i \in 1..Len(g) : i = 1 \/ i = 2 \/ i = 3
      BY <3>1
    <3>3. \A i, j \in 1..Len(g) : i < j => (i = 1 \/ j = 3)
      BY <3>1
    <3> QED BY <2>1, <3>1, <3>2, <3>3 DEF Group, g
  <2> QED BY <1>1, <2>1
<1>4. Group(Clean(n), n)
  BY <1>2 DEF Clean, F, R
<1>5. ASSUME NEW g \in Noisy(n) PROVE Group(g, n)
  <2>1. \/ \E a, b \in {"good", "absent"} : g = <<F(a), F(b), R("good")>>
        \/ \E a, b \in {"good", "absent"} : g = <<F("good"), R(a), R(b)>>
        \/ g = <<F("ahead"), R("good")>>
    BY <1>5 DEF Noisy, F, R
  <2> QED BY <1>2, <1>3, <2>1
<1> QED BY <1>4, <1>5

\* The edges of one exposure, of the latest fire or of the body, join the others.
LEMMA EdgesArrive ==
    ASSUME PiInv, NEW id \in {seq, Foreign}, NEW g, Group(g, Len(exposures) + 1),
           exposures' = Append(exposures, id), pipe' = pipe \o g,
           UNCHANGED <<last, open, edges, deaths, seq, answers, pending>>,
           \A p \in PiThreads : Aimed(p)' => Aimed(p) /\ shot'[p].id = shot[p].id
                                                    /\ shot'[p].at = shot[p].at
    PROVE  EdgesInOrder' /\ pipe' \in Seq(Stamped) /\ exposures' \in Seq(Int)
<1> PICK n, k : n = Len(exposures) + 1 /\ k = Len(pipe)
  OBVIOUS
<1>1. /\ pipe \in Seq(Stamped) /\ exposures \in Seq(Int) /\ seq \in Nat /\ id \in Int
      /\ k \in Nat /\ Len(exposures) \in Nat /\ n \in Nat
  BY ConstantsAre DEF PiInv, PiTypeOK
<1>2. /\ exposures' \in Seq(Int) /\ Len(exposures') = n /\ exposures'[n] = id
      /\ \A i \in 1..Len(exposures) : exposures'[i] = exposures[i]
  BY <1>1
<1>3. /\ g \in Seq(Stamped) /\ Len(g) \in 2..3
      /\ \A i \in 1..Len(g) : g[i].n = n
      /\ g[1].dir = "fall" /\ g[Len(g)].dir = "rise"
      /\ \A i, j \in 1..Len(g) : i < j /\ g[i].dir = "rise" => g[j].dir = "rise"
  BY DEF Group
<1>4. /\ pipe' \in Seq(Stamped) /\ Len(pipe') = k + Len(g)
      /\ \A i \in 1..k : i \in 1..Len(pipe') /\ pipe'[i] = pipe[i]
      /\ \A i \in 1..Len(g) : k + i \in 1..Len(pipe') /\ pipe'[k + i] = g[i]
      /\ \A i \in 1..Len(pipe') : i \in 1..k \/ (i - k \in 1..Len(g) /\ pipe'[i] = g[i - k])
  BY <1>1, <1>3
<1>5. /\ \A i \in 1..k : pipe'[i].n \in 1..Len(exposures) /\ pipe'[i].n # n
      /\ \A i \in 1..Len(pipe') : i \notin 1..k => pipe'[i].n = n
  BY <1>1, <1>3, <1>4 DEF PiInv, PipeInOrder
<1>6. PipeInOrder'
  <2>1. \A i \in 1..Len(pipe') :
            pipe'[i].n \in 1..Len(exposures') /\ exposures'[pipe'[i].n] \in {seq', Foreign}
    <3>1. ASSUME NEW i \in 1..k
          PROVE  pipe'[i].n \in 1..Len(exposures') /\ exposures'[pipe'[i].n] \in {seq, Foreign}
      <4>1. pipe'[i] = pipe[i] /\ pipe[i].n \in 1..Len(exposures) /\ Of(pipe[i].n, seq)
        BY <1>4 DEF PiInv, PipeInOrder
      <4>2. PICK m : m = pipe[i].n
        OBVIOUS
      <4>3. m \in 1..Len(exposures') /\ exposures'[m] = exposures[m]
        BY <1>1, <1>2, <4>1, <4>2
      <4>4. exposures[m] \in {seq, Foreign}
        BY <4>1, <4>2 DEF Of
      <4>5. pipe'[i].n = m
        BY <4>1, <4>2
      <4> QED BY <4>3, <4>4, <4>5
    <3>2. ASSUME NEW i \in 1..Len(pipe'), i \notin 1..k
          PROVE  pipe'[i].n \in 1..Len(exposures') /\ exposures'[pipe'[i].n] \in {seq, Foreign}
      <4>1. pipe'[i].n = n
        BY <1>5, <3>2
      <4>2. n \in 1..Len(exposures') /\ exposures'[n] = id
        BY <1>1, <1>2
      <4> QED BY <4>1, <4>2
    <3> QED BY <3>1, <3>2
  <2>2. ASSUME NEW i \in 1..Len(pipe'), NEW j \in 1..Len(pipe'), i < j,
               pipe'[i].n = pipe'[j].n, pipe'[i].dir = "rise"
        PROVE  pipe'[j].dir = "rise"
    <3>1. CASE i \in 1..k /\ j \in 1..k
      BY <1>4, <2>2, <3>1 DEF PiInv, PipeInOrder
    <3>2. CASE i \notin 1..k /\ j \notin 1..k
      <4>1. i - k \in 1..Len(g) /\ j - k \in 1..Len(g) /\ i - k < j - k
            /\ g[i - k].dir = "rise" /\ pipe'[j] = g[j - k]
        BY <1>1, <1>4, <2>2, <3>2
      <4> QED BY <1>3, <4>1
    <3> QED BY <1>5, <2>2, <3>1, <3>2
  <2>3. ASSUME NEW i \in 1..Len(pipe'), pipe'[i].dir = "fall"
        PROVE  \E j \in i + 1..Len(pipe') : pipe'[j].n = pipe'[i].n /\ pipe'[j].dir = "rise"
    <3>1. CASE i \in 1..k
      <4>1. PICK j \in i + 1..k : pipe[j].n = pipe[i].n /\ pipe[j].dir = "rise"
        BY <1>4, <2>3, <3>1 DEF PiInv, PipeInOrder
      <4>2. j \in 1..k /\ j \in i + 1..Len(pipe')
        BY <1>1, <1>3, <1>4, <3>1, <4>1
      <4> QED BY <1>4, <3>1, <4>1, <4>2
    <3>2. CASE i \notin 1..k
      <4> DEFINE j == k + Len(g)
      <4>1. j \in 1..Len(pipe') /\ j \notin 1..k /\ pipe'[j] = g[Len(g)]
        BY <1>1, <1>3, <1>4
      <4>2. pipe'[j].n = pipe'[i].n /\ pipe'[j].dir = "rise"
        BY <1>3, <1>5, <3>2, <4>1
      <4>3. i # j
        BY <2>3, <4>2
      <4>4. j \in i + 1..Len(pipe')
        BY <1>1, <1>3, <1>4, <4>3
      <4> QED BY <4>2, <4>4
    <3> QED BY <3>1, <3>2
  <2>4. \A d \in Directions : last[d].at \in 0..Len(exposures)
    BY DEF PiInv, PipeInOrder
  <2>5. \A d \in Directions : last'[d].at \in 0..Len(exposures')
    BY <1>1, <1>2, <2>4
  <2>6. \A i \in 1..Len(pipe') : pipe'[i].n = last'["rise"].at => pipe'[i].dir = "rise"
    <3>1. last["rise"].at # n
      BY <1>1, <2>4 DEF Directions
    <3>2. \A i \in 1..k : pipe[i].n = last["rise"].at => pipe[i].dir = "rise"
      BY DEF PiInv, PipeInOrder
    <3> QED BY <1>4, <1>5, <3>1, <3>2
  <2>7. \A i \in 1..Len(pipe') : pipe'[i].n \in 1..Len(exposures') /\ Of(pipe[i].n, seq)'
    BY <2>1 DEF Of
  <2> QED BY <2>2, <2>3, <2>5, <2>6, <2>7 DEF PipeInOrder
<1>7. GivenOnce'
  BY DEF PiInv, GivenOnce, Taken
<1>8. \A i \in 1..Len(edges) : edges[i].n \in 1..Len(exposures) /\ edges[i].n \in 1..n
                                /\ exposures'[edges[i].n] = exposures[edges[i].n]
  BY <1>1, <1>2 DEF PiInv, Identified
<1>9. Identified'
  <2>1. RiseToCome => RiseToCome'
    BY <1>4 DEF RiseToCome
  <2> QED BY <1>2, <1>8, <2>1 DEF PiInv, Identified, Of
<1>10. AnswersBound'
  <2>1. \A at \in Nat, i \in Nat : Since(at, i) => Since(at, i)'
    BY <1>8 DEF Since
  <2>2. \A a \in answers : a.at \in Nat /\ a.id \in Nat
    BY DEF PiInv, PiTypeOK
  <2>3. \A p \in PiThreads : shot[p].at \in Nat /\ shot[p].id \in Nat
    BY DEF PiInv, PiTypeOK, Shots
  <2> QED BY <2>1, <2>2, <2>3 DEF PiInv, AnswersBound
<1>11. FallsKept'
  <2>1. \A m : (Fallen(m) => Fallen(m)') /\ (Falling(m) => Falling(m)')
    BY <1>4 DEF Fallen, Falling
  <2>2. Falling(n)'
    <3>1. k + 1 \in 1..Len(pipe') /\ pipe'[k + 1] = g[1] /\ g[1].n = n
      BY <1>1, <1>3, <1>4
    <3> QED BY <1>3, <3>1 DEF Falling
  <2>3. \A m \in 1..Len(exposures') : m \in 1..Len(exposures) \/ m = n
    BY <1>1, <1>2
  <2> QED BY <2>1, <2>2, <2>3 DEF PiInv, FallsKept
<1>12. InTurn'
  <2>1. \A m \in 1..Len(exposures') : exposures'[m] <= seq
    <3>1. id <= seq
      BY <1>1, ConstantsAre
    <3>2. \A m \in 1..Len(exposures') : m \in 1..Len(exposures) \/ m = n
      BY <1>1, <1>2
    <3> QED BY <1>2, <3>1, <3>2 DEF PiInv, InTurn
  <2>2. ASSUME NEW m \in 1..Len(exposures'), NEW h \in 1..Len(exposures'), m < h,
               exposures'[m] # Foreign, exposures'[h] # Foreign
        PROVE  exposures'[m] <= exposures'[h]
    <3>1. CASE h \in 1..Len(exposures)
      <4>1. m \in 1..Len(exposures) /\ exposures'[m] = exposures[m]
            /\ exposures'[h] = exposures[h]
        BY <1>1, <1>2, <2>2, <3>1
      <4> QED BY <2>2, <3>1, <4>1 DEF PiInv, InTurn
    <3>2. CASE h = n
      <4>1. exposures'[h] = seq
        BY <1>2, <2>2, <3>2
      <4> QED BY <2>1, <4>1
    <3> QED BY <1>1, <1>2, <3>1, <3>2
  <2>3. \A at \in Nat, i \in Nat : at <= Len(edges) /\ Before(at, i) => Before(at, i)'
    BY <1>8 DEF Before
  <2>4. \A a \in answers : a.at \in Nat /\ a.id \in Nat /\ a.at <= Len(edges)
    BY DEF PiInv, PiTypeOK, AnswersBound, Since
  <2>5. \A p \in PiThreads : shot[p].at \in Nat /\ shot[p].id \in Nat
                             /\ (Aimed(p) => shot[p].at <= Len(edges))
    BY DEF PiInv, PiTypeOK, Shots, AnswersBound, Since
  <2>6. ASSUME deaths = 0 PROVE FallsInTurn'
    <3>1. FallsInTurn
      BY <2>6 DEF PiInv, InTurn
    <3>2. ASSUME NEW i \in 1..Len(pipe'), pipe'[i].dir = "fall",
                 NEW m \in 1..pipe'[i].n - 1
          PROVE  Fallen(m) \/ FallingBefore(i, m)'
      <4>1. CASE i \in 1..k
        <5>1. pipe'[i] = pipe[i]
          BY <1>4, <4>1
        <5>2. Fallen(m) \/ FallingBefore(i, m)
          BY <3>1, <3>2, <4>1, <5>1 DEF FallsInTurn
        <5>3. \A j \in 1..i - 1 : pipe'[j] = pipe[j]
          BY <1>1, <1>4, <4>1
        <5> QED BY <5>2, <5>3 DEF FallingBefore
      <4>2. CASE i \notin 1..k
        <5>1. pipe'[i].n = n
          BY <1>5, <4>2
        <5>2. m \in 1..Len(exposures)
          BY <1>1, <3>2, <5>1
        <5>3. Fallen(m) \/ Falling(m)
          BY <2>6, <5>2 DEF PiInv, FallsKept
        <5>4. ASSUME Falling(m) PROVE FallingBefore(i, m)'
          <6>1. PICK j \in 1..k : pipe[j].dir = "fall" /\ pipe[j].n = m
            BY <5>4 DEF Falling
          <6>2. j \in 1..i - 1 /\ pipe'[j] = pipe[j]
            BY <1>1, <1>3, <1>4, <3>2, <4>2, <6>1
          <6> QED BY <6>1, <6>2 DEF FallingBefore
        <5> QED BY <5>3, <5>4
      <4> QED BY <4>1, <4>2
    <3> QED BY <3>1, <3>2 DEF FallsInTurn, FallenBefore, Fallen
  <2> QED BY <2>1, <2>2, <2>3, <2>4, <2>5, <2>6 DEF PiInv, InTurn
<1> QED BY <1>2, <1>4, <1>6, <1>7, <1>9, <1>10, <1>11, <1>12 DEF EdgesInOrder

\* The pulse, and what the body exposes of itself.
LEMMA ExposesIs ==
    ASSUME PiInv, NEW id, Exposes(id)
    PROVE  /\ exposures' = Append(exposures, id)
           /\ \E g : Group(g, Len(exposures) + 1) /\ pipe' = pipe \o g
           /\ Fault \/ UNCHANGED budget
<1>1. Len(exposures) + 1 \in Nat
  BY DEF PiInv, PiTypeOK
<1>2. Group(Clean(Len(exposures) + 1), Len(exposures) + 1)
      /\ \A g \in Noisy(Len(exposures) + 1) : Group(g, Len(exposures) + 1)
  BY <1>1, GroupsAre
<1> QED BY <1>2 DEF Exposes

LEMMA PulseKeeps ==
    ASSUME PiInv, NEW p \in PiThreads, Pulse(p)
    PROVE  PiInv'
<1>1. /\ UNCHANGED <<held, wire, lease, ttl, lock, seq, answers, pending, loop, current,
                     running, behind, stepping, last, open, edges, deaths>>
      /\ shot[p].pc = "aimed"
      /\ shot' = [shot EXCEPT ![p] = [shot[p] EXCEPT !.pc = "fired"]]
      /\ Exposes(shot[p].id) \/ UNCHANGED <<pipe, exposures, budget>>
  <2>1. shot \in [PiThreads -> Shots]
    BY DEF PiInv, PiTypeOK
  <2> QED BY <2>1 DEF Pulse, focus, interval, clock, line, monitor
<1>2. /\ shot' \in [PiThreads -> Shots] /\ shot'[p].pc = "fired"
      /\ shot'[p].lead = shot[p].lead /\ shot'[p].id = shot[p].id
      /\ shot'[p].at = shot[p].at
      /\ \A q \in PiThreads : q # p => shot'[q] = shot[q]
  <2>1. shot \in [PiThreads -> Shots] /\ shot[p] \in Shots
    BY DEF PiInv, PiTypeOK
  <2>2. [shot[p] EXCEPT !.pc = "fired"] \in Shots
    BY <2>1 DEF Shots
  <2> QED BY <1>1, <2>1, <2>2 DEF Shots
<1>3. lock = p /\ shot[p].id = seq /\ Aimed(p)
  BY <1>1, FiresAlone DEF PiInv, ShotsInOrder, Aimed
<1>4. \A q \in PiThreads : Aimed(q)' => /\ Aimed(q) /\ shot'[q].id = shot[q].id
                                      /\ shot'[q].at = shot[q].at
  BY <1>2, <1>3 DEF Aimed
<1>5. EdgesInOrder' /\ pipe' \in Seq(Stamped) /\ exposures' \in Seq(Int)
      /\ budget' \in [{"calls", "faults"} -> Nat]
  <2>1. CASE UNCHANGED <<pipe, exposures, budget>>
    <3>1. EdgesInOrder'
      BY <1>1, <1>4, <2>1, EdgesStay DEF EdgesRest
    <3> QED BY <2>1, <3>1 DEF PiInv, PiTypeOK
  <2>2. CASE Exposes(shot[p].id)
    <3>1. /\ exposures' = Append(exposures, seq)
          /\ \E g : Group(g, Len(exposures) + 1) /\ pipe' = pipe \o g
          /\ Fault \/ UNCHANGED budget
      BY <1>3, <2>2, ExposesIs
    <3>2. EdgesInOrder' /\ pipe' \in Seq(Stamped) /\ exposures' \in Seq(Int)
      BY <1>1, <1>4, <3>1, EdgesArrive
    <3> QED BY <3>1, <3>2, BudgetKept
  <2> QED BY <1>1, <2>1, <2>2
<1>6. PiTypeOK'
  BY <1>1, <1>2, <1>5 DEF PiInv, PiTypeOK
<1>7. ShotsInOrder'
  BY <1>1, <1>2, <1>3, <1>4 DEF PiInv, ShotsInOrder
<1>8. LoopsInOrder'
  BY <1>1, <1>2, ConstantsAre DEF PiInv, LoopsInOrder, Owns, Live, Orphan
<1>9. WireInOrder'
  BY <1>1, <1>2, <1>3, ConstantsAre DEF PiInv, WireInOrder, Wanted
<1> QED BY <1>5, <1>6, <1>7, <1>8, <1>9 DEF PiInv, EdgesInOrder

LEMMA BodyExposesKeeps ==
    ASSUME PiInv, BodyExposes
    PROVE  PiInv'
<1>1. /\ UNCHANGED <<held, wire, lease, ttl, shot, lock, seq, answers, pending, loop,
                     current, running, behind, stepping, last, open, edges, deaths>>
      /\ exposures' = Append(exposures, Foreign) /\ pipe = <<>>
      /\ pipe' = Clean(Len(exposures) + 1)
  BY DEF BodyExposes, focus, firing, interval, clock, monitor
<1>2. Len(exposures) + 1 \in Nat
  BY DEF PiInv, PiTypeOK
<1>3. Group(Clean(Len(exposures) + 1), Len(exposures) + 1)
  BY <1>2, GroupsAre
<1>4. pipe' = pipe \o Clean(Len(exposures) + 1)
  BY <1>1, <1>3 DEF Group
<1>5. EdgesInOrder' /\ pipe' \in Seq(Stamped) /\ exposures' \in Seq(Int)
  BY <1>1, <1>3, <1>4, EdgesArrive DEF Aimed
<1>6. budget' \in [{"calls", "faults"} -> Nat]
  BY BudgetKept DEF BodyExposes
<1>7. PiTypeOK'
  BY <1>1, <1>5, <1>6 DEF PiInv, PiTypeOK
<1>8. ShotsInOrder' /\ LoopsInOrder' /\ WireInOrder'
  BY <1>1 DEF PiInv, ShotsInOrder, Aimed, LoopsInOrder, Owns, Live, Orphan, WireInOrder, Wanted
<1> QED BY <1>5, <1>7, <1>8 DEF PiInv, EdgesInOrder

-----------------------------------------------------------------------------
(***************************************************************************)
(* The monitor reads an edge, or dies.                                     *)
(***************************************************************************)
\* Only what the monitor keeps changes.
MonitorMoves ==
    /\ UNCHANGED <<held, wire, lease, ttl, shot, lock, seq, answers, loop, current, running,
                   behind, stepping, exposures>>
    /\ pending' \in [id : Nat, left : Nat] /\ pipe' \in Seq(Stamped)
    /\ last' \in [Directions -> References] /\ open' \in [id : Nat, gen : Nat]
    /\ edges' \in Seq(EdgeRecords) /\ deaths' \in Nat
    /\ budget' \in [{"calls", "faults"} -> Nat]

LEMMA MonitorKeeps ==
    ASSUME PiInv, MonitorMoves, EdgesInOrder'
    PROVE  PiInv'
<1> USE DEF MonitorMoves
<1>1. PiTypeOK'
  BY DEF PiInv, PiTypeOK
<1>2. ShotsInOrder' /\ LoopsInOrder' /\ WireInOrder'
  BY DEF PiInv, ShotsInOrder, Aimed, LoopsInOrder, Owns, Live, Orphan, WireInOrder, Wanted
<1> QED BY <1>1, <1>2 DEF PiInv, EdgesInOrder

LEMMA MonitorDiesKeeps ==
    ASSUME PiInv, MonitorDies
    PROVE  PiInv'
<1>1. /\ UNCHANGED <<held, wire, lease, ttl, shot, lock, seq, answers, pending, loop,
                     current, running, behind, stepping, exposures, open, edges>>
      /\ pipe' = <<>> /\ deaths' = deaths + 1
      /\ last' = [d \in Directions |-> [domain |-> "none", at |-> 0]]
  BY DEF MonitorDies, NoLast, Directions, focus, firing, interval, clock
<1>2. deaths \in Nat /\ edges \in Seq(EdgeRecords) /\ open \in [id : Nat, gen : Nat]
      /\ Len(exposures) \in Nat
  BY DEF PiInv, PiTypeOK
<1>3. last' \in [Directions -> References] /\ \A d \in Directions : last'[d].at = 0
  BY <1>1 DEF References
<1>4. budget' \in [{"calls", "faults"} -> Nat]
  BY BudgetKept DEF MonitorDies
<1>5. <<>> \in Seq(Stamped) /\ Len(<<>>) = 0
  OBVIOUS
<1>6. MonitorMoves
  BY <1>1, <1>2, <1>3, <1>4, <1>5 DEF PiInv, PiTypeOK, MonitorMoves
<1>7. PipeInOrder'
  BY <1>1, <1>2, <1>3, <1>5 DEF PipeInOrder
<1>8. GivenOnce'
  BY <1>1 DEF PiInv, GivenOnce, Taken
<1>9. Identified'
  <2>1. \A e \in EdgeRecords : e.gen \in Nat
    BY DEF EdgeRecords
  <2>2. \A i \in 1..Len(edges) : /\ edges[i].n \in 1..Len(exposures) 
                                 /\ edges[i].gen \in Nat /\ edges[i].gen <= deaths
    BY <1>2, <2>1 DEF PiInv, Identified
  <2>3. open.gen \in Nat /\ open.gen <= deaths
    BY <1>2 DEF PiInv, Identified
  <2> QED BY <1>1, <1>2, <2>2, <2>3 DEF Identified
<1>10. AnswersBound'
  BY <1>1 DEF PiInv, AnswersBound, Since, Aimed
<1>11. FallsKept'
  BY <1>1, <1>2 DEF FallsKept
<1>12. InTurn'
  BY <1>1, <1>2 DEF PiInv, InTurn, Before, Aimed
<1> QED BY <1>6, <1>7, <1>8, <1>9, <1>10, <1>11, <1>12, MonitorKeeps DEF EdgesInOrder

\* The pipe without its head.
LEMMA TailIs ==
    ASSUME PiInv, pipe # <<>>, pipe' = Tail(pipe)
    PROVE  /\ Head(pipe) = pipe[1] /\ 1 \in 1..Len(pipe) /\ pipe[1] \in Stamped
           /\ pipe' \in Seq(Stamped) /\ Len(pipe) \in Nat /\ Len(pipe') = Len(pipe) - 1
           /\ \A i \in 1..Len(pipe') : i + 1 \in 1..Len(pipe) /\ pipe'[i] = pipe[i + 1]
           /\ \A i \in 1..Len(pipe) : i # 1 => i - 1 \in 1..Len(pipe')
                                               /\ pipe'[i - 1] = pipe[i]
BY DEF PiInv, PiTypeOK

\* Reading an edge keeps the order of those behind it.
LEMMA ReadKeepsThePipe ==
    ASSUME PiInv, pipe # <<>>, pipe' = Tail(pipe), UNCHANGED <<exposures, seq>>,
           UNCHANGED last \/ last' = [last EXCEPT ![pipe[1].dir] = Reference(pipe[1])]
    PROVE  PipeInOrder' /\ last' \in [Directions -> References]
<1>1. /\ 1 \in 1..Len(pipe) /\ pipe[1] \in Stamped
      /\ pipe' \in Seq(Stamped) /\ Len(pipe) \in Nat /\ Len(pipe') = Len(pipe) - 1
      /\ \A i \in 1..Len(pipe') : i + 1 \in 1..Len(pipe) /\ pipe'[i] = pipe[i + 1]
      /\ \A i \in 1..Len(pipe) : i # 1 => i - 1 \in 1..Len(pipe') /\ pipe'[i - 1] = pipe[i]
  BY TailIs
<1>2. pipe[1].dir \in Directions /\ pipe[1].n \in Nat /\ last \in [Directions -> References]
  BY <1>1 DEF Stamped, PiInv, PiTypeOK
<1>3. Reference(pipe[1]) \in References /\ Reference(pipe[1]).at = pipe[1].n
  BY <1>2 DEF Reference, References, Domain
<1>4. /\ last' \in [Directions -> References]
      /\ \A d \in Directions : last'[d] = last[d]
                                \/ (d = pipe[1].dir /\ last'[d].at = pipe[1].n)
  BY <1>2, <1>3
<1>5. \A i \in 1..Len(pipe') : pipe'[i].n \in 1..Len(exposures) /\ Of(pipe'[i].n, seq)
  BY <1>1 DEF PiInv, PipeInOrder
<1>6. ASSUME NEW i \in 1..Len(pipe'), NEW j \in 1..Len(pipe'), i < j,
             pipe'[i].n = pipe'[j].n, pipe'[i].dir = "rise"
      PROVE  pipe'[j].dir = "rise"
  <2>1. i + 1 < j + 1
    BY <1>6
  <2> QED BY <1>1, <1>6, <2>1 DEF PiInv, PipeInOrder
<1>7. ASSUME NEW i \in 1..Len(pipe'), pipe'[i].dir = "fall"
      PROVE  \E j \in i + 1..Len(pipe') : pipe'[j].n = pipe'[i].n /\ pipe'[j].dir = "rise"
  <2>1. PICK j \in (i + 1) + 1..Len(pipe) : pipe[j].n = pipe[i + 1].n /\ pipe[j].dir = "rise"
    BY <1>1, <1>7 DEF PiInv, PipeInOrder
  <2>2. j \in 1..Len(pipe) /\ j # 1 /\ j - 1 \in i + 1..Len(pipe')
    BY <1>1, <2>1
  <2> QED BY <1>1, <2>1, <2>2
<1>8. \A d \in Directions : last'[d].at \in 0..Len(exposures)
  <2>1. pipe[1].n \in 1..Len(exposures)
    BY <1>1 DEF PiInv, PipeInOrder
  <2>2. pipe[1].n \in 0..Len(exposures)
    BY <2>1
  <2> QED BY <1>4, <2>2 DEF PiInv, PipeInOrder
<1>9. ASSUME NEW i \in 1..Len(pipe'), pipe'[i].n = last'["rise"].at
      PROVE  pipe'[i].dir = "rise"
  <2>1. i + 1 \in 1..Len(pipe) /\ pipe'[i] = pipe[i + 1] /\ 1 < i + 1
    BY <1>1
  <2>2. CASE last'["rise"] = last["rise"]
    <3>1. \A j \in 1..Len(pipe) : pipe[j].n = last["rise"].at => pipe[j].dir = "rise"
      BY DEF PiInv, PipeInOrder
    <3> QED BY <1>9, <2>1, <2>2, <3>1
  <2>3. CASE pipe[1].dir = "rise" /\ last'["rise"].at = pipe[1].n
    <3>1. \A h, j \in 1..Len(pipe) :
              h < j /\ pipe[h].n = pipe[j].n /\ pipe[h].dir = "rise"
                  => pipe[j].dir = "rise"
      BY DEF PiInv, PipeInOrder
    <3> QED BY <1>1, <1>9, <2>1, <2>3, <3>1
  <2> QED BY <1>4, <2>2, <2>3 DEF Directions
<1>10. \A i \in 1..Len(pipe') :
           pipe'[i].n \in 1..Len(exposures') /\ Of(pipe[i].n, seq)'
  BY <1>5 DEF Of
<1>11. \A d \in Directions : last'[d].at \in 0..Len(exposures')
  BY <1>8
<1>12. PipeInOrder'
  <2>1. \A i \in 1..Len(pipe') : pipe'[i].dir = "fall" =>
            \E j \in i + 1..Len(pipe') : pipe'[j].n = pipe'[i].n /\ pipe'[j].dir = "rise"
    BY <1>7
  <2>2. \A i \in 1..Len(pipe') : pipe'[i].n = last'["rise"].at => pipe'[i].dir = "rise"
    BY <1>9
  <2>3. \A i, j \in 1..Len(pipe') :
            i < j /\ pipe'[i].n = pipe'[j].n /\ pipe'[i].dir = "rise"
                => pipe'[j].dir = "rise"
    BY <1>6
  <2> QED BY <1>10, <1>11, <2>1, <2>2, <2>3 DEF PipeInOrder
<1> QED BY <1>4, <1>12

\* An edge read is of the latest fire or foreign, and a fall is followed by its rise.
LEMMA HeadIs ==
    ASSUME PiInv, pipe # <<>>
    PROVE  /\ pipe[1] \in Stamped /\ pipe[1].dir \in Directions
           /\ pipe[1].n \in 1..Len(exposures) /\ Of(pipe[1].n, seq)
           /\ Reference(pipe[1]).at = pipe[1].n
           /\ pipe[1].dir = "fall" =>
                  /\ pipe[1].n # last["rise"].at
                  /\ \E j \in 2..Len(pipe) : pipe[j].n = pipe[1].n /\ pipe[j].dir = "rise"
<1>1. 1 \in 1..Len(pipe) /\ pipe[1] \in Stamped
  BY DEF PiInv, PiTypeOK
<1>2. pipe[1].dir \in Directions /\ Reference(pipe[1]).at = pipe[1].n
  BY <1>1 DEF Stamped, Reference
<1>3. pipe[1].n \in 1..Len(exposures) /\ Of(pipe[1].n, seq)
  BY <1>1 DEF PiInv, PipeInOrder
<1>4. ASSUME pipe[1].dir = "fall"
      PROVE  /\ pipe[1].n # last["rise"].at
             /\ \E j \in 2..Len(pipe) : pipe[j].n = pipe[1].n /\ pipe[j].dir = "rise"
  <2>1. pipe[1].n # last["rise"].at
    BY <1>1, <1>4 DEF PiInv, PipeInOrder
  <2>2. \E j \in 1 + 1..Len(pipe) : pipe[j].n = pipe[1].n /\ pipe[j].dir = "rise"
    BY <1>1, <1>4 DEF PiInv, PipeInOrder
  <2> QED BY <2>1, <2>2
<1> QED BY <1>1, <1>2, <1>3, <1>4

\* Once its head is read the falls in the pipe still come in turn.
LEMMA TurnsLeft ==
    ASSUME PiInv, pipe # <<>>, pipe' = Tail(pipe), deaths = 0,
           NEW i \in 1..Len(pipe'), pipe'[i].dir = "fall", NEW n \in 1..pipe'[i].n - 1
    PROVE  \/ Fallen(n) \/ FallingBefore(i, n)'
           \/ pipe[1].dir = "fall" /\ pipe[1].n = n
<1>1. /\ Len(pipe) \in Nat /\ Len(pipe') = Len(pipe) - 1
      /\ i + 1 \in 1..Len(pipe) /\ pipe'[i] = pipe[i + 1]
      /\ \A j \in 1..Len(pipe) : j # 1 => j - 1 \in 1..Len(pipe') /\ pipe'[j - 1] = pipe[j]
  BY TailIs
<1>2. Fallen(n) \/ FallingBefore(i + 1, n)
  BY <1>1 DEF PiInv, InTurn, FallsInTurn
<1>3. ASSUME FallingBefore(i + 1, n), ~(pipe[1].dir = "fall" /\ pipe[1].n = n)
      PROVE  FallingBefore(i, n)'
  <2>1. PICK j \in 1..(i + 1) - 1 : pipe[j].dir = "fall" /\ pipe[j].n = n
    BY <1>3 DEF FallingBefore
  <2>2. j # 1
    BY <1>3, <2>1
  <2>3. j - 1 \in 1..i - 1 /\ j \in 1..Len(pipe)
    BY <1>1, <2>1, <2>2
  <2>4. pipe'[j - 1] = pipe[j]
    BY <1>1, <2>2, <2>3
  <2> QED BY <2>1, <2>3, <2>4 DEF FallingBefore
<1> QED BY <1>2, <1>3

\* A repeat inside the guard of the debounce: nothing is recorded.
LEMMA BouncedKeeps ==
    ASSUME PiInv, pipe # <<>>, Bounced(pipe[1]), pipe' = Tail(pipe),
           UNCHANGED <<last, open, edges, pending, shot, seq, answers, exposures, deaths>>
    PROVE  EdgesInOrder'
<1>1. \A i \in 1..Len(pipe) : i # 1 => i - 1 \in 1..Len(pipe') /\ pipe'[i - 1] = pipe[i]
  BY TailIs
<1>2. last[pipe[1].dir].at = pipe[1].n /\ pipe[1].n \in 1..Len(exposures)
  BY HeadIs DEF Bounced
<1>3. PipeInOrder'
  BY ReadKeepsThePipe
<1>4. GivenOnce' /\ AnswersBound'
  BY DEF PiInv, GivenOnce, Taken, AnswersBound, Since, Aimed
<1>5. Identified'
  <2>1. RiseToCome => RiseToCome'
    BY <1>1, <1>2 DEF RiseToCome
  <2> QED BY <2>1 DEF PiInv, Identified, Of
<1>6. FallsKept'
  <2>1. ASSUME deaths = 0, NEW n \in 1..Len(exposures) PROVE Fallen(n) \/ Falling(n)'
    <3>1. CASE Fallen(n)
      BY <3>1
    <3>2. CASE Falling(n)
      <4>1. PICK i \in 1..Len(pipe) : pipe[i].dir = "fall" /\ pipe[i].n = n
        BY <3>2 DEF Falling
      <4>2. CASE i = 1
        <5>1. last["fall"].at = n /\ last["fall"].at # 0
          BY <1>2, <4>1, <4>2
        <5> QED BY <2>1, <5>1 DEF PiInv, FallsKept
      <4>3. CASE i # 1
        BY <1>1, <4>1, <4>3 DEF Falling
      <4> QED BY <4>2, <4>3
    <3> QED BY <2>1, <3>1, <3>2 DEF PiInv, FallsKept
  <2> QED BY <2>1 DEF PiInv, FallsKept, Fallen
<1>7. InTurn'
  <2>1. ASSUME deaths = 0 PROVE FallsInTurn'
    <3>1. pipe[1].dir = "fall" => Fallen(pipe[1].n)
      BY <1>2, <2>1 DEF PiInv, FallsKept
    <3>2. \A i \in 1..Len(edges) : edges[i].dir = "fall" =>
              \A n \in 1..edges[i].n - 1 : FallenBefore(i, n)
      BY <2>1 DEF PiInv, InTurn, FallsInTurn
    <3>3. \A i \in 1..Len(pipe') : pipe'[i].dir = "fall" =>
              \A n \in 1..pipe'[i].n - 1 : Fallen(n) \/ FallingBefore(i, n)'
      BY <2>1, <3>1, TurnsLeft
    <3>4. \A i \in 1..Len(edges') : edges'[i].dir = "fall" =>
              \A n \in 1..edges'[i].n - 1 : FallenBefore(i, n)'
      BY <3>2 DEF FallenBefore
    <3>5. \A n : Fallen(n)' <=> Fallen(n)
      BY DEF Fallen
    <3> QED BY <3>3, <3>4, <3>5 DEF FallsInTurn
  <2> QED BY <2>1 DEF PiInv, InTurn, Before, Aimed
<1> QED BY <1>3, <1>4, <1>5, <1>6, <1>7 DEF EdgesInOrder

\* What one more edge on record is.
LEMMA RecordIs ==
    ASSUME PiInv, NEW r \in EdgeRecords, edges' = Append(edges, r)
    PROVE  /\ edges \in Seq(EdgeRecords) /\ edges' \in Seq(EdgeRecords)
           /\ Len(edges) \in Nat /\ Len(edges') = Len(edges) + 1
           /\ \A i \in 1..Len(edges) : i \in 1..Len(edges') /\ edges'[i] = edges[i]
           /\ Len(edges) + 1 \in 1..Len(edges') /\ edges'[Len(edges) + 1] = r
           /\ \A i \in 1..Len(edges') :
                 i \in 1..Len(edges) \/ (i = Len(edges) + 1 /\ edges'[i] = r)
<1>1. edges \in Seq(EdgeRecords)
  BY DEF PiInv, PiTypeOK
<1> QED BY <1>1

\* What is recorded of the latest fire, or of the body, was recorded since any aim.
LEMMA RecordBounds ==
    ASSUME PiInv, NEW r \in EdgeRecords, edges' = Append(edges, r),
           r.n \in 1..Len(exposures), Of(r.n, seq),
           UNCHANGED <<exposures, shot, seq, answers>>
    PROVE  AnswersBound'
<1>1. /\ Len(edges) \in Nat /\ Len(edges') = Len(edges) + 1
      /\ \A i \in 1..Len(edges) : i \in 1..Len(edges') /\ edges'[i] = edges[i]
      /\ \A i \in 1..Len(edges') :
            i \in 1..Len(edges) \/ (i = Len(edges) + 1 /\ edges'[i] = r)
  BY RecordIs
<1>2. ASSUME NEW at \in Nat, NEW id \in Nat, Since(at, id) PROVE Since(at, id)'
  <2>1. seq \in Nat /\ id <= seq /\ at <= Len(edges) + 1
    BY <1>1, <1>2 DEF Since, PiInv, PiTypeOK
  <2>2. ASSUME NEW i \in at + 1..Len(edges')
        PROVE  exposures[edges'[i].n] >= id \/ exposures[edges'[i].n] = Foreign
    <3>1. i \in 1..Len(edges')
      BY <2>2
    <3>2. CASE i \in 1..Len(edges)
      <4>1. i \in at + 1..Len(edges) /\ edges'[i] = edges[i]
        BY <1>1, <3>2
      <4> QED BY <1>2, <4>1 DEF Since
    <3>3. CASE edges'[i] = r
      BY <2>1, <3>3 DEF Of
    <3> QED BY <1>1, <3>1, <3>2, <3>3
  <2> QED BY <1>1, <2>1, <2>2 DEF Since
<1>3. \A a \in answers : a.at \in Nat /\ a.id \in Nat
  BY DEF PiInv, PiTypeOK
<1>4. \A p \in PiThreads : shot[p].at \in Nat /\ shot[p].id \in Nat
  BY DEF PiInv, PiTypeOK, Shots
<1> QED BY <1>2, <1>3, <1>4 DEF PiInv, AnswersBound, Aimed

\* One more edge on record is in turn, and what is on record stays so.
LEMMA RecordInTurn ==
    ASSUME PiInv, NEW r \in EdgeRecords, edges' = Append(edges, r),
           pipe # <<>>, pipe' = Tail(pipe), r.dir = pipe[1].dir, r.n = pipe[1].n,
           UNCHANGED <<exposures, shot, seq, answers, deaths>>
    PROVE  InTurn'
<1>1. /\ Len(edges) \in Nat /\ Len(edges') = Len(edges) + 1
      /\ \A i \in 1..Len(edges) : i \in 1..Len(edges') /\ edges'[i] = edges[i]
      /\ Len(edges) + 1 \in 1..Len(edges') /\ edges'[Len(edges) + 1] = r
      /\ \A i \in 1..Len(edges') :
            i \in 1..Len(edges) \/ (i = Len(edges) + 1 /\ edges'[i] = r)
  BY RecordIs
<1>2. \A at \in Nat, id \in Nat : at <= Len(edges) /\ Before(at, id) => Before(at, id)'
  <2>1. ASSUME NEW at \in Nat, NEW id \in Nat, at <= Len(edges), Before(at, id),
               NEW i \in 1..at
        PROVE  exposures[edges'[i].n] < id
    <3>1. i \in 1..Len(edges) /\ edges'[i] = edges[i]
      BY <1>1, <2>1
    <3> QED BY <2>1, <3>1 DEF Before
  <2> QED BY <2>1 DEF Before
<1>3. \A a \in answers : a.at \in Nat /\ a.id \in Nat /\ a.at <= Len(edges)
  BY DEF PiInv, PiTypeOK, AnswersBound, Since
<1>4. \A p \in PiThreads : shot[p].at \in Nat /\ shot[p].id \in Nat
                           /\ (Aimed(p) => shot[p].at <= Len(edges))
  BY DEF PiInv, PiTypeOK, Shots, AnswersBound, Since
<1>5. \A n : Fallen(n) => Fallen(n)'
  BY <1>1 DEF Fallen
<1>6. r.dir = "fall" => Fallen(r.n)'
  BY <1>1 DEF Fallen
<1>7. ASSUME deaths = 0 PROVE FallsInTurn'
  <2>1. FallsInTurn
    BY <1>7 DEF PiInv, InTurn
  <2>2. ASSUME NEW i \in 1..Len(edges'), edges'[i].dir = "fall",
               NEW n \in 1..edges'[i].n - 1
        PROVE  FallenBefore(i, n)'
    <3>1. CASE i \in 1..Len(edges)
      <4>1. FallenBefore(i, n)
        BY <1>1, <2>1, <2>2, <3>1 DEF FallsInTurn
      <4>2. \A j \in 1..i - 1 : edges'[j] = edges[j]
        BY <1>1, <3>1
      <4> QED BY <4>1, <4>2 DEF FallenBefore
    <3>2. CASE i = Len(edges) + 1 /\ edges'[i] = r
      <4>1. 1 \in 1..Len(pipe)
        BY TailIs
      <4>2. Fallen(n) \/ FallingBefore(1, n)
        BY <2>1, <2>2, <3>2, <4>1 DEF FallsInTurn
      <4>3. ~FallingBefore(1, n)
        BY DEF FallingBefore
      <4>4. PICK j \in 1..Len(edges) : edges[j].dir = "fall" /\ edges[j].n = n
        BY <4>2, <4>3 DEF Fallen
      <4>5. j \in 1..i - 1 /\ edges'[j] = edges[j]
        BY <1>1, <3>2, <4>4
      <4> QED BY <4>4, <4>5 DEF FallenBefore
    <3> QED BY <1>1, <3>1, <3>2
  <2>3. ASSUME NEW i \in 1..Len(pipe'), pipe'[i].dir = "fall",
               NEW n \in 1..pipe'[i].n - 1
        PROVE  Fallen(n)' \/ FallingBefore(i, n)'
    BY <1>5, <1>6, <1>7, <2>3, TurnsLeft
  <2> QED BY <2>2, <2>3 DEF FallsInTurn
<1> QED BY <1>2, <1>3, <1>4, <1>7 DEF PiInv, InTurn, Aimed

\* A fall: the fire that waits gives it its identity, once.
LEMMA FallsKeeps ==
    ASSUME PiInv, pipe # <<>>, Falls(pipe[1]), pipe' = Tail(pipe),
           last' = [last EXCEPT ![pipe[1].dir] = Reference(pipe[1])],
           UNCHANGED <<shot, seq, answers, exposures, deaths>>
    PROVE  /\ EdgesInOrder' /\ edges' \in Seq(EdgeRecords)
           /\ pending' \in [id : Nat, left : Nat] /\ open' \in [id : Nat, gen : Nat]
<1> PICK id : id = IF pending.left > 0 THEN pending.id ELSE None
  OBVIOUS
<1> DEFINE r == [dir |-> "fall", n |-> pipe[1].n, fs |-> id, hw |-> Hardware(pipe[1]),
                 gen |-> deaths]
<1>1. /\ pipe[1] \in Stamped /\ pipe[1].n \in 1..Len(exposures) /\ Of(pipe[1].n, seq)
      /\ pipe[1].n # last["rise"].at
      /\ \E j \in 2..Len(pipe) : pipe[j].n = pipe[1].n /\ pipe[j].dir = "rise"
      /\ pipe[1].dir = "fall"
  BY HeadIs DEF Falls
<1>2. \A i \in 1..Len(pipe) : i # 1 => i - 1 \in 1..Len(pipe') /\ pipe'[i - 1] = pipe[i]
  BY TailIs
<1>3. /\ pending \in [id : Nat, left : Nat] /\ deaths \in Nat /\ seq \in Nat
      /\ last \in [Directions -> References]
  BY DEF PiInv, PiTypeOK
<1>4. id \in Nat /\ (id # None => id = seq /\ ~Taken("fall", seq)) /\ id <= seq
      /\ (pending.left > 0 => id # None)
  BY <1>3, ConstantsAre DEF PiInv, GivenOnce
<1>5. /\ edges' = Append(edges, r)
      /\ open' = IF id = None THEN NoOpen ELSE [id |-> id, gen |-> deaths]
  BY <1>1 DEF Falls, Recorded
<1>6. /\ pending' \in [id : Nat, left : Nat]
      /\ pending'.left = 0
  <2>1. pending' = IF id = None THEN pending ELSE NoPending
    BY DEF Falls
  <2> QED BY <1>3, <1>4, <2>1, ConstantsAre DEF NoPending
<1>7. r \in EdgeRecords
  BY <1>1, <1>3, <1>4 DEF EdgeRecords, Stamped, Directions, Hardware
<1>8. r.dir = "fall" /\ r.n = pipe[1].n /\ r.fs = id /\ r.gen = deaths
  OBVIOUS
<1> HIDE DEF r
<1>9. /\ edges' \in Seq(EdgeRecords)
      /\ \A i \in 1..Len(edges) : i \in 1..Len(edges') /\ edges'[i] = edges[i]
      /\ Len(edges) + 1 \in 1..Len(edges') /\ edges'[Len(edges) + 1] = r
      /\ \A i \in 1..Len(edges') :
            i \in 1..Len(edges) \/ (i = Len(edges) + 1 /\ edges'[i] = r)
  BY <1>5, <1>7, RecordIs
<1>10. PipeInOrder'
  BY ReadKeepsThePipe
<1>11. \A d, x : Taken(d, x) => Taken(d, x)'
  BY <1>9 DEF Taken
<1>12. GivenOnce'
  <2>1. open'.id # None => open'.id = id /\ id # None
    BY <1>5 DEF NoOpen
  <2>2. id # None => Taken("fall", id)' /\ ~Taken("rise", id)'
    <3>1. Taken("fall", id)'
      BY <1>8, <1>9 DEF Taken
    <3>2. ASSUME id # None PROVE ~Taken("rise", id)
      BY <1>4, <3>2 DEF PiInv, GivenOnce, Taken
    <3> QED BY <1>8, <1>9, <3>1, <3>2 DEF Taken
  <2>3. ASSUME NEW i \in 1..Len(edges'), NEW x, x = edges'[i].fs
        PROVE  x <= seq /\ (x # None => Taken("fall", x)')
    <3>1. CASE i \in 1..Len(edges)
      <4>1. x = edges[i].fs
        BY <1>9, <2>3, <3>1
      <4>2. x <= seq /\ (x # None => Taken("fall", x))
        BY <3>1, <4>1 DEF PiInv, GivenOnce
      <4> QED BY <1>11, <4>2
    <3>2. CASE edges'[i] = r
      BY <1>4, <1>8, <2>2, <2>3, <3>2
    <3> QED BY <1>9, <3>1, <3>2
  <2>4. ASSUME NEW i \in 1..Len(edges'), NEW j \in 1..Len(edges'), edges'[i].fs # None,
               edges'[i].fs = edges'[j].fs, edges'[i].dir = edges'[j].dir
        PROVE  i = j
    <3>1. CASE i \in 1..Len(edges) /\ j \in 1..Len(edges)
      BY <1>9, <2>4, <3>1 DEF PiInv, GivenOnce
    <3>2. CASE edges'[i] = r /\ j \in 1..Len(edges)
      BY <1>4, <1>8, <1>9, <2>4, <3>2 DEF Taken
    <3>3. CASE edges'[j] = r /\ i \in 1..Len(edges)
      BY <1>4, <1>8, <1>9, <2>4, <3>3 DEF Taken
    <3> QED BY <1>9, <3>1, <3>2, <3>3
  <2>5. \A i \in 1..Len(edges') :
           edges'[i].fs <= seq' /\ (edges'[i].fs # None => Taken("fall", edges[i].fs)')
    BY <2>3 DEF Taken
  <2>6. open'.id # None => Taken("fall", open.id)' /\ ~Taken("rise", open.id)'
    BY <2>1, <2>2 DEF Taken
  <2>7. ~(pending'.left > 0)
    BY <1>6
  <2> QED BY <2>4, <2>5, <2>6, <2>7 DEF GivenOnce
<1>13. Identified'
  <2>1. open'.gen <= deaths
    BY <1>3, <1>5, ConstantsAre DEF NoOpen
  <2>2. open'.id # None => open'.id = seq
    BY <1>4, <1>5 DEF NoOpen
  <2>3. RiseToCome'
    <3>1. PICK j \in 2..Len(pipe) : pipe[j].n = pipe[1].n /\ pipe[j].dir = "rise"
      BY <1>1
    <3>2. j - 1 \in 1..Len(pipe') /\ pipe'[j - 1] = pipe[j]
      BY <1>2
    <3>3. last'["rise"] = last["rise"]
      BY <1>1, <1>3 DEF Directions
    <3> QED BY <1>1, <3>1, <3>2, <3>3 DEF RiseToCome
  <2>4. \A i \in 1..Len(edges') :
          /\ edges'[i].n \in 1..Len(exposures) /\ edges'[i].gen <= deaths
          /\ edges'[i].fs # None /\ edges'[i].gen = deaths => Of(edges'[i].n, edges'[i].fs)
    <3>1. Of(r.n, seq) /\ r.n \in 1..Len(exposures) /\ r.gen <= deaths
          /\ (r.fs # None => r.fs = seq)
      BY <1>1, <1>3, <1>4, <1>8
    <3>2. ASSUME NEW i \in 1..Len(edges')
          PROVE  edges'[i] = r \/ (i \in 1..Len(edges) /\ edges'[i] = edges[i])
      BY <1>9
    <3> QED BY <3>1, <3>2 DEF PiInv, Identified
  <2> QED BY <2>1, <2>2, <2>3, <2>4 DEF Identified, Of
<1>14. AnswersBound'
  BY <1>1, <1>5, <1>7, <1>8, RecordBounds
<1>15. FallsKept'
  <2>1. \A n : Fallen(n) => Fallen(n)'
    BY <1>9 DEF Fallen
  <2>2. ASSUME NEW n, n = pipe[1].n PROVE Fallen(n)'
    BY <1>8, <1>9, <2>2 DEF Fallen
  <2>3. \A n : Falling(n) => Falling(n)' \/ n = pipe[1].n
    BY <1>2 DEF Falling
  <2>4. last'["fall"].at = pipe[1].n
    BY <1>1, <1>3, HeadIs DEF Directions
  <2>5. Fallen(last["fall"].at)'
    BY <2>2, <2>4 DEF Fallen
  <2> QED BY <2>1, <2>2, <2>3, <2>5 DEF PiInv, FallsKept
<1>16. open' \in [id : Nat, gen : Nat]
  BY <1>3, <1>4, <1>5, ConstantsAre DEF NoOpen
<1>17. InTurn'
  BY <1>1, <1>5, <1>7, <1>8, RecordInTurn
<1> QED BY <1>6, <1>9, <1>10, <1>12, <1>13, <1>14, <1>15, <1>16, <1>17 DEF EdgesInOrder

\* A rise: it closes the exposure whose fall was seen, with the same identity.
LEMMA RisesKeeps ==
    ASSUME PiInv, pipe # <<>>, Rises(pipe[1]), pipe' = Tail(pipe),
           last' = [last EXCEPT ![pipe[1].dir] = Reference(pipe[1])],
           UNCHANGED <<shot, seq, answers, exposures, deaths>>
    PROVE  /\ EdgesInOrder' /\ edges' \in Seq(EdgeRecords)
           /\ pending' \in [id : Nat, left : Nat] /\ open' \in [id : Nat, gen : Nat]
<1> PICK id, gen : id = open.id /\ gen = open.gen
  OBVIOUS
<1> DEFINE r == [dir |-> "rise", n |-> pipe[1].n, fs |-> id, hw |-> Hardware(pipe[1]),
                 gen |-> gen]
<1>1. /\ pipe[1] \in Stamped /\ pipe[1].n \in 1..Len(exposures) /\ Of(pipe[1].n, seq)
      /\ pipe[1].dir = "rise"
  BY HeadIs DEF Rises
<1>2. \A i \in 1..Len(pipe) : i # 1 => i - 1 \in 1..Len(pipe') /\ pipe'[i - 1] = pipe[i]
  BY TailIs
<1>3. /\ pending \in [id : Nat, left : Nat] /\ deaths \in Nat /\ seq \in Nat
      /\ last \in [Directions -> References] /\ id \in Nat /\ gen \in Nat
      /\ edges \in Seq(EdgeRecords)
  BY DEF PiInv, PiTypeOK
<1>4. /\ id # None => Taken("fall", id) /\ ~Taken("rise", id)
      /\ id # None /\ gen = deaths => id = seq
      /\ gen <= deaths
  BY DEF PiInv, GivenOnce, Identified
<1>5. id <= seq
  <2>1. CASE id = None
    BY <1>3, <2>1, ConstantsAre
  <2>2. CASE id # None
    BY <1>4, <2>2 DEF PiInv, GivenOnce, Taken
  <2> QED BY <2>1, <2>2
<1>6. edges' = Append(edges, r) /\ open' = NoOpen /\ pending' = pending
  BY <1>1 DEF Rises, Recorded
<1>7. r \in EdgeRecords
  BY <1>1, <1>3 DEF EdgeRecords, Stamped, Directions, Hardware
<1>8. r.dir = "rise" /\ r.n = pipe[1].n /\ r.fs = id /\ r.gen = gen
  OBVIOUS
<1> HIDE DEF r
<1>9. /\ edges' \in Seq(EdgeRecords)
      /\ \A i \in 1..Len(edges) : i \in 1..Len(edges') /\ edges'[i] = edges[i]
      /\ \A i \in 1..Len(edges') :
            i \in 1..Len(edges) \/ (i = Len(edges) + 1 /\ edges'[i] = r)
  BY <1>6, <1>7, RecordIs
<1>10. PipeInOrder'
  BY ReadKeepsThePipe
<1>11. \A x : Taken("fall", x) <=> Taken("fall", x)'
  BY <1>8, <1>9 DEF Taken
<1>12. GivenOnce'
  <2>1. ASSUME NEW i \in 1..Len(edges'), NEW x, x = edges'[i].fs
        PROVE  x <= seq /\ (x # None => Taken("fall", x)')
    <3>1. CASE i \in 1..Len(edges)
      <4>1. x = edges[i].fs
        BY <1>9, <2>1, <3>1
      <4>2. x <= seq /\ (x # None => Taken("fall", x))
        BY <3>1, <4>1 DEF PiInv, GivenOnce
      <4> QED BY <1>11, <4>2
    <3>2. CASE edges'[i] = r
      BY <1>4, <1>5, <1>8, <1>11, <2>1, <3>2
    <3> QED BY <1>9, <3>1, <3>2
  <2>2. ASSUME NEW i \in 1..Len(edges'), NEW j \in 1..Len(edges'), edges'[i].fs # None,
               edges'[i].fs = edges'[j].fs, edges'[i].dir = edges'[j].dir
        PROVE  i = j
    <3>1. CASE i \in 1..Len(edges) /\ j \in 1..Len(edges)
      BY <1>9, <2>2, <3>1 DEF PiInv, GivenOnce
    <3>2. CASE edges'[i] = r /\ j \in 1..Len(edges)
      BY <1>4, <1>8, <1>9, <2>2, <3>2 DEF Taken
    <3>3. CASE edges'[j] = r /\ i \in 1..Len(edges)
      BY <1>4, <1>8, <1>9, <2>2, <3>3 DEF Taken
    <3> QED BY <1>9, <3>1, <3>2, <3>3
  <2>3. open'.id = None
    BY <1>6 DEF NoOpen
  <2>4. pending'.left > 0 => pending'.id = seq' /\ seq' # None /\ ~Taken("fall", seq)'
    <3>1. Taken("fall", seq)' => Taken("fall", seq)
      BY <1>8, <1>9 DEF Taken
    <3> QED BY <1>6, <3>1 DEF PiInv, GivenOnce
  <2>5. \A i \in 1..Len(edges') :
           edges'[i].fs <= seq' /\ (edges'[i].fs # None => Taken("fall", edges[i].fs)')
    BY <2>1 DEF Taken
  <2> QED BY <2>2, <2>3, <2>4, <2>5 DEF GivenOnce
<1>13. Identified'
  <2>1. open'.gen <= deaths /\ open'.id = None
    BY <1>3, <1>6, ConstantsAre DEF NoOpen
  <2>2. \A i \in 1..Len(edges') :
          /\ edges'[i].n \in 1..Len(exposures) /\ edges'[i].gen <= deaths
          /\ edges'[i].fs # None /\ edges'[i].gen = deaths => Of(edges'[i].n, edges'[i].fs)
    BY <1>1, <1>3, <1>4, <1>8, <1>9 DEF PiInv, Identified
  <2> QED BY <2>1, <2>2 DEF Identified, Of
<1>14. AnswersBound'
  BY <1>1, <1>6, <1>7, <1>8, RecordBounds
<1>15. FallsKept'
  <2>1. \A n : Fallen(n) => Fallen(n)'
    BY <1>9 DEF Fallen
  <2>2. \A n : Falling(n) => Falling(n)'
    <3>1. \A i \in 1..Len(pipe) : pipe[i].dir = "fall" => i # 1
      BY <1>1
    <3> QED BY <1>2, <3>1 DEF Falling
  <2>3. last'["fall"] = last["fall"]
    BY <1>1, <1>3 DEF Directions
  <2>4. deaths = 0 /\ last["fall"].at # 0 => Fallen(last["fall"].at)'
    BY <1>9, <2>3 DEF PiInv, FallsKept, Fallen
  <2> QED BY <2>1, <2>2, <2>3, <2>4 DEF PiInv, FallsKept
<1>16. open' \in [id : Nat, gen : Nat]
  BY <1>6, ConstantsAre DEF NoOpen
<1>17. InTurn'
  BY <1>1, <1>6, <1>7, <1>8, RecordInTurn
<1> QED BY <1>3, <1>6, <1>9, <1>10, <1>12, <1>13, <1>14, <1>15, <1>16, <1>17 DEF EdgesInOrder

LEMMA ReadKeeps ==
    ASSUME PiInv, Read
    PROVE  PiInv'
<1>1. /\ UNCHANGED <<held, wire, lease, ttl, shot, lock, seq, answers, loop, current, running,
                     behind, stepping, exposures, deaths, budget>>
      /\ pipe # <<>> /\ pipe' = Tail(pipe)
  BY DEF Read, focus, firing, interval, clock
<1>2. Head(pipe) = pipe[1] /\ pipe' \in Seq(Stamped)
  BY <1>1, TailIs
<1>3. \/ Bounced(pipe[1]) /\ UNCHANGED <<last, open, edges, pending>>
      \/ /\ last' = [last EXCEPT ![pipe[1].dir] = Reference(pipe[1])]
         /\ Falls(pipe[1]) \/ Rises(pipe[1])
  BY <1>2 DEF Read
<1>4. EdgesInOrder' /\ edges' \in Seq(EdgeRecords)
      /\ pending' \in [id : Nat, left : Nat] /\ open' \in [id : Nat, gen : Nat]
  <2>1. CASE Bounced(pipe[1]) /\ UNCHANGED <<last, open, edges, pending>>
    BY <1>1, <2>1, BouncedKeeps DEF PiInv, PiTypeOK
  <2>2. CASE /\ last' = [last EXCEPT ![pipe[1].dir] = Reference(pipe[1])]
             /\ Falls(pipe[1]) \/ Rises(pipe[1])
    BY <1>1, <2>2, FallsKeeps, RisesKeeps
  <2> QED BY <1>3, <2>1, <2>2
<1>5. last' \in [Directions -> References]
  BY <1>1, <1>3, ReadKeepsThePipe
<1>6. MonitorMoves
  BY <1>1, <1>2, <1>4, <1>5 DEF MonitorMoves, PiInv, PiTypeOK
<1> QED BY <1>4, <1>6, MonitorKeeps

-----------------------------------------------------------------------------
(***************************************************************************)
(* The theorems.                                                           *)
(***************************************************************************)
\* Every step keeps the order: no call, fire, schedule, clock, lease, edge or
\* fault breaks it.
LEMMA PiStep ==
    ASSUME PiInv, [PiNext]_piVars
    PROVE  PiInv'
<1>1. CASE Server
  <2>1. CASE Release \/ \E asked \in Ttls \cup {None} : Hold(asked)
    BY <2>1, HoldsKeep
  <2>2. CASE IntervalStop
    BY <2>2, IntervalStopKeeps
  <2>3. ASSUME NEW c \in Clients,
               \E lead, timed \in BOOLEAN, wait \in 0..MaxWait :
                   ClientFire(c, lead, timed, wait)
        PROVE  PiInv'
    BY <2>3, ClientFireKeeps
  <2>4. ASSUME NEW c \in Clients,
               \E s \in Schedules, timed \in BOOLEAN, wait \in 0..MaxWait :
                   IntervalStart(c, s, timed, wait)
        PROVE  PiInv'
    BY <2>4, IntervalStartKeeps
  <2>5. ASSUME NEW c \in Clients, StepAsked(c) PROVE PiInv'
    BY <2>5, StepAskedKeeps
  <2> QED BY <1>1, <2>1, <2>2, <2>3, <2>4, <2>5 DEF Server
<1>2. CASE Shooting
  BY <1>2, AimKeeps, PulseKeeps, FireEndsKeeps DEF Shooting
<1>3. CASE Scheduling
  BY <1>3, LoopFiresKeeps, LoopWakesKeeps, LoopEndsKeeps DEF Scheduling
<1>4. CASE Read \/ Tick
  BY <1>4, ReadKeeps, TickKeeps
<1>5. CASE WatchdogReleases \/ WatchdogFails
  BY <1>5, HoldsKeep
<1>6. CASE \E c \in Clients : StepTaken(c)
  BY <1>6, StepTakenKeeps
<1>7. CASE MonitorDies \/ BodyExposes
  BY <1>7, MonitorDiesKeeps, BodyExposesKeeps
<1>8. CASE UNCHANGED piVars
  <2>1. /\ UNCHANGED <<held, wire, lease, ttl, shot, lock, seq, answers, pending, loop,
                       current, running, behind, stepping, pipe, exposures, last, open,
                       edges, deaths, budget>>
    BY <1>8 DEF piVars, focus, firing, interval, clock, line, monitor
  <2>2. FocusMoves
    BY <2>1 DEF FocusMoves, PiInv, PiTypeOK
  <2> QED BY <2>2, FocusKeeps
<1> QED BY <1>1, <1>2, <1>3, <1>4, <1>5, <1>6, <1>7, <1>8 DEF PiNext

\* The order holds throughout: of shots and the lock, of schedules and the one that is
\* current, of the FOCUS line, of the edges on their way and on record.
THEOREM PiInductive == PiSpec => []PiInv
BY PiBegins, PiStep, PTL DEF PiSpec

\* What the agent answers and records is what happened: the line between shots, the
\* state of the schedule, the identity on an edge and the edge_seq of an answer.
THEOREM ShutterStaysHonest == PiSpec => []ShutterIsHonest
<1>1. ASSUME PiInv PROVE ShutterIsHonest
  <2>1. WireFollowsOwner
    BY <1>1 DEF PiInv, WireInOrder, WireFollowsOwner
  <2>2. RunningIsTrue
    BY <1>1 DEF PiInv, LoopsInOrder, RunningIsTrue
  <2>3. OwnIdentity
    BY <1>1 DEF PiInv, GivenOnce, Identified, Of, OwnIdentity
  <2>4. AnswerBoundsItsEdge
    <3> SUFFICES ASSUME NEW a \in answers, NEW i \in FirstFallAfter(a),
                        NEW of, of = exposures[edges[i].n], of # a.id, of # Foreign
                 PROVE  of > a.id /\ (deaths > 0 \/ ~Exposed(a.id))
      BY DEF AnswerBoundsItsEdge
    <3>1. /\ i \in a.at + 1..Len(edges) /\ edges[i].dir = "fall"
          /\ \A j \in a.at + 1..i - 1 : edges[j].dir = "rise"
      BY DEF FirstFallAfter
    <3>2. /\ a.at \in Nat /\ a.id \in Nat /\ deaths \in Nat /\ exposures \in Seq(Int)
          /\ Len(edges) \in Nat /\ edges \in Seq(EdgeRecords)
      BY <1>1 DEF PiInv, PiTypeOK
    <3>3. i \in 1..Len(edges) /\ edges[i].n \in 1..Len(exposures) /\ of \in Int
      BY <1>1, <3>1, <3>2 DEF PiInv, Identified
    <3>4. of > a.id
      BY <1>1, <3>1, <3>2, <3>3 DEF PiInv, AnswersBound, Since
    <3>5. ASSUME deaths = 0, Exposed(a.id) PROVE FALSE
      <4>1. PICK n \in 1..Len(exposures) : exposures[n] = a.id
        BY <3>5 DEF Exposed
      <4>2. exposures[n] # Foreign
        BY <3>2, <4>1, ConstantsAre
      <4>3. ~(edges[i].n < n)
        BY <1>1, <3>2, <3>3, <3>4, <4>1, <4>2 DEF PiInv, InTurn
      <4>4. n \in 1..edges[i].n - 1
        BY <3>2, <3>3, <4>1, <4>3
      <4>5. PICK j \in 1..i - 1 : edges[j].dir = "fall" /\ edges[j].n = n
        BY <1>1, <3>1, <3>3, <3>5, <4>4 DEF PiInv, InTurn, FallsInTurn, FallenBefore
      <4>6. j \notin 1..a.at
        BY <1>1, <3>2, <4>1, <4>5 DEF PiInv, InTurn, Before
      <4>7. j \in a.at + 1..i - 1
        BY <3>1, <3>2, <4>5, <4>6
      <4> QED BY <3>1, <4>5, <4>7
    <3>6. deaths > 0 \/ ~Exposed(a.id)
      BY <3>2, <3>5
    <3> QED BY <3>4, <3>6
  <2> QED BY <2>1, <2>2, <2>3, <2>4 DEF ShutterIsHonest
<1> QED BY <1>1, PiInductive, PTL

\* A ringing line and an unusable stamp cost no exposure while the monitor lives.
THEOREM ExposuresStayRecorded == PiSpec => []ExposuresRecorded
<1>1. ASSUME PiInv PROVE ExposuresRecorded
  <2>1. pipe = <<>> => \A n : ~Falling(n)
    BY DEF Falling
  <2> QED BY <1>1, <2>1 DEF PiInv, FallsKept, Fallen, ExposuresRecorded
<1> QED BY <1>1, PiInductive, PTL
=============================================================================
