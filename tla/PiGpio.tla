------------------------------- MODULE PiGpio -------------------------------
(***************************************************************************)
(* piagent's Gpio: the agent on a camera's Pi that holds FOCUS, fires      *)
(* TRIGGER, runs node-side schedules and records EXPOSURE edges.           *)
(*                                                                         *)
(* The HTTP server runs every call in a thread of its own; beside them run *)
(* the watchdog of the FOCUS hold, one thread per schedule and the edge    *)
(* monitor.  Every hold carries a lease, since a hold that outlives its    *)
(* owner is a half-press nobody ends.  Fires are serialised by a lock that *)
(* is taken or refused, never queued for; a step of the clock waits for it.*)
(*                                                                         *)
(* The in-process line driver is modelled.  A tick is the unit of the      *)
(* leases: the watchdog (0.5 s), a keepalive (0.25 s), a pulse and the     *)
(* reading of an edge all happen within one.                               *)
(***************************************************************************)
EXTENDS Integers, FiniteSets, Sequences

CONSTANTS
    Clients,      \* threads of the HTTP server
    Schedules,    \* tokens of schedules, one per interval_start that is taken
    Frames,       \* frames a schedule is asked for
    Period,       \* ticks between two of its frames
    Ttls,         \* lease lengths a client asks for, besides none
    DefaultTtl,   \* FOCUS_HOLD_DEFAULT_TTL_S in ticks
    RetryTtl,     \* the watchdog's wait after a release that failed
    MaxWait,      \* ticks an at_epoch may lie ahead (FIRE_MAX_FUTURE_S)
    EdgeWait,     \* ticks a fire waits for its edge
    MaxCalls,     \* bound: calls of the clients
    MaxFaults     \* bound: writes of a line that fail, exposures the body
                  \* makes of itself, exposures with edges that ring or carry
                  \* no usable stamp, and deaths of gpiomon, together

ASSUME PiGpioAssumption ==
    /\ Schedules \subseteq Nat \ {0}
    /\ Ttls \subseteq Nat \ {0}
    /\ {Frames, Period, DefaultTtl, RetryTtl, EdgeWait} \subseteq Nat \ {0}
    /\ {MaxWait, MaxCalls, MaxFaults} \subseteq Nat
    /\ Clients \cap Schedules = {} /\ 0 \notin Clients

None == 0
Foreign == 0 - 1
PiThreads == Clients \cup Schedules

VARIABLES
    held,       \* _focus_direct
    wire,       \* the FOCUS line: "idle", "low", or "stuck" low by a write
                \* of an idle level that failed
    lease,      \* ticks left to _focus_hold_expiry
    ttl,        \* _focus_hold_ttl, None when there is no lease
    shot,       \* thread -> the fire it is in
    lock,       \* _fire_lock: its holder
    seq,        \* _fire_seq
    pending,    \* _pending_fire: the fire that waits for its edge
    loop,       \* schedule -> its thread
    current,    \* the schedule whose Event is _interval_stop
    running,    \* _interval_state["running"]
    behind,     \* this node's clock is further off than a fire tolerates
    stepping,   \* clients in clock_step, past its check of the schedule
    pipe,       \* edges stamped by the kernel and not read yet
    last,       \* _last_edge: the reference of the debounce
    open,       \* _edge_fire
    edges,      \* the ring of EXPOSURE edges
    exposures,  \* the fires (or the body itself) that exposed, in order
    answers,    \* [id, at] of every fire answered ok
    deaths,     \* of gpiomon so far
    budget      \* what is left of each bound

focus == <<held, wire, lease, ttl>>
firing == <<shot, lock, seq, answers>>
interval == <<loop, current, running>>
clock == <<behind, stepping>>
line == <<pipe, exposures>>
monitor == <<last, open, edges, deaths>>
piVars == <<focus, firing, pending, interval, clock, line, monitor, budget>>

NoShot == [pc |-> "idle", lead |-> FALSE, wait |-> 0, id |-> None, at |-> 0]
NoLoop == [pc |-> "none", left |-> 0, wait |-> 0, gap |-> 0, stop |-> FALSE,
           bad |-> FALSE]
NoPending == [id |-> None, left |-> 0]
NoOpen == [id |-> None, gen |-> 0]
NoLast == [dir \in {"fall", "rise"} |-> [domain |-> "none", at |-> 0]]

PiInit ==
    /\ held = FALSE /\ wire = "idle" /\ lease = 0 /\ ttl = None
    /\ shot = [p \in PiThreads |-> NoShot] /\ lock = None /\ seq = 0
    /\ pending = NoPending /\ answers = {}
    /\ loop = [s \in Schedules |-> NoLoop] /\ current = None /\ running = FALSE
    /\ behind \in BOOLEAN /\ stepping = {}
    /\ pipe = <<>> /\ exposures = <<>>
    /\ last = NoLast /\ open = NoOpen /\ edges = <<>>
    /\ budget = [calls |-> MaxCalls, faults |-> MaxFaults] /\ deaths = 0

Most(a, b) == IF a > b THEN a ELSE b
Least(a, b) == IF a < b THEN a ELSE b
Spend(what) == /\ budget[what] > 0
               /\ budget' = [budget EXCEPT ![what] = @ - 1]
Call == Spend("calls")
Fault == Spend("faults")

-----------------------------------------------------------------------------
(***************************************************************************)
(* The FOCUS hold and its lease.                                           *)
(***************************************************************************)
\* _focus_lease(): a renewal without a length keeps the length granted.
Granted(asked) == IF asked # None THEN asked
                  ELSE IF ttl # None THEN ttl ELSE DefaultTtl
Lease(asked) == /\ ttl' = Granted(asked)
                /\ lease' = Granted(asked)
Keep == UNCHANGED <<lease, ttl>>
Renew == IF held THEN Lease(None) ELSE Keep

Hold(asked) ==
    /\ Call
    /\ held' = TRUE /\ wire' = "low"
    /\ Lease(asked)
    /\ UNCHANGED <<firing, pending, interval, clock, line, monitor>>

Released == /\ held' = FALSE /\ wire' = "idle"
            /\ lease' = 0 /\ ttl' = None

Release ==
    /\ Call
    /\ Released
    /\ UNCHANGED <<firing, pending, interval, clock, line, monitor>>

\* The watchdog: a hold whose lease has lapsed.  A release the line refuses
\* is tried again later.
Lapsed == held /\ lease = 0
WatchdogReleases ==
    /\ Lapsed
    /\ Released
    /\ UNCHANGED <<firing, pending, interval, clock, line, monitor, budget>>
WatchdogFails ==
    /\ Lapsed
    /\ Fault
    /\ lease' = RetryTtl
    /\ UNCHANGED <<held, wire, ttl, firing, pending, interval, clock, line,
                   monitor>>

-----------------------------------------------------------------------------
(***************************************************************************)
(* A fire, of a client or of a schedule.                                   *)
(***************************************************************************)
\* fire(): without a lead of its own it relies on the hold, and renews it.
Allowed(lead) == lead \/ held
Relies(lead) == IF lead THEN Keep ELSE Renew

Takes(p, lead, wait) ==
    /\ lock = None
    /\ lock' = p
    /\ shot' = [shot EXCEPT ![p] = [NoShot EXCEPT !.pc = "wait",
                                        !.lead = lead, !.wait = wait]]
    /\ UNCHANGED <<seq, answers>>

\* An instant this node's clock puts out of bounds; "now" never is.
EpochFault(timed) == timed /\ behind

\* Such an at_epoch, or another fire in flight: refused.
ClientFire(c, lead, timed, wait) ==
    /\ Call
    /\ shot[c].pc = "idle" /\ c \notin stepping
    /\ Allowed(lead)
    /\ Relies(lead)
    /\ ~timed => wait = 0
    /\ IF EpochFault(timed) \/ lock # None THEN UNCHANGED firing
       ELSE Takes(c, lead, wait)
    /\ UNCHANGED <<held, wire, pending, interval, clock, line, monitor>>

EdgeSeq == Len(edges)

\* _fire_locked() at its instant: the identity, and the edges seen so far.
\* The monitor has read the edges of the fire before (PIPE LAG, see README).
Aim(p) ==
    /\ shot[p].pc = "wait" /\ shot[p].wait = 0
    /\ pipe = <<>>
    /\ seq' = seq + 1
    /\ pending' = [id |-> seq + 1, left |-> EdgeWait]
    /\ shot' = [shot EXCEPT ![p].pc = "aimed", ![p].id = seq + 1,
                            ![p].at = EdgeSeq]
    /\ wire' = IF shot[p].lead THEN "low" ELSE wire
    /\ UNCHANGED <<held, lease, ttl, lock, answers, interval, clock, line,
                   monitor, budget>>

\* What the kernel stamps of one exposure: a fall and a rise, an edge of
\* which may ring or carry no usable stamp.
Edge(dir, n, stamp) == [dir |-> dir, n |-> n, stamp |-> stamp]
Clean(n) == <<Edge("fall", n, "good"), Edge("rise", n, "good")>>
Noisy(n) ==
    LET Parsed == {"good", "absent"} IN
    {<<Edge("fall", n, a), Edge("fall", n, b), Edge("rise", n, "good")>> :
        a, b \in Parsed}
    \cup {<<Edge("fall", n, "good"), Edge("rise", n, a), Edge("rise", n, b)>> :
        a, b \in Parsed}
    \cup {<<Edge("fall", n, "ahead"), Edge("rise", n, "good")>>}
Exposes(id) ==
    /\ exposures' = Append(exposures, id)
    /\ LET n == Len(exposures) + 1 IN
       \/ pipe' = pipe \o Clean(n) /\ UNCHANGED budget
       \/ Fault /\ \E e \in Noisy(n) : pipe' = pipe \o e

\* The pulse.  The body takes a TRIGGER only while FOCUS is low; it may be
\* busy and take none.
Pulse(p) ==
    /\ shot[p].pc = "aimed"
    /\ shot' = [shot EXCEPT ![p].pc = "fired"]
    /\ \/ wire # "idle" /\ Exposes(shot[p].id)
       \/ UNCHANGED <<line, budget>>
    /\ UNCHANGED <<focus, lock, seq, answers, pending, interval, clock,
                   monitor>>

Done(p, ok) ==
    /\ lock' = None
    /\ shot' = [shot EXCEPT ![p] = NoShot]
    /\ answers' = IF ok THEN answers \cup {[id |-> shot[p].id, at |-> shot[p].at]}
                  ELSE answers

\* _focus_restore(): what the owner of FOCUS wants now.  Nobody looks at the
\* result of this write.
Wanted == IF held THEN "low" ELSE "idle"
Restored(p) == wire' = IF shot[p].lead THEN Wanted ELSE wire

\* The write of a line raises, before the body exposed or, at the pulse's end,
\* after: no unclaim, and the answer is an error.
Raises(p) ==
    /\ shot[p].pc \in {"aimed", "fired"}
    /\ Fault
    /\ Restored(p)
    /\ Done(p, FALSE)
    /\ UNCHANGED <<held, lease, ttl, seq, pending, clock, line, monitor>>

Answer(p) ==
    /\ shot[p].pc = "fired"
    /\ \/ Restored(p) /\ UNCHANGED budget
       \/ shot[p].lead /\ ~held /\ wire' = "stuck" /\ Fault
    /\ Done(p, TRUE)
    /\ UNCHANGED <<held, lease, ttl, seq, pending, clock, line, monitor>>

-----------------------------------------------------------------------------
(***************************************************************************)
(* A schedule.                                                             *)
(***************************************************************************)
Live(s) == loop[s].pc \notin {"none", "done", "dead"}
Owns(s) == Live(s) /\ ~loop[s].stop

IntervalStart(c, s, timed, wait) ==
    /\ Call
    /\ c \notin stepping
    /\ ~running /\ held
    /\ ~EpochFault(timed)
    /\ ~timed => wait = 0
    /\ loop[s].pc = "none" /\ \A u \in Schedules : loop[u].pc = "none" => s <= u
    /\ Lease(Most(DefaultTtl, (5 * Period) \div 2))
    /\ current' = s /\ running' = TRUE
    /\ loop' = [loop EXCEPT ![s] = [NoLoop EXCEPT !.pc = "slot",
                                        !.left = Frames, !.wait = wait]]
    /\ UNCHANGED <<held, wire, firing, pending, clock, line, monitor>>

IntervalStop ==
    /\ Call
    /\ loop' = IF current = None THEN loop
               ELSE [loop EXCEPT ![current].stop = TRUE]
    /\ running' = FALSE
    /\ UNCHANGED <<focus, firing, pending, current, clock, line, monitor>>

\* The exit block: only the schedule that is still current marks the state,
\* and cuts the long lease of the schedule back.
MutantAnyoneExits(s) == TRUE
Mine(s) == current = s
Exit(s) ==
    /\ loop' = [loop EXCEPT ![s].pc = "done"]
    /\ running' = (running /\ ~Mine(s))
    /\ IF Mine(s) /\ ttl # None
       THEN ttl' = Least(ttl, DefaultTtl) /\ lease' = Least(lease, DefaultTtl)
       ELSE Keep

LoopEnds(s) ==
    /\ loop[s].pc \in {"slot", "gap"}
    /\ \/ loop[s].stop
       \/ loop[s].pc = "slot" /\ (loop[s].left = 0 \/ ~held)   \* FOCUS is gone
    /\ Exit(s)
    /\ UNCHANGED <<held, wire, firing, pending, current, clock, line, monitor,
                   budget>>

\* After a frame, fired or failed: the gap to the next slot of the schedule.
\* On a clock stepped under it every slot is past.
Slotted(s) ==
    [loop EXCEPT ![s].pc = "gap", ![s].left = @ - 1, ![s].wait = 0,
                 ![s].gap = IF loop[s].bad THEN 0 ELSE Period]

LoopFires(s) ==
    /\ loop[s].pc = "slot" /\ loop[s].left > 0 /\ ~loop[s].stop
    /\ held
    /\ Renew
    /\ IF loop[s].bad \/ lock # None
       THEN /\ loop' = Slotted(s)
            /\ UNCHANGED firing
       ELSE /\ loop' = [loop EXCEPT ![s].pc = "fire"]
            /\ Takes(s, FALSE, loop[s].wait)
    /\ UNCHANGED <<held, wire, pending, current, running, clock, line, monitor,
                   budget>>

\* The fire is answered: to a client, or to the loop of a schedule.  Nothing
\* catches what it raises: the thread of the schedule dies there, without its
\* exit block.
FireEnds(p) ==
    /\ \/ Answer(p) /\ loop' = IF p \in Schedules THEN Slotted(p) ELSE loop
       \/ Raises(p) /\ loop' = IF p \in Schedules
                               THEN [loop EXCEPT ![p].pc = "dead"] ELSE loop
    /\ UNCHANGED <<current, running>>

LoopWakes(s) ==
    /\ loop[s].pc = "gap" /\ loop[s].gap = 0 /\ ~loop[s].stop
    /\ loop' = [loop EXCEPT ![s].pc = "slot"]
    /\ UNCHANGED <<focus, firing, pending, current, running, clock, line,
                   monitor, budget>>

\* Any loop that waits for its slot keeps the hold, at the length granted.
MutantKeepsForEver == \E s \in Schedules : loop[s].pc = "done"
Kept == \E s \in Schedules : loop[s].pc = "gap" /\ ~loop[s].stop

-----------------------------------------------------------------------------
(***************************************************************************)
(* A step of the clock.                                                    *)
(***************************************************************************)
StepAsked(c) ==
    /\ Call
    /\ shot[c].pc = "idle" /\ c \notin stepping
    /\ ~running
    /\ stepping' = stepping \cup {c}
    /\ UNCHANGED <<focus, firing, pending, interval, behind, line, monitor>>

\* Under the lock: the step, unless the clock is right; or no lock in time.
StepTaken(c) ==
    /\ c \in stepping
    /\ stepping' = stepping \ {c}
    /\ IF lock # None \/ ~behind THEN UNCHANGED <<behind, loop>>
       ELSE /\ behind' = FALSE
            /\ loop' = [s \in Schedules |->
                            [loop[s] EXCEPT !.bad = @ \/ Live(s)]]
    /\ UNCHANGED <<focus, firing, pending, current, running, line, monitor,
                   budget>>

-----------------------------------------------------------------------------
(***************************************************************************)
(* The edge monitor.                                                       *)
(***************************************************************************)
\* The reference of the debounce carries its clock; a repeat inside the
\* guard does not move it.
Domain(e) == IF e.stamp = "absent" THEN "epoch" ELSE "raw"
Reference(e) == [domain |-> Domain(e), at |-> e.n]
MutantDomainsCompared(e) ==
    \/ last[e.dir] = Reference(e)
    \/ last[e.dir].domain = "epoch" /\ Domain(e) = "raw"
Bounced(e) == last[e.dir] = Reference(e)

\* _edge_hw(): the kernel's instant, or none it can stand by.
Hardware(e) == e.stamp = "good"

\* _record_edge(): a fall takes the pending fire once, and the first rise
\* after it the same identity.
Recorded(e, id) ==
    edges' = Append(edges, [dir |-> e.dir, n |-> e.n, fs |-> id,
                            hw |-> Hardware(e),
                            gen |-> IF e.dir = "rise" THEN open.gen
                                    ELSE deaths])
Falls(e) ==
    /\ e.dir = "fall"
    /\ LET id == IF pending.left > 0 THEN pending.id ELSE None IN
       /\ open' = IF id = None THEN NoOpen
                  ELSE [id |-> id, gen |-> deaths]
       /\ pending' = IF id = None THEN pending ELSE NoPending
       /\ Recorded(e, id)
Rises(e) ==
    /\ e.dir = "rise"
    /\ open' = NoOpen
    /\ Recorded(e, open.id)
    /\ UNCHANGED pending

Read ==
    /\ pipe # <<>>
    /\ pipe' = Tail(pipe)
    /\ LET e == Head(pipe) IN
       IF Bounced(e) THEN UNCHANGED <<last, open, edges, pending>>
       ELSE /\ last' = [last EXCEPT ![e.dir] = Reference(e)]
            /\ Falls(e) \/ Rises(e)
    /\ UNCHANGED <<focus, firing, interval, clock, exposures, deaths, budget>>

\* gpiomon dies with what it had not printed; a fresh one has no reference.
MonitorDies ==
    /\ Fault
    /\ pipe' = <<>> /\ last' = NoLast /\ deaths' = deaths + 1
    /\ UNCHANGED <<focus, firing, pending, interval, clock, exposures, open,
                   edges>>

BodyExposes ==
    /\ pipe = <<>>
    /\ Fault
    /\ exposures' = Append(exposures, Foreign)
    /\ pipe' = Clean(Len(exposures) + 1)
    /\ UNCHANGED <<focus, firing, pending, interval, clock, monitor>>

-----------------------------------------------------------------------------
Settled ==
    /\ ~Lapsed /\ pipe = <<>>
    /\ \A p \in PiThreads : shot[p].pc = "idle" \/ shot[p].wait > 0
    /\ \A s \in Schedules :
            Live(s) => /\ loop[s].pc # "slot"
                       /\ loop[s].pc = "gap" => loop[s].gap > 0 /\ ~loop[s].stop
Timed == held \/ pending.left > 0 \/ (\E s \in Schedules : Live(s))
         \/ lock # None

Tick ==
    /\ Settled /\ Timed
    /\ IF Kept /\ held THEN Lease(None)
       ELSE lease' = Most(0, lease - 1) /\ UNCHANGED ttl
    /\ shot' = [p \in PiThreads |->
                    [shot[p] EXCEPT !.wait = Most(0, @ - 1)]]
    /\ loop' = [s \in Schedules |-> [loop[s] EXCEPT !.gap = Most(0, @ - 1)]]
    /\ pending' = IF pending.left > 1 THEN [pending EXCEPT !.left = @ - 1]
                  ELSE NoPending
    /\ UNCHANGED <<held, wire, lock, seq, answers, current, running, clock,
                   line, monitor, budget>>

Server ==
    \/ \E asked \in Ttls \cup {None} : Hold(asked)
    \/ Release
    \/ IntervalStop
    \/ \E c \in Clients :
        \/ \E lead, timed \in BOOLEAN, wait \in 0..MaxWait :
                ClientFire(c, lead, timed, wait)
        \/ \E s \in Schedules, timed \in BOOLEAN, wait \in 0..MaxWait :
                IntervalStart(c, s, timed, wait)
        \/ StepAsked(c)

Shooting == \E p \in PiThreads : Aim(p) \/ Pulse(p) \/ FireEnds(p)
Scheduling ==
    \E s \in Schedules : LoopFires(s) \/ LoopWakes(s) \/ LoopEnds(s)

PiNext ==
    \/ Server \/ Shooting \/ Scheduling \/ Read \/ Tick
    \/ WatchdogReleases \/ WatchdogFails
    \/ \E c \in Clients : StepTaken(c)
    \/ MonitorDies \/ BodyExposes

PiSpec == PiInit /\ [][PiNext]_piVars

\* Threads run; clients ask for nothing.
FairPiSpec ==
    /\ PiSpec
    /\ WF_piVars(Tick)
    /\ WF_piVars(Read)
    /\ WF_piVars(Shooting)
    /\ WF_piVars(Scheduling)
    /\ WF_piVars(WatchdogReleases \/ WatchdogFails)

-----------------------------------------------------------------------------
(***************************************************************************)
(* Properties.                                                             *)
(***************************************************************************)

\* Between shots the FOCUS line is where its owner wants it, whatever holds
\* and releases fell into the shot; the exception is a line a failed write
\* left low (_focus_restore).
WireFollowsOwner ==
    lock = None => (wire = "stuck" /\ ~held) \/ wire = Wanted

\* While the one thread that was not told to stop is alive the state says that
\* a schedule runs; and when it says so without one, the current schedule died
\* of a write that raised and nobody has stopped it since.  A thread that was
\* superseded inside a fire never marks its successor stopped
\* (_interval_loop's exit block).
Orphan == current # None /\ loop[current].pc = "dead" /\ ~loop[current].stop
RunningIsTrue ==
    /\ running <=> Orphan \/ \E s \in Schedules : Owns(s)
    /\ \A s, u \in Schedules : Owns(s) /\ Owns(u) => s = u

\* What clock_step's docstring says of its refusal, and interval_start's error:
\* they refuse while an interval capture is running.  It does not hold.
RunningMeansAlive == running => \E s \in Schedules : Owns(s)

\* An edge carries no fire's identity but that of the fire that made it, or
\* of one that waited while the body exposed of itself; a rise closes the
\* exposure its monitor saw fall (_record_edge).
OwnIdentity ==
    \A i \in 1..Len(edges) :
        LET e == edges[i] IN
        e.fs # None /\ e.gen = deaths =>
            /\ exposures[e.n] \in {e.fs, Foreign}
            /\ \A j \in 1..Len(edges) :
                    edges[j].fs = e.fs /\ edges[j].dir = e.dir => i = j

\* edge_seq bounds the answer of a fire: the first fall after it is no earlier
\* fire's exposure, and a later fire's only if this one did not expose, or the
\* edge monitor died (fire's edge_seq, exposure_events).
FirstFallAfter(a) ==
    {i \in a.at + 1..Len(edges) :
        edges[i].dir = "fall"
        /\ \A j \in a.at + 1..i - 1 : edges[j].dir = "rise"}
Exposed(id) == \E n \in 1..Len(exposures) : exposures[n] = id
AnswerBoundsItsEdge ==
    \A a \in answers : \A i \in FirstFallAfter(a) :
        LET of == exposures[edges[i].n]
        IN  \/ of \in {a.id, Foreign}
            \/ of > a.id /\ (deaths > 0 \/ ~Exposed(a.id))

\* What the agent answers and records is what happened: the four together.
ShutterIsHonest ==
    WireFollowsOwner /\ RunningIsTrue /\ OwnIdentity /\ AnswerBoundsItsEdge

\* A ringing line and a stamp that does not parse cost no exposure: while the
\* monitor lives every exposure has its fall on record (_monitor_loop's
\* debounce).
ExposuresRecorded ==
    pipe = <<>> /\ deaths = 0 =>
        \A n \in 1..Len(exposures) :
            \E i \in 1..Len(edges) : edges[i].dir = "fall" /\ edges[i].n = n

\* Once its owners are gone a hold ends, without a release and although a
\* write may fail (the lease and its watchdog).
HoldEndsWithItsOwner == <>[]~held

=============================================================================
