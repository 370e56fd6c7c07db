--------------------------- MODULE FleetSettings ---------------------------
(***************************************************************************)
(* One settings vector for the whole fleet (rig/rigcore.py, class          *)
(* SettingsManager) over the monitored nodes of NodeMonitor.               *)
(*                                                                         *)
(* Three fields stand for the kinds the code treats differently: `iso` is  *)
(* exposure, written only when asked for; `drv` is readable and converged  *)
(* at every pass; `ft` has no readback on old builds of ilxctl and is      *)
(* converged against the cache of what was pushed.                         *)
(*                                                                         *)
(* A reconcile pass runs on the 3 s loop or on the thread of an API call;  *)
(* nothing serialises the two.  A pass reads the vector and the cached     *)
(* status of a node, writes field by field, and reads the node again.      *)
(***************************************************************************)
EXTENDS NodeMonitor

CONSTANTS
    Readback,   \* TRUE: this build of ilxctl reads the file type back
    MaxCalls,   \* bound: API calls that change something
    MaxEvents   \* bound: faults and calls together

ASSUME FleetAssumption ==
    /\ Readback \in BOOLEAN /\ MaxCalls \in Nat
    /\ MaxEvents \in Nat /\ Passes = {"loop", "api"}

VARIABLES
    desired,    \* self.desired
    pin,        \* self._pin and self._pending: whose, and the staged iso
    owed,       \* nodes with iso in m._exposure_owed
    skipped,    \* nodes with m._apply_skipped
    stale,      \* nodes with last_seen <= m._settings_pushed_at
    bad,        \* per node: convergence diverged, of the last pass
    pass,       \* the two reconcile passes
    calls,      \* API calls left
    split,      \* history: iso an operator gave this camera alone, outside of
                \* a preview, or None
    lapsed,     \* history: nodes that reset, or were missed by a forced pass,
                \* or read back diverged, and have not read back converged
                \* since; and nodes that reset since _pushed was dropped
    crossed     \* history: a pass or a call has run into another, or was
                \* cut short

settings == <<desired, pin, owed, skipped, stale, bad>>
history == <<split, lapsed, crossed>>
fleetVars == <<monitorVars, settings, pass, calls, history>>

Fixed == <<box, mode, faults, state, seen, suspend, wasHeld, busyFor,
           gates, unproven>>

NoPin == [node |-> None, iso |-> None]
Idle == [pc |-> "idle", left |-> {}, forced |-> FALSE, exp |-> FALSE,
         then |-> None, pinned |-> None, at |-> None, want |-> Factory,
         mayExp |-> FALSE, owed |-> FALSE, todo |-> {}, known |-> None,
         wrote |-> FALSE, refused |-> FALSE]

Connected(n) == state[n] = "CAM_CONNECTED"
Takes(n) == box[n] = "ready" /\ mode[n] = "remote"
InFlight == \E p \in Passes : pass[p].pc # "idle"

-----------------------------------------------------------------------------
(***************************************************************************)
(* Calls of the operator.  One call that reconciles runs at a time, beside *)
(* the loop.                                                               *)
(***************************************************************************)
Room == (MaxFaults - faults) + (MaxCalls - calls) < MaxEvents
Call == Room /\ calls > 0 /\ calls' = calls - 1
Cross == crossed' = (crossed \/ InFlight)

Round(nodes, forced, exp, pinned, then) ==
    [Idle EXCEPT !.pc = "visit", !.left = nodes, !.forced = forced,
                 !.exp = exp, !.pinned = pinned, !.then = then]
Start(nodes, exp, pinned, then) == Round(nodes, TRUE, exp, pinned, then)

\* POST /api/exposure: one camera, live; it outranks a debt of that camera.
Tweak(n, v) ==
    /\ Call
    /\ v # body[n].iso
    /\ Connected(n)
    /\ IF Takes(n)
       THEN /\ body' = [body EXCEPT ![n].iso = v]
            /\ owed' = owed \ {n}
            /\ split' = [split EXCEPT ![n] =
                            IF InFlight \/ pin.node = n THEN None ELSE v]
            /\ Cross
       ELSE UNCHANGED <<body, owed, split, crossed>>
    /\ UNCHANGED <<Fixed, blind, desired, pin, skipped, stale, bad, pass,
                   lapsed>>

\* Dropping a pin takes the preview's mark off the badge of its camera.
Unpinned(n) == IF n = None THEN bad ELSE [bad EXCEPT ![n] = {}]

\* A split ends where exposure was asked for.
Unsplit(exp, n) ==
    [m \in Nodes |-> IF exp \/ m = n THEN None ELSE split[m]]

\* update(): the vector, then a forced pass over the fleet that may write
\* only the exposure it names, then one over the camera a pin let go.
Apply(f, v) ==
    /\ Call
    /\ v # desired[f]
    /\ pass["api"].pc = "idle"
    /\ desired' = [desired EXCEPT ![f] = v]
    /\ pin' = NoPin
    /\ bad' = Unpinned(pin.node)
    /\ pass' = [pass EXCEPT !["api"] = Start(Nodes, f = "iso", None, pin.node)]
    /\ split' = Unsplit(f = "iso", pin.node)
    /\ Cross
    /\ UNCHANGED <<Fixed, body, blind, owed, skipped, stale, lapsed>>

\* bump_ev(): one exposure field, by an ordinary pass; a pin stays.
Bump(v) ==
    /\ Call
    /\ v # desired.iso
    /\ pass["api"].pc = "idle"
    /\ desired' = [desired EXCEPT !.iso = v]
    /\ pass' = [pass EXCEPT !["api"] = Round(Nodes, FALSE, TRUE, pin.node, None)]
    /\ split' = Unsplit(TRUE, None)
    /\ Cross
    /\ UNCHANGED <<Fixed, body, blind, pin, owed, skipped, stale, bad, lapsed>>

\* POST /api/reconcile: the vector, and no exposure.
Kick ==
    /\ Call
    /\ pass["api"].pc = "idle"
    /\ pass' = [pass EXCEPT !["api"] = Start(Nodes, FALSE, pin.node, None)]
    /\ Cross
    /\ UNCHANGED <<Fixed, body, blind, settings, split, lapsed>>

\* preview(): iso on one camera, which is pinned; the camera that had the pin
\* goes back to the vector.
Preview(n, v) ==
    /\ Call
    /\ v # body[n].iso
    /\ pass["api"].pc = "idle"
    /\ Connected(n) /\ Takes(n)
    /\ body' = [body EXCEPT ![n].iso = v]
    /\ pin' = [node |-> n, iso |-> v]
    /\ bad' = [bad EXCEPT ![n] = {}]
    /\ pass' = IF pin.node \in {None, n} THEN pass
               ELSE [pass EXCEPT !["api"] = Start({pin.node}, TRUE, n, None)]
    /\ split' = Unsplit(FALSE, n)
    /\ Cross
    /\ UNCHANGED <<Fixed, blind, desired, owed, skipped, stale, lapsed>>

\* commit(): the staged value becomes the fleet's.
Commit ==
    /\ Call
    /\ pass["api"].pc = "idle"
    /\ pin.node # None
    /\ desired' = [desired EXCEPT !.iso = pin.iso]
    /\ pin' = NoPin
    /\ bad' = Unpinned(pin.node)
    /\ pass' = [pass EXCEPT !["api"] = Start(Nodes, TRUE, None, None)]
    /\ split' = Unsplit(TRUE, None)
    /\ Cross
    /\ UNCHANGED <<Fixed, body, blind, owed, skipped, stale, lapsed>>

\* discard(), also when a run starts, and a pin that preview() or commit()
\* finds expired: the previewed camera alone goes back to the vector.
Discard ==
    /\ Call
    /\ pass["api"].pc = "idle"
    /\ pin.node # None
    /\ pin' = NoPin
    /\ bad' = Unpinned(pin.node)
    /\ pass' = [pass EXCEPT !["api"] = Start({pin.node}, TRUE, None, None)]
    /\ Cross
    /\ UNCHANGED <<Fixed, body, blind, desired, owed, skipped, stale, split,
                   lapsed>>

\* The pin runs out.  The loop's pass, get() and preview_state() see it
\* first, and drop it without a pass over its camera.
Expire ==
    /\ pin.node # None
    /\ pin' = NoPin
    /\ bad' = Unpinned(pin.node)
    /\ UNCHANGED <<monitorVars, desired, owed, skipped, stale, pass, calls,
                   history>>

-----------------------------------------------------------------------------
(***************************************************************************)
(* A reconcile pass.                                                       *)
(***************************************************************************)
\* reconcile_all(): the pinned camera is looked up once, at its head.
LoopStart ==
    /\ pass["loop"].pc = "idle"
    /\ pass' = [pass EXCEPT !["loop"] =
                   Round(Nodes, FALSE, FALSE, pin.node, None)]
    /\ crossed' = (crossed \/ pass["api"].pc # "idle")
    /\ UNCHANGED <<monitorVars, settings, calls, split, lapsed>>

Visits(p, n) == /\ pass[p].pc = "visit"
                /\ n \in pass[p].left /\ \A m \in pass[p].left : n <= m

\* After a node: the next one, the end, or the pass over the camera let go.
Onward(q) ==
    IF q.left # {} THEN Round(q.left, q.forced, q.exp, q.pinned, q.then)
    ELSE IF q.then # None THEN Start({q.then}, TRUE, pin.node, None)
    ELSE Idle
Passed(p, n) ==
    [pass EXCEPT ![p] = Onward([pass[p] EXCEPT !.left = @ \ {n}])]

Unreachable(n) ==
    suspend[n] \/ seen[n].kind = "busy" \/ seen[n].mode = "transfer"

SkipUnconnected(p, n) ==
    /\ Visits(p, n) /\ ~Connected(n)
    /\ pass' = Passed(p, n)
    /\ lapsed' = IF pass[p].forced
                 THEN [lapsed EXCEPT !.verdict = @ \union {n}] ELSE lapsed
    /\ UNCHANGED <<monitorVars, settings, calls, split, crossed>>

\* What this pass was asked to write to a held camera is owed to it.
Owing(p, n) == IF pass[p].exp THEN owed \union {n} ELSE owed

SkipHeld(p, n) ==
    /\ Visits(p, n) /\ Connected(n) /\ Unreachable(n)
    /\ owed' = Owing(p, n)
    /\ skipped' = IF pass[p].forced THEN skipped \union {n} ELSE skipped
    /\ pass' = Passed(p, n)
    /\ UNCHANGED <<monitorVars, desired, pin, stale, bad, calls, history>>

SkipPinned(p, n) ==
    /\ Visits(p, n) /\ Connected(n) /\ ~Unreachable(n)
    /\ pass[p].pinned = n
    /\ bad' = [bad EXCEPT ![n] = {}]
    /\ pass' = Passed(p, n)
    /\ UNCHANGED <<monitorVars, desired, pin, owed, skipped, stale, calls,
                   history>>

\* A seeded fault of Judged: the status may predate our own last write.
MutantJudgesStale(n) == n \notin skipped

\* A status is evidence only if it is newer than our last write, and if no
\* apply was kept from the body.
Judged(n) == n \notin stale /\ n \notin skipped

ReadFields == {"drv"} \union (IF Readback THEN {"ft"} ELSE {})

\* The tell of a body that reset: a readable field that is not exposure has
\* changed, and was not already diverged.
Reverted(p, n) ==
    /\ ~pass[p].forced /\ Judged(n)
    /\ \E f \in ReadFields \ bad[n] : seen[n].val[f] # desired[f]

\* Exposure is written when asked for, after a reconnect, when owed, and to a
\* body that reset.
MayExpose(p, n) == pass[p].exp \/ force[n] \/ n \in owed \/ Reverted(p, n)

\* A seeded fault of Todo: what has diverged before is left alone.
MutantSkipsDiverged(p, n) ==
    {f \in Fields :
        /\ f \notin bad[n]
        /\ f = "iso" => MayExpose(p, n)
        /\ pass[p].forced \/ seen[n].val[f] # desired[f]}

\* The fields this pass has to write.
Todo(p, n) ==
    {f \in Fields :
        \/ f = "ft" /\ ~Readback
        \/ /\ f = "iso" => MayExpose(p, n)
           /\ pass[p].forced \/ seen[n].val[f] # desired[f]}

\* Fields are written in the order of the code.
First(todo) ==
    IF "iso" \in todo THEN "iso" ELSE IF "drv" \in todo THEN "drv" ELSE "ft"

Begin(p, n) ==
    LET clear == pass[p].forced \/ Reverted(p, n)
    IN  /\ Visits(p, n) /\ Connected(n) /\ ~Unreachable(n)
        /\ pass[p].pinned # n
        /\ cache' = IF clear THEN [cache EXCEPT ![n] = None] ELSE cache
        /\ holders' = [holders EXCEPT ![n] = IF clear THEN {p} ELSE @ \union {p}]
        /\ pass' = [pass EXCEPT ![p] = [pass[p] EXCEPT
                !.pc = "push", !.left = @ \ {n}, !.at = n, !.want = desired,
                !.mayExp = MayExpose(p, n), !.owed = (n \in owed),
                !.todo = Todo(p, n), !.known = cache'[n],
                !.wrote = FALSE, !.refused = FALSE]]
        /\ split' = IF force[n] \/ n \in owed
                       \/ (MayExpose(p, n) /\ n \in lapsed.verdict)
                    THEN [split EXCEPT ![n] = None] ELSE split
        /\ lapsed' = IF clear THEN [lapsed EXCEPT !.cache = @ \ {n}] ELSE lapsed
        /\ UNCHANGED <<Fixed, body, force, settings, calls, crossed>>

\* The pushed dict of the pass: the node's, or one that has been replaced.
Known(p, n) == IF p \in holders[n] THEN cache[n] ELSE pass[p].known

\* note(): a blind field is remembered when the body accepted it, and its
\* refusal is kept for the badge; a call that got no answer leaves nothing.
Noted(p, n) ==
    LET blindly == First(pass[p].todo) = "ft" /\ ~Readback
        ok == blindly /\ Takes(n)
        ft == pass[p].want.ft
    IN  /\ cache' = IF ok /\ p \in holders[n]
                    THEN [cache EXCEPT ![n] = ft] ELSE cache
        /\ pass' = [pass EXCEPT ![p] = [pass[p] EXCEPT
                !.todo = @ \ {First(@)}, !.wrote = TRUE,
                !.known = IF ok THEN ft ELSE @,
                !.refused = @ \/ (blindly /\ Answers(n) /\ ~Takes(n))]]

Push(p) ==
    LET n == pass[p].at
        f == First(pass[p].todo)
    IN  /\ pass[p].pc = "push" /\ pass[p].todo # {}
        /\ f = "ft" /\ ~Readback => Known(p, n) # pass[p].want.ft
        /\ body' = IF Takes(n) THEN [body EXCEPT ![n][f] = pass[p].want[f]]
                   ELSE body
        /\ Noted(p, n)
        /\ UNCHANGED <<Fixed, holders, force, settings, calls, history>>

\* A blind field that is believed pushed is passed over.
PushNothing(p) ==
    LET n == pass[p].at
    IN  /\ pass[p].pc = "push" /\ pass[p].todo = {"ft"} /\ ~Readback
        /\ Known(p, n) = pass[p].want.ft
        /\ pass' = [pass EXCEPT ![p].todo = {}]
        /\ UNCHANGED <<monitorVars, settings, calls, history>>

Verifies(p) == pass[p].pc = "push" /\ pass[p].todo = {}
LeftNode(p, n) ==
    /\ pass' = [pass EXCEPT ![p] = Onward(@)]
    /\ holders' = [holders EXCEPT ![n] = @ \ {p}]

\* The node does not answer, or answers without a property block: no verdict,
\* and what was armed stays armed.
VerifyFails(p) ==
    /\ Verifies(p)
    /\ ~Answers(pass[p].at) \/ box[pass[p].at] = "busy"
    /\ LeftNode(p, pass[p].at)
    /\ crossed' = (crossed \/ pass[p].wrote \/ pass[p].forced)
    /\ UNCHANGED <<Fixed, body, cache, force, settings, calls, split, lapsed>>

\* The fields that read back different; iso only if this pass could write it.
Diverged(p, n) ==
    {f \in ReadFields \union (IF pass[p].mayExp THEN {"iso"} ELSE {}) :
        /\ Status(n).val[f] # pass[p].want[f]
        /\ f = "ft" => box[n] = "ready"}
    \union (IF pass[p].refused THEN {"ft"} ELSE {})

\* A seeded fault of Paid: a debt is written and stays on the list.
MutantPaysNothing(p, n) == owed

Paid(p, n) == IF pass[p].owed THEN owed \ {n} ELSE owed

Verify(p) ==
    LET n == pass[p].at
    IN  /\ Verifies(p)
        /\ Answers(n) /\ box[n] # "busy"
        /\ force' = [force EXCEPT ![n] = FALSE]
        /\ skipped' = skipped \ {n}
        /\ stale' = IF pass[p].wrote THEN stale \union {n} ELSE stale
        /\ owed' = Paid(p, n)
        /\ bad' = [bad EXCEPT ![n] = Diverged(p, n)]
        /\ LeftNode(p, n)
        /\ crossed' = (crossed \/ ~Takes(n))
        /\ lapsed' = [lapsed EXCEPT !.verdict =
                IF Diverged(p, n) \intersect ReadFields = {} THEN @ \ {n}
                ELSE @ \union {n}]
        /\ UNCHANGED <<Fixed, body, cache, desired, pin, calls, split>>

PassStep(p) ==
    \/ \E n \in Nodes :
        \/ SkipUnconnected(p, n) \/ SkipHeld(p, n) \/ SkipPinned(p, n)
        \/ Begin(p, n)
    \/ Push(p) \/ PushNothing(p)
    \/ VerifyFails(p) \/ Verify(p)

-----------------------------------------------------------------------------
\* The monitors and the nodes beneath.  A poll makes the status newer than
\* the last write, also when the node no longer answers at all: only ilxctl's
\* answer moves last_seen.
Disturbed(n) ==
    /\ Room
    /\ Drop(n) \/ Stall(n) \/ DrainClaim(n) \/ DrainEnter(n)
    /\ Cross
    /\ UNCHANGED <<settings, pass, calls, split, lapsed>>

Mended(n) ==
    /\ Return(n) \/ Unstall(n)
    /\ UNCHANGED <<settings, pass, calls, history>>

\* Nobody is bound to do this.
Serviced(n) ==
    /\ Restart(n)
    /\ UNCHANGED <<settings, pass, calls, history>>

Released(n) ==
    /\ DrainEnd(n)
    /\ UNCHANGED <<settings, pass, calls, history>>

PowerCycled(n) ==
    /\ Room
    /\ Reset(n)
    /\ lapsed' = [k \in DOMAIN lapsed |-> lapsed[k] \union {n}]
    /\ split' = [split EXCEPT ![n] = None]
    /\ Cross
    /\ UNCHANGED <<settings, pass, calls>>

Polled(n) ==
    /\ Tick(n)
    /\ faults' = faults \/ Room
    /\ stale' = IF Answers(n) THEN stale \ {n} ELSE stale
    /\ split' = IF Arrives(n) THEN [split EXCEPT ![n] = None] ELSE split
    /\ lapsed' = IF Forgets(n) THEN [lapsed EXCEPT !.cache = @ \ {n}]
                  ELSE lapsed
    /\ UNCHANGED <<desired, pin, owed, skipped, bad, pass, calls, crossed>>

FleetInit ==
    /\ MonitorInit
    /\ desired = Settled
    /\ pin = NoPin
    /\ owed = {} /\ skipped = {} /\ stale = {}
    /\ bad = [n \in Nodes |-> {}]
    /\ pass = [p \in Passes |-> Idle]
    /\ calls = MaxCalls
    /\ split = [n \in Nodes |-> None]
    /\ lapsed = [verdict |-> {}, cache |-> {}]
    /\ crossed = FALSE

FleetNext ==
    \/ \E n \in Nodes :
        \/ Disturbed(n) \/ Mended(n) \/ Serviced(n) \/ Released(n)
        \/ PowerCycled(n) \/ Polled(n)
        \/ \E v \in Values : Tweak(n, v) \/ Preview(n, v)
    \/ \E f \in Fields, v \in Values : Apply(f, v)
    \/ \E v \in Values : Bump(v)
    \/ Kick \/ Commit \/ Discard \/ Expire
    \/ LoopStart
    \/ \E p \in Passes : PassStep(p)

FleetSpec == FleetInit /\ [][FleetNext]_fleetVars

\* The monitors poll and the loop runs for ever, a pass and a drain come to
\* their end, what was lost comes back (an SDK handle that is dead
\* apart), and a preview runs out.
FleetFair ==
    /\ \A n \in Nodes :
        /\ WF_fleetVars(Polled(n))
        /\ WF_fleetVars(Mended(n))
        /\ WF_fleetVars(Released(n))
    /\ WF_fleetVars(LoopStart)
    /\ WF_fleetVars(Expire)
    /\ \A p \in Passes : WF_fleetVars(PassStep(p))

FairFleetSpec == FleetSpec /\ FleetFair

-----------------------------------------------------------------------------

\* An exposure an operator gave one camera stays until exposure is asked for,
\* the camera reconnects or its body resets - as long as no pass or call ran
\* into another and every pass got its verdict (reconcile_all: exposure is
\* per-camera between explicit applies).
SplitSurvives ==
    \A n \in Nodes :
        split[n] # None /\ ~crossed => body[n].iso = split[n]

\* What the cache of blind pushes says a body holds, it holds, unless the
\* body has reset unseen or passes have run into each other (note()).
BlindCacheHonest ==
    \A n \in Nodes :
        cache[n] # None /\ ~crossed /\ n \notin lapsed.cache
            => body[n].ft = cache[n]

\* Neither the roster nor the cache says of a camera what is not so.
CachesAreTrue == RosterIsTrue /\ BlindCacheHonest

\* An exposure apply that met a held camera reaches it in the end, unless the
\* camera stays behind a dead SDK handle (_exposure_owed).
DebtIsPaid ==
    \A n \in Nodes : (n \in owed) ~> (n \notin owed \/ box[n] = "dead")

\* Whatever was lost, held, reset or overlapped: when the calls are over,
\* every camera that is not behind a dead SDK handle holds the fleet's
\* readable settings for good.
FormatConverges ==
    <>[](\A n \in Nodes : body[n].drv = desired.drv \/ box[n] = "dead")

\* The same with no such condition: what the comments of reconcile_all and
\* _reconcile_node promise.  It does not hold.
SplitAlwaysSurvives ==
    \A n \in Nodes : split[n] # None => body[n].iso = split[n]

=============================================================================
