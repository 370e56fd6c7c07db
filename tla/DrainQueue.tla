---------------------------- MODULE DrainQueue -----------------------------
(***************************************************************************)
(* The drain coordinator of rigd (rig/rigd.py, start_drain, _drain_worker, *)
(* cancel_drain and the wedge marks).                                      *)
(*                                                                         *)
(* A request chooses nodes, then claims them all under two locks; one      *)
(* worker empties their cards one after the other and gives everything     *)
(* back in a fixed order.  What a drain does on a card is CardDrain's; how *)
(* runs start and stop is RunLifecycle's.  The nodes of a request come in  *)
(* any order; one that lists a node twice is left out: its second turn     *)
(* would find the node's control no longer suspended.                      *)
(***************************************************************************)
EXTENDS Integers

CONSTANTS
    Fleet,         \* the camera nodes
    Askers,        \* threads of POST drain and POST run/stop
    Requests,      \* the sets of nodes they may name
    MaxDrains,     \* bound: drains that are claimed
    MaxTrials      \* bound: wedges, reboots and lost links

ASSUME DrainQueueAssumption ==
    /\ "none" \notin Fleet /\ Requests \subseteq SUBSET Fleet
    /\ MaxDrains \in Nat /\ MaxTrials \in Nat

VARIABLES
    isActive,      \* _drain_status["active"]
    holder,        \* runmgr.draining
    runOn,         \* runmgr.active
    suspended,     \* nodes whose suspend_control is set
    mark,          \* _drain_wedged: node -> the reboots seen when it wedged
    request,         \* asker -> what it is about to claim
    cancelling,    \* a cancel_drain() that has seen a drain running
    stopEvent,     \* _drain_stop: the drain it belongs to
    stopsSet,      \* drains whose event is set
    worker,        \* drain -> its thread
    reach,         \* nodes connected
    reboots,       \* node -> reboots the monitor has seen (rebooted_at)
    sick,          \* nodes whose card index never comes ready
    trials,        \* what is left of the bound
    lastEnd        \* history: node -> how its last drain ended

rigVars == <<runOn, reach, reboots, sick, trials>>
claimVars == <<isActive, holder, suspended, stopEvent>>
queueVars == <<claimVars, rigVars, mark, request, cancelling, stopsSet, worker,
               lastEnd>>

NoNode == "none"
NoMark == 0 - 1
Ends == {"read", "wedged", "cancelled", "raised"}
NoWorker == [phase |-> "none", left |-> {}, card |-> NoNode, end |-> "none"]
WithLeft(nodes) == [phase |-> "next", left |-> nodes, card |-> NoNode, end |-> "none"]
NoRequest == [busy |-> FALSE, nodes |-> {}]

QueueInit ==
    /\ isActive = FALSE /\ holder = NoNode /\ runOn = FALSE
    /\ suspended = {} /\ mark = [n \in Fleet |-> NoMark]
    /\ request = [t \in Askers |-> NoRequest]
    /\ cancelling = FALSE /\ stopEvent = 0 /\ stopsSet = {}
    /\ worker = [d \in 1..MaxDrains |-> NoWorker]
    /\ reach = Fleet /\ reboots = [n \in Fleet |-> 0] /\ sick = {}
    /\ trials = MaxTrials
    /\ lastEnd = [n \in Fleet |-> "never"]

-----------------------------------------------------------------------------
(***************************************************************************)
(* The rig around it.                                                      *)
(***************************************************************************)
Trial == trials > 0 /\ trials' = trials - 1

\* RunManager.start() refuses while a drain holds a node.
RunStarts ==
    /\ ~runOn /\ holder = NoNode
    /\ runOn' = TRUE
    /\ UNCHANGED <<claimVars, mark, request, cancelling, stopsSet, worker, reach,
                   reboots, sick, trials, lastEnd>>
RunStops ==
    /\ runOn /\ runOn' = FALSE
    /\ UNCHANGED <<claimVars, mark, request, cancelling, stopsSet, worker, reach,
                   reboots, sick, trials, lastEnd>>

LinkTurns(n) ==
    /\ Trial
    /\ reach' = IF n \in reach THEN reach \ {n} ELSE reach \cup {n}
    /\ UNCHANGED <<claimVars, runOn, mark, request, cancelling, stopsSet, worker,
                   reboots, sick, lastEnd>>

Sickens(n) ==
    /\ Trial /\ n \notin sick
    /\ sick' = sick \cup {n}
    /\ UNCHANGED <<claimVars, runOn, mark, request, cancelling, stopsSet, worker,
                   reach, reboots, lastEnd>>

\* A power cycle, and the monitor that sees it.
Reboots(n) ==
    /\ Trial
    /\ reboots' = [reboots EXCEPT ![n] = @ + 1] /\ sick' = sick \ {n}
    /\ UNCHANGED <<claimVars, runOn, mark, request, cancelling, stopsSet, worker,
                   reach, lastEnd>>

-----------------------------------------------------------------------------
(***************************************************************************)
(* start_drain().                                                          *)
(***************************************************************************)
\* _drain_wedge_reason(): the mark holds while no reboot was seen since.
Skips(n, auto) == \/ n \notin reach
                  \/ auto /\ mark[n] # NoMark /\ mark[n] = reboots[n]

\* The nodes are chosen before any lock is taken.  A request by hand drops the
\* mark of each node it takes; the automatic one drops those that have lapsed.
ChooseNodes(t, auto, want) ==
    /\ ~request[t].busy
    /\ LET kept == {n \in want : ~Skips(n, auto)}
       IN /\ request' = [request EXCEPT ![t] = [busy |-> TRUE, nodes |-> kept]]
          /\ mark' = [n \in Fleet |-> IF n \in kept THEN NoMark ELSE mark[n]]
    /\ UNCHANGED <<claimVars, rigVars, cancelling, stopsSet, worker, lastEnd>>

\* The claim, under _drain_lock with the run manager's lock inside it.
Free == ~isActive /\ ~runOn /\ holder = NoNode
Claims(t) ==
    LET nodes == request[t].nodes
        drain == stopEvent + 1
    IN /\ Free /\ drain <= MaxDrains
       /\ isActive' = TRUE /\ holder' \in nodes
       /\ suspended' = suspended \cup nodes
       /\ stopEvent' = drain
       /\ worker' = [worker EXCEPT ![drain] = WithLeft(nodes)]
ClaimQueue(t) ==
    /\ request[t].busy
    /\ request' = [request EXCEPT ![t] = NoRequest]
    /\ \/ Claims(t)
       \/ ~(Free /\ request[t].nodes # {}) /\ UNCHANGED <<claimVars, worker>>
    /\ UNCHANGED <<rigVars, mark, cancelling, stopsSet, lastEnd>>

\* cancel_drain(): a drain is seen running under the lock; the event that is
\* set afterwards is the one that is current by then.
CancelAsked ==
    /\ isActive /\ ~cancelling /\ cancelling' = TRUE
    /\ UNCHANGED <<claimVars, rigVars, mark, request, stopsSet, worker, lastEnd>>
CancelSet ==
    /\ cancelling /\ cancelling' = FALSE
    /\ stopsSet' = stopsSet \cup {stopEvent}
    /\ UNCHANGED <<claimVars, rigVars, mark, request, worker, lastEnd>>

-----------------------------------------------------------------------------
(***************************************************************************)
(* _drain_worker().                                                        *)
(***************************************************************************)
Card(d) == worker[d].card
Proceeds(d, to) == worker' = [worker EXCEPT ![d].phase = to]
GoesOn(d, n) == worker' = [worker EXCEPT ![d] = WithLeft(worker[d].left \ {n})]

\* A cancelled queue passes over the nodes left in it.
PassesOver(d, n) ==
    /\ worker[d].phase = "next" /\ n \in worker[d].left /\ d \in stopsSet
    /\ GoesOn(d, n)
    /\ UNCHANGED <<claimVars, rigVars, mark, request, cancelling, stopsSet, lastEnd>>

TurnsTo(d, n) ==
    /\ worker[d].phase = "next" /\ n \in worker[d].left /\ d \notin stopsSet
    /\ holder' = n
    /\ worker' = [worker EXCEPT ![d] = [@ EXCEPT !.phase = "pulling", !.card = n]]
    /\ UNCHANGED <<isActive, suspended, stopEvent, rigVars, mark, request,
                   cancelling, stopsSet, lastEnd>>

\* Drainer.run() returns: the card was read, with errors perhaps; or its index
\* never came ready; or it was told to stop; or it raised.
DrainEndsAs(d, how) ==
    /\ worker[d].phase = "pulling"
    /\ how = "wedged" => Card(d) \in sick
    /\ how = "read" => Card(d) \notin sick
    /\ how = "cancelled" => d \in stopsSet
    /\ worker' = [worker EXCEPT ![d] = [@ EXCEPT !.phase = "drained", !.end = how]]
    /\ lastEnd' = [lastEnd EXCEPT ![Card(d)] = how]
    /\ UNCHANGED <<claimVars, rigVars, mark, request, cancelling, stopsSet>>

\* _note_wedge(), unless the drain raised.
Marked(n, how) == CASE how = "wedged" -> reboots[n]
                    [] how = "raised" -> mark[n]
                    [] OTHER -> NoMark
NotesWedge(d) ==
    /\ worker[d].phase = "drained"
    /\ mark' = [mark EXCEPT ![Card(d)] = Marked(Card(d), worker[d].end)]
    /\ Proceeds(d, "noted")
    /\ UNCHANGED <<claimVars, rigVars, request, cancelling, stopsSet, lastEnd>>

\* After the ingest of what was pulled, the node is given back.
FreesNode(d) ==
    /\ worker[d].phase = "noted"
    /\ suspended' = suspended \ {Card(d)}
    /\ GoesOn(d, Card(d))
    /\ UNCHANGED <<isActive, holder, stopEvent, rigVars, mark, request,
                   cancelling, stopsSet, lastEnd>>

\* At the end all is given back: first the run manager's claim, then the nodes,
\* and last the status that keeps the next drain out.
Gives(d, from, to) ==
    /\ worker[d].phase = from /\ worker[d].left = {}
    /\ Proceeds(d, to)
    /\ UNCHANGED <<stopEvent, rigVars, mark, request, cancelling, stopsSet, lastEnd>>

MutantStatusFirst(d) == Gives(d, "next", "unclaimed") /\ holder' = NoNode
                        /\ isActive' = FALSE /\ UNCHANGED suspended
ReleaseClaim(d) == Gives(d, "next", "unclaimed") /\ holder' = NoNode
                   /\ UNCHANGED <<isActive, suspended>>
ReleaseNodes(d) == Gives(d, "unclaimed", "ending") /\ suspended' = {}
                   /\ UNCHANGED <<isActive, holder>>
ReleaseStatus(d) == Gives(d, "ending", "none") /\ isActive' = FALSE
                    /\ UNCHANGED <<holder, suspended>>

WorkerStep(d) ==
    \/ \E n \in Fleet : PassesOver(d, n) \/ TurnsTo(d, n)
    \/ NotesWedge(d) \/ FreesNode(d)
    \/ ReleaseClaim(d) \/ ReleaseNodes(d) \/ ReleaseStatus(d)
    \/ \E how \in Ends : DrainEndsAs(d, how)

QueueNext ==
    \/ RunStarts \/ RunStops \/ CancelAsked \/ CancelSet
    \/ \E n \in Fleet : LinkTurns(n) \/ Sickens(n) \/ Reboots(n)
    \/ \E t \in Askers : \/ ClaimQueue(t)
                         \/ \E auto \in BOOLEAN, want \in Requests :
                               ChooseNodes(t, auto, want)
    \/ \E d \in 1..MaxDrains : WorkerStep(d)

QueueSpec == QueueInit /\ [][QueueNext]_queueVars

-----------------------------------------------------------------------------
(***************************************************************************)
(* Properties.                                                             *)
(***************************************************************************)
Pulling(d) == worker[d].phase = "pulling"

\* While a card is emptied no run is on, no other drain pulls, and neither that
\* camera nor one further down the queue is touched by the settings loops:
\* whoever else ends, claims or gives back at that moment.
QueueIsHeld ==
    \A d \in 1..MaxDrains :
        Pulling(d) =>
            /\ isActive /\ holder = Card(d) /\ ~runOn
            /\ worker[d].left \subseteq suspended
            /\ \A other \in 1..MaxDrains \ {d} : ~Pulling(other)

\* With no drain at work nothing is left claimed: the next run and the next
\* drain are not refused for ever.
NothingLeaks ==
    (\A d \in 1..MaxDrains : worker[d].phase = "none") =>
        ~isActive /\ holder = NoNode /\ suspended = {}

\* A node the automatic drain would skip as wedged is one whose last drain did
\* end wedged, or was broken off before it could tell.
SkipIsEarned ==
    \A n \in Fleet :
        (n \in reach /\ Skips(n, TRUE)
            /\ \A d \in 1..MaxDrains : worker[d].phase # "drained")
                => lastEnd[n] \in {"wedged", "raised"}

\* What a drain holds is held until it ends and then given back; no node is
\* skipped for a drain that went well.
DrainIsOrderly == QueueIsHeld /\ NothingLeaks /\ SkipIsEarned
=============================================================================
