---------------------------- MODULE NodeMonitor ----------------------------
(***************************************************************************)
(* rigd's view of its nodes (rig/rigcore.py, class NodeMonitor): the poll  *)
(* of piagent and ilxctl, the state it gives the node, the hold on a busy  *)
(* camera, the recovery of a body left in transfer mode and the reconnect, *)
(* both behind one backoff gate, and the card drain that suspends it all.  *)
(*                                                                         *)
(* A poll is one step: its answer lands before anything else happens.      *)
(* Time is counted in polls.  The module also owns the two attributes that *)
(* a reconnect arms for the settings manager, `_pushed` and                *)
(* `_exposure_force`; module FleetSettings is the other writer of them.    *)
(***************************************************************************)
EXTENDS Naturals, FiniteSetsExt

CONSTANTS
    NNodes,     \* cameras of the fleet
    Values,     \* values of a setting that the operator may choose
    Passes,     \* threads that run a reconcile pass
    BusyHold,   \* polls a degraded status may hold CAM_CONNECTED: 10
    MaxBackoff, \* longest backoff, in polls: 30
    Kinds,      \* bound: the kinds of fault that happen
    MaxFaults   \* bound: how many

ASSUME MonitorAssumption ==
    /\ NNodes \in Nat \ {0} /\ Values \subseteq Nat \ {0} /\ Values # {}
    /\ BusyHold \in Nat \ {0} /\ MaxBackoff \in Nat \ {0}
    /\ Kinds \subseteq {"drop", "stall", "reset", "refuse", "drain"}
    /\ MaxFaults \in Nat

Nodes == 1 .. NNodes
None == 0

\* A body out of a power cycle holds Sony's defaults: no value of the rig.
Factory == [iso |-> None, drv |-> None, ft |-> None]
Fields == DOMAIN Factory
Vectors == [Fields -> Values \union {None}]

VARIABLES
    box,        \* per node: which daemons answer, and what ilxctl says
    mode,       \* per node: the SDK session, remote or transfer
    body,       \* per node: the settings the camera holds
    faults,     \* faults left
    state,      \* m.state
    seen,       \* m.status, the last answer of ilxctl
    suspend,    \* m.suspend_control
    wasHeld,    \* m._suspended_prev
    busyFor,    \* m._busy_since: polls of the present degraded streak
    gate,       \* m._connect_after: polls until the next attempt
    backoff,    \* m._backoff
    cache,      \* m._pushed: the file type believed pushed
    holders,    \* passes that hold this _pushed, and not one it replaced
    force,      \* m._exposure_force
    unproven    \* history: polls since a status showed a body that can shoot

world == <<box, mode, body, faults>>
gates == <<gate, backoff>>
blind == <<cache, holders, force>>
monitor == <<state, seen, suspend, wasHeld, busyFor, gates, blind, unproven>>
monitorVars == <<world, monitor>>

-----------------------------------------------------------------------------
(***************************************************************************)
(* The nodes and their cameras.                                            *)
(***************************************************************************)
\* ilxctl is up, and has no body.
Unclaimed == {"idle", "dead"}

Spend(kind) == kind \in Kinds /\ faults > 0 /\ faults' = faults - 1

\* The network, ilxctl or the USB link goes; the body keeps its settings.  An
\* ilxctl that lost its body can claim it anew ("idle"), or keeps the handle
\* of the lost session and refuses to ("dead").
Drop(n) ==
    /\ Spend("drop")
    /\ box[n] # "gone"
    /\ \/ box' = [box EXCEPT ![n] = "gone"]
       \/ box[n] # "noilx" /\ box' = [box EXCEPT ![n] = "noilx"]
       \/ /\ box[n] \in {"ready", "busy"}
          /\ \E lost \in Unclaimed : box' = [box EXCEPT ![n] = lost]
    /\ UNCHANGED <<mode, body, monitor>>

\* After an outage of the network alone, ilxctl is as it was; a new ilxctl has
\* no handle.
Return(n) ==
    /\ \/ /\ box[n] \in {"gone", "noilx"}
          /\ box' = [box EXCEPT ![n] = "idle"]
       \/ /\ box[n] = "gone"
          /\ \E b \in {"ready", "dead"} : box' = [box EXCEPT ![n] = b]
    /\ UNCHANGED <<mode, body, faults, monitor>>

\* Someone restarts an ilxctl that keeps a dead handle, between two polls:
\* nothing in rigd does.
Restart(n) ==
    /\ box[n] = "dead"
    /\ box' = [box EXCEPT ![n] = "idle"]
    /\ UNCHANGED <<mode, body, faults, monitor>>

\* The SDK mutex is held: ilxctl answers without a property block.
Stall(n) ==
    /\ Spend("stall")
    /\ box[n] = "ready"
    /\ box' = [box EXCEPT ![n] = "busy"]
    /\ UNCHANGED <<mode, body, monitor>>

Unstall(n) ==
    /\ box[n] = "busy"
    /\ box' = [box EXCEPT ![n] = "ready"]
    /\ UNCHANGED <<mode, body, faults, monitor>>

\* A power cycle of the body: it is back before a poll could miss it, or the
\* SDK has lost it.
Reset(n) ==
    /\ Spend("reset")
    /\ box[n] \in {"ready", "busy"} \union Unclaimed
    /\ body' = [body EXCEPT ![n] = Factory]
    /\ mode' = [mode EXCEPT ![n] = "remote"]
    /\ \/ \E b \in {"ready", "dead"} : box' = [box EXCEPT ![n] = b]
       \/ box[n] # "dead" /\ box' = [box EXCEPT ![n] = "idle"]
    /\ UNCHANGED monitor

-----------------------------------------------------------------------------
(***************************************************************************)
(* A card drain of the node.                                               *)
(***************************************************************************)
DrainClaim(n) ==
    /\ Spend("drain")
    /\ state[n] = "CAM_CONNECTED" /\ ~suspend[n]
    /\ suspend' = [suspend EXCEPT ![n] = TRUE]
    /\ UNCHANGED <<box, mode, body, state, seen, wasHeld, busyFor, gates,
                   blind, unproven>>

DrainEnter(n) ==
    /\ suspend[n] /\ box[n] = "ready" /\ mode[n] = "remote"
    /\ mode' = [mode EXCEPT ![n] = "transfer"]
    /\ UNCHANGED <<box, body, faults, monitor>>

\* It ends with the body restored, or fails and leaves the mode as it is.
DrainEnd(n) ==
    /\ suspend[n]
    /\ \/ UNCHANGED mode
       \/ mode' = [mode EXCEPT ![n] = "remote"] /\ box[n] = "ready"
    /\ suspend' = [suspend EXCEPT ![n] = FALSE]
    /\ UNCHANGED <<box, body, faults, state, seen, wasHeld, busyFor, gates,
                   blind, unproven>>

-----------------------------------------------------------------------------
(***************************************************************************)
(* One poll, _tick.                                                        *)
(***************************************************************************)
\* ilxctl's status; without a property block its mode and settings are absent.
\* It does not tell a dead handle from none.
Status(n) ==
    IF box[n] = "ready" THEN [kind |-> "full", mode |-> mode[n],
                              val |-> body[n]]
    ELSE [kind |-> IF box[n] = "dead" THEN "idle" ELSE box[n],
          mode |-> "unknown", val |-> Factory]

\* A seeded fault of BusyStreak: every degraded answer starts a new streak.
MutantStreakRestarts(n) == IF box[n] = "busy" /\ ~suspend[n] THEN 1 ELSE 0

\* Degraded answers in a row, not counting those under a drain.
BusyStreak(n) ==
    IF box[n] = "busy" /\ ~suspend[n] THEN Min({busyFor[n] + 1, BusyHold + 1})
    ELSE 0

\* A degraded status holds CAM_CONNECTED for a while, and never makes it.
Held(n) == state[n] = "CAM_CONNECTED" /\ BusyStreak(n) <= BusyHold

Answers(n) == box[n] \notin {"gone", "noilx"}

\* A camera that a drain holds, that is busy for a while, or that can shoot.
Usable(n) ==
    \/ suspend[n] /\ box[n] \in {"ready", "busy"}
    \/ box[n] = "busy" /\ Held(n)
    \/ box[n] = "ready" /\ mode[n] = "remote"

\* The state a poll gives the node.
NextState(n) ==
    IF Answers(n) THEN IF Usable(n) THEN "CAM_CONNECTED" ELSE "REACHABLE"
    ELSE IF box[n] = "gone" THEN "OFFLINE" ELSE "ILX_DOWN"

\* A node newly connected, outside a drain, may have reset.
Arrives(n) ==
    NextState(n) = "CAM_CONNECTED" /\ state[n] # "CAM_CONNECTED" /\ ~suspend[n]
LetGo(n) == Answers(n) /\ wasHeld[n] /\ ~suspend[n]

\* The blind cache is no evidence after a reconnect or a drain.
Forgets(n) == Arrives(n) \/ LetGo(n)

Proof(n) == suspend[n] \/ state[n] # "CAM_CONNECTED" \/
            (box[n] = "ready" /\ mode[n] = "remote")

Observe(n) ==
    /\ state' = [state EXCEPT ![n] = NextState(n)]
    /\ seen' = [seen EXCEPT ![n] = Status(n)]
    /\ busyFor' = [busyFor EXCEPT ![n] = BusyStreak(n)]
    /\ wasHeld' = IF Answers(n) THEN [wasHeld EXCEPT ![n] = suspend[n]]
                  ELSE wasHeld
    /\ cache' = IF Forgets(n) THEN [cache EXCEPT ![n] = None] ELSE cache
    /\ holders' = IF Forgets(n) THEN [holders EXCEPT ![n] = {}] ELSE holders
    /\ force' = IF Arrives(n) THEN [force EXCEPT ![n] = TRUE] ELSE force
    /\ unproven' = [unproven EXCEPT ![n] =
                        IF Proof(n) THEN 0 ELSE Min({@ + 1, BusyHold + 2})]
    /\ UNCHANGED <<body, suspend>>

\* What the node needs, if the backoff gate is open.
Stranded(n) == ~suspend[n] /\ box[n] = "ready" /\ mode[n] = "transfer"
Astray(n) == ~suspend[n] /\ box[n] \in Unclaimed

Wait(n) ==
    /\ ~((Stranded(n) \/ Astray(n)) /\ gate[n] = 0)
    /\ Observe(n)
    /\ gate' = [gate EXCEPT ![n] = Max({@, 1}) - 1]
    /\ backoff' = IF NextState(n) = "CAM_CONNECTED" /\ ~suspend[n]
                     /\ box[n] = "ready"
                  THEN [backoff EXCEPT ![n] = 1] ELSE backoff
    /\ UNCHANGED <<box, mode, faults>>

BackOff(n, b) ==
    /\ backoff' = [backoff EXCEPT ![n] = Min({b, MaxBackoff})]
    /\ gate' = [gate EXCEPT ![n] = Min({b, MaxBackoff})]

\* A seeded fault of Recovered: the recovery is only asked for.
MutantModeNotPosted(n) == mode

Recovered(n) == [mode EXCEPT ![n] = "remote"]

\* POST /api/card/mode: one attempt, and the gate is shut whatever it answers.
Recover(n) ==
    /\ Stranded(n) /\ gate[n] = 0
    /\ Observe(n)
    /\ BackOff(n, 2 * backoff[n])
    /\ \/ mode' = Recovered(n) /\ UNCHANGED faults
       \/ Spend("refuse") /\ UNCHANGED mode
    /\ UNCHANGED box

\* POST /api/connect: accepted, and the body claimed; refused, or accepted and
\* not claimed; "already connected", because the SDK's own reconnect has won
\* the race; or the same of a dead handle, as often as it is asked.
Connect(n) ==
    /\ Astray(n) /\ gate[n] = 0
    /\ Observe(n)
    /\ \/ /\ box[n] = "idle"
          /\ box' = [box EXCEPT ![n] = "ready"]
          /\ BackOff(n, 2 * backoff[n])
          /\ UNCHANGED faults
       \/ Spend("refuse") /\ BackOff(n, 2 * backoff[n]) /\ UNCHANGED box
       \/ /\ box' = [box EXCEPT ![n] = "ready"]
          /\ BackOff(n, 1)
          /\ UNCHANGED faults
       \/ /\ box[n] = "dead"
          /\ BackOff(n, MaxBackoff)
          /\ UNCHANGED <<box, faults>>
    /\ UNCHANGED mode

Tick(n) == Wait(n) \/ Recover(n) \/ Connect(n)

-----------------------------------------------------------------------------
\* rigd has been up for a while, and every camera is as it should be.
Settled == [f \in Fields |-> CHOOSE v \in Values : TRUE]

MonitorInit ==
    /\ box = [n \in Nodes |-> "ready"]
    /\ mode = [n \in Nodes |-> "remote"]
    /\ body = [n \in Nodes |-> Settled]
    /\ faults = MaxFaults
    /\ state = [n \in Nodes |-> "CAM_CONNECTED"]
    /\ seen = [n \in Nodes |-> Status(n)]
    /\ suspend = [n \in Nodes |-> FALSE]
    /\ wasHeld = [n \in Nodes |-> FALSE]
    /\ busyFor = [n \in Nodes |-> 0]
    /\ gate = [n \in Nodes |-> 0]
    /\ backoff = [n \in Nodes |-> 1]
    /\ cache = [n \in Nodes |-> None]
    /\ holders = [n \in Nodes |-> {}]
    /\ force = [n \in Nodes |-> FALSE]
    /\ unproven = [n \in Nodes |-> 0]

MonitorNext ==
    \E n \in Nodes :
        \/ Drop(n) \/ Return(n) \/ Restart(n) \/ Stall(n) \/ Unstall(n)
        \/ Reset(n)
        \/ DrainClaim(n) \/ DrainEnter(n) \/ DrainEnd(n)
        \/ Tick(n)

-----------------------------------------------------------------------------

\* A camera that no drain holds is in the roster only if one of its last
\* BusyHold statuses showed a body that can shoot: neither a stall, nor a
\* transfer session left behind and hidden by one, is fired at for longer
\* (BUSY_HOLD_S and the transfer check of _tick).
RosterIsTrue ==
    \A n \in Nodes :
        state[n] = "CAM_CONNECTED" /\ ~suspend[n] => unproven[n] <= BusyHold

\* However a drain, a stall, a lost link or a refused attempt left it, a
\* camera is in the roster for good in the end, unless its ilxctl keeps a dead
\* handle for good: no retry clears that (the recoveries of _tick, behind one
\* gate).
CameraRejoins ==
    \A n \in Nodes :
        <>[](state[n] = "CAM_CONNECTED") \/ <>[](box[n] = "dead")

MonitorFair ==
    \A n \in Nodes :
        /\ WF_monitorVars(Tick(n))
        /\ WF_monitorVars(Return(n))
        /\ WF_monitorVars(Unstall(n))
        /\ WF_monitorVars(DrainEnd(n))
=============================================================================
