------------------------ MODULE FleetSettingsProofs ------------------------
(***************************************************************************)
(* What holds of the fleet's settings (FleetSettings over NodeMonitor) for *)
(* every fleet, every set of values, every bound and both kinds of build:  *)
(* the roster and the cache of blind pushes tell the truth, and exposure   *)
(* given to one camera stays until it is asked for.                        *)
(*                                                                         *)
(* The last needs to know why a pass finds a readable field that differs   *)
(* from the vector: TellInv says that of a camera which did not reset, was *)
(* not missed and is not being written, neither the body nor a fresh       *)
(* status can differ, so the tell of a reset (_reconcile_node's            *)
(* `reverted`) is never our own half-applied vector.                       *)
(***************************************************************************)
EXTENDS FleetSettings, TLAPS

Settings == Values \union {None}

\* A pass; one that writes is at a camera.
PassRec ==
    {q \in [pc : {"idle", "visit", "push"}, left : SUBSET Nodes,
            forced : BOOLEAN, exp : BOOLEAN, then : Nodes \union {None},
            pinned : Nodes \union {None}, at : Nodes \union {None},
            want : Vectors, mayExp : BOOLEAN, owed : BOOLEAN,
            todo : SUBSET Fields, known : Settings, wrote : BOOLEAN,
            refused : BOOLEAN] : q.pc = "push" => q.at \in Nodes}

\* The types of what a step of the monitor, and of the manager, may touch.
MonitorTypes ==
    /\ box \in [Nodes -> {"gone", "noilx", "idle", "dead", "busy", "ready"}]
    /\ mode \in [Nodes -> {"remote", "transfer"}]
    /\ body \in [Nodes -> Vectors]
    /\ state \in [Nodes -> {"OFFLINE", "ILX_DOWN", "REACHABLE",
                            "CAM_CONNECTED"}]
    /\ seen \in [Nodes -> [kind : {"gone", "noilx", "idle", "busy", "full"},
                           mode : {"remote", "transfer", "unknown"},
                           val : Vectors]]
    /\ suspend \in [Nodes -> BOOLEAN]
    /\ busyFor \in [Nodes -> Nat]
    /\ unproven \in [Nodes -> Nat]
    /\ cache \in [Nodes -> Settings]
    /\ holders \in [Nodes -> SUBSET Passes]
    /\ force \in [Nodes -> BOOLEAN]

FleetTypes ==
    /\ desired \in Vectors
    /\ pin \in [node : Nodes \union {None}, iso : Settings]
    /\ owed \subseteq Nodes /\ skipped \subseteq Nodes /\ stale \subseteq Nodes
    /\ pass \in [Passes -> PassRec]
    /\ split \in [Nodes -> Settings]
    /\ lapsed \in [verdict : SUBSET Nodes, cache : SUBSET Nodes]
    /\ crossed \in BOOLEAN

\* A hold on a camera is no longer than its streak of degraded answers.
RosterInv ==
    \A n \in Nodes : state[n] = "CAM_CONNECTED" =>
        /\ unproven[n] <= busyFor[n] /\ busyFor[n] <= BusyHold
        /\ seen[n].kind \in {"full", "busy"}

Pushes(p, n) == pass[p].pc = "push" /\ pass[p].at = n

\* Until passes cross, one runs at a time, and writes the present vector.
OneAtATime ==
    /\ ~crossed => \A p, q \in Passes :
            p # q => pass[p].pc = "idle" \/ pass[q].pc = "idle"
    /\ ~crossed => \A p \in Passes :
            pass[p].pc = "push" => pass[p].want = desired

\* A pass whose cache was replaced beneath it cannot be behind the new one.
CacheInv ==
    /\ Readback => \A n \in Nodes : cache[n] = None
    /\ ~crossed => \A p \in Passes, n \in Nodes :
            Pushes(p, n) /\ p \notin holders[n] => cache[n] = None

PinnedUnsplit == pin.node # None => split[pin.node] = None

\* Who is previewed, asked for exposure, or about to have it written has no
\* split left.
SplitEnds ==
    /\ PinnedUnsplit
    /\ \A p \in Passes : pass[p].pc # "idle" =>
        /\ pass[p].exp => \A n \in pass[p].left : split[n] = None
        /\ pass[p].then # None => split[pass[p].then] = None
    /\ ~crossed => \A p \in Passes :
            pass[p].pc = "push" /\ "iso" \in pass[p].todo
                => split[pass[p].at] = None

\* A pass has written to this camera, or must still force the vector on it.
InWork(n) ==
    \E p \in Passes :
        \/ Pushes(p, n) /\ (pass[p].forced \/ pass[p].wrote)
        \/ /\ pass[p].pc # "idle" /\ pass[p].forced
           /\ n \in pass[p].left /\ pass[p].pinned # n
\* Nothing excuses a difference between this camera and the vector.
Sure(n) ==
    ~crossed /\ n \notin lapsed.verdict /\ n \notin skipped /\ ~InWork(n)

BodyMatches(n) == \A f \in ReadFields : body[n][f] = desired[f]
SeenMatches(n) ==
    n \notin stale /\ seen[n].kind = "full" =>
        \A f \in ReadFields : seen[n].val[f] = desired[f]

\* A pass that writes nothing saw what it wants, or the body as it is.
JudgesWell(p) ==
    LET n == pass[p].at
    IN  pass[p].pc = "push" /\ ~pass[p].forced /\ ~pass[p].wrote
        /\ n \notin stale /\ seen[n].kind = "full" =>
            \A f \in ReadFields \ pass[p].todo :
                seen[n].val[f] \in {desired[f], body[n][f]}

\* A forced pass does not leave a camera without having written to it.
ForcedWrites(p) ==
    pass[p].pc = "push" /\ pass[p].forced =>
        pass[p].wrote \/ "drv" \in pass[p].todo

\* A camera that is sure has the readable settings of the vector, and so has
\* a status that is newer than our last write.
TellInv ==
    /\ \A p \in Passes : ForcedWrites(p)
    /\ \A n \in Nodes : Sure(n) => BodyMatches(n) /\ SeenMatches(n)
    /\ ~crossed => \A p \in Passes : JudgesWell(p)

\* The inductive invariant.
FleetInv ==
    /\ MonitorTypes /\ FleetTypes /\ RosterInv /\ OneAtATime /\ CacheInv
    /\ SplitEnds /\ TellInv /\ BlindCacheHonest /\ SplitSurvives

-----------------------------------------------------------------------------
\* The three fields, and which of them a status shows.
LEMMA FieldsAre == /\ Fields = {"iso", "drv", "ft"}
                   /\ Factory \in Vectors
                   /\ ReadFields \subseteq Fields /\ "iso" \notin ReadFields
                   /\ "drv" \in ReadFields
BY DEF Fields, Factory, Vectors, None, ReadFields

\* No camera is the absent one.
LEMMA NodesAre == Nodes \subseteq Nat /\ None \notin Nodes
BY MonitorAssumption DEF Nodes, None

\* The lesser of two numbers.
LEMMA MinTwo ==
  ASSUME NEW a \in Nat, NEW b \in Nat
  PROVE  Min({a, b}) \in Nat /\ Min({a, b}) <= a /\ Min({a, b}) <= b
BY DEF Min

MonitorSteps(n) == Drop(n) \/ Stall(n) \/ DrainClaim(n) \/ DrainEnter(n)
                   \/ Return(n) \/ Restart(n) \/ Unstall(n)
                   \/ DrainEnd(n) \/ Reset(n)

\* The nodes, their faults and their drains keep the types.
LEMMA MonitorTypesKept ==
  ASSUME MonitorTypes, NEW n \in Nodes, MonitorSteps(n)
  PROVE  MonitorTypes'
<1> USE FieldsAre DEF MonitorTypes, monitor, gates, blind
<1>1. CASE Drop(n)
  BY <1>1 DEF Drop, Unclaimed
<1>2. CASE Stall(n)
  BY <1>2 DEF Stall
<1>3. CASE DrainClaim(n)
  BY <1>3 DEF DrainClaim
<1>4. CASE DrainEnter(n)
  BY <1>4 DEF DrainEnter
<1>5. CASE Return(n)
  BY <1>5 DEF Return
<1>6. CASE Unstall(n)
  BY <1>6 DEF Unstall
<1>7. CASE DrainEnd(n)
  BY <1>7 DEF DrainEnd
<1>8. CASE Reset(n)
  BY <1>8 DEF Reset, Unclaimed
<1>9. CASE Restart(n)
  BY <1>9 DEF Restart
<1> QED BY <1>1, <1>2, <1>3, <1>4, <1>5, <1>6, <1>7, <1>8, <1>9
        DEF MonitorSteps

\* A poll keeps the types (_tick).
LEMMA TickTypes ==
  ASSUME MonitorTypes, NEW n \in Nodes, Tick(n)
  PROVE  MonitorTypes'
<1>1. Observe(n) /\ UNCHANGED <<body, suspend>>
  BY DEF Tick, Wait, Recover, Connect, Observe
<1>2. box' \in [Nodes -> {"gone", "noilx", "idle", "dead", "busy", "ready"}]
  BY DEF MonitorTypes, Tick, Wait, Recover, Connect
<1>3. mode' \in [Nodes -> {"remote", "transfer"}]
  BY DEF MonitorTypes, Tick, Wait, Recover, Connect, Recovered
<1>4. state' \in [Nodes -> {"OFFLINE", "ILX_DOWN", "REACHABLE",
                            "CAM_CONNECTED"}]
  BY <1>1 DEF MonitorTypes, Observe, NextState, Answers
<1>5. seen' \in [Nodes -> [kind : {"gone", "noilx", "idle", "busy", "full"},
                           mode : {"remote", "transfer", "unknown"},
                           val : Vectors]]
  BY <1>1, FieldsAre DEF MonitorTypes, Observe, Status
<1>6. busyFor' \in [Nodes -> Nat]
  <2>1. BusyStreak(n) \in Nat
    <3>1. busyFor[n] + 1 \in Nat /\ BusyHold + 1 \in Nat
      BY MonitorAssumption DEF MonitorTypes
    <3> QED BY <3>1, MinTwo DEF BusyStreak
  <2> QED BY <1>1, <2>1 DEF Observe, MonitorTypes
<1>7. unproven' \in [Nodes -> Nat]
  <2>1. Min({unproven[n] + 1, BusyHold + 2}) \in Nat
    <3>1. unproven[n] + 1 \in Nat /\ BusyHold + 2 \in Nat
      BY MonitorAssumption DEF MonitorTypes
    <3> QED BY <3>1, MinTwo
  <2> QED BY <1>1, <2>1 DEF Observe, MonitorTypes
<1>8. /\ cache' \in [Nodes -> Settings] /\ force' \in [Nodes -> BOOLEAN]
      /\ holders' \in [Nodes -> SUBSET Passes]
  BY <1>1 DEF Observe, MonitorTypes, Settings
<1> QED BY <1>1, <1>2, <1>3, <1>4, <1>5, <1>6, <1>7, <1>8 DEF MonitorTypes

\* A poll extends a hold only with the streak that pays for it (_tick, the
\* BUSY_HOLD_S check).
LEMMA RosterStep ==
  ASSUME MonitorTypes, RosterInv, NEW n \in Nodes, Tick(n)
  PROVE  RosterInv'
<1>1. Observe(n)
  BY DEF Tick, Wait, Recover, Connect
<1>2. BusyStreak(n) <= BusyHold => BusyStreak(n) \in {0, busyFor[n] + 1}
  BY MonitorAssumption DEF BusyStreak, Min, MonitorTypes
<1>3. ASSUME NextState(n) = "CAM_CONNECTED"
      PROVE  /\ unproven'[n] <= busyFor'[n] /\ busyFor'[n] <= BusyHold
             /\ seen'[n].kind \in {"full", "busy"}
  <2>1. box[n] \in {"ready", "busy"}
    BY <1>3 DEF NextState, Answers, Usable, MonitorTypes
  <2>2. seen'[n].kind \in {"full", "busy"}
    BY <1>1, <2>1 DEF Observe, Status, MonitorTypes
  <2>3. CASE Proof(n)
    <3>1. unproven'[n] = 0
      BY <1>1, <2>3 DEF Observe, MonitorTypes
    <3>2. BusyStreak(n) \in Nat /\ BusyStreak(n) <= BusyHold
      BY <1>3, <1>2, <2>1, MonitorAssumption
         DEF NextState, Answers, Usable, Held, BusyStreak, Proof, MonitorTypes
    <3> QED BY <1>1, <2>2, <3>1, <3>2 DEF Observe, MonitorTypes
  <2>4. CASE ~Proof(n)
    <3>1. box[n] = "busy" /\ ~suspend[n] /\ Held(n)
      BY <1>3, <2>1, <2>4 DEF NextState, Answers, Usable, Proof, MonitorTypes
    <3>2. BusyStreak(n) = busyFor[n] + 1 /\ BusyStreak(n) <= BusyHold
      BY <1>2, <3>1, MonitorAssumption DEF Held, BusyStreak, Min, MonitorTypes
    <3>3. unproven'[n] <= unproven[n] + 1
      <4>1. unproven[n] + 1 \in Nat /\ BusyHold + 2 \in Nat
        BY MonitorAssumption DEF MonitorTypes
      <4>2. unproven'[n] = Min({unproven[n] + 1, BusyHold + 2})
        BY <1>1, <2>4 DEF Observe, MonitorTypes
      <4> QED BY <4>1, <4>2, MinTwo
    <3>4. unproven[n] <= busyFor[n]
      BY <2>4 DEF Proof, RosterInv
    <3>5. unproven'[n] \in Nat
      BY TickTypes DEF MonitorTypes
    <3> QED BY <1>1, <2>2, <3>2, <3>3, <3>4, <3>5 DEF Observe, MonitorTypes
  <2> QED BY <2>3, <2>4
<1> QED BY <1>1, <1>3 DEF RosterInv, Observe, MonitorTypes

-----------------------------------------------------------------------------
\* A pass at rest is a pass.
LEMMA IdleType == Idle \in PassRec
BY FieldsAre DEF Idle, PassRec, Settings, Vectors

\* So is one that starts.
LEMMA RoundType ==
  ASSUME NEW nodes \in SUBSET Nodes, NEW forced \in BOOLEAN, NEW exp \in BOOLEAN,
         NEW pinned \in Nodes \union {None}, NEW then \in Nodes \union {None}
  PROVE  Round(nodes, forced, exp, pinned, then) \in PassRec
BY IdleType, ZenonT(60) DEF Round, PassRec

\* And a forced one.
LEMMA StartType ==
  ASSUME NEW nodes \in SUBSET Nodes, NEW exp \in BOOLEAN,
         NEW pinned \in Nodes \union {None}, NEW then \in Nodes \union {None}
  PROVE  Start(nodes, exp, pinned, then) \in PassRec
BY RoundType DEF Start

\* And one that goes on after a node.
LEMMA OnwardType ==
  ASSUME FleetTypes, NEW q \in PassRec
  PROVE  Onward(q) \in PassRec
<1>1. CASE q.left # {}
  <2>1. Onward(q) = Round(q.left, q.forced, q.exp, q.pinned, q.then)
    BY <1>1 DEF Onward
  <2>2. /\ q.left \in SUBSET Nodes /\ q.forced \in BOOLEAN /\ q.exp \in BOOLEAN
        /\ q.then \in Nodes \union {None} /\ q.pinned \in Nodes \union {None}
    BY DEF PassRec
  <2> QED BY <2>1, <2>2, RoundType
<1>2. CASE q.left = {} /\ q.then # None
  <2>1. {q.then} \in SUBSET Nodes /\ pin.node \in Nodes \union {None}
    BY <1>2 DEF PassRec, FleetTypes
  <2> QED BY <1>2, <2>1, StartType DEF Onward
<1>3. CASE q.left = {} /\ q.then = None
  BY <1>3, IdleType DEF Onward
<1> QED BY <1>1, <1>2, <1>3

\* A skipped node leaves the passes well formed.
LEMMA PassedType ==
  ASSUME FleetTypes, NEW p \in Passes, NEW n \in Nodes,
         pass' = Passed(p, n)
  PROVE  pass' \in [Passes -> PassRec]
<1> DEFINE q == [pass[p] EXCEPT !.left = @ \ {n}]
<1>1. q \in PassRec
  BY DEF FleetTypes, PassRec
<1>2. pass' = [pass EXCEPT ![p] = Onward(q)]
  BY DEF Passed
<1>3. Onward(q) \in PassRec
  BY <1>1, OnwardType
<1> HIDE DEF q
<1> QED BY <1>2, <1>3 DEF FleetTypes

Calls == \/ \E n \in Nodes, v \in Values : Tweak(n, v) \/ Preview(n, v)
         \/ \E f \in Fields, v \in Values : Apply(f, v)
         \/ \E v \in Values : Bump(v)
         \/ Kick \/ Commit \/ Discard \/ Expire
         \/ LoopStart

\* Every call keeps the types.
LEMMA CallTypes ==
  ASSUME MonitorTypes, FleetTypes, Calls
  PROVE  MonitorTypes' /\ FleetTypes'
<1>0. {"api", "loop"} \subseteq Passes
  BY FleetAssumption
<1>n. Nodes \in SUBSET Nodes /\ None \in Nodes \union {None}
      /\ pin.node \in Nodes \union {None}
  BY DEF FleetTypes
<1>1. ASSUME NEW n \in Nodes, NEW v \in Values, Tweak(n, v)
      PROVE  MonitorTypes' /\ FleetTypes'
  <2>1. CASE Takes(n)
    <3>1. body' \in [Nodes -> Vectors]
      <4>1. body' = [body EXCEPT ![n].iso = v]
        BY <1>1, <2>1 DEF Tweak
      <4> QED BY <4>1, FieldsAre DEF MonitorTypes, Vectors
    <3>2. split' \in [Nodes -> Settings]
      BY <1>1, <2>1 DEF Tweak, FleetTypes, Settings
    <3> QED BY <1>1, <2>1, <3>1, <3>2
               DEF Tweak, MonitorTypes, FleetTypes, Fixed,
               blind, Cross
  <2>2. CASE ~Takes(n)
    BY <1>1, <2>2 DEF Tweak, MonitorTypes, FleetTypes, Fixed, blind
  <2> QED BY <2>1, <2>2
<1>2. ASSUME NEW n \in Nodes, NEW v \in Values, Preview(n, v)
      PROVE  MonitorTypes' /\ FleetTypes'
  <2>1. body' \in [Nodes -> Vectors]
    BY <1>2, FieldsAre DEF Preview, MonitorTypes, Vectors
  <2>2. pass' \in [Passes -> PassRec]
    <3>1. CASE pin.node \in {None, n}
      BY <1>2, <3>1 DEF Preview, FleetTypes
    <3>2. CASE pin.node \notin {None, n}
      <4>1. Start({pin.node}, TRUE, n, None) \in PassRec
        BY <3>2, <1>n, StartType
      <4> QED BY <1>2, <3>2, <4>1, <1>0 DEF Preview, FleetTypes
    <3> QED BY <3>1, <3>2
  <2> QED BY <1>2, <2>1, <2>2
             DEF Preview, MonitorTypes, FleetTypes, Fixed, blind, Cross,
             InFlight, Settings, Unsplit
<1>3. ASSUME NEW f \in Fields, NEW v \in Values, Apply(f, v)
      PROVE  MonitorTypes' /\ FleetTypes'
  <2>1. desired' \in Vectors
    BY <1>3, FieldsAre DEF Apply, FleetTypes, Vectors
  <2>2. pass' \in [Passes -> PassRec]
    <3>1. Start(Nodes, f = "iso", None, pin.node) \in PassRec
      BY <1>n, StartType
    <3> QED BY <1>3, <3>1, <1>0 DEF Apply, FleetTypes
  <2> QED BY <1>3, <2>1, <2>2
             DEF Apply, MonitorTypes, FleetTypes, Fixed, blind, Cross,
             InFlight, Settings, Unsplit, NoPin
<1>4. ASSUME NEW v \in Values, Bump(v)
      PROVE  MonitorTypes' /\ FleetTypes'
  <2>1. desired' \in Vectors
    BY <1>4, FieldsAre DEF Bump, FleetTypes, Vectors
  <2>2. pass' \in [Passes -> PassRec]
    <3>2. Round(Nodes, FALSE, TRUE, pin.node, None) \in PassRec
      BY <1>n, RoundType
    <3> QED BY <1>4, <3>2, <1>0 DEF Bump, FleetTypes
  <2> QED BY <1>4, <2>1, <2>2
             DEF Bump, MonitorTypes, FleetTypes, Fixed, blind, Cross,
             InFlight, Settings, Unsplit
<1>5. ASSUME Kick PROVE  MonitorTypes' /\ FleetTypes'
  <2>1. Start(Nodes, FALSE, pin.node, None) \in PassRec
    BY <1>n, StartType
  <2> QED BY <1>5, <2>1, <1>0
             DEF Kick, MonitorTypes, FleetTypes, Fixed, blind, Cross,
             InFlight, settings
<1>6. ASSUME Commit PROVE  MonitorTypes' /\ FleetTypes'
  <2>1. desired' \in Vectors
    BY <1>6, FieldsAre DEF Commit, FleetTypes, Vectors, Settings
  <2>2. Start(Nodes, TRUE, None, None) \in PassRec
    BY <1>n, StartType
  <2> QED BY <1>6, <2>1, <2>2, <1>0
             DEF Commit, MonitorTypes, FleetTypes, Fixed, blind, Cross,
             InFlight, Settings, Unsplit, NoPin
<1>7. ASSUME Discard PROVE  MonitorTypes' /\ FleetTypes'
  <2>1. {pin.node} \in SUBSET Nodes
    BY <1>7, <1>n DEF Discard
  <2>2. Start({pin.node}, TRUE, None, None) \in PassRec
    BY <1>n, <2>1, StartType
  <2> QED BY <1>7, <2>2, <1>0
             DEF Discard, MonitorTypes, FleetTypes, Fixed, blind, Cross,
             InFlight, Settings, NoPin
<1>8. ASSUME Expire PROVE  MonitorTypes' /\ FleetTypes'
  BY <1>8
     DEF Expire, MonitorTypes, FleetTypes, monitorVars, world, monitor, gates,
     blind, history, Settings, NoPin
<1>9. ASSUME LoopStart PROVE  MonitorTypes' /\ FleetTypes'
  <2>1. Round(Nodes, FALSE, FALSE, pin.node, None) \in PassRec
    BY <1>n, RoundType
  <2> QED BY <1>9, <2>1, <1>0
             DEF LoopStart, MonitorTypes, FleetTypes, monitorVars, world,
             monitor, gates, blind, settings
<1> QED BY <1>1, <1>2, <1>3, <1>4, <1>5, <1>6, <1>7, <1>8, <1>9 DEF Calls

\* Every step of a pass keeps the types (reconcile_all, _reconcile_node).
LEMMA PassTypes ==
  ASSUME MonitorTypes, FleetTypes, NEW p \in Passes, PassStep(p)
  PROVE  MonitorTypes' /\ FleetTypes'
<1>p. pass[p] \in PassRec
  BY DEF FleetTypes
<1>1. ASSUME NEW n \in Nodes, SkipUnconnected(p, n)
      PROVE  MonitorTypes' /\ FleetTypes'
  <2>1. pass' \in [Passes -> PassRec]
    BY <1>1, PassedType DEF SkipUnconnected
  <2> QED BY <1>1, <2>1
             DEF SkipUnconnected, MonitorTypes, FleetTypes, monitorVars,
             world, monitor, gates, blind, settings
<1>2. ASSUME NEW n \in Nodes, SkipHeld(p, n)
      PROVE  MonitorTypes' /\ FleetTypes'
  <2>1. pass' \in [Passes -> PassRec]
    BY <1>2, PassedType DEF SkipHeld
  <2> QED BY <1>2, <2>1
             DEF SkipHeld, Owing, MonitorTypes, FleetTypes, monitorVars,
             world, monitor, gates, blind, history
<1>3. ASSUME NEW n \in Nodes, SkipPinned(p, n)
      PROVE  MonitorTypes' /\ FleetTypes'
  <2>1. pass' \in [Passes -> PassRec]
    BY <1>3, PassedType DEF SkipPinned
  <2> QED BY <1>3, <2>1
             DEF SkipPinned, MonitorTypes, FleetTypes, monitorVars, world,
             monitor, gates, blind, history
<1>4. ASSUME NEW n \in Nodes, Begin(p, n)
      PROVE  MonitorTypes' /\ FleetTypes'
  <2>1. cache' \in [Nodes -> Settings] /\ holders' \in [Nodes -> SUBSET Passes]
    BY <1>4 DEF Begin, MonitorTypes, Settings
  <2>2. /\ MayExpose(p, n) \in BOOLEAN /\ (n \in owed) \in BOOLEAN
        /\ Todo(p, n) \in SUBSET Fields
    BY <1>p DEF MayExpose, Todo, MonitorTypes, PassRec, Reverted
  <2>3. cache'[n] \in Settings /\ desired \in Vectors
    BY <2>1 DEF FleetTypes
  <2>4. pass' \in [Passes -> PassRec]
    <3> DEFINE q == [pass[p] EXCEPT
                !.pc = "push", !.left = @ \ {n}, !.at = n, !.want = desired,
                !.mayExp = MayExpose(p, n), !.owed = (n \in owed),
                !.todo = Todo(p, n), !.known = cache'[n],
                !.wrote = FALSE, !.refused = FALSE]
    <3>1. q \in PassRec
      BY <1>p, <2>2, <2>3 DEF PassRec
    <3>2. pass' = [pass EXCEPT ![p] = q]
      BY <1>4 DEF Begin
    <3> HIDE DEF q
    <3> QED BY <3>1, <3>2 DEF FleetTypes
  <2>5. split' \in [Nodes -> Settings] /\ lapsed' \in [verdict : SUBSET Nodes, cache : SUBSET Nodes]
    BY <1>4 DEF Begin, FleetTypes, Settings
  <2> QED BY <1>4, <2>1, <2>4, <2>5
             DEF Begin, MonitorTypes, FleetTypes, Fixed, settings
<1>5. ASSUME Push(p) PROVE MonitorTypes' /\ FleetTypes'
  <2> DEFINE n == pass[p].at
             f == First(pass[p].todo)
  <2>1. pass[p].want \in Vectors /\ f \in Fields
    BY <1>p, FieldsAre DEF PassRec, First
  <2>2. pass[p].want[f] \in Settings /\ pass[p].want.ft \in Settings
    BY <2>1, FieldsAre DEF Vectors, Settings
  <2>3. body' \in [Nodes -> Vectors]
    <3>1. CASE Takes(n)
      BY <1>5, <3>1, <2>1, <2>2, FieldsAre
         DEF Push, MonitorTypes, Vectors, Settings
    <3>2. CASE ~Takes(n)
      BY <1>5, <3>2 DEF Push, MonitorTypes
    <3> QED BY <3>1, <3>2
  <2>4. cache' \in [Nodes -> Settings]
    BY <1>5, <2>2 DEF Push, Noted, MonitorTypes
  <2>5. pass' \in [Passes -> PassRec]
    <3>1. \E k \in Settings, r \in BOOLEAN : pass' = [pass EXCEPT ![p] =
             [pass[p] EXCEPT !.todo = @ \ {f}, !.wrote = TRUE, !.known = k, !.refused = r]]
      BY <1>5, <1>p, <2>2 DEF Push, Noted, PassRec
    <3>2. PICK k \in Settings, r \in BOOLEAN : pass' = [pass EXCEPT ![p] =
             [pass[p] EXCEPT !.todo = @ \ {f}, !.wrote = TRUE, !.known = k, !.refused = r]]
      BY <3>1
    <3> QED BY <3>2, <1>p DEF FleetTypes, PassRec
  <2> QED BY <1>5, <2>3, <2>4, <2>5
             DEF Push, MonitorTypes, FleetTypes, Fixed, settings, history
<1>6. ASSUME PushNothing(p) PROVE MonitorTypes' /\ FleetTypes'
  <2>1. pass' \in [Passes -> PassRec]
    BY <1>6, <1>p DEF PushNothing, FleetTypes, PassRec
  <2> QED BY <1>6, <2>1
             DEF PushNothing, MonitorTypes, FleetTypes, monitorVars, world,
             monitor, gates, blind, settings, history
<1>7. Onward(pass[p]) \in PassRec
  BY <1>p, OnwardType
<1>8. ASSUME VerifyFails(p) PROVE MonitorTypes' /\ FleetTypes'
  <2>1. pass' \in [Passes -> PassRec] /\ holders' \in [Nodes -> SUBSET Passes]
    BY <1>8, <1>7 DEF VerifyFails, LeftNode, FleetTypes, MonitorTypes
  <2>2. crossed' \in BOOLEAN
    BY <1>8, <1>p DEF VerifyFails, FleetTypes, PassRec
  <2> QED BY <1>8, <2>1, <2>2
             DEF VerifyFails, MonitorTypes, FleetTypes, Fixed, settings
<1>9. ASSUME Verify(p) PROVE MonitorTypes' /\ FleetTypes'
  <2> DEFINE n == pass[p].at
  <2>n. n \in Nodes
    BY <1>9, <1>p DEF Verify, Verifies, PassRec
  <2>1. pass' \in [Passes -> PassRec] /\ holders' \in [Nodes -> SUBSET Passes]
    BY <1>9, <1>7 DEF Verify, LeftNode, FleetTypes, MonitorTypes
  <2>2. force' \in [Nodes -> BOOLEAN] /\ crossed' \in BOOLEAN
    BY <1>9 DEF Verify, MonitorTypes, FleetTypes, Takes
  <2>3. owed' \subseteq Nodes /\ skipped' \subseteq Nodes
    BY <1>9 DEF Verify, FleetTypes, Paid
  <2>4. stale' \subseteq Nodes
    BY <1>9, <2>n DEF Verify, FleetTypes
  <2>5. lapsed' \in [verdict : SUBSET Nodes, cache : SUBSET Nodes]
    BY <1>9, <2>n DEF Verify, FleetTypes
  <2> QED BY <1>9, <2>1, <2>2, <2>3, <2>4, <2>5
             DEF Verify, MonitorTypes, FleetTypes, Fixed
<1> QED BY <1>1, <1>2, <1>3, <1>4, <1>5, <1>6, <1>8, <1>9 DEF PassStep

\* Every step beneath the manager keeps the types.
LEMMA WorldTypes ==
  ASSUME MonitorTypes, FleetTypes, NEW n \in Nodes,
         \/ Disturbed(n) \/ Mended(n) \/ Serviced(n) \/ Released(n)
         \/ PowerCycled(n) \/ Polled(n)
  PROVE  MonitorTypes' /\ FleetTypes'
<1>1. CASE Disturbed(n)
  <2>1. MonitorTypes'
    BY <1>1, MonitorTypesKept DEF Disturbed, MonitorSteps
  <2> QED BY <1>1, <2>1 DEF Disturbed, FleetTypes, settings, Cross
<1>2. CASE Mended(n) \/ Serviced(n) \/ Released(n)
  <2>1. MonitorTypes'
    BY <1>2, MonitorTypesKept DEF Mended, Serviced, Released, MonitorSteps
  <2> QED BY <1>2, <2>1
             DEF Mended, Serviced, Released, FleetTypes, settings, history
<1>3. CASE PowerCycled(n)
  <2>1. MonitorTypes'
    BY <1>3, MonitorTypesKept DEF PowerCycled, MonitorSteps
  <2>2. lapsed' \in [verdict : SUBSET Nodes, cache : SUBSET Nodes]
    BY <1>3 DEF PowerCycled, FleetTypes
  <2> QED BY <1>3, <2>1, <2>2
             DEF PowerCycled, FleetTypes, settings, Cross, Settings
<1>4. CASE Polled(n)
  <2>1. MonitorTypes'
    BY <1>4, TickTypes DEF Polled
  <2>2. lapsed' \in [verdict : SUBSET Nodes, cache : SUBSET Nodes]
    BY <1>4 DEF Polled, FleetTypes
  <2> QED BY <1>4, <2>1, <2>2 DEF Polled, FleetTypes, Settings
<1> QED BY <1>1, <1>2, <1>3, <1>4

-----------------------------------------------------------------------------
\* The fields of a round.
LEMMA RoundIs ==
  ASSUME NEW nodes, NEW forced, NEW exp, NEW pinned, NEW then
  PROVE  LET q == Round(nodes, forced, exp, pinned, then)
         IN  /\ q.pc = "visit" /\ q.left = nodes /\ q.forced = forced
             /\ q.exp = exp /\ q.pinned = pinned /\ q.then = then
BY DEF Round, Idle

\* The fields of a forced round for exposure.
LEMMA StartIs ==
  ASSUME NEW nodes, NEW pinned
  PROVE  LET o == Start(nodes, TRUE, pinned, None)
         IN  /\ o.pc = "visit" /\ o.left = nodes /\ o.exp = TRUE
             /\ o.forced = TRUE /\ o.pinned = pinned /\ o.then = None
BY DEF Start, Round, Idle

\* The three ways a pass goes on: it ends, it takes the next node, or it turns
\* to the camera a preview let go.
LEMMA OnwardIs ==
  ASSUME NEW q
  PROVE  LET o == Onward(q)
         IN  \/ o.pc = "idle" /\ q.left = {}
             \/ /\ o.pc = "visit" /\ o.left = q.left /\ o.exp = q.exp
                /\ o.forced = q.forced /\ o.pinned = q.pinned /\ o.then = q.then
             \/ /\ o.pc = "visit" /\ q.left = {} /\ q.then # None
                /\ o.left = {q.then} /\ o.exp = TRUE /\ o.forced = TRUE
                /\ o.pinned = pin.node /\ o.then = None
<1>1. CASE q.left # {}
  BY <1>1, RoundIs DEF Onward
<1>2. CASE q.left = {} /\ q.then # None
  <2>1. Onward(q) = Start({q.then}, TRUE, pin.node, None)
    BY <1>2 DEF Onward
  <2> DEFINE left == {q.then}
  <2>2. left = {q.then} /\ Onward(q) = Start(left, TRUE, pin.node, None)
    BY <2>1
  <2> HIDE DEF left
  <2> DEFINE o == Start(left, TRUE, pin.node, None)
  <2>3. /\ o.pc = "visit" /\ o.left = left /\ o.exp = TRUE
        /\ o.forced = TRUE /\ o.pinned = pin.node /\ o.then = None
    BY StartIs
  <2> HIDE DEF o
  <2>4. Onward(q) = o
    BY <2>2 DEF o
  <2>5. /\ o.pc = "visit" /\ q.left = {} /\ q.then # None
        /\ o.left = {q.then} /\ o.exp = TRUE /\ o.forced = TRUE
        /\ o.pinned = pin.node /\ o.then = None
    BY <1>2, <2>2, <2>3
  <2> QED BY <2>4, <2>5
<1>3. CASE q.left = {} /\ q.then = None
  BY <1>3 DEF Onward, Idle
<1> QED BY <1>1, <1>2, <1>3

\* After a node no pass is in the middle of writing.
LEMMA OnwardRests == ASSUME NEW q PROVE Onward(q).pc # "push"
BY OnwardIs

\* What every call does: one round of reconciling at most, started on a free
\* thread; a round that is asked for exposure, or that follows one, goes to
\* cameras without a split.
Starts(p, nodes, forced, exp, pinned, then) ==
    /\ pass[p].pc = "idle"
    /\ pass' = [pass EXCEPT ![p] = Round(nodes, forced, exp, pinned, then)]
    /\ ~crossed' => \A q \in Passes : pass[q].pc = "idle"
    /\ \/ \A f \in ReadFields : desired'[f] = desired[f]
       \/ forced /\ nodes = Nodes /\ pinned = None
    /\ exp => \A n \in nodes : split'[n] = None
    /\ then # None => split'[then] = None

NoStart == pass' = pass /\ desired' = desired
SomeStart ==
    \E p \in Passes, nodes \in SUBSET Nodes, forced, exp \in BOOLEAN,
       pinned, then \in Nodes \union {None} :
        Starts(p, nodes, forced, exp, pinned, then)

\* A call gives a camera a split only outside of a pass and a preview.
SplitGiven(n) ==
    /\ NoStart /\ pin' = pin /\ pin.node # n
    /\ \A p \in Passes : pass[p].pc = "idle"
    /\ body'[n].iso = split'[n]

CallEffect ==
    /\ UNCHANGED <<lapsed, skipped, stale, seen, cache, holders>>
    /\ crossed => crossed'
    /\ \A n \in Nodes, f \in Fields \ {"iso"} : body'[n][f] = body[n][f]
    /\ NoStart \/ SomeStart
    /\ pin'.node \in {None, pin.node} \/ split'[pin'.node] = None
    /\ \A n \in Nodes :
        \/ split'[n] = None
        \/ split'[n] = split[n] /\ (body'[n] = body[n] \/ crossed')
        \/ SplitGiven(n)

\* Every call of the operator, and the loop's start, is a CallEffect.
LEMMA CallsDo ==
  ASSUME MonitorTypes, FleetTypes, PinnedUnsplit, Calls
  PROVE  CallEffect
<1>0. /\ {"api", "loop"} \subseteq Passes /\ Nodes \in SUBSET Nodes
      /\ TRUE \in BOOLEAN /\ FALSE \in BOOLEAN
      /\ None \in Nodes \union {None} /\ pin.node \in Nodes \union {None}
  BY FleetAssumption DEF FleetTypes
<1> USE DEF CallEffect, Fixed, blind, Cross, InFlight
<1>1. ASSUME NEW n \in Nodes, NEW v \in Values, Tweak(n, v)
      PROVE  CallEffect
  <2>1. CASE Takes(n)
    <3>1. body' = [body EXCEPT ![n].iso = v]
      BY <1>1, <2>1 DEF Tweak
    <3>2. \A m \in Nodes : body'[m] = body[m] \/ m = n
      BY <3>1 DEF MonitorTypes
    <3>3. \A m \in Nodes, f \in Fields \ {"iso"} : body'[m][f] = body[m][f]
      BY <3>1, FieldsAre DEF MonitorTypes, Vectors
    <3>4. body'[n].iso = v
      BY <3>1, FieldsAre DEF MonitorTypes, Vectors
    <3>5. /\ NoStart /\ pin' = pin
          /\ UNCHANGED <<lapsed, skipped, stale, seen, cache, holders>>
          /\ crossed' = (crossed \/ \E p \in Passes : pass[p].pc # "idle")
      BY <1>1, <2>1 DEF Tweak, NoStart
    <3>6. \A m \in Nodes \ {n} : split'[m] = split[m]
      BY <1>1, <2>1 DEF Tweak, FleetTypes
    <3>7. split'[n] = None \/ SplitGiven(n)
      BY <1>1, <2>1, <3>4, <3>5 DEF Tweak, FleetTypes, SplitGiven
    <3> QED BY <3>2, <3>3, <3>5, <3>6, <3>7
  <2>2. CASE ~Takes(n)
    BY <1>1, <2>2 DEF Tweak, NoStart
  <2> QED BY <2>1, <2>2
<1>2. ASSUME NEW n \in Nodes, NEW v \in Values, Preview(n, v)
      PROVE  CallEffect
  <2>1. body' = [body EXCEPT ![n].iso = v]
    BY <1>2 DEF Preview
  <2>2. \A m \in Nodes : body'[m] = body[m] \/ m = n
    BY <2>1 DEF MonitorTypes
  <2>3. \A m \in Nodes, f \in Fields \ {"iso"} : body'[m][f] = body[m][f]
    BY <2>1, FieldsAre DEF MonitorTypes, Vectors
  <2>4. split'[n] = None /\ \A m \in Nodes \ {n} : split'[m] = split[m]
    BY <1>2 DEF Preview, Unsplit, FleetTypes
  <2>5. NoStart \/ SomeStart
    <3>1. CASE pin.node \in {None, n}
      BY <1>2, <3>1 DEF Preview, NoStart
    <3>2. CASE pin.node \notin {None, n}
      <4>1. Starts("api", {pin.node}, TRUE, TRUE, n, None)
        BY <1>2, <3>2, <2>4, <1>0 DEF Preview, Starts, Start, PinnedUnsplit
      <4>2. {pin.node} \in SUBSET Nodes /\ n \in Nodes \union {None}
        BY <3>2, <1>0
      <4> QED BY <4>1, <4>2, <1>0 DEF SomeStart
    <3> QED BY <3>1, <3>2
  <2>6. /\ pin'.node = n /\ crossed => crossed'
        /\ UNCHANGED <<lapsed, skipped, stale, seen, cache, holders>>
    BY <1>2 DEF Preview
  <2> QED BY <1>2, <2>2, <2>3, <2>4, <2>5, <2>6 DEF Preview
<1>3. ASSUME NEW f \in Fields, NEW v \in Values, Apply(f, v)
      PROVE  CallEffect
  <2>1. Starts("api", Nodes, TRUE, (f = "iso"), None, pin.node)
    BY <1>3, <1>0 DEF Apply, Starts, Start, Unsplit
  <2>2. SomeStart
    BY <2>1, <1>0 DEF SomeStart
  <2> QED BY <1>3, <2>2 DEF Apply, Unsplit, NoPin
<1>4. ASSUME NEW v \in Values, Bump(v)
      PROVE  CallEffect
  <2>1. Starts("api", Nodes, FALSE, TRUE, pin.node, None)
    BY <1>4, <1>0, FieldsAre DEF Bump, Starts, Unsplit, FleetTypes, Vectors
  <2>2. SomeStart
    BY <2>1, <1>0 DEF SomeStart
  <2> QED BY <1>4, <2>2 DEF Bump, Unsplit
<1>5. ASSUME Kick PROVE CallEffect
  <2>1. Starts("api", Nodes, TRUE, FALSE, pin.node, None)
    BY <1>5, <1>0 DEF Kick, Starts, Start, settings
  <2>2. SomeStart
    BY <2>1, <1>0 DEF SomeStart
  <2> QED BY <1>5, <2>2 DEF Kick, settings
<1>6. ASSUME Commit PROVE CallEffect
  <2>1. Starts("api", Nodes, TRUE, TRUE, None, None)
    BY <1>6, <1>0, FieldsAre
       DEF Commit, Starts, Start, Unsplit, FleetTypes, Vectors
  <2>2. SomeStart
    BY <2>1, <1>0 DEF SomeStart
  <2> QED BY <1>6, <2>2 DEF Commit, Unsplit, NoPin
<1>7. ASSUME Discard PROVE CallEffect
  <2>1. pin.node \in Nodes
    BY <1>7, <1>0 DEF Discard
  <2>2. Starts("api", {pin.node}, TRUE, TRUE, None, None)
    BY <1>7, <1>0, <2>1, NodesAre DEF Discard, Starts, Start, PinnedUnsplit
  <2>3. SomeStart
    BY <2>1, <2>2, <1>0 DEF SomeStart
  <2> QED BY <1>7, <2>3 DEF Discard, NoPin
<1>8. ASSUME Expire PROVE CallEffect
  BY <1>8 DEF Expire, NoPin, NoStart, monitorVars, world, monitor, history
<1>9. ASSUME LoopStart PROVE CallEffect
  <2>1. pass["api"].pc # "idle" => crossed'
    BY <1>9 DEF LoopStart
  <2>2. Starts("loop", Nodes, FALSE, FALSE, pin.node, None)
    BY <1>9, <2>1, <1>0, FleetAssumption DEF LoopStart, Starts, settings
  <2>3. SomeStart
    BY <2>2, <1>0 DEF SomeStart
  <2> QED BY <1>9, <2>3 DEF LoopStart, monitorVars, world, monitor, settings
<1> QED BY <1>1, <1>2, <1>3, <1>4, <1>5, <1>6, <1>7, <1>8, <1>9 DEF Calls

\* What every step of a pass does.
PassEffect(p) ==
    /\ pass[p].pc # "idle"
    /\ \A q \in Passes \ {p} : pass'[q] = pass[q]
    /\ desired' = desired /\ pin' = pin
    /\ crossed => crossed'
    /\ \A n \in Nodes : split'[n] \in {split[n], None}
    /\ pass'[p].pc = "push" =>
        \/ pass'[p].want = desired
        \/ pass[p].pc = "push" /\ pass'[p].want = pass[p].want

\* Every step of a pass is a PassEffect.
LEMMA PassesDo ==
  ASSUME MonitorTypes, FleetTypes, NEW p \in Passes, PassStep(p)
  PROVE  PassEffect(p)
<1> USE DEF PassEffect
<1>1. ASSUME NEW n \in Nodes, NEW q, pass' = [pass EXCEPT ![p] = Onward(q)]
      PROVE  pass'[p].pc # "push" /\ \A r \in Passes \ {p} : pass'[r] = pass[r]
  <2>1. pass'[p] = Onward(q)
    BY <1>1 DEF FleetTypes
  <2>2. Onward(q).pc # "push"
    BY OnwardRests
  <2> QED BY <1>1, <2>1, <2>2 DEF FleetTypes
<1>2. ASSUME NEW n \in Nodes,
             SkipUnconnected(p, n) \/ SkipHeld(p, n) \/ SkipPinned(p, n)
      PROVE  PassEffect(p)
  <2>1. pass' = Passed(p, n) /\ Visits(p, n)
    BY <1>2 DEF SkipUnconnected, SkipHeld, SkipPinned
  <2>2. pass'[p].pc # "push" /\ \A r \in Passes \ {p} : pass'[r] = pass[r]
    BY <2>1, <1>1 DEF Passed
  <2> QED BY <1>2, <2>1, <2>2
          DEF SkipUnconnected, SkipHeld, SkipPinned, Visits, settings, history
<1>3. ASSUME NEW n \in Nodes, Begin(p, n) PROVE PassEffect(p)
  <2>1. pass'[p].want = desired /\ \A r \in Passes \ {p} : pass'[r] = pass[r]
    BY <1>3 DEF Begin, FleetTypes, PassRec
  <2> QED BY <1>3, <2>1 DEF Begin, Visits, settings, FleetTypes
<1>4. ASSUME Push(p) PROVE PassEffect(p)
  <2>1. pass'[p].want = pass[p].want /\ \A r \in Passes \ {p} : pass'[r] = pass[r]
    BY <1>4 DEF Push, Noted, FleetTypes, PassRec
  <2> QED BY <1>4, <2>1 DEF Push, settings, history
<1>5. ASSUME PushNothing(p) PROVE PassEffect(p)
  <2>1. pass'[p].want = pass[p].want /\ \A r \in Passes \ {p} : pass'[r] = pass[r]
    BY <1>5 DEF PushNothing, FleetTypes, PassRec
  <2> QED BY <1>5, <2>1 DEF PushNothing, settings, history
<1>6. ASSUME VerifyFails(p) \/ Verify(p) PROVE PassEffect(p)
  <2>1. pass'[p].pc # "push" /\ \A r \in Passes \ {p} : pass'[r] = pass[r]
    BY <1>6, OnwardRests DEF VerifyFails, Verify, LeftNode, FleetTypes
  <2> QED BY <1>6, <2>1 DEF VerifyFails, Verify, Verifies, settings
<1> QED BY <1>2, <1>3, <1>4, <1>5, <1>6 DEF PassStep

World(n) ==
    \/ Disturbed(n) \/ Mended(n) \/ Serviced(n) \/ Released(n)
    \/ PowerCycled(n) \/ Polled(n)

\* What happens beneath the manager touches no pass and gives no split.
LEMMA WorldDoes ==
  ASSUME FleetTypes, NEW n \in Nodes, World(n)
  PROVE  /\ UNCHANGED <<pass, desired, pin, owed, skipped>>
         /\ crossed => crossed'
         /\ \A m \in Nodes : split'[m] \in {split[m], None}
BY DEF World, Disturbed, Mended, Serviced, Released, PowerCycled, Polled, settings,
   history,
   Cross, FleetTypes

\* The steps of the fleet: calls, passes, and the world.
LEMMA FleetMoves ==
  ASSUME FleetNext
  PROVE  \/ Calls
         \/ \E p \in Passes : PassStep(p)
         \/ \E n \in Nodes : World(n)
BY DEF FleetNext, Calls, World

\* Every step keeps the types.
LEMMA TypesStep ==
  ASSUME MonitorTypes, FleetTypes, FleetNext
  PROVE  MonitorTypes' /\ FleetTypes'
BY FleetMoves, CallTypes, PassTypes, WorldTypes DEF World

\* Every step that makes passes overlap marks them as crossed.
LEMMA AloneStep ==
  ASSUME MonitorTypes, FleetTypes, PinnedUnsplit, OneAtATime, FleetNext
  PROVE  OneAtATime'
<1>1. CASE Calls
  <2>1. CallEffect
    BY <1>1, CallsDo
  <2>2. CASE NoStart
    BY <2>1, <2>2 DEF CallEffect, NoStart, OneAtATime
  <2>3. ASSUME NEW p \in Passes, NEW nodes \in SUBSET Nodes, NEW forced, NEW exp,
               NEW pinned, NEW then, Starts(p, nodes, forced, exp, pinned, then)
        PROVE  OneAtATime'
    <3>1. pass'[p].pc = "visit" /\ \A q \in Passes \ {p} : pass'[q] = pass[q]
      BY <2>3, RoundIs DEF Starts, FleetTypes
    <3> QED BY <2>1, <2>3, <3>1 DEF Starts, OneAtATime
  <2> QED BY <2>1, <2>2, <2>3 DEF CallEffect, SomeStart
<1>2. ASSUME NEW p \in Passes, PassStep(p) PROVE OneAtATime'
  BY <1>2, PassesDo DEF PassEffect, OneAtATime
<1>3. ASSUME NEW n \in Nodes, World(n) PROVE OneAtATime'
  BY <1>3, WorldDoes DEF OneAtATime
<1> QED BY <1>1, <1>2, <1>3, FleetMoves

\* Of two passes of an uncrossed fleet one is at rest.
LEMMA OthersRest ==
  ASSUME OneAtATime, ~crossed, NEW p \in Passes, pass[p].pc # "idle"
  PROVE  \A q \in Passes \ {p} : pass[q].pc = "idle"
BY DEF OneAtATime

\* No step leaves a blind push remembered that the body does not hold (note(),
\* and the _pushed that a reconnect replaces).
LEMMA CacheStep ==
  ASSUME MonitorTypes, FleetTypes, PinnedUnsplit, OneAtATime, CacheInv,
         BlindCacheHonest, FleetNext
  PROVE  CacheInv' /\ BlindCacheHonest'
<1> USE DEF CacheInv, BlindCacheHonest, Pushes
<1>1. CASE Calls
  <2>1. CallEffect
    BY <1>1, CallsDo
  <2>2. BlindCacheHonest'
    BY <2>1, FieldsAre DEF CallEffect
  <2>3. CASE NoStart
    BY <2>1, <2>2, <2>3 DEF CallEffect, NoStart
  <2>4. ASSUME NEW p \in Passes, NEW nodes \in SUBSET Nodes, NEW forced, NEW exp,
               NEW pinned, NEW then, Starts(p, nodes, forced, exp, pinned, then)
        PROVE  CacheInv'
    <3>1. pass'[p].pc = "visit" /\ \A q \in Passes \ {p} : pass'[q] = pass[q]
      BY <2>4, RoundIs DEF Starts, FleetTypes
    <3> QED BY <2>1, <3>1 DEF CallEffect
  <2> QED BY <2>1, <2>2, <2>3, <2>4 DEF CallEffect, SomeStart
<1>2. ASSUME NEW p \in Passes, PassStep(p) PROVE CacheInv' /\ BlindCacheHonest'
  <2>1. PassEffect(p)
    BY <1>2, PassesDo
  <2>2. ~crossed' => \A q \in Passes \ {p} : pass'[q].pc = "idle"
    BY <2>1, OthersRest DEF PassEffect
  <2>3. ASSUME NEW n \in Nodes,
               SkipUnconnected(p, n) \/ SkipHeld(p, n) \/ SkipPinned(p, n)
        PROVE  CacheInv' /\ BlindCacheHonest'
    <3>1. /\ UNCHANGED <<cache, body>> /\ pass' = Passed(p, n)
          /\ lapsed'.cache = lapsed.cache
      BY <2>3
         DEF SkipUnconnected, SkipHeld, SkipPinned, monitorVars, world,
         monitor, blind, history, FleetTypes
    <3>2. pass'[p].pc # "push"
      BY <3>1, OnwardRests DEF Passed, FleetTypes
    <3> QED BY <2>1, <2>2, <3>1, <3>2 DEF PassEffect
  <2>4. ASSUME NEW n \in Nodes, Begin(p, n)
        PROVE  CacheInv' /\ BlindCacheHonest'
    <3>1. /\ UNCHANGED <<body, crossed>> /\ p \in holders'[n]
          /\ pass'[p].at = n
          /\ \A m \in Nodes : cache'[m] \in {cache[m], None}
          /\ \A m \in Nodes : m \in lapsed.cache => m \in lapsed'.cache \/ cache'[m] = None
      BY <2>4 DEF Begin, MonitorTypes, FleetTypes, PassRec
    <3> QED BY <2>2, <3>1
  <2>5. ASSUME Push(p)
        PROVE  CacheInv' /\ BlindCacheHonest'
    <3> DEFINE n == pass[p].at
               f == First(pass[p].todo)
               ft == pass[p].want.ft
    <3>n. n \in Nodes /\ pass[p].want \in Vectors /\ f \in Fields
      BY <2>5, FieldsAre DEF Push, FleetTypes, PassRec, First
    <3>1. UNCHANGED <<holders, crossed, lapsed>> /\ Noted(p, n)
      BY <2>5 DEF Push, history
    <3>2. pass'[p].at = n /\ pass[p].pc = "push"
      BY <2>5, <3>1 DEF Push, Noted, FleetTypes, PassRec
    <3>3. cache' = IF f = "ft" /\ ~Readback /\ Takes(n) /\ p \in holders[n]
                   THEN [cache EXCEPT ![n] = ft] ELSE cache
      BY <3>1 DEF Noted
    <3>4. \A m \in Nodes : body'[m].ft = IF m = n /\ f = "ft" /\ Takes(n)
                                         THEN ft ELSE body[m].ft
      <4>1. CASE Takes(n)
        <5>1. body' = [body EXCEPT ![n][f] = pass[p].want[f]]
          BY <2>5, <4>1 DEF Push
        <5> QED BY <4>1, <5>1, <3>n, FieldsAre DEF MonitorTypes, Vectors
      <4>2. CASE ~Takes(n)
        BY <2>5, <4>2 DEF Push
      <4> QED BY <4>1, <4>2
    <3>5. CASE f = "ft" /\ Takes(n) /\ ~Readback /\ p \notin holders[n]
      BY <2>2, <3>n, <3>1, <3>2, <3>3, <3>4, <3>5
    <3>6. CASE ~(f = "ft" /\ Takes(n))
      <4>1. cache' = cache /\ \A m \in Nodes : body'[m].ft = body[m].ft
        BY <3>3, <3>4, <3>6
      <4> QED BY <2>2, <3>n, <3>1, <3>2, <4>1
    <3>7. CASE Readback
      <4>1. cache' = cache
        BY <3>3, <3>7
      <4> QED BY <2>2, <3>n, <3>1, <3>2, <3>7, <4>1
    <3>8. CASE f = "ft" /\ Takes(n) /\ ~Readback /\ p \in holders[n]
      <4>1. \A m \in Nodes : \/ cache'[m] = cache[m] /\ body'[m].ft = body[m].ft
                             \/ m = n /\ cache'[m] = ft /\ body'[m].ft = ft
        BY <3>3, <3>4, <3>8 DEF MonitorTypes
      <4> QED BY <2>2, <3>n, <3>1, <3>2, <3>8, <4>1
    <3> QED BY <3>5, <3>6, <3>7, <3>8
  <2>6. ASSUME PushNothing(p)
        PROVE  CacheInv' /\ BlindCacheHonest'
    <3>1. /\ UNCHANGED <<cache, holders, body, crossed, lapsed>>
          /\ pass'[p].at = pass[p].at /\ pass[p].pc = "push"
      BY <2>6
         DEF PushNothing, FleetTypes, PassRec, monitorVars, world, monitor,
         blind, history
    <3> QED BY <2>2, <3>1
  <2>7. ASSUME VerifyFails(p) \/ Verify(p)
        PROVE  CacheInv' /\ BlindCacheHonest'
    <3>1. UNCHANGED <<cache, body>> /\ lapsed'.cache = lapsed.cache
      BY <2>7 DEF VerifyFails, Verify, FleetTypes
    <3>2. pass'[p].pc # "push"
      BY <2>7, OnwardRests DEF VerifyFails, Verify, LeftNode, FleetTypes
    <3> QED BY <2>1, <2>2, <3>1, <3>2 DEF PassEffect
  <2> QED BY <1>2, <2>3, <2>4, <2>5, <2>6, <2>7 DEF PassStep
<1>3. ASSUME NEW n \in Nodes, World(n) PROVE CacheInv' /\ BlindCacheHonest'
  <2>1. pass' = pass /\ (crossed => crossed')
    BY <1>3, WorldDoes
  <2>2. CASE Disturbed(n) \/ Mended(n) \/ Serviced(n) \/ Released(n)
    <3>1. UNCHANGED <<cache, holders, body, lapsed>>
      BY <2>2
         DEF Disturbed, Mended, Serviced, Released, Drop, Stall, DrainClaim,
           DrainEnter, Return, Restart, Unstall, DrainEnd, monitor, blind, history
    <3> QED BY <2>1, <3>1
  <2>3. CASE PowerCycled(n)
    <3>1. /\ UNCHANGED <<cache, holders>> /\ lapsed'.cache = lapsed.cache \union {n}
          /\ \A m \in Nodes \ {n} : body'[m] = body[m]
      BY <2>3 DEF PowerCycled, Reset, monitor, blind, FleetTypes, MonitorTypes
    <3> QED BY <2>1, <3>1
  <2>4. CASE Polled(n)
    <3>1. /\ body' = body
          /\ \A m \in Nodes : \/ cache'[m] = None
                              \/ cache'[m] = cache[m] /\ holders'[m] = holders[m]
          /\ \A m \in Nodes : m \in lapsed.cache =>
                m \in lapsed'.cache \/ cache'[m] = None
      BY <2>4
         DEF Polled, Tick, Wait, Recover, Connect, Observe, MonitorTypes,
         FleetTypes
    <3> QED BY <2>1, <3>1
  <2> QED BY <1>3, <2>2, <2>3, <2>4 DEF World
<1> QED BY <1>1, <1>2, <1>3, FleetMoves

\* A pass goes on to the cameras it had left, or to the one a preview let go.
LEMMA OnwardUnsplit ==
  ASSUME FleetTypes, NEW q \in PassRec, q.pc # "idle",
         \A n \in Nodes : split'[n] \in {split[n], None},
         q.exp => \A n \in q.left : split[n] = None,
         q.then # None => split[q.then] = None
  PROVE  LET o == Onward(q)
         IN  o.pc # "idle" =>
                /\ o.exp => \A n \in o.left : split'[n] = None
                /\ o.then # None => split'[o.then] = None
<1>1. q.left \subseteq Nodes /\ q.then \in Nodes \union {None}
  BY DEF PassRec
<1>2. CASE Onward(q).pc = "idle"
  BY <1>2
<1>3. CASE /\ Onward(q).left = q.left /\ Onward(q).exp = q.exp
           /\ Onward(q).then = q.then
  BY <1>1, <1>3
<1>4. CASE /\ q.then # None /\ Onward(q).left = {q.then} /\ Onward(q).then = None
  BY <1>1, <1>4
<1> QED BY <1>2, <1>3, <1>4, OnwardIs

\* Exposure comes up for writing only where the split has ended: it was asked
\* for, is owed, follows a reconnect, or the tell is of a real reset.
LEMMA SplitEndsStep ==
  ASSUME MonitorTypes, FleetTypes, OneAtATime, SplitEnds, RosterInv,
         TellInv, FleetNext
  PROVE  SplitEnds'
<1>0. PinnedUnsplit
  BY DEF SplitEnds, PinnedUnsplit
<1> USE DEF SplitEnds, PinnedUnsplit
<1>1. CASE Calls
  <2>1. CallEffect
    BY <1>0, <1>1, CallsDo
  <2>2. PinnedUnsplit'
    BY <2>1, <1>0 DEF CallEffect, PinnedUnsplit, SplitGiven, FleetTypes
  <2>3. CASE NoStart
    <3>1. \A n \in Nodes : split'[n] \in {split[n], None}
                           \/ \A p \in Passes : pass[p].pc = "idle"
      BY <2>1 DEF CallEffect, SplitGiven
    <3> QED BY <2>1, <2>2, <2>3, <3>1
               DEF CallEffect, NoStart, PinnedUnsplit, FleetTypes, PassRec
  <2>4. ASSUME NEW p \in Passes, NEW nodes \in SUBSET Nodes,
               NEW forced \in BOOLEAN, NEW exp \in BOOLEAN,
               NEW pinned, NEW then \in Nodes \union {None},
               Starts(p, nodes, forced, exp, pinned, then), pass' # pass
        PROVE  SplitEnds'
    <3>1. /\ pass'[p].pc = "visit" /\ pass'[p].exp = exp /\ pass'[p].left = nodes
          /\ pass'[p].then = then
          /\ \A q \in Passes \ {p} : pass'[q] = pass[q]
      BY <2>4, RoundIs DEF Starts, FleetTypes
    <3>2. \A n \in Nodes : split'[n] \in {split[n], None}
      BY <2>1, <2>4 DEF CallEffect, SplitGiven, NoStart
    <3> QED BY <2>1, <2>2, <2>4, <3>1, <3>2
               DEF Starts, CallEffect, PinnedUnsplit, FleetTypes, PassRec
  <2>5. ASSUME pass' = pass, SomeStart PROVE SplitEnds'
    <3>1. PICK p \in Passes, nodes \in SUBSET Nodes, forced, exp \in BOOLEAN,
               pinned, then \in Nodes \union {None} :
                   Starts(p, nodes, forced, exp, pinned, then)
      BY <2>5 DEF SomeStart
    <3>2. pass'[p].pc = "visit" /\ pass[p].pc = "idle"
      BY <3>1, RoundIs DEF Starts, FleetTypes
    <3> QED BY <2>5, <3>2
  <2> QED BY <2>1, <2>3, <2>4, <2>5 DEF CallEffect, SomeStart
<1>2. ASSUME NEW p \in Passes, PassStep(p) PROVE SplitEnds'
  <2>1. PassEffect(p)
    BY <1>2, PassesDo
  <2>2. /\ \A n \in Nodes : split'[n] \in {split[n], None}
        /\ pin'.node # None => split'[pin'.node] = None
    BY <2>1 DEF PassEffect, FleetTypes
  <2>p. /\ pass[p] \in PassRec /\ pass[p].pc # "idle"
        /\ pass[p].exp => \A n \in pass[p].left : split[n] = None
        /\ pass[p].then # None => split[pass[p].then] = None
    BY <2>1 DEF PassEffect, FleetTypes
  <2>3. ASSUME /\ pass'[p].pc # "idle" =>
                    /\ pass'[p].exp => \A n \in pass'[p].left : split'[n] = None
                    /\ pass'[p].then # None => split'[pass'[p].then] = None
               /\ ~crossed' /\ pass'[p].pc = "push" /\ "iso" \in pass'[p].todo
                    => split'[pass'[p].at] = None
        PROVE  SplitEnds'
    <3>1. ASSUME NEW q \in Passes \ {p}, pass'[q].pc # "idle"
          PROVE  /\ pass'[q].exp => \A n \in pass'[q].left : split'[n] = None
                 /\ pass'[q].then # None => split'[pass'[q].then] = None
      <4>1. pass'[q] = pass[q] /\ pass[q] \in PassRec
        BY <2>1 DEF PassEffect, FleetTypes
      <4> QED BY <2>2, <3>1, <4>1 DEF PassRec
    <3>2. ~crossed' => \A q \in Passes \ {p} : pass'[q].pc = "idle"
      BY <2>1, OthersRest DEF PassEffect
    <3> QED BY <2>2, <2>3, <3>1, <3>2
  <2>4. ASSUME NEW n \in Nodes,
               SkipUnconnected(p, n) \/ SkipHeld(p, n) \/ SkipPinned(p, n)
        PROVE  SplitEnds'
    <3> DEFINE q == [pass[p] EXCEPT !.left = @ \ {n}]
    <3>1. /\ q \in PassRec /\ q.pc = pass[p].pc /\ q.exp = pass[p].exp
          /\ q.then = pass[p].then /\ q.left = pass[p].left \ {n}
      BY <2>p DEF PassRec
    <3>2. pass'[p] = Onward(q)
      BY <2>4 DEF SkipUnconnected, SkipHeld, SkipPinned, Passed, FleetTypes
    <3> HIDE DEF q
    <3>3. q.exp => \A m \in q.left : split[m] = None
      BY <2>p, <3>1
    <3>4. /\ Onward(q).pc # "push"
          /\ Onward(q).pc # "idle" =>
                /\ Onward(q).exp => \A m \in Onward(q).left : split'[m] = None
                /\ Onward(q).then # None => split'[Onward(q).then] = None
      BY <2>p, <2>2, <3>1, <3>3, OnwardUnsplit, OnwardRests
    <3> QED BY <2>3, <3>2, <3>4
  <2>5. ASSUME NEW n \in Nodes, Begin(p, n) PROVE SplitEnds'
    <3>1. /\ pass'[p].pc = "push" /\ pass'[p].at = n
          /\ pass'[p].exp = pass[p].exp /\ pass'[p].then = pass[p].then
          /\ pass'[p].left = pass[p].left \ {n} /\ pass'[p].todo = Todo(p, n)
      BY <2>5, <2>p DEF Begin, FleetTypes, PassRec
    <3>2. pass[p].left \subseteq Nodes /\ pass[p].then \in Nodes \union {None}
      BY <2>p DEF PassRec
    <3>3. ASSUME ~crossed', "iso" \in Todo(p, n) PROVE split'[n] = None
      <4>1. /\ n \in pass[p].left /\ Connected(n) /\ ~Unreachable(n)
            /\ pass[p].pc = "visit" /\ crossed' = crossed
        BY <2>5 DEF Begin, Visits
      <4>2. MayExpose(p, n)
        BY <3>3 DEF Todo
      <4>3. CASE pass[p].exp
        BY <4>1, <4>3, <2>p, <2>2
      <4>4. CASE force[n] \/ n \in owed
        BY <2>5, <4>4 DEF Begin, FleetTypes
      <4>5. CASE Reverted(p, n)
        <5>1. n \in lapsed.verdict
          <6>1. ~pass[p].forced /\ n \notin stale /\ n \notin skipped
            BY <4>5 DEF Reverted, Judged
          <6>2. ~InWork(n)
            BY <3>3, <4>1, <6>1, OthersRest DEF InWork, Pushes
          <6>3. seen[n].kind = "full"
            BY <4>1 DEF Connected, Unreachable, RosterInv
          <6> QED BY <3>3, <4>1, <4>5, <6>1, <6>2, <6>3
                     DEF TellInv, SeenMatches, Sure, Reverted
        <5> QED BY <2>5, <4>2, <5>1 DEF Begin, FleetTypes
      <4> QED BY <4>2, <4>3, <4>4, <4>5 DEF MayExpose
    <3> QED BY <2>2, <2>3, <2>p, <3>1, <3>2, <3>3
  <2>6. ASSUME Push(p) PROVE SplitEnds'
    <3>1. /\ pass'[p].exp = pass[p].exp /\ pass'[p].then = pass[p].then
          /\ pass'[p].left = pass[p].left /\ pass'[p].at = pass[p].at
          /\ pass'[p].todo \subseteq pass[p].todo /\ pass[p].pc = "push"
          /\ crossed' = crossed
      <4>1. crossed' = crossed /\ Noted(p, pass[p].at) /\ pass[p].pc = "push"
        BY <2>6 DEF Push, history
      <4> QED BY <4>1, <2>p DEF Noted, FleetTypes, PassRec
    <3> QED BY <2>2, <2>3, <2>p, <3>1 DEF PassRec
  <2>7. ASSUME PushNothing(p) PROVE SplitEnds'
    <3>1. /\ pass'[p].exp = pass[p].exp /\ pass'[p].then = pass[p].then
          /\ pass'[p].left = pass[p].left /\ pass'[p].todo = {}
      BY <2>7, <2>p DEF PushNothing, FleetTypes, PassRec
    <3> QED BY <2>2, <2>3, <2>p, <3>1 DEF PassRec
  <2>8. ASSUME VerifyFails(p) \/ Verify(p) PROVE SplitEnds'
    <3>1. pass'[p] = Onward(pass[p])
      BY <2>8 DEF VerifyFails, Verify, LeftNode, FleetTypes
    <3> QED BY <2>2, <2>3, <2>p, <3>1, OnwardUnsplit, OnwardRests
  <2> QED BY <1>2, <2>4, <2>5, <2>6, <2>7, <2>8 DEF PassStep
<1>3. ASSUME NEW n \in Nodes, World(n) PROVE SplitEnds'
  BY <1>3, WorldDoes DEF FleetTypes, PassRec
<1> QED BY <1>1, <1>2, <1>3, FleetMoves

\* The tell is sound: every step that may set a camera apart from the vector is
\* a write in progress, a reset, a miss, or a crossing.
LEMMA TellStep ==
  ASSUME MonitorTypes, FleetTypes, PinnedUnsplit, OneAtATime, TellInv, FleetNext
  PROVE  TellInv'
<1>1. CASE Calls
  <2>1. CallEffect
    BY <1>1, CallsDo
  <2>2. ASSUME \A f \in ReadFields : desired'[f] = desired[f],
               NEW n \in Nodes, Sure(n)
        PROVE  BodyMatches(n)' /\ SeenMatches(n)'
    <3>1. BodyMatches(n) /\ SeenMatches(n)
      BY <2>2 DEF TellInv
    <3> QED BY <2>1, <2>2, <3>1, FieldsAre
               DEF CallEffect, BodyMatches, SeenMatches
  <2>3. CASE NoStart
    <3>1. \A n \in Nodes : Sure(n)' => Sure(n)
      BY <2>1, <2>3 DEF CallEffect, NoStart, Sure, InWork, Pushes
    <3>2. ~crossed' => \A q \in Passes : JudgesWell(q)'
      BY <2>1, <2>3, FieldsAre
         DEF CallEffect, NoStart, TellInv, JudgesWell, FleetTypes, PassRec
    <3>3. \A q \in Passes : ForcedWrites(q)'
      BY <2>3 DEF NoStart, TellInv, ForcedWrites
    <3> QED BY <2>2, <2>3, <3>1, <3>2, <3>3 DEF TellInv, NoStart
  <2>4. ASSUME NEW p \in Passes, NEW nodes \in SUBSET Nodes,
               NEW forced \in BOOLEAN, NEW exp \in BOOLEAN,
               NEW pinned, NEW then \in Nodes \union {None},
               Starts(p, nodes, forced, exp, pinned, then)
        PROVE  TellInv'
    <3>1. /\ pass'[p].pc = "visit" /\ pass'[p].forced = forced
          /\ pass'[p].left = nodes /\ pass'[p].pinned = pinned
          /\ \A q \in Passes \ {p} : pass'[q] = pass[q]
      BY <2>4, RoundIs DEF Starts, FleetTypes
    <3>2. \A q \in Passes : ForcedWrites(q)'
      BY <3>1 DEF TellInv, ForcedWrites
    <3>3. ~crossed' => \A q \in Passes : JudgesWell(q)'
      BY <2>4, <3>1 DEF Starts, JudgesWell
    <3>4. ASSUME NEW n \in Nodes, Sure(n)'
          PROVE  BodyMatches(n)' /\ SeenMatches(n)'
      <4>1. ~(forced /\ nodes = Nodes /\ pinned = None)
        BY <3>1, <3>4, NodesAre DEF Sure, InWork
      <4>2. Sure(n)
        BY <2>1, <2>4, <3>4 DEF CallEffect, Starts, Sure, InWork, Pushes
      <4> QED BY <2>2, <2>4, <4>1, <4>2 DEF Starts
    <3> QED BY <3>2, <3>3, <3>4 DEF TellInv
  <2> QED BY <2>1, <2>3, <2>4 DEF CallEffect, SomeStart
<1>2. ASSUME NEW p \in Passes, PassStep(p) PROVE TellInv'
  <2>1. PassEffect(p)
    BY <1>2, PassesDo
  <2>2. ~crossed' => \A q \in Passes \ {p} : pass'[q] = pass[q] /\ pass[q].pc = "idle"
    BY <2>1, OthersRest DEF PassEffect
  <2>p. pass[p] \in PassRec /\ pass[p].pc # "idle"
    BY <2>1 DEF PassEffect, FleetTypes
  <2>3. ASSUME ForcedWrites(p)', ~crossed' => JudgesWell(p)',
               \A n \in Nodes : Sure(n)' => BodyMatches(n)' /\ SeenMatches(n)'
        PROVE  TellInv'
    <3>1. \A q \in Passes \ {p} : ForcedWrites(q)'
      BY <2>1 DEF PassEffect, TellInv, ForcedWrites
    <3>2. ~crossed' => \A q \in Passes \ {p} : JudgesWell(q)'
      BY <2>2 DEF JudgesWell
    <3> QED BY <2>3, <3>1, <3>2 DEF TellInv
  <2>4. ASSUME UNCHANGED <<body, seen, stale>>, NEW n \in Nodes, Sure(n)
        PROVE  BodyMatches(n)' /\ SeenMatches(n)'
    BY <2>1, <2>4 DEF PassEffect, TellInv, BodyMatches, SeenMatches
  <2>5. ASSUME NEW n \in Nodes,
               SkipUnconnected(p, n) \/ SkipHeld(p, n) \/ SkipPinned(p, n)
        PROVE  TellInv'
    <3> DEFINE q == [pass[p] EXCEPT !.left = @ \ {n}]
    <3>1. /\ q.forced = pass[p].forced /\ q.pinned = pass[p].pinned
          /\ q.left = pass[p].left \ {n}
      BY <2>p DEF PassRec
    <3>2. pass'[p] = Onward(q) /\ pass[p].pc = "visit"
      BY <2>5
         DEF SkipUnconnected, SkipHeld, SkipPinned, Passed, FleetTypes, Visits
    <3> HIDE DEF q
    <3>3. pass'[p].pc # "push"
      BY <3>2, OnwardRests
    <3>4. UNCHANGED <<body, seen, stale>>
      BY <2>5
         DEF SkipUnconnected, SkipHeld, SkipPinned, monitorVars, world,
         monitor, settings
    <3>5. /\ skipped \subseteq skipped' /\ lapsed.verdict \subseteq lapsed'.verdict
          /\ pass[p].forced /\ pass[p].pinned # n =>
                n \in skipped' \/ n \in lapsed'.verdict
      BY <2>5
         DEF SkipUnconnected, SkipHeld, SkipPinned, settings, history,
         FleetTypes
    <3>6. ASSUME NEW m \in Nodes, Sure(m)' PROVE Sure(m)
      <4>1. ~crossed' /\ ~crossed
        BY <2>1, <3>6 DEF Sure, PassEffect
      <4>2. ASSUME pass[p].forced, m \in pass[p].left, pass[p].pinned # m
            PROVE  FALSE
        <5>1. m # n
          BY <3>5, <3>6, <4>2 DEF Sure
        <5>2. /\ Onward(q).pc = "visit" /\ Onward(q).left = q.left
              /\ Onward(q).forced = q.forced /\ Onward(q).pinned = q.pinned
          <6>1. q.left # {}
            BY <3>1, <4>2, <5>1
          <6> QED BY <6>1, OnwardIs
        <5>3. pass'[p].pc = "visit" /\ pass'[p].forced /\ m \in pass'[p].left
              /\ pass'[p].pinned # m
          BY <3>1, <3>2, <4>2, <5>1, <5>2
        <5> QED BY <3>6, <5>3 DEF Sure, InWork
      <4>3. ~InWork(m)
        BY <2>2, <3>2, <4>1, <4>2 DEF InWork, Pushes
      <4> QED BY <3>5, <3>6, <4>1, <4>3 DEF Sure
    <3> QED BY <2>3, <2>4, <3>3, <3>4, <3>6 DEF ForcedWrites, JudgesWell
  <2>6. ASSUME NEW n \in Nodes, Begin(p, n) PROVE TellInv'
    <3>1. /\ pass'[p].pc = "push" /\ pass'[p].at = n
          /\ pass'[p].forced = pass[p].forced /\ pass'[p].pinned = pass[p].pinned
          /\ pass'[p].left = pass[p].left \ {n} /\ pass'[p].todo = Todo(p, n)
          /\ pass'[p].wrote = FALSE
      BY <2>6, <2>p DEF Begin, FleetTypes, PassRec
    <3>2. /\ UNCHANGED <<body, seen, stale, skipped, crossed>>
          /\ lapsed'.verdict = lapsed.verdict
          /\ pass[p].pc = "visit" /\ pass[p].pinned # n
      BY <2>6 DEF Begin, Visits, Fixed, settings, FleetTypes
    <3>3. ForcedWrites(p)'
      BY <3>1, FieldsAre DEF ForcedWrites, Todo
    <3>4. JudgesWell(p)'
      <4>1. ASSUME NEW f \in ReadFields, f \notin Todo(p, n), ~pass[p].forced
            PROVE  seen[n].val[f] = desired[f]
        BY <4>1, FieldsAre DEF Todo, ReadFields
      <4> QED BY <2>1, <3>1, <3>2, <4>1 DEF JudgesWell, PassEffect
    <3>5. ASSUME NEW m \in Nodes, Sure(m)' PROVE Sure(m)
      <4>1. ~(pass[p].forced /\ m \in pass[p].left /\ pass[p].pinned # m)
        BY <3>1, <3>5 DEF Sure, InWork, Pushes
      <4>2. ~crossed
        BY <3>2, <3>5 DEF Sure
      <4>3. ~InWork(m)
        BY <2>2, <3>2, <4>1, <4>2 DEF InWork, Pushes
      <4> QED BY <3>2, <3>5, <4>2, <4>3 DEF Sure
    <3> QED BY <2>3, <2>4, <3>2, <3>3, <3>4, <3>5
  <2>7. ASSUME Push(p) PROVE TellInv'
    <3> DEFINE n == pass[p].at
    <3>1. /\ Noted(p, n) /\ pass[p].pc = "push" /\ n \in Nodes
          /\ UNCHANGED <<seen, stale, skipped, lapsed, crossed>>
      BY <2>7, <2>p DEF Push, Fixed, settings, history, PassRec
    <3>2. /\ pass'[p].pc = "push" /\ pass'[p].at = n /\ pass'[p].wrote = TRUE
          /\ pass'[p].forced = pass[p].forced /\ pass'[p].pinned = pass[p].pinned
          /\ pass'[p].left = pass[p].left
      BY <3>1, <2>p DEF Noted, FleetTypes, PassRec
    <3>3. \A m \in Nodes \ {n} : body'[m] = body[m]
      BY <2>7 DEF Push, MonitorTypes
    <3>4. ASSUME NEW m \in Nodes, Sure(m)' PROVE m # n /\ Sure(m)
      <4>1. m # n
        BY <3>2, <3>4 DEF Sure, InWork, Pushes
      <4>2. ~(pass[p].forced /\ m \in pass[p].left /\ pass[p].pinned # m)
        BY <3>2, <3>4 DEF Sure, InWork
      <4>3. ~crossed
        BY <3>1, <3>4 DEF Sure
      <4>4. ~InWork(m)
        BY <2>2, <3>1, <4>1, <4>2, <4>3 DEF InWork, Pushes
      <4> QED BY <3>1, <3>4, <4>1, <4>3, <4>4 DEF Sure
    <3>5. ASSUME NEW m \in Nodes, Sure(m)' PROVE BodyMatches(m)' /\ SeenMatches(m)'
      <4>1. Sure(m) /\ body'[m] = body[m]
        BY <3>3, <3>4, <3>5
      <4> QED BY <2>1, <3>1, <4>1
                 DEF PassEffect, TellInv, BodyMatches, SeenMatches
    <3> QED BY <2>3, <3>2, <3>5 DEF ForcedWrites, JudgesWell
  <2>8. ASSUME PushNothing(p) PROVE TellInv'
    <3>1. /\ pass[p].pc = "push" /\ pass[p].todo = {"ft"} /\ ~Readback
          /\ UNCHANGED <<body, seen, stale, skipped, lapsed, crossed>>
      BY <2>8 DEF PushNothing, monitorVars, world, monitor, settings, history
    <3>2. /\ pass'[p].pc = "push" /\ pass'[p].at = pass[p].at
          /\ pass'[p].wrote = pass[p].wrote /\ pass'[p].todo = {}
          /\ pass'[p].forced = pass[p].forced /\ pass'[p].pinned = pass[p].pinned
          /\ pass'[p].left = pass[p].left
      BY <2>8, <2>p DEF PushNothing, FleetTypes, PassRec
    <3>3. ForcedWrites(p)'
      BY <3>1, <3>2 DEF TellInv, ForcedWrites
    <3>4. ~crossed' => JudgesWell(p)'
      <4>1. ReadFields = {"drv"}
        BY <3>1 DEF ReadFields
      <4> QED BY <2>1, <3>1, <3>2, <4>1 DEF TellInv, JudgesWell, PassEffect
    <3>5. ASSUME NEW m \in Nodes, Sure(m)' PROVE Sure(m)
      <4>1. /\ ~(pass[p].forced /\ m \in pass[p].left /\ pass[p].pinned # m)
            /\ ~(pass[p].at = m /\ (pass[p].forced \/ pass[p].wrote))
        BY <3>2, <3>5 DEF Sure, InWork, Pushes
      <4>2. ~crossed
        BY <3>1, <3>5 DEF Sure
      <4>3. ~InWork(m)
        BY <2>2, <3>1, <4>1, <4>2 DEF InWork, Pushes
      <4> QED BY <3>1, <3>5, <4>2, <4>3 DEF Sure
    <3> QED BY <2>3, <2>4, <3>1, <3>3, <3>4, <3>5
  <2>9. ASSUME VerifyFails(p) PROVE TellInv'
    <3>1. /\ UNCHANGED <<body, seen, stale, skipped, lapsed>>
          /\ pass[p].pc = "push"
          /\ ~crossed' => ~crossed /\ ~pass[p].wrote /\ ~pass[p].forced
      BY <2>9 DEF VerifyFails, Verifies, Fixed, settings
    <3>2. pass'[p].pc # "push"
      BY <2>9, OnwardRests DEF VerifyFails, LeftNode, FleetTypes
    <3>3. ASSUME NEW m \in Nodes, Sure(m)' PROVE Sure(m)
      <4>1. ~crossed' /\ ~InWork(m)
        BY <2>2, <3>1, <3>3 DEF Sure, InWork, Pushes
      <4> QED BY <3>1, <3>3, <4>1 DEF Sure
    <3> QED BY <2>3, <2>4, <3>1, <3>2, <3>3 DEF ForcedWrites, JudgesWell
  <2>10. ASSUME Verify(p) PROVE TellInv'
    <3>n. PICK n \in Nodes : n = pass[p].at
      BY <2>10, <2>p DEF Verify, Verifies, PassRec
    <3>1. /\ UNCHANGED <<body, seen>> /\ pass[p].pc = "push"
          /\ pass[p].todo = {} /\ skipped' = skipped \ {n}
          /\ ~crossed' => ~crossed /\ Takes(n)
          /\ stale' = IF pass[p].wrote THEN stale \union {n} ELSE stale
      BY <2>10, <3>n DEF Verify, Verifies, Fixed
    <3>2. pass'[p] = Onward(pass[p]) /\ pass'[p].pc # "push"
      BY <2>10, OnwardRests DEF Verify, LeftNode, FleetTypes
    <3>3. /\ \A m \in Nodes \ {n} : m \in lapsed.verdict => m \in lapsed'.verdict
          /\ n \notin lapsed'.verdict => Diverged(p, n) \intersect ReadFields = {}
      BY <2>10, <3>n DEF Verify, FleetTypes
    <3>4. ASSUME NEW m \in Nodes \ {n}, Sure(m)'
          PROVE  BodyMatches(m)' /\ SeenMatches(m)'
      <4>1. ~crossed' /\ ~crossed
        BY <3>1, <3>4 DEF Sure
      <4>2. ASSUME pass[p].forced, m \in pass[p].left, pass[p].pinned # m
            PROVE  FALSE
        <5>1. /\ Onward(pass[p]).pc = "visit" /\ Onward(pass[p]).left = pass[p].left
              /\ Onward(pass[p]).forced = pass[p].forced
              /\ Onward(pass[p]).pinned = pass[p].pinned
          BY <4>2, OnwardIs
        <5> QED BY <3>2, <3>4, <4>2, <5>1 DEF Sure, InWork
      <4>3. ~InWork(m)
        BY <2>2, <3>n, <3>1, <4>1, <4>2 DEF InWork, Pushes
      <4>4. Sure(m)
        BY <3>1, <3>3, <3>4, <4>1, <4>3 DEF Sure
      <4>5. m \notin stale' => m \notin stale
        BY <3>1
      <4> QED BY <2>1, <3>1, <4>4, <4>5
                 DEF PassEffect, TellInv, BodyMatches, SeenMatches
    <3>5. ASSUME Sure(n)' PROVE BodyMatches(n)' /\ SeenMatches(n)'
      <4>1. ~crossed' /\ ~crossed /\ Takes(n)
        BY <3>1, <3>5 DEF Sure
      <4>2. pass[p].want = desired
        BY <3>1, <4>1 DEF OneAtATime
      <4>3. \A f \in ReadFields : body[n][f] = desired[f]
        <5>1. Diverged(p, n) \intersect ReadFields = {}
          BY <3>3, <3>5 DEF Sure
        <5>2. Status(n).val = body[n] /\ box[n] = "ready"
          BY <4>1 DEF Status, Takes
        <5> QED BY <4>2, <5>1, <5>2 DEF Diverged
      <4>4. BodyMatches(n)'
        BY <2>1, <3>1, <4>3 DEF BodyMatches, PassEffect
      <4>5. ASSUME n \notin stale', seen[n].kind = "full", NEW f \in ReadFields
            PROVE  seen[n].val[f] = desired[f]
        <5>1. n \notin stale /\ ~pass[p].wrote
          BY <3>1, <4>5
        <5>2. ~pass[p].forced
          BY <3>1, <5>1 DEF TellInv, ForcedWrites
        <5> QED BY <3>n, <3>1, <4>1, <4>3, <4>5, <5>1, <5>2
                   DEF TellInv, JudgesWell
      <4> QED BY <2>1, <3>1, <4>4, <4>5 DEF SeenMatches, PassEffect
    <3> QED BY <2>3, <3>n, <3>2, <3>4, <3>5 DEF ForcedWrites, JudgesWell
  <2> QED BY <1>2, <2>5, <2>6, <2>7, <2>8, <2>9, <2>10 DEF PassStep
<1>3. ASSUME NEW n \in Nodes, World(n) PROVE TellInv'
  <2>1. UNCHANGED <<pass, desired, skipped>> /\ (crossed => crossed')
    BY <1>3, WorldDoes
  <2>2. \A q \in Passes : ForcedWrites(q)'
    BY <2>1 DEF TellInv, ForcedWrites
  <2>3. CASE Disturbed(n) \/ Mended(n) \/ Serviced(n) \/ Released(n)
    <3>1. UNCHANGED <<seen, body, lapsed, stale>>
      BY <2>3
         DEF Disturbed, Mended, Serviced, Released, Drop, Stall, DrainClaim,
           DrainEnter, Return, Restart, Unstall, DrainEnd, monitor, settings, history
    <3>2. \A m \in Nodes : Sure(m)' => Sure(m)
      BY <2>1, <3>1 DEF Sure, InWork, Pushes
    <3> QED BY <2>1, <2>2, <3>1, <3>2
               DEF TellInv, BodyMatches, SeenMatches, JudgesWell
  <2>4. CASE PowerCycled(n)
    <3>1. /\ UNCHANGED <<seen, stale>> /\ lapsed'.verdict = lapsed.verdict \union {n}
          /\ \A m \in Nodes \ {n} : body'[m] = body[m]
          /\ ~crossed' => \A q \in Passes : pass[q].pc = "idle"
      BY <2>4
         DEF PowerCycled, Reset, monitor, settings, FleetTypes, MonitorTypes,
         Cross, InFlight
    <3>2. \A m \in Nodes : Sure(m)' => Sure(m) /\ m # n
      BY <2>1, <3>1 DEF Sure, InWork, Pushes
    <3>3. ~crossed' => \A q \in Passes : JudgesWell(q)'
      BY <2>1, <3>1 DEF JudgesWell
    <3> QED BY <2>1, <2>2, <3>1, <3>2, <3>3
               DEF TellInv, BodyMatches, SeenMatches
  <2>5. CASE Polled(n)
    <3>1. /\ body' = body /\ lapsed'.verdict = lapsed.verdict /\ crossed' = crossed
          /\ seen' = [seen EXCEPT ![n] = Status(n)]
          /\ stale' = IF Answers(n) THEN stale \ {n} ELSE stale
      BY <2>5 DEF Polled, Tick, Wait, Recover, Connect, Observe, FleetTypes
    <3>2. \A m \in Nodes : Sure(m)' => Sure(m)
      BY <2>1, <3>1 DEF Sure, InWork, Pushes
    <3>3. /\ seen'[n].kind = "full" => seen'[n].val = body[n]
          /\ \A m \in Nodes \ {n} : seen'[m] = seen[m] /\ (m \in stale' <=> m \in stale)
      BY <3>1 DEF Status, MonitorTypes
    <3>4. ASSUME NEW m \in Nodes, Sure(m)' PROVE BodyMatches(m)' /\ SeenMatches(m)'
      <4>1. BodyMatches(m) /\ SeenMatches(m)
        BY <3>2, <3>4 DEF TellInv
      <4>2. CASE m = n
        BY <2>1, <3>1, <3>3, <4>1, <4>2 DEF BodyMatches, SeenMatches
      <4>3. CASE m # n
        BY <2>1, <3>1, <3>3, <4>1, <4>3 DEF BodyMatches, SeenMatches
      <4> QED BY <4>2, <4>3
    <3>5. ASSUME ~crossed', NEW q \in Passes PROVE JudgesWell(q)'
      <4>1. JudgesWell(q)
        BY <3>1, <3>5 DEF TellInv
      <4>2. CASE pass[q].at = n
        BY <2>1, <3>1, <3>3, <4>2 DEF JudgesWell
      <4>3. CASE pass[q].at # n
        BY <2>1, <3>1, <3>3, <4>1, <4>3 DEF JudgesWell, FleetTypes, PassRec
      <4> QED BY <4>2, <4>3
    <3> QED BY <2>2, <3>4, <3>5 DEF TellInv
  <2> QED BY <1>3, <2>3, <2>4, <2>5 DEF World
<1> QED BY <1>1, <1>2, <1>3, FleetMoves

\* Only a poll touches what the roster rests on.
LEMMA RosterKept ==
  ASSUME MonitorTypes, RosterInv, FleetNext
  PROVE  RosterInv'
<1>1. ASSUME UNCHANGED <<state, busyFor, unproven, seen>> PROVE RosterInv'
  BY <1>1 DEF RosterInv
<1>2. CASE Calls
  BY <1>1, <1>2 DEF Calls, Tweak, Preview, Apply, Bump, Kick, Commit, Discard,
     Expire, LoopStart, Fixed, monitorVars, monitor
<1>3. ASSUME NEW p \in Passes, PassStep(p) PROVE RosterInv'
  BY <1>1, <1>3
     DEF PassStep, SkipUnconnected, SkipHeld, SkipPinned, Begin, Push,
     PushNothing, VerifyFails, Verify, Fixed, monitorVars, monitor
<1>4. ASSUME NEW n \in Nodes, World(n) PROVE RosterInv'
  <2>1. CASE Polled(n)
    BY <2>1, RosterStep DEF Polled
  <2>2. CASE ~Polled(n)
    BY <1>1, <1>4, <2>2
       DEF World, Disturbed, Mended, Serviced, Released, PowerCycled, Drop,
       Stall, DrainClaim, DrainEnter, Return, Restart, Unstall, DrainEnd, Reset, monitor
  <2> QED BY <2>1, <2>2
<1> QED BY <1>2, <1>3, <1>4, FleetMoves

\* No step changes the exposure of a camera that has a split.
LEMMA SplitStep ==
  ASSUME MonitorTypes, FleetTypes, PinnedUnsplit, SplitEnds, SplitSurvives,
         FleetNext
  PROVE  SplitSurvives'
<1>1. CASE Calls
  <2>1. CallEffect
    BY <1>1, CallsDo
  <2> SUFFICES ASSUME NEW n \in Nodes, split'[n] # None, ~crossed'
               PROVE  body'[n].iso = split'[n]
    BY DEF SplitSurvives
  <2>2. CASE SplitGiven(n)
    BY <2>2 DEF SplitGiven
  <2>3. CASE split'[n] = split[n] /\ body'[n] = body[n]
    BY <2>1, <2>3 DEF CallEffect, SplitSurvives
  <2> QED BY <2>1, <2>2, <2>3 DEF CallEffect
<1>2. ASSUME NEW p \in Passes, PassStep(p) PROVE SplitSurvives'
  <2>1. /\ crossed => crossed'
        /\ \A n \in Nodes : split'[n] \in {split[n], None}
    BY <1>2, PassesDo DEF PassEffect
  <2>2. CASE Push(p)
    <3> DEFINE f == First(pass[p].todo)
    <3>1. /\ pass[p].pc = "push" /\ f \in Fields /\ pass[p].at \in Nodes
          /\ f = "iso" => "iso" \in pass[p].todo
      BY <2>2, FieldsAre DEF Push, First, FleetTypes, PassRec
    <3>2. CASE f = "iso"
      <4>1. \A m \in Nodes : m = pass[p].at \/ body'[m] = body[m]
        BY <2>2, <3>2 DEF Push, MonitorTypes
      <4>2. ~crossed => split[pass[p].at] = None
        BY <3>1, <3>2 DEF SplitEnds
      <4> QED BY <2>1, <4>1, <4>2 DEF SplitSurvives
    <3>3. CASE f # "iso"
      <4>1. \A m \in Nodes : body'[m].iso = body[m].iso
        BY <2>2, <3>1, <3>3, FieldsAre DEF Push, MonitorTypes, Vectors
      <4> QED BY <2>1, <4>1 DEF SplitSurvives
    <3> QED BY <3>2, <3>3
  <2>3. CASE ~Push(p)
    <3>1. body' = body
      BY <1>2, <2>3 DEF PassStep, SkipUnconnected, SkipHeld, SkipPinned, Begin,
         PushNothing, VerifyFails, Verify, monitorVars, world
    <3> QED BY <2>1, <3>1 DEF SplitSurvives
  <2> QED BY <2>2, <2>3
<1>3. ASSUME NEW n \in Nodes, World(n) PROVE SplitSurvives'
  <2>1. /\ crossed => crossed'
        /\ \A m \in Nodes : split'[m] \in {split[m], None}
    BY <1>3, WorldDoes
  <2>2. \A m \in Nodes : body'[m] = body[m] \/ split'[m] = None
    <3>1. CASE PowerCycled(n)
      BY <3>1 DEF PowerCycled, Reset, MonitorTypes, FleetTypes
    <3>2. CASE Polled(n)
      BY <3>2 DEF Polled, Tick, Wait, Recover, Connect, Observe
    <3>3. CASE Disturbed(n) \/ Mended(n) \/ Serviced(n) \/ Released(n)
      BY <3>3
         DEF Disturbed, Mended, Serviced, Released, Drop, Stall, DrainClaim,
         DrainEnter, Return, Restart, Unstall, DrainEnd
    <3> QED BY <1>3, <3>1, <3>2, <3>3 DEF World
  <2> QED BY <2>1, <2>2 DEF SplitSurvives
<1> QED BY <1>1, <1>2, <1>3, FleetMoves

-----------------------------------------------------------------------------
\* The types hold when the fleet has settled.
LEMMA InitTypes ==
  ASSUME FleetInit
  PROVE  MonitorTypes /\ FleetTypes
<1>1. Settled \in Vectors
  BY MonitorAssumption, FieldsAre DEF Settled, Vectors
<1>2. MonitorTypes
  <2>1. body \in [Nodes -> Vectors]
    BY <1>1 DEF FleetInit, MonitorInit
  <2>2. \A n \in Nodes : Status(n) = [kind |-> "full", mode |-> "remote", val |-> body[n]]
    BY DEF FleetInit, MonitorInit, Status
  <2>3. seen \in [Nodes -> [kind : {"gone", "noilx", "idle", "busy", "full"},
                            mode : {"remote", "transfer", "unknown"},
                            val : Vectors]]
    BY <2>1, <2>2 DEF FleetInit, MonitorInit
  <2> QED BY <2>1, <2>3 DEF FleetInit, MonitorInit, MonitorTypes, Settings
<1>3. FleetTypes
  BY <1>1, IdleType DEF FleetInit, FleetTypes, NoPin, Settings
<1> QED BY <1>2, <1>3

\* So does the invariant.
LEMMA InitInv == FleetInit => FleetInv
<1> SUFFICES ASSUME FleetInit PROVE FleetInv
  OBVIOUS
<1>1. MonitorTypes /\ FleetTypes
  BY InitTypes
<1>2. \A p \in Passes : pass[p].pc = "idle"
  BY DEF FleetInit, Idle
<1>3. RosterInv
  <2>1. \A n \in Nodes : seen[n].kind = "full"
    BY DEF FleetInit, MonitorInit, Status
  <2> QED BY <2>1, MonitorAssumption DEF FleetInit, MonitorInit, RosterInv
<1>4. OneAtATime
  BY <1>2 DEF OneAtATime
<1>5. CacheInv /\ BlindCacheHonest
  BY <1>2 DEF CacheInv, BlindCacheHonest, Pushes, FleetInit, MonitorInit
<1>6. SplitEnds /\ SplitSurvives
  BY <1>2 DEF SplitEnds, PinnedUnsplit, SplitSurvives, FleetInit, NoPin
<1>7. TellInv
  <2>1. \A p \in Passes : ForcedWrites(p) /\ JudgesWell(p)
    BY <1>2 DEF ForcedWrites, JudgesWell
  <2>2. \A n \in Nodes : body[n] = desired /\ seen[n].val = desired
    BY DEF FleetInit, MonitorInit, Status
  <2> QED BY <2>1, <2>2 DEF TellInv, BodyMatches, SeenMatches
<1> QED BY <1>1, <1>3, <1>4, <1>5, <1>6, <1>7 DEF FleetInv

\* A step of something else keeps it.
LEMMA StutterInv == FleetInv /\ UNCHANGED fleetVars => FleetInv'
<1> SUFFICES ASSUME FleetInv, UNCHANGED fleetVars PROVE FleetInv'
  OBVIOUS
<1> USE DEF FleetInv, fleetVars, monitorVars, world, monitor, gates, blind,
            settings, history
<1>1. MonitorTypes' /\ FleetTypes'
  BY DEF MonitorTypes, FleetTypes
<1>2. RosterInv' /\ OneAtATime' /\ CacheInv' /\ SplitEnds'
  BY DEF RosterInv, OneAtATime, CacheInv, SplitEnds, PinnedUnsplit, Pushes
<1>3. BlindCacheHonest' /\ SplitSurvives'
  BY DEF BlindCacheHonest, SplitSurvives
<1>4. TellInv'
  BY DEF TellInv, ForcedWrites, JudgesWell, Sure, InWork, Pushes, BodyMatches,
         SeenMatches
<1> QED BY <1>1, <1>2, <1>3, <1>4

\* The invariant holds in every reachable state of the fleet.
THEOREM FleetInductive == FleetSpec => []FleetInv
<1>1. FleetInit => FleetInv
  BY InitInv
<1>2. FleetInv /\ [FleetNext]_fleetVars => FleetInv'
  <2> SUFFICES ASSUME FleetInv, [FleetNext]_fleetVars PROVE FleetInv'
    OBVIOUS
  <2>1. CASE FleetNext
    <3>1. PinnedUnsplit
      BY DEF FleetInv, SplitEnds, PinnedUnsplit
    <3> QED BY <2>1, <3>1, TypesStep, RosterKept, AloneStep, CacheStep,
               SplitEndsStep, TellStep, SplitStep DEF FleetInv
  <2>2. CASE UNCHANGED fleetVars
    BY <2>2, StutterInv
  <2> QED BY <2>1, <2>2
<1> QED BY <1>1, <1>2, PTL DEF FleetSpec

\* A camera outside a drain is in the roster only if one of its last BusyHold
\* statuses showed it able to shoot, and what the cache of blind pushes says a
\* body holds, it holds (_tick, note()).
THEOREM CachesTrue == FleetSpec => []CachesAreTrue
<1>1. FleetInv => CachesAreTrue
  BY MonitorAssumption
     DEF FleetInv, CachesAreTrue, RosterIsTrue, RosterInv, MonitorTypes
<1> QED BY <1>1, FleetInductive, PTL

\* An exposure given to one camera stays until exposure is asked for, the camera
\* reconnects or its body resets, as long as passes do not cross
\* (reconcile_all).
THEOREM SplitsSurvive == FleetSpec => []SplitSurvives
<1>1. FleetInv => SplitSurvives
  BY DEF FleetInv
<1> QED BY <1>1, FleetInductive, PTL
=============================================================================
