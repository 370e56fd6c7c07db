---------------------------- MODULE AnomalyScan ----------------------------
(***************************************************************************)
(* The alarms of the rig (rig/rigd.py, Anomalies.scan).                    *)
(*                                                                         *)
(* Every 2.5 seconds, and whenever a browser asks, all that is known of    *)
(* the nodes, the navigation, the run and the clocks is turned into a set  *)
(* of alarms; one that was not in the set before is journalled.  Three     *)
(* things are remembered between scans: that set, since when a card write  *)
(* is in progress, and for how many scans two clocks have disagreed.       *)
(***************************************************************************)
EXTENDS Integers, Sequences, FiniteSets

CONSTANTS
    Watched,       \* the nodes present
    Signs,         \* what the rig, or a node's last answers, may show
    Scanners,      \* threads that scan: the loop and HTTP handlers
    Stuck,         \* SLOT_WRITING_STUCK_S in ticks
    SkewScans,     \* CLOCK_SKEW_SCANS
    MaxChanges     \* bound: what happens to the rig

NobodyScans == "nobody"

ASSUME AnomalyScanAssumption ==
    /\ IsFiniteSet(Watched) /\ IsFiniteSet(Scanners)
    /\ NobodyScans \notin Scanners
    /\ Signs \subseteq {"hot", "writing", "blind", "busy", "diverged", "taken",
                        "nocard", "flat", "undervolt", "rebooted", "lowdisk",
                        "imustall", "date", "spool", "jitter", "pulls",
                        "preview", "full"}
    /\ Stuck \in Nat /\ SkewScans \in Nat \ {0} /\ MaxChanges \in Nat

VARIABLES
    linkState,      \* node -> OFFLINE, REACHABLE, ILX_DOWN or CONNECTED
    shows,          \* node, or the rig -> its signs; a node's are of its last
                    \* good status and health
    switchedOff,    \* nodes whose camera the operator switched off
    nav,            \* the position: live, static or none, or a dark gateway
    recording,      \* no run, a run, or a run whose capture is paused
    clock,          \* node -> what its offset estimate says of its clock
    writingSince,   \* _writing_since: node -> ticks a write is known for
    streak,         \* _skew_streak
    last,           \* _last
    lockedBy,       \* _lock
    found,          \* the alarms of the scan at work
    journal,        \* events emitted: alarm -> how often
    changes,        \* what is left of the bound
    truth           \* history: appearances, and what the last scans saw

alarmVars == <<linkState, shows, switchedOff, nav, recording, clock,
               writingSince, streak, last, lockedBy, found, journal, changes,
               truth>>

NotWriting == 0 - 1
TheRig == "rig"
Pairs == {p \in SUBSET Watched : Cardinality(p) = 2}

AlarmInit ==
    /\ linkState = [n \in Watched |-> "CONNECTED"]
    /\ shows = [n \in Watched \cup {TheRig} |-> {}]
    /\ switchedOff = {}
    /\ nav = "live" /\ recording \in {"no", "yes"}
    /\ clock = [n \in Watched |-> "good"]
    /\ writingSince = [n \in Watched |-> NotWriting]
    /\ streak = [p \in Pairs |-> 0]
    /\ last = {} /\ found = {} /\ lockedBy = NobodyScans
    /\ journal = [alarm \in {} |-> 0]
    /\ changes = MaxChanges
    /\ truth = [appeared |-> [alarm \in {} |-> 0], over |-> <<>>,
                quiet |-> [n \in Watched |-> 0]]

Counted(f, keys) == [k \in DOMAIN f \cup keys |->
                        (IF k \in DOMAIN f THEN f[k] ELSE 0)
                            + (IF k \in keys THEN 1 ELSE 0)]

-----------------------------------------------------------------------------
(***************************************************************************)
(* The rig, as a scan finds it.  A node that goes away keeps the status it *)
(* showed last.                                                            *)
(***************************************************************************)
Scanner == <<writingSince, streak, last, lockedBy, found, journal, truth>>
Change == changes > 0 /\ changes' = changes - 1 /\ UNCHANGED Scanner

LinkChanges(n) ==
    /\ Change
    /\ \E to \in {"OFFLINE", "REACHABLE", "ILX_DOWN", "CONNECTED"} :
         linkState' = [linkState EXCEPT ![n] = to]
    /\ UNCHANGED <<shows, switchedOff, nav, recording, clock>>

SignChanges(n) ==
    /\ Change
    /\ n # TheRig => linkState[n] # "OFFLINE"
    /\ \E sign \in Signs :
         shows' = [shows EXCEPT ![n] = IF sign \in @ THEN @ \ {sign}
                                       ELSE @ \cup {sign}]
    /\ UNCHANGED <<linkState, switchedOff, nav, recording, clock>>

Switch(n) ==
    /\ Change
    /\ switchedOff' = IF n \in switchedOff THEN switchedOff \ {n}
                      ELSE switchedOff \cup {n}
    /\ UNCHANGED <<linkState, shows, nav, recording, clock>>

\* good; off by more than HOST_CLOCK_WARN_S and less than twice that (all that
\* are off are so by the same); off by seconds; or behind a link too slow to
\* tell.
ClockChanges(n) ==
    /\ Change
    /\ \E to \in {"good", "off", "wrong", "slow"} :
         clock' = [clock EXCEPT ![n] = to]
    /\ UNCHANGED <<linkState, shows, switchedOff, nav, recording>>

NavChanges ==
    /\ Change /\ nav' \in {"live", "static", "nofix", "dark"}
    /\ UNCHANGED <<linkState, shows, switchedOff, recording, clock>>

RunChanges ==
    /\ Change /\ recording' \in {"no", "yes", "paused"}
    /\ UNCHANGED <<linkState, shows, switchedOff, nav, clock>>

Upwards(k) == IF k <= Stuck THEN k + 1 ELSE k
AlarmTick ==
    /\ lockedBy = NobodyScans
    /\ writingSince' = [n \in Watched |-> IF writingSince[n] = NotWriting
                                          THEN NotWriting
                                          ELSE Upwards(writingSince[n])]
    /\ truth' = [truth EXCEPT !.quiet = [n \in Watched |-> Upwards(@[n])]]
    /\ UNCHANGED <<linkState, shows, switchedOff, nav, recording, clock,
                   changes, streak, last, lockedBy, found, journal>>

-----------------------------------------------------------------------------
(***************************************************************************)
(* One scan: the nodes.                                                    *)
(***************************************************************************)
HasCamera(n) == n \notin switchedOff
Answers(n) == linkState[n] = "CONNECTED"
Shown(n, signs) == {s[2] : s \in {s \in signs : s[1] \in shows[n]}}

\* What the body says of itself counts while it answers, and never of a camera
\* that is switched off.  An empty property table is an alarm unless the body
\* is busy or being drained, and hides the divergence of its fields.
BodyAlarms(n) ==
    CASE linkState[n] = "REACHABLE" -> {"camera_absent"}
      [] linkState[n] = "ILX_DOWN" -> {"ilx_down"}
      [] OTHER ->
           Shown(n, {<<"nocard", "card_missing">>, <<"hot", "camera_overheating">>,
                     <<"taken", "pc_control_lost">>, <<"flat", "battery_low">>})
           \cup IF "busy" \in shows[n] THEN {}
                ELSE IF "blind" \in shows[n] THEN {"body_locked"}
                ELSE Shown(n, {<<"diverged", "settings_divergent">>})

\* Of the camera, not of what it answers now: its date, and a spool that does
\* not drain during a run.
CameraAlarms(n) ==
    IF ~HasCamera(n) THEN {}
    ELSE BodyAlarms(n) \cup Shown(n, {<<"date", "camera_clock_wrong">>})
         \cup IF recording = "no" THEN {}
              ELSE Shown(n, {<<"spool", "spool_not_draining">>})

\* The box below it is watched all the same.
BoxAlarms(n) == Shown(n, {<<"undervolt", "node_undervoltage">>,
                          <<"rebooted", "node_rebooted">>,
                          <<"lowdisk", "disk_low">>, <<"imustall", "imu_stall">>})

\* Since when a write is in progress; a node that is offline is passed over
\* before this is looked at.
Writes(n) == HasCamera(n) /\ Answers(n) /\ "writing" \in shows[n]
Since(n) == IF linkState[n] = "OFFLINE" THEN writingSince[n]
            ELSE IF ~Writes(n) THEN NotWriting
            ELSE IF writingSince[n] = NotWriting THEN 0 ELSE writingSince[n]

NodeAlarms(n) ==
    IF linkState[n] = "OFFLINE" THEN {"node_offline"}
    ELSE CameraAlarms(n) \cup BoxAlarms(n)
         \cup {a \in {"card_write_stuck"} : Writes(n) /\ Since(n) > Stuck}

-----------------------------------------------------------------------------
(***************************************************************************)
(* The navigation, the run and the clocks.                                 *)
(***************************************************************************)
\* A run without a position is said first, a dark gateway next.
NavAlarms ==
    IF recording # "no" /\ nav \in {"nofix", "dark"} THEN {"nav_no_fix"}
    ELSE IF nav \in {"dark", "static"} THEN {"nav_gateway_down"}
    ELSE {a \in {"nav_no_fix"} : nav = "nofix"}

RunAlarms == {a \in {"capture_paused"} : recording = "paused"}
\* What the run counts for a node is told whatever the node's state.
StatAlarms(n) == IF recording = "no" THEN {}
                 ELSE Shown(n, {<<"jitter", "jitter_high">>,
                                <<"pulls", "pull_fail">>})
HeldAlarms == Shown(TheRig, {<<"preview", "preview_pinned">>})
HostDiskAlarms == Shown(TheRig, {<<"full", "runs_disk_low">>})

\* A clock that is seconds off, or cannot be measured, is its own alarm and is
\* not compared.
Clocked(n) == linkState[n] # "OFFLINE" /\ clock[n] \in {"good", "off"}
OwnClockAlarms(n) ==
    {a[2] : a \in {a \in {<<"wrong", "node_clock_wrong">>,
                          <<"slow", "node_clock_unmeasurable">>} :
                      linkState[n] # "OFFLINE" /\ clock[n] = a[1]}}

\* Two that are compared and disagree: an alarm when it lasts.
Disagree(p) == /\ \A n \in p : Clocked(n)
               /\ \E n, m \in p : clock[n] # clock[m]
SkewStreak(p) == IF ~Disagree(p) THEN 0
                 ELSE IF streak[p] < SkewScans THEN streak[p] + 1
                 ELSE streak[p]
SkewAlarms == {a \in {"node_clock_skew"} :
                 \E p \in Pairs : Disagree(p) /\ SkewStreak(p) >= SkewScans}

\* The host is told from the median of the clocks that are compared.
HostAlarms == {a \in {"host_clock_offset"} :
                 /\ \E n \in Watched : Clocked(n)
                 /\ \A n \in Watched : Clocked(n) => clock[n] = "off"}

Alarms ==
    (UNION {{<<a, n>> : a \in NodeAlarms(n) \cup StatAlarms(n)
                                  \cup OwnClockAlarms(n)} : n \in Watched})
        \cup {<<a, TheRig>> : a \in NavAlarms \cup RunAlarms \cup HeldAlarms
                           \cup SkewAlarms \cup HostAlarms \cup HostDiskAlarms}

-----------------------------------------------------------------------------
(***************************************************************************)
(* scan(): under one lock, since what is new is told from the last scan.   *)
(***************************************************************************)
MutantUnlocked(t) == lockedBy # t
FreeToScan(t) == lockedBy = NobodyScans

Recent(s) == IF Len(s) > SkewScans THEN Tail(s) ELSE s
BeginScan(t) ==
    /\ FreeToScan(t)
    /\ lockedBy' = t
    /\ found' = Alarms
    /\ writingSince' = [n \in Watched |-> Since(n)]
    /\ streak' = [p \in Pairs |-> SkewStreak(p)]
    /\ journal' = Counted(journal, Alarms \ last)
    /\ truth' = [truth EXCEPT
                    !.over = Recent(Append(@, {p \in Pairs : Disagree(p)})),
                    !.quiet = [n \in Watched |->
                                 IF Writes(n) \/ linkState[n] = "OFFLINE"
                                 THEN @[n] ELSE 0]]
    /\ UNCHANGED <<linkState, shows, switchedOff, nav, recording, clock,
                   changes, last>>

EndScan(t) ==
    /\ lockedBy = t
    /\ lockedBy' = NobodyScans
    /\ last' = found /\ found' = {}
    /\ truth' = [truth EXCEPT !.appeared = Counted(@, found \ last)]
    /\ UNCHANGED <<linkState, shows, switchedOff, nav, recording, clock,
                   changes, writingSince, streak, journal>>

AlarmNext ==
    \/ \E n \in Watched : \/ Switch(n) \/ LinkChanges(n) \/ ClockChanges(n)
    \/ \E n \in Watched \cup {TheRig} : SignChanges(n)
    \/ NavChanges \/ RunChanges \/ AlarmTick
    \/ \E t \in Scanners : BeginScan(t) \/ EndScan(t)

AlarmSpec == AlarmInit /\ [][AlarmNext]_alarmVars

-----------------------------------------------------------------------------
(***************************************************************************)
(* Properties.                                                             *)
(***************************************************************************)
\* A fault is journalled once each time it appears, however many scans are
\* asked for at the same moment (what the one lock is for).
EachFaultOnce == lockedBy = NobodyScans => journal = truth.appeared

\* Two clocks are said to disagree only when the same two did in each of the
\* last SkewScans scans, with no scan between in which they agreed or one of
\* them could not be compared.
SkewIsPersistent ==
    (lockedBy = NobodyScans /\ <<"node_clock_skew", TheRig>> \in last) =>
        \E p \in Pairs : \A k \in 0..(SkewScans - 1) :
            p \in truth.over[Len(truth.over) - k]

\* A card write is said to be stuck only when no scan for that long found the
\* camera there and not writing, and then a power loss is not what it is: the
\* node is not also reported offline.
StuckIsHeld ==
    \A n \in Watched :
        (lockedBy = NobodyScans /\ <<"card_write_stuck", n>> \in last) =>
            /\ truth.quiet[n] > Stuck
            /\ <<"node_offline", n>> \notin last

\* What the operator is told by the alarms is told once, and of something
\* that lasts.
ScanIsHonest == EachFaultOnce /\ SkewIsPersistent /\ StuckIsHeld
=============================================================================
