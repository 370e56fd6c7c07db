----------------------------- MODULE PullWorker -----------------------------
(***************************************************************************)
(* One camera's pull worker for the life of one run (rig/run.py, class     *)
(* PullWorker) and the node it pulls from.                                 *)
(*                                                                         *)
(* The capture loop queues one fire command per shot; the body delivers    *)
(* the exposure's files to the node's spool some time later; the worker    *)
(* lists the spool, lets every new file claim a command, downloads it,     *)
(* decides which fire it really belongs to, writes it on the host, deletes *)
(* the spool copy and releases the claim.  Nothing on the wire ties a file *)
(* to a command: the whole difficulty is keeping the two in step.          *)
(*                                                                         *)
(* A command is its shot number and its target instant is Period * shot    *)
(* (instants are counted finely enough to tell them apart within a shot    *)
(* period), so the target-ordered list `_cmds` is a set whose head is its  *)
(* minimum.  A file name is <<stem, ext>>; the stem is the camera's own    *)
(* frame number, which rolls over.                                         *)
(***************************************************************************)
EXTENDS Integers, FiniteSets, FiniteSetsExt

CONSTANTS
    MaxShot,        \* survey shots the capture loop fires
    Period,         \* instants from one shot to the next
    Presses,        \* instants the body's own exposures may fall on
    MaxFlight,      \* shots that may be in flight at once
    MaxExp,         \* exposures of the body, the ones before the run included
    NStems,         \* camera numbers before the body's numbering rolls over
    Formats,        \* files one exposure delivers, {"jpg"} or {"arw", "jpg"}
    OldExp,         \* exposures already on the node before the run
    AwayExp,        \* exposures of this run taken before this worker existed
    Adopted,        \* TRUE: the worker joined a run that was already going
    Remembered,     \* TRUE: rigd listed this node before the run (known_frames)
    Checkable,      \* TRUE: the body's EXIF offset is calibrated
    Tol,            \* _claim_tolerance, in instants
    MaxAttempts,    \* MAX_ATTEMPTS pulls of one file
    MaxWalks,       \* commands one frame may walk off the queue (range(4))
    MaxStrikes,     \* frames that may disagree before _plaus_off (5)
    QueueCap,       \* queued commands kept (256)
    CmdMaxAge,      \* CMD_MAX_AGE_S, in clock ticks
    SiblingWindow,  \* RAW_SIBLING_WINDOW_S, in clock ticks
    MaxClock,       \* bound on the clock
    MaxGap,         \* ticks that may pass between two listings
    BaselineTries,  \* BASELINE_TRIES listings before a baseline counts as late
    LostFrames,     \* TRUE: a fire that answered ok may deliver no file
    LostAnswers,    \* TRUE: a fire that exposed may be reported as failed
    LostDeletes,    \* TRUE: a spool delete may take effect, its answer lost
    BodyShutter,    \* TRUE: the body also exposes on its own
    Calibrations,   \* calibration exposures fired on this node during the run
    EarlyFire       \* TRUE: shots may be fired before the baseline is taken

ASSUME PullAssumption ==
    /\ MaxShot \in Nat /\ Period \in Nat \ {0} /\ Presses \subseteq Nat
    /\ MaxFlight \in Nat \ {0}
    /\ MaxExp \in Nat /\ NStems \in Nat \ {0}
    /\ Formats \subseteq {"arw", "jpg"}
    /\ OldExp \in Nat /\ AwayExp \in Nat /\ OldExp + AwayExp <= MaxExp
    /\ {Adopted, Remembered, Checkable, LostFrames, LostAnswers,
        LostDeletes, BodyShutter, EarlyFire} \subseteq BOOLEAN
    /\ Tol \in Nat /\ MaxAttempts \in Nat \ {0} /\ MaxWalks \in Nat
    /\ MaxStrikes \in Nat /\ QueueCap \in Nat \ {0} /\ CmdMaxAge \in Nat
    /\ SiblingWindow \in Nat /\ MaxClock \in Nat /\ MaxGap \in Nat
    /\ BaselineTries \in Nat \ {0} /\ Calibrations \in Nat

VARIABLES
    \* ---- the capture loop, the body and the node ----
    fires,      \* per shot: "idle", "sent", "exposed", "ok" or "failed"
    issued,     \* per shot: the clock when its command was queued
    expo,       \* per exposure: the shot it belongs to, its instant, its kind
    nexp,       \* exposures so far
    landing,    \* files of taken exposures that are not in the spool yet
    spool,      \* per file name: the exposure in the spool, or NoExp
    clock,      \* coarse wall clock
    gap,        \* ticks since the last listing
    calib,      \* the calibration pass on this node
    quiet,      \* calibration_quiet()
    calNames,   \* _cal_names: files a calibration fire has named as its own
    stopev,     \* the worker has been told to stop
    \* ---- the worker, under the names of the source ----
    cmds, cmd_epoch, stem_cmd, stem_dest, precmd, gone, seen, recent,
    pending,    \* files listed and not dealt with
    attempts,   \* per pending file: failed pulls
    cap,        \* per pending file: its cached capture instant
    fresh,      \* new files of the current listing, not claimed for yet
    todo,       \* files the current poll still has to handle
    job,        \* the file in hand: its data, its base name, its command
    strikes, plaus_off,
    late, tries, phase,
    \* ---- what the run records ----
    rows,       \* flight_log rows
    host,       \* files written into the run directory
    orphaned,   \* per shot: times it was counted in `orphans`
    unpulled    \* exposures' files recorded in unpulled.jsonl

bodyVars  == <<issued, expo, nexp, landing, spool>>
nodeVars  == <<fires, bodyVars>>
timeVars  == <<clock, gap>>
calVars   == <<calib, quiet, calNames>>
claimVars == <<cmds, cmd_epoch, stem_cmd>>
keepVars  == <<precmd, gone, seen, recent>>
pullVars  == <<pending, attempts, cap>>
plausVars == <<strikes, plaus_off>>
startVars == <<late, tries>>
logVars   == <<rows, host, unpulled>>
\* What only the worker's own thread writes, the claim ledger aside.
ownVars   == <<stem_dest, keepVars, pullVars, fresh, todo, job, plausVars,
               startVars, phase, logVars, orphaned>>
envVars   == <<nodeVars, timeVars, calVars, stopev>>
vars      == <<envVars, claimVars, ownVars>>

-----------------------------------------------------------------------------
Shots == 1..MaxShot
Exps  == 1..MaxExp
Stems == 1..NStems
Exts  == {"arw", "jpg"}
Names == Stems \X Exts

NoCmd  == 0
NoExp  == 0
NoName == <<0, "none">>
NoCap  == [cmd |-> NoCmd, src |-> "none"]
NoDest == [exp |-> NoExp, at |-> 0]
Job(n, e, base, cmd) == [name |-> n, exp |-> e, base |-> base, cmd |-> cmd,
                         walks |-> 0, struck |-> FALSE]
NoJob  == Job(NoName, NoExp, NoExp, NoCmd)
NoCal  == [state |-> "none", left |-> Calibrations, names |-> {}]

StemOf(n) == n[1]
ExtOf(n) == n[2]

\* The camera number exposure e is stored under; numbering rolls over.
StemOfExp(e) == ((e - 1) % NStems) + 1
FilesOf(e) == {<<StemOfExp(e), x>> : x \in Formats}

Epoch(shot) == Period * shot

Listed == {n \in Names : spool[n] # NoExp}

\* The listing is taken in name order, where ".ARW" sorts before ".JPG"; the
\* handling order puts the JPEG of a release first.
Before(m, n, ext) ==
    \/ StemOf(m) < StemOf(n)
    \/ StemOf(m) = StemOf(n) /\ (ExtOf(m) = ext \/ m = n)
FirstOf(S, ext) == CHOOSE n \in S : \A m \in S : Before(n, m, ext)
NextListed(S) == FirstOf(S, "arw")
NextHandled(S) == FirstOf(S, "jpg")

-----------------------------------------------------------------------------
(***************************************************************************)
(* The claim ledger: _claim, _release_claim and the queue.                 *)
(***************************************************************************)

\* Seeded faults of SiblingWritten.
MutantSiblingForgotten(st) == FALSE
MutantSiblingForEver(st) == stem_dest[st].exp # NoExp

\* The release was already written and its name is still claimable.
SiblingWritten(st) ==
    /\ stem_dest[st].exp # NoExp
    /\ clock - stem_dest[st].at <= SiblingWindow

\* A seeded fault of Claimed.
MutantClaimNewest(n) ==
    IF cmd_epoch[n] # NoCmd THEN cmd_epoch[n]
    ELSE IF n \in precmd THEN NoCmd
    ELSE IF stem_cmd[StemOf(n)] # NoCmd THEN stem_cmd[StemOf(n)]
    ELSE IF SiblingWritten(StemOf(n)) \/ cmds = {} THEN NoCmd
    ELSE Max(cmds)

\* The command file n would be given now, NoCmd for none.
Claimed(n) ==
    IF cmd_epoch[n] # NoCmd THEN cmd_epoch[n]
    ELSE IF n \in precmd THEN NoCmd
    ELSE IF stem_cmd[StemOf(n)] # NoCmd THEN stem_cmd[StemOf(n)]
    ELSE IF SiblingWritten(StemOf(n)) \/ cmds = {} THEN NoCmd
    ELSE Min(cmds)

Claim(n) ==
    LET c == Claimed(n) IN
    IF c = NoCmd THEN UNCHANGED claimVars
    ELSE /\ cmd_epoch' = [cmd_epoch EXCEPT ![n] = c]
         /\ stem_cmd' = [stem_cmd EXCEPT ![StemOf(n)] = c]
         /\ cmds' = cmds \ {c}

SiblingHolds(n) ==
    \E m \in Names : m # n /\ StemOf(m) = StemOf(n) /\ cmd_epoch[m] # NoCmd

\* One file lets go; the last file of the release releases its command.
ReleaseFile(n, requeue) ==
    LET last == cmd_epoch[n] # NoCmd /\ ~SiblingHolds(n) IN
    /\ cmd_epoch' = [cmd_epoch EXCEPT ![n] = NoCmd]
    /\ stem_cmd' = IF last THEN [stem_cmd EXCEPT ![StemOf(n)] = NoCmd]
                           ELSE stem_cmd
    /\ cmds' = IF last /\ requeue THEN cmds \union {cmd_epoch[n]} ELSE cmds

\* A seeded fault of ReleaseStem.
MutantStemKeepsClaim(n, requeue) ==
    LET st == StemOf(n)
        rec == IF cmd_epoch[n] # NoCmd THEN cmd_epoch[n] ELSE stem_cmd[st] IN
    /\ cmd_epoch' = [m \in Names |-> IF StemOf(m) = st THEN NoCmd
                                     ELSE cmd_epoch[m]]
    /\ UNCHANGED stem_cmd
    /\ cmds' = IF requeue /\ rec # NoCmd THEN cmds \union {rec} ELSE cmds

\* A verdict about the exposure: every file of the release lets go together.
ReleaseStem(n, requeue) ==
    LET st == StemOf(n)
        rec == IF cmd_epoch[n] # NoCmd THEN cmd_epoch[n] ELSE stem_cmd[st] IN
    /\ cmd_epoch' = [m \in Names |-> IF StemOf(m) = st THEN NoCmd
                                     ELSE cmd_epoch[m]]
    /\ stem_cmd' = [stem_cmd EXCEPT ![st] = NoCmd]
    /\ cmds' = IF requeue /\ rec # NoCmd THEN cmds \union {rec} ELSE cmds

CountOrphans(S) == [s \in Shots |-> orphaned[s] + IF s \in S THEN 1 ELSE 0]

-----------------------------------------------------------------------------
(***************************************************************************)
(* The capture loop, as far as this camera sees it.  Every shot has a      *)
(* thread of its own: its command is queued before it is dispatched, and   *)
(* up to MaxFlight shots wait for their answers at once, which may take    *)
(* two seconds to fail and come in any order.                              *)
(***************************************************************************)
Settled(s) == fires[s] \in {"ok", "failed"}
NoShotInFlight == \A s \in Shots : fires[s] = "idle" \/ Settled(s)

NoteCommand(s) ==
    /\ fires[s] = "idle" /\ ~stopev
    /\ \A r \in 1..(s - 1) : fires[r] # "idle"
    /\ \A r \in 1..(s - MaxFlight) : Settled(r)
    /\ EarlyFire \/ phase # "baseline"
    /\ calib.state = "none"
    /\ fires' = [fires EXCEPT ![s] = "sent"]
    /\ issued' = [issued EXCEPT ![s] = clock]
    /\ LET queued == cmds \union {s} IN
       cmds' = IF Cardinality(queued) > QueueCap
               THEN queued \ {Min(queued)} ELSE queued
    /\ UNCHANGED <<expo, nexp, landing, spool, timeVars, calVars,
                   stopev, cmd_epoch, stem_cmd, ownVars>>

\* The body exposes: its files will land in the spool under the next number.
\* Numbers come round again long after the names they share are off the spool,
\* seen to be off it, and out of the sibling window.
Expose(shot, at, kind) ==
    /\ nexp < MaxExp
    /\ \A e \in 1..nexp : expo[e].at < at
    /\ \A n \in FilesOf(nexp + 1) : spool[n] = NoExp
    /\ \A f \in landing : f.name \notin FilesOf(nexp + 1)
    /\ FilesOf(nexp + 1) \intersect gone = {}
    /\ LET last == stem_dest[StemOfExp(nexp + 1)] IN
       last.exp # NoExp => clock - last.at > SiblingWindow
    /\ nexp' = nexp + 1
    /\ expo' = [expo EXCEPT ![nexp + 1] =
                    [shot |-> shot, at |-> at, kind |-> kind]]
    /\ landing' = landing \union
                    {[exp |-> nexp + 1, name |-> n] : n \in FilesOf(nexp + 1)}
    /\ UNCHANGED <<issued, spool, timeVars, stopev, claimVars,
                   ownVars>>

\* The shutter may go off at this instant: a fire that answered ok is over,
\* one that is not queued yet is still to come.
MayFallAt(t) == \A s \in Shots : /\ fires[s] = "ok" => Epoch(s) < t
                                 /\ fires[s] = "idle" => t < Epoch(s)

FireExposes(s) ==
    /\ fires[s] = "sent" /\ MayFallAt(Epoch(s))
    /\ fires' = [fires EXCEPT ![s] = "exposed"]
    /\ Expose(s, Epoch(s), "survey")
    /\ UNCHANGED calVars

\* The node answered ok; with LostFrames the body may have kept its frame.
FireOk(s) ==
    /\ fires[s] = "exposed" \/ (LostFrames /\ fires[s] = "sent")
    /\ fires' = [fires EXCEPT ![s] = "ok"]
    /\ UNCHANGED <<bodyVars, timeVars, calVars, stopev, claimVars,
                   ownVars>>

\* The node refused, or its answer was lost: drop_command().
FireFails(s) ==
    /\ fires[s] = "sent" \/ (LostAnswers /\ fires[s] = "exposed")
    /\ fires' = [fires EXCEPT ![s] = "failed"]
    /\ cmds' = cmds \ {s}
    /\ UNCHANGED <<bodyVars, timeVars, calVars, stopev, cmd_epoch,
                   stem_cmd, ownVars>>

\* A press on the body, or its own Interval REC, at any instant: before or
\* after a fire and as close to it as may be, shots in flight or not.
BodyExposes(t) ==
    /\ BodyShutter /\ ~stopev /\ calib.state = "none"
    /\ phase # "baseline"     \* before it: one of the OldExp
    /\ MayFallAt(t)
    /\ Expose(NoCmd, t, "survey")
    /\ UNCHANGED <<fires, calVars>>

\* The body stores the files of one kind in the order it exposed them; a RAW
\* half may land long after its JPEG.
Land(f) ==
    /\ \A g \in landing : ExtOf(g.name) = ExtOf(f.name) => f.exp <= g.exp
    /\ landing' = landing \ {f}
    /\ spool' = [spool EXCEPT ![f.name] = f.exp]
    /\ UNCHANGED <<fires, issued, expo, nexp, timeVars, calVars,
                   stopev, claimVars, ownVars>>

\* A tick is about CMD_MAX_AGE_S.  JPEGs land within a second, so no tick
\* passes while one is landing.  Outages and downloads keep the worker from
\* listing its node for at most MaxGap ticks.
Tick ==
    /\ clock < MaxClock
    /\ \A f \in landing : ExtOf(f.name) # "jpg"
    /\ gap < MaxGap
    /\ clock' = clock + 1
    /\ gap' = gap + 1
    /\ UNCHANGED <<nodeVars, calVars, stopev, claimVars, ownVars>>

\* RunManager.stop(): no fire can start any more, then w.stop().
StopWorker ==
    /\ ~stopev /\ NoShotInFlight
    /\ stopev' = TRUE
    /\ UNCHANGED <<nodeVars, timeVars, calVars, claimVars, ownVars>>

-----------------------------------------------------------------------------
(***************************************************************************)
(* A calibration pass on this node: hold the puller off, list the spool,   *)
(* fire, and name whatever is new afterwards as the fire's own.  No pass   *)
(* fires while the capture grid is live, so no shot is in flight.          *)
(***************************************************************************)

\* Seeded faults of CalBegin.
MutantCalNoBefore ==
    /\ calib.state = "none" /\ calib.left > 0 /\ ~stopev
    /\ NoShotInFlight /\ landing = {}
    /\ calib' = [state |-> "fire", left |-> calib.left - 1, names |-> {}]
    /\ quiet' = TRUE
    /\ UNCHANGED <<nodeVars, timeVars, calNames, stopev, claimVars, ownVars>>
MutantCalNotQuiet ==
    /\ calib.state = "none" /\ calib.left > 0 /\ ~stopev
    /\ NoShotInFlight /\ landing = {}
    /\ calib' = [state |-> "fire", left |-> calib.left - 1, names |-> Listed]
    /\ UNCHANGED <<nodeVars, timeVars, quiet, calNames, stopev, claimVars,
                   ownVars>>

CalBegin ==
    /\ calib.state = "none" /\ calib.left > 0 /\ ~stopev
    /\ NoShotInFlight /\ landing = {}
    /\ calib' = [state |-> "fire", left |-> calib.left - 1, names |-> Listed]
    /\ quiet' = TRUE
    /\ UNCHANGED <<nodeVars, timeVars, calNames, stopev, claimVars, ownVars>>

CalFire(t) ==
    /\ calib.state = "fire" /\ MayFallAt(t)
    /\ calib' = [calib EXCEPT !.state = "wait"]
    /\ Expose(NoCmd, t, "calibration")
    /\ UNCHANGED <<fires, quiet, calNames>>

\* What note_calibration_frames() takes for this fire's own: new since the
\* `before` listing, not in the worker's recent_names(), one release only.
CalNew ==
    LET new == Listed \ (calib.names \union pending \union recent) IN
    {n \in new : StemOf(n) = StemOf(NextListed(new))}

CalSees ==
    /\ calib.state = "wait" /\ CalNew # {}
    /\ calib' = [calib EXCEPT !.state = "named", !.names = CalNew]
    /\ UNCHANGED <<nodeVars, timeVars, quiet, calNames, stopev, claimVars,
                   ownVars>>

\* The names are noted and the quiet ends; a pass whose shutter is refused, or
\* whose run was stopped, gives up.
CalEnds ==
    /\ \/ /\ calib.state = "named"
          /\ calNames' = calNames \union calib.names
       \/ /\ calib.state = "fire" \/ (calib.state = "wait" /\ stopev)
          /\ UNCHANGED calNames
    /\ calib' = [calib EXCEPT !.state = "none", !.names = {}]
    /\ quiet' = FALSE
    /\ UNCHANGED <<nodeVars, timeVars, stopev, claimVars, ownVars>>

-----------------------------------------------------------------------------
(***************************************************************************)
(* The worker: baseline, poll, list, handle.                               *)
(***************************************************************************)

\* Names rigd knew on this node before this worker listed it.
KnownFrames == IF Remembered THEN UNION {FilesOf(e) : e \in 1..OldExp} ELSE {}

\* Seeded faults of BaselineTaken.
MutantBaselineEmpty ==
    /\ phase = "baseline" /\ ~stopev
    /\ phase' = "idle"
    /\ UNCHANGED <<envVars, claimVars, stem_dest, keepVars, pullVars, fresh,
                   todo, job, plausVars, startVars, logVars, orphaned>>
MutantBaselineClaims ==
    /\ phase = "baseline" /\ ~stopev
    /\ seen' = seen \union IF Remembered THEN KnownFrames ELSE Listed
    /\ phase' = "idle"
    /\ UNCHANGED <<envVars, claimVars, stem_dest, precmd, gone, recent,
                   pullVars, fresh, todo, job, plausVars, startVars, logVars,
                   orphaned>>

BaselineTaken ==
    /\ phase = "baseline" /\ ~stopev
    /\ LET backlog == IF (Adopted \/ late) /\ Remembered
                      THEN Listed \ KnownFrames ELSE {} IN
       /\ seen' = seen \union (Listed \ backlog)
       /\ precmd' = IF Adopted /\ ~late THEN backlog ELSE precmd
    /\ phase' = "idle"
    /\ UNCHANGED <<envVars, claimVars, stem_dest, gone, recent, pullVars,
                   fresh, todo, job, plausVars, startVars, logVars, orphaned>>

BaselineFails ==
    /\ phase = "baseline" /\ ~stopev /\ ~late
    /\ tries' = tries + 1
    /\ late' = (tries' = BaselineTries)
    /\ UNCHANGED <<envVars, claimVars, stem_dest, keepVars, pullVars, fresh,
                   todo, job, plausVars, phase, logVars, orphaned>>

\* A worker stopped before its baseline leaves nothing behind.
BaselineStopped ==
    /\ phase = "baseline" /\ stopev
    /\ phase' = "exit"
    /\ UNCHANGED <<envVars, claimVars, stem_dest, keepVars, pullVars, fresh,
                   todo, job, plausVars, startVars, logVars, orphaned>>

\* _expire_commands(), at the top of every poll of a connected node: queued
\* commands too old for a frame to be coming are dropped from the head.
Expired == {s \in cmds : clock - issued[s] > CmdMaxAge}

\* The node is connected and its listing fails: nothing else happens.  (A
\* poll of a node that is not connected does nothing at all.)
PollUnanswered ==
    /\ phase = "idle" /\ ~stopev
    /\ cmds' = cmds \ Expired
    /\ orphaned' = CountOrphans(Expired)
    /\ UNCHANGED <<envVars, cmd_epoch, stem_cmd, stem_dest, keepVars, pullVars,
                   fresh, todo, job, plausVars, startVars, phase, logVars>>

Resting(left) == IF left = {} THEN "idle" ELSE "handle"

\* A stop that falls between the wait and the listing is the same as one right
\* after it, for no file of this poll is handled then.
\* `held` are the pending files whose next_try has not come: a failed pull
\* backs off, a RAW half gives its JPEG a listing of grace.
PollLists(held) ==
    /\ phase = "idle" /\ ~stopev
    /\ cmds' = cmds \ Expired
    /\ orphaned' = CountOrphans(Expired)
    /\ gap' = 0
    /\ gone' = gone \intersect Listed
    /\ seen' = seen \ (gone \ Listed)
    /\ fresh' = IF quiet THEN {} ELSE Listed \ (seen' \union pending)
    /\ todo' = (pending \ held) \union {n \in fresh' : ExtOf(n) = "jpg"}
    /\ phase' = IF fresh' # {} THEN "list" ELSE Resting(todo')
    /\ UNCHANGED <<nodeVars, clock, calVars, stopev, cmd_epoch, stem_cmd,
                   stem_dest, precmd, recent, pullVars, job, plausVars,
                   startVars, logVars>>

Backoff == {n \in pending : attempts[n] > 0 \/ ExtOf(n) = "arw"}

\* Every new file takes its claim when it is first listed, in name order.
ListNext ==
    /\ phase = "list" /\ fresh # {}
    /\ LET n == NextListed(fresh) IN
       /\ Claim(n)
       /\ pending' = pending \union {n}
       /\ attempts' = [attempts EXCEPT ![n] = 0]
       /\ cap' = [cap EXCEPT ![n] = NoCap]
       /\ fresh' = fresh \ {n}
       /\ phase' = IF fresh' # {} THEN "list" ELSE Resting(todo)
    /\ UNCHANGED <<envVars, stem_dest, keepVars, todo, job, plausVars,
                   startVars, logVars, orphaned>>

\* The file in hand is dealt with: pulled, discarded or given up on.
Finished(n) ==
    /\ seen' = seen \union {n}
    /\ recent' = recent \union {n}
    /\ precmd' = precmd \ {n}
    /\ pending' = pending \ {n}
    /\ attempts' = [attempts EXCEPT ![n] = 0]
    /\ cap' = [cap EXCEPT ![n] = NoCap]

NextFile == NextHandled(todo)

CanHandle == phase = "handle" /\ ~stopev

\* A calibration exposure is not survey data; a command it claimed is handed
\* back, for it belongs to a survey frame still to come.
DiscardCalibration ==
    /\ CanHandle /\ NextFile \in calNames
    /\ ReleaseFile(NextFile, TRUE)
    /\ Finished(NextFile)
    /\ todo' = todo \ {NextFile}
    /\ phase' = Resting(todo')
    /\ UNCHANGED <<envVars, stem_dest, gone, fresh, job, plausVars, startVars,
                   logVars, orphaned>>

MutantFailsForEver(n) ==
    UNCHANGED <<claimVars, precmd, seen, recent, pending, attempts, unpulled,
                orphaned, cap>>

\* A download, size, content or write failure: retry later, or give up loudly.
Failed(n) ==
    IF attempts[n] + 1 < MaxAttempts
    THEN /\ attempts' = [attempts EXCEPT ![n] = @ + 1]
         /\ UNCHANGED <<claimVars, precmd, seen, recent, pending, unpulled,
                        orphaned>>
    ELSE /\ Finished(n)
         /\ ReleaseFile(n, FALSE)
         /\ orphaned' = CountOrphans({cmd_epoch[n]})
         /\ unpulled' = unpulled \union {[exp |-> spool[n], ext |-> ExtOf(n)]}

DownloadFails ==
    /\ CanHandle /\ NextFile \notin calNames
    /\ Failed(NextFile)
    /\ IF attempts[NextFile] + 1 < MaxAttempts THEN UNCHANGED cap ELSE TRUE
    /\ todo' = todo \ {NextFile}
    /\ phase' = Resting(todo')
    /\ UNCHANGED <<envVars, stem_dest, gone, fresh, job, plausVars, startVars,
                   rows, host>>

\* A complete file: a sibling of a release already written takes its name and
\* resolves nothing, a cached instant is used again, any other is resolved.
Downloaded ==
    /\ CanHandle /\ NextFile \notin calNames
    /\ LET n == NextFile
           sib == IF SiblingWritten(StemOf(n)) THEN stem_dest[StemOf(n)].exp
                  ELSE NoExp IN
       /\ spool[n] # NoExp
       /\ todo' = todo \ {n}
       /\ IF sib # NoExp \/ cap[n] # NoCap
          THEN /\ job' = Job(n, spool[n], sib, NoCmd)
               /\ phase' = "write"
               /\ UNCHANGED claimVars
          ELSE /\ job' = Job(n, spool[n], NoExp, Claimed(n))
               /\ phase' = "resolve"
               /\ Claim(n)
    /\ UNCHANGED <<envVars, stem_dest, keepVars, pullVars, fresh, plausVars,
                   startVars, logVars, orphaned>>

-----------------------------------------------------------------------------
(***************************************************************************)
(* _capture_instant: the frame's own EXIF against the command it claimed.  *)
(* A frame "owns" its command when the row is stamped from that fire (its  *)
(* EXPOSURE edge, else its target instant); otherwise it is dated from its *)
(* own evidence.                                                           *)
(***************************************************************************)
Delta == Epoch(job.cmd) - expo[job.exp].at

\* The loop of _capture_instant runs again.
Checking == /\ phase = "resolve" /\ job.cmd # NoCmd /\ ~plaus_off
            /\ job.walks < MaxWalks

Decide(cmd, src) ==
    /\ cap' = [cap EXCEPT ![job.name] = [cmd |-> cmd, src |-> src]]
    /\ phase' = "write"
    /\ UNCHANGED <<envVars, stem_dest, keepVars, pending, attempts, fresh,
                   todo, startVars, logVars>>

\* Nothing to check, or nothing left to check with.
ResolveUnchecked ==
    /\ phase = "resolve" /\ ~(Checking /\ Checkable)
    /\ Decide(job.cmd, IF Checking THEN "command"
                       ELSE IF Checkable THEN "exif" ELSE "other")
    /\ UNCHANGED <<claimVars, job, plausVars, orphaned>>

\* A seeded fault of ResolveOwned.
MutantOwnsTheNext ==
    /\ Checking /\ Checkable /\ Delta \in (-Tol)..(Tol + Period)
    /\ strikes' = 0
    /\ Decide(job.cmd, "command")
    /\ UNCHANGED <<claimVars, job, plaus_off, orphaned>>

ResolveOwned ==
    /\ Checking /\ Checkable /\ Delta \in (-Tol)..Tol
    /\ strikes' = 0
    /\ Decide(job.cmd, "command")
    /\ UNCHANGED <<claimVars, job, plaus_off, orphaned>>

\* The command is for a later instant: this frame was never scheduled.
ResolveUnscheduled ==
    /\ Checking /\ Checkable /\ Delta > Tol
    /\ ReleaseStem(job.name, TRUE)
    /\ Decide(NoCmd, "exif")
    /\ UNCHANGED <<job, plausVars, orphaned>>

\* The command is for an earlier instant: its own frame never arrived.  One
\* strike per frame; too many and the cross-check itself is switched off.
Struck == strikes + IF job.struck THEN 0 ELSE 1

ResolveOrphan ==
    /\ Checking /\ Checkable /\ Delta < -Tol /\ Struck <= MaxStrikes
    /\ strikes' = Struck
    /\ ReleaseStem(job.name, FALSE)
    /\ orphaned' = CountOrphans({job.cmd})
    /\ job' = [job EXCEPT !.walks = @ + 1, !.struck = TRUE]
    /\ phase' = "reclaim"
    /\ UNCHANGED <<envVars, stem_dest, keepVars, pullVars, fresh, todo,
                   plaus_off, startVars, logVars>>

ResolveDistrusted ==
    /\ Checking /\ Checkable /\ Delta < -Tol /\ Struck > MaxStrikes
    /\ strikes' = Struck
    /\ plaus_off' = TRUE
    /\ Decide(job.cmd, "exif")
    /\ UNCHANGED <<claimVars, job, orphaned>>

Reclaim ==
    /\ phase = "reclaim"
    /\ Claim(job.name)
    /\ job' = [job EXCEPT !.cmd = Claimed(job.name)]
    /\ phase' = "resolve"
    /\ UNCHANGED <<envVars, stem_dest, keepVars, pullVars, fresh, todo,
                   plausVars, startVars, logVars, orphaned>>

-----------------------------------------------------------------------------
\* tmp, fsync, rename; then delete the spool copy, log the row, release.  The
\* delete may be refused, or take effect although its answer is lost.
Written(erased, confirmed) ==
    /\ phase = "write"
    /\ erased # confirmed => LostDeletes
    /\ LET n == job.name
           row == job.base = NoExp IN
       /\ host' = host \union {[exp |-> job.exp, ext |-> ExtOf(n),
                                base |-> IF row THEN job.exp ELSE job.base]}
       /\ rows' = IF row
                  THEN rows \union {[exp |-> job.exp, ext |-> ExtOf(n),
                                     cmd |-> cap[n].cmd, src |-> cap[n].src]}
                  ELSE rows
       /\ stem_dest' = IF row
                       THEN [stem_dest EXCEPT ![StemOf(n)] =
                                [exp |-> job.exp, at |-> clock]]
                       ELSE stem_dest
       /\ spool' = IF erased THEN [spool EXCEPT ![n] = NoExp] ELSE spool
       /\ gone' = IF confirmed THEN gone \union {n} ELSE gone
       /\ Finished(n)
       /\ ReleaseFile(n, FALSE)
    /\ job' = NoJob
    /\ phase' = Resting(todo)
    /\ UNCHANGED <<fires, issued, expo, nexp, landing, timeVars,
                   calVars, stopev, fresh, todo, plausVars, startVars,
                   unpulled, orphaned>>

WriteFails ==
    /\ phase = "write"
    /\ Failed(job.name)
    /\ IF attempts[job.name] + 1 < MaxAttempts THEN UNCHANGED cap ELSE TRUE
    /\ job' = NoJob
    /\ phase' = Resting(todo)
    /\ UNCHANGED <<envVars, stem_dest, gone, fresh, todo, plausVars, startVars,
                   rows, host>>

\* Told to stop between two files.
HandleStopped ==
    /\ phase = "handle" /\ stopev
    /\ todo' = {}
    /\ phase' = "idle"
    /\ UNCHANGED <<envVars, claimVars, stem_dest, keepVars, pullVars, fresh,
                   job, plausVars, startVars, logVars, orphaned>>

\* _note_pending_at_stop(): what was listed and not pulled keeps its identity.
Exit ==
    /\ phase = "idle" /\ stopev
    /\ unpulled' = unpulled \union
                     {[exp |-> spool[n], ext |-> ExtOf(n)] :
                         n \in pending \ calNames}
    /\ phase' = "exit"
    /\ UNCHANGED <<envVars, claimVars, stem_dest, keepVars, pullVars, fresh,
                   todo, job, plausVars, startVars, rows, host, orphaned>>

-----------------------------------------------------------------------------
Init ==
    /\ fires = [s \in Shots |-> "idle"]
    /\ issued = [s \in Shots |-> 0]
    /\ nexp = OldExp + AwayExp
    /\ expo = [e \in Exps |->
                 [shot |-> NoCmd, at |-> -1,
                  kind |-> IF e <= OldExp THEN "old" ELSE "survey"]]
    /\ landing = {}
    /\ spool = [n \in Names |->
                  IF \E e \in 1..nexp : n \in FilesOf(e)
                  THEN CHOOSE e \in 1..nexp : n \in FilesOf(e) ELSE NoExp]
    /\ clock = 0 /\ gap = 0
    /\ calib = NoCal /\ quiet = FALSE /\ calNames = {}
    /\ stopev = FALSE
    /\ cmds = {}
    /\ cmd_epoch = [n \in Names |-> NoCmd]
    /\ stem_cmd = [st \in Stems |-> NoCmd]
    /\ stem_dest = [st \in Stems |-> NoDest]
    /\ precmd = {} /\ gone = {} /\ seen = {} /\ recent = {}
    /\ pending = {}
    /\ attempts = [n \in Names |-> 0]
    /\ cap = [n \in Names |-> NoCap]
    /\ fresh = {} /\ todo = {} /\ job = NoJob
    /\ strikes = 0 /\ plaus_off = FALSE
    /\ late = FALSE /\ tries = 0 /\ phase = "baseline"
    /\ rows = {} /\ host = {} /\ unpulled = {}
    /\ orphaned = [s \in Shots |-> 0]

CaptureNext == \E s \in Shots : \/ NoteCommand(s) \/ FireExposes(s)
                                \/ FireOk(s) \/ FireFails(s)
BodyNext == \/ \E t \in Presses : BodyExposes(t)
            \/ \E f \in landing : Land(f)
CalFires == \E t \in Presses : CalFire(t)
CalNext == CalBegin \/ CalFires \/ CalSees \/ CalEnds
WriteNext == \/ Written(TRUE, TRUE) \/ Written(TRUE, FALSE)
             \/ Written(FALSE, FALSE)
PollNext == \E held \in SUBSET Backoff : PollLists(held)
ResolveNext == \/ ResolveUnchecked \/ ResolveOwned \/ ResolveUnscheduled
               \/ ResolveOrphan \/ ResolveDistrusted \/ Reclaim
WorkerNext ==
    \/ BaselineTaken \/ BaselineFails \/ BaselineStopped
    \/ PollUnanswered \/ PollNext \/ ListNext
    \/ DiscardCalibration \/ DownloadFails \/ Downloaded
    \/ ResolveNext \/ WriteNext \/ WriteFails \/ HandleStopped
    \/ Exit
EnvNext == \/ CaptureNext \/ BodyNext \/ CalNext
           \/ Tick \/ StopWorker

Next == EnvNext \/ WorkerNext

Spec == Init /\ [][Next]_vars

\* What the worker's thread keeps doing: it polls, lists, handles and waits.
\* A node that is connected again and again is listed again and again, and
\* every backoff runs out, so a listing that holds nothing back recurs; a
\* download that can succeed is not refused for ever.
Fairness ==
    /\ WF_vars(BaselineTaken) /\ WF_vars(BaselineStopped)
    /\ WF_vars(PollLists({})) /\ WF_vars(ListNext)
    /\ WF_vars(DiscardCalibration \/ DownloadFails \/ Downloaded)
    /\ WF_vars(ResolveNext) /\ WF_vars(WriteNext \/ WriteFails)
    /\ WF_vars(HandleStopped) /\ WF_vars(Exit)
    /\ WF_vars(BodyNext)
    /\ WF_vars(CalFires \/ CalSees \/ CalEnds)

FairSpec == Spec /\ Fairness

-----------------------------------------------------------------------------
(***************************************************************************)
(* Properties.                                                             *)
(***************************************************************************)
Phases == {"baseline", "idle", "list", "handle", "resolve", "reclaim",
           "write", "exit"}
Sources == {"none", "command", "exif", "other"}
Commands == Shots \union {NoCmd}
Exposures == Exps \union {NoExp}
Files == [exp : Exposures, ext : Exts]
Jobs == [name : Names \union {NoName}, exp : Exposures, base : Exposures,
         cmd : Commands, walks : Nat, struck : BOOLEAN]

NodeType ==
    /\ fires \in [Shots -> {"idle", "sent", "exposed", "ok", "failed"}]
    /\ issued \in [Shots -> Nat]
    /\ nexp \in 0..MaxExp
    /\ expo \in [Exps -> [shot : Commands, at : Int,
                          kind : {"old", "survey", "calibration"}]]
    /\ landing \subseteq [exp : Exps, name : Names]
    /\ spool \in [Names -> Exposures]
    /\ clock \in Nat /\ gap \in Nat
    /\ calib \in [state : {"none", "fire", "wait", "named"}, left : Nat,
                  names : SUBSET Names]
    /\ quiet \in BOOLEAN /\ calNames \in SUBSET Names
    /\ stopev \in BOOLEAN

LedgerType ==
    /\ cmds \in SUBSET Shots
    /\ cmd_epoch \in [Names -> Commands]
    /\ stem_cmd \in [Stems -> Commands]

PullType ==
    /\ stem_dest \in [Stems -> [exp : Exposures, at : Nat]]
    /\ precmd \in SUBSET Names /\ gone \in SUBSET Names
    /\ seen \in SUBSET Names /\ recent \in SUBSET Names
    /\ pending \in SUBSET Names
    /\ fresh \in SUBSET Names /\ todo \in SUBSET Names
    /\ attempts \in [Names -> Nat]
    /\ cap \in [Names -> [cmd : Commands, src : Sources]]
    /\ job \in Jobs
    /\ strikes \in Nat /\ plaus_off \in BOOLEAN
    /\ late \in BOOLEAN /\ tries \in Nat
    /\ phase \in Phases

LogType ==
    /\ rows \in SUBSET [exp : Exposures, ext : Exts, cmd : Commands,
                        src : Sources]
    /\ host \in SUBSET [exp : Exposures, ext : Exts, base : Exposures]
    /\ orphaned \in [Shots -> Nat]
    /\ unpulled \in SUBSET Files

\* Every variable stays in its type (the records of class PullWorker).
TypeOK == NodeType /\ LedgerType /\ PullType /\ LogType

\* A release holds its command exactly while one of its files does, a command
\* is held by one release at most, and a command in hand is not in the queue:
\* through every order of claims, siblings, requeues, orphans and drops, no
\* command can date two exposures (_claim and _release_claim).
OneReleasePerCommand ==
    /\ \A n \in Names : cmd_epoch[n] # NoCmd =>
                           stem_cmd[StemOf(n)] = cmd_epoch[n]
    /\ \A st \in Stems : stem_cmd[st] # NoCmd =>
          /\ stem_cmd[st] \notin cmds
          /\ \E n \in Names : StemOf(n) = st /\ cmd_epoch[n] # NoCmd
    /\ \A st1, st2 \in Stems :
          stem_cmd[st1] = stem_cmd[st2] /\ st1 # st2 => stem_cmd[st1] = NoCmd

\* The commands that were queued and that nothing holds any more.
Over == {s \in Shots : /\ fires[s] # "idle" /\ s \notin cmds
                       /\ \A st \in Stems : stem_cmd[st] # s}

Ledger == INSTANCE ClaimLedger WITH Orders <- Shots, Releases <- Stems,
              queue <- cmds, held <- stem_cmd, over <- Over

\* The worker's queue and claims keep the ledger's promise: commands are
\* handed out oldest first, to one release at a time, and never again once
\* they are spent, dropped, expired, orphaned or pushed out of the queue.
LedgerKept == Ledger!Spec

\* A row stamped from a fire command (its edge or its target) belongs to the
\* exposure that fire made, or else to one nobody scheduled that fell within
\* the claim tolerance of it: no lost frame, lost answer, retry, late RAW half,
\* overlapping shot or frame taken on the body dates a frame from another
\* fire, or from further off than the tolerance.
RowOwnsItsFire ==
    \A r \in rows : r.src = "command" /\ r.cmd # NoCmd =>
        \/ expo[r.exp].shot = r.cmd
        \/ /\ expo[r.exp].shot = NoCmd
           /\ Epoch(r.cmd) - expo[r.exp].at \in (-Tol)..Tol

\* Without the EXIF cross-check nothing but the order ties a frame to its
\* command.  What puts a frame behind its own command: frames nobody fired
\* from here (the backlog of a worker that baselined in time is not among
\* them), and fires that exposed although they were reported as failed.
Strangers ==
    {e \in 1..nexp : /\ expo[e].kind = "survey" /\ expo[e].shot = NoCmd
                     /\ expo[e].at >= 0 \/ late}
Disowned == {e \in 1..nexp : expo[e].shot # NoCmd
                             /\ fires[expo[e].shot] = "failed"}

\* What puts it ahead: fires without a frame, and frames filed without a
\* command or given up on.
Missed == {s \in Shots :
              /\ Settled(s) \/ \E e \in 1..nexp : expo[e].at > Epoch(s)
              /\ \A e \in 1..nexp : expo[e].shot # s}
TookNone ==
    {e \in 1..nexp :
        /\ expo[e].shot # NoCmd
        /\ \/ \E r \in rows : r.exp = e /\ r.cmd = NoCmd
           \/ /\ FilesOf(e) \intersect (precmd \union seen) # {}
              /\ \A r \in rows : r.exp # e}

\* The commands a frame has got ahead of its own: those up to the one that dates
\* it that were there to take and are not with their own frame, or given up with it.
Keeps(e, s) ==
    /\ expo[e].shot = s
    /\ \/ stem_cmd[StemOfExp(e)] = s
       \/ \E r \in rows : r.exp = e /\ r.cmd = s
       \/ FilesOf(e) \subseteq seen /\ \A r \in rows : r.exp # e
Overtaken(r) ==
    {s \in (expo[r.exp].shot + 1)..r.cmd :
        fires[s] # "failed" /\ \A e \in 1..nexp : ~Keeps(e, s)}

\* A frame is dated by a fire no more commands off its own than there were such
\* faults, and by an earlier fire only for faults that put it ahead: overlapping
\* shots, late answers, retries and adoption shift nothing by themselves, and
\* faults add up but do not compound (_precmd, drop_command, _claim).  The queue
\* must hold every command and none may expire.
ShiftWithinFaults ==
    \A r \in rows :
        r.src = "command" /\ r.cmd # NoCmd /\ expo[r.exp].shot # NoCmd =>
            LET ahead == Cardinality(Missed) + Cardinality(TookNone) IN
            /\ Cardinality(Overtaken(r)) <=
                   Cardinality(Strangers) + Cardinality(Disowned) + ahead
            /\ r.cmd > expo[r.exp].shot => Strangers \cup Disowned # {}
            /\ expo[r.exp].shot - r.cmd <= ahead

\* drop_command: a fire that answered ok:false exposed nothing, so its command
\* belongs to no frame - none is dated by it.
FailedFireDatesNothing ==
    \A r \in rows :
        r.src = "command" /\ r.cmd # NoCmd /\ fires[r.cmd] = "failed" =>
            \E e \in 1..nexp : expo[e].shot = r.cmd

\* One shutter release, one flight_log row, however its halves arrive.
OneRowPerExposure ==
    \A r1, r2 \in rows : r1.exp = r2.exp => r1 = r2

\* A half is archived beside its own sibling, never beside another release.
FiledUnderOwnName == \A h \in host : h.base = h.exp

\* What was on the node before the run never enters the transect, whichever
\* baseline the worker took and however often the listing failed.
OldFramesKeptOut == \A h \in host : expo[h.exp].kind # "old"

\* A calibration exposure never enters the transect.
CalibrationKeptOut == \A h \in host : expo[h.exp].kind # "calibration"

\* A survey file that reached the node is still there to be pulled, or is on
\* the host, or is named in unpulled.jsonl: none is baselined away, taken for
\* a calibration frame, erased unpulled or forgotten at stop.
NoFrameVanishes ==
    \A e \in 1..nexp, x \in Formats :
        LET n == <<StemOfExp(e), x>> IN
        \/ expo[e].kind # "survey"
        \/ \E f \in landing : f.exp = e /\ f.name = n
        \/ spool[n] = e /\ n \notin seen /\ ~(phase = "exit" /\ n \in pending)
        \/ \E h \in host : h.exp = e /\ h.ext = x
        \/ [exp |-> e, ext |-> x] \in unpulled

\* Every file that is listed is dealt with, or the worker stops and says so:
\* neither a disconnected node nor a failing pull leaves it pending for ever.
PendingSettles ==
    \A n \in Stems \X Formats :
        n \in pending ~> (n \notin pending \/ phase = "exit")
=============================================================================
