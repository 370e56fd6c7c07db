# wildsync: a TLA+ model of the survey rig's host

wildsync runs a rig of underwater survey cameras. A host (`rig/rigd.py`) fires
every body at one shared instant, pulls the frames from each camera's Pi, stamps
each with the instant of the fire that made it, and between transects drains the
originals off the camera cards. This directory models the parts of the rig that
are hard to test: what ties a frame to its fire, who may start, stop and drain,
when a paused survey resumes, what the host believes of its cameras, what a
stamp may claim, and when an original may be deleted.

## 1. The system

### Components, their state and their operations

| component | source | state | operations | what makes it correct |
|---|---|---|---|---|
| Pull worker, one thread per camera and run | `rig/run.py` `PullWorker` | command queue `_cmds`, claims `cmd_epoch` and `_stem_cmd`, `_stem_dest`, `_precmd`, `_gone`, `seen`, `_pending` | `note_command`, `drop_command`, baseline, poll, `_handle`, `_capture_instant`, stop | a row is dated by its own fire; one row per exposure; nothing old and no calibration frame gets in; nothing is lost silently |
| Edge matching | `rig/run.py` | `_edge_buf`, `_rise_buf`, `_edge_cursor` | `match_exposure_edge`, `return_edge`, `match_rise` | an edge stamps one frame, with the accuracy it had |
| Run manager, lifecycle | `rig/run.py` `RunManager` | `active`, `workers`, `_cap_stop`, `_adopt_stop`, `draining`, calibration names | `start`, `stop`, the capture, adopt and calibration threads | a run and a drain never overlap; a run's threads end with it |
| Run manager, capture grid | `rig/run.py` | `fail_streak`, `paused_for`, `last_resume`, `_cal_busy`, shots in flight | `_start_capture_loop`, `capture_once`, `_judge_shot`, `_probe_fire`, `_name_probe_frame` | a dead camera pauses the grid soon, a live one resumes it, and no probe frame enters the transect |
| Run record | `rig/run.py`, `rig/rigd.py` | images, `flight_log.csv`, `index.jsonl`, `run.json` | `_write_flight`, `index_frame`, `_write_run_json`, `_recover_runs` | four files written at different moments agree on the frames of a run |
| Run browser | `rig/rigcore.py` `RunBrowser` | `_cache` | `list_runs`, `detail`, `shots` | what it shows is no older than the disk was |
| Static-fix latch | `rig/rigd.py` `StaticFixNav` | `_run_armed`, `_run_id`, `_run_gen`, `_pending_since` | `begin_run`, `bind_run`, `end_run`, `armed` | a run is governed by the decision taken for it, and an idle fleet by none |
| Drain coordinator | `rig/rigd.py` | `_drain_status`, `runmgr.draining`, `suspend_control`, wedge marks | `start_drain`, `_drain_worker`, `cancel_drain`, `_note_wedge` | the claim is exclusive, held to the end and always released |
| Card drainer | `rig/drain.py` `Drainer` | the staged, landed and recorded files of one content; `SHA256SUMS` | `run`, `_drain_content` | no original is deleted before its copy and hash are safe |
| Node monitor | `rig/rigcore.py` `NodeMonitor` | `state`, `status`, `_busy_since`, `_connect_after`, `_backoff`, `_pushed` | `_tick`: poll, hold, reconnect, recovery from a stuck transfer mode | a body that cannot shoot is not called connected for long, and one that can be reached, and whose ilxctl can still claim it, is connected again |
| Settings manager | `rig/rigcore.py` `SettingsManager` | `desired`, `_pin`, `_pending`, per camera `_exposure_owed`, `_apply_skipped`, divergence marks | `update`, `bump_ev`, `preview`, `commit`, `discard`, `reconcile_all` | the bodies shoot what was asked, and an exposure given to one camera stays |
| Anomaly scan | `rig/rigd.py` `Anomalies` | `_last`, `_writing_since`, `_skew_streak` | `scan` | an alarm is announced once and of something that lasts |
| Time authority | `rig/nav.py` `TimeAuthority` | `_senders`, `_spans` | `feed`, `source`, `offset_to` | a stamp is GPS time only by an offset that was earned |
| Nav reader | `rig/nav.py` `NavReader` | port, join backoff, `_latest`, `_hist` | reopen, INIT and OFFLINE, `_ingest`, `snapshot`, `fix_at` | the gateway is on the bus in the end; a frame gets the nearest fresh sample |
| Pi agent | `rig/piagent.py` `Gpio` | FOCUS hold and lease, fire lock, schedule, edge ring | fire at an instant, hold, schedule, clock step, edge monitor | one answer per fire, one edge per exposure, no half-press without an owner |
| Ingest | `rig/ingest.py` | the run's files and `SHA256SUMS` | `match_run`, `place`, `write_run_sums` | a RAW is filed under its own row or refused, and is never lost |
| VSLAM runner | `rig/vslam.py` `VslamRunner` | `_pending`, `_q1`, `_ready2`, `_last_fed` | `_poll` | the estimator gets pairs of one fire, in order |
| Settings documents, NMEA log, projects, UI, IMUs, calibration tools, ilxctl, deployment | see `PROJECT.json` | | | not modelled |

### How they interact

* An HTTP request runs on a thread of its own (`ThreadingHTTPServer`), so two
  starts, two stops, or a stop and a start overlap freely. So do two requests to
  the run browser, two scans for alarms and two reconcile passes.
* `start` holds the run lock, releases it to probe the bodies, and takes it
  again. `stop` signals under the lock, waits outside it for late frames and
  for the pull threads, and finalises under it. `start_drain` claims under
  `_drain_lock` and the run lock.
* The capture loop queues a command with each worker before it fires, and
  drops it when the fire fails. The worker takes commands off the queue as
  files appear in the node's listing. Nothing on the wire ties the two. The
  node's edge ring, polled apart, then gives the claimed command its edge.
* Three failed fires of one body pause the grid. A thread probes that body, with
  the puller held off it as in a calibration, and the frame resumes the grid.
* A calibration pass tells the puller to stay off the node, fires, compares two
  listings and names what is new.
* `_nav_time_loop` reads the run's status every 5 s and binds or releases the
  latch by what it read.
* The monitors poll and reconnect on threads of their own. They and the settings
  passes share `_pushed` and `_exposure_force` of a node without a lock. A drain
  takes a node away from both with `suspend_control`.
* The drain drives the body, the Pi's staging and the host's file system, and
  its process may be killed between any two steps.
* A killed rigd leaves a run open, which its next start closes from what is on
  the disk. `ingest` and the VSLAM runner read the directories a run writes.

### What is hard

Frames and fires are matched by order, over a spool that lists late, in halves,
twice or not at all. Locks are released around waits, so what was true before a
wait is tested again after it, or not. Beliefs about a camera, a clock or a run
are cached and used later. Three parties own one latch, two threads write one
vector of settings, four files hold one run. And a card original is deleted on
the strength of renames, syncs and appends that a power loss may undo.
`PROJECT.json` lists each hazard at its line with the properties that guard it;
the ones that have none say why.

## 2. The modules

| module | models | extends / uses |
|---|---|---|
| `ClaimLedger` | abstract: what the claim bookkeeping promises | |
| `PullWorker` | one worker, the capture loop and body it sees, one calibration pass | instantiates `ClaimLedger` as `Ledger` |
| `MCPullWorker` | instances | `PullWorker` |
| `PullWorkerProofs` | proofs | `PullWorker` |
| `EdgeMatch` | which edge a claimed command gives the frame | |
| `RunLifecycle` | start, stop, adoption, grid, drain claim, latch, tick | |
| `RunProofs` | proofs of two parts of a run that share no state | `RunLifecycle`, `FramePairing` |
| `CaptureGrid`, `CaptureGridProofs` | shots, verdicts, pause, probes, resume; proofs | |
| `RunRecord` | the files of a run, kills, recovery | |
| `RunBrowser` | detail() and shots() over a cache | |
| `RunReaders` | the two side by side | `RunRecord`, `RunBrowser` |
| `HostPartsProofs` | proofs of five parts that share no state | `RunReaders`, `AnomalyScan`, `DrainQueue`, `TimeAuthority` |
| `DrainQueue` | the drain coordinator | |
| `CardDrain` | one camera's drain, kills and power losses | |
| `MCCardDrain`, `CardDrainProofs` | instances; proofs | `CardDrain` |
| `NodeMonitor` | rigd's view of its nodes | |
| `FleetSettings`, `FleetSettingsProofs` | one settings vector over them; proofs | extends `NodeMonitor` |
| `PiGpio`, `PiGpioProofs` | the agent on a camera's Pi; proofs | |
| `TimeAuthority` | the election of a clock | |
| `NavGateway`, `NavHistory` | the nav reader: its port and handshake; its samples | |
| `AnomalyScan` | the alarms | |
| `CardMatch`, `MCCardMatch` | which frame a card file is; an instance | |
| `CardPlace` | how a card file gets its name and hash | |
| `FrameProofs` | proofs of what a frame is given: sample, edge, row, place | `NavHistory`, `EdgeMatch`, `CardMatch`, `CardPlace` |
| `FramePairing` | the feed of the odometry engine | |
| `MCHostParts` | ten of these side by side | the smaller modules |
| `MCPullAndDrain` | the two ways a shot reaches the host, side by side | `MCPullWorker`, `MCCardDrain` |
| `MCRunAndPi` | the run's lifecycle and a node, side by side | `RunLifecycle`, `PiGpio` |
| `MCGridAndMatch` | the grid and the match of its cards, side by side | `CaptureGrid`, `MCCardMatch` |

An operator named `Mutant...` is a seeded fault: a plausible bug in the
definition that follows it. `PROJECT.json` pairs each property with one whose
substitution makes the property fail. `MutantNoSync` for instance is `SyncDir`
without the sync.

### PullWorker

* A command is its shot number; its instant is `Period * shot`, so `cmds` (`_cmds`,
  kept in target order) is a set whose head is its minimum. `capture_once` runs on a
  thread per shot: up to `MaxFlight` commands are queued (`NoteCommand`) before the
  first of their fires is answered, and answers come in any order. A fire that gets
  no answer is known to have failed two seconds later, when later shots are in
  flight and may have frames.
* The body's own exposures (`BodyExposes`, `Presses`) fall at any instant, before a
  fire, after it, or within the claim tolerance `Tol` of it; `MayFallAt` asks only
  that a fire that is answered lies behind and one that is not queued ahead.
* A file name is a stem and an extension. Stems come round after `NStems`
  exposures. A stem is used again only when its files are off the spool, have
  been seen to be off it, and the sibling window is over: in the code the
  numbering has ten thousand stems.
* `phase` is where the thread is. `PollLists` is `_poll_once` up to its first
  loop, `ListNext` one turn of that loop (a claim), `Downloaded` the start of
  `_handle`, `Resolve...` and `Reclaim` the loop of `_capture_instant`,
  `Written` the rest of `_handle` with the bookkeeping of `_poll_once` after it.
  Other threads run between any two of them: the code takes the lock per call.
* `Written(erased, confirmed)` is one step from rename to release. The delete
  may be refused, may take effect, or may take effect with its answer lost.
* A row's `src` says what dated it: `command` (its fire's edge or target,
  checked against EXIF), `exif`, or `other`. `RowOwnsItsFire` and
  `ShiftWithinFaults` speak of the first kind, the one that claims to be exact.
* `Checkable` is TRUE when the body's EXIF offset is known. The instant read
  from EXIF is then the exposure's own. The EXPOSURE edge is taken to agree
  with the command; `EdgeMatch` is about the edges that do not.
* `LostFrames`, `LostAnswers`, `LostDeletes` and `BodyShutter` switch the
  faults of the fire, of the delete and of the body on.
* `CalBegin` .. `CalEnds` are `_calibrate_exif` on this node. Its exposure lands
  while the quiet lasts (`CAL_QUIET_S`); no pass fires while the grid is live.

### EdgeMatch

`ring` is the node's list of edges, read by `match_exposure_edge` from `cursor`
into `falls` and `rises`. An event says which fire it names and, beside the
code's fields, the shot that really made it (`of`). `Shoot` makes every kind of
shot: answered, answer lost, without an exposure, and the body's own shutter,
with edges that are missed, soft, or name the fire before. `Pull` lets a frame
claim any command, for the queue is `PullWorker`'s business; `Matched`,
`Elsewhere`, `TooEarly`, `TooLate`, `Unclaimed` and `GivesUpClaims` are the
exits of the loop of `_capture_instant`, `Result` is `_edge_result`. A command in
tolerance forgives all strikes before its edge is looked at, so `Elsewhere` begins to
count anew and `TooLate` does not (`Orphaned`). `Window` is how near an edge must be,
`Near` the claim tolerance. Shots come as close as they like: nothing keeps `Gaps`
above either, for the body's own exposures fall where they will.

### RunLifecycle

A run is named by the start request that made it. Each request has a program
counter (`starting`, `stopping`) with one value per hold of the run lock. A pull
worker is `pulling` until some stop tells it. `grid[r]` is the calibration thread
of run `r`, or the run whose capture loop it armed. `adopt[r]` is the adopting
thread and the run whose event it waits on: it evaluates `_adopt_stop` again each
turn, so it may outlive its run and serve the next. `latch` records, beside the
code's fields, how many runs there had been when the decision was taken (`at`);
`born` counts runs. `Patient` restricts the client to a stop that is sent when
neither another stop nor the start it is meant for is waiting for its answer.

### CaptureGrid

`shots` are the fires in flight, each with who was to be contacted (`wait`), who
answered and who did not; `Judge` is `_judge_shot`, in any order of the shots.
`pause` is `paused_for` with its level of backoff, `last` is `last_resume`. The
states of `loop` are the steps of `_start_capture_loop` and of `_probe_fire`:
`top`, `wake`, `list`, `fire`, `name`, `ended`. `snap` is what the monitors last
saw, which `Poll` refreshes. `frame` is the one frame a probe may have made:
coming, in the spool, or pulled; `told` says that somebody was told of it.
`Lose` and `Mend` are the body and the Pi, `budget` bounds them, the lost
answers, the late frames and the operator's switch. Assumed: a late probe frame
lands within the backoff of 4 s; the answers of one shot come in one step; the
members are in `fail_streak` in the order of their numbers. `lonely[n]` is history:
the shots the others fired without `n` since it last answered, or was last switched
on or off, for a member that is switched on while the loop is asleep is a member
anew.

### RunRecord and RunBrowser

A frame passes through `TakeFrame`, `SaveImage`, `LogRow` and `IndexFrame`, one
per file written, and a worker may be anywhere between when its run is stopped
(`StopRecord`) or rigd is killed (`KillRig`, with the line of `index.jsonl`
flushed or not). `RecoverRuns` is `_recover_runs` without its limit to the newest
twenty runs. The disk may refuse any of the writes (`DiskTakes`): a log is closed, and
of `run.json`, whose failed write `_write_run_json` and `_recover_runs` swallow, what
was there before stays, at the start, every so many frames, at the stop and at a
recovery. `excused` remembers the frames in hand when a run ended, `unsaid` the runs
whose last word was refused at their stop, or at the last recovery.

`RunBrowser` stands on the same files but knows only how often each was written.
A request stats them one after another, looks into the cache, reads them one
after another and stores: one action each, with any writes and any other
thread's steps between. A signature (mtime and size) is taken to identify a
file's content: these files grow or are replaced.

### DrainQueue and CardDrain

`DrainQueue` has a `worker` per drain, with one phase per hold of `_drain_lock`
or the run lock. `request` is what `start_drain` computed before it claims.
`suspended` are the nodes with `suspend_control`, `mark` the wedge marks with the
reboot count they were made at. The queue is a set: the nodes come in any order,
and `holder` is one of them where the code takes the first. A request that
lists a node twice is left out.

In `CardDrain` a content is one shot, the RAW and JPEG the card API deletes
together. Bytes are the content they belong to, so comparing hashes is comparing
contents. `onHost` is what the file system shows, `disk` what a power loss would
leave: a rename is in `onHost` at once and in `disk` after the directory sync.
`sums` is what `read_sums` would return from the file; `memo` is the drain's
`_sums`. `torn` says the file ends in part of a line. `queue`, `cur`, `left`,
`staged`, `landed`, `suffix` and `all_ok` are the locals of `run` and
`_drain_content`. `Shoot`, `Recover`, `Kill` and `PowerLoss` are the environment;
all else is one step of the code between two points where a kill shows.

### NodeMonitor and FleetSettings

`box` is which daemons answer and what ilxctl would say, `mode` the SDK session,
`body` the settings the camera really holds. `Tick` is one poll, whole: the
answers are taken in (`Observe`) and then nothing, a recovery from transfer mode
or a connect is done, behind one backoff gate. An ilxctl without a body can claim it
(`idle`) or keeps the handle of a lost session (`dead`) and refuses every connect, as
the comment at `rigcore.py:784-789` has it; rigd cannot tell the two apart, and only
`Restart`, which somebody does by hand and which is not fair, takes a `dead` one back.
(The ilxctl of this commit releases such a handle itself at the next connect,
`src/camera.cpp:619-627`; the model keeps what rigcore is written for.) `unproven`
counts polls since a status showed a body that can shoot. A poll is one step; in the code a node's
monitor is one thread too, and what may come between its requests is what may
come between two polls.

`FleetSettings` adds `desired` and the passes. Three fields stand for the kinds
the code treats differently: `iso` (exposure, written only when asked for),
`drv` (read back, converged at each pass), `ft` (blind). A pass is `Begin`, one
`Push` per field and `Verify` for each node; the pass of the 3 s loop and one API
call run at once. `Round` is what `reconcile_all` is called with, `Onward` where a
pass goes after a node. `split`, `lapsed` and `crossed` are history: which camera
holds an exposure of its own; which cameras reset, or were not reached by a forced
pass, or read back different, and have not read back right since; and whether
passes ran into each other or got no verdict.

### PiGpio

`held`, `lease` and `ttl` are the FOCUS hold; `wire` is the line, `stuck` after a
write that failed. `shot[p]` is the fire a thread is in, `lock` the fire lock,
`pending` the fire whose edge is awaited, `loop[s]` the thread of a schedule, which a
write that raises kills before it has cleared `running` (`FireEnds`), `pipe`
the edges stamped by the kernel and not yet read. `exposures[n]` is the fire that
really made exposure `n`, or `Foreign`. The unit of time is the tick of a lease. PIPE
LAG: `Aim` waits until `pipe` is empty, that is, the edge monitor has read the edges
of one fire before the next aims. The monitor reads a line within milliseconds and a
body needs far longer between two shots, but the code does not enforce it; nor is a
lease shorter than the wait of a fire (5.5 s) modelled. A foreign exposure may be
taken for that of a fire that waits, as in the code.


### TimeAuthority, NavGateway, NavHistory

`Feed` is one clock message: a candidate, a confirmation, a span that grows or begins.
`earned` and `stood` are history: agreed readings, and the offset in force at each
instant. `OffsetsDoNotDrift` and `OneSenderOfEach` name what the proofs assume of the
instance (section 5). `NavGateway` has the gateway (`plugged`, `powered`, `joined`,
`muted`) and the reader (`port`, backoffs, `offbus`, the ticks since it heard or asked
something). Any command may be lost. It is assumed that the gateway is mute after
OFFLINE no longer than `INIT_RETRY_S`: otherwise the remedy for a silent gateway would
silence it again (`_send_init`'s own comment). `NavHistory` has the latest sample and
the ring of two PGNs.

### AnomalyScan, CardMatch, CardPlace, FramePairing

`AnomalyScan` keeps per node the signs its last answers show; a scan takes the
lock, finds every alarm (`found`), compares with `last` and journals. `truth`
is history: when a fault appeared, and what the last scans saw.

`CardMatch` begins with a `scene`: which directory, how many runs, how the bodies and
the nodes are set (`Setups`: the letters of a body's names, which are the series; the
number of its first file; the number of its node's first frame; its clock), whose
offset is in the journal, and flaws (a lost row, a missing or an extra file). So a
row's number may be on its own file, on another exposure's, on the other body's, on
files of both or on none, and two bodies may share one series. `ByNumber` looks for the
rows' numbers in every series there is, over all files that are not used yet, and
takes the one that shows one offset on the most rows, without asking the journal;
`ByTime` is `_offset_by_time`. Offsets are exact, so the refinement of a bin by the
median of its files is the bin itself. A directory holds one file of a name
(`scan_card`). `CardPlace` has the bytes in staging and at each path of the run, which
names share an inode, and `SHA256SUMS`; `Rotten` bytes are other bytes than ever
before. `FramePairing` has the two directories, a listing's memory, the queue
and what the engine was fed; the tolerance is taken from the last `Lately` frames
of the first camera.

## 3. The properties

### The survey

* `OneReleasePerCommand`, `LedgerKept`: no fire can date two exposures; commands
  are handed out oldest first, and once over never again. `LedgerKept` is a
  refinement: `Ledger!Spec` with `queue <- cmds`, `held <- stem_cmd`, and `over`
  computed as the issued commands nobody holds.
* `RowOwnsItsFire`: where EXIF checks it, a row stamped from a command is of the
  exposure that command made, or of one nobody scheduled within the claim tolerance
  of it. The code cannot tell such a press from the fire's frame; it may even take
  the fire's command when both have frames, and then the fire's own frame is dated
  from EXIF and never from another fire.
* `ShiftWithinFaults`: a worker that has neither EXIF nor edges claims by order alone,
  so a frame without a fire or a fire without a frame shifts what follows. The
  property bounds the shift by the number of such faults, and says which of them can
  shift a frame to an earlier and which to a later fire. Shots that overlap, answers
  that are late and adoption shift nothing by themselves.
* `FailedFireDatesNothing`: what a comment of the worker says, which does not hold
  (section 6).
* `OneRowPerExposure`, `FiledUnderOwnName`: halves of a release stay together.
* `OldFramesKeptOut`, `CalibrationKeptOut`, `NoFrameVanishes`: what enters the
  transect is exactly the survey, and what does not is named in `unpulled.jsonl`.
* `PendingSettles` (liveness): a listed file is dealt with, or the worker stops.
* `EdgesAreHonest`: an edge stamps at most one frame; a row says `gpio_edge` only
  of an edge the kernel stamped, also after it was handed out, returned and handed
  out again; a frame with a fine EXIF is not dated further from its own exposure than
  the claim tolerance, however close two exposures come; a window lasts no longer than
  a plausible exposure. (That its edge is its own needs exposures further apart than
  the tolerance, and nothing in the code sees to that: `MIN_INTERVAL_S` is 0.08 s and
  the FOCUS lead, `_claim_tolerance` 0.25 s at least.)
* `LonelyShotsBounded`: a body that stopped answering does not leave the others
  firing alone for long. `ProbeFrameAccounted`: a probe's frame is named, or
  somebody was told of it. `ResumedByFrame` (action): a probe resumes the grid on a
  frame, never on a pulse. `TransectCompletes` (liveness; `GridCompletes` in the run): once all is well for
  good, the transect ends.
* `RunXorDrain`, `GridFiresForActiveRun`: the lifecycle. `NoInheritedDecision`: the
  decision that governs a run is of a start that was still to answer when the run was
  created, or that came later. `LatchIsReleased` (liveness).
* `ReadersSeeTheRun`: of `RunRecord`, that a run that is over says so, unless the disk
  refused its last word and every recovery since; that its readers see its own frames, each once, and none is missing that has a row; of
  `RunBrowser`, that what `detail()` answers holds all that was on disk when it was
  asked, and that an entry its files still match is no older than they are.

### The rig

* `CachesAreTrue`: nothing is called connected that has not shown, within the
  busy hold, a body that can shoot; a blind setting that is believed pushed is in
  the body. `CameraRejoins` (liveness): what can be reached is connected in the
  end, whatever a drain, a stall or a lost link left, unless its ilxctl keeps a dead
  handle for good.
* `SplitSurvives`: an exposure given to one camera stays until exposure is asked for,
  while passes do not cross. A camera that reset, missed an apply, or refused a
  setting may be written, and an exposure given during a preview is the preview's.
  `DebtIsPaid` (liveness): an apply that met a held camera reaches it.
  `FormatConverges` (liveness): readable settings end up as asked.
* `ShutterIsHonest`: between shots the FOCUS line is where its owner wants it; the
  state says that a schedule runs exactly while its thread lives, or died of a write
  that raised and has not been stopped since (`RunningMeansAlive`, without that, fails:
  section 6); an edge has the identity of its fire and of no other; and `edge_seq`
  bounds a fire's answer: the first fall after it is never an earlier fire's, and a
  later one's only if this fire did not expose or the monitor died. `ExposuresRecorded`: ringing
  edges and missing stamps cost no exposure. `HoldEndsWithItsOwner` (liveness).
* `AuthorityIsHonest`: a stamp is GPS time only by an offset that was earned near that
  instant; a step keeps the past; where each PGN has one sender, none that agrees with
  itself is starved. `HistoryIsHonest`: the nearest sample, and the frame and the
  operator are told the same. `BusIsJoined` (liveness): the gateway ends up on the
  bus.
* `ScanIsHonest`: each fault is journalled once each time it appears, a clock skew
  is one pair's in every scan it takes, a stuck write was seen that long.

### The originals

* `DeletedOnlyWhenSafe`, `HashOnRecord`, `DurableFilesStay` (action): the drain.
* `DrainIsOrderly`: while a card is emptied no run is on and its claim stands; with
  no drain at work nothing is claimed; a skipped node earned it.
* `CardsAreAttributed`: with one flaw at most, a matched file is the very exposure of
  its row, as long as less than half of the numbers that would carry a series are of
  other exposures (`NumbersAreRight`) and something tells the bodies apart
  (`BodiesAreTold`: one body's directory, names of their own, or both journals and
  clocks that are apart); and a card without flaws is matched whole wherever the
  camera's numbers, the journal or a directory of its own say whose it is (`Clear`).
  `NoBodySwap`, what `ingest.py` says of the series left over, does not hold
  (section 6). `PlacementIsSafe`: no bytes are lost by linking,
  moving, parking, a kill or a repetition, and a file that changed shows it.
* `FeedIsHonest`: the engine gets frames in order and pairs of one fire, and none
  is lost. `PairingFeeds` (liveness): none is held for ever.

`PullWorker` and `RunLifecycle` have a `TypeOK`, `CardDrain` a `CardTypeOK`; those are
proved, and TLC no longer checks them.

## 4. The runs

| run | instance | distinct states | result |
|---|---|---|---|
| `pull_exact` | 2 overlapping shots, 3 exposures, 2 stems, JPEG, EXIF good to a quarter of the period, presses inside and outside that of a fire, lost frames and answers, one clock tick | 1,071,716 | holds |
| `pull_and_drain` | `PullWorker`: 2 shots, 3 exposures, RAW+JPEG, one old frame, lost delete answers, 2 attempts; `CardDrain`: 3 contents with one name, two with one id, 2 faults, 1 crash | 1,132,451 | holds |
| `pull_adopt` | adopted worker, no EXIF, 1 old and 1 away frame, 2 overlapping shots fired before or after its baseline, lost frames and answers, presses before, between and after them | 3,649,694 | holds |
| `pull_calib` | 2 shots and one calibration exposure, JPEG, lost answers, a queue of one, fairness | 245,100 | holds |
| `run_and_pi` | `RunLifecycle`: 2 starts, 1 stop, 1 camera, patient; `PiGpio`: 1 client, 2 schedules of 2 frames, 4 calls, 1 fault; fairness of both | 1,203,360 | holds |
| `grid_and_match` | `CaptureGrid`: 2 members, 5 frames, dead after 2, 2 faults, 2 shots in flight, fairness; `CardMatch`: 5 rows, 1 or 2 runs, 7 settings of names, numbers and clocks, 3 directories, any journal, one flaw | 1,496,368 | holds |
| `fleet_converge` | 1 camera, 2 passes, 2 values, 2 events of faults and calls, fairness | 286,853 | holds |
| `host_parts` | ten components, see below | 1,339,936 | holds |
| `fleet_split` | 1 camera, no faults, 2 calls | | `SplitAlwaysSurvives` fails |
| `card_leftover` | 2 bodies, 2 runs, one directory | | `NoBodySwap` fails |
| `pull_slow_refusal` | 2 overlapping shots, no EXIF, no fault but a refused fire | | `FailedFireDatesNothing` fails |
| `pi_ghost` | a schedule, one write that raises | | `RunningMeansAlive` fails |

The runs of two components are side by side like `host_parts`: each behaviour is one of
one component, the other keeps its initial state, and the states are the sum: of
`pull_and_drain` 712,608 and 419,843, of `run_and_pi` 339,978 and 863,382, of
`grid_and_match` 1,460,416 and 35,952. The components share no variable, so nothing is
lost by not interleaving them.

`host_parts` explores ten components that share no state, one in each behaviour, so
its states are the sum of theirs: `TimeAuthority` 166,981 (2 senders, 5 instants),
`NavGateway` about 5,500, `NavHistory` 152,877, `EdgeMatch` 503,363 (3 shots,
as close as the window or further apart than a claim reaches),
`RunRecord` 26,378 (2 runs, a kill, a write that fails), `RunBrowser` 43,375 (2
threads, 2 runs, 2 requests, one write, a cache that is cleared at each store),
`CardPlace` 46,344 (2 sources for one
name, 3 ingests, 3 changes, a torn copy), `FramePairing` 32,602, `AnomalyScan` 33,850,
`DrainQueue` 328,664 (2 nodes, 2 requests, 2 drains).

The runs that fail confront a sentence of the source with what the code does; the
findings in `PROJECT.json` quote both.

**Why the bounds are enough.** A claim goes wrong between a frame and its
neighbour: two shots and a third exposure (on the body, old, away or
calibration) give every pair of "fire without frame" and "frame without fire".
Two stems make names recur within the run. One tick with `CmdMaxAge = 0` is
the least clock with which commands expire and the sibling window closes, and
`MaxGap` bounds an outage. Two attempts separate a retry from an abandonment; in
`pull_exact` one attempt makes the first failure final. Its presses are one tick before
a fire, one after it (within `Tol = 1` of 4), half-way between two and past the
tolerance of the last, so that two frames in a row may disagree with their claims. In `pull_adopt`
a press falls before, between and after two shots that may both be in flight
(`MaxFlight = 2`), so each fault can meet each order of answers and listings; with two
shots every command a frame can be shifted to is there. `MaxStrikes = 1` lets two
disagreeing frames switch the cross-check off. `QueueCap = 2` holds every shot;
`pull_calib` sets it to 1, so there the second command pushes the first out.
For the latch two runs are needed to inherit from. One camera is enough, for no
lifecycle rule relates two of them. Three contents exercise all three suffixes of
a landed file; two faults meet in one content; one crash at every step is
followed by a drain that has to cope with its leavings.

In `grid_and_match` two members are one that dies and one that goes on; `DeadAfter = 2`
still needs two shots in flight to be judged out of order, and five frames are enough
to pause, resume and pause again; two faults lose a member twice, or lose it and then
an answer or a late frame of its probe. In `fleet_converge` a fault and a call, or
two, meet in every order over the two passes; the cameras of a fleet are independent
but for the pin, which is one per fleet and modelled. In `run_and_pi` two schedules
are one that replaces the other, and four calls are a hold, a release, a fire and a
step in any order. `EdgeMatch` needs three shots for an edge with a neighbour on both
sides. Five rows are the least run of which one flaw leaves 0.8, two runs on a card are
enough for a file of another run to bear a row's number, and the settings of
`CardMatch` are those in which no number is shared (clocks apart and close), one
camera's or both cameras' numbers are their files', both bodies' names begin alike, and
a number is shared by one file of another run. (By hand, `RunBrowser` with two writes: 601,044 states, also holds.)

All instances but the drain's and `fleet_converge` end (shots, requests, calls and
clock run out), so their configurations do not check for deadlock; a drain can
always begin again, and the monitors poll for ever. `pull_and_drain` checks it: there
the pull worker may rest, the drain may not.

**Fairness.** `PullWorker!Fairness` is weak fairness of the worker's steps: a
thread that polls every 0.4 s whatever happens, catching every exception. Weak
fairness of `PollLists({})` says a node that is connected again is listed again
and every backoff (at most 0.55 s) runs out. `BodyNext` and the calibration pass
are fair, for a frame lands within its save latency and a pass ends by its
deadline. Fires, ticks, failures and the stop are not. `RunLifecycle!FairSpec` is
weak fairness of each start handler and of the tick: handlers do not block for
ever (every call they make has a timeout) and the tick is a loop of 5 s.
`CaptureGrid!Fairness`: the loop's and the shots' threads run, a fire answers or
times out, monitors poll, the backoff runs out, a frame lands; repairs are not
fair, the property assumes them. `FleetSettings!FleetFair`: the monitors and the 3 s
loop never end, a pass and a drain do, a link that was lost comes back and a stall
ends (the properties say what happens then), a preview has a time to live.
`PiGpio!FairPiSpec`: the threads of the agent and its watchdog run.
`NavGateway!FairGatewaySpec`: the reader's thread runs, a gateway with power says so
each second, and someone plugs it in again. `FramePairing`: the poll is a loop.

## 5. The proofs

TLAPS checks these for every value of the constants that meets the named assumption of
the module (`PullAssumption`, `LifeAssumption`, `GridAssumption`, `DrainAssumption`,
`DrainQueueAssumption`, `CardPlaceAssumption`, `RunBrowserAssumption`,
`RunRecordAssumption`, `AnomalyScanAssumption`, `TimeAuthorityAssumption`,
`NavHistoryAssumption`, `EdgeMatchAssumption`, `FramePairingAssumption`,
`CardMatchAssumption`, `MonitorAssumption`, `FleetAssumption` and `PiGpioAssumption`).
A theorem that needs more says so in its ASSUME.

* **`PullWorkerProofs`.** `IndInv` is `TypeOK`, `LedgerInv` (the claim invariant
  `OneReleasePerCommand`, with what was queued having been issued) and `InHand` (in
  each phase the worker has the file that phase needs). One lemma for each operation
  on the ledger (`NoteKeeps`, `ClaimKeeps`, `ReleaseFileKeeps`, `ReleaseStemKeeps`,
  `DropKeeps`) says that it keeps the invariant and is a step or a stutter of
  `ClaimLedger`; `LedgerStep` assembles them over the actions. That gives
  `TypeCorrect`, `ClaimsExclusive` and `LedgerRefined`. `MinIn` (a set of naturals has
  a least element) comes from the well-foundedness of subsets.

  For the rows and files, `Shoots`, `Lands`, `Takes`, `Dates`, `Writes` and the like
  say once what the actions do to names and exposures; one lemma shows that every
  step is one of these, and the invariants below are kept by each of them.
  - `FilesInv` ties names to exposures from the body to the host: a number on the
    node is one release's (`OneNumber`), a file to be dealt with is there and is
    dealt with once (`Tracked`), and a number that may still be taken for a written
    release's is that release's (`SiblingsMatch`). Hence `HalvesTogether`.
  - `OldInv`: with a baseline, whatever is older than the run has been seen. Hence
    `OldFramesStayOut`, for baselines in time or late, adopted or remembered.
  - `OwnInv`: an exposure within the tolerance of a command's instant is that
    command's own, or one nobody scheduled (`OwnInstants`: two fires are a period
    apart), so what the cross-check lets pass is right, for the frame in hand and for
    the stamp its name keeps through retries. Hence `RowsOwnTheirFires`, for any
    overlap of the shots and any exposures of the body's own, under `Sharp`: the
    offset is calibrated, and the tolerance (`_claim_tolerance`) is less than a
    period. It is 0.45 of one above 0.56 s, and 0.25 s below, which is less than a
    period down to 0.25 s; `MIN_INTERVAL_S` (0.20 s with the usual FOCUS lead) lets a
    run be faster than that, and then the check is too coarse. Without fractions of a
    second in EXIF it is 1.5 s at least, less than a period only above that.
  - `RowInv`: a file whose exposure has a row is not on its way to another. Hence
    `OneRowEach`. A second half must find the window of `_stem_dest` open
    (`HalvesInTime`): the code closes it after 30 s (`RAW_SIBLING_WINDOW_S`) so that
    numbers can come round, and a half later than that does get a row of its own.
    With one file to a release there is nothing to assume (`OneFile`).
  - `PassAlone`: a calibration pass has the node to itself, and what is there is
    what it listed first and its own exposure. With `CalInv` (the worker has not
    listed what is not yet named) it gives `CalibrationsStayOut`, for `OneFile`: of
    two halves only the one the first listing shows is named (section 6).
  - `PastInv` and `SurveyKept`: what was seen was on the node, what is named as a
    calibration's is one's, nothing is fired before the baseline; and a survey file
    is on its way, or on the node and not yet seen, or on the host, or in
    `unpulled.jsonl`. Hence `FramesStay`, under `NoRollover` (fewer exposures in a run
    than the camera has numbers: the worker forgets no name it has seen, so a number
    used again would be passed over) and `BaselineSorts` (the worker is adopted with
    the names it had seen, or no frame of the run precedes its baseline).
* **`RunProofs`, the lifecycle.** `RunXorDrain` is inductive once `DrainFree` and
  `Refused` are read under the run lock, as the code does: `RunsAndDrainsExclude`
  needs no patience. `GridEndsWithItsRun` assumes `Patient`: then at most one stop
  waits, and the run it finalises is the one it signalled (`PatientStep`).
  `DecisionInv`: a decision that is bound to no run is of a start in flight, and was
  taken when the newest run, or the one before it, was the newest; a latch, or a stale
  tick, names a run that was created. So a decision that governs was taken
  (`latch.at`) no earlier than when there was one run less. `DecisionsAreNotInherited`
  needs no patience and no bound on starts.
* **`RunProofs`, the pairing.** `PairInv`: what is queued is in order and after what
  was fed, what was fed is in order, and what was listed is queued, fed, counted or
  raised, and nowhere else. A pair is one fire because half the median gap of frames a
  period apart, and the tolerance of the first frames too, is more than the skew of
  two cameras and less than what parts two fires (`FramePairingAssumption`).
  `FeedStaysHonest` holds for any fires, losses, delays and raises.
* **`CaptureGridProofs`.** `GridTypeOK` also says that the roster of a shot in flight
  is exactly who is awaited, who answered and who failed. `LonelyInv` is why the
  others stop: each lonely shot is a failure that was judged, which is in the streak
  of the member, or one that is still in flight, of which there are `MaxFlight` at
  most; and a streak of `DeadAfter` is a pause. Hence `ShotsAloneBounded`. The bound
  was false at first for a member that is dead, switched off, and on again while the
  loop is asleep: it is fired at once more. The count now begins again there.
  `ProbesAccounted` and `ResumesByFrame` follow from what each state of the loop knows
  of the probe's frame.
* **`CardDrainProofs`.** `DeletedOnlyWhenSafe` alone is not inductive: a delete is
  safe because of what earlier steps did. `DrainInv` says, step by step, what is
  known of the content in hand: unless something failed, its files are all left
  or staged while pulling (`PullInv`), landed files show it under the chosen suffix
  (`LandInv`), what landed is durable once the directory was synced (`RecordInv`),
  and a delete is entered with every file durable under one suffix (`DeleteInv`).
  `HashNames` says a file whose name carries a hash holds the bytes of that hash,
  which is why the third suffix never overwrites; `DurableShown` that a durable
  file is a visible one. `HashesOutlive` adds `LedgerInv`, that `memo` claims no
  more than `sums` holds, and needs whole appends (`~TornAppends`).
* **`HostPartsProofs`, the drain queue.** `DrainIsOrderly` follows from an invariant
  of three parts. `OneWorker`: one drain at most is at work, the one claimed last, and
  the claim stands exactly while it is. `HoldsItsQueue`: in each phase the worker
  holds a node, no run is on, and what is left of its queue is suspended. The marks'
  part ties a mark to how the node's last drain ended and to the reboots seen then.
* **`HostPartsProofs`, the run browser.** `Knows` says at each step of a request what
  it has read of each file: no less than when it was asked, no more than there is now,
  and for the files it has yet to read nothing. `EntriesKnow` says the same of a cache
  entry: it was read after it was signed, so when its signature still matches the
  files it is what they hold. `BrowserShowsTheRun` is `BrowserIsCurrent` for any
  threads, runs, requests, writes and cache size; `ReadersAreServed` puts it beside
  `RecordsStayHonest`.
* **`HostPartsProofs`, the records of a run.** A camera has one frame in hand in a
  run, numbered after those it has saved, and a frame in hand is not in any index yet
  (`HandsInOrder`); that is why a line is never written twice, whatever is killed
  (`ListsInOrder`). `RunsInOrder` says which runs are final: all that are over, but for
  those whose last word, or last recovery, the disk refused. While no write failed,
  `RecordsFollow`: image, row, line and `run.json` follow one another, and what is
  missing from the next is in hand, or was when its run ended. `RecordsStayHonest` is
  `RecordsAreHonest` for any cameras, frames, runs, kills and failed writes.
* **`HostPartsProofs`, the alarms.** `JournalLeads`: a scan at work has journalled what
  it is about to remember, and nobody else can scan; so each fault is journalled once.
  `StreaksCount`: a streak of k is k scans in which the pair disagreed. `WritesAreQuiet`
  bounds the age of a write by the scans that did not contradict it, which a node that
  is offline does not. `ScansAreHonest` is `ScanIsHonest` for any nodes, threads and
  thresholds.
* **`HostPartsProofs`, the time authority.** `Stamping` is `HeardInv` (a candidate is
  what was last heard of its sender), `SpansInv` (near every instant a span reaches, a
  satellite sender agreed with itself on its offset) and `PastInv` (until spans are
  dropped, the newest span that began by an instant is the one that keeps what stood
  there). `StampsAreEarned` needs `OffsetsDoNotDrift`: agreement to `CONFIRM_TOL_S` is
  not transitive, and a span that grows takes its last offset (section 6). `Heeded`: a
  sender that agreed with itself has had a confirmation since its last word, or, for
  the other PGN, within the bound; it needs `OneSenderOfEach`, for two senders of one
  PGN can starve each other (section 6). Hence `AuthorityStaysHonest`, for any
  cadence, silence, dispute, step and bound.
* **`FrameProofs`, the nav history.** `HistoryInv`: a ring is in the order of its
  instants, none of them to come, and the latest sample is its newest. The walk of
  `_nearest` back through the ring keeps the nearest so far and stops at a sample
  before which, in an ordered ring, nothing can be nearer. `HistoryStaysHonest` holds
  for any ages, lengths and samples.
* **`FrameProofs`, the edges.** `EdgeInv`: the ring has one fall and one rise of a shot
  at most, at their instants (`RingIsTrue`), a buffer holds only what was read, each
  once (`HoldsRead`), and a stamped edge was read and is in no buffer (`Unused`,
  `StampedWasRead`). So what is returned is what was taken, and an edge that the
  cross-check lets pass is of an exposure within the tolerance of the frame's own,
  whatever identity the node gave it. Hence `EdgesStayHonest`, for any gaps between
  exposures and any missed, soft or misnamed edges; nothing is assumed of the gaps.
* **`FrameProofs`, the cards.** A count of files over rows is the size of a finite
  set, so which offset wins is a matter of injections between such sets. The body's
  true offset lays each of its files over its own row; with one flaw it is at most one
  file short of the best count, and so among those that are close to it. An offset a
  period off loses a row at one end and so is worse, or level where the flaw is at
  that end: then the journal decides, or the tie is refused. For the numbers: a series
  that shows one offset does so on the files that bear the rows' numbers, and more than
  half of those are the rows' own exposures (`NumbersAreRight`), so their median is the
  offset of one of them, the true one (`MedianIs`); and where the series is another
  body's, it can be taken only if nothing told the bodies apart (`BodiesAreTold`).
  `PassesInOrder` and `FilesStay` say why the files are still there when a body's turn
  comes, `NumbersSuffice` why a camera whose numbers are its files' never comes to the
  pass by time without its series. Hence `FramesStayInRow`, and with `Whole` (a clear
  card's camera has all its files or its pass is to come) `CardsStayAttributed`.
  `Recognisable` asks for a run of five rows or more (a share of 0.7 or 0.8 of less is a
  row or two), shots two bins apart, a journal whose error is within its reach of 2 s,
  and a directory that says whose cards it holds. What the bodies' clocks, names and
  numbers are is not assumed: it is a condition of the property, on the scene
  (`NumbersAreRight`, `BodiesAreTold`, `Clear`), and where it does not hold the code
  does give one body's files to the other (section 6).
  The instance of `grid_and_match` meets it all. TLC shows what each keeps out: with shots one bin apart,
  two rows and copies that say nothing of their body, `FramesKeepTheirRow` fails; with
  clocks that are close, or a journal that is further out than it reaches, a clear card
  is not matched whole (it is refused, not misfiled). With three or four rows the
  instances that were tried hold; the proof needs five.
* **`FrameProofs`, the placing.** `NoBytesLost` needs to know why a source may be
  removed: `RemovalIsSafe` says that while `place()` is about to unlink, the bytes are
  at the run's name or were changed there since; `LinksAgree` that a source which
  shares the inode shows what the name shows. `SumsCatchChanges` needs `ChangesShow`,
  for which `AllAged` says that changed bytes are new ones.
* **`PiGpioProofs`.** `ShotsInOrder` and `LoopsInOrder`: the lock, the fire in flight
  and the schedule's thread that waits for it are one, who was not told to stop is
  `_interval_stop`'s owner, and when nobody is although the state says running, the
  owner died of a write that raised (`Orphan`). `WireInOrder`: the line may differ from what its owner wants
  only within a fire that lowered it for itself. The rest is about edges. `PipeInOrder`
  says what is stamped and not read yet: it is of the latest fire or the body's own, a
  rise follows each fall, and behind a rise that was recorded no fall of the same
  exposure is left. `GivenOnce`: an identity is given to one fall and one rise, and the
  fire that still waits has given its to none. `Identified` is why a rise may take the
  identity of the open fall: as long as that fall's own monitor lives, the rise that
  closes it is still to come, so no later fire has aimed. `FallsKept`: what a fall is
  compared with is on record, so a fall that is dropped costs nothing. Hence
  `ShutterStaysHonest` and `ExposuresStayRecorded`, for any clients, schedules, leases,
  calls and faults, under PIPE LAG (section 2), which `Identified` needs.
* **`FleetSettingsProofs`.** `RosterInv` says a hold is no longer than the streak of
  degraded answers that pays for it. `CacheInv` says a pass whose `_pushed` was
  replaced beneath it is behind an empty one. For `SplitSurvives` the question is
  why a pass never writes exposure where nobody asked: `SplitEnds` says that who is
  previewed, asked for, or about to be written has no split left. The last case is
  a camera taken for one that reset, and `TellInv` is about it: unless the camera
  reset, was missed, or is being written (`Sure`), its body has the readable settings
  of the vector (`BodyMatches`), and so has any status newer than our last write
  (`SeenMatches`); a pass that has written nothing and finds the camera right judged
  it by a status that was right (`JudgesWell`), and a forced pass always writes
  (`ForcedWrites`). `CallsDo`, `PassesDo` and `WorldDoes` say once what the three kinds
  of step do, and the other lemmas use them. An older form of `SplitSurvives`, without
  the exclusion of cameras that missed an apply, passed TLC on the small instance
  and failed on a larger one (section 6); the proof shows that what is excluded now
  is enough for every instance.

TLC checked each property on the instances above, and each inductive invariant,
before it was proved. `NoFrameVanishes` was also run with RAW+JPEG, a calibration, an
adopted worker and early fires (4,057,210 states), `LonelyInv` with one failure to a
pause (27 million states, not to the end), `RecordInv` with two cameras (11.8 million,
not to the end), `PiInv` with three faults (15 million, not to the end).

Walks, lists, sorts and counts are data, and the library's induction theorems cannot
be instantiated here. The proofs go round that. A set of numbers has a least element
(`LeastOf`), by the well-foundedness of its subsets, and so a greatest when it is
bounded (`GreatestOf`); what holds of 0 and passes to the next holds along an interval
(`Along`); a walk is a function on an interval and exists (`WalkExists`,
`ListExists`), which gives the folds their values; and a CHOOSE over ranks finds the
least rank there is.

**Only model-checked.** The liveness properties: `PendingSettles`, `LatchIsReleased`,
`TransectCompletes`, `CameraRejoins`, `DebtIsPaid`, `FormatConverges`,
`HoldEndsWithItsOwner`, `BusIsJoined` and `PairingFeeds`. Fairness and `ENABLED` are
beyond the prover. Every invariant and every action property of a passing run has a
theorem, some under the hypotheses named above; where an instance does not meet
them, TLC's run is what there is.

No module here declares a RECURSIVE operator.

## 6. Known disagreements

Four are runs of their own:

* `fleet_split` (`rigcore.py:1851`): a pass of the 3 s loop between an apply and its
  own write takes the body for one that was reset and overwrites the split.
* `card_leftover` (`ingest.py:879`): files left of one camera's own series count as
  "the one left over" and are given to the other camera.
* `pull_slow_refusal` (`run.py:2817`): a fire that is known to have failed only after
  its two seconds has had its command claimed by the next shot's frame, which was
  listed before; `drop_command` then finds nothing to drop.
* `pi_ghost` (`piagent.py:1187`): a pin write that raises in a schedule's fire ends its
  thread; `running` stays set, and schedules and clock steps are refused until
  somebody stops a schedule that is not there.

The others show in the models when the trigger is let in; the passing instances
keep it out, by the bound or constant named.

* `run.py:720`: a node out of reach for longer than `CMD_MAX_AGE_S` has its queue
  expired before its spool is listed; the frames that waited there are dated by
  later fires if there is no EXIF (`RowOwnsItsFire` with `MaxGap` above the age).
* `run.py:572`: an adopted worker is given commands as soon as it is in `workers`,
  before its baseline; the frame of such a fire is taken for backlog, barred from
  claiming, and its command goes to the next frame. The comment there has it that no
  command queued can be the backlog's. `pull_adopt` lets it happen: such frames are
  among those that took no command, by which `ShiftWithinFaults` bounds the shift.
* `ingest.py:343`: a camera's numbers are looked for in the other body's series too, and
  a series that bears them is taken as a certain match, ahead of the journal. Two bodies
  that count alike, with both cards in one directory, are enough: the first camera is
  given the second one's files, or the other way round (`FramesKeepTheirRow` without
  `NumbersAreRight`).
* `run.py:3787`: of a RAW+JPEG calibration exposure only the halves the first listing
  shows are named; the other is pulled as survey data (`CalibrationKeptOut` with
  `Formats <- RawJpeg`).
* `drain.py:200`: an append to `SHA256SUMS` that fails half-way leaves a torn line,
  the next append is glued to it (`HashOnRecord` with `TornAppends`).
* `run.py:2498`: of two overlapping stops the slower one finalises a run that was
  started in between (`GridFiresForActiveRun` without `Patient`).
* `run.py:2458`: the adopting thread may start a worker after `stop` took its list;
  nobody tells that worker to stop. `RunRecord` shows what it does to the record:
  its frames are refused as late ones.
* `rigd.py:493`: a tick whose status is stale may release the decision of a run
  that records; a decision taken while it records then governs it.
* `rigd.py:467`: a stale tick may bind the latch of a start in flight to the run
  that was stopped, which opens the latch to a third start; the second one's run
  records unbound, and the third takes a decision made before it was created. It
  needs no tick: a start may itself bind the decision of the next one, its stop
  releases it, and the third start takes the latch before the run of the second is
  there (21 steps, with `Patient`). So "the decision was taken after the previous run
  was created" is not a property of this code once starts overlap. What is, and is
  proved, is `NoInheritedDecision`: the start that took it was in flight when the run
  was created, or came later.
* `nav.py:808`: a span that is extended takes the newest offset for all its instants.
  An offset that drifts, by less than `CONFIRM_TOL_S` each time, changes what an old
  instant of the span is stamped with by more than that, where `_covering_span` takes
  it to be constant (`AuthorityIsHonest` with offsets 0, 1, 2 and a tolerance of 1, 10
  states). The offsets of `host_parts` agree or step, and `OffsetsDoNotDrift` is what
  the proof assumes. A host clock drifts by far less than 0.5 s within the seconds
  between an exposure and its stamp.
* `nav.py:925`: of the live senders only the best one confirms, and of two senders of
  one PGN the better is the one with the steadier cadence (`_sender_rank`,
  `nav.py:784`). When their cadences get worse by turns, each word makes the other one
  the best, so neither is the best when it speaks: both agree with themselves and
  nothing is confirmed for longer than the bound, where `nav.py:672-680` and
  `1027-1029` have it that no sender is starved (`NoSenderIsStarved` with two
  satellite senders of one offset, `Stale = 3`, nine instants). Stamps fall back to
  the host's clock meanwhile; none is wrong.
* `run.py:2975`: the late verdict of a shot fired before the pause clears the streak
  and ends the pause without a probe. `ResumedByFrame` speaks of probes only.
* `rigcore.py:1703`: a camera that is offline during a drain misses an apply and is
  not remembered as having missed it. If it comes back while the drain still holds
  it, no reconnect is armed; after the release its settings differ from the vector,
  which reads as a reset, and an exposure split is overwritten (`SplitSurvives`
  without the nodes that `SkipUnconnected` adds to `lapsed.verdict`, 14 steps with
  two faults and two calls).
* `rigcore.py:1695`: a preview that expires in the loop leaves its value on the
  camera, where `PROTOCOL.md:479` has it that a forgotten preview costs one TTL; no
  property here says otherwise.
* `rigcore.py:2488`: `shots()` reads the cache after `detail()` has returned; another
  thread may have cleared it by then, and the page is empty. `DetailIsCurrent`
  speaks of `detail()` only.
* `vslam.py:1298`: in mono a feed that raises leaves what was fed before it in the
  queue, and it is fed again (`FedInOrder` is about feeds that do not raise).
* `rigd.py:1522`: a format checks for a run and a drain and claims nothing.

## 7. What is not modelled, and what the models assume

* The static-fix decision never lapses: a start answers within `START_GRACE_S`.
* EXIF, where it is calibrated, is right. A wrong offset would make every frame
  disagree; the strike budget for that case is modelled (it is counted, and the
  check goes off), but the wrong stamps are not.
* No shot is fired before the worker's baseline in `pull_exact`, `pull_and_drain` and
  `pull_calib` (`EarlyFire = FALSE`); `pull_adopt` lets it be. A
  frame of an outage is not taken before its worker exists unless `AwayExp` says so.
* A press on the body that is within the claim tolerance of a fire passes for that
  fire's frame, and may take its command while the fire's own frame is dated from
  EXIF; `RowOwnsItsFire` admits it, for nothing in the code can tell the two apart.
  Frames in flight when a worker is adopted are not in its backlog and may claim, as
  the comment at `run.py:578-580` says; `ShiftWithinFaults` counts them as strangers
  (`late`) or as frames that took no command. A retried download may claim a command
  that was queued later (`run.py:1101`).
* The reconcile loop's skip of a camera that is switched off (`is_capturing()`,
  `rigcore.py:1752`): no camera of `FleetSettings` is out of play, so what is owed to
  such a camera is not spoken of by `DebtIsPaid` and `FormatConverges`.
* A listing is complete and a complete download is right: sizes, JPEG markers and
  TIFF headers are one outcome, "the download fails".
* An append to `SHA256SUMS` and its sync are one step, and a power loss leaves the
  file whole. The drain's `limit` is left out.
* A release given up on, whose other half then claims the next command
  (`run.py:813`), a delete whose answer is lost and whose name comes round
  (`run.py:1034`), a calibration frame later than the quiet (`run.py:4229`), a start
  slower than the grace (`rigd.py:349`), the suffix of a content one file of which
  landed in an earlier drain (`drain.py:576`): the bounds or the steps of the models
  keep these out, and no property speaks of them.
* Settings: the validation against the body's choice lists, exposure compensation,
  alarm strikes and `desired.json`. Monitor: the clock exchange. Agent: the gpioset
  fallback, the strobe line, parking, the ring's length and the age limit of an
  open edge. Grid: the strobe and the arithmetic of the instants.
* The trigger latencies, offsets, navigation rows and IMU attitudes that a row
  carries are data no property here speaks of; nor are the decoders of N2K and of
  the Subsonus, which are arithmetic over bytes.
* Whole components, with the reason, are in `PROJECT.json`: the camera daemon
  (a driver of a closed SDK, the environment of four modules here), the NMEA log,
  projects, IMU sources, calibration tools, user interface, deployment.

## 8. Where to go on

1. `CardsAreAttributed` for runs of three and four rows, and for two flaws, where the
   refusals of `_offset_by_time` begin to matter; a body's numbers that begin anew
   within a card.
2. Compositions: `NodeMonitor` below `CaptureGrid` (whose `Poll` it refines), and
   `PiGpio` below `EdgeMatch` (whose `Shoot` it refines).
3. The format call of `rigd.py:1522` in `RunLifecycle`, with a claim of its own.
4. The validation of settings and the persisted vector across a restart of rigd.
