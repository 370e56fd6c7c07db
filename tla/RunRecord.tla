----------------------------- MODULE RunRecord -----------------------------
(***************************************************************************)
(* What a run leaves on the disk: the images, each camera's flight_log,    *)
(* index.jsonl and run.json (rig/run.py, PullWorker._write_flight and      *)
(* RunManager.index_frame, _write_run_json, start, stop), what becomes of  *)
(* them when rigd is killed (rig/rigd.py, _recover_runs) and what a reader *)
(* sees (rig/ingest.py, read_frame_index).                                 *)
(*                                                                         *)
(* A worker saves the image, appends its row, and hands it to the index:   *)
(* a line of index.jsonl each, run.json whole every so many.  A worker may *)
(* outlast the stop of its run, and finish while the next one records.     *)
(* A write the disk refuses is done without: of run.json, what was there   *)
(* before it stays.                                                        *)
(***************************************************************************)
EXTENDS Integers, Sequences, FiniteSets, FiniteSetsExt, SequencesExt

CONSTANTS
    Cams,          \* the cameras
    Every,         \* frames between two writes of run.json: 10 in the code
    TailKept,      \* entries of run.json's index: 2000 in the code
    MaxRuns,       \* bound: runs
    MaxSaved,      \* bound: frames of one camera in a run
    MaxKills,      \* bound: kills of rigd
    MaxIoErrors    \* bound: writes that fail

ASSUME RunRecordAssumption ==
    /\ IsFiniteSet(Cams)
    /\ {Every, TailKept, MaxRuns} \subseteq Nat \ {0}
    /\ {MaxSaved, MaxKills, MaxIoErrors} \subseteq Nat

VARIABLES
    up,         \* rigd runs, and has recovered
    begun,      \* runs begun, each in a directory of its own
    current,    \* the active run; 0 when there is none
    memory,     \* active["index"]
    handles,    \* open appenders: <<run, cam>> of a flight_log, run of an index
    hands,      \* frames a worker holds between two writes
    images,     \* the frames on disk
    rows,       \* the frames in a flight_log
    lines,      \* index.jsonl of every run
    docs,       \* run.json of every run
    mishaps,    \* kills and failed writes so far
    excused,    \* history: frames in hand when their run was stopped or killed
    unsaid      \* history: runs whose last word, or last recovery, was refused

recordVars == <<up, begun, current, memory, handles, hands, images, rows, lines,
                docs, mishaps, excused, unsaid>>

Runs == 1..MaxRuns
NoDoc == [index |-> <<>>, frames |-> 0, final |-> FALSE, there |-> FALSE]
NoHand == [frame |-> <<0, 0, 0>>, at |-> "none"]

RecordInit ==
    /\ up = TRUE /\ begun = 0 /\ current = 0 /\ memory = <<>>
    /\ handles = {} /\ hands = {}
    /\ images = {} /\ rows = {}
    /\ lines = [r \in Runs |-> <<>>]
    /\ docs = [r \in Runs |-> NoDoc]
    /\ mishaps = [kills |-> 0, io |-> 0]
    /\ excused = {} /\ unsaid = {}

\* The writes of a handler are all done, or the disk refuses some of them.
DiskTakes(fine) ==
    IF fine THEN UNCHANGED mishaps
    ELSE /\ mishaps.io < MaxIoErrors
         /\ mishaps' = [mishaps EXCEPT !.io = @ + 1]

\* _write_run_json(): replaced whole, or not at all.
Doc(index, final) ==
    [index |-> LET n == Len(index) IN
               SubSeq(index, IF n > TailKept THEN n - TailKept + 1 ELSE 1, n),
     frames |-> Len(index), final |-> final, there |-> TRUE]

-----------------------------------------------------------------------------
(***************************************************************************)
(* A run.                                                                  *)
(***************************************************************************)
\* start(): fresh workers; a log or an index that cannot be opened is done
\* without, and so is the first run.json.
StartRecord(r) ==
    /\ up /\ current = 0
    /\ r = begun + 1 /\ begun' = r
    /\ current' = r /\ memory' = <<>>
    /\ \E missing \in SUBSET (Cams \cup {0}), doc \in BOOLEAN :
        /\ DiskTakes(missing = {} /\ doc)
        /\ handles' = handles \cup {<<r, c>> : c \in (Cams \cup {0}) \ missing}
        /\ docs' = IF doc THEN [docs EXCEPT ![r] = Doc(<<>>, FALSE)] ELSE docs
    /\ UNCHANGED <<up, hands, images, rows, lines, excused, unsaid>>

\* A worker takes a frame in; stop() may leave it behind with it.
TakeFrame(c) ==
    LET n == Cardinality({f \in images : f[1] = current /\ f[2] = c}) + 1 IN
    /\ up /\ current # 0 /\ n <= MaxSaved
    /\ \A h \in hands : <<h.frame[1], h.frame[2]>> # <<current, c>>
    /\ hands' = hands \cup {[frame |-> <<current, c, n>>, at |-> "pull"]}
    /\ UNCHANGED <<up, begun, current, memory, handles, images, rows, lines, docs,
                   mishaps, excused, unsaid>>

SaveImage(h) ==
    /\ h.at = "pull"
    /\ images' = images \cup {h.frame}
    /\ hands' = (hands \ {h}) \cup {[h EXCEPT !.at = "saved"]}
    /\ UNCHANGED <<up, begun, current, memory, handles, rows, lines, docs, mishaps,
                   excused, unsaid>>

\* _write_flight(): a log that refuses a row is given up.
LogRow(h) ==
    LET log == <<h.frame[1], h.frame[2]>> IN
    /\ h.at = "saved"
    /\ hands' = (hands \ {h}) \cup {[h EXCEPT !.at = "logged"]}
    /\ \E fine \in BOOLEAN :
        /\ fine \/ log \in handles
        /\ DiskTakes(fine)
        /\ rows' = IF fine /\ log \in handles THEN rows \cup {h.frame} ELSE rows
        /\ handles' = IF fine THEN handles ELSE handles \ {log}
    /\ UNCHANGED <<up, begun, current, memory, images, lines, docs, excused, unsaid>>

\* index_frame(): the frame of another run than the active one is refused.
MutantAnyRunWillDo(h) == current # 0
Indexable(h) == h.frame[1] = current

\* run.json is rewritten every so many frames.
RewriteDue(index) == Len(index) % Every = 0

RefuseLate(h) ==
    /\ h.at = "logged" /\ ~Indexable(h)
    /\ hands' = hands \ {h}
    /\ UNCHANGED <<up, begun, current, memory, handles, images, rows, lines, docs,
                   mishaps, excused, unsaid>>

IndexFrame(h) ==
    LET index == Append(memory, h.frame)
        open == <<current, 0>> \in handles
    IN
    /\ h.at = "logged" /\ Indexable(h)
    /\ memory' = index
    /\ hands' = hands \ {h}
    /\ \E line, doc \in BOOLEAN :
        /\ line \/ open
        /\ doc \/ RewriteDue(index)
        /\ DiskTakes(line /\ doc)
        /\ lines' = IF line /\ open THEN [lines EXCEPT ![current] = Append(@, h.frame)]
                    ELSE lines
        /\ handles' = IF line THEN handles ELSE handles \ {<<current, 0>>}
        /\ docs' = IF doc /\ RewriteDue(index)
                   THEN [docs EXCEPT ![current] = Doc(index, FALSE)] ELSE docs
    /\ UNCHANGED <<up, begun, current, images, rows, excused, unsaid>>

\* stop(): the last word on the run, once the workers were waited for; the
\* ones that are still at it keep their logs and are late.  The run is over
\* also when the disk refuses that word.
StopRecord ==
    /\ up /\ current # 0
    /\ \E said \in BOOLEAN :
        /\ DiskTakes(said)
        /\ docs' = IF said THEN [docs EXCEPT ![current] = Doc(memory, TRUE)] ELSE docs
        /\ unsaid' = IF said THEN unsaid ELSE unsaid \cup {current}
    /\ handles' = handles \ {<<current, 0>>}
    /\ current' = 0 /\ memory' = <<>>
    /\ excused' = excused \cup {h.frame : h \in hands}
    /\ UNCHANGED <<up, begun, hands, images, rows, lines>>

-----------------------------------------------------------------------------
(***************************************************************************)
(* A kill, and the start after it.                                         *)
(***************************************************************************)
\* At any point; also within index_frame(), after its line was flushed.
KillRig(h) ==
    /\ up /\ mishaps.kills < MaxKills
    /\ mishaps' = [mishaps EXCEPT !.kills = @ + 1]
    /\ h # NoHand => h.at = "logged" /\ Indexable(h) /\ <<current, 0>> \in handles
    /\ lines' = IF h = NoHand THEN lines
                ELSE [lines EXCEPT ![current] = Append(@, h.frame)]
    /\ up' = FALSE /\ current' = 0 /\ memory' = <<>>
    /\ handles' = {} /\ hands' = {}
    /\ excused' = excused \cup {x.frame : x \in hands}
    /\ UNCHANGED <<begun, images, rows, docs, unsaid>>

\* _recover_runs(): every run that was never finalised is closed with the
\* rows of its flight_logs; one whose run.json the disk refuses is left.
FlightRows(r) == {f \in rows : f[1] = r}
Recounted(r) ==
    LET n == Cardinality(FlightRows(r))
    IN  IF n = 0 THEN docs[r].frames ELSE n
NeverFinal(r) == docs[r].there /\ ~docs[r].final

RecoverRuns ==
    /\ ~up
    /\ up' = TRUE
    /\ \E refused \in SUBSET {r \in Runs : NeverFinal(r)} :
        /\ DiskTakes(refused = {})
        /\ docs' = [r \in Runs |->
                      IF NeverFinal(r) /\ r \notin refused
                      THEN [docs[r] EXCEPT !.final = TRUE, !.frames = Recounted(r)]
                      ELSE docs[r]]
        /\ unsaid' = refused
    /\ UNCHANGED <<begun, current, memory, handles, hands, images, rows, lines,
                   excused>>

RecordNext ==
    \/ \E r \in Runs : StartRecord(r)
    \/ \E c \in Cams : TakeFrame(c)
    \/ \E h \in hands : SaveImage(h) \/ LogRow(h) \/ IndexFrame(h) \/ RefuseLate(h)
    \/ StopRecord
    \/ \E h \in hands \cup {NoHand} : KillRig(h)
    \/ RecoverRuns

RecordSpec == RecordInit /\ [][RecordNext]_recordVars

-----------------------------------------------------------------------------
(***************************************************************************)
(* Properties.                                                             *)
(***************************************************************************)
\* read_frame_index() and RunBrowser._read_index(): index.jsonl if it has a
\* line, else run.json's tail.
ReadIndex(r) == IF lines[r] # <<>> THEN lines[r] ELSE docs[r].index
Indexed(r) == ToSet(ReadIndex(r))
\* What list_runs() says of a run.
Summary(r) == [there |-> docs[r].there, frames |-> docs[r].frames,
               final |-> docs[r].final]
Settled(r) == up /\ Summary(r).there /\ r # current

\* A run that is over says so, whether it was stopped or killed, unless the disk
\* refused what stop() had to say of it and rigd did not start again since, or
\* refused that start too: one start whose writes succeed closes every run
\* (_recover_runs).
ClosedRunsAreFinal ==
    \A r \in Runs : Settled(r) => Summary(r).final \/ r \in unsaid

\* The readers of a run's index see its own frames only, each once.
NoForeignFrames ==
    \A r \in Runs :
        /\ \A f \in Indexed(r) : f[1] = r /\ f \in images
        /\ Len(ReadIndex(r)) = Cardinality(Indexed(r))

\* Every frame of a closed run that has its row is in the index the readers
\* see, but for one in hand when it was stopped or killed (contract C3), as long
\* as no write failed.
RecordIsWhole ==
    mishaps.io = 0 =>
        \A r \in Runs : Settled(r) =>
            FlightRows(r) \subseteq Indexed(r) \cup excused

\* The count of a closed run is never less than the frames its index shows.
CountCoversIndex ==
    mishaps.io = 0 =>
        \A r \in Runs : Settled(r) => Summary(r).frames >= Cardinality(Indexed(r))

RecordsAreHonest ==
    ClosedRunsAreFinal /\ NoForeignFrames /\ RecordIsWhole /\ CountCoversIndex
=============================================================================
