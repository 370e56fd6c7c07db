----------------------------- MODULE RunReaders -----------------------------
(***************************************************************************)
(* A run and those who read of it: RunRecord is what the run leaves on the *)
(* disk, RunBrowser the threads that look at it while it is written.  What *)
(* the one writes is to the other only that a file has grown, so the two   *)
(* share no state: each has its own part of a behaviour.                   *)
(***************************************************************************)
EXTENDS RunRecord, RunBrowser

ReadersSpec == RecordSpec /\ BrowserSpec

\* What a run leaves on the disk is whole (RecordsAreHonest, of index_frame, stop
\* and _recover_runs), and what the run browser shows of it is current
\* (BrowserIsCurrent, of detail() and its cache).
ReadersSeeTheRun == RecordsAreHonest /\ BrowserIsCurrent
=============================================================================
