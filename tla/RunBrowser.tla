----------------------------- MODULE RunBrowser -----------------------------
(***************************************************************************)
(* The run browser's cache (rig/rigcore.py: RunBrowser.detail and shots).  *)
(*                                                                         *)
(* Every request has a thread of its own.  detail() stats the files of a   *)
(* run, and answers from the cache when what it finds is what the entry    *)
(* was signed with; else it reads the files, one after another, while the  *)
(* run may be writing them, and stores what it read.  shots() calls        *)
(* detail(), and takes its page from the entry that is there by then.      *)
(***************************************************************************)
EXTENDS Integers, FiniteSets, Sequences

CONSTANTS
    Viewers,       \* threads of the HTTP server
    Viewed,        \* the runs they look at
    CacheMax,      \* entries the cache may hold before it is cleared: 16
    MaxViews,      \* bound: requests
    MaxGrowth      \* bound: writes to the files of the runs

ASSUME RunBrowserAssumption == {CacheMax, MaxViews, MaxGrowth} \subseteq Nat

\* In the order detail() reads them.
RunFiles == <<"run.json", "index.jsonl", "flight_log.csv">>
Ranks == DOMAIN RunFiles
NoneRead == [i \in Ranks |-> 0]

VARIABLES
    written,    \* run -> what its files hold: the number of writes to each
    viewer,     \* thread -> the request it serves
    cached,     \* _cache: run -> [sig, seen], for the runs in it
    views,      \* requests so far
    growth      \* writes so far

browserVars == <<written, viewer, cached, views, growth>>

NoView == [at |-> "idle", run |-> "none", page |-> FALSE, sig |-> NoneRead,
           seen |-> NoneRead, asked |-> NoneRead, next |-> 1]

BrowserInit ==
    /\ written = [r \in Viewed |-> NoneRead]
    /\ viewer = [v \in Viewers |-> NoView]
    /\ cached = <<>>
    /\ views = 0 /\ growth = 0

-----------------------------------------------------------------------------
\* The run under way, or the recovery of one: a file is appended to or
\* replaced, and its size or mtime shows it.
FileGrows(r, i) ==
    /\ growth < MaxGrowth /\ growth' = growth + 1
    /\ written' = [written EXCEPT ![r][i] = @ + 1]
    /\ UNCHANGED <<viewer, cached, views>>

Ask(v, r, page) ==
    /\ viewer[v].at \in {"idle", "answer"} /\ views < MaxViews
    /\ views' = views + 1
    /\ viewer' = [viewer EXCEPT ![v] = [NoView EXCEPT !.at = "stat", !.run = r,
                                            !.page = page, !.asked = written[r]]]
    /\ UNCHANGED <<written, cached, growth>>

\* The signature: each file as it is when it is stat'd.
StatsNext(v) ==
    LET w == viewer[v] IN
    [w EXCEPT !.sig[w.next] = written[w.run][w.next],
              !.next = IF w.next = Len(RunFiles) THEN 1 ELSE @ + 1,
              !.at = IF w.next = Len(RunFiles) THEN "lookup" ELSE @]
Stats(v) ==
    /\ viewer[v].at = "stat"
    /\ viewer' = [viewer EXCEPT ![v] = StatsNext(v)]
    /\ UNCHANGED <<written, cached, views, growth>>

Answered(v, seen) == [viewer[v] EXCEPT !.at = IF viewer[v].page THEN "page"
                                               ELSE "answer", !.seen = seen]

\* An entry that run.json alone is compared with.
MutantSignsOneFile(v) == LET w == viewer[v] IN
          w.run \in DOMAIN cached /\ cached[w.run].sig[1] = w.sig[1]
Hit(v) == LET w == viewer[v] IN
          w.run \in DOMAIN cached /\ cached[w.run].sig = w.sig
LooksUp(v) ==
    /\ viewer[v].at = "lookup"
    /\ viewer' = [viewer EXCEPT ![v] = IF Hit(v)
                     THEN Answered(v, cached[viewer[v].run].seen)
                     ELSE [@ EXCEPT !.at = "read"]]
    /\ UNCHANGED <<written, cached, views, growth>>

Reads(v) ==
    LET w == viewer[v] IN
    /\ w.at = "read"
    /\ viewer' = [viewer EXCEPT
                    ![v].seen[w.next] = written[w.run][w.next],
                    ![v].next = IF w.next = Len(RunFiles) THEN 1 ELSE @ + 1,
                    ![v].at = IF w.next = Len(RunFiles) THEN "store" ELSE @]
    /\ UNCHANGED <<written, cached, views, growth>>

\* Stored whatever another thread stored meanwhile.
Room == IF Cardinality(DOMAIN cached) > CacheMax THEN {} ELSE DOMAIN cached
Stores(v) ==
    LET w == viewer[v]
        entry == [sig |-> w.sig, seen |-> w.seen]
    IN  /\ w.at = "store"
        /\ cached' = [r \in Room \cup {w.run} |->
                        IF r = w.run THEN entry ELSE cached[r]]
        /\ viewer' = [viewer EXCEPT ![v] = Answered(v, w.seen)]
        /\ UNCHANGED <<written, views, growth>>

\* shots(): the page of whatever entry is there now; an empty one when the
\* cache was cleared meanwhile.
TakesPage(v) ==
    LET r == viewer[v].run IN
    /\ viewer[v].at = "page"
    /\ viewer' = [viewer EXCEPT
                    ![v].seen = IF r \in DOMAIN cached THEN cached[r].seen ELSE NoneRead,
                    ![v].at = "answer"]
    /\ UNCHANGED <<written, cached, views, growth>>

BrowserNext ==
    \/ \E r \in Viewed, i \in Ranks : FileGrows(r, i)
    \/ \E v \in Viewers, r \in Viewed, page \in BOOLEAN : Ask(v, r, page)
    \/ \E v \in Viewers : Stats(v) \/ LooksUp(v) \/ Reads(v) \/ Stores(v)
                          \/ TakesPage(v)

BrowserSpec == BrowserInit /\ [][BrowserNext]_browserVars

-----------------------------------------------------------------------------
(***************************************************************************)
(* Properties.                                                             *)
(***************************************************************************)
AsNewAs(a, b) == \A i \in Ranks : a[i] >= b[i]

\* However a request's reads fall between the writes of a run and the stores of
\* the other requests, what detail() answers holds at least all that was on
\* disk when it was asked.
DetailIsCurrent ==
    \A v \in Viewers :
        LET w == viewer[v] IN
        w.at = "answer" /\ ~w.page => AsNewAs(w.seen, w.asked)

\* An entry that the files of its run still match holds all they hold.
CacheIsCurrent ==
    \A r \in DOMAIN cached :
        cached[r].sig = written[r] => cached[r].seen = written[r]

BrowserIsCurrent == DetailIsCurrent /\ CacheIsCurrent
=============================================================================
