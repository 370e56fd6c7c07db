-------------------------- MODULE HostPartsProofs --------------------------
(***************************************************************************)
(* Five parts of the host that share no state, for every value of their    *)
(* constants: the run browser's cache never shows less than was on disk    *)
(* when it was asked; the records of a run agree through every kill and    *)
(* failed write; the alarms are of something that lasts; what a card drain *)
(* holds is held until it ends and given back; a stamp is GPS time exactly *)
(* when that is earned.                                                    *)
(***************************************************************************)
EXTENDS RunReaders, AnomalyScan, DrainQueue, TimeAuthority, FiniteSetTheorems,
        SequenceTheorems, WellFoundedInduction, TLAPS

-----------------------------------------------------------------------------
(***************************************************************************)
(* The run browser.                                                        *)
(***************************************************************************)
\* What a thread may have found of the three files of a run.
Found == [Ranks -> Nat]
Stages == {"idle", "stat", "lookup", "read", "store", "page", "answer"}
Glances == [at : Stages, run : Viewed \cup {"none"}, page : BOOLEAN,
            sig : Found, seen : Found, asked : Found, next : Ranks]
Entries == [sig : Found, seen : Found]

BrowserTypeOK ==
    /\ written \in [Viewed -> Found]
    /\ viewer \in [Viewers -> Glances]
    /\ DOMAIN cached \subseteq Viewed
    /\ \A r \in DOMAIN cached : cached[r] \in Entries

Within(low, mid, high) == \A i \in Ranks : low[i] <= mid[i] /\ mid[i] <= high[i]
UpTo(n, low, mid, high) ==
    \A i \in Ranks : i < n => low[i] <= mid[i] /\ mid[i] <= high[i]

\* What a request knows at each stage: its signature was taken after it was
\* asked, what it read was read after its signature.
Knows(w, held) ==
    /\ Within(w.asked, w.asked, held)
    /\ w.at = "stat" => UpTo(w.next, w.asked, w.sig, held)
    /\ w.at \in {"lookup", "read", "store"} => Within(w.asked, w.sig, held)
    /\ w.at = "lookup" => w.next = 1
    /\ w.at = "read" => UpTo(w.next, w.sig, w.seen, held)
    /\ w.at = "store" => Within(w.sig, w.seen, held)
    /\ w.at = "page" => w.page
    /\ w.at = "answer" /\ ~w.page => Within(w.asked, w.seen, held)

RequestsKnow ==
    \A v \in Viewers :
        viewer[v].at # "idle" => /\ viewer[v].run \in Viewed
                                 /\ Knows(viewer[v], written[viewer[v].run])

\* An entry was read after it was signed.
EntriesKnow ==
    \A r \in DOMAIN cached : Within(cached[r].sig, cached[r].seen, written[r])

BrowserInv == BrowserTypeOK /\ RequestsKnow /\ EntriesKnow

\* There are three files.
LEMMA RanksAre == Ranks = 1..3 /\ Len(RunFiles) = 3
BY DEF Ranks, RunFiles

\* Nobody has asked and nothing is cached.
LEMMA BrowserBegins == BrowserInit => BrowserInv
<1>1. NoneRead \in Found
  BY DEF NoneRead, Found
<1>2. 1 \in Ranks
  BY RanksAre
<1> QED
  BY <1>1, <1>2 DEF BrowserInit, BrowserInv, BrowserTypeOK, RequestsKnow, EntriesKnow,
     NoView, Glances, Stages

\* A write only adds: what was known stays known.
LEMMA GrowthKeeps ==
    ASSUME BrowserInv, NEW r \in Viewed, NEW i \in Ranks, FileGrows(r, i)
    PROVE  BrowserInv'
<1> USE DEF FileGrows
<1>1. /\ written' \in [Viewed -> Found]
      /\ \A q \in Viewed : \A j \in Ranks : written[q][j] <= written'[q][j]
  BY DEF BrowserInv, BrowserTypeOK, Found
<1>2. \A q \in Viewed : written[q] \in Found /\ written'[q] \in Found
  BY <1>1 DEF BrowserInv, BrowserTypeOK
<1>3. ASSUME NEW w \in Glances, NEW q \in Viewed, Knows(w, written[q])
      PROVE  Knows(w, written'[q])
  BY <1>1, <1>2, <1>3, RanksAre DEF Knows, Within, UpTo, Glances, Found
<1>4. RequestsKnow'
  BY <1>3 DEF BrowserInv, BrowserTypeOK, RequestsKnow
<1>5. EntriesKnow'
  <2> SUFFICES ASSUME NEW q \in DOMAIN cached
               PROVE  Within(cached[q].sig, cached[q].seen, written'[q])
    BY DEF EntriesKnow
  <2>1. q \in Viewed /\ cached[q] \in Entries
    BY DEF BrowserInv, BrowserTypeOK
  <2> QED
    BY <2>1, <1>1, <1>2, RanksAre DEF BrowserInv, EntriesKnow, Within, Entries, Found
<1> QED
  BY <1>1, <1>4, <1>5 DEF BrowserInv, BrowserTypeOK

\* A step of one thread that leaves the files and the cache alone.
LEMMA ThreadKeeps ==
    ASSUME BrowserInv, NEW v \in Viewers, NEW w \in Glances,
           w.at # "idle", w.run \in Viewed, Knows(w, written[w.run]),
           viewer' = [viewer EXCEPT ![v] = w], UNCHANGED <<written, cached>>
    PROVE  BrowserInv'
BY DEF BrowserInv, BrowserTypeOK, RequestsKnow, EntriesKnow

\* A request begins: it has read nothing, and knows what was there.
LEMMA AskKeeps ==
    ASSUME BrowserInv, NEW v \in Viewers, NEW r \in Viewed, NEW page \in BOOLEAN,
           Ask(v, r, page)
    PROVE  BrowserInv'
<1> DEFINE w == [NoView EXCEPT !.at = "stat", !.run = r, !.page = page,
                               !.asked = written[r]]
<1>1. written[r] \in Found /\ NoneRead \in Found /\ 1 \in Ranks
  BY RanksAre DEF BrowserInv, BrowserTypeOK, NoneRead, Found
<1>2. /\ w \in Glances /\ w.at = "stat" /\ w.run = r /\ w.asked = written[r]
      /\ w.next = 1
  BY <1>1 DEF NoView, Glances, Stages
<1>3. Knows(w, written[r])
  <2>1. \A i \in Ranks : written[r][i] <= written[r][i] /\ ~(i < 1)
    BY <1>1, RanksAre DEF Found
  <2> QED
    BY <1>2, <2>1 DEF Knows, Within, UpTo
<1> HIDE DEF w
<1>4. viewer' = [viewer EXCEPT ![v] = w] /\ UNCHANGED <<written, cached>>
  BY DEF Ask, w
<1> QED
  BY <1>2, <1>3, <1>4, ThreadKeeps

\* What the stages of a request need to be known of it.
LEMMA AtWork ==
    ASSUME BrowserInv, NEW v \in Viewers, viewer[v].at # "idle"
    PROVE  /\ viewer[v] \in Glances /\ viewer[v].run \in Viewed
           /\ written[viewer[v].run] \in Found
           /\ Knows(viewer[v], written[viewer[v].run])
BY DEF BrowserInv, BrowserTypeOK, RequestsKnow

\* A file is stat'd: no less than when it was asked for.
LEMMA StatsKeeps ==
    ASSUME BrowserInv, NEW v \in Viewers, Stats(v)
    PROVE  BrowserInv'
<1> DEFINE w == viewer[v]
           x == StatsNext(v)
           held == written[w.run]
<1>1. w \in Glances /\ w.run \in Viewed /\ held \in Found /\ Knows(w, held)
      /\ w.at = "stat"
  BY AtWork DEF Stats
<1> DEFINE sig == [w.sig EXCEPT ![w.next] = held[w.next]]
           atLast == w.next = 3
<1>2. sig \in Found /\ 1 \in Ranks /\ (~atLast => w.next < 3 /\ w.next + 1 \in Ranks)
  BY <1>1, RanksAre DEF Glances, Found
<1>3. x = [w EXCEPT !.sig = sig, !.next = IF atLast THEN 1 ELSE w.next + 1,
                    !.at = IF atLast THEN "lookup" ELSE "stat"]
  BY <1>1, RanksAre DEF StatsNext, Glances
<1>4. /\ x \in Glances /\ x.run = w.run /\ x.asked = w.asked /\ x.seen = w.seen
      /\ x.sig = sig
      /\ \/ w.next < 3 /\ x.at = "stat" /\ x.next = w.next + 1
         \/ w.next = 3 /\ x.at = "lookup" /\ x.next = 1
  <2> HIDE DEF sig, x
  <2>1. CASE atLast
    BY <1>1, <1>2, <1>3, <2>1 DEF Glances, Stages
  <2>2. CASE ~atLast
    BY <1>1, <1>2, <1>3, <2>2 DEF Glances, Stages
  <2> QED
    BY <2>1, <2>2
<1>5. \A i \in Ranks : i <= w.next => w.asked[i] <= x.sig[i] /\ x.sig[i] <= held[i]
  BY <1>1, <1>4, RanksAre DEF Knows, Within, UpTo, Glances, Found
<1>6. Knows(x, held)
  <2> HIDE DEF x, w, held
  <2>1. CASE w.next < 3 /\ x.at = "stat" /\ x.next = w.next + 1
    BY <1>1, <1>4, <1>5, <2>1, RanksAre DEF Knows, Within, UpTo, Glances
  <2>2. CASE w.next = 3 /\ x.at = "lookup" /\ x.next = 1
    BY <1>1, <1>4, <1>5, <2>2, RanksAre DEF Knows, Within, Glances
  <2> QED
    BY <1>4, <2>1, <2>2
<1>7. x.at # "idle"
  BY <1>4
<1>8. viewer' = [viewer EXCEPT ![v] = x] /\ UNCHANGED <<written, cached>>
  BY DEF Stats
<1> HIDE DEF x, w, held
<1> QED
  BY <1>1, <1>4, <1>6, <1>7, <1>8, ThreadKeeps DEF held

\* An answer that was read no earlier than the request was asked, or that will
\* be a page.
LEMMA AnswerKnows ==
    ASSUME BrowserInv, NEW v \in Viewers, viewer[v].at # "idle",
           NEW seen \in Found,
           Within(viewer[v].asked, seen, written[viewer[v].run])
    PROVE  /\ Answered(v, seen) \in Glances
           /\ Answered(v, seen).at # "idle"
           /\ Answered(v, seen).run = viewer[v].run
           /\ Knows(Answered(v, seen), written[viewer[v].run])
BY AtWork DEF Answered, Glances, Stages, Knows, Within

\* The signature is compared with the entry of the run.
LEMMA LookupKeeps ==
    ASSUME BrowserInv, NEW v \in Viewers, LooksUp(v)
    PROVE  BrowserInv'
<1> DEFINE w == viewer[v]
           held == written[w.run]
<1>1. w \in Glances /\ w.run \in Viewed /\ held \in Found /\ Knows(w, held)
      /\ w.at = "lookup" /\ Within(w.asked, w.sig, held)
  BY AtWork DEF LooksUp, Knows
<1>2. CASE Hit(v)
  <2> DEFINE e == cached[w.run]
             x == Answered(v, e.seen)
  <2>1. e \in Entries /\ e.sig = w.sig /\ Within(e.sig, e.seen, held)
    BY <1>2 DEF Hit, BrowserInv, BrowserTypeOK, EntriesKnow
  <2>2. e.seen \in Found /\ Within(w.asked, e.seen, held)
    <3>1. /\ e.seen \in [Ranks -> Nat] /\ e.sig \in [Ranks -> Nat]
          /\ w.asked \in [Ranks -> Nat] /\ held \in [Ranks -> Nat]
      BY <1>1, <2>1 DEF Entries, Glances, Found
    <3>2. ASSUME NEW i \in Ranks
          PROVE  w.asked[i] <= e.seen[i] /\ e.seen[i] <= held[i]
      <4>1. w.asked[i] <= e.sig[i] /\ e.sig[i] <= e.seen[i] /\ e.seen[i] <= held[i]
        BY <1>1, <2>1 DEF Within
      <4> QED BY <3>1, <4>1
    <3> QED BY <3>1, <3>2 DEF Within, Found
  <2>3. x \in Glances /\ x.at # "idle" /\ x.run = w.run /\ Knows(x, held)
    BY <1>1, <2>2, AnswerKnows
  <2>4. viewer' = [viewer EXCEPT ![v] = x] /\ UNCHANGED <<written, cached>>
    BY <1>2 DEF LooksUp
  <2> HIDE DEF x, w
  <2> QED
    BY <1>1, <2>3, <2>4, ThreadKeeps
<1>3. CASE ~Hit(v)
  <2> DEFINE x == [w EXCEPT !.at = "read"]
  <2>1. /\ x \in Glances /\ x.at = "read" /\ x.run = w.run /\ x.asked = w.asked
        /\ x.sig = w.sig /\ x.next = 1
    BY <1>1 DEF Glances, Stages, Knows
  <2>2. \A i \in Ranks : ~(i < 1)
    BY RanksAre
  <2>3. Knows(x, held)
    BY <1>1, <2>1, <2>2 DEF Knows, Within, UpTo
  <2>4. viewer' = [viewer EXCEPT ![v] = x] /\ UNCHANGED <<written, cached>>
    BY <1>3 DEF LooksUp
  <2> HIDE DEF x, w
  <2> QED
    BY <1>1, <2>1, <2>3, <2>4, ThreadKeeps
<1> QED
  BY <1>2, <1>3

\* A file is read: no less than when it was stat'd.
LEMMA ReadsKeeps ==
    ASSUME BrowserInv, NEW v \in Viewers, Reads(v)
    PROVE  BrowserInv'
<1> DEFINE w == viewer[v]
           held == written[w.run]
           x == [w EXCEPT !.seen[w.next] = held[w.next],
                          !.next = IF w.next = Len(RunFiles) THEN 1 ELSE @ + 1,
                          !.at = IF w.next = Len(RunFiles) THEN "store" ELSE @]
<1>1. w \in Glances /\ w.run \in Viewed /\ held \in Found /\ Knows(w, held)
      /\ w.at = "read" /\ Within(w.asked, w.sig, held)
  BY AtWork DEF Reads, Knows
<1> DEFINE seen == [w.seen EXCEPT ![w.next] = held[w.next]]
           atLast == w.next = 3
<1>2. seen \in Found /\ 1 \in Ranks /\ (~atLast => w.next < 3 /\ w.next + 1 \in Ranks)
  BY <1>1, RanksAre DEF Glances, Found
<1>3. x = [w EXCEPT !.seen = seen, !.next = IF atLast THEN 1 ELSE w.next + 1,
                    !.at = IF atLast THEN "store" ELSE "read"]
  BY <1>1, RanksAre DEF Glances
<1>4. /\ x \in Glances /\ x.run = w.run /\ x.asked = w.asked /\ x.sig = w.sig
      /\ x.seen = seen
      /\ \/ w.next < 3 /\ x.at = "read" /\ x.next = w.next + 1
         \/ w.next = 3 /\ x.at = "store"
  <2> HIDE DEF seen, x
  <2>1. CASE atLast
    BY <1>1, <1>2, <1>3, <2>1 DEF Glances, Stages
  <2>2. CASE ~atLast
    BY <1>1, <1>2, <1>3, <2>2 DEF Glances, Stages
  <2> QED
    BY <2>1, <2>2
<1>5. \A i \in Ranks : i <= w.next => w.sig[i] <= x.seen[i] /\ x.seen[i] <= held[i]
  <2>1. \A i \in Ranks : i # w.next => seen[i] = w.seen[i]
    BY <1>1 DEF Glances, Found
  <2>2. seen[w.next] = held[w.next] /\ w.sig \in Found /\ held \in Found
        /\ w.next \in Ranks
    BY <1>1 DEF Glances, Found
  <2>3. \A i \in Ranks : w.sig[i] <= held[i] /\ held[i] \in Nat
    BY <1>1, <2>2 DEF Within, Found
  <2>4. \A i \in Ranks : i < w.next => w.sig[i] <= w.seen[i] /\ w.seen[i] <= held[i]
    BY <1>1 DEF Knows, UpTo
  <2> HIDE DEF w, held, seen, x
  <2> QED BY <1>4, <2>1, <2>2, <2>3, <2>4, RanksAre
<1>6. Knows(x, held)
  <2> HIDE DEF x, w, held
  <2>1. CASE w.next < 3 /\ x.at = "read" /\ x.next = w.next + 1
    BY <1>1, <1>4, <1>5, <2>1, RanksAre DEF Knows, Within, UpTo, Glances
  <2>2. CASE w.next = 3 /\ x.at = "store"
    BY <1>1, <1>4, <1>5, <2>2, RanksAre DEF Knows, Within, Glances
  <2> QED
    BY <1>4, <2>1, <2>2
<1>7. x.at # "idle"
  BY <1>4
<1>8. viewer' = [viewer EXCEPT ![v] = x] /\ UNCHANGED <<written, cached>>
  BY <1>1 DEF Reads, BrowserInv, BrowserTypeOK
<1> HIDE DEF x, w, held
<1> QED
  BY <1>1, <1>4, <1>6, <1>7, <1>8, ThreadKeeps DEF held

\* What was read is stored beside its signature, perhaps after a clearing.
LEMMA StoresKeeps ==
    ASSUME BrowserInv, NEW v \in Viewers, Stores(v)
    PROVE  BrowserInv'
<1> DEFINE w == viewer[v]
           held == written[w.run]
           x == Answered(v, w.seen)
<1>1. w \in Glances /\ w.run \in Viewed /\ held \in Found /\ Knows(w, held)
      /\ Within(w.asked, w.sig, held) /\ Within(w.sig, w.seen, held)
      /\ w.at = "store"
  BY AtWork DEF Stores, Knows
<1>2. w.seen \in Found /\ Within(w.asked, w.seen, held)
  BY <1>1, RanksAre DEF Within, Glances, Found
<1>3. x \in Glances /\ x.at # "idle" /\ x.run = w.run /\ Knows(x, held)
  BY <1>1, <1>2, AnswerKnows
<1>4. /\ DOMAIN cached' = Room \cup {w.run} /\ Room \subseteq DOMAIN cached
      /\ \A r \in DOMAIN cached' :
            cached'[r] = IF r = w.run THEN [sig |-> w.sig, seen |-> w.seen]
                         ELSE cached[r]
  BY DEF Stores, Room
<1>5. [sig |-> w.sig, seen |-> w.seen] \in Entries
  BY <1>1 DEF Glances, Entries
<1>6. /\ viewer' = [viewer EXCEPT ![v] = x]
      /\ written' = written
  BY DEF Stores
<1>7. EntriesKnow'
  <2> SUFFICES ASSUME NEW r \in DOMAIN cached'
               PROVE  Within(cached'[r].sig, cached'[r].seen, written[r])
    BY <1>6 DEF EntriesKnow
  <2>1. CASE r = w.run
    BY <1>1, <1>4, <2>1
  <2>2. CASE r # w.run
    BY <1>4, <2>2 DEF BrowserInv, EntriesKnow
  <2> QED
    BY <2>1, <2>2
<1>8. RequestsKnow'
  <2> HIDE DEF x, w
  <2> QED
    BY <1>1, <1>3, <1>6 DEF BrowserInv, BrowserTypeOK, RequestsKnow
<1>9. BrowserTypeOK'
  <2> HIDE DEF x
  <2> QED
    BY <1>1, <1>3, <1>4, <1>5, <1>6 DEF BrowserInv, BrowserTypeOK
<1> QED
  BY <1>7, <1>8, <1>9 DEF BrowserInv

\* A page promises nothing, whatever entry it is taken from.
LEMMA PageKeeps ==
    ASSUME BrowserInv, NEW v \in Viewers, TakesPage(v)
    PROVE  BrowserInv'
<1> DEFINE w == viewer[v]
           page == IF w.run \in DOMAIN cached THEN cached[w.run].seen ELSE NoneRead
           x == [w EXCEPT !.seen = page, !.at = "answer"]
<1>1. w \in Glances /\ w.run \in Viewed /\ Knows(w, written[w.run])
      /\ w.at = "page"
  BY AtWork DEF TakesPage
<1>2. page \in Found
  BY DEF BrowserInv, BrowserTypeOK, Entries, NoneRead, Found
<1>3. w.page
  BY <1>1 DEF Knows
<1>4. x \in Glances /\ x.at = "answer" /\ x.run = w.run /\ x.asked = w.asked /\ x.page
  BY <1>1, <1>2, <1>3 DEF Glances, Stages
<1>5. Knows(x, written[w.run])
  BY <1>1, <1>4 DEF Knows
<1>6. viewer' = [viewer EXCEPT ![v] = x] /\ UNCHANGED <<written, cached>>
  BY DEF TakesPage
<1> HIDE DEF x, w, page
<1> QED
  BY <1>1, <1>4, <1>5, <1>6, ThreadKeeps

\* The browser's invariant holds in every reachable state.
THEOREM BrowserInductive == BrowserSpec => []BrowserInv
<1>1. BrowserInv /\ [BrowserNext]_browserVars => BrowserInv'
  <2> SUFFICES ASSUME BrowserInv, [BrowserNext]_browserVars
               PROVE  BrowserInv'
    OBVIOUS
  <2>1. CASE \E r \in Viewed, i \in Ranks : FileGrows(r, i)
    BY <2>1, GrowthKeeps
  <2>2. CASE \E v \in Viewers, r \in Viewed, page \in BOOLEAN : Ask(v, r, page)
    BY <2>2, AskKeeps
  <2>3. CASE \E v \in Viewers : Stats(v) \/ LooksUp(v) \/ Reads(v) \/ Stores(v)
                                \/ TakesPage(v)
    BY <2>3, StatsKeeps, LookupKeeps, ReadsKeeps, StoresKeeps, PageKeeps
  <2>4. CASE UNCHANGED browserVars
    BY <2>4 DEF browserVars, BrowserInv, BrowserTypeOK, RequestsKnow, EntriesKnow
  <2> QED
    BY <2>1, <2>2, <2>3, <2>4 DEF BrowserNext
<1> QED
  BY <1>1, BrowserBegins, PTL DEF BrowserSpec

\* What detail() answers holds all that was on disk when it was asked, and an
\* entry its files still match is no older than they are.
THEOREM BrowserShowsTheRun == BrowserSpec => []BrowserIsCurrent
<1>1. ASSUME BrowserInv PROVE BrowserIsCurrent
  <2>1. DetailIsCurrent
    <3> SUFFICES ASSUME NEW v \in Viewers, viewer[v].at = "answer", ~viewer[v].page
                 PROVE  AsNewAs(viewer[v].seen, viewer[v].asked)
      BY DEF DetailIsCurrent
    <3>1. viewer[v] \in Glances /\ Knows(viewer[v], written[viewer[v].run])
      BY <1>1, AtWork
    <3> QED
      BY <3>1, RanksAre DEF Knows, Within, AsNewAs, Glances, Found
  <2>2. CacheIsCurrent
    <3> SUFFICES ASSUME NEW r \in DOMAIN cached, cached[r].sig = written[r]
                 PROVE  cached[r].seen = written[r]
      BY DEF CacheIsCurrent
    <3>1. cached[r] \in Entries /\ written[r] \in Found
          /\ Within(written[r], cached[r].seen, written[r])
      BY <1>1 DEF BrowserInv, BrowserTypeOK, EntriesKnow
    <3>2. \A i \in Ranks : cached[r].seen[i] = written[r][i]
      BY <3>1, RanksAre DEF Within, Entries, Found
    <3> QED
      BY <3>1, <3>2 DEF Entries, Found
  <2> QED
    BY <2>1, <2>2 DEF BrowserIsCurrent
<1> QED
  BY <1>1, BrowserInductive, PTL

-----------------------------------------------------------------------------
(***************************************************************************)
(* The records of a run.                                                   *)
(***************************************************************************)
\* A frame is of a run, a camera, and is that camera's n-th of it.
RunFrames == Runs \X Cams \X Nat
InHand == [frame : RunFrames, at : {"pull", "saved", "logged"}]
Docs == [index : Seq(RunFrames), frames : Nat, final : BOOLEAN, there : BOOLEAN]

RecordTypeOK ==
    /\ up \in BOOLEAN /\ begun \in Nat /\ current \in Runs \cup {0}
    /\ memory \in Seq(RunFrames)
    /\ hands \subseteq InHand
    /\ images \subseteq RunFrames /\ IsFiniteSet(images) /\ rows \subseteq images
    /\ lines \in [Runs -> Seq(RunFrames)] /\ docs \in [Runs -> Docs]
    /\ mishaps \in [kills : Nat, io : Nat]

\* A camera has one frame in hand in a run, numbered after those it has saved.
Saved(r, c) == {f \in images : f[1] = r /\ f[2] = c}
Number(f) == Cardinality(Saved(f[1], f[2]))
HandsInOrder ==
    /\ \A f \in images : f[3] <= Number(f)
    /\ \A h, g \in hands : h.frame[1] = g.frame[1] /\ h.frame[2] = g.frame[2] => h = g
    /\ \A h \in hands :
        /\ IF h.at = "pull" THEN h.frame[3] = Number(h.frame) + 1 ELSE h.frame \in images
        /\ h.frame \notin ToSet(memory) /\ h.frame \notin ToSet(lines[h.frame[1]])
        /\ h.frame[1] <= begun
        /\ h.frame[1] = current \/ h.frame \in excused

\* An index holds frames of one run, each once.
Distinct(s) == \A i, j \in 1..Len(s) : s[i] = s[j] => i = j
ListOf(s, r) == Distinct(s) /\ \A f \in ToSet(s) : f \in images /\ f[1] = r
ListsInOrder ==
    /\ ListOf(memory, current)
    /\ \A r \in Runs : ListOf(lines[r], r) /\ ListOf(docs[r].index, r)

RunsInOrder ==
    /\ current = 0 => memory = <<>>
    /\ current # 0 => up /\ current <= begun /\ ~docs[current].final
    /\ \A r \in Runs : /\ r > begun => ~docs[r].there /\ lines[r] = <<>>
                       /\ ~docs[r].there => ~docs[r].final
                       /\ up /\ docs[r].there /\ r # current
                             => docs[r].final \/ r \in unsaid

\* While no write failed: the three records of a frame follow one another, and
\* a count is no less than what there is to be shown.
RecordsFollow ==
    /\ unsaid = {}
    /\ current # 0 => /\ lines[current] = memory
                      /\ \A c \in Cams \cup {0} : <<current, c>> \in handles
    /\ \A h \in hands : h.frame[1] = current /\ h.at = "logged" => h.frame \in rows
    /\ \A f \in rows : \/ f \in excused \/ f \in ToSet(lines[f[1]])
                       \/ \E h \in hands : h.frame = f
    /\ \A r \in Runs : /\ ToSet(lines[r]) \subseteq rows
                       /\ ToSet(docs[r].index) \subseteq ToSet(lines[r])
                       /\ ~docs[r].final => docs[r].frames >= Len(docs[r].index)
                       /\ docs[r].final => docs[r].frames >= Cardinality(Indexed(r))

RecordInv ==
    /\ RecordTypeOK /\ HandsInOrder /\ ListsInOrder /\ RunsInOrder
    /\ mishaps.io = 0 => RecordsFollow

\* An index that holds each frame once has as many entries as frames.
LEMMA DistinctSize ==
    ASSUME NEW T, NEW s \in Seq(T), Distinct(s)
    PROVE  IsFiniteSet(ToSet(s)) /\ Cardinality(ToSet(s)) = Len(s) /\ Len(s) \in Nat
<1>1. Len(s) \in Nat /\ DOMAIN s = 1..Len(s) /\ s \in [1..Len(s) -> T]
  OBVIOUS
<1>2. s \in [1..Len(s) -> ToSet(s)] /\ \A f \in ToSet(s) : \E i \in 1..Len(s) : s[i] = f
  BY <1>1 DEF ToSet
<1>3. s \in Surjection(1..Len(s), ToSet(s))
  BY <1>2 DEF Surjection
<1>4. s \in Injection(1..Len(s), ToSet(s))
  BY <1>2 DEF Injection, IsInjective, Distinct
<1>5. IsFiniteSet(1..Len(s)) /\ Cardinality(1..Len(s)) = Len(s)
  BY <1>1, FS_Interval
<1>6. IsFiniteSet(ToSet(s)) /\ Cardinality(ToSet(s)) = Cardinality(1..Len(s))
  BY <1>3, <1>4, <1>5, FS_Surjection
<1> QED BY <1>1, <1>5, <1>6

\* One frame more.
LEMMA OneMore ==
    ASSUME NEW T, NEW s \in Seq(T), NEW f \in T
    PROVE  /\ Append(s, f) \in Seq(T) /\ ToSet(Append(s, f)) = ToSet(s) \cup {f}
           /\ Distinct(s) /\ f \notin ToSet(s) => Distinct(Append(s, f))
<1>1. /\ Len(s) \in Nat /\ DOMAIN s = 1..Len(s)
      /\ Append(s, f) \in Seq(T) /\ Len(Append(s, f)) = Len(s) + 1
      /\ DOMAIN Append(s, f) = 1..(Len(s) + 1)
      /\ \A i \in 1..Len(s) : Append(s, f)[i] = s[i]
      /\ Append(s, f)[Len(s) + 1] = f
  OBVIOUS
<1>2. \A i : i \in 1..(Len(s) + 1) <=> i \in 1..Len(s) \/ i = Len(s) + 1
  BY <1>1
<1>3. ToSet(Append(s, f)) = ToSet(s) \cup {f}
  BY <1>1, <1>2 DEF ToSet
<1>4. ASSUME Distinct(s), f \notin ToSet(s) PROVE Distinct(Append(s, f))
  <2>1. \A i \in 1..Len(s) : s[i] # f
    BY <1>1, <1>4 DEF ToSet
  <2> QED BY <1>1, <1>2, <1>4, <2>1 DEF Distinct
<1> QED BY <1>1, <1>3, <1>4

\* What run.json holds of an index.
LEMMA DocHolds ==
    ASSUME NEW s \in Seq(RunFrames), NEW final \in BOOLEAN
    PROVE  /\ Doc(s, final) \in Docs /\ Doc(s, final).there
           /\ Doc(s, final).final = final /\ Doc(s, final).frames = Len(s)
           /\ Doc(s, final).index \in Seq(RunFrames)
           /\ Len(Doc(s, final).index) \in Nat /\ Len(Doc(s, final).index) <= Len(s)
           /\ ToSet(Doc(s, final).index) \subseteq ToSet(s)
           /\ Distinct(s) => Distinct(Doc(s, final).index)
<1> DEFINE m == IF Len(s) > TailKept THEN Len(s) - TailKept + 1 ELSE 1
           d == SubSeq(s, m, Len(s))
<1>1. Len(s) \in Nat /\ DOMAIN s = 1..Len(s)
  OBVIOUS
<1>2. m \in 1..(Len(s) + 1)
  BY <1>1, RunRecordAssumption
<1> HIDE DEF m
<1>3. /\ d \in Seq(RunFrames) /\ Len(d) = Len(s) - m + 1
      /\ \A i \in 1..Len(d) : d[i] = s[m + i - 1]
  BY <1>1, <1>2
<1> HIDE DEF d
<1>4. DOMAIN d = 1..Len(d) /\ Len(d) \in Nat /\ Len(d) <= Len(s)
      /\ \A i \in 1..Len(d) : m + i - 1 \in 1..Len(s)
  BY <1>1, <1>2, <1>3
<1>5. ToSet(d) \subseteq ToSet(s)
  BY <1>1, <1>3, <1>4 DEF ToSet
<1>6. Distinct(s) => Distinct(d)
  <2> SUFFICES ASSUME Distinct(s), NEW i \in 1..Len(d), NEW j \in 1..Len(d), d[i] = d[j]
               PROVE  i = j
    BY DEF Distinct
  <2>1. s[m + i - 1] = s[m + j - 1]
    BY <1>3
  <2>2. m + i - 1 = m + j - 1
    BY <1>4, <2>1 DEF Distinct
  <2> QED BY <1>2, <1>4, <2>2
<1>7. Doc(s, final) = [index |-> d, frames |-> Len(s), final |-> final, there |-> TRUE]
  BY DEF Doc, d, m
<1> QED BY <1>1, <1>3, <1>4, <1>5, <1>6, <1>7 DEF Docs

\* An empty index.
LEMMA EmptyList ==
    /\ <<>> \in Seq(RunFrames) /\ ToSet(<<>>) = {} /\ Len(<<>>) = 0 /\ Distinct(<<>>)
    /\ \A s \in Seq(RunFrames) : ToSet(s) = {} => s = <<>>
<1>1. <<>> \in Seq(RunFrames) /\ Len(<<>>) = 0 /\ DOMAIN <<>> = 1..0
  OBVIOUS
<1>2. ToSet(<<>>) = {} /\ Distinct(<<>>)
  BY <1>1 DEF ToSet, Distinct
<1>3. ASSUME NEW s \in Seq(RunFrames), s # <<>> PROVE ToSet(s) # {}
  <2>1. Len(s) \in Nat /\ Len(s) # 0 /\ DOMAIN s = 1..Len(s)
    BY <1>3
  <2>2. s[1] \in ToSet(s)
    BY <2>1 DEF ToSet
  <2> QED BY <2>2
<1> QED BY <1>1, <1>2, <1>3

\* rigd is up, and no run has begun.
LEMMA RecordBegins == RecordInit => RecordInv
<1> SUFFICES ASSUME RecordInit PROVE RecordInv
  OBVIOUS
<1>1. NoDoc \in Docs /\ ~NoDoc.there /\ ~NoDoc.final /\ NoDoc.index = <<>> /\ NoDoc.frames = 0
  BY EmptyList DEF NoDoc, Docs
<1>2. RecordTypeOK
  BY <1>1, EmptyList, FS_EmptySet DEF RecordInit, RecordTypeOK
<1>3. HandsInOrder /\ ListsInOrder /\ RunsInOrder
  BY <1>1, EmptyList DEF RecordInit, HandsInOrder, ListsInOrder, RunsInOrder, ListOf
<1>4. RecordsFollow
  BY <1>1, EmptyList DEF RecordInit, RecordsFollow, Runs
<1> QED BY <1>2, <1>3, <1>4 DEF RecordInv

-----------------------------------------------------------------------------
\* A run begins, with an empty index and a run.json that is not final.
LEMMA StartKeeps ==
    ASSUME RecordInv, NEW r \in Runs, StartRecord(r)
    PROVE  RecordInv'
<1> USE DEF RecordInv
<1>1. PICK missing \in SUBSET (Cams \cup {0}), doc \in BOOLEAN :
          /\ DiskTakes(missing = {} /\ doc)
          /\ handles' = handles \cup {<<r, c>> : c \in (Cams \cup {0}) \ missing}
          /\ docs' = IF doc THEN [docs EXCEPT ![r] = Doc(<<>>, FALSE)] ELSE docs
  BY DEF StartRecord
<1>0. /\ up /\ current = 0 /\ current' = r /\ memory' = <<>>
      /\ r = begun + 1 /\ begun' = r /\ begun \in Nat
      /\ ~docs[r].there /\ ~docs[r].final /\ lines[r] = <<>> /\ r \in Nat /\ r # 0
      /\ UNCHANGED <<up, hands, images, rows, lines, excused, unsaid>>
  <2>1. r = begun + 1 /\ begun \in Nat /\ r \in Nat /\ r # 0 /\ r > begun
    BY DEF StartRecord, Runs, RecordTypeOK
  <2>2. ~docs[r].there /\ lines[r] = <<>> /\ ~docs[r].final
    BY <2>1 DEF RunsInOrder
  <2> QED BY <2>1, <2>2 DEF StartRecord
<1>2. /\ Doc(<<>>, FALSE) \in Docs /\ Doc(<<>>, FALSE).there /\ ~Doc(<<>>, FALSE).final
      /\ Doc(<<>>, FALSE).frames = 0 /\ Doc(<<>>, FALSE).index = <<>>
  <2> DEFINE new == Doc(<<>>, FALSE)
  <2>1. <<>> \in Seq(RunFrames) /\ ToSet(<<>>) = {} /\ Len(<<>>) = 0
    BY EmptyList
  <2>2. /\ new \in Docs /\ new.there /\ new.final = FALSE /\ new.frames = Len(<<>>)
        /\ new.index \in Seq(RunFrames) /\ ToSet(new.index) \subseteq ToSet(<<>>)
    BY <2>1, DocHolds
  <2> HIDE DEF new
  <2>3. new.index = <<>>
    <3>1. ToSet(new.index) = {}
      BY <2>1, <2>2
    <3> QED BY <2>2, <3>1, EmptyList
  <2>4. new \in Docs /\ new.there /\ ~new.final /\ new.frames = 0 /\ new.index = <<>>
    BY <2>1, <2>2, <2>3
  <2> QED BY <2>4 DEF new
<1>3. /\ docs' \in [Runs -> Docs]
      /\ docs'[r] = Doc(<<>>, FALSE) \/ docs'[r] = docs[r]
      /\ doc => docs'[r] = Doc(<<>>, FALSE)
      /\ \A q \in Runs : q # r => docs'[q] = docs[q]
  BY <1>1, <1>2 DEF RecordTypeOK
<1>4. /\ mishaps' \in [kills : Nat, io : Nat] /\ (mishaps'.io = 0 => mishaps.io = 0)
      /\ mishaps'.io = 0 => missing = {} /\ doc
  BY <1>1 DEF DiskTakes, RecordTypeOK
<1>5. \A h \in hands : h.frame[1] # r /\ h.frame[1] \in Runs /\ h.frame \in excused
                       /\ h.frame[1] <= begun'
  BY <1>0 DEF HandsInOrder, RecordTypeOK, InHand, RunFrames, Runs
<1>6. RecordTypeOK'
  BY <1>0, <1>3, <1>4, EmptyList DEF RecordTypeOK
<1>7. HandsInOrder'
  <2>1. \A h \in hands : h.frame \notin ToSet(<<>>)
    BY EmptyList
  <2> QED BY <1>0, <1>5, <2>1 DEF HandsInOrder, Number, Saved
<1>8. ListsInOrder'
  <2>1. ListOf(<<>>, r)'
    BY EmptyList DEF ListOf
  <2>2. ASSUME NEW q \in Runs PROVE ListOf(docs[q].index, q)'
    <3>1. CASE docs'[q] = docs[q]
      BY <1>0, <3>1 DEF ListsInOrder, ListOf
    <3>2. CASE docs'[q] # docs[q]
      <4>1. q = r /\ docs'[q].index = <<>>
        BY <1>2, <1>3, <3>2
      <4> QED BY <2>1, <4>1
    <3> QED BY <3>1, <3>2
  <2>3. \A q \in Runs : ListOf(lines[q], q)'
    BY <1>0 DEF ListsInOrder, ListOf
  <2> QED BY <1>0, <2>1, <2>2, <2>3 DEF ListsInOrder
<1>9. RunsInOrder'
  <2>1. \A q \in Runs : q # 0 /\ q \in Nat
    BY DEF Runs
  <2>2. ~docs'[r].final
    BY <1>0, <1>2, <1>3
  <2>3. \A q \in Runs : q > begun' => q # r /\ q > begun
    BY <1>0, <2>1
  <2> QED BY <1>0, <1>3, <2>1, <2>2, <2>3 DEF RunsInOrder
<1>10. ASSUME mishaps'.io = 0 PROVE RecordsFollow'
  <2>1. handles' = handles \cup {<<r, c>> : c \in Cams \cup {0}} /\ docs'[r] = Doc(<<>>, FALSE)
    BY <1>1, <1>3, <1>4, <1>10
  <2>2. lines[r] = memory'
    BY <1>0
  <2>3. ASSUME NEW q \in Runs
        PROVE  /\ ToSet(docs'[q].index) \subseteq ToSet(lines[q])
               /\ ~docs'[q].final => docs'[q].frames >= Len(docs'[q].index)
               /\ docs'[q].final => docs'[q].frames >= Cardinality(Indexed(q)')
    <3>1. CASE q = r
      <4>1. docs'[q].index = <<>> /\ docs'[q].frames = 0 /\ ~docs'[q].final
        BY <1>2, <2>1, <3>1
      <4>2. ToSet(docs'[q].index) = {} /\ Len(docs'[q].index) = 0
        BY <4>1, EmptyList
      <4> QED BY <4>1, <4>2
    <3>2. CASE q # r
      BY <1>0, <1>3, <1>4, <1>10, <3>2 DEF RecordsFollow, Indexed, ReadIndex
    <3> QED BY <3>1, <3>2
  <2> QED BY <1>0, <1>4, <1>5, <1>10, <2>1, <2>2, <2>3 DEF RecordsFollow
<1> QED BY <1>6, <1>7, <1>8, <1>9, <1>10

\* A worker takes the next frame of its camera in hand.
LEMMA TakeKeeps ==
    ASSUME RecordInv, NEW c \in Cams, TakeFrame(c)
    PROVE  RecordInv'
<1> USE DEF RecordInv
<1> DEFINE n == Cardinality(Saved(current, c)) + 1
           f == <<current, c, n>>
           h == [frame |-> f, at |-> "pull"]
<1>1. /\ current # 0 /\ hands' = hands \cup {h}
      /\ \A g \in hands : <<g.frame[1], g.frame[2]>> # <<current, c>>
      /\ UNCHANGED <<up, begun, current, memory, handles, images, rows, lines, docs, mishaps,
                     excused, unsaid>>
  BY DEF TakeFrame, Saved
<1>2. current \in Runs /\ n \in Nat /\ n > Cardinality(Saved(current, c))
      /\ Cardinality(Saved(current, c)) \in Nat
  BY <1>1, FS_Subset, FS_CardinalityType DEF RecordTypeOK, Saved
<1>3. f \in RunFrames /\ h \in InHand /\ f[1] = current /\ f[2] = c /\ f[3] = n
  BY <1>2 DEF RunFrames, InHand
<1>4. f \notin images
  <2> SUFFICES ASSUME f \in images PROVE FALSE
    OBVIOUS
  <2>1. f[3] <= Number(f) /\ Number(f) = Cardinality(Saved(current, c))
    BY <1>3 DEF HandsInOrder, Number
  <2> QED BY <1>2, <1>3, <2>1
<1> HIDE DEF n, f
<1>5. RecordTypeOK'
  BY <1>1, <1>3 DEF RecordTypeOK
<1>6. /\ f \notin ToSet(memory) /\ f \notin ToSet(lines[f[1]])
  BY <1>2, <1>3, <1>4 DEF ListsInOrder, ListOf
<1>7. Number(f) + 1 = n
  BY <1>3 DEF Number, n
<1>8. HandsInOrder'
  <2>1. \A g \in hands' :
            /\ IF g.at = "pull" THEN g.frame[3] = Number(g.frame) + 1
               ELSE g.frame \in images
            /\ g.frame \notin ToSet(memory) /\ g.frame \notin ToSet(lines[g.frame[1]])
            /\ g.frame[1] <= begun
            /\ g.frame[1] = current \/ g.frame \in excused
    BY <1>1, <1>3, <1>6, <1>7 DEF HandsInOrder, RunsInOrder
  <2>2. \A g \in hands : ~(g.frame[1] = h.frame[1] /\ g.frame[2] = h.frame[2])
    BY <1>1, <1>3
  <2>3. \A g, k \in hands' : g.frame[1] = k.frame[1] /\ g.frame[2] = k.frame[2] => g = k
    BY <1>1, <2>2 DEF HandsInOrder
  <2> QED BY <1>1, <2>1, <2>3 DEF HandsInOrder, Number, Saved
<1>9. ListsInOrder' /\ RunsInOrder'
  BY <1>1 DEF ListsInOrder, ListOf, RunsInOrder
<1>10. mishaps'.io = 0 => RecordsFollow'
  BY <1>1 DEF RecordsFollow, Indexed, ReadIndex
<1> QED BY <1>5, <1>8, <1>9, <1>10

\* A frame in hand moves on: the others in hand are of other cameras or runs.
LEMMA OthersInHand ==
    ASSUME RecordInv, NEW h \in hands
    PROVE  /\ h \in InHand /\ h.frame \in RunFrames /\ h.frame[1] \in Runs
           /\ h.frame[3] \in Nat
           /\ \A g \in hands \ {h} :
                g.frame # h.frame /\ ~(g.frame[1] = h.frame[1] /\ g.frame[2] = h.frame[2])
BY DEF RecordInv, RecordTypeOK, HandsInOrder, InHand, RunFrames

\* The image is in the directory of the run.
LEMMA SaveKeeps ==
    ASSUME RecordInv, NEW h \in hands, SaveImage(h)
    PROVE  RecordInv'
<1> USE DEF RecordInv
<1> DEFINE f == h.frame
           t == [h EXCEPT !.at = "saved"]
<1>1. /\ h.at = "pull" /\ images' = images \cup {f} /\ hands' = (hands \ {h}) \cup {t}
      /\ UNCHANGED <<up, begun, current, memory, handles, rows, lines, docs, mishaps, excused, unsaid>>
  BY DEF SaveImage
<1>2. t \in InHand /\ t.frame = f /\ t.at = "saved" /\ f \in RunFrames
  BY OthersInHand DEF InHand
<1> HIDE DEF t
<1>3. f[3] = Number(f) + 1 /\ Number(f) \in Nat /\ f \notin images
  <2>1. f[3] = Number(f) + 1 /\ Number(f) \in Nat
    BY <1>1, FS_Subset, FS_CardinalityType DEF HandsInOrder, RecordTypeOK, Number, Saved
  <2> QED BY <2>1 DEF HandsInOrder
<1>4. ASSUME NEW g \in RunFrames
      PROVE  /\ Number(g) \in Nat
             /\ g[1] = f[1] /\ g[2] = f[2] => Number(g)' = Number(g) + 1
             /\ ~(g[1] = f[1] /\ g[2] = f[2]) => Number(g)' = Number(g)
  <2>1. IsFiniteSet(Saved(g[1], g[2])) /\ Number(g) \in Nat
    BY FS_Subset, FS_CardinalityType DEF RecordTypeOK, Number, Saved
  <2>2. CASE g[1] = f[1] /\ g[2] = f[2]
    <3>1. Saved(g[1], g[2])' = Saved(g[1], g[2]) \cup {f} /\ f \notin Saved(g[1], g[2])
      BY <1>1, <1>3, <2>2 DEF Saved
    <3>2. Cardinality(Saved(g[1], g[2]) \cup {f}) = Cardinality(Saved(g[1], g[2])) + 1
      BY <2>1, <3>1, FS_AddElement
    <3> QED BY <2>1, <2>2, <3>1, <3>2 DEF Number
  <2>3. CASE ~(g[1] = f[1] /\ g[2] = f[2])
    <3>1. Saved(g[1], g[2])' = Saved(g[1], g[2])
      BY <1>1, <2>3 DEF Saved
    <3> QED BY <2>1, <2>3, <3>1 DEF Number
  <2> QED BY <2>2, <2>3
<1>5. RecordTypeOK'
  <2>1. IsFiniteSet(images')
    BY <1>1, FS_AddElement DEF RecordTypeOK
  <2> QED BY <1>1, <1>2, <2>1 DEF RecordTypeOK
<1>6. HandsInOrder'
  <2>1. \A g \in images' : g[3] <= Number(g)'
    <3> SUFFICES ASSUME NEW g \in images' PROVE g[3] <= Number(g)'
      OBVIOUS
    <3>1. CASE g = f
      BY <1>2, <1>3, <1>4, <3>1
    <3>2. CASE g \in images
      <4>1. g \in RunFrames /\ g[3] \in Nat /\ g[3] <= Number(g)
        BY <3>2 DEF HandsInOrder, RecordTypeOK, RunFrames
      <4> QED BY <1>4, <4>1
    <3> QED BY <1>1, <3>1, <3>2
  <2>2. ASSUME NEW g \in hands \ {h}, g.at = "pull" PROVE g.frame[3] = Number(g.frame)' + 1
    <3>1. g.frame \in RunFrames /\ ~(g.frame[1] = f[1] /\ g.frame[2] = f[2])
      BY OthersInHand
    <3> QED BY <1>4, <2>2, <3>1 DEF HandsInOrder
  <2>3. \A g \in hands' :
            /\ IF g.at = "pull" THEN g.frame[3] = Number(g.frame)' + 1
               ELSE g.frame \in images'
            /\ g.frame \notin ToSet(memory) /\ g.frame \notin ToSet(lines[g.frame[1]])
            /\ g.frame[1] <= begun
            /\ g.frame[1] = current \/ g.frame \in excused
    BY <1>1, <1>2, <2>2 DEF HandsInOrder
  <2>4. \A g, k \in hands' : g.frame[1] = k.frame[1] /\ g.frame[2] = k.frame[2] => g = k
    BY <1>1, <1>2, OthersInHand DEF HandsInOrder
  <2> QED BY <1>1, <2>1, <2>3, <2>4 DEF HandsInOrder
<1>7. ListsInOrder' /\ RunsInOrder'
  BY <1>1 DEF ListsInOrder, ListOf, RunsInOrder
<1>8. ASSUME mishaps'.io = 0 PROVE RecordsFollow'
  <2>1. \A g \in rows : (\E k \in hands : k.frame = g) => \E k \in hands' : k.frame = g
    BY <1>1, <1>2
  <2>2. \A k \in hands' : k.frame[1] = current /\ k.at = "logged" => k.frame \in rows
    BY <1>1, <1>2, <1>8 DEF RecordsFollow
  <2> QED BY <1>1, <1>8, <2>1, <2>2 DEF RecordsFollow, Indexed, ReadIndex
<1> QED BY <1>5, <1>6, <1>7, <1>8

\* The row of flight_log.csv is written, or was refused by the disk.
LEMMA LogKeeps ==
    ASSUME RecordInv, NEW h \in hands, LogRow(h)
    PROVE  RecordInv'
<1> USE DEF RecordInv
<1> DEFINE f == h.frame
           t == [h EXCEPT !.at = "logged"]
<1>1. /\ h.at = "saved" /\ hands' = (hands \ {h}) \cup {t}
      /\ rows' = rows \/ rows' = rows \cup {f}
      /\ UNCHANGED <<up, begun, current, memory, images, lines, docs, excused, unsaid>>
  BY DEF LogRow
<1>2. t \in InHand /\ t.frame = f /\ t.at = "logged" /\ f \in RunFrames
  BY OthersInHand DEF InHand
<1> HIDE DEF t
<1>3. f \in images
  BY <1>1 DEF HandsInOrder
<1>4. mishaps' \in [kills : Nat, io : Nat] /\ (mishaps'.io = 0 => mishaps.io = 0)
  BY DEF LogRow, DiskTakes, RecordTypeOK
<1>5. RecordTypeOK'
  BY <1>1, <1>2, <1>3, <1>4 DEF RecordTypeOK
<1>6. HandsInOrder'
  <2>1. \A g \in hands' :
            /\ IF g.at = "pull" THEN g.frame[3] = Number(g.frame) + 1
               ELSE g.frame \in images
            /\ g.frame \notin ToSet(memory) /\ g.frame \notin ToSet(lines[g.frame[1]])
            /\ g.frame[1] <= begun
            /\ g.frame[1] = current \/ g.frame \in excused
    BY <1>1, <1>2, <1>3 DEF HandsInOrder
  <2>2. \A g, k \in hands' : g.frame[1] = k.frame[1] /\ g.frame[2] = k.frame[2] => g = k
    BY <1>1, <1>2, OthersInHand DEF HandsInOrder
  <2> QED BY <1>1, <2>1, <2>2 DEF HandsInOrder, Number, Saved
<1>7. ListsInOrder' /\ RunsInOrder'
  BY <1>1 DEF ListsInOrder, ListOf, RunsInOrder
<1>8. ASSUME mishaps'.io = 0 PROVE RecordsFollow'
  <2>1. /\ handles' = handles /\ RecordsFollow
        /\ rows' = IF <<f[1], f[2]>> \in handles THEN rows \cup {f} ELSE rows
    <3>1. \A fine \in BOOLEAN : DiskTakes(fine) => fine
      BY <1>8 DEF DiskTakes, RecordTypeOK
    <3> QED BY <1>4, <1>8, <3>1 DEF LogRow
  <2>2. f[1] = current => f \in rows'
    <3> SUFFICES ASSUME f[1] = current PROVE f \in rows'
      OBVIOUS
    <3>1. f[1] # 0 /\ f[2] \in Cams
      BY <1>2 DEF RunFrames, Runs
    <3> QED BY <2>1, <3>1 DEF RecordsFollow
  <2>3. \A k \in hands' : k.frame[1] = current /\ k.at = "logged" => k.frame \in rows'
    BY <1>1, <1>2, <2>1, <2>2 DEF RecordsFollow
  <2>4. \A g \in rows' : \/ g \in excused \/ g \in ToSet(lines[g[1]])
                         \/ \E k \in hands' : k.frame = g
    BY <1>1, <1>2, <2>1 DEF RecordsFollow
  <2>5. rows \subseteq rows'
    BY <1>1
  <2> QED BY <1>1, <2>1, <2>3, <2>4, <2>5 DEF RecordsFollow, Indexed, ReadIndex
<1> QED BY <1>5, <1>6, <1>7, <1>8

\* A frame that outlasted its run is not indexed.
LEMMA RefuseKeeps ==
    ASSUME RecordInv, NEW h \in hands, RefuseLate(h)
    PROVE  RecordInv'
<1> USE DEF RecordInv
<1>1. /\ h.frame[1] # current /\ hands' = hands \ {h}
      /\ UNCHANGED <<up, begun, current, memory, handles, images, rows, lines, docs, mishaps,
                     excused, unsaid>>
  BY DEF RefuseLate, Indexable
<1>2. h.frame \in excused
  BY <1>1 DEF HandsInOrder
<1>3. RecordTypeOK' /\ ListsInOrder' /\ RunsInOrder'
  BY <1>1 DEF RecordTypeOK, ListsInOrder, ListOf, RunsInOrder
<1>4. HandsInOrder'
  BY <1>1 DEF HandsInOrder, Number, Saved
<1>5. mishaps'.io = 0 => RecordsFollow'
  BY <1>1, <1>2 DEF RecordsFollow, Indexed, ReadIndex
<1> QED BY <1>3, <1>4, <1>5

\* A line more in the index of the active run, of a frame in hand.
LEMMA LineMore ==
    ASSUME RecordInv, NEW h \in hands, h.at = "logged", h.frame[1] = current,
           NEW l, l = [lines EXCEPT ![current] = Append(@, h.frame)]
    PROVE  /\ l \in [Runs -> Seq(RunFrames)] /\ current \in Runs
           /\ l[current] = Append(lines[current], h.frame)
           /\ \A r \in Runs : /\ r # current => l[r] = lines[r]
                              /\ ListOf(l[r], r)
           /\ ToSet(l[current]) = ToSet(lines[current]) \cup {h.frame}
<1>1. /\ h.frame \in RunFrames /\ current \in Runs /\ lines[current] \in Seq(RunFrames)
      /\ h.frame \in images /\ h.frame \notin ToSet(lines[current])
      /\ lines \in [Runs -> Seq(RunFrames)]
  BY OthersInHand DEF RecordInv, HandsInOrder, RecordTypeOK
<1>2. /\ Append(lines[current], h.frame) \in Seq(RunFrames)
      /\ ToSet(Append(lines[current], h.frame)) = ToSet(lines[current]) \cup {h.frame}
      /\ Distinct(lines[current]) => Distinct(Append(lines[current], h.frame))
  BY <1>1, OneMore
<1>3. /\ l \in [Runs -> Seq(RunFrames)] /\ l[current] = Append(lines[current], h.frame)
      /\ \A r \in Runs : r # current => l[r] = lines[r]
  BY <1>1, <1>2
<1>4. ListOf(l[current], current)
  BY <1>1, <1>2, <1>3 DEF RecordInv, ListsInOrder, ListOf
<1> QED BY <1>1, <1>2, <1>3, <1>4 DEF RecordInv, ListsInOrder

\* A line of index.jsonl, an entry in memory and, now and then, a run.json.
LEMMA IndexKeeps ==
    ASSUME RecordInv, NEW h \in hands, IndexFrame(h)
    PROVE  RecordInv'
<1> USE DEF RecordInv
<1> DEFINE f == h.frame
           index == Append(memory, f)
           more == [lines EXCEPT ![current] = Append(@, f)]
           new == docs'[current]
<1>1. /\ h.at = "logged" /\ f[1] = current /\ memory' = index /\ hands' = hands \ {h}
      /\ lines' = lines \/ lines' = more
      /\ docs' = docs \/ docs' = [docs EXCEPT ![current] = Doc(index, FALSE)]
      /\ UNCHANGED <<up, begun, current, images, rows, excused, unsaid>>
  BY DEF IndexFrame, Indexable
<1>2. /\ f \in RunFrames /\ f \in images /\ current \in Runs /\ current # 0
      /\ f \notin ToSet(memory) /\ memory \in Seq(RunFrames)
      /\ ListOf(memory, current)
  <2>1. f \in RunFrames /\ f[1] \in Runs /\ f[1] # 0
    BY OthersInHand DEF Runs
  <2>2. f \in images /\ f \notin ToSet(memory)
    BY <1>1 DEF HandsInOrder
  <2>3. memory \in Seq(RunFrames) /\ ListOf(memory, current)
    BY DEF RecordTypeOK, ListsInOrder
  <2> HIDE DEF f
  <2> QED BY <1>1, <2>1, <2>2, <2>3
<1>3. /\ index \in Seq(RunFrames) /\ ToSet(index) = ToSet(memory) \cup {f}
      /\ Distinct(index)
  BY <1>2, OneMore DEF ListOf
<1>4. mishaps' \in [kills : Nat, io : Nat] /\ (mishaps'.io = 0 => mishaps.io = 0)
  BY DEF IndexFrame, DiskTakes, RecordTypeOK
<1> HIDE DEF index, more
<1>5. /\ more \in [Runs -> Seq(RunFrames)] /\ more[current] = Append(lines[current], f)
      /\ \A r \in Runs : (r # current => more[r] = lines[r]) /\ ListOf(more[r], r)
      /\ ToSet(more[current]) = ToSet(lines[current]) \cup {f}
  BY <1>1, LineMore DEF more
<1>6. /\ new \in Docs /\ ~new.final
      /\ Distinct(new.index)
      /\ new = docs[current] \/ (/\ ToSet(new.index) \subseteq ToSet(index)
                                 /\ new.frames >= Len(new.index))
  <2>1. CASE new = docs[current]
    BY <1>2, <2>1 DEF RecordTypeOK, RunsInOrder, ListsInOrder, ListOf
  <2>2. CASE new = Doc(index, FALSE)
    <3>1. /\ Doc(index, FALSE) \in Docs /\ Doc(index, FALSE).there
          /\ ~Doc(index, FALSE).final /\ Doc(index, FALSE).frames = Len(index)
          /\ Len(Doc(index, FALSE).index) \in Nat
          /\ Len(Doc(index, FALSE).index) <= Len(index)
          /\ ToSet(Doc(index, FALSE).index) \subseteq ToSet(index)
          /\ Distinct(Doc(index, FALSE).index)
      BY <1>3, DocHolds
    <3>2. Len(index) \in Nat
      BY <1>3
    <3> QED BY <2>2, <3>1, <3>2
  <2>3. new = docs[current] \/ new = Doc(index, FALSE)
    BY <1>1, <1>2 DEF RecordTypeOK
  <2> QED BY <2>1, <2>2, <2>3
<1> HIDE DEF new
<1>7. /\ docs' \in [Runs -> Docs] /\ docs'[current] = new
      /\ \A r \in Runs : r # current => docs'[r] = docs[r]
  <2>1. Doc(index, FALSE) \in Docs
    BY <1>3, DocHolds
  <2> QED BY <1>1, <1>2, <2>1 DEF RecordTypeOK, new
<1>8. RecordTypeOK'
  BY <1>1, <1>3, <1>4, <1>5, <1>7 DEF RecordTypeOK
<1>9. HandsInOrder'
  <2>1. ASSUME NEW g \in hands \ {h}
        PROVE  /\ g.frame \notin ToSet(index) /\ g.frame \notin ToSet(lines'[g.frame[1]])
               /\ g.frame[1] <= begun
    <3>1. /\ g.frame # f /\ g.frame \notin ToSet(memory) /\ g.frame[1] \in Runs
          /\ g.frame \notin ToSet(lines[g.frame[1]]) /\ g.frame[1] <= begun
      BY OthersInHand DEF HandsInOrder
    <3> QED BY <1>1, <1>3, <1>5, <1>6, <1>7, <3>1
  <2> QED BY <1>1, <2>1 DEF HandsInOrder, Number, Saved
<1>10. ListsInOrder'
  <2>1. ListOf(index, current)
    BY <1>1, <1>2, <1>3 DEF ListOf
  <2>2. ListOf(new.index, current)
    BY <1>2, <1>6, <2>1 DEF ListOf, ListsInOrder
  <2>3. \A r \in Runs : ListOf(lines'[r], r) /\ ListOf(docs'[r].index, r)
    BY <1>1, <1>5, <1>7, <2>2 DEF ListsInOrder
  <2> QED BY <1>1, <2>1, <2>3 DEF ListsInOrder, ListOf
<1>11. RunsInOrder'
  <2>1. \A r \in Runs : r > begun => r # current
    BY <1>2 DEF RunsInOrder, Runs, RecordTypeOK
  <2> QED BY <1>1, <1>2, <1>5, <1>6, <1>7, <2>1 DEF RunsInOrder
<1>12. ASSUME mishaps'.io = 0 PROVE RecordsFollow'
  <2>1. RecordsFollow /\ handles' = handles /\ lines' = more
    <3>1. \A fine \in BOOLEAN : DiskTakes(fine) => fine
      BY <1>12 DEF DiskTakes, RecordTypeOK
    <3>2. RecordsFollow
      BY <1>4, <1>12
    <3>3. <<current, 0>> \in handles
      BY <1>2, <3>2 DEF RecordsFollow
    <3> QED BY <3>1, <3>2, <3>3 DEF IndexFrame, more
  <2>2. lines'[current] = memory'
    BY <1>1, <1>2, <1>5, <2>1 DEF RecordsFollow, index
  <2>3. f \in rows
    BY <1>1, <2>1 DEF RecordsFollow
  <2>4. \A g \in rows : \/ g \in excused \/ g \in ToSet(lines'[g[1]])
                        \/ \E k \in hands' : k.frame = g
    <3> SUFFICES ASSUME NEW g \in rows, g \notin excused,
                        ~\E k \in hands' : k.frame = g
                 PROVE  g \in ToSet(lines'[g[1]])
      OBVIOUS
    <3>1. g[1] \in Runs /\ (g = f \/ g \in ToSet(lines[g[1]]))
      BY <1>1, <2>1 DEF RecordsFollow, RecordTypeOK, RunFrames
    <3> QED BY <1>1, <1>5, <2>1, <3>1
  <2>5. ASSUME NEW r \in Runs
        PROVE  /\ ToSet(lines'[r]) \subseteq rows
               /\ ToSet(docs'[r].index) \subseteq ToSet(lines'[r])
               /\ ~docs'[r].final => docs'[r].frames >= Len(docs'[r].index)
               /\ docs'[r].final => docs'[r].frames >= Cardinality(Indexed(r)')
    <3>1. CASE r # current
      <4>1. lines'[r] = lines[r] /\ docs'[r] = docs[r]
        BY <1>5, <1>7, <2>1, <3>1
      <4> QED BY <2>1, <4>1 DEF RecordsFollow, Indexed, ReadIndex
    <3>2. CASE r = current
      <4>1. /\ ToSet(lines[r]) \subseteq rows /\ ToSet(docs[r].index) \subseteq ToSet(lines[r])
            /\ ~docs[r].final => docs[r].frames >= Len(docs[r].index)
            /\ lines[r] = memory
        BY <1>2, <2>1, <3>2 DEF RecordsFollow
      <4>2. ToSet(lines'[r]) = ToSet(lines[r]) \cup {f}
        BY <1>5, <2>1, <3>2
      <4>3. docs'[r] = new /\ ~new.final /\ new.frames >= Len(new.index)
        BY <1>2, <1>6, <1>7, <3>2, <4>1 DEF RunsInOrder
      <4>4. ToSet(new.index) \subseteq ToSet(lines'[r])
        BY <1>3, <1>6, <3>2, <4>1, <4>2
      <4> QED BY <2>3, <4>1, <4>2, <4>3, <4>4
    <3> QED BY <3>1, <3>2
  <2> QED BY <1>1, <2>1, <2>2, <2>4, <2>5 DEF RecordsFollow
<1> QED BY <1>8, <1>9, <1>10, <1>11, <1>12

\* The run is over: its run.json is final, whatever is still in hand.
LEMMA StopKeeps ==
    ASSUME RecordInv, StopRecord
    PROVE  RecordInv'
<1> USE DEF RecordInv
<1> DEFINE word == Doc(memory, TRUE)
           new == docs'[current]
<1>1. /\ up /\ current # 0 /\ current \in Runs /\ current' = 0 /\ memory' = <<>>
      /\ excused' = excused \cup {h.frame : h \in hands}
      /\ UNCHANGED <<up, begun, hands, images, rows, lines>>
  BY DEF StopRecord, RecordTypeOK
<1>2. /\ word \in Docs /\ word.there /\ word.final /\ word.frames = Len(memory)
      /\ word.index \in Seq(RunFrames) /\ Len(word.index) \in Nat
      /\ Len(word.index) <= Len(memory) /\ ToSet(word.index) \subseteq ToSet(memory)
      /\ Distinct(word.index) /\ memory \in Seq(RunFrames) /\ ListOf(memory, current)
  BY DocHolds DEF RecordTypeOK, ListsInOrder, ListOf
<1> HIDE DEF word
<1>3. /\ docs' \in [Runs -> Docs]
      /\ \A r \in Runs : r # current => docs'[r] = docs[r]
      /\ \/ new = word /\ unsaid' = unsaid
         \/ new = docs[current] /\ unsaid' = unsaid \cup {current} /\ mishaps'.io # 0
      /\ mishaps' \in [kills : Nat, io : Nat] /\ (mishaps'.io = 0 => mishaps.io = 0)
  <2>1. PICK said \in BOOLEAN :
            /\ DiskTakes(said)
            /\ docs' = IF said THEN [docs EXCEPT ![current] = word] ELSE docs
            /\ unsaid' = IF said THEN unsaid ELSE unsaid \cup {current}
    BY DEF StopRecord, word
  <2>2. CASE said
    BY <1>1, <1>2, <2>1, <2>2 DEF RecordTypeOK, DiskTakes
  <2>3. CASE ~said
    BY <1>1, <2>1, <2>3 DEF RecordTypeOK, DiskTakes
  <2> QED BY <2>2, <2>3
<1> HIDE DEF new
<1>4. RecordTypeOK'
  BY <1>1, <1>3, EmptyList DEF RecordTypeOK
<1>5. HandsInOrder'
  <2>1. \A h \in hands : h.frame \in excused' /\ h.frame \notin ToSet(<<>>)
    BY <1>1, EmptyList
  <2> QED BY <1>1, <2>1 DEF HandsInOrder, Number, Saved
<1>6. ListsInOrder'
  <2>1. ListOf(word.index, current) /\ ListOf(docs[current].index, current)
    BY <1>1, <1>2 DEF ListsInOrder, ListOf
  <2>2. ListOf(docs'[current].index, current)
    BY <1>3, <2>1 DEF new
  <2> QED BY <1>1, <1>3, <2>2, EmptyList DEF ListsInOrder, ListOf
<1>7. RunsInOrder'
  <2>1. ~(current > begun) /\ \A r \in Runs : r # 0
    BY <1>1 DEF RunsInOrder, Runs, RecordTypeOK
  <2>2. \A r \in Runs : /\ r > begun => ~docs'[r].there /\ lines[r] = <<>>
                        /\ ~docs'[r].there => ~docs'[r].final
                        /\ docs'[r].there => docs'[r].final \/ r \in unsaid'
    <3>1. ASSUME NEW r \in Runs, r # current
          PROVE  /\ r > begun => ~docs'[r].there /\ lines[r] = <<>>
                 /\ ~docs'[r].there => ~docs'[r].final
                 /\ docs'[r].there => docs'[r].final \/ r \in unsaid'
      BY <1>1, <1>3, <3>1 DEF RunsInOrder
    <3>2. /\ ~docs'[current].there => ~docs'[current].final
          /\ docs'[current].there => docs'[current].final \/ current \in unsaid'
      BY <1>1, <1>2, <1>3 DEF RunsInOrder, new
    <3> QED BY <2>1, <3>1, <3>2
  <2> QED BY <1>1, <2>2 DEF RunsInOrder
<1>8. ASSUME mishaps'.io = 0 PROVE RecordsFollow'
  <2>1. /\ RecordsFollow /\ lines[current] = memory
        /\ new = word /\ unsaid' = unsaid /\ unsaid = {}
    BY <1>1, <1>3, <1>8 DEF RecordsFollow
  <2>2. ToSet(new.index) \subseteq ToSet(lines[current])
    BY <1>2, <2>1
  <2>3. docs'[current] = new
    BY DEF new
  <2>4. ASSUME NEW r \in Runs
        PROVE  /\ ToSet(lines[r]) \subseteq rows
               /\ ToSet(docs'[r].index) \subseteq ToSet(lines[r])
               /\ ~docs'[r].final => docs'[r].frames >= Len(docs'[r].index)
               /\ docs'[r].final => docs'[r].frames >= Cardinality(Indexed(r)')
    <3>1. CASE r = current
      <4>1. /\ Cardinality(ToSet(memory)) = Len(memory) /\ Len(memory) \in Nat
            /\ Cardinality(ToSet(new.index)) = Len(new.index)
        BY <1>2, <2>1, DistinctSize DEF ListOf
      <4>2. Indexed(r)' = ToSet(memory) \/ Indexed(r)' = ToSet(new.index)
        BY <1>1, <2>1, <2>3, <3>1 DEF Indexed, ReadIndex
      <4>3. new.frames >= Cardinality(Indexed(r)')
        BY <1>2, <2>1, <4>1, <4>2
      <4> QED BY <1>2, <2>1, <2>2, <2>3, <3>1, <4>3 DEF RecordsFollow
    <3>2. CASE r # current
      <4>1. docs'[r] = docs[r] /\ Indexed(r)' = Indexed(r)
        BY <1>1, <1>3, <3>2 DEF Indexed, ReadIndex
      <4> QED BY <2>1, <4>1 DEF RecordsFollow
    <3> QED BY <3>1, <3>2
  <2>5. \A h \in hands : h.frame[1] # current'
    BY <1>1, OthersInHand DEF Runs
  <2> QED BY <1>1, <2>1, <2>4, <2>5 DEF RecordsFollow
<1> QED BY <1>4, <1>5, <1>6, <1>7, <1>8

\* rigd is killed: what was in hand is lost, but for a line that was flushed.
LEMMA KillKeeps ==
    ASSUME RecordInv, NEW h \in hands \cup {NoHand}, KillRig(h)
    PROVE  RecordInv'
<1> USE DEF RecordInv
<1>1. /\ up' = FALSE /\ current' = 0 /\ memory' = <<>> /\ handles' = {} /\ hands' = {}
      /\ excused' = excused \cup {x.frame : x \in hands}
      /\ UNCHANGED <<begun, images, rows, docs, unsaid>>
  BY DEF KillRig
<1>2. mishaps' \in [kills : Nat, io : Nat] /\ mishaps'.io = mishaps.io
  <2>1. mishaps \in [kills : Nat, io : Nat]
    BY DEF RecordTypeOK
  <2>2. mishaps' = [mishaps EXCEPT !.kills = @ + 1]
    BY DEF KillRig
  <2> QED BY ONLY <2>1, <2>2
<1>3. \/ lines' = lines
      \/ /\ h \in hands /\ h.at = "logged" /\ h.frame[1] = current
         /\ lines' = [lines EXCEPT ![current] = Append(@, h.frame)]
  BY DEF KillRig, Indexable
<1>4. /\ lines' \in [Runs -> Seq(RunFrames)]
      /\ \A r \in Runs : /\ ListOf(lines'[r], r)
                         /\ ToSet(lines[r]) \subseteq ToSet(lines'[r])
                         /\ r # current => lines'[r] = lines[r]
                         /\ mishaps.io = 0 => ToSet(lines'[r]) \subseteq rows
  <2>1. CASE lines' = lines
    BY <2>1 DEF RecordTypeOK, ListsInOrder, RecordsFollow
  <2>2. CASE /\ h \in hands /\ h.at = "logged" /\ h.frame[1] = current
             /\ lines' = [lines EXCEPT ![current] = Append(@, h.frame)]
    <3>1. /\ lines' \in [Runs -> Seq(RunFrames)]
          /\ \A r \in Runs : (r # current => lines'[r] = lines[r]) /\ ListOf(lines'[r], r)
          /\ ToSet(lines'[current]) = ToSet(lines[current]) \cup {h.frame}
      BY <2>2, LineMore
    <3>2. mishaps.io = 0 => h.frame \in rows
      BY <2>2 DEF RecordsFollow
    <3> QED BY <3>1, <3>2 DEF RecordsFollow
  <2> QED BY <1>3, <2>1, <2>2
<1>5. RecordTypeOK'
  BY <1>1, <1>2, <1>4, EmptyList DEF RecordTypeOK
<1>6. HandsInOrder'
  BY <1>1 DEF HandsInOrder, Number, Saved
<1>7. ListsInOrder'
  <2>1. \A r \in Runs : ListOf(docs[r].index, r)
    BY DEF ListsInOrder
  <2> QED BY <1>1, <1>4, <2>1, EmptyList DEF ListsInOrder, ListOf
<1>8. RunsInOrder'
  <2>1. \A r \in Runs : r > begun => r # current
    BY DEF RunsInOrder, Runs, RecordTypeOK
  <2>2. \A r \in Runs : r > begun => ~docs[r].there /\ lines'[r] = <<>>
    BY <1>4, <2>1 DEF RunsInOrder
  <2> QED BY <1>1, <2>2 DEF RunsInOrder
<1>9. ASSUME mishaps'.io = 0 PROVE RecordsFollow'
  <2>1. RecordsFollow
    BY <1>2, <1>9
  <2>2. ASSUME NEW f \in rows PROVE f \in excused' \/ f \in ToSet(lines'[f[1]])
    <3>1. f[1] \in Runs
      BY DEF RecordTypeOK, RunFrames
    <3> QED BY <1>1, <1>4, <2>1, <3>1 DEF RecordsFollow
  <2>3. ASSUME NEW r \in Runs
        PROVE  /\ ToSet(lines'[r]) \subseteq rows
               /\ ToSet(docs[r].index) \subseteq ToSet(lines'[r])
               /\ ~docs[r].final => docs[r].frames >= Len(docs[r].index)
               /\ docs[r].final => docs[r].frames >= Cardinality(Indexed(r)')
    <3>1. docs[r].final => lines'[r] = lines[r]
      BY <1>4 DEF RunsInOrder, Runs
    <3>2. docs[r].final => Indexed(r)' = Indexed(r)
      BY <1>1, <3>1 DEF Indexed, ReadIndex
    <3> QED BY <1>2, <1>4, <1>9, <2>1, <3>2 DEF RecordsFollow
  <2>4. unsaid = {}
    BY <2>1 DEF RecordsFollow
  <2> QED BY <1>1, <2>2, <2>3, <2>4 DEF RecordsFollow
<1> QED BY <1>5, <1>6, <1>7, <1>8, <1>9

\* The next start of rigd closes every run from what is on the disk.
LEMMA RecoverKeeps ==
    ASSUME RecordInv, RecoverRuns
    PROVE  RecordInv'
<1> USE DEF RecordInv
<1> DEFINE closed(r) == [docs[r] EXCEPT !.final = TRUE, !.frames = Recounted(r)]
<1>0. PICK refused \in SUBSET {r \in Runs : NeverFinal(r)} :
          /\ DiskTakes(refused = {})
          /\ docs' = [r \in Runs |-> IF NeverFinal(r) /\ r \notin refused THEN closed(r)
                                     ELSE docs[r]]
          /\ unsaid' = refused
  BY DEF RecoverRuns
<1>1. /\ ~up /\ up' = TRUE /\ current = 0
      /\ UNCHANGED <<begun, current, memory, handles, hands, images, rows, lines, excused>>
  BY DEF RecoverRuns, RunsInOrder, RecordTypeOK
<1>9. /\ mishaps' \in [kills : Nat, io : Nat] /\ (mishaps'.io = 0 => mishaps.io = 0)
      /\ mishaps'.io = 0 => refused = {}
  <2>1. mishaps \in [kills : Nat, io : Nat]
    BY DEF RecordTypeOK
  <2>2. \/ refused = {} /\ mishaps' = mishaps
        \/ refused # {} /\ mishaps' = [mishaps EXCEPT !.io = @ + 1]
    BY <1>0 DEF DiskTakes
  <2> QED BY ONLY <2>1, <2>2
<1>2. ASSUME NEW r \in Runs
      PROVE  /\ IsFiniteSet(FlightRows(r)) /\ Cardinality(FlightRows(r)) \in Nat
             /\ Recounted(r) \in Nat /\ docs[r] \in Docs
  <2>1. FlightRows(r) \subseteq images /\ IsFiniteSet(images)
    BY DEF FlightRows, RecordTypeOK
  <2>2. IsFiniteSet(FlightRows(r)) /\ Cardinality(FlightRows(r)) \in Nat
    BY <2>1, FS_Subset, FS_CardinalityType
  <2> QED BY <2>2 DEF Recounted, RecordTypeOK, Docs
<1>3. ASSUME NEW r \in Runs
      PROVE  /\ docs'[r] \in Docs /\ docs'[r].there = docs[r].there
             /\ docs'[r].index = docs[r].index
             /\ NeverFinal(r) /\ r \notin refused
                   => docs'[r].final /\ docs'[r].frames = Recounted(r)
             /\ ~NeverFinal(r) \/ r \in refused => docs'[r] = docs[r]
  BY <1>0, <1>2 DEF Docs
<1>4. RecordTypeOK'
  <2>1. docs' \in [Runs -> Docs]
    BY <1>0, <1>3
  <2> QED BY <1>1, <1>9, <2>1 DEF RecordTypeOK
<1>5. HandsInOrder'
  BY <1>1 DEF HandsInOrder, Number, Saved
<1>6. ListsInOrder'
  <2>1. \A r \in Runs : ListOf(lines[r], r) /\ ListOf(docs'[r].index, r)
    BY <1>3 DEF ListsInOrder
  <2> QED BY <1>1, <2>1 DEF ListsInOrder, ListOf
<1>7. RunsInOrder'
  <2>1. \A r \in Runs : docs'[r].there => docs'[r].final \/ r \in unsaid'
    BY <1>0, <1>3 DEF NeverFinal
  <2>2. \A r \in Runs : ~docs'[r].there => ~docs'[r].final
    BY <1>3 DEF RunsInOrder, NeverFinal
  <2>3. \A r \in Runs : r > begun => ~docs'[r].there /\ lines[r] = <<>>
    BY <1>3 DEF RunsInOrder
  <2> QED BY <1>1, <2>1, <2>2, <2>3 DEF RunsInOrder
<1>8. ASSUME mishaps'.io = 0 PROVE RecordsFollow'
  <2>1. RecordsFollow /\ refused = {}
    BY <1>8, <1>9
  <2>2. ASSUME NEW r \in Runs, NeverFinal(r)
        PROVE  Recounted(r) >= Cardinality(Indexed(r)')
    <3>1. CASE lines[r] # <<>>
      <4>1. Indexed(r)' = ToSet(lines[r])
        BY <1>1, <3>1 DEF Indexed, ReadIndex
      <4>2. ToSet(lines[r]) \in SUBSET FlightRows(r) /\ ToSet(lines[r]) # {}
        BY <2>1, <3>1, EmptyList DEF FlightRows, RecordsFollow, ListsInOrder, ListOf,
                                     RecordTypeOK
      <4>3. Cardinality(ToSet(lines[r])) <= Cardinality(FlightRows(r))
        BY <1>2, <4>2, FS_Subset
      <4>4. Cardinality(FlightRows(r)) # 0
        BY <1>2, <4>2, FS_EmptySet
      <4> QED BY <4>1, <4>3, <4>4 DEF Recounted
    <3>2. CASE lines[r] = <<>>
      <4>1. Indexed(r)' = ToSet(docs[r].index)
        BY <1>1, <1>3, <3>2 DEF Indexed, ReadIndex
      <4>2. ToSet(docs[r].index) = {}
        BY <2>1, <3>2, EmptyList DEF RecordsFollow
      <4>3. Cardinality(Indexed(r)') = 0
        BY <4>1, <4>2, FS_EmptySet
      <4> QED BY <1>2, <4>3
    <3> QED BY <3>1, <3>2
  <2>3. ASSUME NEW r \in Runs
        PROVE  /\ ToSet(docs'[r].index) \subseteq ToSet(lines[r])
               /\ ~docs'[r].final => docs'[r].frames >= Len(docs'[r].index)
               /\ docs'[r].final => docs'[r].frames >= Cardinality(Indexed(r)')
    <3>1. CASE NeverFinal(r)
      BY <1>3, <2>1, <2>2, <3>1 DEF RecordsFollow
    <3>2. CASE ~NeverFinal(r)
      <4>1. docs'[r] = docs[r] /\ Indexed(r)' = Indexed(r)
        BY <1>1, <1>3, <3>2 DEF Indexed, ReadIndex
      <4> QED BY <2>1, <4>1 DEF RecordsFollow
    <3> QED BY <3>1, <3>2
  <2> QED BY <1>0, <1>1, <2>1, <2>3 DEF RecordsFollow
<1> QED BY <1>4, <1>5, <1>6, <1>7, <1>8

\* The invariant of the records is inductive, whatever is killed or refused.
THEOREM RecordInductive == RecordSpec => []RecordInv
<1>1. RecordInv /\ [RecordNext]_recordVars => RecordInv'
  <2> SUFFICES ASSUME RecordInv, [RecordNext]_recordVars PROVE RecordInv'
    OBVIOUS
  <2>1. CASE UNCHANGED recordVars
    BY <2>1 DEF recordVars, RecordInv, RecordTypeOK, HandsInOrder, ListsInOrder, ListOf,
                RunsInOrder, RecordsFollow, Number, Saved, Indexed, ReadIndex
  <2>2. CASE RecordNext
    BY <2>2, StartKeeps, TakeKeeps, SaveKeeps, LogKeeps, IndexKeeps, RefuseKeeps,
       StopKeeps, KillKeeps, RecoverKeeps DEF RecordNext
  <2> QED BY <2>1, <2>2
<1> QED BY <1>1, RecordBegins, PTL DEF RecordSpec

\* A run that is over says so, unless the disk refused its last word and every
\* recovery since; the readers of its index see its own frames, each once, and, as
\* long as no write failed, all of them that were not in hand and counted
\* (index_frame, stop, _recover_runs).
THEOREM RecordsStayHonest == RecordSpec => []RecordsAreHonest
<1>1. RecordInv => RecordsAreHonest
  <2> SUFFICES ASSUME RecordInv PROVE RecordsAreHonest
    OBVIOUS
  <2> USE DEF RecordInv
  <2>1. ClosedRunsAreFinal
    BY DEF ClosedRunsAreFinal, Settled, Summary, RunsInOrder
  <2>2. NoForeignFrames
    <3> SUFFICES ASSUME NEW r \in Runs
                 PROVE  /\ \A f \in Indexed(r) : f[1] = r /\ f \in images
                        /\ Len(ReadIndex(r)) = Cardinality(Indexed(r))
      BY DEF NoForeignFrames
    <3>1. ReadIndex(r) \in Seq(RunFrames) /\ ListOf(ReadIndex(r), r)
      BY DEF ReadIndex, RecordTypeOK, Docs, ListsInOrder
    <3> QED BY <3>1, DistinctSize DEF Indexed, ListOf
  <2>3. RecordIsWhole
    <3> SUFFICES ASSUME mishaps.io = 0, NEW r \in Runs, Settled(r), NEW f \in FlightRows(r)
                 PROVE  f \in Indexed(r) \cup excused
      BY DEF RecordIsWhole
    <3>1. f \in rows /\ f[1] = r /\ r # current
      BY DEF FlightRows, Settled
    <3>2. CASE f \in ToSet(lines[r])
      <4>1. lines[r] # <<>>
        BY <3>2, EmptyList
      <4> QED BY <3>2, <4>1 DEF Indexed, ReadIndex
    <3>3. CASE \E h \in hands : h.frame = f
      BY <3>1, <3>3 DEF HandsInOrder
    <3> QED BY <3>1, <3>2, <3>3 DEF RecordsFollow
  <2>4. CountCoversIndex
    BY <2>1 DEF CountCoversIndex, ClosedRunsAreFinal, Settled, Summary, RecordsFollow
  <2> QED BY <2>1, <2>2, <2>3, <2>4 DEF RecordsAreHonest
<1> QED BY <1>1, RecordInductive, PTL

\* What a run leaves on the disk is whole and what the browser shows of it is
\* current, whatever the one does while the other reads.
THEOREM ReadersAreServed == ReadersSpec => []ReadersSeeTheRun
BY RecordsStayHonest, BrowserShowsTheRun, PTL DEF ReadersSpec, ReadersSeeTheRun

-----------------------------------------------------------------------------
(***************************************************************************)
(* The alarms.                                                             *)
(***************************************************************************)
\* What the scans remember, and the history beside it.
AlarmTypeOK ==
    /\ writingSince \in [Watched -> NotWriting..(Stuck + 1)]
    /\ streak \in [Pairs -> 0..SkewScans]
    /\ lockedBy \in Scanners \cup {NobodyScans}
    /\ truth = [appeared |-> truth.appeared, over |-> truth.over,
                quiet |-> truth.quiet]
    /\ truth.over \in Seq(SUBSET Pairs) /\ Len(truth.over) <= SkewScans
    /\ truth.quiet \in [Watched -> 0..(Stuck + 1)]

\* The alarms the operator is shown, or is about to be.
Shows == IF lockedBy = NobodyScans THEN last ELSE found

\* A scan at work has journalled what it is about to remember.
JournalLeads ==
    journal = IF lockedBy = NobodyScans THEN truth.appeared
              ELSE Counted(truth.appeared, found \ last)

\* A streak counts scans, and a skew is shown while one is long enough.
StreaksCount ==
    \A p \in Pairs : \A k \in 0..(SkewScans - 1) :
        k < streak[p] => /\ k < Len(truth.over)
                         /\ p \in truth.over[Len(truth.over) - k]
SkewIsCounted ==
    <<"node_clock_skew", TheRig>> \in Shows =>
        \E p \in Pairs : streak[p] >= SkewScans

\* No write is known for longer than no scan contradicted it.
WritesAreQuiet == \A n \in Watched : writingSince[n] <= truth.quiet[n]
StuckIsShownAlone ==
    \A n \in Watched :
        <<"card_write_stuck", n>> \in Shows =>
            /\ truth.quiet[n] > Stuck
            /\ <<"node_offline", n>> \notin Shows

AlarmInv ==
    /\ AlarmTypeOK /\ JournalLeads /\ StreaksCount /\ SkewIsCounted
    /\ WritesAreQuiet /\ StuckIsShownAlone

\* Nothing was seen yet, and nobody scans.
LEMMA AlarmBegins == AlarmInit => AlarmInv
<1> SUFFICES ASSUME AlarmInit PROVE AlarmInv
  OBVIOUS
<1>1. AlarmTypeOK
  <2>1. truth.over = <<>> /\ truth.quiet = [n \in Watched |-> 0]
    BY DEF AlarmInit
  <2>2. truth.over \in Seq(SUBSET Pairs) /\ Len(truth.over) = 0
    BY <2>1
  <2> QED
    BY <2>1, <2>2, AnomalyScanAssumption DEF AlarmInit, AlarmTypeOK, NotWriting
<1>2. JournalLeads
  BY DEF AlarmInit, JournalLeads
<1>3. StreaksCount
  BY DEF AlarmInit, StreaksCount
<1>4. WritesAreQuiet
  BY DEF AlarmInit, WritesAreQuiet, NotWriting
<1>5. Shows = {}
  BY DEF AlarmInit, Shows
<1> QED BY <1>1, <1>2, <1>3, <1>4, <1>5 DEF AlarmInv, SkewIsCounted, StuckIsShownAlone

\* The rig changes; what was seen of it does not.
LEMMA ChangeKeeps == AlarmInv /\ UNCHANGED Scanner => AlarmInv'
BY DEF AlarmInv, Scanner, AlarmTypeOK, JournalLeads, StreaksCount, SkewIsCounted,
       WritesAreQuiet, StuckIsShownAlone, Shows

\* A second goes by for the writes under way.
LEMMA TickKeeps == AlarmInv /\ AlarmTick => AlarmInv'
<1> SUFFICES ASSUME AlarmInv, AlarmTick PROVE AlarmInv'
  OBVIOUS
<1> USE AnomalyScanAssumption
<1>1. /\ UNCHANGED <<streak, last, lockedBy, found, journal>>
      /\ writingSince' = [n \in Watched |-> IF writingSince[n] = NotWriting
                                            THEN NotWriting
                                            ELSE Upwards(writingSince[n])]
      /\ truth' = [truth EXCEPT !.quiet = [n \in Watched |-> Upwards(@[n])]]
  BY DEF AlarmTick
<1>2. /\ truth'.appeared = truth.appeared /\ truth'.over = truth.over
      /\ truth'.quiet = [n \in Watched |-> Upwards(truth.quiet[n])]
      /\ truth' = [appeared |-> truth'.appeared, over |-> truth'.over,
                   quiet |-> truth'.quiet]
  BY <1>1 DEF AlarmInv, AlarmTypeOK
<1>3. \A n \in Watched : /\ writingSince[n] \in NotWriting..(Stuck + 1)
                         /\ truth.quiet[n] \in 0..(Stuck + 1)
                         /\ writingSince[n] <= truth.quiet[n]
  BY DEF AlarmInv, AlarmTypeOK, WritesAreQuiet
<1>4. \A n \in Watched : /\ writingSince'[n] \in NotWriting..(Stuck + 1)
                         /\ truth'.quiet[n] \in 0..(Stuck + 1)
                         /\ writingSince'[n] <= truth'.quiet[n]
                         /\ truth'.quiet[n] >= truth.quiet[n]
  BY <1>1, <1>2, <1>3 DEF Upwards, NotWriting
<1>5. AlarmTypeOK'
  <2>1. writingSince' \in [Watched -> NotWriting..(Stuck + 1)]
    BY <1>1, <1>4
  <2>2. truth'.quiet \in [Watched -> 0..(Stuck + 1)]
    BY <1>2, <1>4
  <2> QED BY <1>1, <1>2, <2>1, <2>2 DEF AlarmInv, AlarmTypeOK
<1>6. JournalLeads' /\ StreaksCount' /\ SkewIsCounted'
  BY <1>1, <1>2 DEF AlarmInv, JournalLeads, StreaksCount, SkewIsCounted, Shows
<1>7. WritesAreQuiet'
  BY <1>4 DEF WritesAreQuiet
<1>8. StuckIsShownAlone'
  <2> SUFFICES ASSUME NEW n \in Watched, <<"card_write_stuck", n>> \in Shows
               PROVE  truth'.quiet[n] > Stuck /\ <<"node_offline", n>> \notin Shows
    BY <1>1 DEF StuckIsShownAlone, Shows
  <2>1. truth.quiet[n] > Stuck /\ <<"node_offline", n>> \notin Shows
    BY DEF AlarmInv, StuckIsShownAlone
  <2> QED BY <1>3, <1>4, <2>1
<1> QED BY <1>5, <1>6, <1>7, <1>8 DEF AlarmInv

\* What an alarm of a node says of it.
LEMMA StuckIsWritten ==
    ASSUME NEW n \in Watched, <<"card_write_stuck", n>> \in Alarms
    PROVE  Writes(n) /\ Since(n) > Stuck
<1>1. "card_write_stuck" \notin StatAlarms(n) \cup OwnClockAlarms(n)
  BY DEF StatAlarms, OwnClockAlarms, Shown
<1>2. "card_write_stuck" \notin NavAlarms \cup RunAlarms \cup HeldAlarms
                                \cup SkewAlarms \cup HostAlarms \cup HostDiskAlarms
  BY DEF NavAlarms, RunAlarms, HeldAlarms, SkewAlarms, HostAlarms, HostDiskAlarms, Shown
<1>3. "card_write_stuck" \in NodeAlarms(n)
  BY <1>1, <1>2 DEF Alarms
<1>4. "card_write_stuck" \notin BodyAlarms(n)
  BY DEF BodyAlarms, Shown
<1>5. "card_write_stuck" \notin CameraAlarms(n) \cup BoxAlarms(n)
  BY <1>4 DEF CameraAlarms, BoxAlarms, Shown
<1> QED BY <1>3, <1>5 DEF NodeAlarms

\* A node is called offline when it is.
LEMMA OfflineIsOffline ==
    ASSUME NEW n \in Watched, <<"node_offline", n>> \in Alarms
    PROVE  linkState[n] = "OFFLINE"
<1>1. "node_offline" \notin StatAlarms(n) \cup OwnClockAlarms(n)
  BY DEF StatAlarms, OwnClockAlarms, Shown
<1>2. "node_offline" \notin NavAlarms \cup RunAlarms \cup HeldAlarms
                                \cup SkewAlarms \cup HostAlarms \cup HostDiskAlarms
  BY DEF NavAlarms, RunAlarms, HeldAlarms, SkewAlarms, HostAlarms, HostDiskAlarms, Shown
<1>3. "node_offline" \in NodeAlarms(n)
  BY <1>1, <1>2 DEF Alarms
<1>4. "node_offline" \notin BodyAlarms(n)
  BY DEF BodyAlarms, Shown
<1>5. "node_offline" \notin CameraAlarms(n) \cup BoxAlarms(n)
  BY <1>4 DEF CameraAlarms, BoxAlarms, Shown
<1> QED BY <1>3, <1>5 DEF NodeAlarms

\* A skew is announced when one pair disagreed for long enough.
LEMMA SkewIsOfPairs ==
    ASSUME <<"node_clock_skew", TheRig>> \in Alarms
    PROVE  \E p \in Pairs : SkewStreak(p) >= SkewScans
<1>1. \A n : "node_clock_skew" \notin StatAlarms(n) \cup OwnClockAlarms(n)
  BY DEF StatAlarms, OwnClockAlarms, Shown
<1>2. "node_clock_skew" \notin NavAlarms \cup RunAlarms \cup HeldAlarms
                                \cup HostAlarms \cup HostDiskAlarms
  BY DEF NavAlarms, RunAlarms, HeldAlarms, HostAlarms, HostDiskAlarms, Shown
<1>3. \A n : "node_clock_skew" \notin BodyAlarms(n)
  BY DEF BodyAlarms, Shown
<1>4. \A n : "node_clock_skew" \notin CameraAlarms(n) \cup BoxAlarms(n)
  BY <1>3 DEF CameraAlarms, BoxAlarms, Shown
<1>5. \A n : "node_clock_skew" \notin NodeAlarms(n)
  BY <1>4 DEF NodeAlarms
<1>6. "node_clock_skew" \in SkewAlarms
  BY <1>1, <1>2, <1>5 DEF Alarms
<1> QED BY <1>6 DEF SkewAlarms

\* A scan that agreed or could not compare ends a streak; one that disagreed
\* adds itself to what was counted.
LEMMA BeginKeepsStreaks ==
    ASSUME AlarmInv, NEW t \in Scanners, BeginScan(t)
    PROVE  /\ truth'.over \in Seq(SUBSET Pairs) /\ Len(truth'.over) <= SkewScans
           /\ streak' \in [Pairs -> 0..SkewScans]
           /\ StreaksCount'
<1> DEFINE seen == {p \in Pairs : Disagree(p)}
           all == Append(truth.over, seen)
<1> HIDE DEF seen
<1> USE AnomalyScanAssumption
<1>1. /\ truth.over \in Seq(SUBSET Pairs) /\ Len(truth.over) <= SkewScans
      /\ seen \in SUBSET Pairs /\ streak \in [Pairs -> 0..SkewScans]
  BY DEF AlarmInv, AlarmTypeOK, seen
<1>2. /\ all \in Seq(SUBSET Pairs) /\ Len(all) = Len(truth.over) + 1
      /\ all[Len(all)] = seen
      /\ \A i \in 1..Len(truth.over) : all[i] = truth.over[i]
      /\ Len(truth.over) \in Nat
  BY <1>1
<1>3. truth'.over = Recent(all)
  BY DEF BeginScan, AlarmInv, AlarmTypeOK, seen
<1>4. streak' = [p \in Pairs |-> SkewStreak(p)]
  BY DEF BeginScan
<1> HIDE DEF all
<1>5. /\ Recent(all) \in Seq(SUBSET Pairs)
      /\ Len(Recent(all)) = IF Len(all) > SkewScans THEN SkewScans ELSE Len(all)
      /\ \A k \in 0..(Len(Recent(all)) - 1) :
            Recent(all)[Len(Recent(all)) - k] = all[Len(all) - k]
  <2>1. CASE Len(all) > SkewScans
    <3>1. Len(all) = SkewScans + 1 /\ Recent(all) = Tail(all) /\ all # <<>>
      BY <1>1, <1>2, <2>1 DEF Recent
    <3>2. /\ Tail(all) \in Seq(SUBSET Pairs) /\ Len(Tail(all)) = SkewScans
          /\ \A i \in 1..SkewScans : Tail(all)[i] = all[i + 1]
      BY <1>2, <3>1
    <3>3. \A k \in 0..(SkewScans - 1) : Tail(all)[SkewScans - k] = all[Len(all) - k]
      BY <3>1, <3>2
    <3> QED BY <2>1, <3>1, <3>2, <3>3
  <2>2. CASE ~(Len(all) > SkewScans)
    BY <1>2, <2>2 DEF Recent
  <2> QED BY <2>1, <2>2
<1>6. \A p \in Pairs : streak'[p] \in 0..SkewScans
  BY <1>1, <1>4 DEF SkewStreak
<1>7. ASSUME NEW p \in Pairs, NEW k \in 0..(SkewScans - 1), k < streak'[p]
      PROVE  k < Len(truth'.over) /\ p \in truth'.over[Len(truth'.over) - k]
  <2>1. p \in seen /\ streak'[p] <= streak[p] + 1 /\ streak[p] \in 0..SkewScans
    BY <1>1, <1>4, <1>7 DEF SkewStreak, seen
  <2>2. CASE k = 0
    BY <1>2, <1>3, <1>5, <2>1, <2>2
  <2>3. CASE k > 0
    <3>1. k - 1 \in 0..(SkewScans - 1) /\ k - 1 < streak[p]
      BY <1>6, <1>7, <2>1, <2>3
    <3>2. k - 1 < Len(truth.over) /\ p \in truth.over[Len(truth.over) - (k - 1)]
      BY <3>1 DEF AlarmInv, StreaksCount
    <3>3. /\ k < Len(all) /\ k < Len(Recent(all))
          /\ Len(all) - k \in 1..Len(truth.over)
          /\ Len(all) - k = Len(truth.over) - (k - 1)
      BY <1>2, <1>5, <2>3, <3>1, <3>2
    <3>4. p \in all[Len(all) - k]
      BY <1>2, <3>2, <3>3
    <3>5. k \in 0..(Len(Recent(all)) - 1)
      BY <3>1, <3>3
    <3>6. Recent(all)[Len(Recent(all)) - k] = all[Len(all) - k]
      BY <1>5, <3>5
    <3> QED BY <1>3, <3>3, <3>4, <3>6
  <2> QED BY <2>2, <2>3
<1>8. Len(truth'.over) <= SkewScans
  BY <1>2, <1>3, <1>5
<1> QED BY <1>3, <1>4, <1>5, <1>6, <1>7, <1>8 DEF StreaksCount

\* A scan looks at the rig, counts, and journals what is new.
LEMMA BeginKeeps ==
    ASSUME AlarmInv, NEW t \in Scanners, BeginScan(t)
    PROVE  AlarmInv'
<1> USE AnomalyScanAssumption
<1>1. /\ lockedBy = NobodyScans /\ lockedBy' = t /\ t # NobodyScans
      /\ found' = Alarms /\ last' = last
      /\ writingSince' = [n \in Watched |-> Since(n)]
      /\ streak' = [p \in Pairs |-> SkewStreak(p)]
      /\ journal' = Counted(journal, Alarms \ last)
  BY DEF BeginScan, FreeToScan, NobodyScans
<1>2. /\ truth'.appeared = truth.appeared
      /\ truth'.quiet = [n \in Watched |-> IF Writes(n) \/ linkState[n] = "OFFLINE"
                                           THEN truth.quiet[n] ELSE 0]
      /\ truth' = [appeared |-> truth'.appeared, over |-> truth'.over,
                   quiet |-> truth'.quiet]
  BY DEF BeginScan, AlarmInv, AlarmTypeOK
<1>3. Shows' = Alarms
  BY <1>1 DEF Shows
<1>4. \A n \in Watched : /\ writingSince[n] \in NotWriting..(Stuck + 1)
                         /\ truth.quiet[n] \in 0..(Stuck + 1)
                         /\ writingSince[n] <= truth.quiet[n]
  BY DEF AlarmInv, AlarmTypeOK, WritesAreQuiet
<1>5. \A n \in Watched : /\ writingSince'[n] \in NotWriting..(Stuck + 1)
                         /\ truth'.quiet[n] \in 0..(Stuck + 1)
                         /\ writingSince'[n] <= truth'.quiet[n]
  BY <1>1, <1>2, <1>4 DEF Since, NotWriting, Writes
<1>6. AlarmTypeOK'
  <2>1. writingSince' \in [Watched -> NotWriting..(Stuck + 1)]
    BY <1>1, <1>5
  <2>2. truth'.quiet \in [Watched -> 0..(Stuck + 1)]
    BY <1>2, <1>5
  <2> QED BY <1>1, <1>2, <2>1, <2>2, BeginKeepsStreaks DEF AlarmTypeOK
<1>7. JournalLeads'
  BY <1>1, <1>2 DEF AlarmInv, JournalLeads
<1>8. SkewIsCounted'
  <2> SUFFICES ASSUME <<"node_clock_skew", TheRig>> \in Alarms
               PROVE  \E p \in Pairs : streak'[p] >= SkewScans
    BY <1>3 DEF SkewIsCounted
  <2> QED BY <1>1, SkewIsOfPairs
<1>9. WritesAreQuiet'
  BY <1>5 DEF WritesAreQuiet
<1>10. StuckIsShownAlone'
  <2> SUFFICES ASSUME NEW n \in Watched, <<"card_write_stuck", n>> \in Alarms
               PROVE  truth'.quiet[n] > Stuck /\ <<"node_offline", n>> \notin Alarms
    BY <1>3 DEF StuckIsShownAlone
  <2>1. Writes(n) /\ Since(n) > Stuck
    BY StuckIsWritten
  <2>2. linkState[n] # "OFFLINE"
    BY <2>1 DEF Writes, Answers
  <2>3. <<"node_offline", n>> \notin Alarms
    BY <2>2, OfflineIsOffline
  <2>4. writingSince'[n] > Stuck
    BY <1>1, <2>1
  <2> QED BY <1>5, <2>3, <2>4
<1> QED BY <1>6, <1>7, <1>8, <1>9, <1>10, BeginKeepsStreaks DEF AlarmInv

\* The scan that was at work remembers what it found.
LEMMA EndKeeps ==
    ASSUME AlarmInv, NEW t \in Scanners, EndScan(t)
    PROVE  AlarmInv'
<1>1. /\ lockedBy # NobodyScans /\ lockedBy' = NobodyScans /\ last' = found
      /\ UNCHANGED <<writingSince, streak, journal>>
  BY AnomalyScanAssumption DEF EndScan, NobodyScans
<1>2. /\ truth'.appeared = Counted(truth.appeared, found \ last)
      /\ truth'.over = truth.over /\ truth'.quiet = truth.quiet
      /\ truth' = [appeared |-> truth'.appeared, over |-> truth'.over,
                   quiet |-> truth'.quiet]
  BY DEF EndScan, AlarmInv, AlarmTypeOK
<1>3. Shows' = Shows
  BY <1>1 DEF Shows
<1>4. AlarmTypeOK'
  BY <1>1, <1>2 DEF AlarmInv, AlarmTypeOK
<1>5. JournalLeads'
  BY <1>1, <1>2 DEF AlarmInv, JournalLeads
<1>6. StreaksCount' /\ WritesAreQuiet'
  BY <1>1, <1>2 DEF AlarmInv, StreaksCount, WritesAreQuiet
<1>7. SkewIsCounted' /\ StuckIsShownAlone'
  BY <1>1, <1>2, <1>3 DEF AlarmInv, SkewIsCounted, StuckIsShownAlone
<1> QED BY <1>4, <1>5, <1>6, <1>7 DEF AlarmInv

\* The invariant of the scans is inductive, whatever the rig does.
THEOREM AlarmInductive == AlarmSpec => []AlarmInv
<1>1. AlarmInv /\ [AlarmNext]_alarmVars => AlarmInv'
  <2> SUFFICES ASSUME AlarmInv, [AlarmNext]_alarmVars PROVE AlarmInv'
    OBVIOUS
  <2>1. CASE UNCHANGED alarmVars
    BY <2>1, ChangeKeeps DEF alarmVars, Scanner
  <2>2. CASE Change
    BY <2>2, ChangeKeeps DEF Change
  <2>3. CASE AlarmTick
    BY <2>3, TickKeeps
  <2>4. CASE \E t \in Scanners : BeginScan(t) \/ EndScan(t)
    BY <2>4, BeginKeeps, EndKeeps
  <2> QED BY <2>1, <2>2, <2>3, <2>4
          DEF AlarmNext, Switch, LinkChanges, ClockChanges, SignChanges, NavChanges,
              RunChanges
<1> QED BY <1>1, AlarmBegins, PTL DEF AlarmSpec

\* The operator is told of a fault once, of clocks that disagree when the same
\* two did so in every scan that counts, and of a stuck write only while the
\* camera was there and writing (Anomalies.scan).
THEOREM ScansAreHonest == AlarmSpec => []ScanIsHonest
<1>1. AlarmInv => ScanIsHonest
  <2> SUFFICES ASSUME AlarmInv PROVE ScanIsHonest
    OBVIOUS
  <2>1. EachFaultOnce
    BY DEF AlarmInv, JournalLeads, EachFaultOnce
  <2>2. SkewIsPersistent
    <3> SUFFICES ASSUME <<"node_clock_skew", TheRig>> \in Shows
                 PROVE  \E p \in Pairs : \A k \in 0..(SkewScans - 1) :
                            p \in truth.over[Len(truth.over) - k]
      BY DEF SkewIsPersistent, Shows
    <3>1. PICK p \in Pairs : streak[p] >= SkewScans
      BY DEF AlarmInv, SkewIsCounted
    <3>2. \A k \in 0..(SkewScans - 1) : k < streak[p]
      BY <3>1, AnomalyScanAssumption DEF AlarmInv, AlarmTypeOK
    <3> QED BY <3>2 DEF AlarmInv, StreaksCount
  <2>3. StuckIsHeld
    BY DEF AlarmInv, StuckIsShownAlone, StuckIsHeld, Shows
  <2> QED BY <2>1, <2>2, <2>3 DEF ScanIsHonest
<1> QED BY <1>1, AlarmInductive, PTL

-----------------------------------------------------------------------------
(***************************************************************************)
(* The drain queue: what a drain holds is held until it ends, given back   *)
(* afterwards, and no node is skipped for a drain that went well: for any  *)
(* fleet, any number of requests, drains, cancellations, reboots and lost  *)
(* links.                                                                  *)
(***************************************************************************)
Drains == 1..MaxDrains
Working == {"next", "pulling", "drained", "noted"}

Workers == [phase : Working \cup {"none", "unclaimed", "ending"}, left : SUBSET Fleet,
            card : Fleet \cup {NoNode}, end : Ends \cup {"none"}]

QueueTypeOK ==
    /\ isActive \in BOOLEAN /\ runOn \in BOOLEAN
    /\ holder \in Fleet \cup {NoNode} /\ suspended \subseteq Fleet
    /\ request \in [Askers -> [busy : BOOLEAN, nodes : SUBSET Fleet]]
    /\ stopEvent \in 0..MaxDrains
    /\ worker \in [Drains -> Workers]
    /\ reboots \in [Fleet -> Nat] /\ mark \in [Fleet -> Nat \cup {NoMark}]
    /\ lastEnd \in [Fleet -> Ends \cup {"never"}]

\* One drain at most is at work, the one claimed last; the claim stands while
\* it is, and nothing stands without it.
OneWorker ==
    /\ \A d \in Drains : worker[d].phase # "none" => d = stopEvent /\ isActive
    /\ isActive => \E d \in Drains : worker[d].phase # "none"
    /\ ~isActive => holder = NoNode /\ suspended = {}

\* What the worker holds in each phase.
HoldsItsQueue ==
    \A d \in Drains :
        /\ worker[d].phase \in Working =>
              holder \in Fleet /\ ~runOn /\ worker[d].left \subseteq suspended
        /\ worker[d].phase \in {"unclaimed", "ending"} => holder = NoNode
        /\ worker[d].phase = "ending" => suspended = {}
        /\ worker[d].phase \in {"pulling", "drained", "noted"} => worker[d].card \in Fleet
        /\ worker[d].phase = "pulling" => holder = worker[d].card

\* A mark tells of a last drain that ended badly, except between a drain's
\* return and its noting.
Noting(n) == \E d \in Drains : worker[d].phase = "drained" /\ worker[d].card = n
MarkIsEarned ==
    /\ \A n \in Fleet : mark[n] # NoMark /\ ~Noting(n) => lastEnd[n] \in {"wedged", "raised"}
    /\ \A d \in Drains : worker[d].phase = "drained" => worker[d].end = lastEnd[worker[d].card]

QueueInv == QueueTypeOK /\ OneWorker /\ HoldsItsQueue /\ MarkIsEarned

LEMMA QueueBegins ==
  ASSUME QueueInit
  PROVE  QueueInv
<1> USE DrainQueueAssumption
        DEF QueueInit, Drains, NoWorker, NoRequest, NoNode, NoMark, Working, Ends
<1>1. QueueTypeOK
  <2>1. NoWorker \in Workers BY DEF Workers
  <2>2. worker \in [Drains -> Workers] BY <2>1
  <2>3. /\ NoRequest \in [busy : BOOLEAN, nodes : SUBSET Fleet]
        /\ stopEvent \in 0..MaxDrains
    OBVIOUS
  <2> QED BY <2>2, <2>3 DEF QueueTypeOK
<1>2. OneWorker BY DEF OneWorker
<1>3. HoldsItsQueue BY DEF HoldsItsQueue
<1>4. MarkIsEarned BY DEF MarkIsEarned, Noting
<1> QED BY <1>1, <1>2, <1>3, <1>4 DEF QueueInv

\* Steps that change neither the claim, nor a worker, nor what is remembered of
\* the drains' ends.
LEMMA Undisturbed ==
  ASSUME QueueInv, QueueTypeOK', runOn' = runOn \/ (runOn' => holder = NoNode),
         UNCHANGED <<isActive, holder, suspended, stopEvent, worker, lastEnd>>,
         \A n \in Fleet : mark'[n] = mark[n] \/ mark'[n] = NoMark
  PROVE  QueueInv'
<1> USE DrainQueueAssumption DEF QueueInv, Drains, NoNode
<1>1. OneWorker' BY DEF OneWorker
<1>2. HoldsItsQueue' BY DEF HoldsItsQueue
<1>3. MarkIsEarned' BY DEF MarkIsEarned, Noting
<1> QED BY <1>1, <1>2, <1>3

\* The records a worker may be replaced by.
LEMMA WorkerRecords ==
  /\ \A nodes \in SUBSET Fleet : WithLeft(nodes) \in Workers
  /\ \A w \in Workers, c \in Fleet :
        [w EXCEPT !.phase = "pulling", !.card = c] \in Workers
  /\ \A w \in Workers, e \in Ends : [w EXCEPT !.phase = "drained", !.end = e] \in Workers
  /\ \A w \in Workers, p \in {"noted", "unclaimed", "ending", "none"} :
        [w EXCEPT !.phase = p] \in Workers
BY DEF WithLeft, Workers, Working

\* Claiming the queue.
LEMMA ClaimKeeps ==
  ASSUME QueueInv, NEW t \in Askers, ClaimQueue(t)
  PROVE  QueueInv'
<1> USE DrainQueueAssumption DEF QueueInv, Drains, NoNode
<1>1. CASE Claims(t)
  <2> DEFINE drain == stopEvent + 1
  <2>1. /\ drain \in Drains /\ request[t].nodes \subseteq Fleet
        /\ ~isActive /\ ~runOn /\ suspended = {}
        /\ isActive' = TRUE /\ holder' \in request[t].nodes
        /\ suspended' = request[t].nodes /\ stopEvent' = drain
        /\ worker' = [worker EXCEPT ![drain] =
              WithLeft(request[t].nodes)]
        /\ request' = [request EXCEPT ![t] = NoRequest]
        /\ UNCHANGED <<runOn, mark, reboots, lastEnd>>
    <3>1. stopEvent \in 0..MaxDrains /\ drain <= MaxDrains
      BY <1>1 DEF Claims, QueueTypeOK
    <3>2. drain \in Drains BY <3>1
    <3>3. /\ ~isActive /\ ~runOn /\ suspended = {}
          /\ isActive' = TRUE /\ holder' \in request[t].nodes
          /\ suspended' = suspended \cup request[t].nodes /\ stopEvent' = drain
          /\ worker' = [worker EXCEPT ![drain] = WithLeft(request[t].nodes)]
      BY <1>1 DEF Claims, Free, OneWorker
    <3>4. request[t].nodes \subseteq Fleet
      BY DEF QueueTypeOK
    <3>5. /\ request' = [request EXCEPT ![t] = NoRequest]
          /\ UNCHANGED <<runOn, mark, reboots, lastEnd>>
      BY DEF ClaimQueue, rigVars
    <3> QED BY <3>2, <3>3, <3>4, <3>5
  <2>2. \A d \in Drains : worker[d].phase = "none"
    BY <2>1 DEF OneWorker
  <2>3. /\ \A d \in Drains \ {drain} : worker'[d] = worker[d]
        /\ worker'[drain].phase = "next" /\ worker'[drain].left = request[t].nodes
        /\ worker' \in [Drains -> Workers]
    BY <2>1, WorkerRecords DEF QueueTypeOK, WithLeft
  <2> HIDE DEF drain
  <2>4. QueueTypeOK'
    BY <2>1, <2>3 DEF QueueTypeOK, NoRequest
  <2>5. OneWorker'
    BY <2>1, <2>2, <2>3 DEF OneWorker
  <2>6. HoldsItsQueue'
    BY <2>1, <2>2, <2>3 DEF HoldsItsQueue, Working
  <2>7. MarkIsEarned'
    BY <2>1, <2>2, <2>3 DEF MarkIsEarned, Noting
  <2> QED BY <2>4, <2>5, <2>6, <2>7
<1>2. CASE UNCHANGED <<claimVars, worker>>
  <2>1. QueueTypeOK'
    BY <1>2 DEF ClaimQueue, QueueTypeOK, NoRequest, claimVars, rigVars
  <2> QED BY <1>2, <2>1, Undisturbed DEF ClaimQueue, claimVars, rigVars
<1> QED BY <1>1, <1>2 DEF ClaimQueue

\* The one drain at work: what any of its steps may rely on.
LEMMA WorkerAlone ==
  ASSUME QueueInv, NEW d \in Drains, worker[d].phase # "none"
  PROVE  /\ d = stopEvent /\ isActive
         /\ \A e \in Drains \ {d} : worker[e].phase = "none"
BY DEF QueueInv, OneWorker, Drains

\* From one card to the next.
LEMMA WorkerTurns ==
  ASSUME QueueInv, NEW d \in Drains, NEW n \in Fleet,
         PassesOver(d, n) \/ TurnsTo(d, n)
  PROVE  QueueInv'
<1> USE DrainQueueAssumption DEF QueueInv, Drains, NoNode
<1>1. /\ worker[d].phase = "next" /\ n \in worker[d].left
      /\ UNCHANGED <<isActive, runOn, suspended, request, stopEvent, reboots, mark, lastEnd>>
  BY DEF PassesOver, TurnsTo, claimVars, rigVars
<1>2. d = stopEvent /\ isActive /\ \A e \in Drains \ {d} : worker[e].phase = "none"
  BY <1>1, WorkerAlone
<1>3. holder \in Fleet /\ ~runOn /\ worker[d].left \subseteq suspended
  BY <1>1 DEF HoldsItsQueue, Working
<1>4. CASE PassesOver(d, n)
  <2>1. /\ holder' = holder
        /\ worker' = [worker EXCEPT ![d] = WithLeft(worker[d].left \ {n})]
    BY <1>4 DEF PassesOver, GoesOn, claimVars
  <2>2. /\ \A e \in Drains \ {d} : worker'[e] = worker[e]
        /\ worker'[d].phase = "next" /\ worker'[d].left = worker[d].left \ {n}
        /\ worker' \in [Drains -> Workers]
    <3>1. worker[d] \in Workers BY DEF QueueTypeOK
    <3>2. worker[d].left \ {n} \in SUBSET Fleet
      BY <3>1 DEF Workers
    <3>3. WithLeft(worker[d].left \ {n}) \in Workers
      BY <3>2, WorkerRecords
    <3> QED BY <2>1, <3>3 DEF QueueTypeOK, WithLeft
  <2>3. QueueTypeOK' BY <1>1, <2>1, <2>2 DEF QueueTypeOK
  <2>4. OneWorker' BY <1>1, <1>2, <2>1, <2>2 DEF OneWorker
  <2>5. HoldsItsQueue' BY <1>1, <1>2, <1>3, <2>1, <2>2 DEF HoldsItsQueue, Working
  <2>6. MarkIsEarned' BY <1>1, <1>2, <2>2 DEF MarkIsEarned, Noting
  <2> QED BY <2>3, <2>4, <2>5, <2>6
<1>5. CASE TurnsTo(d, n)
  <2>1. /\ holder' = n
        /\ worker' = [worker EXCEPT ![d] = [@ EXCEPT !.phase = "pulling", !.card = n]]
    BY <1>5 DEF TurnsTo
  <2>2. /\ \A e \in Drains \ {d} : worker'[e] = worker[e]
        /\ worker'[d].phase = "pulling" /\ worker'[d].card = n
        /\ worker'[d].left = worker[d].left
        /\ worker' \in [Drains -> Workers]
    <3>1. worker[d] \in Workers BY DEF QueueTypeOK
    <3>2. [worker[d] EXCEPT !.phase = "pulling", !.card = n] \in Workers
      BY <3>1, WorkerRecords
    <3> QED BY <2>1, <3>1, <3>2 DEF QueueTypeOK, Workers
  <2>3. QueueTypeOK' BY <1>1, <2>1, <2>2 DEF QueueTypeOK
  <2>4. OneWorker' BY <1>1, <1>2, <2>1, <2>2 DEF OneWorker
  <2>5. HoldsItsQueue' BY <1>1, <1>2, <1>3, <2>1, <2>2 DEF HoldsItsQueue, Working
  <2>6. MarkIsEarned' BY <1>1, <1>2, <2>2 DEF MarkIsEarned, Noting
  <2> QED BY <2>3, <2>4, <2>5, <2>6
<1> QED BY <1>4, <1>5

\* A drain returns, its end is noted, and the card is given back.
LEMMA DrainReturns ==
  ASSUME QueueInv, NEW d \in Drains, NEW how \in Ends, DrainEndsAs(d, how)
  PROVE  QueueInv'
<1> USE DrainQueueAssumption DEF QueueInv, Drains, NoNode
<1>1. /\ worker[d].phase = "pulling"
      /\ worker' = [worker EXCEPT ![d] = [@ EXCEPT !.phase = "drained", !.end = how]]
      /\ lastEnd' = [lastEnd EXCEPT ![worker[d].card] = how]
      /\ UNCHANGED <<isActive, holder, runOn, suspended, request, stopEvent, reboots, mark>>
  BY DEF DrainEndsAs, Card, claimVars, rigVars
<1>2. d = stopEvent /\ isActive /\ \A e \in Drains \ {d} : worker[e].phase = "none"
  BY <1>1, WorkerAlone
<1>3. /\ holder \in Fleet /\ ~runOn /\ worker[d].left \subseteq suspended
      /\ worker[d].card \in Fleet
  BY <1>1 DEF HoldsItsQueue, Working
<1>4. /\ \A e \in Drains \ {d} : worker'[e] = worker[e]
      /\ worker'[d].phase = "drained" /\ worker'[d].card = worker[d].card
      /\ worker'[d].left = worker[d].left /\ worker'[d].end = how
      /\ worker' \in [Drains -> Workers]
  <2>1. worker[d] \in Workers BY DEF QueueTypeOK
  <2>2. [worker[d] EXCEPT !.phase = "drained", !.end = how] \in Workers
    BY <2>1, WorkerRecords
  <2> QED BY <1>1, <2>1, <2>2 DEF QueueTypeOK, Workers
<1>5. QueueTypeOK' BY <1>1, <1>3, <1>4 DEF QueueTypeOK
<1>6. OneWorker' BY <1>1, <1>2, <1>4 DEF OneWorker
<1>7. HoldsItsQueue' BY <1>1, <1>2, <1>3, <1>4 DEF HoldsItsQueue, Working
<1>8. MarkIsEarned'
  <2>1. /\ lastEnd'[worker[d].card] = how
        /\ \A n \in Fleet \ {worker[d].card} : lastEnd'[n] = lastEnd[n]
    BY <1>1, <1>3 DEF QueueTypeOK
  <2> QED BY <1>1, <1>2, <1>3, <1>4, <2>1 DEF MarkIsEarned, Noting
<1> QED BY <1>5, <1>6, <1>7, <1>8

LEMMA EndIsNoted ==
  ASSUME QueueInv, NEW d \in Drains, NotesWedge(d)
  PROVE  QueueInv'
<1> USE DrainQueueAssumption DEF QueueInv, Drains, NoNode
<1> DEFINE c == worker[d].card
<1>1. /\ worker[d].phase = "drained"
      /\ worker' = [worker EXCEPT ![d].phase = "noted"]
      /\ mark' = [mark EXCEPT ![c] = Marked(c, worker[d].end)]
      /\ UNCHANGED <<isActive, holder, runOn, suspended, request, stopEvent, reboots, lastEnd>>
  BY DEF NotesWedge, Proceeds, Card, claimVars, rigVars
<1>2. d = stopEvent /\ isActive /\ \A e \in Drains \ {d} : worker[e].phase = "none"
  BY <1>1, WorkerAlone
<1>3. holder \in Fleet /\ ~runOn /\ worker[d].left \subseteq suspended /\ c \in Fleet
  BY <1>1 DEF HoldsItsQueue, Working
<1>4. /\ \A e \in Drains \ {d} : worker'[e] = worker[e]
      /\ worker'[d].phase = "noted" /\ worker'[d].card = c
      /\ worker'[d].left = worker[d].left
      /\ worker' \in [Drains -> Workers]
  <2>1. worker[d] \in Workers BY DEF QueueTypeOK
  <2>2. [worker[d] EXCEPT !.phase = "noted"] \in Workers
    BY <2>1, WorkerRecords
  <2> QED BY <1>1, <2>1, <2>2 DEF QueueTypeOK, Workers
<1>5. /\ Marked(c, worker[d].end) \in Nat \cup {NoMark}
      /\ Marked(c, worker[d].end) # NoMark => worker[d].end \in {"wedged", "raised"}
  BY <1>3 DEF Marked, QueueTypeOK
<1>6. QueueTypeOK' BY <1>1, <1>3, <1>4, <1>5 DEF QueueTypeOK
<1>7. OneWorker' BY <1>1, <1>2, <1>4 DEF OneWorker
<1>8. HoldsItsQueue' BY <1>1, <1>2, <1>3, <1>4 DEF HoldsItsQueue, Working
<1>9. MarkIsEarned'
  <2>1. worker[d].end = lastEnd[c]
    BY <1>1 DEF MarkIsEarned
  <2>2. /\ mark'[c] = Marked(c, worker[d].end)
        /\ \A n \in Fleet \ {c} : mark'[n] = mark[n] /\ ~Noting(n)
    BY <1>1, <1>2, <1>3 DEF QueueTypeOK, Noting
  <2>3. \A e \in Drains : worker'[e].phase # "drained"
    BY <1>2, <1>4
  <2>4. \A n \in Fleet : mark'[n] # NoMark => lastEnd[n] \in {"wedged", "raised"}
    BY <1>5, <2>1, <2>2 DEF MarkIsEarned
  <2> QED BY <1>1, <2>3, <2>4 DEF MarkIsEarned
<1> QED BY <1>6, <1>7, <1>8, <1>9

LEMMA CardIsFreed ==
  ASSUME QueueInv, NEW d \in Drains, FreesNode(d)
  PROVE  QueueInv'
<1> USE DrainQueueAssumption DEF QueueInv, Drains, NoNode
<1> DEFINE c == worker[d].card
<1>1. /\ worker[d].phase = "noted"
      /\ suspended' = suspended \ {c}
      /\ worker' = [worker EXCEPT ![d] = WithLeft(worker[d].left \ {c})]
      /\ UNCHANGED <<isActive, holder, runOn, request, stopEvent, reboots, mark, lastEnd>>
  BY DEF FreesNode, GoesOn, Card, rigVars
<1>2. d = stopEvent /\ isActive /\ \A e \in Drains \ {d} : worker[e].phase = "none"
  BY <1>1, WorkerAlone
<1>3. holder \in Fleet /\ ~runOn /\ worker[d].left \subseteq suspended
  BY <1>1 DEF HoldsItsQueue, Working
<1>4. /\ \A e \in Drains \ {d} : worker'[e] = worker[e]
      /\ worker'[d].phase = "next" /\ worker'[d].left = worker[d].left \ {c}
      /\ worker' \in [Drains -> Workers]
  <2>1. worker[d] \in Workers BY DEF QueueTypeOK
  <2>2. worker[d].left \ {c} \in SUBSET Fleet
    BY <2>1 DEF Workers
  <2>3. WithLeft(worker[d].left \ {c}) \in Workers
    BY <2>2, WorkerRecords
  <2> QED BY <1>1, <2>3 DEF QueueTypeOK, WithLeft
<1>5. QueueTypeOK' BY <1>1, <1>4 DEF QueueTypeOK
<1>6. OneWorker' BY <1>1, <1>2, <1>4 DEF OneWorker
<1>7. HoldsItsQueue' BY <1>1, <1>2, <1>3, <1>4 DEF HoldsItsQueue, Working
<1>8. MarkIsEarned' BY <1>1, <1>2, <1>4 DEF MarkIsEarned, Noting
<1> QED BY <1>5, <1>6, <1>7, <1>8

\* Giving back, in the order of the code.
LEMMA ReleaseKeeps ==
  ASSUME QueueInv, NEW d \in Drains,
         ReleaseClaim(d) \/ ReleaseNodes(d) \/ ReleaseStatus(d)
  PROVE  QueueInv'
<1> USE DrainQueueAssumption DEF QueueInv, Drains, NoNode
<1>1. /\ worker[d].phase \in {"next", "unclaimed", "ending"}
      /\ UNCHANGED <<runOn, request, stopEvent, reboots, mark, lastEnd>>
  BY DEF ReleaseClaim, ReleaseNodes, ReleaseStatus, Gives, rigVars
<1>2. d = stopEvent /\ isActive /\ \A e \in Drains \ {d} : worker[e].phase = "none"
  BY <1>1, WorkerAlone
<1> DEFINE Left(to) == /\ \A e \in Drains \ {d} : worker'[e] = worker[e]
                       /\ worker'[d].phase = to
                       /\ worker' \in [Drains -> Workers]
<1>0. ASSUME NEW to \in {"unclaimed", "ending", "none"}, Proceeds(d, to)
      PROVE  Left(to)
  <2>1. worker[d] \in Workers BY DEF QueueTypeOK
  <2>2. [worker[d] EXCEPT !.phase = to] \in Workers
    BY <2>1, WorkerRecords
  <2> QED BY <1>0, <2>1, <2>2 DEF QueueTypeOK, Workers, Proceeds
<1>3. CASE ReleaseClaim(d)
  <2>1. /\ holder' = NoNode /\ UNCHANGED <<isActive, suspended>>
        /\ Proceeds(d, "unclaimed")
    BY <1>3 DEF ReleaseClaim, Gives
  <2>2. Left("unclaimed") BY <1>0, <2>1
  <2>3. QueueTypeOK' BY <1>1, <2>1, <2>2 DEF QueueTypeOK
  <2>4. OneWorker' BY <1>1, <1>2, <2>1, <2>2 DEF OneWorker
  <2>5. HoldsItsQueue' BY <1>1, <1>2, <2>1, <2>2 DEF HoldsItsQueue, Working
  <2>6. MarkIsEarned' BY <1>1, <1>2, <2>2 DEF MarkIsEarned, Noting
  <2> QED BY <2>3, <2>4, <2>5, <2>6
<1>4. CASE ReleaseNodes(d)
  <2>1. /\ suspended' = {} /\ UNCHANGED <<isActive, holder>>
        /\ worker[d].phase = "unclaimed"
        /\ Proceeds(d, "ending")
    BY <1>4 DEF ReleaseNodes, Gives
  <2>2. Left("ending") BY <1>0, <2>1
  <2>3. QueueTypeOK' BY <1>1, <2>1, <2>2 DEF QueueTypeOK
  <2>4. OneWorker' BY <1>1, <1>2, <2>1, <2>2 DEF OneWorker
  <2>5. HoldsItsQueue' BY <1>1, <1>2, <2>1, <2>2 DEF HoldsItsQueue, Working
  <2>6. MarkIsEarned' BY <1>1, <1>2, <2>2 DEF MarkIsEarned, Noting
  <2> QED BY <2>3, <2>4, <2>5, <2>6
<1>5. CASE ReleaseStatus(d)
  <2>1. /\ isActive' = FALSE /\ UNCHANGED <<holder, suspended>>
        /\ worker[d].phase = "ending"
        /\ Proceeds(d, "none")
    BY <1>5 DEF ReleaseStatus, Gives
  <2>2. Left("none") BY <1>0, <2>1
  <2>3. holder = NoNode /\ suspended = {}
    BY <2>1 DEF HoldsItsQueue
  <2>4. QueueTypeOK' BY <1>1, <2>1, <2>2 DEF QueueTypeOK
  <2>5. OneWorker' BY <1>1, <1>2, <2>1, <2>2, <2>3 DEF OneWorker
  <2>6. HoldsItsQueue' BY <1>1, <1>2, <2>1, <2>2 DEF HoldsItsQueue, Working
  <2>7. MarkIsEarned' BY <1>1, <1>2, <2>2 DEF MarkIsEarned, Noting
  <2> QED BY <2>4, <2>5, <2>6, <2>7
<1> QED BY <1>3, <1>4, <1>5

\* What happens to the rig, and requests that are made.
LEMMA RigKeeps ==
  ASSUME QueueInv,
         \/ RunStarts \/ RunStops \/ CancelAsked \/ CancelSet
         \/ \E n \in Fleet : LinkTurns(n) \/ Sickens(n) \/ Reboots(n)
         \/ \E t \in Askers, auto \in BOOLEAN, want \in Requests :
               ChooseNodes(t, auto, want)
  PROVE  QueueInv'
<1> USE DrainQueueAssumption DEF QueueInv, claimVars, rigVars
<1>1. CASE RunStarts \/ RunStops
  <2>1. QueueTypeOK' BY <1>1 DEF RunStarts, RunStops, QueueTypeOK
  <2> QED BY <1>1, <2>1, Undisturbed DEF RunStarts, RunStops
<1>2. CASE CancelAsked \/ CancelSet
  <2>1. QueueTypeOK' BY <1>2 DEF CancelAsked, CancelSet, QueueTypeOK
  <2> QED BY <1>2, <2>1, Undisturbed DEF CancelAsked, CancelSet
<1>3. ASSUME NEW n \in Fleet, LinkTurns(n) \/ Sickens(n) \/ Reboots(n)
      PROVE  QueueInv'
  <2>1. QueueTypeOK' BY <1>3 DEF LinkTurns, Sickens, Reboots, QueueTypeOK
  <2> QED BY <1>3, <2>1, Undisturbed DEF LinkTurns, Sickens, Reboots
<1>4. ASSUME NEW t \in Askers, NEW auto \in BOOLEAN, NEW want \in Requests,
             ChooseNodes(t, auto, want)
      PROVE  QueueInv'
  <2> DEFINE kept == {n \in want : ~Skips(n, auto)}
  <2>1. /\ request' = [request EXCEPT ![t] = [busy |-> TRUE, nodes |-> kept]]
        /\ mark' = [n \in Fleet |-> IF n \in kept THEN NoMark ELSE mark[n]]
        /\ kept \subseteq Fleet
        /\ UNCHANGED <<isActive, holder, suspended, stopEvent, worker, lastEnd,
                       runOn, reboots>>
    BY <1>4 DEF ChooseNodes
  <2> HIDE DEF kept
  <2>2. QueueTypeOK' BY <2>1 DEF QueueTypeOK
  <2>3. \A n \in Fleet : mark'[n] = mark[n] \/ mark'[n] = NoMark BY <2>1
  <2> QED BY <2>1, <2>2, <2>3, Undisturbed
<1> QED BY <1>1, <1>2, <1>3, <1>4

\* The invariant of the drain queue is inductive: one worker holds the claim,
\* what is left of its queue stays suspended, and marks tell of bad ends.
THEOREM QueueInductive == QueueSpec => []QueueInv
<1>1. QueueInit => QueueInv
  BY QueueBegins
<1>2. QueueInv /\ [QueueNext]_queueVars => QueueInv'
  <2> SUFFICES ASSUME QueueInv, [QueueNext]_queueVars PROVE QueueInv'
    OBVIOUS
  <2>1. ASSUME NEW t \in Askers, ClaimQueue(t) PROVE QueueInv'
    BY <2>1, ClaimKeeps
  <2>2. ASSUME NEW d \in Drains, WorkerStep(d) PROVE QueueInv'
    BY <2>2, WorkerTurns, DrainReturns, EndIsNoted, CardIsFreed, ReleaseKeeps
       DEF WorkerStep
  <2>3. CASE UNCHANGED queueVars
    <3>1. QueueTypeOK' BY <2>3 DEF queueVars, claimVars, rigVars, QueueInv, QueueTypeOK
    <3> QED BY <2>3, <3>1, Undisturbed DEF queueVars, claimVars, rigVars
  <2> QED BY <2>1, <2>2, <2>3, RigKeeps DEF QueueNext, Drains
<1> QED BY <1>1, <1>2, PTL DEF QueueSpec

\* What a drain holds is held until it ends and then given back, and no node is
\* skipped for a drain that went well (start_drain, _drain_worker, _note_wedge).
THEOREM DrainsAreOrderly == QueueSpec => []DrainIsOrderly
<1>1. QueueInv => DrainIsOrderly
  <2> SUFFICES ASSUME QueueInv PROVE DrainIsOrderly
    OBVIOUS
  <2>1. QueueIsHeld
    <3>1. ASSUME NEW d \in Drains, worker[d].phase = "pulling"
          PROVE  /\ isActive /\ holder = worker[d].card /\ ~runOn
                 /\ worker[d].left \subseteq suspended
                 /\ \A e \in Drains \ {d} : worker[e].phase # "pulling"
      BY <3>1, WorkerAlone DEF QueueInv, HoldsItsQueue, Working
    <3> QED BY <3>1 DEF QueueIsHeld, Pulling, Card, Drains
  <2>2. NothingLeaks
    BY DEF NothingLeaks, QueueInv, OneWorker, Drains
  <2>3. SkipIsEarned
    BY DEF SkipIsEarned, Skips, QueueInv, MarkIsEarned, Noting, Drains
  <2> QED BY <2>1, <2>2, <2>3 DEF DrainIsOrderly
<1> QED BY <1>1, QueueInductive, PTL

-----------------------------------------------------------------------------
(***************************************************************************)
(* Least and greatest numbers.                                             *)
(***************************************************************************)
\* A set of numbers that is not empty has a least one, and Min finds it.
LEMMA LeastOf ==
  ASSUME NEW S \in SUBSET Nat, S # {}
  PROVE  Min(S) \in S /\ \A x \in S : Min(S) <= x
<1> DEFINE below(k) == S \cap (0..k)
           T == {below(k) : k \in S}
<1>1. T \subseteq FiniteSubsetsOf(Nat) /\ T # {}
  <2>1. ASSUME NEW k \in S PROVE below(k) \in FiniteSubsetsOf(Nat)
    <3>1. IsFiniteSet(0..k)
      BY FS_Interval
    <3>2. IsFiniteSet(below(k))
      BY <3>1, FS_Subset
    <3> QED BY <3>2 DEF FiniteSubsetsOf
  <2> QED BY <2>1
<1>2. IsWellFoundedOn(StrictSubsetOrdering(Nat), FiniteSubsetsOf(Nat))
  BY FS_StrictSubsetOrderingWellFounded
<1>3. PICK X \in T : \A Y \in T : ~(<<Y, X>> \in StrictSubsetOrdering(Nat))
  <2> HIDE DEF T
  <2> QED BY <1>1, <1>2, WFMin
<1>4. PICK m \in S : X = below(m)
  OBVIOUS
<1>5. ASSUME NEW y \in S, y < m PROVE FALSE
  <2>1. below(y) \in T /\ below(y) \subseteq X /\ below(y) # X
    BY <1>4, <1>5
  <2> QED BY <2>1, <1>3, <1>4 DEF StrictSubsetOrdering
<1>6. \A y \in S : m <= y
  BY <1>5
<1> QED BY <1>6 DEF Min

\* A set of bounded numbers has a greatest one.
LEMMA GreatestOf ==
  ASSUME NEW n \in Nat, NEW S \in SUBSET (0..n), S # {}
  PROVE  Max(S) \in S /\ \A x \in S : x <= Max(S)
<1> DEFINE T == {n - x : x \in S}
<1>1. T \in SUBSET Nat /\ T # {}
  <2>1. \A x \in S : n - x \in Nat
    OBVIOUS
  <2> QED BY <2>1
<1>2. PICK m \in T : \A x \in T : m <= x
  <2> HIDE DEF T
  <2> QED BY <1>1, LeastOf
<1>3. PICK k \in S : m = n - k
  BY <1>2
<1>4. ASSUME NEW x \in S PROVE x <= k
  <2>1. n - x \in T
    OBVIOUS
  <2> QED BY <2>1, <1>2, <1>3
<1> QED BY <1>4 DEF Max

-----------------------------------------------------------------------------
(***************************************************************************)
(* The time authority.                                                     *)
(***************************************************************************)
Cadences == Seq(0..Stale)
Slots == [streak : Nat, gaps : Cadences, off : Int, at : Nat]
Confirmations == [start : Nat, end : Nat, off : Offsets]

\* The last n elements of a sequence.
LEMMA LastOfIs ==
  ASSUME NEW S, NEW seq \in Seq(S), NEW n \in Nat \ {0}
  PROVE  /\ LastOf(seq, n) \in Seq(S)
         /\ Len(seq) <= n => LastOf(seq, n) = seq
         /\ Len(seq) > n =>
                /\ Len(LastOf(seq, n)) = n
                /\ \A i \in 1..n : LastOf(seq, n)[i] = seq[Len(seq) - n + i]
<1>1. CASE Len(seq) <= n
  <2>1. ~(Len(seq) > n)
    BY <1>1
  <2>2. LastOf(seq, n) = SubSeq(seq, 1, Len(seq))
    BY <2>1, Zenon DEF LastOf
  <2> QED BY <2>1, <2>2, SubSeqFull
<1>2. CASE Len(seq) > n
  <2> DEFINE m == Len(seq) - n + 1
  <2>1. LastOf(seq, n) = SubSeq(seq, m, Len(seq))
    BY <1>2 DEF LastOf
  <2>2. m \in 1..Len(seq) + 1 /\ Len(seq) \in m - 1..Len(seq)
    BY <1>2
  <2>3. /\ SubSeq(seq, m, Len(seq)) \in Seq(S)
        /\ Len(SubSeq(seq, m, Len(seq))) = IF m <= Len(seq) THEN Len(seq) - m + 1
                                           ELSE 0
        /\ \A i \in 1..Len(seq) - m + 1 :
               SubSeq(seq, m, Len(seq))[i] = seq[m + i - 1]
    BY <2>2, SubSeqProperties
  <2>4. Len(seq) - m + 1 = n /\ m <= Len(seq)
    BY <1>2
  <2>5. \A i \in 1..n : m + i - 1 = Len(seq) - n + i
    OBVIOUS
  <2> QED BY <1>2, <2>1, <2>3, <2>4, <2>5
<1> QED BY <1>1, <1>2

\* The spread of a cadence is a number.
LEMMA JitterIs ==
  ASSUME TimeAuthorityAssumption, NEW slot \in Slots
  PROVE  Jitter(slot) \in Nat
<1> DEFINE R == Range(slot.gaps)
<1>1. CASE Len(slot.gaps) < 2
  BY <1>1 DEF Jitter, Unsteady, TimeAuthorityAssumption
<1>2. CASE ~(Len(slot.gaps) < 2)
  <2>1. slot.gaps \in Seq(0..Stale)
    BY DEF Slots, Cadences
  <2>2. R \in SUBSET (0..Stale)
    BY <2>1 DEF Range
  <2>3. slot.gaps[1] \in R
    BY <1>2, <2>1 DEF Range
  <2>4. R # {} /\ R \in SUBSET Nat
    BY <2>2, <2>3
  <2>5. Max(R) \in R /\ \A x \in R : x <= Max(R)
    <3> HIDE DEF R
    <3> QED BY <2>2, <2>4, GreatestOf DEF TimeAuthorityAssumption
  <2>6. Min(R) \in R
    <3> HIDE DEF R
    <3> QED BY <2>4, LeastOf
  <2>7. Max(R) \in Nat /\ Min(R) \in Nat /\ Min(R) <= Max(R)
    <3> HIDE DEF R
    <3> QED BY <2>4, <2>5, <2>6
  <2>8. Jitter(slot) = Max(R) - Min(R)
    BY <1>2 DEF Jitter
  <2> HIDE DEF R
  <2> QED BY <2>7, <2>8
<1> QED BY <1>1, <1>2

\* Of the live senders there is a best one.
LEMMA BestIs ==
  ASSUME TimeAuthorityAssumption, NEW table \in [Senders -> Slots],
         Live(table) # {}
  PROVE  /\ Best(table) \in Live(table)
         /\ \A u \in Live(table) : Precedes(Rank(table, Best(table)), Rank(table, u))
<1> DEFINE L == Live(table)
           class(s) == IF s \in Satellite THEN 0 ELSE 1
           A == {class(s) : s \in L}
<1>1. L \subseteq Senders /\ L # {} /\ Senders \subseteq Nat
  BY DEF Live, TimeAuthorityAssumption
<1>2. \A s \in L : Jitter(table[s]) \in Nat
  BY <1>1, JitterIs
<1>3. PICK a \in L : \A s \in L : class(a) <= class(s)
  <2>1. A \in SUBSET Nat /\ A # {}
    BY <1>1
  <2>2. PICK m \in A : \A x \in A : m <= x
    <3> HIDE DEF A
    <3> QED BY <2>1, LeastOf
  <2> QED BY <2>2
<1> DEFINE M == {s \in L : class(s) = class(a)}
           B == {Jitter(table[s]) : s \in M}
<1>4. PICK b \in M : \A s \in M : Jitter(table[b]) <= Jitter(table[s])
  <2>1. B \in SUBSET Nat /\ B # {}
    BY <1>2, <1>3
  <2>2. PICK m \in B : \A x \in B : m <= x
    <3> HIDE DEF B
    <3> QED BY <2>1, LeastOf
  <2> QED BY <2>2
<1> DEFINE C == {s \in M : Jitter(table[s]) = Jitter(table[b])}
<1>5. PICK c \in C : \A s \in C : c <= s
  <2>1. C \in SUBSET Nat /\ C # {}
    BY <1>1, <1>4
  <2> HIDE DEF C
  <2> QED BY <2>1, LeastOf
<1>6. ASSUME NEW u \in L PROVE Precedes(Rank(table, c), Rank(table, u))
  <2>1. c \in L /\ class(c) = class(a) /\ Jitter(table[c]) = Jitter(table[b])
    BY <1>5
  <2>2. class(c) \in Nat /\ class(u) \in Nat /\ class(c) <= class(u)
    BY <2>1, <1>3
  <2>3. class(u) = class(c) => Jitter(table[c]) <= Jitter(table[u])
    BY <2>1, <1>4
  <2>4. class(u) = class(c) /\ Jitter(table[u]) = Jitter(table[c]) => c <= u
    BY <2>1, <1>5
  <2>5. /\ Rank(table, c) = <<class(c), Jitter(table[c]), c>>
        /\ Rank(table, u) = <<class(u), Jitter(table[u]), u>>
    BY DEF Rank
  <2>6. Jitter(table[c]) \in Nat /\ Jitter(table[u]) \in Nat /\ c \in Nat /\ u \in Nat
    BY <1>1, <1>2, <2>1
  <2> HIDE DEF class
  <2> QED BY <2>2, <2>3, <2>4, <2>5, <2>6 DEF Precedes
<1>7. c \in L
  BY <1>5
<1> HIDE DEF L, C, M
<1> QED
  <2>1. \E s \in L : \A u \in L : Precedes(Rank(table, s), Rank(table, u))
    BY <1>6, <1>7
  <2> QED BY <2>1 DEF Best, L

-----------------------------------------------------------------------------
\* What is known of a sender is what was last heard of it.
WordOf(slot) == [off |-> slot.off, satellite |-> TRUE, at |-> slot.at]

\* A span was earned: near every instant it reaches, a satellite sender agreed
\* with itself on its offset.
Near(sp, es, x) == \E e \in es : Abs(e.at - x) <= Stale /\ Agree(sp.off, e.off)
EarnedSpan(sp, es, t) ==
    /\ sp.start <= sp.end /\ sp.end <= t
    /\ \A x \in Int : sp.start - Stale <= x /\ x <= sp.end + Stale => Near(sp, es, x)

\* The i-th span is the newest that began by x, and it keeps what stood at x.
Keeps(ss, i, x, off) ==
    /\ ss[i].start <= x /\ x <= ss[i].end
    /\ Agree(ss[i].off, off)
    /\ \A j \in 1..Len(ss) : i < j => x < ss[j].start
KeptBy(ss, x, off) == \E i \in 1..Len(ss) : Keeps(ss, i, x, off)

AuthorityTypeOK ==
    /\ now \in Nat
    /\ slots \in [Senders -> Slots]
    /\ spans \in Seq(Confirmations)
    /\ DOMAIN heard = Senders
    /\ earned \subseteq [at : Nat, off : Offsets]

HeardInv ==
    \A s \in Senders :
        /\ slots[s].at <= now
        /\ slots[s].streak > 0 => slots[s].off \in Offsets /\ heard[s] = WordOf(slots[s])

SpansInv == \A i \in 1..Len(spans) : EarnedSpan(spans[i], earned, now)

PastInv ==
    /\ DOMAIN stood \subseteq 0..now
    /\ \A x \in DOMAIN stood : stood[x] \in Offsets
    /\ Len(spans) < SpansKept =>
           \A x \in DOMAIN stood : KeptBy(spans, x, stood[x])

Stamping == AuthorityTypeOK /\ HeardInv /\ SpansInv /\ PastInv

\* How far an instant is from a span.
LEMMA DistanceIs ==
  ASSUME NEW sp \in Confirmations, NEW x \in Int
  PROVE  /\ sp.start \in Nat /\ sp.end \in Nat
         /\ Distance(sp, x) \in Nat
         /\ x < sp.start => Distance(sp, x) > 0
<1>1. sp.start \in Nat /\ sp.end \in Nat
  BY DEF Confirmations
<1> QED BY <1>1 DEF Distance

-----------------------------------------------------------------------------
\* Of the spans that reach an instant there is a nearest, and it is found.
LEMMA CoveringIs ==
  ASSUME AuthorityTypeOK, TimeAuthorityAssumption, NEW x \in Int,
         Reaching(x) # {}
  PROVE  /\ Covering(x) \in Reaching(x)
         /\ \A j \in Reaching(x) :
                \/ Distance(spans[Covering(x)], x) < Distance(spans[j], x)
                \/ /\ Distance(spans[Covering(x)], x) = Distance(spans[j], x)
                   /\ Covering(x) >= j
<1> DEFINE R == Reaching(x)
           d(i) == Distance(spans[i], x)
           D == {d(i) : i \in R}
<1>1. R \subseteq 1..Len(spans) /\ Len(spans) \in Nat /\ R # {}
  BY DEF Reaching, AuthorityTypeOK
<1>2. ASSUME NEW i \in R PROVE d(i) \in Nat
  <2>1. spans[i] \in Confirmations
    BY <1>1 DEF AuthorityTypeOK
  <2> QED BY <2>1, DistanceIs
<1> HIDE DEF d
<1>3. PICK a \in R : \A i \in R : d(a) <= d(i)
  <2>1. D \in SUBSET Nat /\ D # {}
    BY <1>1, <1>2
  <2>2. PICK m \in D : \A y \in D : m <= y
    <3> HIDE DEF D
    <3> QED BY <2>1, LeastOf
  <2> QED BY <2>2
<1> DEFINE M == {i \in R : d(i) = d(a)}
<1>4. PICK b \in M : \A i \in M : i <= b
  <2>1. M \in SUBSET (0..Len(spans)) /\ M # {}
    BY <1>1, <1>3
  <2> HIDE DEF M
  <2> QED BY <2>1, <1>1, GreatestOf
<1>5. ASSUME NEW j \in R PROVE d(b) < d(j) \/ (d(b) = d(j) /\ b >= j)
  <2>1. b \in R /\ d(b) = d(a)
    BY <1>4
  <2>2. d(b) \in Nat /\ d(j) \in Nat /\ d(b) <= d(j)
    BY <2>1, <1>2, <1>3
  <2>3. d(j) = d(a) => j <= b
    BY <1>4
  <2>4. b \in Nat /\ j \in Nat
    BY <1>1, <2>1
  <2> QED BY <2>1, <2>2, <2>3, <2>4
<1>6. b \in R
  BY <1>4
<1> HIDE DEF M
<1>7. \E i \in R : \A j \in R : d(i) < d(j) \/ (d(i) = d(j) /\ i >= j)
  BY <1>5, <1>6
<1> QED BY <1>7 DEF Covering, d

\* A stamp is GPS time by the offset of a span that was earned.
LEMMA StampIsEarned ==
  ASSUME AuthorityTypeOK, TimeAuthorityAssumption, SpansInv,
         NEW x \in Instants, Source(x) = "gps"
  PROVE  \E e \in earned : Abs(e.at - x) <= Stale /\ Agree(OffsetTo(x), e.off)
<1> DEFINE c == Covering(x)
<1>1. x \in Int
  BY DEF Instants, TimeAuthorityAssumption
<1>2. Reaching(x) # {}
  BY DEF Source
<1>3. c \in Reaching(x)
  BY <1>1, <1>2, CoveringIs
<1>4. c \in 1..Len(spans) /\ Distance(spans[c], x) <= Stale
  BY <1>3 DEF Reaching
<1>5. spans[c] \in Confirmations
  BY <1>4 DEF AuthorityTypeOK
<1>6. spans[c].start \in Nat /\ spans[c].end \in Nat
  BY <1>5 DEF Confirmations
<1>7. EarnedSpan(spans[c], earned, now)
  BY <1>4 DEF SpansInv
<1>8. spans[c].start - Stale <= x /\ x <= spans[c].end + Stale
  <2>1. spans[c].start <= spans[c].end
    BY <1>7 DEF EarnedSpan
  <2> HIDE DEF c
  <2> QED BY <1>1, <1>4, <1>6, <2>1 DEF Distance, TimeAuthorityAssumption
<1>9. Near(spans[c], earned, x)
  BY <1>1, <1>7, <1>8 DEF EarnedSpan
<1> QED BY <1>2, <1>9 DEF Near, OffsetTo

\* An instant of the past is stamped by the span that stood there.
LEMMA PastIsKept ==
  ASSUME AuthorityTypeOK, TimeAuthorityAssumption, PastInv,
         Len(spans) < SpansKept, NEW x \in DOMAIN stood
  PROVE  Agree(OffsetTo(x), stood[x])
<1> DEFINE c == Covering(x)
<1>1. x \in Nat
  BY DEF PastInv, AuthorityTypeOK
<1>2. PICK i \in 1..Len(spans) : Keeps(spans, i, x, stood[x])
  BY DEF PastInv, KeptBy
<1>3. Distance(spans[i], x) = 0 /\ i \in Reaching(x)
  <2>1. spans[i] \in Confirmations
    BY <1>2 DEF AuthorityTypeOK
  <2>2. spans[i].start \in Nat /\ spans[i].end \in Nat
    BY <2>1 DEF Confirmations
  <2>3. spans[i].start <= x /\ x <= spans[i].end
    BY <1>2 DEF Keeps
  <2>4. Distance(spans[i], x) = 0
    BY <1>1, <2>2, <2>3 DEF Distance
  <2> QED BY <2>4, <1>2 DEF Reaching, TimeAuthorityAssumption
<1>4. /\ c \in Reaching(x)
      /\ \/ Distance(spans[c], x) < 0
         \/ Distance(spans[c], x) = 0 /\ c >= i
  BY <1>1, <1>3, CoveringIs
<1>5. c \in 1..Len(spans)
  BY <1>4 DEF Reaching
<1>6. spans[c] \in Confirmations
  BY <1>5 DEF AuthorityTypeOK
<1>7. spans[c].start \in Nat /\ spans[c].end \in Nat
  BY <1>6 DEF Confirmations
<1>8. ~(x < spans[c].start) /\ c >= i
  <2>1. /\ Distance(spans[c], x) \in Nat
        /\ x < spans[c].start => Distance(spans[c], x) > 0
    <3> HIDE DEF c
    <3>1. x \in Int
      BY <1>1
    <3> QED BY <1>6, <3>1, DistanceIs
  <2> HIDE DEF c
  <2> QED BY <1>4, <2>1
<1>9. c = i
  <2>1. i < c => x < spans[c].start
    BY <1>2, <1>5 DEF Keeps
  <2> HIDE DEF c
  <2> QED BY <2>1, <1>5, <1>8
<1>10. OffsetTo(x) = spans[i].off
  BY <1>3, <1>9 DEF OffsetTo
<1> QED BY <1>2, <1>10 DEF Keeps

-----------------------------------------------------------------------------
(***************************************************************************)
(* The steps.                                                              *)
(***************************************************************************)
\* What was earned stays earned.
LEMMA SpanStays ==
  ASSUME NEW sp, NEW es, NEW more, es \subseteq more, NEW t \in Nat, NEW u \in Nat,
         t <= u, sp \in Confirmations, EarnedSpan(sp, es, t)
  PROVE  EarnedSpan(sp, more, u)
<1>1. sp.end \in Nat
  BY DEF Confirmations
<1>2. sp.end <= u
  BY <1>1 DEF EarnedSpan
<1>3. ASSUME NEW x \in Int, sp.start - Stale <= x, x <= sp.end + Stale
      PROVE  Near(sp, more, x)
  <2>1. Near(sp, es, x)
    BY <1>3 DEF EarnedSpan
  <2> QED BY <2>1 DEF Near
<1> QED BY <1>2, <1>3 DEF EarnedSpan

\* A confirmation begins a span that was earned.
LEMMA SpanBegins ==
  ASSUME TimeAuthorityAssumption, NEW es, NEW t \in Nat, NEW off \in Offsets,
         [at |-> t, off |-> off] \in es
  PROVE  EarnedSpan([start |-> t, end |-> t, off |-> off], es, t)
<1> DEFINE e == [at |-> t, off |-> off]
           sp == [start |-> t, end |-> t, off |-> off]
<1>1. Agree(off, off)
  BY DEF Agree, Abs, TimeAuthorityAssumption
<1>2. ASSUME NEW x \in Int, t - Stale <= x, x <= t + Stale PROVE Near(sp, es, x)
  <2>1. Abs(t - x) <= Stale
    BY <1>2 DEF Abs, TimeAuthorityAssumption
  <2>2. e \in es /\ e.at = t /\ e.off = off /\ sp.off = off
    OBVIOUS
  <2> HIDE DEF e, sp
  <2> QED BY <1>1, <2>1, <2>2 DEF Near
<1> QED BY <1>2 DEF EarnedSpan

\* A confirmation that agrees with the open span, and follows it closely,
\* extends it.
LEMMA SpanGrows ==
  ASSUME TimeAuthorityAssumption, OffsetsDoNotDrift,
         NEW es, es \subseteq [at : Nat, off : Offsets], NEW t \in Nat, NEW off \in Offsets,
         [at |-> t, off |-> off] \in es,
         NEW sp \in Confirmations, EarnedSpan(sp, es, t),
         t - sp.end <= Stale, Agree(off, sp.off)
  PROVE  EarnedSpan([start |-> sp.start, end |-> t, off |-> off], es, t)
<1> DEFINE new == [start |-> sp.start, end |-> t, off |-> off]
<1>1. sp.start \in Nat /\ sp.end \in Nat /\ sp.off \in Offsets
  BY DEF Confirmations
<1>2. sp.start <= sp.end /\ sp.end <= t
  BY DEF EarnedSpan
<1>3. ASSUME NEW x \in Int, sp.start - Stale <= x, x <= t + Stale PROVE Near(new, es, x)
  <2>1. CASE x <= sp.end + Stale
    <3>1. PICK e \in es : Abs(e.at - x) <= Stale /\ Agree(sp.off, e.off)
      BY <1>3, <2>1 DEF EarnedSpan, Near
    <3>2. e.off \in Offsets
      OBVIOUS
    <3>3. Agree(off, e.off)
      BY <1>1, <3>1, <3>2 DEF OffsetsDoNotDrift
    <3> QED BY <3>1, <3>3 DEF Near
  <2>2. CASE ~(x <= sp.end + Stale)
    <3>1. EarnedSpan([start |-> t, end |-> t, off |-> off], es, t)
      BY SpanBegins
    <3>2. t - Stale <= x
      BY <1>1, <2>2 DEF TimeAuthorityAssumption
    <3>3. Near([start |-> t, end |-> t, off |-> off], es, x)
      BY <1>3, <3>1, <3>2 DEF EarnedSpan
    <3> QED BY <3>3 DEF Near
  <2> QED BY <2>1, <2>2
<1>4. new.start <= new.end
  BY <1>1, <1>2
<1> QED BY <1>3, <1>4 DEF EarnedSpan

\* The record of confirmations, after one more.
LEMMA ConfirmedIs ==
  ASSUME TimeAuthorityAssumption, AuthorityTypeOK, NEW off \in Offsets
  PROVE  /\ Confirmed(off) \in Seq(Confirmations)
         /\ Extends(off) =>
                /\ Len(spans) > 0 /\ Len(Confirmed(off)) = Len(spans)
                /\ \A i \in 1..Len(spans) - 1 : Confirmed(off)[i] = spans[i]
                /\ Confirmed(off)[Len(spans)] =
                       [start |-> Last(spans).start, end |-> now, off |-> off]
         /\ ~Extends(off) =>
                LET new == [start |-> now, end |-> now, off |-> off]
                    n == Len(Confirmed(off))
                IN  /\ n > 0 /\ Confirmed(off)[n] = new
                    /\ \A i \in 1..n - 1 : \E j \in 1..Len(spans) :
                           Confirmed(off)[i] = spans[j]
                    /\ n < SpansKept =>
                           /\ n = Len(spans) + 1
                           /\ \A i \in 1..Len(spans) : Confirmed(off)[i] = spans[i]
<1>0. spans \in Seq(Confirmations) /\ Len(spans) \in Nat /\ now \in Nat
  BY DEF AuthorityTypeOK
<1>1. CASE Extends(off)
  <2>1. Len(spans) > 0
    BY <1>0, <1>1, EmptySeq DEF Extends
  <2>2. spans[Len(spans)] \in Confirmations
    BY <1>0, <2>1
  <2> DEFINE new == [start |-> Last(spans).start, end |-> now, off |-> off]
  <2>3. new \in Confirmations
    BY <1>0, <2>2 DEF Confirmations, Last
  <2>4. Confirmed(off) = [spans EXCEPT ![Len(spans)] = new]
    BY <1>1 DEF Confirmed, Last
  <2> HIDE DEF new
  <2>5. /\ [spans EXCEPT ![Len(spans)] = new] \in Seq(Confirmations)
        /\ Len([spans EXCEPT ![Len(spans)] = new]) = Len(spans)
        /\ \A i \in 1..Len(spans) : [spans EXCEPT ![Len(spans)] = new][i] =
                                        IF i = Len(spans) THEN new ELSE spans[i]
    BY <1>0, <2>1, <2>3, ExceptSeq
  <2>6. \A i \in 1..Len(spans) - 1 : i \in 1..Len(spans) /\ i # Len(spans)
    BY <1>0
  <2>7. Len(spans) \in 1..Len(spans)
    BY <1>0, <2>1
  <2>8. /\ Confirmed(off)[Len(spans)] = new
        /\ \A i \in 1..Len(spans) - 1 : Confirmed(off)[i] = spans[i]
    BY <2>4, <2>5, <2>6, <2>7
  <2> QED BY <1>1, <2>1, <2>4, <2>5, <2>8 DEF new
<1>2. CASE ~Extends(off)
  <2> DEFINE new == [start |-> now, end |-> now, off |-> off]
             long == Append(spans, new)
  <2>1. new \in Confirmations
    BY <1>0 DEF Confirmations
  <2>2. Confirmed(off) = LastOf(long, SpansKept)
    BY <1>2 DEF Confirmed
  <2> HIDE DEF new
  <2>3. /\ long \in Seq(Confirmations) /\ Len(long) = Len(spans) + 1
        /\ \A i \in 1..Len(spans) : long[i] = spans[i]
        /\ long[Len(spans) + 1] = new
    BY <1>0, <2>1, AppendProperties
  <2>4. SpansKept \in Nat \ {0}
    BY DEF TimeAuthorityAssumption
  <2> HIDE DEF long
  <2> DEFINE c == LastOf(long, SpansKept)
             n == Len(c)
  <2>5. /\ c \in Seq(Confirmations)
        /\ Len(long) <= SpansKept => c = long
        /\ Len(long) > SpansKept =>
               /\ n = SpansKept
               /\ \A i \in 1..SpansKept : c[i] = long[Len(long) - SpansKept + i]
    <3>1. long \in Seq(Confirmations)
      BY <2>3
    <3> HIDE <2>3
    <3> QED BY <3>1, <2>4, LastOfIs, Zenon
  <2> HIDE DEF c
  <2>6. CASE Len(long) <= SpansKept
    <3>1. c = long /\ n = Len(spans) + 1
      BY <2>3, <2>5, <2>6
    <3>2. n > 0 /\ c[n] = new /\ \A i \in 1..Len(spans) : c[i] = spans[i]
      BY <1>0, <2>3, <3>1
    <3> QED BY <1>0, <1>2, <2>2, <2>5, <3>1, <3>2 DEF new, c
  <2>7. CASE ~(Len(long) <= SpansKept)
    <3>0. Len(long) > SpansKept
      BY <1>0, <2>3, <2>4, <2>7
    <3>1. n = SpansKept
      BY <2>5, <3>0
    <3>2. \A i \in 1..SpansKept : c[i] = long[Len(long) - SpansKept + i]
      BY <2>5, <3>0
    <3>3. c[n] = new /\ n > 0
      BY <1>0, <2>3, <2>4, <3>1, <3>2
    <3>4. ASSUME NEW i \in 1..n - 1 PROVE \E j \in 1..Len(spans) : c[i] = spans[j]
      <4>1. Len(long) - SpansKept + i \in 1..Len(spans) /\ i \in 1..SpansKept
        BY <1>0, <2>3, <2>4, <2>7, <3>1
      <4> QED BY <2>3, <3>2, <4>1
    <3>5. ~(n < SpansKept)
      BY <2>4, <3>1
    <3> QED BY <1>2, <2>2, <2>5, <3>3, <3>4, <3>5 DEF new, c
  <2> QED BY <2>6, <2>7
<1> QED BY <1>1, <1>2

\* The spans stay earned by one more confirmation.
LEMMA ConfirmEarns ==
  ASSUME TimeAuthorityAssumption, OffsetsDoNotDrift, AuthorityTypeOK, SpansInv,
         NEW off \in Offsets, NEW es, earned \subseteq es,
         es \subseteq [at : Nat, off : Offsets], [at |-> now, off |-> off] \in es
  PROVE  \A i \in 1..Len(Confirmed(off)) : EarnedSpan(Confirmed(off)[i], es, now)
<1> DEFINE new == [start |-> now, end |-> now, off |-> off]
           grown == [start |-> Last(spans).start, end |-> now, off |-> off]
<1>0. spans \in Seq(Confirmations) /\ Len(spans) \in Nat /\ now \in Nat
  BY DEF AuthorityTypeOK
<1>1. \A i \in 1..Len(spans) : EarnedSpan(spans[i], es, now)
  <2>1. ASSUME NEW i \in 1..Len(spans) PROVE EarnedSpan(spans[i], es, now)
    <3>1. EarnedSpan(spans[i], earned, now) /\ spans[i] \in Confirmations
      BY <1>0 DEF SpansInv
    <3>2. now <= now
      BY <1>0
    <3> QED BY <1>0, <3>1, <3>2, SpanStays
  <2> QED BY <2>1
<1>2. Confirmed(off) \in Seq(Confirmations) /\ Len(Confirmed(off)) \in Nat
  <2>1. Confirmed(off) \in Seq(Confirmations)
    BY ConfirmedIs
  <2> QED BY <2>1
<1>3. CASE Extends(off)
  <2>1. /\ Len(spans) > 0 /\ Len(Confirmed(off)) = Len(spans)
        /\ \A i \in 1..Len(spans) - 1 : Confirmed(off)[i] = spans[i]
        /\ Confirmed(off)[Len(spans)] = grown
    BY <1>3, ConfirmedIs
  <2>2. Len(spans) \in 1..Len(spans)
    BY <1>0, <2>1
  <2>3. /\ Last(spans) \in Confirmations /\ EarnedSpan(Last(spans), es, now)
        /\ now - Last(spans).end <= Stale /\ Agree(off, Last(spans).off)
    BY <1>0, <1>1, <1>3, <2>2 DEF Extends, Last
  <2>4. EarnedSpan(grown, es, now)
    BY <1>0, <2>3, SpanGrows
  <2> HIDE DEF grown
  <2>5. ASSUME NEW i \in 1..Len(Confirmed(off))
        PROVE  EarnedSpan(Confirmed(off)[i], es, now)
    <3>1. i \in 1..Len(spans) /\ (i = Len(spans) \/ i \in 1..Len(spans) - 1)
      BY <1>0, <2>1
    <3> QED BY <1>1, <2>1, <2>4, <3>1
  <2> QED BY <2>5
<1>4. CASE ~Extends(off)
  <2> DEFINE n == Len(Confirmed(off))
  <2>1. /\ n > 0 /\ Confirmed(off)[n] = new
        /\ \A i \in 1..n - 1 : \E j \in 1..Len(spans) : Confirmed(off)[i] = spans[j]
    BY <1>4, ConfirmedIs
  <2>2. EarnedSpan(new, es, now)
    BY <1>0, SpanBegins
  <2> HIDE DEF new
  <2>3. ASSUME NEW i \in 1..n PROVE EarnedSpan(Confirmed(off)[i], es, now)
    <3>1. i = n \/ i \in 1..n - 1
      BY <1>2
    <3> QED BY <1>1, <2>1, <2>2, <3>1
  <2> QED BY <2>3
<1> QED BY <1>3, <1>4

\* The past is kept by one more confirmation.
LEMMA ConfirmKeeps ==
  ASSUME TimeAuthorityAssumption, OffsetsDoNotDrift, AuthorityTypeOK, SpansInv, PastInv,
         NEW off \in Offsets, Len(Confirmed(off)) < SpansKept,
         NEW x \in DOMAIN stood \cup {now}
  PROVE  KeptBy(Confirmed(off), x, IF x = now THEN off ELSE stood[x])
<1> DEFINE new == [start |-> now, end |-> now, off |-> off]
           grown == [start |-> Last(spans).start, end |-> now, off |-> off]
           then == IF x = now THEN off ELSE stood[x]
           n == Len(Confirmed(off))
<1>0. /\ spans \in Seq(Confirmations) /\ Len(spans) \in Nat /\ now \in Nat
      /\ off \in Int /\ SpansKept \in Nat /\ x \in Nat /\ x <= now
  BY DEF AuthorityTypeOK, TimeAuthorityAssumption, PastInv
<1>1. Agree(off, off)
  BY <1>0 DEF Agree, Abs, TimeAuthorityAssumption
<1>2. n \in Nat
  BY ConfirmedIs
<1>3. CASE Extends(off)
  <2>1. /\ Len(spans) > 0 /\ n = Len(spans)
        /\ \A i \in 1..Len(spans) - 1 : Confirmed(off)[i] = spans[i]
        /\ Confirmed(off)[n] = grown
    BY <1>3, ConfirmedIs
  <2>2. n \in 1..n
    BY <1>0, <2>1
  <2>3. /\ Last(spans) = spans[n] /\ spans[n] \in Confirmations
        /\ spans[n].start <= spans[n].end /\ spans[n].end <= now
        /\ Agree(off, spans[n].off)
    BY <1>0, <1>3, <2>1, <2>2 DEF Extends, Last, SpansInv, EarnedSpan
  <2>4. spans[n].start \in Nat /\ spans[n].end \in Nat /\ spans[n].off \in Offsets
    BY <2>3 DEF Confirmations
  <2>5. /\ Confirmed(off)[n].start = spans[n].start /\ Confirmed(off)[n].end = now
        /\ Confirmed(off)[n].off = off
    BY <2>1, <2>3
  <2>6. CASE x = now
    <3>1. Keeps(Confirmed(off), n, x, then)
      BY <1>0, <1>1, <2>2, <2>3, <2>4, <2>5, <2>6 DEF Keeps
    <3> QED BY <2>2, <3>1 DEF KeptBy
  <2>7. CASE x # now
    <3>1. x \in DOMAIN stood /\ then = stood[x] /\ stood[x] \in Offsets
      BY <2>7 DEF PastInv
    <3>2. PICK i \in 1..Len(spans) : Keeps(spans, i, x, stood[x])
      BY <2>1, <3>1 DEF PastInv, KeptBy
    <3>3. /\ spans[i].start <= x /\ x <= spans[i].end /\ Agree(spans[i].off, stood[x])
          /\ \A j \in 1..n : i < j => x < spans[j].start
      BY <2>1, <3>2 DEF Keeps
    <3> HIDE DEF n, then
    <3>4. \A j \in 1..n : Confirmed(off)[j].start = spans[j].start
      <4>1. \A j \in 1..n : j = n \/ j \in 1..Len(spans) - 1
        BY <1>2, <2>1
      <4> QED BY <2>1, <2>5, <4>1
    <3>5. Confirmed(off)[i].start <= x /\ x <= Confirmed(off)[i].end
      <4>1. CASE i = n
        BY <1>0, <2>5, <3>3, <4>1
      <4>2. CASE i # n
        <5>1. i \in 1..Len(spans) - 1
          BY <1>0, <1>2, <2>1, <4>2
        <5> QED BY <2>1, <3>3, <5>1
      <4> QED BY <4>1, <4>2
    <3>6. Agree(Confirmed(off)[i].off, then)
      <4>1. CASE i = n
        <5>1. Agree(off, stood[x])
          BY <2>3, <2>4, <3>1, <3>3, <4>1 DEF OffsetsDoNotDrift
        <5> QED BY <2>5, <3>1, <4>1, <5>1
      <4>2. CASE i # n
        <5>1. i \in 1..Len(spans) - 1
          BY <1>0, <1>2, <2>1, <4>2
        <5> QED BY <2>1, <3>1, <3>3, <5>1
      <4> QED BY <4>1, <4>2
    <3>7. \A j \in 1..n : i < j => x < Confirmed(off)[j].start
      BY <3>3, <3>4
    <3>8. i \in 1..n
      BY <2>1
    <3>9. Keeps(Confirmed(off), i, x, then)
      BY <3>5, <3>6, <3>7 DEF Keeps, n
    <3> QED BY <3>8, <3>9 DEF KeptBy, n, then
  <2> QED BY <2>6, <2>7
<1>4. CASE ~Extends(off)
  <2>1. /\ n > 0 /\ Confirmed(off)[n] = new /\ n = Len(spans) + 1
        /\ \A i \in 1..Len(spans) : Confirmed(off)[i] = spans[i]
    BY <1>4, ConfirmedIs
  <2>2. n \in 1..n
    BY <1>0, <2>1
  <2>3. /\ Confirmed(off)[n].start = now /\ Confirmed(off)[n].end = now
        /\ Confirmed(off)[n].off = off
    BY <2>1
  <2>4. CASE x = now
    <3>1. Keeps(Confirmed(off), n, x, then)
      BY <1>0, <1>1, <2>2, <2>3, <2>4 DEF Keeps
    <3> QED BY <2>2, <3>1 DEF KeptBy
  <2>5. CASE x # now
    <3>1. x \in DOMAIN stood /\ then = stood[x] /\ x < now /\ Len(spans) < SpansKept
      BY <1>0, <2>1, <2>5
    <3>2. PICK i \in 1..Len(spans) : Keeps(spans, i, x, stood[x])
      BY <3>1 DEF PastInv, KeptBy
    <3>3. /\ spans[i].start <= x /\ x <= spans[i].end /\ Agree(spans[i].off, stood[x])
          /\ \A j \in 1..Len(spans) : i < j => x < spans[j].start
      BY <3>2 DEF Keeps
    <3> HIDE DEF n, then, new
    <3>0. n = Len(spans) + 1 /\ Len(spans) \in Nat
      BY <1>0, <2>1
    <3>4. ASSUME NEW j \in 1..n, i < j PROVE x < Confirmed(off)[j].start
      <4>1. j = n \/ j \in 1..Len(spans)
        BY <3>0
      <4> QED BY <2>1, <2>3, <3>1, <3>3, <3>4, <4>1
    <3>5. i \in 1..n
      BY <3>0
    <3>6. Keeps(Confirmed(off), i, x, then)
      BY <2>1, <3>1, <3>3, <3>4 DEF Keeps, n
    <3> QED BY <3>5, <3>6 DEF KeptBy, n, then
  <2> QED BY <2>4, <2>5
<1> QED BY <1>3, <1>4

\* What the slot of a sender is after a word: live only when the sender agreed
\* with itself, which earns.
LEMMA SlotIs ==
  ASSUME TimeAuthorityAssumption, AuthorityTypeOK, HeardInv,
         NEW s \in Senders, NEW off \in Offsets
  PROVE  /\ Slot(s, off) \in Slots
         /\ Slot(s, off).at = now /\ Slot(s, off).off = off
         /\ Slot(s, off).streak >= 2 =>
                Earns(s, [off |-> off, satellite |-> TRUE, at |-> now])
<1>1. /\ slots[s].streak \in Nat /\ slots[s].gaps \in Cadences
      /\ slots[s].off \in Int /\ slots[s].at \in Nat /\ now \in Nat /\ off \in Int
      /\ slots[s].at <= now
  BY DEF AuthorityTypeOK, Slots, HeardInv, TimeAuthorityAssumption
<1>2. Streak(s, off) \in Nat
  BY <1>1 DEF Streak
<1>3. Known(s) => LastOf(Append(slots[s].gaps, now - slots[s].at), GapsKept) \in Cadences
  <2>1. SUFFICES ASSUME Known(s)
                 PROVE  LastOf(Append(slots[s].gaps, now - slots[s].at), GapsKept)
                            \in Cadences
    OBVIOUS
  <2>2. now - slots[s].at \in 0..Stale
    BY <1>1, <2>1 DEF Known, TimeAuthorityAssumption
  <2>3. Append(slots[s].gaps, now - slots[s].at) \in Seq(0..Stale)
    BY <1>1, <2>2, AppendProperties DEF Cadences
  <2> QED BY <2>3, LastOfIs DEF Cadences, TimeAuthorityAssumption
<1>4. <<>> \in Cadences
  BY DEF Cadences
<1>5. Slot(s, off) \in Slots
  BY <1>1, <1>2, <1>3, <1>4 DEF Slot, Slots
<1>6. ASSUME Slot(s, off).streak >= 2
      PROVE  Earns(s, [off |-> off, satellite |-> TRUE, at |-> now])
  <2>1. Known(s) /\ Agree(off, slots[s].off)
    BY <1>1, <1>6 DEF Slot, Streak
  <2>2. heard[s] = [off |-> slots[s].off, satellite |-> TRUE, at |-> slots[s].at]
    BY <2>1 DEF Known, HeardInv, WordOf
  <2>3. heard[s] # NoWord
    BY <2>2, <1>1 DEF NoWord
  <2>4. now - heard[s].at <= Stale /\ Agree(off, heard[s].off)
    BY <2>1, <2>2 DEF Known
  <2> QED BY <2>3, <2>4 DEF Earns
<1> QED BY <1>5, <1>6 DEF Slot

\* A word of a device, as feed() takes it.
LEMMA FeedStep ==
  ASSUME TimeAuthorityAssumption, OffsetsDoNotDrift, Stamping,
         NEW s \in Senders, NEW off \in Offsets, NEW satellite \in BOOLEAN,
         Feed(s, off, satellite)
  PROVE  Stamping'
<1> DEFINE word == [off |-> off, satellite |-> satellite, at |-> now]
           table == [slots EXCEPT ![s] = Slot(s, off)]
           chosen == Live(table) # {} /\ Best(table) = s
           with == [x \in DOMAIN stood \cup {now} |->
                        IF x = now THEN off ELSE stood[x]]
           e == [at |-> now, off |-> off]
<1> USE DEF Stamping
<1>1. /\ now' = now
      /\ heard' = IF satellite THEN [heard EXCEPT ![s] = word] ELSE heard
      /\ earned' = IF Earns(s, word) THEN earned \cup {e} ELSE earned
  BY DEF Feed
<1>2. CASE ~satellite
  <2>1. UNCHANGED <<slots, spans, stood>> /\ ~Earns(s, word)
    BY <1>2 DEF Feed, Trusted, Earns
  <2>2. UNCHANGED <<heard, earned>>
    BY <1>1, <1>2, <2>1
  <2>3. AuthorityTypeOK' /\ HeardInv' /\ SpansInv' /\ PastInv'
    BY <1>1, <2>1, <2>2 DEF AuthorityTypeOK, HeardInv, SpansInv, PastInv
  <2> QED BY <2>3
<1>3. CASE satellite
  <2>1. /\ slots' = table
        /\ spans' = IF chosen THEN Confirmed(off) ELSE spans
        /\ stood' = IF chosen THEN with ELSE stood
        /\ heard' = [heard EXCEPT ![s] = word]
        /\ word = [off |-> off, satellite |-> TRUE, at |-> now]
    <3>1. Trusted(word) /\ word = [off |-> off, satellite |-> TRUE, at |-> now]
      BY <1>3 DEF Trusted
    <3>2. heard' = [heard EXCEPT ![s] = word]
      BY <1>1, <1>3
    <3>3. ~(~Trusted(word))
      BY <3>1
    <3>4. /\ slots' = table
          /\ spans' = IF chosen THEN Confirmed(off) ELSE spans
          /\ stood' = IF chosen THEN with ELSE stood
      BY <3>3, Zenon DEF Feed
    <3> HIDE DEF word, chosen, with
    <3> QED BY <3>1, <3>2, <3>4
  <2>2. /\ Slot(s, off) \in Slots
        /\ Slot(s, off).at = now /\ Slot(s, off).off = off
        /\ Slot(s, off).streak >= 2 => Earns(s, word)
    BY <2>1, SlotIs
  <2>3. /\ table \in [Senders -> Slots] /\ table[s] = Slot(s, off)
        /\ \A u \in Senders : u # s => table[u] = slots[u]
    BY <2>2 DEF AuthorityTypeOK
  <2>4. now \in Nat /\ e \in [at : Nat, off : Offsets]
    BY DEF AuthorityTypeOK
  <2> HIDE DEF word, table, with, e
  <2>5. earned \subseteq earned' /\ earned' \subseteq [at : Nat, off : Offsets]
    BY <1>1, <2>4 DEF AuthorityTypeOK
  <2>6. ASSUME chosen PROVE e \in earned'
    <3>1. s \in Live(table)
      BY <2>3, <2>6, BestIs
    <3>2. Slot(s, off).streak >= 2
      BY <2>3, <3>1 DEF Live
    <3> QED BY <1>1, <2>2, <3>2
  <2>7. AuthorityTypeOK'
    <3>1. spans' \in Seq(Confirmations)
      BY <2>1, ConfirmedIs DEF AuthorityTypeOK
    <3>2. DOMAIN heard' = Senders
      BY <2>1 DEF AuthorityTypeOK
    <3> QED BY <1>1, <2>1, <2>3, <2>5, <3>1, <3>2 DEF AuthorityTypeOK
  <2>8. HeardInv'
    <3>1. ASSUME NEW u \in Senders
          PROVE  /\ table[u].at <= now
                 /\ table[u].streak > 0 =>
                        table[u].off \in Offsets /\ heard'[u] = WordOf(table[u])
      <4>1. CASE u = s
        <5>1. heard'[u] = word
          BY <2>1, <4>1 DEF AuthorityTypeOK
        <5>2. WordOf(table[u]) = word
          BY <2>1, <2>2, <2>3, <4>1 DEF WordOf
        <5>3. table[u].at <= now /\ table[u].off \in Offsets
          BY <2>2, <2>3, <2>4, <4>1
        <5> QED BY <5>1, <5>2, <5>3
      <4>2. CASE u # s
        <5>1. heard'[u] = heard[u] /\ table[u] = slots[u]
          BY <2>1, <2>3, <4>2 DEF AuthorityTypeOK
        <5> QED BY <5>1 DEF HeardInv
      <4> QED BY <4>1, <4>2
    <3> QED BY <1>1, <2>1, <3>1 DEF HeardInv
  <2>9. SpansInv'
    <3>1. CASE chosen
      <4>1. \A i \in 1..Len(Confirmed(off)) :
                EarnedSpan(Confirmed(off)[i], earned', now)
        BY <2>5, <2>6, <3>1, ConfirmEarns DEF e
      <4> QED BY <1>1, <2>1, <3>1, <4>1 DEF SpansInv
    <3>2. CASE ~chosen
      <4>1. spans' = spans
        BY <2>1, <3>2
      <4>2. ASSUME NEW i \in 1..Len(spans) PROVE EarnedSpan(spans[i], earned', now)
        <5>1. EarnedSpan(spans[i], earned, now) /\ spans[i] \in Confirmations
          BY DEF SpansInv, AuthorityTypeOK
        <5>2. now <= now
          BY <2>4
        <5> QED BY <2>4, <2>5, <5>1, <5>2, SpanStays
      <4> QED BY <1>1, <4>1, <4>2 DEF SpansInv
    <3> QED BY <3>1, <3>2
  <2>10. PastInv'
    <3>1. CASE chosen
      <4>1. /\ DOMAIN stood' = DOMAIN stood \cup {now}
            /\ \A x \in DOMAIN stood \cup {now} :
                   stood'[x] = IF x = now THEN off ELSE stood[x]
        <5>1. stood' = with
          BY <2>1, <3>1
        <5> HIDE DEF chosen
        <5> QED BY <5>1 DEF with
      <4>2. \A x \in DOMAIN stood' : stood'[x] \in Offsets
        BY <4>1 DEF PastInv
      <4>3. DOMAIN stood' \subseteq 0..now
        BY <2>4, <4>1 DEF PastInv
      <4>4. ASSUME Len(spans') < SpansKept, NEW x \in DOMAIN stood'
            PROVE  KeptBy(spans', x, stood'[x])
        <5>1. spans' = Confirmed(off)
          BY <2>1, <3>1
        <5>2. KeptBy(Confirmed(off), x, IF x = now THEN off ELSE stood[x])
          BY <4>1, <4>4, <5>1, ConfirmKeeps
        <5> QED BY <4>1, <5>1, <5>2
      <4> QED BY <1>1, <4>2, <4>3, <4>4 DEF PastInv
    <3>2. CASE ~chosen
      <4>1. spans' = spans /\ stood' = stood
        BY <2>1, <3>2
      <4> QED BY <1>1, <4>1 DEF PastInv
    <3> QED BY <3>1, <3>2
  <2> QED BY <2>7, <2>8, <2>9, <2>10
<1> QED BY <1>2, <1>3

\* The host's clock, and the start.
LEMMA TickStep ==
  ASSUME TimeAuthorityAssumption, Stamping, AuthorityTick
  PROVE  Stamping'
<1> USE DEF Stamping
<1>1. now \in Nat /\ now' = now + 1 /\ now <= now'
  BY DEF AuthorityTick, AuthorityTypeOK
<1>2. UNCHANGED <<slots, spans, heard, earned, stood>>
  BY DEF AuthorityTick
<1>3. AuthorityTypeOK'
  BY <1>1, <1>2 DEF AuthorityTypeOK
<1>4. HeardInv'
  <2>1. \A s \in Senders : slots[s].at \in Nat
    BY DEF AuthorityTypeOK, Slots
  <2>2. \A s \in Senders : slots[s].at <= now'
    BY <1>1, <2>1 DEF HeardInv
  <2> QED BY <1>2, <2>2 DEF HeardInv
<1>5. SpansInv'
  <2>1. ASSUME NEW i \in 1..Len(spans) PROVE EarnedSpan(spans[i], earned, now')
    <3>1. EarnedSpan(spans[i], earned, now) /\ spans[i] \in Confirmations
      BY DEF SpansInv, AuthorityTypeOK
    <3>2. now' \in Nat
      BY <1>1
    <3> QED BY <1>1, <3>1, <3>2, SpanStays
  <2> QED BY <1>2, <2>1 DEF SpansInv
<1>6. PastInv'
  BY <1>1, <1>2 DEF PastInv
<1> QED BY <1>3, <1>4, <1>5, <1>6

LEMMA AuthorityStarts ==
  ASSUME TimeAuthorityAssumption, AuthorityInit
  PROVE  Stamping
<1>1. <<>> \in Cadences /\ 0 \in Nat /\ 0 \in Int
  BY DEF Cadences
<1>2. NoSlot \in Slots /\ NoSlot.at = 0 /\ NoSlot.streak = 0
  BY <1>1 DEF NoSlot, Slots
<1>3. AuthorityTypeOK
  BY <1>2 DEF AuthorityInit, AuthorityTypeOK
<1>4. HeardInv
  BY <1>2 DEF AuthorityInit, HeardInv
<1>5. SpansInv
  BY DEF AuthorityInit, SpansInv
<1>6. PastInv
  BY DEF AuthorityInit, PastInv
<1> QED BY <1>3, <1>4, <1>5, <1>6 DEF Stamping

\* Whatever happens, what stamps is earned and the past is kept.
LEMMA StampingStep ==
  ASSUME TimeAuthorityAssumption, OffsetsDoNotDrift, Stamping,
         [AuthorityNext]_authorityVars
  PROVE  Stamping'
<1>1. CASE AuthorityTick
  BY <1>1, TickStep
<1>2. ASSUME NEW s \in Senders, NEW off \in Offsets, NEW satellite \in BOOLEAN,
             Feed(s, off, satellite)
      PROVE  Stamping'
  BY <1>2, FeedStep
<1>3. CASE UNCHANGED authorityVars
  BY <1>3 DEF authorityVars, Stamping, AuthorityTypeOK, HeardInv, SpansInv, PastInv
<1> QED BY <1>1, <1>2, <1>3 DEF AuthorityNext

\* Of however many senders: a stamp is GPS time only by an offset that two words
\* of one satellite sender agreed on close to that instant, and what stood at an
\* instant stamps it for good (TimeAuthority, _covering_span), where the host's
\* clock stands or steps.
THEOREM StampsAreEarned ==
  ASSUME OffsetsDoNotDrift
  PROVE  AuthoritySpec => [](SourceIsEarned /\ StepKeepsThePast)
<1>1. AuthorityInit => Stamping
  BY AuthorityStarts, TimeAuthorityAssumption
<1>2. Stamping /\ [AuthorityNext]_authorityVars => Stamping'
  BY StampingStep, TimeAuthorityAssumption
<1>3. Stamping => SourceIsEarned
  BY StampIsEarned, TimeAuthorityAssumption DEF Stamping, SourceIsEarned
<1>4. Stamping => StepKeepsThePast
  BY PastIsKept, TimeAuthorityAssumption DEF Stamping, StepKeepsThePast
<1> QED BY <1>1, <1>2, <1>3, <1>4, PTL DEF AuthoritySpec

-----------------------------------------------------------------------------
\* The newest confirmation is not before t.
ConfirmedSince(ss, t) == Len(ss) > 0 /\ t <= Last(ss).end

\* With one sender of each PGN, the satellite fix confirms at every word, and
\* another's word finds a confirmation that is not stale.
Heeded ==
    \A s \in Senders :
        slots[s].streak >= 2 =>
            /\ s \in Satellite => ConfirmedSince(spans, slots[s].at)
            /\ slots[s].at = now => ConfirmedSince(spans, now - Stale)

LEMMA HeededStep ==
  ASSUME TimeAuthorityAssumption, OneSenderOfEach, Stamping, Stamping', Heeded,
         NEW s \in Senders, NEW off \in Offsets, NEW satellite \in BOOLEAN,
         Feed(s, off, satellite)
  PROVE  Heeded'
<1> DEFINE table == [slots EXCEPT ![s] = Slot(s, off)]
           chosen == Live(table) # {} /\ Best(table) = s
<1> USE DEF Stamping
<1>1. now' = now /\ now \in Nat
  BY DEF Feed, AuthorityTypeOK
<1>2. CASE ~satellite
  <2>1. UNCHANGED <<slots, spans>>
    BY <1>2 DEF Feed, Trusted
  <2> QED BY <1>1, <2>1 DEF Heeded, ConfirmedSince
<1>3. CASE satellite
  <2>1. slots' = table /\ spans' = IF chosen THEN Confirmed(off) ELSE spans
    <3>1. ~(~Trusted([off |-> off, satellite |-> satellite, at |-> now]))
      BY <1>3 DEF Trusted
    <3> QED BY <3>1, Zenon DEF Feed
  <2>2. /\ table \in [Senders -> Slots] /\ table[s] = Slot(s, off)
        /\ table[s].at = now
        /\ \A u \in Senders : u # s => table[u] = slots[u]
    BY SlotIs DEF AuthorityTypeOK
  <2> HIDE DEF table
  <2>3. chosen => Len(spans') > 0 /\ Last(spans').end = now
    <3>1. SUFFICES ASSUME chosen
                   PROVE  Len(spans') > 0 /\ Last(spans').end = now
      OBVIOUS
    <3>2. spans' = Confirmed(off)
      BY <2>1, <3>1
    <3>3. CASE Extends(off)
      <4>1. /\ Len(spans) > 0 /\ Len(Confirmed(off)) = Len(spans)
            /\ Confirmed(off)[Len(spans)] =
                   [start |-> Last(spans).start, end |-> now, off |-> off]
        BY <3>3, ConfirmedIs
      <4> QED BY <3>2, <4>1 DEF Last
    <3>4. CASE ~Extends(off)
      <4>1. /\ Len(Confirmed(off)) > 0
            /\ Confirmed(off)[Len(Confirmed(off))] =
                   [start |-> now, end |-> now, off |-> off]
        BY <3>4, ConfirmedIs
      <4> QED BY <3>2, <4>1 DEF Last
    <3> QED BY <3>3, <3>4
  <2>4. ASSUME NEW t \in Int, t <= now, ConfirmedSince(spans, t) \/ chosen
        PROVE  ConfirmedSince(spans', t)
    <3>1. CASE chosen
      BY <1>1, <2>3, <2>4, <3>1 DEF ConfirmedSince
    <3>2. CASE ~chosen
      <4>1. spans' = spans
        BY <2>1, <3>2
      <4> QED BY <2>4, <3>2, <4>1 DEF ConfirmedSince
    <3> QED BY <3>1, <3>2
  <2>5. \A u \in Senders : slots'[u].at \in Nat /\ slots'[u].at <= now
    <3>1. \A u \in Senders : slots'[u] \in Slots
      BY DEF AuthorityTypeOK
    <3>2. \A u \in Senders : slots'[u].at <= now
      BY <1>1 DEF HeardInv
    <3> QED BY <3>1, <3>2 DEF Slots
  <2>6. ASSUME NEW u \in Live(table), u # s, ~chosen, s \in Live(table)
        PROVE  s \notin Satellite /\ u \in Satellite
    <3>1. /\ Best(table) \in Live(table) /\ Best(table) # s
          /\ Precedes(Rank(table, Best(table)), Rank(table, s))
      BY <2>2, <2>6, BestIs
    <3>2. Best(table) \in Senders /\ u \in Senders
      BY <3>1 DEF Live
    <3>3. Best(table) \in Satellite <=> s \notin Satellite
      BY <3>1, <3>2 DEF OneSenderOfEach
    <3>4. u \in Satellite <=> s \notin Satellite
      BY <2>6, <3>2 DEF OneSenderOfEach
    <3>5. s \in Satellite => ~Precedes(Rank(table, Best(table)), Rank(table, s))
      BY <3>3 DEF Precedes, Rank
    <3> QED BY <3>1, <3>4, <3>5
  <2>7. ASSUME NEW u \in Senders, table[u].streak >= 2
        PROVE  /\ u \in Satellite => ConfirmedSince(spans', table[u].at)
               /\ table[u].at = now => ConfirmedSince(spans', now - Stale)
    <3>0. table[u].at \in Int /\ table[u].at <= now /\ now - Stale \in Int
          /\ now - Stale <= now
      <4>1. table[u].at \in Nat /\ table[u].at <= now
        BY <2>1, <2>5
      <4>2. Stale \in Nat
        BY DEF TimeAuthorityAssumption
      <4> QED BY <1>1, <4>1, <4>2
    <3> HIDE DEF chosen
    <3>1. CASE u # s
      <4>1. table[u] = slots[u]
        BY <2>2, <3>1
      <4>2. /\ u \in Satellite => ConfirmedSince(spans, table[u].at)
            /\ table[u].at = now => ConfirmedSince(spans, now - Stale)
        BY <2>7, <4>1 DEF Heeded
      <4> QED BY <2>4, <3>0, <4>2
    <3>2. CASE u = s /\ chosen
      BY <2>4, <3>0, <3>2
    <3>3. CASE u = s /\ ~chosen
      <4>1. s \in Live(table)
        BY <1>1, <2>2, <2>7, <3>3 DEF Live, TimeAuthorityAssumption
      <4> DEFINE b == Best(table)
      <4>2. b \in Live(table) /\ b # s
        BY <2>2, <3>3, <4>1, BestIs DEF chosen
      <4> HIDE DEF b
      <4>3. s \notin Satellite /\ b \in Satellite
        BY <2>6, <3>3, <4>1, <4>2
      <4>4. b \in Senders /\ slots[b].streak >= 2 /\ now - slots[b].at <= Stale
        BY <2>2, <4>2 DEF Live
      <4>5. ConfirmedSince(spans, slots[b].at)
        BY <4>3, <4>4 DEF Heeded
      <4>6. spans' = spans
        BY <2>1, <3>3
      <4>7. Last(spans).end \in Nat /\ Len(spans) > 0
        <5>1. spans[Len(spans)] \in Confirmations
          BY <4>5 DEF ConfirmedSince, AuthorityTypeOK
        <5> QED BY <4>5, <5>1 DEF Last, Confirmations, ConfirmedSince
      <4>8. slots[b].at \in Nat
        BY <4>4 DEF AuthorityTypeOK, Slots
      <4>9. now - Stale <= Last(spans).end
        <5>1. slots[b].at <= Last(spans).end
          BY <4>5 DEF ConfirmedSince
        <5>2. now - Stale <= slots[b].at
          BY <1>1, <4>4, <4>8 DEF TimeAuthorityAssumption
        <5>3. Stale \in Nat
          BY DEF TimeAuthorityAssumption
        <5> QED BY <1>1, <4>7, <4>8, <5>1, <5>2, <5>3
      <4> QED BY <1>1, <3>3, <4>3, <4>6, <4>7, <4>9 DEF ConfirmedSince
    <3> QED BY <3>1, <3>2, <3>3
  <2> QED BY <1>1, <2>1, <2>7 DEF Heeded, ConfirmedSince
<1> QED BY <1>2, <1>3

\* A confirmation that is not stale stamps the present.
LEMMA HeededIsStamped ==
  ASSUME TimeAuthorityAssumption, Stamping, Heeded
  PROVE  NoSenderIsStarved
<1> SUFFICES ASSUME NEW s \in Senders, slots[s].streak >= 2, slots[s].at = now
             PROVE  Source(now) = "gps"
  BY DEF NoSenderIsStarved
<1> DEFINE n == Len(spans)
<1>1. n > 0 /\ now - Stale <= Last(spans).end /\ now \in Nat
  BY DEF Heeded, ConfirmedSince, Stamping, AuthorityTypeOK
<1>2. n \in 1..n /\ spans[n] \in Confirmations
  BY <1>1 DEF Stamping, AuthorityTypeOK
<1>3. /\ spans[n].start \in Nat /\ spans[n].end \in Nat
      /\ spans[n].start <= spans[n].end /\ spans[n].end <= now
  BY <1>2 DEF Confirmations, Stamping, SpansInv, EarnedSpan
<1>4. Distance(spans[n], now) <= Stale
  <2>1. now - Stale <= spans[n].end
    BY <1>1 DEF Last
  <2> HIDE DEF n
  <2> QED BY <1>1, <1>3, <2>1 DEF Distance, TimeAuthorityAssumption
<1>5. n \in Reaching(now)
  BY <1>2, <1>4 DEF Reaching
<1> QED BY <1>5 DEF Source

\* With one sender of each PGN no live sender is starved either: the stamps of
\* the frames are GPS time exactly when that is earned (_sender_rank, feed()).
THEOREM AuthorityStaysHonest ==
  ASSUME OffsetsDoNotDrift, OneSenderOfEach
  PROVE  AuthoritySpec => []AuthorityIsHonest
<1>1. AuthorityInit => Stamping /\ Heeded
  <2>1. AuthorityInit => Heeded
    BY DEF AuthorityInit, Heeded, NoSlot
  <2> QED BY <2>1, AuthorityStarts, TimeAuthorityAssumption
<1>2. Stamping /\ Heeded /\ [AuthorityNext]_authorityVars => Stamping' /\ Heeded'
  <2>1. SUFFICES ASSUME Stamping, Heeded, [AuthorityNext]_authorityVars
                 PROVE  Stamping' /\ Heeded'
    OBVIOUS
  <2>2. Stamping'
    BY <2>1, StampingStep, TimeAuthorityAssumption
  <2>3. CASE AuthorityTick
    <3>1. now \in Nat /\ now' = now + 1 /\ UNCHANGED <<slots, spans>>
      BY <2>1, <2>3 DEF AuthorityTick, Stamping, AuthorityTypeOK
    <3>2. \A s \in Senders : slots[s].at \in Nat /\ slots[s].at <= now
      <4>1. \A s \in Senders : slots[s] \in Slots /\ slots[s].at <= now
        BY <2>1 DEF Stamping, AuthorityTypeOK, HeardInv
      <4> QED BY <4>1 DEF Slots
    <3>3. \A s \in Senders : slots[s].at # now'
      BY <3>1, <3>2
    <3> QED BY <2>1, <2>2, <3>1, <3>3 DEF Heeded, ConfirmedSince
  <2>4. ASSUME NEW s \in Senders, NEW off \in Offsets, NEW satellite \in BOOLEAN,
               Feed(s, off, satellite)
        PROVE  Heeded'
    BY <2>1, <2>2, <2>4, HeededStep, TimeAuthorityAssumption
  <2>5. CASE UNCHANGED authorityVars
    <3>1. slots' = slots /\ spans' = spans /\ now' = now
      BY <2>5 DEF authorityVars
    <3> QED BY <2>1, <2>2, <3>1 DEF Heeded
  <2> QED BY <2>1, <2>2, <2>3, <2>4, <2>5 DEF AuthorityNext
<1>3. Stamping /\ Heeded => AuthorityIsHonest
  <2>1. Stamping => SourceIsEarned
    BY StampIsEarned, TimeAuthorityAssumption DEF Stamping, SourceIsEarned
  <2>2. Stamping => StepKeepsThePast
    BY PastIsKept, TimeAuthorityAssumption DEF Stamping, StepKeepsThePast
  <2> QED BY <2>1, <2>2, HeededIsStamped, TimeAuthorityAssumption DEF AuthorityIsHonest
<1> QED BY <1>1, <1>2, <1>3, PTL DEF AuthoritySpec

=============================================================================
