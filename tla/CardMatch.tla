----------------------------- MODULE CardMatch -----------------------------
(***************************************************************************)
(* Which frame of which run a file of a memory card is (rig/ingest.py:     *)
(* scan_card, match_run and the loop of ingest that calls it).             *)
(*                                                                         *)
(* A card file knows its body's own name and number and its body's own     *)
(* clock; a row of a run knows the rig's epoch and the number the node gave *)
(* the review JPEG when it saved it.  Each body and each node counts for    *)
(* itself, so a row's number may be on its own file, on another shot's, on  *)
(* the other body's, on several or on none.  Numbers that show one offset   *)
(* are believed; the rest is matched by the one clock offset that lays the  *)
(* files over the rows.  Two bodies fire together and at a fixed period, so *)
(* more than one offset may do, of the wrong body or one shot off.          *)
(***************************************************************************)
EXTENDS Integers, Sequences, FiniteSets, FiniteSetsExt, SequencesExt

CONSTANTS
    NRows,          \* shots of a run
    Period,         \* between two shots, in bins of BIN_S
    Setups,         \* what the bodies and the nodes may be set to
    JournalError,   \* error of a journalled offset, in bins
    Directories,    \* what ingest may be pointed at
    MaxFlaws        \* bound: lost rows, missing files and extra files

ASSUME CardMatchAssumption ==
    /\ {NRows, Period, MaxFlaws} \subseteq Nat \ {0}
    /\ \A u \in Setups, b \in {1, 2} :
          /\ u.clock[b] \in Int /\ u.prefix[b] \in {1, 2}
          /\ {u.first[b], u.saved[b]} \subseteq Nat /\ u.counts \in BOOLEAN
    /\ JournalError \in Nat /\ 2 * JournalError < Period
    /\ Directories \subseteq {"cam1", "cam2", "both", "card1", "card2"}

Cameras == {1, 2}
RunTol == Min({3, (45 * Period) \div 100})     \* run_tol: 45 % of the period
JournalReach == 8                             \* 2 s

VARIABLES
    scene,      \* what was shot and what the directory holds
    todo,       \* the passes ingest has left, in order
    used,       \* the files attributed so far
    series,     \* results: <<run, cam>> -> the series found; 0 for none
    matches     \* [run, cam, shot, card]

matchVars == <<scene, todo, used, series, matches>>

\* A card file: the body it is of, and the exposure; shot 0 is one taken a
\* period before the run.
File == [body : Cameras, run : {1, 2}, shot : 0..NRows]
ShotAt(run, shot) == run * Period * (NRows + 5) + shot * Period

\* A setup, by body or by its node: the body's clock minus the rig's in bins;
\* the letters its names begin with (_series); the number of its first file
\* (_number) and of the first review JPEG its node saves; and whether a frame
\* that has no row had a number.
Clock(b) == scene.setup.clock[b]
Series(f) == scene.setup.prefix[f.body]
Nth(run, shot) == (run - 1) * (NRows + 1) + shot
Number(f) == scene.setup.first[f.body] + Nth(f.run, f.shot)
Exif(f) == ShotAt(f.run, f.shot) + Clock(f.body)

\* A staging directory of one body (_dir_camera), a download of both cards, or
\* a copy of one that says nothing of its body.
DirCamera == IF scene.dir = "cam1" THEN 1
             ELSE IF scene.dir = "cam2" THEN 2 ELSE 0
Bodies(dir) == IF dir = "both" THEN Cameras
              ELSE IF dir \in {"cam1", "card1"} THEN {1} ELSE {2}

\* scan_card() and load_run().
Cards == {f \in File : /\ f.body \in Bodies(scene.dir)
                       /\ f.run <= scene.runs
                       /\ IF f.shot = 0 THEN f \in scene.flaws
                          ELSE f \notin scene.flaws}
Rows(run, cam) == {i \in 1..NRows : [run |-> run, cam |-> cam, row |-> i]
                                        \notin scene.flaws}
NumberOfRow(run, cam, i) ==
    LET lost == {r \in (1..run) \X (1..NRows) :
                    /\ [run |-> r[1], cam |-> cam, row |-> r[2]] \in scene.flaws
                    /\ Nth(r[1], r[2]) < Nth(run, i)}
    IN  scene.setup.saved[cam] + Nth(run, i)
            - (IF scene.setup.counts THEN 0 ELSE Cardinality(lost))

\* What may be wrong: a file lost, an extra one, a row lost.
Flaws(dir, runs) ==
    [body : Bodies(dir), run : 1..runs, shot : 0..NRows]
        \cup [run : 1..runs, cam : Cameras, row : 1..NRows]
FlawSets(dir, runs) ==
    {{}} \cup {Range(g) : g \in [1..MaxFlaws -> Flaws(dir, runs)]}

RunPasses(run) ==
    <<<<run, "number", 1>>, <<run, "number", 2>>, <<run, "time", 1>>, <<run, "time", 2>>>>
Passes(runs) == IF runs = 1 THEN RunPasses(1) ELSE RunPasses(1) \o RunPasses(2)

MatchInit ==
    /\ \E dir \in Directories, runs \in {1, 2}, setup \in Setups,
          journal \in SUBSET Cameras :
       \E flaws \in FlawSets(dir, runs) :
            scene = [dir |-> dir, runs |-> runs, setup |-> setup,
                     journal |-> journal, flaws |-> flaws]
    \* One directory holds one file of a name.
    /\ \A f, g \in Cards : Series(f) = Series(g) /\ Number(f) = Number(g) => f = g
    /\ todo = Passes(scene.runs)
    /\ used = {} /\ matches = {}
    /\ series = [rc \in {1, 2} \X Cameras |-> 0]

-----------------------------------------------------------------------------
(***************************************************************************)
(* The two ways to an offset.                                              *)
(***************************************************************************)
OffBy(a, b) == IF a < b THEN b - a ELSE a - b
Share(n) == (7 * n) \div 10            \* MIN_FRAC
AtLeast(n, least) == Max({least, Share(n)})
NoOffset == [series |-> 0, off |-> 0]

\* The middle one of the values of d on I, or half way between two.
Median(I, d) ==
    LET values == {d[i] : i \in I}
        low == Min({v \in values : 2 * Cardinality({i \in I : d[i] <= v}) >= Cardinality(I)})
        high == Max({v \in values : 2 * Cardinality({i \in I : d[i] >= v}) >= Cardinality(I)})
    IN  (low + high) \div 2

\* A standard deviation under 0.3 s, which is 6/5 of a bin.
Tight(I, d) ==
    LET n == Cardinality(I)
        sum == MapThenSumSet(LAMBDA i : d[i], I)
        squares == MapThenSumSet(LAMBDA i : d[i] * d[i], I)
    IN  \/ Cardinality({d[i] : i \in I}) = 1
        \/ 25 * (n * squares - sum * sum) < 36 * n * n

\* _offset_by_number(), for every series there is: the rows whose number is on
\* one of its files, and what those files' clock is ahead of the rows.
Bearers(run, cam, avail, s, i) ==
    {f \in avail : Series(f) = s /\ Number(f) = NumberOfRow(run, cam, i)}
Borne(run, cam, avail, s) ==
    {i \in Rows(run, cam) : Cardinality(Bearers(run, cam, avail, s, i)) = 1}
Ahead(run, cam, avail, s) ==
    [i \in Borne(run, cam, avail, s) |->
        Exif(CHOOSE f \in Bearers(run, cam, avail, s, i) : TRUE) - ShotAt(run, i)]

\* The series that shows one offset on the most rows, the later name of equals.
ByNumber(run, cam, avail) ==
    LET borne(s) == Borne(run, cam, avail, s)
        many(s) == Cardinality(borne(s))
        shows == {s \in Cameras :
                     /\ many(s) >= AtLeast(Cardinality(Rows(run, cam)), 3)
                     /\ Tight(borne(s), Ahead(run, cam, avail, s))}
        best == CHOOSE s \in shows :
                    \A t \in shows :
                        many(t) < many(s) \/ (many(t) = many(s) /\ t <= s)
    IN  IF shows = {} THEN NoOffset
        ELSE [series |-> best, off |-> Median(borne(best), Ahead(run, cam, avail, best))]

\* _offset_by_time(): how many files each offset lays over a row.
Count(run, rows, avail, k) ==
    Cardinality({f \in avail : /\ Series(f) = k.series
                               /\ \E i \in rows : Exif(f) - ShotAt(run, i) = k.off})
Alignments(run, rows, avail) ==
    {k \in {[series |-> Series(f), off |-> Exif(f) - ShotAt(run, i)] :
                f \in avail, i \in rows} :
        Count(run, rows, avail, k) >= AtLeast(Cardinality(rows), 2)}

\* A series is taken when its directory, the journal or elimination says so.
MutantTakesAny(several, near, authoritative, soleOk) == TRUE
Attributed(several, near, authoritative, soleOk) ==
    /\ several => authoritative
    /\ authoritative \/ near \/ soleOk

ByTime(run, cam, avail, waiting) ==
    LET rows == Rows(run, cam)
        soleOk == waiting = {}         \* the others have their series
        known == cam \in scene.journal
        expect == Clock(cam) + JournalError
        all == Alignments(run, rows, avail)
        near == {k \in all : known /\ OffBy(k.off, expect) <= JournalReach}
        cands == IF near # {} THEN near ELSE all
        n(k) == Count(run, rows, avail, k)
        top == Max({n(k) : k \in cands})
        best == {k \in cands : n(k) = top}
        close == {k \in cands : 10 * n(k) >= 8 * top}
        tie == \E j, k \in best : /\ j.series = k.series
                                  /\ OffBy(j.off, k.off) >= 2
    IN  IF all = {} THEN NoOffset
        ELSE IF ~Attributed(Cardinality({k.series : k \in cands}) > 1,
                            near # {}, DirCamera = cam, soleOk)
        THEN NoOffset
        ELSE IF known
        THEN CHOOSE k \in close :
                \A j \in close : OffBy(k.off, expect) <= OffBy(j.off, expect)
        ELSE IF tie THEN NoOffset
        ELSE CHOOSE k \in best : TRUE

-----------------------------------------------------------------------------
(***************************************************************************)
(* ingest()                                                                *)
(***************************************************************************)
\* match_run(), with the offset of one of them: each row to the file nearest to
\* it, within the tolerance.  That is under half a period, so no two rows can
\* want one file and their order does not matter.
Beside(run, i, k, f) == OffBy(Exif(f) - k.off, ShotAt(run, i))
Fits(run, i, k) ==
    {f \in Cards \ used : Series(f) = k.series /\ Beside(run, i, k, f) <= RunTol}
NearestFile(run, i, k) ==
    CHOOSE f \in Fits(run, i, k) :
        \A g \in Fits(run, i, k) : Beside(run, i, k, f) <= Beside(run, i, k, g)
RowMatches(run, cam, k) ==
    {[run |-> run, cam |-> cam, shot |-> i, card |-> NearestFile(run, i, k)] :
        i \in {j \in Rows(run, cam) : Fits(run, j, k) # {}}}

Take(run, cam, k) ==
    LET found == IF k = NoOffset THEN {} ELSE RowMatches(run, cam, k) IN
    /\ series' = [series EXCEPT ![<<run, cam>>] = k.series]
    /\ matches' = matches \cup found
    /\ used' = used \cup {m.card : m \in found}

NotHere(cam) == DirCamera # 0 /\ cam # DirCamera

\* Every camera first by number: certain matches before any by time.
NumberPass(run, cam) ==
    /\ todo # <<>> /\ Head(todo) = <<run, "number", cam>>
    /\ todo' = Tail(todo)
    /\ Take(run, cam, IF NotHere(cam) THEN NoOffset
                      ELSE ByNumber(run, cam, Cards \ used))
    /\ UNCHANGED scene

TimePass(run, cam) ==
    LET waiting == {c \in Cameras \ {cam} : series[<<run, c>>] = 0} IN
    /\ todo # <<>> /\ Head(todo) = <<run, "time", cam>>
    /\ todo' = Tail(todo)
    /\ IF NotHere(cam) \/ series[<<run, cam>>] # 0
       THEN UNCHANGED <<used, series, matches>>
       ELSE Take(run, cam, ByTime(run, cam, Cards \ used, waiting))
    /\ UNCHANGED scene

MatchNext == \E run \in {1, 2}, cam \in Cameras :
                NumberPass(run, cam) \/ TimePass(run, cam)

MatchSpec == MatchInit /\ [][MatchNext]_matchVars

-----------------------------------------------------------------------------
(***************************************************************************)
(* Properties.                                                             *)
(***************************************************************************)
Own(m) == m.card.body = m.cam
Same(m) == Own(m) /\ m.card.run = m.run /\ m.card.shot = m.shot

\* The rows whose number is on a file of another exposure; a camera is spared
\* a wrong match by number when they are less than half of what one takes.
Misnumbered(run, cam) ==
    {i \in Rows(run, cam) : \E f \in Cards :
        /\ Number(f) = NumberOfRow(run, cam, i)
        /\ f # [body |-> cam, run |-> run, shot |-> i]}
NumbersAreRight ==
    \A run \in 1..scene.runs, cam \in Cameras :
        2 * Cardinality(Misnumbered(run, cam)) < AtLeast(Cardinality(Rows(run, cam)), 3)

\* The two clocks differ by more than everything on the card lasts.
ClocksApart ==
    OffBy(Clock(1), Clock(2)) > 2 * Period * (NRows + 5) + JournalReach + JournalError

\* The bodies can be told apart: one of them only, each its own names, or the
\* journal of both and clocks far enough apart.
BodiesAreTold ==
    \/ scene.dir # "both"
    \/ scene.setup.prefix[1] # scene.setup.prefix[2]
    \/ scene.journal = Cameras /\ ClocksApart

\* With the body's offset in the journal, or when nothing but this run is on
\* the card, one lost row, missing file or extra file never shifts the run: a
\* file that is matched is the very exposure of its row (_offset_by_time).
FramesKeepTheirRow ==
    \A m \in matches :
        /\ m.cam \in scene.journal \/ scene.runs = 1
        /\ Cardinality(scene.flaws) <= 1 /\ NumbersAreRight /\ BodiesAreTold
        => Same(m)

\* What attributes a camera's files: its numbers, all right and on no other
\* exposure; the journal, when no other body's clock agrees with it; or a
\* directory of its own.
Numbered(cam) ==
    \A run \in 1..scene.runs, i \in 1..NRows :
        /\ Number([body |-> cam, run |-> run, shot |-> i]) = NumberOfRow(run, cam, i)
        /\ i \notin Misnumbered(run, cam)
Journalled(cam) == cam \in scene.journal /\ (DirCamera = cam \/ ClocksApart)
Clear(cam) ==
    /\ cam \in Bodies(scene.dir)
    /\ Numbered(cam) \/ Journalled(cam) \/ (DirCamera = cam /\ scene.runs = 1)

\* A card without flaws, attributed, is matched whole: the refusals refuse
\* nothing that is clear.
ClearCardIsMatched ==
    todo = <<>> /\ scene.flaws = {} /\ NumbersAreRight /\ BodiesAreTold =>
        \A run \in 1..scene.runs, cam \in Cameras :
            Clear(cam) =>
                \A i \in 1..NRows :
                    \E m \in matches : m.run = run /\ m.cam = cam /\ m.shot = i

CardsAreAttributed == FramesKeepTheirRow /\ ClearCardIsMatched

\* As the module comment of ingest.py and _offset_by_time() have it: with
\* neither a directory nor the journal nor elimination a camera is refused
\* rather than given the other body's files; the series left over is not one
\* that a camera of the run has.
NoBodySwap == \A m \in matches : Own(m)
=============================================================================
