----------------------------- MODULE CardPlace -----------------------------
(***************************************************************************)
(* How a matched card file gets its run's name, and how SHA256SUMS keeps   *)
(* the hash it had then (rig/ingest.py: place, RunHasher, write_run_sums). *)
(*                                                                         *)
(* An ingest links the file on the same volume and copies it across two;   *)
(* with --move it then removes the source.  A name already taken by other  *)
(* bytes is a conflict, and the file is parked beside it.  A run may be    *)
(* ingested again, re-matched, and killed anywhere; bytes may change on    *)
(* disk afterwards, and the record is there to show it.                    *)
(***************************************************************************)
EXTENDS Integers, Sequences, FiniteSets, SequencesExt

CONSTANTS
    Sources,        \* card files that are, or were once, matched to one row
    MaxPasses,      \* bound: ingests
    MaxRots,        \* bound: bytes that change on disk
    MaxTears        \* bound: copies that come out wrong

ASSUME CardPlaceAssumption == {MaxPasses, MaxRots, MaxTears} \subseteq Nat

VARIABLES
    staged,     \* source -> its bytes in the staging directory
    placed,     \* path in the run -> bytes: the run's name, the parked ones
    oneFile,    \* sources that share the inode of the run's name
    recorded,   \* SHA256SUMS: path -> hash
    pass,       \* the ingest at work
    doomed,     \* history: bytes that were changed on disk
    changed,    \* history: paths whose bytes changed since they were recorded
    spent       \* the bounds used up

placeVars == <<staged, placed, oneFile, recorded, pass, doomed, changed, spent>>

Nothing == <<>>
Bytes(s) == <<s, 0>>
Torn == <<"torn", 0>>

Name == <<"run", 0>>                   \* <base>.ARW
Parked(b) == <<"conflict", b>>         \* <base>.conflict-<sha8>.ARW
Paths == {Name} \cup DOMAIN placed
At(path) == IF path \in DOMAIN placed THEN placed[path] ELSE Nothing
Recorded(path) == IF path \in DOMAIN recorded THEN recorded[path] ELSE Nothing
With(f, path, b) == [p \in DOMAIN f \cup {path} |-> IF p = path THEN b ELSE f[p]]

NoPass == [at |-> "idle", src |-> "none", move |-> FALSE, fresh |-> FALSE]

PlaceInit ==
    /\ staged = [s \in Sources |-> Bytes(s)]
    /\ placed = <<>> /\ oneFile = {}
    /\ recorded = <<>>
    /\ pass = NoPass
    /\ doomed = {} /\ changed = {}
    /\ spent = [passes |-> 0, rots |-> 0, tears |-> 0]

-----------------------------------------------------------------------------
(***************************************************************************)
(* place()                                                                 *)
(***************************************************************************)
\* A row's match: staging may hold either source.
Begin(s, move) ==
    /\ pass = NoPass /\ spent.passes < MaxPasses
    /\ staged[s] # Nothing
    /\ pass' = [NoPass EXCEPT !.at = "place", !.src = s, !.move = move]
    /\ spent' = [spent EXCEPT !.passes = @ + 1]
    /\ UNCHANGED <<staged, placed, oneFile, recorded, doomed, changed>>

Src == pass.src
Moves == [pass EXCEPT !.at = IF pass.move THEN "unlink" ELSE "hash"]
Freshly == [Moves EXCEPT !.fresh = TRUE]

\* The same file, or the same bytes; a size would not tell two RAWs apart.
MutantBySize(s) == At(Name) # Nothing
SameAs(s) == s \in oneFile \/ At(Name) = staged[s]

Exists ==
    /\ pass.at = "place" /\ At(Name) # Nothing /\ SameAs(Src)
    /\ pass' = Moves
    /\ UNCHANGED <<staged, placed, oneFile, recorded, doomed, changed, spent>>

\* Neither is verified against the other: the source stays, under --move too.
Conflicts ==
    /\ pass.at = "place" /\ At(Name) # Nothing /\ ~SameAs(Src)
    /\ LET alt == Parked(staged[Src]) IN
       placed' = IF At(alt) = Nothing THEN With(placed, alt, staged[Src])
                 ELSE placed
    /\ pass' = [pass EXCEPT !.at = "hash"]
    /\ UNCHANGED <<staged, oneFile, recorded, doomed, changed, spent>>

Links ==
    /\ pass.at = "place" /\ At(Name) = Nothing
    /\ placed' = With(placed, Name, staged[Src])
    /\ oneFile' = {Src}
    /\ pass' = Freshly
    /\ UNCHANGED <<staged, recorded, doomed, changed, spent>>

\* Across volumes, by way of a .part that a kill leaves behind; compared byte
\* by byte when a removal is to follow, and given up when it differs.
Copies(b) ==
    /\ pass.at = "place" /\ At(Name) = Nothing
    /\ b = staged[Src] \/ b = Torn
    /\ b = Torn => spent.tears < MaxTears
    /\ spent' = [spent EXCEPT !.tears = IF b = Torn THEN @ + 1 ELSE @]
    /\ IF pass.move /\ b # staged[Src]
       THEN pass' = NoPass /\ UNCHANGED <<placed, oneFile>>
       ELSE /\ placed' = With(placed, Name, b)
            /\ oneFile' = {}
            /\ pass' = Freshly
    /\ UNCHANGED <<staged, recorded, doomed, changed>>

Unlinks ==
    /\ pass.at = "unlink"
    /\ staged' = [staged EXCEPT ![Src] = Nothing]
    /\ oneFile' = oneFile \ {Src}
    /\ pass' = [pass EXCEPT !.at = "hash"]
    /\ UNCHANGED <<placed, recorded, doomed, changed, spent>>

-----------------------------------------------------------------------------
(***************************************************************************)
(* RunHasher and write_run_sums().                                         *)
(***************************************************************************)
\* run_sum_files(): every frame that is there, the parked ones too.
SumFiles == {p \in DOMAIN placed : At(p) # Nothing}

\* What SHA256SUMS lists keeps its hash, unless the bytes were just written;
\* what is gone stays listed.
Hash(path) == IF Recorded(path) # Nothing /\ ~(pass.fresh /\ path = Name)
              THEN Recorded(path) ELSE At(path)

WriteSums ==
    /\ pass.at = "hash"
    /\ recorded' = [p \in SumFiles \cup DOMAIN recorded |->
                      IF p \in SumFiles THEN Hash(p) ELSE Recorded(p)]
    /\ changed' = IF pass.fresh THEN changed \ {Name} ELSE changed
    /\ pass' = NoPass
    /\ UNCHANGED <<staged, placed, oneFile, doomed, spent>>

\* Killed, before whatever it would have done next.
Killed ==
    /\ pass # NoPass
    /\ pass' = NoPass
    /\ UNCHANGED <<staged, placed, oneFile, recorded, doomed, changed, spent>>

-----------------------------------------------------------------------------
(***************************************************************************)
(* Bytes change on disk, a linked file's at both its names; the operator   *)
(* deletes a frame.                                                        *)
(***************************************************************************)
Rotten(b) == <<b[1], spent.rots + 1>>      \* other bytes than ever before
Rot(path) ==
    /\ At(path) # Nothing /\ spent.rots < MaxRots
    /\ spent' = [spent EXCEPT !.rots = @ + 1]
    /\ placed' = [placed EXCEPT ![path] = Rotten(@)]
    /\ staged' = [s \in Sources |->
                    IF path = Name /\ s \in oneFile THEN Rotten(staged[s])
                    ELSE staged[s]]
    /\ doomed' = doomed \cup {placed[path]}
    /\ changed' = IF Recorded(path) # Nothing THEN changed \cup {path}
                  ELSE changed
    /\ UNCHANGED <<oneFile, recorded, pass>>

Deleted ==
    /\ pass = NoPass /\ At(Name) # Nothing /\ spent.rots < MaxRots
    /\ spent' = [spent EXCEPT !.rots = @ + 1]
    /\ doomed' = doomed \cup {placed[Name]}
    /\ placed' = [placed EXCEPT ![Name] = Nothing]
    /\ oneFile' = {} /\ changed' = changed \ {Name}
    /\ UNCHANGED <<staged, recorded, pass>>

PlaceNext ==
    \/ \E s \in Sources, move \in BOOLEAN : Begin(s, move)
    \/ Exists \/ Conflicts \/ Links \/ Unlinks \/ WriteSums \/ Killed
    \/ \E b \in {Torn} \cup {staged[s] : s \in Sources} : Copies(b)
    \/ \E path \in Paths : Rot(path)
    \/ Deleted

PlaceSpec == PlaceInit /\ [][PlaceNext]_placeVars

-----------------------------------------------------------------------------
(***************************************************************************)
(* Properties.                                                             *)
(***************************************************************************)
Somewhere(b) ==
    (\E s \in Sources : staged[s] = b) \/ (\E p \in DOMAIN placed : placed[p] = b)

\* Whatever is linked, copied, moved, parked, killed and done again, the bytes
\* of every card file are still somewhere, unless they were changed or deleted
\* on disk (place, the --move promise of the module comment).
NoBytesLost == \A s \in Sources : Bytes(s) \in doomed \/ Somewhere(Bytes(s))

\* A file that changed after it was recorded does not match its record, however
\* often the run is ingested again (RunHasher: never re-blessed).
SumsCatchChanges ==
    \A p \in changed : At(p) # Nothing => At(p) # Recorded(p)

PlacementIsSafe == NoBytesLost /\ SumsCatchChanges
=============================================================================
