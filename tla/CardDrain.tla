------------------------------ MODULE CardDrain ------------------------------
(***************************************************************************)
(* The card drain of one camera (rig/drain.py, class Drainer): between     *)
(* runs the card's contents are pulled to the host, verified, made         *)
(* durable, recorded in SHA256SUMS and only then deleted from the card.    *)
(* The process may be killed and the host may lose power between any two   *)
(* steps; the bodies reuse file names, and, once contents are gone,        *)
(* content ids.                                                            *)
(*                                                                         *)
(* A content is one shot: its RAW and its card JPEG.  The bytes of a file  *)
(* are the content they belong to, so a hash match is equality; a file on  *)
(* the host is found under its card name, a suffix and its kind.           *)
(***************************************************************************)
EXTENDS Integers, FiniteSets

CONSTANTS
    Contents,       \* shots the body takes, in the order of their content ids
    Kinds,          \* files of one content, {"raw", "jpg"}
    NameOf,         \* per content: the card name its files share
    CidOf,          \* per content: its contentId, reused once it is free
    TornAppends,    \* TRUE: a failing append may leave part of a line behind
    MaxMishaps,     \* transfers, writes, syncs and answers that go wrong
    MaxCrashes      \* kills and power losses

NoContent == 0

ASSUME DrainAssumption ==
    /\ Contents \subseteq Nat \ {NoContent}
    /\ Kinds # {} /\ IsFiniteSet(Kinds)
    /\ DOMAIN NameOf = Contents /\ CidOf \in [Contents -> Nat]
    /\ TornAppends \in BOOLEAN /\ MaxMishaps \in Nat /\ MaxCrashes \in Nat

VARIABLES
    mode,       \* the body's control mode, "remote" or "transfer"
    shot,       \* contents taken so far
    card,       \* contents on the card
    onHost,     \* per host file: the content whose bytes it shows, or NoContent
    disk,       \* the same, as a power loss would leave it
    sums,       \* per host file: the content its readable hash is of
    torn,       \* SHA256SUMS ends in part of a line
    memo,       \* self._sums: what the drain takes SHA256SUMS to hold
    queue,      \* `wanted`: contents still to drain
    keep,       \* keep_card
    cancelled,  \* the cancel event
    cur,        \* the content being drained
    left,       \* its files not yet pulled
    staged,     \* its files pulled, verified and fsynced under a .part name
    landed,     \* its files renamed to their final names
    suffix,     \* the suffix its final names take
    all_ok,     \* nothing of it has failed
    pc,         \* where Drainer.run() is
    faults, crashes

camVars  == <<mode, shot, card>>
diskVars == <<onHost, disk, sums, torn>>
jobVars  == <<cur, left, staged, landed, suffix, all_ok>>
runVars  == <<memo, queue, keep, cancelled>>
cardVars == <<camVars, diskVars, jobVars, runVars, pc, faults, crashes>>

-----------------------------------------------------------------------------
Plain == <<"plain">>
ByCid(c) == <<"cid", CidOf[c]>>
ByHash(c, x) == <<"hash", c, x>>    \* -c<id>-<sha of the clashing file>
HostSuffixes == {Plain} \union {ByCid(c) : c \in Contents}
                    \union {ByHash(c, x) : c \in Contents, x \in Kinds}
Key(c, s, x) == <<NameOf[c], s, x>>
Keys == {Key(c, s, x) : c \in Contents, s \in HostSuffixes, x \in Kinds}

\* A host file of that name holds other bytes than this content's.
Clashes(s) == {x \in staged : onHost[Key(cur, s, x)] \notin {NoContent, cur}}

\* A seeded fault of FinalSuffix.
MutantOverwrites(s) == s = Plain

\* Never overwrite a verified host file; every file of the content takes the
\* same suffix.
FinalSuffix(s) ==
    \/ s = Plain /\ Clashes(Plain) = {}
    \/ s = ByCid(cur) /\ Clashes(Plain) # {} /\ Clashes(ByCid(cur)) = {}
    \/ /\ Clashes(Plain) # {} /\ Clashes(ByCid(cur)) # {}
       /\ \E x \in Clashes(ByCid(cur)) : s = ByHash(cur, x)

CurKey(x) == Key(cur, suffix, x)

Fault == faults < MaxMishaps /\ faults' = faults + 1

-----------------------------------------------------------------------------
(***************************************************************************)
(* The body.                                                               *)
(***************************************************************************)
Shoot(c) ==
    /\ mode = "remote" /\ pc = "idle" /\ c \notin shot
    /\ \A b \in Contents : b < c => b \in shot
    /\ \A b \in card : CidOf[b] # CidOf[c]
    /\ shot' = shot \union {c} /\ card' = card \union {c}
    /\ UNCHANGED <<mode, diskVars, jobVars, runVars, pc, faults, crashes>>

\* rigd's monitor puts a body it finds in transfer mode back to remote.
Recover ==
    /\ mode = "transfer" /\ pc = "idle"
    /\ mode' = "remote"
    /\ UNCHANGED <<shot, card, diskVars, jobVars, runVars, pc, faults, crashes>>

-----------------------------------------------------------------------------
(***************************************************************************)
(* Drainer.run().                                                          *)
(***************************************************************************)
Enter ==
    /\ pc = "idle" /\ mode = "remote"
    /\ mode' = "transfer"
    /\ keep' \in BOOLEAN
    /\ memo' = sums
    /\ queue' = {} /\ cancelled' = FALSE
    /\ pc' = "list"
    /\ UNCHANGED <<shot, card, diskVars, jobVars, faults, crashes>>

\* The index came up and the card was listed; a content without a RAW is
\* left alone, and every content here holds one.
ListCard ==
    /\ pc = "list"
    /\ queue' = card
    /\ pc' = "next"
    /\ UNCHANGED <<camVars, diskVars, jobVars, memo, keep, cancelled, faults,
                   crashes>>

\* Neither attempt got the card listed, or the body refused transfer mode.
ListFails ==
    /\ pc = "list" /\ Fault
    /\ mode' \in {"transfer", "remote"}
    /\ pc' = "restore"
    /\ UNCHANGED <<shot, card, diskVars, jobVars, runVars, crashes>>

Cancel ==
    /\ pc # "idle" /\ ~cancelled
    /\ cancelled' = TRUE
    /\ UNCHANGED <<camVars, diskVars, jobVars, memo, queue, keep, pc, faults,
                   crashes>>

\* The next content in contentId order; only here, between two contents, are
\* a cancel and a full host disk heeded.
NextContent ==
    /\ pc = "next" /\ ~cancelled
    /\ cur' \in {c \in queue : \A b \in queue : CidOf[c] <= CidOf[b]}
    /\ queue' = queue \ {cur'}
    /\ left' = Kinds /\ staged' = {} /\ landed' = {}
    /\ suffix' = Plain /\ all_ok' = TRUE
    /\ pc' = "pull"
    /\ UNCHANGED <<camVars, diskVars, memo, keep, cancelled, faults, crashes>>

DrainOver ==
    /\ pc = "next"
    /\ \/ (queue = {} \/ cancelled) /\ UNCHANGED faults
       \/ queue # {} /\ ~cancelled /\ Fault      \* host disk below disk_min_mb
    /\ pc' = "restore"
    /\ UNCHANGED <<camVars, diskVars, jobVars, runVars, crashes>>

-----------------------------------------------------------------------------
(***************************************************************************)
(* _drain_content(): once started, a content runs to its end.              *)
(***************************************************************************)
\* Pulled, fetched, its hash and size equal to the Pi's, written and fsynced.
PullFile(x) ==
    /\ pc = "pull" /\ x \in left
    /\ left' = left \ {x} /\ staged' = staged \union {x}
    /\ UNCHANGED <<camVars, diskVars, cur, landed, suffix, all_ok, runVars, pc,
                   faults, crashes>>

PullFails(x) ==
    /\ pc = "pull" /\ x \in left /\ Fault
    /\ left' = left \ {x} /\ all_ok' = FALSE
    /\ UNCHANGED <<camVars, diskVars, cur, staged, landed, suffix, runVars, pc,
                   crashes>>

ChooseNames ==
    /\ pc = "pull" /\ left = {}
    /\ IF staged = {} THEN pc' = "next" /\ UNCHANGED suffix
       ELSE /\ \E s \in HostSuffixes : FinalSuffix(s) /\ suffix' = s
            /\ pc' = "land"
    /\ UNCHANGED <<camVars, diskVars, cur, left, staged, landed, all_ok,
                   runVars, faults, crashes>>

\* os.replace() to the final name, then the Pi's staging copy is freed; an
\* answer that never comes there ends the drain.
LandFile(x) ==
    /\ pc = "land" /\ x \in staged \ landed
    /\ onHost' = [onHost EXCEPT ![CurKey(x)] = cur]
    /\ landed' = landed \union {x}
    /\ \/ UNCHANGED <<pc, faults>>
       \/ Fault /\ pc' = "restore"
    /\ UNCHANGED <<camVars, disk, sums, torn, cur, left, staged, suffix, all_ok,
                   runVars, crashes>>

LandFails(x) ==
    /\ pc = "land" /\ x \in staged \ landed /\ Fault
    /\ staged' = staged \ {x} /\ all_ok' = FALSE
    /\ UNCHANGED <<camVars, diskVars, cur, left, landed, suffix, runVars, pc,
                   crashes>>

\* A seeded fault of SyncDir.
MutantNoSync ==
    /\ pc = "land" /\ staged \subseteq landed
    /\ pc' = "record"
    /\ UNCHANGED <<camVars, diskVars, jobVars, runVars, faults, crashes>>

\* fsync of the directory makes every rename in it durable.
SyncDir ==
    /\ pc = "land" /\ staged \subseteq landed
    /\ \/ /\ disk' = IF landed = {} THEN disk ELSE onHost
          /\ UNCHANGED <<all_ok, faults>>
       \/ landed # {} /\ Fault /\ all_ok' = FALSE /\ UNCHANGED disk
    /\ pc' = "record"
    /\ UNCHANGED <<camVars, onHost, sums, torn, cur, left, staged, landed, suffix,
                   runVars, crashes>>

\* The records of files that SHA256SUMS is not known to hold already.
Unrecorded == {x \in landed : memo[CurKey(x)] # cur}

\* The record of those files, in `records`, added to `to`.
With(to, records) ==
    [k \in Keys |-> IF \E x \in records : k = CurKey(x) THEN cur ELSE to[k]]

AfterRecord(ok) == IF ok THEN "delete" ELSE "next"

\* A seeded fault of Record.
MutantRecordAfterDelete ==
    /\ pc = "record"
    /\ pc' = AfterRecord(all_ok)
    /\ UNCHANGED <<camVars, diskVars, jobVars, runVars, faults, crashes>>

\* append_sums(): one line per file.  A line that is appended to part of a
\* line is read back as no record at all.
Record ==
    /\ pc = "record"
    /\ IF Unrecorded = {} THEN UNCHANGED <<sums, torn>>
       ELSE /\ \E garbled \in SUBSET Unrecorded :
                  /\ Cardinality(garbled) = IF torn THEN 1 ELSE 0
                  /\ sums' = With(sums, Unrecorded \ garbled)
            /\ torn' = FALSE
    /\ memo' = With(memo, Unrecorded)
    /\ pc' = AfterRecord(all_ok)
    /\ UNCHANGED <<camVars, onHost, disk, jobVars, queue, keep, cancelled, faults,
                   crashes>>

\* The append raised: nothing was written, or some lines and part of one.
RecordFails ==
    /\ pc = "record" /\ Unrecorded # {} /\ Fault
    /\ \/ UNCHANGED <<sums, torn>>
       \/ /\ TornAppends
          /\ \E whole \in SUBSET Unrecorded :
                /\ whole # Unrecorded /\ (torn => whole = {})
                /\ sums' = With(sums, whole)
          /\ torn' = TRUE
    /\ all_ok' = FALSE
    /\ pc' = AfterRecord(FALSE)
    /\ UNCHANGED <<camVars, onHost, disk, cur, left, staged, landed, suffix,
                   runVars, crashes>>

\* The card delete: done, refused, or its answer lost, which ends the drain.
DeleteContent ==
    /\ pc = "delete" /\ ~keep
    /\ \/ card' = card \ {cur} /\ pc' = "next" /\ UNCHANGED faults
       \/ Fault /\ UNCHANGED card /\ pc' \in {"next", "restore"}
       \/ Fault /\ card' = card \ {cur} /\ pc' = "restore"
    /\ UNCHANGED <<mode, shot, diskVars, jobVars, runVars, crashes>>

KeepContent ==
    /\ pc = "delete" /\ keep
    /\ pc' = "next"
    /\ UNCHANGED <<camVars, diskVars, jobVars, runVars, faults, crashes>>

\* The `finally` of run(): the body goes back to remote mode, if it answers.
Restore ==
    /\ pc = "restore"
    /\ \/ mode' = "remote" /\ UNCHANGED faults
       \/ Fault /\ UNCHANGED mode
    /\ pc' = "idle"
    /\ UNCHANGED <<shot, card, diskVars, jobVars, runVars, crashes>>

-----------------------------------------------------------------------------
Crash == crashes < MaxCrashes /\ crashes' = crashes + 1 /\ pc' = "idle"

Kill ==
    /\ pc # "idle" /\ Crash
    /\ UNCHANGED <<camVars, diskVars, jobVars, runVars, faults>>

\* Renames that were not made durable may be lost, each for itself.
PowerLoss ==
    /\ Crash
    /\ \E lost \in SUBSET {k \in Keys : onHost[k] # disk[k]} :
          onHost' = [k \in Keys |-> IF k \in lost THEN disk[k] ELSE onHost[k]]
    /\ disk' = onHost'
    /\ UNCHANGED <<camVars, sums, torn, jobVars, runVars, faults>>

CardInit ==
    /\ mode = "remote" /\ shot = {} /\ card = {}
    /\ onHost = [k \in Keys |-> NoContent]
    /\ disk = [k \in Keys |-> NoContent]
    /\ sums = [k \in Keys |-> NoContent] /\ torn = FALSE
    /\ memo = [k \in Keys |-> NoContent]
    /\ queue = {} /\ keep = FALSE /\ cancelled = FALSE
    /\ cur = NoContent /\ left = {} /\ staged = {} /\ landed = {}
    /\ suffix = Plain /\ all_ok = FALSE
    /\ pc = "idle" /\ faults = 0 /\ crashes = 0

DrainNext ==
    \/ ListCard \/ ListFails \/ NextContent \/ DrainOver
    \/ \E x \in Kinds : \/ PullFile(x) \/ PullFails(x)
                        \/ LandFile(x) \/ LandFails(x)
    \/ ChooseNames \/ SyncDir \/ Record \/ RecordFails
    \/ DeleteContent \/ KeepContent \/ Restore

CardNext ==
    \/ \E c \in Contents : Shoot(c)
    \/ Recover \/ Enter \/ Cancel \/ DrainNext
    \/ Kill \/ PowerLoss

CardSpec == CardInit /\ [][CardNext]_cardVars

-----------------------------------------------------------------------------
(***************************************************************************)
(* Properties.                                                             *)
(***************************************************************************)
Held == Contents \union {NoContent}
Steps == {"idle", "list", "next", "pull", "land", "record", "delete", "restore"}

\* Every variable stays in its type (the locals of run() and
\* _drain_content()).
CardTypeOK ==
    /\ mode \in {"remote", "transfer"}
    /\ shot \in SUBSET Contents /\ card \in SUBSET shot
    /\ onHost \in [Keys -> Held] /\ disk \in [Keys -> Held]
    /\ sums \in [Keys -> Held] /\ memo \in [Keys -> Held]
    /\ torn \in BOOLEAN /\ keep \in BOOLEAN /\ cancelled \in BOOLEAN
    /\ all_ok \in BOOLEAN
    /\ queue \in SUBSET Contents /\ cur \in Held
    /\ left \in SUBSET Kinds /\ staged \in SUBSET Kinds
    /\ landed \in SUBSET Kinds
    /\ suffix \in HostSuffixes /\ pc \in Steps
    /\ faults \in Nat /\ crashes \in Nat

\* A content that is gone from the card is on the host, whole, in files that
\* pair up under one stem, and a power loss leaves every one of them there:
\* through retries, cancels, kills and reused names no original is deleted
\* early (_drain_content).
WholeOnDisk(c) ==
    \E s \in HostSuffixes : \A x \in Kinds : disk[Key(c, s, x)] = c
DeletedOnlyWhenSafe == \A c \in shot \ card : WholeOnDisk(c)

\* Every host copy whose original is gone has its hash in SHA256SUMS, where
\* --verify-sums can read it.
Recorded(c) ==
    \E s \in HostSuffixes : \A x \in Kinds : /\ disk[Key(c, s, x)] = c
                                             /\ sums[Key(c, s, x)] = c
HashOnRecord == \A c \in shot \ card : Recorded(c)

\* A verified host file is never replaced by other bytes, whatever names and
\* content ids the bodies reuse.
DurableFilesStay ==
    [][\A k \in Keys : disk[k] # NoContent => disk'[k] = disk[k]]_cardVars
=============================================================================
