--------------------------- MODULE CardDrainProofs ---------------------------
(***************************************************************************)
(* No original is deleted before its copy is durable, no durable file is   *)
(* replaced, and, where an append is all or nothing, every copy whose      *)
(* original is gone has its hash on record: for any contents, any reuse of *)
(* names and content ids, any number of faults, kills and power losses.    *)
(***************************************************************************)
EXTENDS CardDrain, TLAPS, FiniteSetTheorems

-----------------------------------------------------------------------------
(***************************************************************************)
(* The inductive invariant, in parts.                                      *)
(***************************************************************************)
\* A name that carries the hash of a content's file carries its id as well:
\* no other content is ever written there.
HashNames ==
    \A c, d \in Contents : \A x, y \in Kinds :
        onHost[Key(c, ByHash(d, y), x)] \in {NoContent, d}

\* What a power loss leaves is what the host shows.
DurableShown == \A k \in Keys : disk[k] # NoContent => onHost[k] = disk[k]

OwnSuffix == \/ suffix = Plain \/ suffix = ByCid(cur)
             \/ \E y \in Kinds : suffix = ByHash(cur, y)

Landed == \A x \in landed : onHost[CurKey(x)] = cur

PullInv ==
    pc = "pull" => /\ cur \in Contents /\ landed = {}
                   /\ all_ok => left \union staged = Kinds

LandInv ==
    pc = "land" => /\ cur \in Contents /\ OwnSuffix /\ Landed
                   /\ \A x \in staged : onHost[CurKey(x)] \in {NoContent, cur}
                   /\ landed \subseteq staged
                   /\ all_ok => staged = Kinds

RecordInv ==
    pc \in {"record", "delete"} =>
        /\ cur \in Contents /\ Landed
        /\ all_ok => landed = Kinds /\ \A x \in Kinds : disk[CurKey(x)] = cur

DeleteInv == pc = "delete" => all_ok

DrainInv ==
    /\ HashNames /\ DurableShown
    /\ PullInv /\ LandInv /\ RecordInv /\ DeleteInv
    /\ DeletedOnlyWhenSafe

\* What the drain takes SHA256SUMS to hold is there.
LedgerInv ==
    /\ torn = FALSE
    /\ \A k \in Keys : memo[k] # NoContent => sums[k] = memo[k]
    /\ pc = "delete" => \A x \in Kinds : sums[CurKey(x)] = cur
    /\ HashOnRecord

-----------------------------------------------------------------------------
(***************************************************************************)
(* The names of the host's files.                                          *)
(***************************************************************************)
\* A suffix made of a hash is told from the others and names its content.
LEMMA SuffixesApart ==
  ASSUME NEW c \in Contents, NEW d \in Contents, NEW x \in Kinds,
         NEW y \in Kinds
  PROVE  /\ Plain # ByHash(d, y) /\ ByCid(c) # ByHash(d, y)
         /\ ByHash(c, x) = ByHash(d, y) => c = d
BY SMT DEF Plain, ByCid, ByHash

\* A file of a content, under one of the suffixes, is a host file.
LEMMA KeyTyped ==
  ASSUME NEW c \in Contents, NEW s \in HostSuffixes, NEW x \in Kinds
  PROVE  Key(c, s, x) \in Keys
BY DEF Keys

LEMMA HashKeyTyped ==
  ASSUME NEW c \in Contents, NEW d \in Contents, NEW x \in Kinds,
         NEW y \in Kinds
  PROVE  Key(c, ByHash(d, y), x) \in Keys
BY KeyTyped DEF HostSuffixes

\* Two host files are one only if their suffixes are.
LEMMA KeyDetermines ==
  ASSUME NEW c, NEW d, NEW s, NEW t, NEW x, NEW y, Key(c, s, x) = Key(d, t, y)
  PROVE  s = t
BY SMT DEF Key

-----------------------------------------------------------------------------
(***************************************************************************)
(* Types.                                                                  *)
(***************************************************************************)
\* Every step keeps every variable in its type.
LEMMA DrainTypeStep ==
  ASSUME CardTypeOK, PullInv, LandInv, RecordInv, [CardNext]_cardVars
  PROVE  CardTypeOK'
<1> USE DrainAssumption
        DEF CardTypeOK, camVars, diskVars, jobVars, runVars, Held, Steps, Fault
<1>1. ASSUME NEW c \in Contents, Shoot(c) PROVE CardTypeOK'
  BY <1>1 DEF Shoot
<1>2. CASE Recover
  BY <1>2 DEF Recover
<1>3. CASE Enter
  BY <1>3 DEF Enter
<1>4. CASE Cancel
  BY <1>4 DEF Cancel
<1>5. CASE ListCard
  BY <1>5 DEF ListCard
<1>6. CASE ListFails
  BY <1>6 DEF ListFails
<1>7. CASE NextContent
  BY <1>7 DEF NextContent, HostSuffixes
<1>8. CASE DrainOver
  BY <1>8 DEF DrainOver
<1>9. ASSUME NEW x \in Kinds, PullFile(x) PROVE CardTypeOK'
  BY <1>9 DEF PullFile
<1>10. ASSUME NEW x \in Kinds, PullFails(x) PROVE CardTypeOK'
  <2>1. all_ok' \in BOOLEAN
    BY <1>10 DEF PullFails
  <2>2. left' \in SUBSET Kinds
    BY <1>10 DEF PullFails
  <2>3. /\ UNCHANGED <<camVars, diskVars, cur, staged, landed, suffix, runVars,
                       pc, crashes>>
        /\ faults' \in Nat
    BY <1>10 DEF PullFails
  <2> QED BY <2>1, <2>2, <2>3
<1>11. ASSUME NEW x \in Kinds, LandFile(x) PROVE CardTypeOK'
  <2>1. pc = "land" /\ cur \in Contents
    BY <1>11 DEF LandFile, LandInv
  <2>2. CurKey(x) \in Keys
    BY <2>1, KeyTyped DEF CurKey
  <2> QED BY <1>11, <2>1, <2>2 DEF LandFile
<1>12. ASSUME NEW x \in Kinds, LandFails(x) PROVE CardTypeOK'
  <2>1. all_ok' \in BOOLEAN
    BY <1>12 DEF LandFails
  <2>2. staged' \in SUBSET Kinds
    BY <1>12 DEF LandFails
  <2>3. /\ UNCHANGED <<camVars, diskVars, cur, left, landed, suffix, runVars,
                       pc, crashes>>
        /\ faults' \in Nat
    BY <1>12 DEF LandFails
  <2> QED BY <2>1, <2>2, <2>3
<1>13. CASE ChooseNames
  BY <1>13 DEF ChooseNames
<1>14. CASE SyncDir
  <2>1. all_ok' \in BOOLEAN
    BY <1>14 DEF SyncDir
  <2>2. disk' \in [Keys -> Held]
    BY <1>14 DEF SyncDir
  <2>3. /\ UNCHANGED <<camVars, onHost, sums, torn, cur, left, staged, landed,
                       suffix, runVars, crashes>>
        /\ pc' \in Steps /\ faults' \in Nat
    BY <1>14 DEF SyncDir
  <2> QED BY <2>1, <2>2, <2>3
<1>15. CASE Record
  <2>1. \A to \in [Keys -> Held] : \A r : With(to, r) \in [Keys -> Held]
    BY DEF With
  <2>2. torn' \in BOOLEAN
    BY <1>15 DEF Record
  <2>3. sums' \in [Keys -> Held] /\ memo' \in [Keys -> Held]
    <3>1. CASE Unrecorded = {}
      BY <1>15, <2>1, <3>1 DEF Record
    <3>2. CASE Unrecorded # {}
      <4>1. PICK g \in SUBSET Unrecorded : sums' = With(sums, Unrecorded \ g)
        BY <1>15, <3>2 DEF Record
      <4>2. memo' = With(memo, Unrecorded)
        BY <1>15 DEF Record
      <4>3. sums \in [Keys -> Held] /\ memo \in [Keys -> Held]
        OBVIOUS
      <4> QED BY <2>1, <4>1, <4>2, <4>3
    <3> QED BY <3>1, <3>2
  <2>4. pc' \in Steps
    BY <1>15 DEF Record, AfterRecord
  <2>5. UNCHANGED <<camVars, onHost, disk, jobVars, queue, keep, cancelled, faults,
                    crashes>>
    BY <1>15 DEF Record
  <2> QED BY <2>2, <2>3, <2>4, <2>5
<1>16. CASE RecordFails
  <2>1. \A to \in [Keys -> Held] : \A r : With(to, r) \in [Keys -> Held]
    BY DEF With
  <2>2. torn' \in BOOLEAN /\ all_ok' \in BOOLEAN
    BY <1>16 DEF RecordFails
  <2>3. sums' \in [Keys -> Held]
    BY <1>16, <2>1 DEF RecordFails
  <2>4. pc' \in Steps /\ faults' \in Nat
    BY <1>16 DEF RecordFails, AfterRecord
  <2>5. UNCHANGED <<camVars, onHost, disk, cur, left, staged, landed, suffix,
                    runVars, crashes>>
    BY <1>16 DEF RecordFails
  <2> QED BY <2>2, <2>3, <2>4, <2>5
<1>17. CASE DeleteContent
  <2>1. card' \in SUBSET shot
    BY <1>17 DEF DeleteContent
  <2>2. pc' \in Steps /\ faults' \in Nat
    BY <1>17 DEF DeleteContent
  <2>3. UNCHANGED <<mode, shot, diskVars, jobVars, runVars, crashes>>
    BY <1>17 DEF DeleteContent
  <2> QED BY <2>1, <2>2, <2>3
<1>18. CASE KeepContent
  BY <1>18 DEF KeepContent
<1>19. CASE Restore
  BY <1>19 DEF Restore
<1>20. CASE Kill
  BY <1>20 DEF Kill, Crash
<1>21. CASE PowerLoss
  BY <1>21 DEF PowerLoss, Crash
<1>22. CASE UNCHANGED cardVars
  BY <1>22 DEF cardVars
<1> QED
  BY <1>1, <1>2, <1>3, <1>4, <1>5, <1>6, <1>7, <1>8, <1>9, <1>10, <1>11,
     <1>12, <1>13, <1>14, <1>15, <1>16, <1>17, <1>18, <1>19, <1>20, <1>21,
     <1>22 DEF CardNext, DrainNext

-----------------------------------------------------------------------------
(***************************************************************************)
(* What a step does to the host's files.                                   *)
(***************************************************************************)
\* Only these steps touch a host file.
LEMMA FilesTouched ==
  ASSUME [CardNext]_cardVars
  PROVE  \/ \E x \in Kinds : LandFile(x)
         \/ SyncDir \/ PowerLoss
         \/ UNCHANGED <<onHost, disk>>
<1> USE DEF camVars, diskVars, jobVars, runVars
<1>1. CASE \E c \in Contents : Shoot(c)
  BY <1>1 DEF Shoot
<1>2. CASE Recover \/ Enter \/ Cancel
  BY <1>2 DEF Recover, Enter, Cancel
<1>3. CASE ListCard \/ ListFails \/ NextContent \/ DrainOver
  BY <1>3 DEF ListCard, ListFails, NextContent, DrainOver
<1>4. CASE \E x \in Kinds : PullFile(x) \/ PullFails(x) \/ LandFails(x)
  BY <1>4 DEF PullFile, PullFails, LandFails
<1>5. CASE ChooseNames \/ Record \/ RecordFails
  BY <1>5 DEF ChooseNames, Record, RecordFails
<1>6. CASE DeleteContent \/ KeepContent \/ Restore
  BY <1>6 DEF DeleteContent, KeepContent, Restore
<1>7. CASE Kill \/ UNCHANGED cardVars
  BY <1>7 DEF Kill, cardVars
<1> QED
  BY <1>1, <1>2, <1>3, <1>4, <1>5, <1>6, <1>7 DEF CardNext, DrainNext

\* A file lands on a name that is free or already shows the same bytes.
LEMMA LandKeeps ==
  ASSUME CardTypeOK, DrainInv, NEW x \in Kinds, LandFile(x)
  PROVE  /\ CurKey(x) \in Keys
         /\ onHost[CurKey(x)] \in {NoContent, cur}
         /\ onHost' = [onHost EXCEPT ![CurKey(x)] = cur]
         /\ disk' = disk
<1>1. pc = "land" /\ x \in staged /\ cur \in Contents
  BY DEF LandFile, DrainInv, LandInv
<1>2. CurKey(x) \in Keys
  BY <1>1, KeyTyped DEF CurKey, CardTypeOK
<1> QED BY <1>1, <1>2 DEF LandFile, DrainInv, LandInv, diskVars

\* A name made of a hash keeps showing its own content or nothing.
LEMMA HashNamesStep ==
  ASSUME CardTypeOK, DrainInv, [CardNext]_cardVars
  PROVE  HashNames'
<1>1. ASSUME NEW c \in Contents, NEW d \in Contents, NEW z \in Kinds,
             NEW y \in Kinds
      PROVE  onHost'[Key(c, ByHash(d, y), z)] \in {NoContent, d}
  <2> DEFINE k == Key(c, ByHash(d, y), z)
  <2>1. k \in Keys
    BY HashKeyTyped
  <2>2. onHost[k] \in {NoContent, d}
    BY DEF DrainInv, HashNames
  <2>3. ASSUME NEW x \in Kinds, LandFile(x) PROVE onHost'[k] \in {NoContent, d}
    <3>1. CASE k = CurKey(x)
      <4>1. suffix = ByHash(d, y)
        BY <3>1, KeyDetermines DEF CurKey
      <4>2. cur \in Contents /\ OwnSuffix
        BY <2>3 DEF LandFile, DrainInv, LandInv
      <4>3. cur = d
        BY <4>1, <4>2, SuffixesApart DEF OwnSuffix
      <4>4. onHost' = [onHost EXCEPT ![CurKey(x)] = cur]
        BY <2>3, LandKeeps
      <4> QED BY <2>1, <3>1, <4>3, <4>4 DEF CardTypeOK
    <3>2. CASE k # CurKey(x)
      <4>1. onHost' = [onHost EXCEPT ![CurKey(x)] = cur]
        BY <2>3, LandKeeps
      <4> HIDE DEF k
      <4> QED BY <2>1, <2>2, <3>2, <4>1 DEF CardTypeOK
    <3> QED BY <3>1, <3>2
  <2>4. CASE PowerLoss
    <3>1. onHost'[k] \in {onHost[k], disk[k]}
      <4> HIDE DEF k
      <4> QED BY <2>1, <2>4 DEF PowerLoss
    <3>2. disk[k] # NoContent => onHost[k] = disk[k]
      <4> HIDE DEF k
      <4> QED BY <2>1 DEF DrainInv, DurableShown
    <3> QED BY <2>2, <3>1, <3>2
  <2>5. CASE SyncDir \/ UNCHANGED <<onHost, disk>>
    BY <2>2, <2>5 DEF SyncDir
  <2> QED BY <2>3, <2>4, <2>5, FilesTouched
<1> QED BY <1>1 DEF HashNames

\* What is durable is shown, and stays.
LEMMA DurableStep ==
  ASSUME CardTypeOK, DrainInv, [CardNext]_cardVars
  PROVE  /\ DurableShown'
         /\ \A k \in Keys : disk[k] # NoContent => disk'[k] = disk[k]
<1>1. \A k \in Keys : disk[k] # NoContent => onHost[k] = disk[k]
  BY DEF DrainInv, DurableShown
<1>2. ASSUME NEW x \in Kinds, LandFile(x)
      PROVE  \A k \in Keys : /\ disk'[k] # NoContent => onHost'[k] = disk'[k]
                             /\ disk'[k] = disk[k]
  BY <1>1, <1>2, LandKeeps DEF CardTypeOK
<1>3. CASE SyncDir
  BY <1>1, <1>3 DEF SyncDir, DurableShown
<1>4. CASE PowerLoss
  <2>1. disk' = onHost'
    BY <1>4 DEF PowerLoss
  <2>2. \A k \in Keys : onHost'[k] \in {onHost[k], disk[k]}
    BY <1>4 DEF PowerLoss
  <2> QED BY <1>1, <2>1, <2>2 DEF DurableShown
<1>5. CASE UNCHANGED <<onHost, disk>>
  BY <1>1, <1>5 DEF DurableShown
<1> QED BY <1>2, <1>3, <1>4, <1>5, FilesTouched DEF DurableShown

-----------------------------------------------------------------------------
(***************************************************************************)
(* What a step does to the content being drained.                          *)
(***************************************************************************)
\* The names chosen for a content are free or already show its bytes.
LEMMA NamesChosen ==
  ASSUME CardTypeOK, HashNames, cur \in Contents,
         NEW s \in HostSuffixes, FinalSuffix(s)
  PROVE  /\ s = Plain \/ s = ByCid(cur) \/ \E y \in Kinds : s = ByHash(cur, y)
         /\ \A x \in staged : onHost[Key(cur, s, x)] \in {NoContent, cur}
<1>1. staged \subseteq Kinds
  BY DEF CardTypeOK
<1>2. CASE Clashes(s) = {} /\ (s = Plain \/ s = ByCid(cur))
  BY <1>2 DEF Clashes
<1>3. CASE \E y \in Clashes(ByCid(cur)) : s = ByHash(cur, y)
  <2>1. PICK y \in Kinds : s = ByHash(cur, y)
    BY <1>1, <1>3 DEF Clashes
  <2>2. \A x \in Kinds : onHost[Key(cur, ByHash(cur, y), x)] \in {NoContent, cur}
    BY DEF HashNames
  <2> QED BY <1>1, <2>1, <2>2
<1> QED BY <1>2, <1>3 DEF FinalSuffix

JobInv == PullInv /\ LandInv /\ RecordInv /\ DeleteInv

\* Every step keeps what is known of the content being drained.
LEMMA JobStep ==
  ASSUME CardTypeOK, CardTypeOK', DrainInv, [CardNext]_cardVars
  PROVE  JobInv'
<1> USE DEF JobInv
<1>1. CASE pc' \in {"idle", "list", "next", "restore"}
  BY <1>1 DEF PullInv, LandInv, RecordInv, DeleteInv
<1>2. CASE /\ UNCHANGED <<pc, cur, left, staged, landed, suffix, all_ok>>
           /\ UNCHANGED <<onHost, disk>>
  BY <1>2 DEF DrainInv, PullInv, LandInv, RecordInv, DeleteInv, Landed,
              OwnSuffix, CurKey
<1>3. CASE NextContent
  <2>1. /\ pc' = "pull" /\ cur' \in queue /\ landed' = {}
        /\ left' = Kinds /\ staged' = {}
    BY <1>3 DEF NextContent
  <2> QED BY <2>1 DEF CardTypeOK, PullInv, LandInv, RecordInv, DeleteInv
<1>4. ASSUME NEW x \in Kinds, PullFile(x) \/ PullFails(x) PROVE JobInv'
  <2>1. /\ pc = "pull" /\ pc' = "pull" /\ x \in left /\ left' = left \ {x}
        /\ cur' = cur /\ landed' = landed
        /\ all_ok' => all_ok /\ staged' = staged \union {x}
    BY <1>4 DEF PullFile, PullFails, runVars
  <2> QED BY <2>1 DEF DrainInv, PullInv, LandInv, RecordInv, DeleteInv
<1>5. CASE ChooseNames /\ pc' = "land"
  <2>1. /\ pc = "pull" /\ left = {}
        /\ UNCHANGED <<cur, onHost, staged, landed, all_ok>>
        /\ suffix' \in HostSuffixes /\ FinalSuffix(suffix')
    BY <1>5 DEF ChooseNames, diskVars
  <2>2. cur \in Contents /\ landed = {} /\ (all_ok => staged = Kinds)
    BY <2>1 DEF DrainInv, PullInv, CardTypeOK
  <2>3. /\ OwnSuffix'
        /\ \A x \in staged : onHost[Key(cur, suffix', x)] \in {NoContent, cur}
    BY <2>1, <2>2, NamesChosen DEF DrainInv, OwnSuffix
  <2> QED BY <1>5, <2>1, <2>2, <2>3
          DEF PullInv, LandInv, RecordInv, DeleteInv, Landed, CurKey
<1>6. ASSUME NEW x \in Kinds, LandFile(x), pc' = pc PROVE JobInv'
  <2>1. /\ pc = "land" /\ x \in staged /\ landed' = landed \union {x}
        /\ UNCHANGED <<cur, staged, suffix, all_ok>>
    BY <1>6 DEF LandFile
  <2>2. /\ CurKey(x) \in Keys /\ onHost' = [onHost EXCEPT ![CurKey(x)] = cur]
        /\ \A y \in Kinds : CurKey(y)' = CurKey(y)
    BY <1>6, <2>1, LandKeeps DEF CurKey
  <2>3. /\ cur \in Contents /\ OwnSuffix /\ Landed /\ landed \subseteq staged
        /\ \A y \in staged : onHost[CurKey(y)] \in {NoContent, cur}
        /\ all_ok => staged = Kinds
    BY <2>1 DEF DrainInv, LandInv
  <2>4. \A y \in staged : CurKey(y) \in Keys
    BY <2>3, KeyTyped DEF CardTypeOK, CurKey
  <2>5. \A y \in staged : onHost'[CurKey(y)] \in {NoContent, cur}
    BY <2>2, <2>3, <2>4 DEF CardTypeOK
  <2>6. \A y \in landed' : onHost'[CurKey(y)] = cur
    BY <2>1, <2>2, <2>3, <2>4 DEF CardTypeOK, Landed
  <2>7. OwnSuffix' /\ Landed'
    BY <2>1, <2>2, <2>3, <2>6 DEF OwnSuffix, Landed, CardTypeOK
  <2>8. \A y \in staged' : onHost'[CurKey(y)'] \in {NoContent, cur'}
    BY <2>1, <2>2, <2>5 DEF CardTypeOK
  <2> QED BY <1>6, <2>1, <2>3, <2>7, <2>8
          DEF PullInv, LandInv, RecordInv, DeleteInv
<1>7. ASSUME NEW x \in Kinds, LandFails(x) PROVE JobInv'
  <2>1. /\ pc = "land" /\ pc' = "land" /\ x \notin landed
        /\ staged' = staged \ {x} /\ ~all_ok'
        /\ UNCHANGED <<cur, landed, suffix, onHost>>
    BY <1>7 DEF LandFails, diskVars
  <2> QED BY <2>1 DEF DrainInv, PullInv, LandInv, RecordInv, DeleteInv, Landed,
                      OwnSuffix, CurKey
<1>8. CASE SyncDir
  <2>1. /\ pc = "land" /\ pc' = "record" /\ staged \subseteq landed
        /\ UNCHANGED <<onHost, cur, staged, landed, suffix>>
    BY <1>8 DEF SyncDir
  <2>2. cur \in Contents /\ Landed /\ landed = staged
    BY <2>1 DEF DrainInv, LandInv
  <2>3. ASSUME all_ok' PROVE landed = Kinds /\ disk' = onHost
    <3>1. all_ok
      BY <1>8, <2>3 DEF SyncDir
    <3>2. landed = Kinds
      BY <2>1, <2>2, <3>1 DEF DrainInv, LandInv
    <3>3. landed # {}
      BY <3>2, DrainAssumption
    <3> QED BY <1>8, <2>3, <3>2, <3>3 DEF SyncDir
  <2>4. Landed'
    BY <2>1, <2>2 DEF Landed, CurKey
  <2>5. all_ok' => landed' = Kinds /\ \A x \in Kinds : disk'[CurKey(x)'] = cur'
    BY <2>1, <2>2, <2>3 DEF Landed, CurKey
  <2> QED BY <2>1, <2>2, <2>4, <2>5
          DEF PullInv, LandInv, RecordInv, DeleteInv
<1>9. CASE Record /\ pc' = "delete"
  <2>1. /\ pc = "record" /\ all_ok
        /\ UNCHANGED <<onHost, disk, cur, landed, suffix, all_ok>>
    BY <1>9 DEF Record, AfterRecord, jobVars
  <2> QED BY <1>9, <2>1 DEF DrainInv, PullInv, LandInv, RecordInv, DeleteInv,
                            Landed, CurKey
<1> QED
  <2> USE DEF camVars, diskVars, jobVars, runVars
  <2>1. CASE \E c \in Contents : Shoot(c)
    BY <1>2, <2>1 DEF Shoot
  <2>2. CASE Recover \/ Cancel \/ UNCHANGED cardVars
    BY <1>2, <2>2 DEF Recover, Cancel, cardVars
  <2>3. CASE Enter \/ ListCard \/ ListFails \/ DrainOver
    BY <1>1, <2>3 DEF Enter, ListCard, ListFails, DrainOver
  <2>4. CASE NextContent
    BY <1>3, <2>4
  <2>5. CASE \E x \in Kinds : PullFile(x) \/ PullFails(x)
    BY <1>4, <2>5
  <2>6. CASE \E x \in Kinds : LandFile(x) \/ LandFails(x)
    BY <1>1, <1>6, <1>7, <2>6 DEF LandFile
  <2>7. CASE ChooseNames
    BY <1>1, <1>5, <2>7 DEF ChooseNames
  <2>8. CASE SyncDir
    BY <1>8, <2>8
  <2>9. CASE Record \/ RecordFails
    BY <1>1, <1>9, <2>9 DEF Record, RecordFails, AfterRecord
  <2>10. CASE DeleteContent \/ KeepContent \/ Restore
    BY <1>1, <2>10 DEF DeleteContent, KeepContent, Restore
  <2>11. CASE Kill \/ PowerLoss
    BY <1>1, <2>11 DEF Kill, PowerLoss, Crash
  <2> QED BY <2>1, <2>2, <2>3, <2>4, <2>5, <2>6, <2>7, <2>8, <2>9, <2>10,
             <2>11 DEF CardNext, DrainNext

-----------------------------------------------------------------------------
(***************************************************************************)
(* What a step does to the originals.                                      *)
(***************************************************************************)
\* Only the card delete takes an original.
LEMMA OriginalsTouched ==
  ASSUME CardTypeOK, [CardNext]_cardVars
  PROVE  DeleteContent \/ shot' \ card' = shot \ card
<1> USE DEF camVars, diskVars, jobVars, runVars
<1>1. CASE \E c \in Contents : Shoot(c)
  BY <1>1 DEF Shoot, CardTypeOK
<1>2. CASE Recover \/ Enter \/ Cancel \/ UNCHANGED cardVars
  BY <1>2 DEF Recover, Enter, Cancel, cardVars
<1>3. CASE ListCard \/ ListFails \/ NextContent \/ DrainOver
  BY <1>3 DEF ListCard, ListFails, NextContent, DrainOver
<1>4. CASE \E x \in Kinds : PullFile(x) \/ PullFails(x)
  BY <1>4 DEF PullFile, PullFails
<1>5. CASE \E x \in Kinds : LandFile(x) \/ LandFails(x)
  BY <1>5 DEF LandFile, LandFails
<1>6. CASE ChooseNames \/ SyncDir
  BY <1>6 DEF ChooseNames, SyncDir
<1>7. CASE Record \/ RecordFails
  BY <1>7 DEF Record, RecordFails
<1>8. CASE KeepContent \/ Restore \/ Kill \/ PowerLoss
  BY <1>8 DEF KeepContent, Restore, Kill, PowerLoss
<1> QED BY <1>1, <1>2, <1>3, <1>4, <1>5, <1>6, <1>7, <1>8 DEF CardNext, DrainNext

\* Every step keeps the copies of the contents that are gone.
LEMMA SafeStep ==
  ASSUME CardTypeOK, CardTypeOK', DrainInv, [CardNext]_cardVars
  PROVE  DeletedOnlyWhenSafe'
<1>1. ASSUME NEW c \in Contents, WholeOnDisk(c) PROVE WholeOnDisk(c)'
  <2>1. PICK s \in HostSuffixes : \A x \in Kinds : disk[Key(c, s, x)] = c
    BY <1>1 DEF WholeOnDisk
  <2>2. \A x \in Kinds : Key(c, s, x) \in Keys
    BY KeyTyped
  <2>3. c # NoContent
    BY DrainAssumption
  <2>4. \A x \in Kinds : disk'[Key(c, s, x)] = c
    BY <2>1, <2>2, <2>3, DurableStep
  <2> QED BY <2>4 DEF WholeOnDisk
<1>2. CASE DeleteContent
  <2>1. /\ pc = "delete" /\ UNCHANGED <<shot, disk>>
        /\ card' \in {card, card \ {cur}}
    BY <1>2 DEF DeleteContent, diskVars
  <2>2. WholeOnDisk(cur)
    BY <2>1 DEF DrainInv, DeleteInv, RecordInv, WholeOnDisk, CurKey, CardTypeOK
  <2>3. \A c \in shot \ card : WholeOnDisk(c)
    BY DEF DrainInv, DeletedOnlyWhenSafe
  <2> QED BY <2>1, <2>2, <2>3 DEF DeletedOnlyWhenSafe, WholeOnDisk
<1>3. CASE shot' \ card' = shot \ card
  BY <1>1, <1>3 DEF DrainInv, DeletedOnlyWhenSafe, CardTypeOK
<1> QED BY <1>2, <1>3, OriginalsTouched

-----------------------------------------------------------------------------
(***************************************************************************)
(* What a step does to SHA256SUMS, where an append is all or nothing.      *)
(***************************************************************************)
\* Only these steps touch the records, and a failed append leaves none.
LEMMA RecordsTouched ==
  ASSUME [CardNext]_cardVars, ~TornAppends
  PROVE  \/ Record
         \/ Enter
         \/ UNCHANGED <<sums, torn, memo>>
<1> USE DEF camVars, diskVars, jobVars, runVars
<1>1. CASE \E c \in Contents : Shoot(c)
  BY <1>1 DEF Shoot
<1>2. CASE Recover \/ Cancel
  BY <1>2 DEF Recover, Cancel
<1>3. CASE ListCard \/ ListFails \/ NextContent \/ DrainOver
  BY <1>3 DEF ListCard, ListFails, NextContent, DrainOver
<1>4. CASE \E x \in Kinds : PullFile(x) \/ PullFails(x)
  BY <1>4 DEF PullFile, PullFails
<1>5. CASE \E x \in Kinds : LandFile(x) \/ LandFails(x)
  BY <1>5 DEF LandFile, LandFails
<1>6. CASE ChooseNames \/ SyncDir \/ RecordFails
  BY <1>6 DEF ChooseNames, SyncDir, RecordFails
<1>7. CASE DeleteContent \/ KeepContent \/ Restore
  BY <1>7 DEF DeleteContent, KeepContent, Restore
<1>8. CASE Kill \/ PowerLoss \/ UNCHANGED cardVars
  BY <1>8 DEF Kill, PowerLoss, cardVars
<1> QED
  BY <1>1, <1>2, <1>3, <1>4, <1>5, <1>6, <1>7, <1>8 DEF CardNext, DrainNext

\* The card delete is next only after Record.
LEMMA DeleteEntered ==
  ASSUME [CardNext]_cardVars, ~TornAppends
  PROVE  Record \/ UNCHANGED <<pc, cur, suffix, sums>> \/ pc' # "delete"
<1> USE DEF camVars, diskVars, jobVars, runVars
<1>1. CASE \E c \in Contents : Shoot(c)
  BY <1>1 DEF Shoot
<1>2. CASE Recover \/ Enter \/ Cancel \/ UNCHANGED cardVars
  BY <1>2 DEF Recover, Enter, Cancel, cardVars
<1>3. CASE ListCard \/ ListFails \/ NextContent \/ DrainOver
  BY <1>3 DEF ListCard, ListFails, NextContent, DrainOver
<1>4. CASE \E x \in Kinds : PullFile(x) \/ PullFails(x)
  BY <1>4 DEF PullFile, PullFails
<1>5. CASE \E x \in Kinds : LandFile(x) \/ LandFails(x)
  BY <1>5 DEF LandFile, LandFails
<1>6. CASE ChooseNames \/ SyncDir \/ RecordFails
  BY <1>6 DEF ChooseNames, SyncDir, RecordFails, AfterRecord
<1>7. CASE DeleteContent \/ KeepContent \/ Restore
  BY <1>7 DEF DeleteContent, KeepContent, Restore
<1>8. CASE Kill \/ PowerLoss
  BY <1>8 DEF Kill, PowerLoss, Crash
<1> QED BY <1>1, <1>2, <1>3, <1>4, <1>5, <1>6, <1>7, <1>8 DEF CardNext, DrainNext

\* Record leaves the hash of every file that landed, and takes none away.
LEMMA RecordWrites ==
  ASSUME CardTypeOK, DrainInv, LedgerInv, Record
  PROVE  /\ torn' = FALSE
         /\ \A k \in Keys : memo'[k] # NoContent => sums'[k] = memo'[k]
         /\ \A k \in Keys : disk[k] # NoContent /\ sums[k] = disk[k]
                               => sums'[k] = sums[k]
         /\ \A x \in landed : CurKey(x) \in Keys => sums'[CurKey(x)] = cur
<1>1. /\ pc = "record" /\ cur \in Contents /\ Landed /\ landed \subseteq Kinds
  BY DEF Record, DrainInv, RecordInv, CardTypeOK
<1>2. cur # NoContent
  BY <1>1, DrainAssumption
<1>3. torn = FALSE /\ \A k \in Keys : memo[k] # NoContent => sums[k] = memo[k]
  BY DEF LedgerInv
<1>4. memo' = With(memo, Unrecorded)
  BY DEF Record
<1>5. sums' = With(sums, Unrecorded) /\ torn' = FALSE
  <2>1. CASE Unrecorded = {}
    <3>1. sums' = sums /\ torn' = torn
      BY <2>1 DEF Record
    <3>2. With(sums, Unrecorded) = sums
      BY <2>1 DEF With, CardTypeOK
    <3> QED BY <1>3, <3>1, <3>2
  <2>2. CASE Unrecorded # {}
    <3>1. PICK g \in SUBSET Unrecorded :
            Cardinality(g) = 0 /\ sums' = With(sums, Unrecorded \ g)
      BY <1>3, <2>2 DEF Record
    <3>2. g = {}
      BY <1>1, <3>1, FS_Subset, FS_EmptySet, DrainAssumption DEF Unrecorded
    <3>3. Unrecorded \ g = Unrecorded
      BY <3>2
    <3>4. torn' = FALSE
      BY <2>2 DEF Record
    <3> QED BY <3>1, <3>3, <3>4
  <2> QED BY <2>1, <2>2
<1>6. \A k \in Keys : \/ memo'[k] = cur /\ sums'[k] = cur
                      \/ memo'[k] = memo[k] /\ sums'[k] = sums[k]
  BY <1>4, <1>5 DEF With
<1>7. \A k \in Keys : sums'[k] = sums[k] \/ \E x \in Unrecorded : k = CurKey(x)
  BY <1>5 DEF With
<1>8. ASSUME NEW k \in Keys, disk[k] # NoContent, sums[k] = disk[k]
      PROVE  sums'[k] = sums[k]
  <2>1. CASE \E x \in Unrecorded : k = CurKey(x)
    <3>1. onHost[k] = cur
      BY <1>1, <2>1 DEF Landed, Unrecorded
    <3>2. sums[k] = cur
      BY <1>8, <3>1 DEF DrainInv, DurableShown
    <3> QED BY <1>6, <3>2
  <2> QED BY <1>7, <2>1
<1>9. ASSUME NEW x \in landed, CurKey(x) \in Keys PROVE sums'[CurKey(x)] = cur
  <2>1. CASE x \in Unrecorded
    BY <1>5, <1>9, <2>1 DEF With
  <2>2. CASE x \notin Unrecorded
    <3>1. memo[CurKey(x)] = cur
      BY <2>2 DEF Unrecorded
    <3>2. sums[CurKey(x)] = cur
      BY <1>2, <1>3, <1>9, <3>1
    <3> QED BY <1>6, <1>9, <3>2
  <2> QED BY <2>1, <2>2
<1> QED BY <1>3, <1>5, <1>6, <1>8, <1>9

\* Every step keeps the records of the contents that are gone.
LEMMA LedgerStep ==
  ASSUME CardTypeOK, CardTypeOK', DrainInv, DrainInv', LedgerInv, [CardNext]_cardVars,
         ~TornAppends
  PROVE  LedgerInv'
<1>1. \A k \in Keys : disk[k] # NoContent /\ sums[k] = disk[k]
                         => disk'[k] = disk[k] /\ sums'[k] = sums[k]
  <2>1. CASE Record
    BY <2>1, RecordWrites, DurableStep
  <2>2. CASE sums' = sums
    BY <2>2, DurableStep
  <2>3. CASE Enter
    BY <2>2, <2>3 DEF Enter, diskVars
  <2> QED BY <2>1, <2>2, <2>3, RecordsTouched
<1>2. /\ torn' = FALSE
      /\ \A k \in Keys : memo'[k] # NoContent => sums'[k] = memo'[k]
  <2>1. CASE Record
    BY <2>1, RecordWrites
  <2>2. CASE Enter
    BY <2>2 DEF Enter, diskVars, LedgerInv
  <2>3. CASE UNCHANGED <<sums, torn, memo>>
    BY <2>3 DEF LedgerInv
  <2> QED BY <2>1, <2>2, <2>3, RecordsTouched
<1>3. ASSUME NEW c \in Contents, Recorded(c) PROVE Recorded(c)'
  <2>1. PICK s \in HostSuffixes : \A x \in Kinds : /\ disk[Key(c, s, x)] = c
                                              /\ sums[Key(c, s, x)] = c
    BY <1>3 DEF Recorded
  <2>2. \A x \in Kinds : Key(c, s, x) \in Keys
    BY KeyTyped
  <2>3. c # NoContent
    BY DrainAssumption
  <2>4. \A x \in Kinds : /\ disk'[Key(c, s, x)] = c
                         /\ sums'[Key(c, s, x)] = c
    BY <1>1, <2>1, <2>2, <2>3
  <2> QED BY <2>4 DEF Recorded
<1>4. pc' = "delete" => \A x \in Kinds : sums'[CurKey(x)'] = cur'
  <2>1. CASE Record
    <3>1. ASSUME pc' = "delete" PROVE landed = Kinds
      BY <2>1, <3>1 DEF Record, AfterRecord, DrainInv, RecordInv
    <3>2. UNCHANGED <<cur, suffix>> /\ cur \in Contents
      BY <2>1 DEF Record, jobVars, DrainInv, RecordInv
    <3>3. \A x \in Kinds : CurKey(x) \in Keys
      BY <3>2, KeyTyped DEF CurKey, CardTypeOK
    <3> QED BY <2>1, <3>1, <3>2, <3>3, RecordWrites DEF CurKey
  <2>2. CASE UNCHANGED <<pc, cur, suffix, sums>>
    BY <2>2 DEF LedgerInv, CurKey
  <2>3. CASE pc' # "delete"
    BY <2>3
  <2> QED BY <2>1, <2>2, <2>3, DeleteEntered
<1>5. HashOnRecord'
  <2>1. CASE DeleteContent
    <3>1. /\ pc = "delete" /\ UNCHANGED <<shot, disk, sums>>
          /\ card' \in {card, card \ {cur}}
      BY <2>1 DEF DeleteContent, diskVars
    <3>2. Recorded(cur)
      BY <3>1 DEF DrainInv, DeleteInv, RecordInv, LedgerInv, Recorded, CurKey,
                  CardTypeOK
    <3>3. \A c \in shot \ card : Recorded(c)
      BY DEF LedgerInv, HashOnRecord
    <3> QED BY <3>1, <3>2, <3>3 DEF HashOnRecord, Recorded
  <2>2. CASE shot' \ card' = shot \ card
    BY <1>3, <2>2 DEF LedgerInv, HashOnRecord, CardTypeOK
  <2> QED BY <2>1, <2>2, OriginalsTouched
<1> QED BY <1>2, <1>4, <1>5 DEF LedgerInv

-----------------------------------------------------------------------------
(***************************************************************************)
(* The theorems.                                                           *)
(***************************************************************************)
\* The invariant holds of every reachable state.
THEOREM DrainInductive == CardSpec => [](CardTypeOK /\ DrainInv)
<1>1. CardInit => CardTypeOK /\ DrainInv
  <2> SUFFICES ASSUME CardInit PROVE CardTypeOK /\ DrainInv
    OBVIOUS
  <2> USE DrainAssumption DEF CardInit
  <2>1. CardTypeOK
    <3>1. suffix \in HostSuffixes
      BY DEF HostSuffixes
    <3>2. /\ onHost \in [Keys -> Held] /\ disk \in [Keys -> Held]
          /\ sums \in [Keys -> Held] /\ memo \in [Keys -> Held]
      BY DEF Held
    <3>3. torn \in BOOLEAN /\ keep \in BOOLEAN /\ cancelled \in BOOLEAN
          /\ all_ok \in BOOLEAN
      OBVIOUS
    <3> QED BY <3>1, <3>2, <3>3 DEF CardTypeOK, Held, Steps
  <2>2. HashNames
    BY HashKeyTyped DEF HashNames
  <2>3. DurableShown /\ JobInv
    BY DEF DurableShown, JobInv, PullInv, LandInv, RecordInv, DeleteInv
  <2>4. DeletedOnlyWhenSafe
    BY DEF DeletedOnlyWhenSafe
  <2> QED BY <2>1, <2>2, <2>3, <2>4 DEF DrainInv, JobInv
<1>2. CardTypeOK /\ DrainInv /\ [CardNext]_cardVars => (CardTypeOK /\ DrainInv)'
  <2> SUFFICES ASSUME CardTypeOK, DrainInv, [CardNext]_cardVars
               PROVE  CardTypeOK' /\ DrainInv'
    OBVIOUS
  <2>1. CardTypeOK'
    BY DrainTypeStep DEF DrainInv
  <2> QED BY <2>1, HashNamesStep, DurableStep, JobStep, SafeStep
          DEF DrainInv, JobInv
<1> QED BY <1>1, <1>2, PTL DEF CardSpec

\* Every variable of the drain stays in its type (run(), _drain_content()).
THEOREM DrainTyped == CardSpec => []CardTypeOK
BY DrainInductive, PTL

\* Through retries, cancels, kills, power losses and reused names, a content
\* is deleted from its card only once the host holds it whole and durably
\* (_drain_content).
THEOREM OriginalsOutlived == CardSpec => []DeletedOnlyWhenSafe
<1>1. DrainInv => DeletedOnlyWhenSafe
  BY DEF DrainInv
<1> QED BY <1>1, DrainInductive, PTL

\* A durable host file is never replaced by other bytes (_drain_content's
\* choice of a suffix).
THEOREM DurableFilesKept == CardSpec => DurableFilesStay
<1>1. CardTypeOK /\ DrainInv /\ [CardNext]_cardVars
        => [\A k \in Keys : disk[k] # NoContent => disk'[k] = disk[k]]_cardVars
  BY DurableStep
<1> QED BY <1>1, DrainInductive, PTL DEF CardSpec, DurableFilesStay

\* If an append to SHA256SUMS writes all its lines or none, every content
\* that is gone from the card has its hashes on record (append_sums before
\* the card delete).  Drain_torn shows the assumption is needed.
THEOREM HashesOutlive == ASSUME ~TornAppends PROVE CardSpec => []HashOnRecord
<1>1. CardInit => LedgerInv
  BY DEF CardInit, LedgerInv, HashOnRecord
<1>2. CardTypeOK /\ DrainInv /\ CardTypeOK' /\ DrainInv' /\ LedgerInv /\ [CardNext]_cardVars
        => LedgerInv'
  BY LedgerStep
<1>3. LedgerInv => HashOnRecord
  BY DEF LedgerInv
<1> QED BY <1>1, <1>2, <1>3, DrainInductive, PTL DEF CardSpec
=============================================================================
