-------------------------- MODULE PullWorkerProofs --------------------------
(***************************************************************************)
(* Proofs about PullWorker, for every value of its constants: its types,   *)
(* the claim ledger's safety, that the worker implements ClaimLedger, and  *)
(* what may enter the transect: whose files, under which name, with which  *)
(* row, and dated by which fire.                                           *)
(***************************************************************************)
EXTENDS PullWorker, FiniteSetTheorems, WellFoundedInduction, TLAPS

-----------------------------------------------------------------------------
(***************************************************************************)
(* The orders the worker picks by have a first element.                    *)
(***************************************************************************)

\* The oldest queued command is one of the queued commands.
LEMMA MinIn ==
  ASSUME NEW S \in SUBSET Nat, S # {}
  PROVE  Min(S) \in S /\ \A x \in S : Min(S) <= x
<1> DEFINE below(k) == S \cap (0..k)
           T == {below(k) : k \in S}
<1>1. T \subseteq FiniteSubsetsOf(Nat) /\ T # {}
  <2>1. ASSUME NEW k \in S PROVE below(k) \in FiniteSubsetsOf(Nat)
    <3>1. IsFiniteSet(0..k)
      BY FS_Interval
    <3>2. IsFiniteSet(below(k))
      BY <3>1, FS_Subset
    <3> QED BY <3>2 DEF FiniteSubsetsOf
  <2> QED BY <2>1
<1>2. IsWellFoundedOn(StrictSubsetOrdering(Nat), FiniteSubsetsOf(Nat))
  BY FS_StrictSubsetOrderingWellFounded
<1>3. PICK X \in T : \A Y \in T : ~(<<Y, X>> \in StrictSubsetOrdering(Nat))
  <2> HIDE DEF T
  <2> QED BY <1>1, <1>2, WFMin
<1>4. PICK m \in S : X = below(m)
  OBVIOUS
<1>5. ASSUME NEW y \in S, y < m PROVE FALSE
  <2>1. below(y) \in T /\ below(y) \subseteq X /\ below(y) # X
    BY <1>4, <1>5
  <2> QED BY <2>1, <1>3, <1>4 DEF StrictSubsetOrdering
<1>6. \A y \in S : m <= y
  BY <1>5
<1> QED BY <1>6 DEF Min

\* So is the next file of a listing, or of a poll, one of its files, and none
\* comes before it.
LEMMA FirstOfIn ==
  ASSUME NEW S \in SUBSET Names, S # {}, NEW ext \in Exts
  PROVE  FirstOf(S, ext) \in S /\ \A m \in S : Before(FirstOf(S, ext), m, ext)
<1> DEFINE stems == {StemOf(m) : m \in S}
           first == Min(stems)
<1>1. first \in stems /\ \A st \in stems : first <= st
  <2>1. stems \subseteq Nat /\ stems # {}
    BY PullAssumption DEF Names, Stems, StemOf
  <2> HIDE DEF stems
  <2> QED BY <2>1, MinIn
<1>2. \A n \in S : /\ n = <<StemOf(n), ExtOf(n)>> /\ ExtOf(n) \in Exts
                   /\ StemOf(n) \in Int /\ first <= StemOf(n)
  <2> HIDE DEF first
  <2> QED BY <1>1, PullAssumption DEF Names, StemOf, ExtOf, Stems
<1>3. first \in Int
  BY <1>1, <1>2
<1> HIDE DEF first
<1>4. \E n \in S : \A m \in S : Before(n, m, ext)
  <2>1. CASE \E n \in S : StemOf(n) = first /\ ExtOf(n) = ext
    <3>1. PICK n \in S : StemOf(n) = first /\ ExtOf(n) = ext
      BY <2>1
    <3>2. \A m \in S : Before(n, m, ext)
      BY <3>1, <1>2, <1>3 DEF Before
    <3> QED BY <3>2
  <2>2. CASE ~ \E n \in S : StemOf(n) = first /\ ExtOf(n) = ext
    <3>1. PICK n \in S : StemOf(n) = first
      BY <1>1
    <3>2. \A m \in S : StemOf(m) = first => m = n
      BY <3>1, <2>2, <1>2 DEF Exts
    <3>3. \A m \in S : Before(n, m, ext)
      BY <3>1, <3>2, <1>2, <1>3 DEF Before
    <3> QED BY <3>3
  <2> QED BY <2>1, <2>2
<1> QED BY <1>4 DEF FirstOf

-----------------------------------------------------------------------------
(***************************************************************************)
(* The claim ledger, whichever action moves it.                            *)
(***************************************************************************)
\* A shot that was not fired has no command anywhere.
UnfiredUnclaimed ==
    \A s \in Shots : fires[s] = "idle" =>
        s \notin cmds /\ \A st \in Stems : stem_cmd[st] # s

LedgerInv == LedgerType /\ OneReleasePerCommand /\ UnfiredUnclaimed

SameFired == \A s \in Shots : fires'[s] = "idle" <=> fires[s] = "idle"

LedgerNext == Ledger!Next \/ UNCHANGED Ledger!ledger

\* Over is a subset of the shots that only the queue, the claims and the
\* set of fired shots determine.
LEMMA OverFrame ==
  ASSUME SameFired, UNCHANGED <<cmds, stem_cmd>>
  PROVE  Over' = Over
BY DEF Over, SameFired

\* A step that leaves the ledger alone.
LEMMA FrameKeeps ==
  ASSUME LedgerInv, SameFired, UNCHANGED claimVars
  PROVE  LedgerInv' /\ LedgerNext
<1>1. UNCHANGED <<cmds, cmd_epoch, stem_cmd>>
  BY DEF claimVars
<1>2. LedgerInv'
  BY <1>1 DEF LedgerInv, LedgerType, OneReleasePerCommand, UnfiredUnclaimed,
              SameFired
<1>3. LedgerNext
  BY <1>1, OverFrame DEF LedgerNext, Ledger!ledger
<1> QED BY <1>2, <1>3

\* Commands leave the queue: expired, or the fire was refused.
LEMMA DropKeeps ==
  ASSUME LedgerInv, SameFired, NEW S, cmds' = cmds \ S,
         UNCHANGED <<cmd_epoch, stem_cmd>>
  PROVE  LedgerInv' /\ LedgerNext
<1>1. LedgerInv'
  BY DEF LedgerInv, LedgerType, OneReleasePerCommand, UnfiredUnclaimed,
         SameFired
<1>2. Over' = Over \union (S \intersect cmds)
  <2>1. \A s \in cmds : /\ s \in Shots /\ fires[s] # "idle"
                        /\ \A st \in Stems : stem_cmd[st] # s
    BY DEF LedgerInv, LedgerType, UnfiredUnclaimed, OneReleasePerCommand,
           NoCmd, Shots
  <2>2. \A s \in Shots : s \in Over' <=> s \in Over \union (S \intersect cmds)
    BY <2>1 DEF Over, SameFired
  <2> QED BY <2>1, <2>2 DEF Over
<1>3. Ledger!Drop(S \intersect cmds)
  BY <1>2 DEF Ledger!Drop
<1>4. LedgerNext
  BY <1>3 DEF LedgerNext, Ledger!Next
<1> QED BY <1>1, <1>4

\* The oldest command, when there is one, is a queued shot.
LEMMA OldestQueued ==
  ASSUME LedgerType, cmds # {}
  PROVE  Min(cmds) \in cmds
<1>1. cmds \subseteq Nat
  BY DEF LedgerType, Shots
<1> QED BY <1>1, MinIn

\* A file that takes its claim, from its own, its sibling's or the queue.
LEMMA ClaimKeeps ==
  ASSUME LedgerInv, SameFired, NEW n \in Names, Claim(n)
  PROVE  LedgerInv' /\ LedgerNext /\ Claimed(n) \in Commands
<1> DEFINE c == Claimed(n)
           st == StemOf(n)
<1>0. st \in Stems
  BY DEF Names, StemOf
<1>1. CASE c = NoCmd
  <2>1. UNCHANGED claimVars
    BY <1>1 DEF Claim
  <2> QED BY <2>1, <1>1, FrameKeeps DEF Commands
<1>2. CASE c # NoCmd /\ stem_cmd[st] # NoCmd
  <2>1. c = stem_cmd[st]
    BY <1>2, <1>0 DEF Claimed, LedgerInv, LedgerType, OneReleasePerCommand
  <2>2. /\ cmd_epoch' = [cmd_epoch EXCEPT ![n] = c]
        /\ stem_cmd' = stem_cmd /\ cmds' = cmds
    BY <2>1, <1>2, <1>0 DEF Claim, LedgerInv, LedgerType, OneReleasePerCommand
  <2>3. c \in Commands
    BY <2>1, <1>0 DEF LedgerInv, LedgerType
  <2> HIDE DEF c, st
  <2>4. LedgerInv'
    BY <2>1, <2>2, <2>3, <1>0, <1>2 DEF LedgerInv, LedgerType,
       OneReleasePerCommand, UnfiredUnclaimed, SameFired, st
  <2>5. LedgerNext
    BY <2>2, OverFrame DEF LedgerNext, Ledger!ledger
  <2> QED BY <2>3, <2>4, <2>5 DEF c
<1>3. CASE c # NoCmd /\ stem_cmd[st] = NoCmd
  <2>1. /\ cmds # {} /\ c = Min(cmds) /\ cmd_epoch[n] = NoCmd
    BY <1>3, <1>0 DEF Claimed, LedgerInv, LedgerType, OneReleasePerCommand
  <2>2. c \in cmds /\ c \in Shots
    BY <2>1, OldestQueued DEF LedgerInv, LedgerType
  <2>3. /\ cmd_epoch' = [cmd_epoch EXCEPT ![n] = c]
        /\ stem_cmd' = [stem_cmd EXCEPT ![st] = c]
        /\ cmds' = cmds \ {c}
    BY <1>3 DEF Claim
  <2> HIDE DEF c
  <2>4. LedgerType'
    BY <2>2, <2>3, <1>0 DEF LedgerInv, LedgerType, Commands
  <2>5. OneReleasePerCommand'
    BY <2>2, <2>3, <1>0, <1>3 DEF LedgerInv, LedgerType, OneReleasePerCommand
  <2>6. UnfiredUnclaimed'
    BY <2>2, <2>3, <1>0 DEF LedgerInv, LedgerType, UnfiredUnclaimed, SameFired
  <2>7. Over' = Over
    BY <2>2, <2>3, <1>0, <1>3
       DEF Over, SameFired, LedgerInv, LedgerType, Shots, NoCmd
  <2>8. Ledger!Take(st)
    BY <2>1, <2>2, <2>3, <2>7, <1>3 DEF Ledger!Take, Ledger!NoOrder, NoCmd,
                                        Ledger!Min, Min
  <2>9. LedgerNext
    BY <2>8, <1>0 DEF LedgerNext, Ledger!Next
  <2> QED BY <2>2, <2>4, <2>5, <2>6, <2>9 DEF LedgerInv, c, Commands
<1> QED BY <1>1, <1>2, <1>3

\* One file of a release lets go of its claim.
LEMMA ReleaseFileKeeps ==
  ASSUME LedgerInv, SameFired, NEW n \in Names, NEW requeue \in BOOLEAN,
         ReleaseFile(n, requeue)
  PROVE  LedgerInv' /\ LedgerNext
<1> DEFINE st == StemOf(n)
           c == cmd_epoch[n]
<1>0. st \in Stems
  BY DEF Names, StemOf
<1>1. CASE c = NoCmd
  <2>1. UNCHANGED claimVars
    BY <1>1 DEF ReleaseFile, LedgerInv, LedgerType, claimVars
  <2> QED BY <2>1, FrameKeeps
<1>2. CASE c # NoCmd /\ SiblingHolds(n)
  <2>1. /\ cmd_epoch' = [cmd_epoch EXCEPT ![n] = NoCmd]
        /\ stem_cmd' = stem_cmd /\ cmds' = cmds
    BY <1>2 DEF ReleaseFile
  <2>2. PICK m \in Names : /\ m # n /\ StemOf(m) = st /\ cmd_epoch[m] # NoCmd
    BY <1>2 DEF SiblingHolds
  <2>3. LedgerType'
    BY <2>1 DEF LedgerInv, LedgerType, Commands
  <2>4. OneReleasePerCommand'
    BY <2>1, <2>2, <1>0 DEF LedgerInv, LedgerType, OneReleasePerCommand
  <2>5. UnfiredUnclaimed'
    BY <2>1 DEF LedgerInv, UnfiredUnclaimed, SameFired
  <2>6. LedgerNext
    BY <2>1, OverFrame DEF LedgerNext, Ledger!ledger
  <2> QED BY <2>3, <2>4, <2>5, <2>6 DEF LedgerInv
<1>3. CASE c # NoCmd /\ ~SiblingHolds(n)
  <2>1. /\ cmd_epoch' = [cmd_epoch EXCEPT ![n] = NoCmd]
        /\ stem_cmd' = [stem_cmd EXCEPT ![st] = NoCmd]
        /\ cmds' = IF requeue THEN cmds \union {c} ELSE cmds
    BY <1>3 DEF ReleaseFile
  <2>2. stem_cmd[st] = c /\ c \in Shots /\ c \notin cmds
    BY <1>3, <1>0 DEF LedgerInv, LedgerType, OneReleasePerCommand, Commands
  <2>3. \A m \in Names : StemOf(m) = st /\ m # n => cmd_epoch[m] = NoCmd
    BY <1>3 DEF SiblingHolds
  <2> HIDE DEF c
  <2>4. LedgerType'
    BY <2>1, <2>2 DEF LedgerInv, LedgerType, Commands
  <2>5. OneReleasePerCommand'
    BY <2>1, <2>2, <2>3, <1>0 DEF LedgerInv, LedgerType, OneReleasePerCommand
  <2>6. UnfiredUnclaimed'
    BY <2>1, <2>2, <1>0, <1>3 DEF LedgerInv, LedgerType, UnfiredUnclaimed,
                                  SameFired, NoCmd, Shots
  <2>7. Over' = IF requeue THEN Over ELSE Over \union {c}
    BY <2>1, <2>2, <1>0, <1>3 DEF Over, SameFired, LedgerInv, LedgerType,
       UnfiredUnclaimed, OneReleasePerCommand, NoCmd, Shots
  <2>8. IF requeue THEN Ledger!Return(st) ELSE Ledger!Settle(st)
    BY <2>1, <2>2, <2>7, <1>3 DEF Ledger!Return, Ledger!Settle, Ledger!NoOrder,
                                  NoCmd
  <2>9. LedgerNext
    BY <2>8, <1>0 DEF LedgerNext, Ledger!Next
  <2> QED BY <2>4, <2>5, <2>6, <2>9 DEF LedgerInv
<1> QED BY <1>1, <1>2, <1>3

\* Every file of a release lets go together.
LEMMA ReleaseStemKeeps ==
  ASSUME LedgerInv, SameFired, NEW n \in Names, NEW requeue \in BOOLEAN,
         ReleaseStem(n, requeue)
  PROVE  LedgerInv' /\ LedgerNext
<1> DEFINE st == StemOf(n)
           c == stem_cmd[st]
<1>0. st \in Stems
  BY DEF Names, StemOf
<1>1. /\ cmd_epoch' = [m \in Names |-> IF StemOf(m) = st THEN NoCmd
                                       ELSE cmd_epoch[m]]
      /\ stem_cmd' = [stem_cmd EXCEPT ![st] = NoCmd]
      /\ cmds' = IF requeue /\ c # NoCmd THEN cmds \union {c} ELSE cmds
  BY <1>0 DEF ReleaseStem, LedgerInv, OneReleasePerCommand
<1>2. c # NoCmd => c \in Shots /\ c \notin cmds
  BY <1>0 DEF LedgerInv, LedgerType, OneReleasePerCommand, Commands
<1> HIDE DEF c
<1>3. LedgerType'
  BY <1>1, <1>2 DEF LedgerInv, LedgerType, Commands
<1>4. OneReleasePerCommand'
  BY <1>1, <1>2, <1>0 DEF LedgerInv, LedgerType, OneReleasePerCommand, c
<1>5. UnfiredUnclaimed'
  BY <1>1, <1>2, <1>0 DEF LedgerInv, LedgerType, UnfiredUnclaimed,
                          SameFired, NoCmd, Shots, c
<1>6. Over' = IF requeue \/ c = NoCmd THEN Over ELSE Over \union {c}
  BY <1>1, <1>2, <1>0 DEF Over, SameFired, LedgerInv, LedgerType,
     UnfiredUnclaimed, OneReleasePerCommand, NoCmd, Shots, c
<1>7. CASE c = NoCmd
  <2>1. stem_cmd' = stem_cmd /\ cmds' = cmds
    BY <1>7, <1>1, <1>0 DEF LedgerInv, LedgerType, c
  <2>2. LedgerNext
    BY <2>1, <1>6, <1>7 DEF LedgerNext, Ledger!ledger
  <2> QED BY <2>2, <1>3, <1>4, <1>5 DEF LedgerInv
<1>8. CASE c # NoCmd
  <2>1. IF requeue THEN Ledger!Return(st) ELSE Ledger!Settle(st)
    BY <1>1, <1>2, <1>6, <1>8 DEF Ledger!Return, Ledger!Settle,
                                  Ledger!NoOrder, NoCmd, c
  <2>2. LedgerNext
    BY <2>1, <1>0 DEF LedgerNext, Ledger!Next
  <2> QED BY <2>2, <1>3, <1>4, <1>5 DEF LedgerInv
<1> QED BY <1>7, <1>8

\* A fire command joins the queue.
LEMMA NoteKeeps ==
  ASSUME LedgerInv, NEW s \in Shots, NoteCommand(s),
         fires \in [Shots -> {"idle", "sent", "exposed", "ok", "failed"}]
  PROVE  LedgerInv' /\ LedgerNext
<1> DEFINE joined == cmds \union {s}
           out == IF Cardinality(joined) > QueueCap THEN {Min(joined)} ELSE {}
<1>1. /\ fires[s] = "idle" /\ fires' = [fires EXCEPT ![s] = "sent"]
      /\ cmds' = joined \ out
      /\ UNCHANGED <<cmd_epoch, stem_cmd>>
  BY DEF NoteCommand
<1>2. joined \subseteq Shots /\ joined \subseteq Nat
  BY DEF LedgerInv, LedgerType, Shots
<1>3. out \subseteq joined /\ out \in {{}, {Min(joined)}}
  BY <1>2, MinIn
<1> HIDE DEF out
<1>4. LedgerType'
  BY <1>1, <1>2 DEF LedgerInv, LedgerType
<1>5. OneReleasePerCommand'
  BY <1>1 DEF LedgerInv, LedgerType, OneReleasePerCommand, UnfiredUnclaimed,
              Commands
<1>6. UnfiredUnclaimed'
  BY <1>1 DEF LedgerInv, UnfiredUnclaimed
<1>7. \A r \in joined : \A st \in Stems : stem_cmd[st] # r
  BY <1>1 DEF LedgerInv, LedgerType, OneReleasePerCommand, UnfiredUnclaimed,
              NoCmd, Shots
<1>8. \A r \in Shots : r \in Over' <=> r \in Over \union out
  BY <1>1, <1>3, <1>7 DEF Over, LedgerInv, UnfiredUnclaimed
<1>9. Over' = Over \union out
  BY <1>2, <1>3, <1>8 DEF Over
<1>10. s \notin cmds \union Ledger!Handed \union Over
  BY <1>1 DEF LedgerInv, UnfiredUnclaimed, Over, Ledger!Handed
<1>11. Ledger!Note(s)
  BY <1>1, <1>3, <1>9, <1>10 DEF Ledger!Note, Ledger!Min, Min
<1> QED BY <1>4, <1>5, <1>6, <1>11 DEF LedgerInv, LedgerNext, Ledger!Next

-----------------------------------------------------------------------------
(***************************************************************************)
(* The inductive invariant: types, what the worker has in hand, and the    *)
(* ledger.                                                                 *)
(***************************************************************************)
InHand ==
    /\ phase = "handle" => todo # {}
    /\ phase \in {"resolve", "reclaim", "write"} => job.name \in Names

IndInv == TypeOK /\ InHand /\ LedgerInv

\* The files the worker turns to next.
LEMMA NextFileIn ==
  ASSUME TypeOK, InHand
  PROVE  /\ phase = "handle" => NextFile \in todo /\ NextFile \in Names
         /\ phase = "list" /\ fresh # {} =>
               NextListed(fresh) \in fresh /\ NextListed(fresh) \in Names
<1>1. todo \in SUBSET Names /\ fresh \in SUBSET Names
  BY DEF TypeOK, PullType
<1> QED BY <1>1, FirstOfIn DEF InHand, NextFile, NextHandled, NextListed, Exts

LEMMA LedgerStep ==
  ASSUME IndInv, [Next]_vars
  PROVE  LedgerInv' /\ LedgerNext
<1> USE DEF envVars, nodeVars, bodyVars, timeVars, calVars, ownVars
<1>0. /\ TypeOK /\ InHand /\ LedgerInv
      /\ fires \in [Shots -> {"idle", "sent", "exposed", "ok", "failed"}]
  BY DEF IndInv, TypeOK, NodeType
<1>1. CASE CaptureNext
  <2>1. PICK s \in Shots : \/ NoteCommand(s) \/ FireExposes(s)
                           \/ FireOk(s) \/ FireFails(s)
    BY <1>1 DEF CaptureNext
  <2>2. CASE NoteCommand(s)
    BY <1>0, <2>2, NoteKeeps
  <2>3. CASE FireFails(s)
    <3>1. SameFired /\ cmds' = cmds \ {s} /\ UNCHANGED <<cmd_epoch, stem_cmd>>
      BY <1>0, <2>3 DEF FireFails, SameFired
    <3> QED BY <1>0, <3>1, DropKeeps
  <2>4. CASE FireExposes(s) \/ FireOk(s)
    <3>1. SameFired /\ UNCHANGED claimVars
      BY <1>0, <2>4 DEF FireExposes, FireOk, Expose, SameFired, claimVars
    <3> QED BY <1>0, <3>1, FrameKeeps
  <2> QED BY <2>1, <2>2, <2>3, <2>4
<1>2. CASE BodyNext \/ CalNext \/ Tick \/ StopWorker
  <2>1. SameFired /\ UNCHANGED claimVars
    BY <1>2 DEF BodyNext, CalNext, Tick, StopWorker, BodyExposes, Land,
       CalBegin, CalFires, CalFire, CalSees, CalEnds, Expose, SameFired
  <2> QED BY <1>0, <2>1, FrameKeeps
<1>3. CASE BaselineTaken \/ BaselineFails \/ BaselineStopped \/ HandleStopped
           \/ Exit \/ ResolveUnchecked \/ ResolveOwned \/ ResolveDistrusted
           \/ UNCHANGED vars
  <2>1. SameFired /\ UNCHANGED claimVars
    BY <1>3 DEF BaselineTaken, BaselineFails, BaselineStopped, HandleStopped,
       Exit, ResolveUnchecked, ResolveOwned, ResolveDistrusted, Decide,
       SameFired, vars
  <2> QED BY <1>0, <2>1, FrameKeeps
<1>4. CASE PollUnanswered \/ PollNext
  <2>1. /\ SameFired /\ cmds' = cmds \ Expired
        /\ UNCHANGED <<cmd_epoch, stem_cmd>>
    BY <1>4 DEF PollUnanswered, PollNext, PollLists, SameFired
  <2> QED BY <1>0, <2>1, DropKeeps
<1>5. CASE ListNext \/ Downloaded \/ Reclaim
  <2>1. SameFired
    BY <1>5 DEF ListNext, Downloaded, Reclaim, SameFired
  <2>2. CASE UNCHANGED claimVars
    BY <1>0, <2>1, <2>2, FrameKeeps
  <2>3. CASE \E n \in Names : Claim(n)
    BY <1>0, <2>1, <2>3, ClaimKeeps
  <2>4. UNCHANGED claimVars \/ \E n \in Names : Claim(n)
    <3>1. CASE ListNext
      BY <1>0, <3>1, NextFileIn DEF ListNext
    <3>2. CASE Downloaded
      BY <1>0, <3>2, NextFileIn DEF Downloaded, CanHandle
    <3>3. CASE Reclaim
      BY <1>0, <3>3 DEF Reclaim, InHand
    <3> QED BY <1>5, <3>1, <3>2, <3>3
  <2> QED BY <2>2, <2>3, <2>4
<1>6. CASE DiscardCalibration \/ DownloadFails \/ WriteNext \/ WriteFails
  <2>1. SameFired
    BY <1>6 DEF DiscardCalibration, DownloadFails, WriteNext, Written,
                WriteFails, SameFired
  <2>2. UNCHANGED claimVars \/ \E n \in Names, requeue \in BOOLEAN :
                                   ReleaseFile(n, requeue)
    <3>1. CASE DiscardCalibration
      BY <1>0, <3>1, NextFileIn DEF DiscardCalibration, CanHandle
    <3>2. CASE DownloadFails
      BY <1>0, <3>2, NextFileIn DEF DownloadFails, CanHandle, Failed
    <3>3. CASE WriteNext \/ WriteFails
      BY <1>0, <3>3 DEF WriteNext, Written, WriteFails, Failed, InHand
    <3> QED BY <1>6, <3>1, <3>2, <3>3
  <2> QED BY <1>0, <2>1, <2>2, FrameKeeps, ReleaseFileKeeps
<1>7. CASE ResolveUnscheduled \/ ResolveOrphan
  <2>1. SameFired /\ \E requeue \in BOOLEAN : ReleaseStem(job.name, requeue)
    BY <1>7 DEF ResolveUnscheduled, ResolveOrphan, Decide, SameFired
  <2>2. job.name \in Names
    BY <1>0, <1>7 DEF ResolveUnscheduled, ResolveOrphan, Checking, InHand
  <2> QED BY <1>0, <2>1, <2>2, ReleaseStemKeeps
<1> QED BY <1>1, <1>2, <1>3, <1>4, <1>5, <1>6, <1>7
        DEF Next, EnvNext, WorkerNext, ResolveNext

\* A run fires finitely many shots.
LEMMA ShotsFinite == IsFiniteSet(Shots)
<1>1. 1 \in Int /\ MaxShot \in Int
  BY PullAssumption
<1> QED BY ONLY <1>1, FS_Interval DEF Shots


\* The step of the ledger is typed; the rest of the state follows the action.
LEMMA NodeTypeStep ==
  ASSUME TypeOK, InHand, [Next]_vars
  PROVE  NodeType'
<1> USE PullAssumption DEF envVars, nodeVars, bodyVars, timeVars, calVars,
        Commands, Exposures
<1>0. NodeType
  BY DEF TypeOK
<1>1. \A e \in Exps : FilesOf(e) \in SUBSET Names
  BY DEF FilesOf, Names, Exts, Stems, StemOfExp, Exps
<1>2. CASE UNCHANGED envVars
  BY <1>0, <1>2 DEF NodeType
<1>3. ASSUME NEW shot \in Commands, NEW at \in Int,
             NEW kind \in {"survey", "calibration"}, Expose(shot, at, kind)
      PROVE  /\ nexp' \in 0..MaxExp
             /\ expo' \in [Exps -> [shot : Commands, at : Int,
                                    kind : {"old", "survey", "calibration"}]]
             /\ landing' \in SUBSET [exp : Exps, name : Names]
             /\ UNCHANGED <<issued, spool, timeVars, stopev>>
  <2>1. nexp + 1 \in Exps /\ nexp' = nexp + 1 /\ nexp' \in 0..MaxExp
    BY <1>0, <1>3 DEF NodeType, Expose, Exps
  <2>2. expo' \in [Exps -> [shot : Commands, at : Int,
                           kind : {"old", "survey", "calibration"}]]
    BY <1>0, <1>3 DEF NodeType, Expose
  <2>3. landing' \in SUBSET [exp : Exps, name : Names]
    <3>1. \A n \in FilesOf(nexp + 1) : n \in Names
      BY <1>1, <2>1
    <3> QED BY <1>0, <1>3, <2>1, <3>1 DEF NodeType, Expose
  <2> QED BY <1>3, <2>1, <2>2, <2>3 DEF Expose
<1>4. Presses \subseteq Int
  OBVIOUS
<1>5. ASSUME NEW s \in Shots, \/ NoteCommand(s) \/ FireExposes(s)
                              \/ FireOk(s) \/ FireFails(s)
      PROVE  NodeType'
  <2>1. CASE FireExposes(s)
    <3>1. Expose(s, Epoch(s), "survey") /\ Epoch(s) \in Int
      BY <2>1 DEF FireExposes, Epoch, Shots
    <3> QED BY <1>0, <1>3, <2>1, <3>1 DEF FireExposes, NodeType
  <2> QED BY <1>0, <1>5, <2>1 DEF NoteCommand, FireOk, FireFails, NodeType
<1>6. CASE BodyNext
  <2>1. ASSUME NEW t \in Presses, BodyExposes(t) PROVE NodeType'
    BY <1>0, <1>3, <1>4, <2>1 DEF BodyExposes, NodeType, NoCmd
  <2>2. ASSUME NEW f \in landing, Land(f) PROVE NodeType'
    BY <1>0, <2>2 DEF Land, NodeType
  <2> QED BY <1>6, <2>1, <2>2 DEF BodyNext
<1>7. CASE CalNext
  <2>1. ASSUME NEW t \in Presses, CalFire(t) PROVE NodeType'
    BY <1>0, <1>3, <1>4, <2>1 DEF CalFire, NodeType, NoCmd
  <2>2. CASE CalBegin
    BY <1>0, <2>2 DEF CalBegin, NodeType, Listed
  <2>3. CASE CalSees
    <3>1. CalNew \in SUBSET Names
      BY DEF CalNew, Listed
    <3> QED BY <1>0, <2>3, <3>1 DEF CalSees, NodeType
  <2>4. CASE CalEnds
    BY <1>0, <2>4 DEF CalEnds, NodeType
  <2> QED BY <1>7, <2>1, <2>2, <2>3, <2>4 DEF CalNext, CalFires
<1>8. CASE Tick \/ StopWorker
  <2>1. CASE Tick
    <3>1. /\ clock' \in Nat /\ gap' \in Nat
          /\ UNCHANGED <<nodeVars, calVars, stopev>>
      BY <1>0, <2>1 DEF Tick, NodeType
    <3> QED BY <1>0, <3>1 DEF NodeType
  <2>2. CASE StopWorker
    <3>1. stopev' = TRUE /\ UNCHANGED <<nodeVars, timeVars, calVars>>
      BY <2>2 DEF StopWorker
    <3> QED BY <1>0, <3>1 DEF NodeType
  <2> QED BY <1>8, <2>1, <2>2
<1>9. CASE PollNext
  <2>1. gap' = 0 /\ UNCHANGED <<nodeVars, clock, calVars, stopev>>
    BY <1>9 DEF PollNext, PollLists
  <2> QED BY <1>0, <2>1 DEF NodeType
<1>10. CASE WriteNext
  <2>1. PICK erased \in BOOLEAN, confirmed \in BOOLEAN :
               Written(erased, confirmed)
    BY <1>10 DEF WriteNext
  <2>2. /\ spool' \in [Names -> Exposures]
        /\ UNCHANGED <<fires, issued, expo, nexp, landing, timeVars, calVars,
                       stopev>>
    BY <1>0, <2>1 DEF Written, NodeType, NoExp
  <2> QED BY <1>0, <2>2 DEF NodeType
<1>11. CASE BaselineTaken \/ BaselineFails \/ BaselineStopped
            \/ PollUnanswered \/ ListNext \/ HandleStopped \/ Exit
            \/ UNCHANGED vars
  <2>1. UNCHANGED envVars
    BY <1>11 DEF BaselineTaken, BaselineFails, BaselineStopped,
       PollUnanswered, ListNext, HandleStopped, Exit, vars
  <2> QED BY <1>2, <2>1
<1>12. CASE DiscardCalibration \/ DownloadFails \/ Downloaded \/ WriteFails
  <2>1. UNCHANGED envVars
    BY <1>12 DEF DiscardCalibration, DownloadFails, Downloaded, WriteFails
  <2> QED BY <1>2, <2>1
<1>13. CASE ResolveNext
  <2>1. UNCHANGED envVars
    BY <1>13 DEF ResolveNext, ResolveUnchecked, ResolveOwned,
       ResolveUnscheduled, ResolveOrphan, ResolveDistrusted, Reclaim, Decide
  <2> QED BY <1>2, <2>1
<1> QED BY <1>5, <1>6, <1>7, <1>8, <1>9, <1>10, <1>11,
           <1>12, <1>13
        DEF Next, EnvNext, WorkerNext, CaptureNext

LEMMA PullTypeStep ==
  ASSUME TypeOK, InHand, LedgerType', [Next]_vars,
         \A n \in Names : Claimed(n) \in Commands
  PROVE  PullType' /\ InHand'
<1> USE DEF ownVars, keepVars, pullVars, plausVars, startVars
<1>0. NodeType /\ PullType /\ InHand
  BY DEF TypeOK
<1>1. CASE EnvNext \/ UNCHANGED vars
  <2>1. UNCHANGED ownVars
    BY <1>1 DEF EnvNext, CaptureNext, BodyNext, CalNext, NoteCommand,
       FireExposes, FireOk, FireFails, Expose, BodyExposes, Land, CalBegin,
       CalFires, CalFire, CalSees, CalEnds, Tick, StopWorker, vars
  <2> QED BY <1>0, <2>1 DEF PullType, InHand
<1>2. CASE BaselineTaken \/ BaselineFails \/ BaselineStopped
  <2>1. CASE BaselineTaken
    <3>1. Listed \in SUBSET Names
      BY DEF Listed
    <3>2. /\ seen' \in SUBSET Names /\ precmd' \in SUBSET Names
          /\ phase' = "idle"
          /\ UNCHANGED <<stem_dest, gone, recent, pullVars, fresh, todo, job,
                         plausVars, startVars>>
      BY <1>0, <2>1, <3>1 DEF BaselineTaken, PullType
    <3> QED BY <1>0, <3>2 DEF PullType, InHand, Phases
  <2>2. CASE BaselineFails
    <3>1. /\ tries' \in Nat /\ late' \in BOOLEAN
          /\ UNCHANGED <<stem_dest, keepVars, pullVars, fresh, todo, job,
                         plausVars, phase>>
      BY <1>0, <2>2 DEF BaselineFails, PullType
    <3> QED BY <1>0, <3>1 DEF PullType, InHand
  <2>3. CASE BaselineStopped
    BY <1>0, <2>3 DEF BaselineStopped, PullType, InHand, Phases
  <2> QED BY <1>2, <2>1, <2>2, <2>3
<1>3. CASE PollUnanswered
  BY <1>0, <1>3 DEF PollUnanswered, PullType, InHand
<1>4. CASE PollNext
  <2>1. PICK held \in SUBSET Backoff : PollLists(held)
    BY <1>4 DEF PollNext
  <2>2. Listed \in SUBSET Names
    BY DEF Listed
  <2>3. /\ gone' \in SUBSET Names /\ seen' \in SUBSET Names
        /\ fresh' \in SUBSET Names /\ todo' \in SUBSET Names
    BY <1>0, <2>1, <2>2 DEF PollLists, PullType
  <2>4. phase' \in Phases /\ InHand'
    BY <1>0, <2>1 DEF PollLists, Resting, Phases, InHand
  <2>5. UNCHANGED <<stem_dest, precmd, recent, pullVars, job, plausVars,
                   startVars>>
    BY <2>1 DEF PollLists
  <2> QED BY <1>0, <2>3, <2>4, <2>5 DEF PullType
<1>5. CASE ListNext
  <2> DEFINE n == NextListed(fresh)
  <2>1. n \in Names
    BY <1>0, <1>5, NextFileIn DEF ListNext
  <2>2. /\ pending' \in SUBSET Names /\ fresh' \in SUBSET Names
        /\ attempts' \in [Names -> Nat]
    BY <1>0, <1>5, <2>1 DEF ListNext, PullType
  <2>3. cap' \in [Names -> [cmd : Commands, src : Sources]]
    BY <1>0, <1>5, <2>1 DEF ListNext, PullType, NoCap, Commands, Sources
  <2>4. phase' \in Phases /\ InHand'
    BY <1>0, <1>5 DEF ListNext, Resting, Phases, InHand
  <2>5. UNCHANGED <<stem_dest, keepVars, todo, job, plausVars, startVars>>
    BY <1>5 DEF ListNext
  <2> QED BY <1>0, <2>2, <2>3, <2>4, <2>5 DEF PullType
<1>6. ASSUME NEW n \in Names, Finished(n)
      PROVE  /\ seen' \in SUBSET Names /\ recent' \in SUBSET Names
             /\ precmd' \in SUBSET Names /\ pending' \in SUBSET Names
             /\ attempts' \in [Names -> Nat]
             /\ cap' \in [Names -> [cmd : Commands, src : Sources]]
  BY <1>0, <1>6 DEF Finished, PullType, NoCap, Commands, Sources
<1>7. ASSUME NEW n \in Names, Failed(n),
             IF attempts[n] + 1 < MaxAttempts THEN UNCHANGED cap ELSE TRUE
      PROVE  /\ seen' \in SUBSET Names /\ recent' \in SUBSET Names
             /\ precmd' \in SUBSET Names /\ pending' \in SUBSET Names
             /\ attempts' \in [Names -> Nat]
             /\ cap' \in [Names -> [cmd : Commands, src : Sources]]
  <2>1. CASE attempts[n] + 1 < MaxAttempts
    BY <1>0, <1>7, <2>1 DEF Failed, PullType
  <2>2. CASE ~(attempts[n] + 1 < MaxAttempts)
    BY <1>6, <1>7, <2>2 DEF Failed
  <2> QED BY <2>1, <2>2
<1>8. CASE DiscardCalibration \/ DownloadFails
  <2> DEFINE n == NextFile
  <2>1. n \in Names /\ n \in todo
    BY <1>0, <1>8, NextFileIn DEF DiscardCalibration, DownloadFails, CanHandle
  <2>2. /\ seen' \in SUBSET Names /\ recent' \in SUBSET Names
        /\ precmd' \in SUBSET Names /\ pending' \in SUBSET Names
        /\ attempts' \in [Names -> Nat]
        /\ cap' \in [Names -> [cmd : Commands, src : Sources]]
    BY <1>6, <1>7, <1>8, <2>1 DEF DiscardCalibration, DownloadFails
  <2>3. todo' \in SUBSET Names /\ phase' \in Phases /\ InHand'
    BY <1>0, <1>8 DEF DiscardCalibration, DownloadFails, PullType, Resting,
                      Phases, InHand
  <2>4. UNCHANGED <<stem_dest, gone, fresh, job, plausVars, startVars>>
    BY <1>8 DEF DiscardCalibration, DownloadFails
  <2> QED BY <1>0, <2>2, <2>3, <2>4 DEF PullType
<1>9. CASE Downloaded
  <2> DEFINE n == NextFile
  <2>1. n \in Names
    BY <1>0, <1>9, NextFileIn DEF Downloaded, CanHandle
  <2>2. spool[n] \in Exposures /\ stem_dest[StemOf(n)].exp \in Exposures
        /\ Claimed(n) \in Commands
    BY <1>0, <2>1 DEF NodeType, PullType, Names, StemOf
  <2>3. PICK b \in Exposures, c \in Commands : job' = Job(n, spool[n], b, c)
    <3>1. NoExp \in Exposures /\ NoCmd \in Commands
      BY DEF Exposures, Commands
    <3> QED BY <1>9, <2>2, <3>1 DEF Downloaded
  <2>4. todo' \in SUBSET Names /\ phase' \in {"write", "resolve"}
    BY <1>0, <1>9 DEF Downloaded, PullType
  <2>5. UNCHANGED <<stem_dest, keepVars, pullVars, fresh, plausVars, startVars>>
    BY <1>9 DEF Downloaded
  <2>6. job' \in Jobs /\ job'.name = n
    BY <2>1, <2>2, <2>3 DEF Jobs, Job
  <2> QED BY <1>0, <2>1, <2>4, <2>5, <2>6 DEF PullType, InHand, Phases
<1>10. ASSUME NEW c \in Commands, NEW src \in Sources, Decide(c, src),
              phase = "resolve"
       PROVE  /\ cap' \in [Names -> [cmd : Commands, src : Sources]]
              /\ phase' = "write"
              /\ UNCHANGED <<stem_dest, keepVars, pending, attempts, fresh,
                             todo, startVars>>
  BY <1>0, <1>10 DEF Decide, PullType, InHand
<1>11. CASE \/ ResolveUnchecked \/ ResolveOwned \/ ResolveUnscheduled
            \/ ResolveDistrusted
  <2>1. job.cmd \in Commands /\ NoCmd \in Commands
    BY <1>0 DEF PullType, Commands, Jobs
  <2>2. phase = "resolve" /\ \E c \in Commands, src \in Sources : Decide(c, src)
    BY <1>11, <2>1 DEF ResolveUnchecked, ResolveOwned, ResolveUnscheduled,
       ResolveDistrusted, Checking, Sources
  <2>3. /\ job' = job /\ strikes' \in Nat /\ plaus_off' \in BOOLEAN
    <3>1. Struck \in Nat
      BY <1>0 DEF Struck, PullType
    <3>2. CASE ResolveUnchecked \/ ResolveUnscheduled
      BY <1>0, <3>2 DEF ResolveUnchecked, ResolveUnscheduled, PullType
    <3>3. CASE ResolveOwned
      BY <1>0, <3>3 DEF ResolveOwned, PullType
    <3>4. CASE ResolveDistrusted
      BY <1>0, <3>1, <3>4 DEF ResolveDistrusted
    <3> QED BY <1>11, <3>2, <3>3, <3>4
  <2> QED BY <1>0, <1>10, <2>2, <2>3 DEF PullType, InHand, Phases
<1>12. CASE ResolveOrphan
  <2>1. job' = [job EXCEPT !.walks = @ + 1, !.struck = TRUE]
    BY <1>12 DEF ResolveOrphan
  <2>2. /\ job' \in Jobs
        /\ job'.name = job.name
    <3>1. job.walks + 1 \in Nat
      BY <1>0 DEF PullType, Jobs
    <3>2. job' = [name |-> job.name, exp |-> job.exp, base |-> job.base,
                  cmd |-> job.cmd, walks |-> job.walks + 1, struck |-> TRUE]
      BY <1>0, <2>1 DEF PullType, Jobs
    <3> QED BY <1>0, <3>1, <3>2 DEF PullType, Jobs
  <2>3. strikes' \in Nat /\ phase' = "reclaim" /\ phase = "resolve"
    BY <1>0, <1>12 DEF ResolveOrphan, Checking, Struck, PullType
  <2>4. UNCHANGED <<stem_dest, keepVars, pullVars, fresh, todo, plaus_off,
                   startVars>>
    BY <1>12 DEF ResolveOrphan
  <2> QED BY <1>0, <2>2, <2>3, <2>4 DEF PullType, InHand, Phases
<1>13. CASE Reclaim
  <2>1. job.name \in Names /\ Claimed(job.name) \in Commands
    BY <1>0, <1>13 DEF Reclaim, InHand
  <2>2. job' = [job EXCEPT !.cmd = Claimed(job.name)]
    BY <1>13 DEF Reclaim
  <2>3. /\ job' \in Jobs
        /\ job'.name = job.name
    BY <1>0, <2>1, <2>2 DEF PullType, Jobs
  <2>4. /\ phase' = "resolve"
        /\ UNCHANGED <<stem_dest, keepVars, pullVars, fresh, todo, plausVars,
                       startVars>>
    BY <1>13 DEF Reclaim
  <2> QED BY <1>0, <2>1, <2>3, <2>4 DEF PullType, InHand, Phases
<1>14. CASE WriteNext \/ WriteFails
  <2>1. phase = "write" /\ job.name \in Names
    BY <1>0, <1>14 DEF WriteNext, Written, WriteFails, InHand
  <2>2. /\ seen' \in SUBSET Names /\ recent' \in SUBSET Names
        /\ precmd' \in SUBSET Names /\ pending' \in SUBSET Names
        /\ attempts' \in [Names -> Nat]
        /\ cap' \in [Names -> [cmd : Commands, src : Sources]]
    BY <1>6, <1>7, <1>14, <2>1 DEF WriteNext, Written, WriteFails
  <2>3. gone' \in SUBSET Names
    BY <1>0, <1>14, <2>1 DEF WriteNext, Written, WriteFails, PullType
  <2>4. stem_dest' \in [Stems -> [exp : Exposures, at : Nat]]
    <3>1. [exp |-> job.exp, at |-> clock] \in [exp : Exposures, at : Nat]
      BY <1>0 DEF PullType, NodeType, Jobs
    <3>2. \/ stem_dest' = stem_dest
          \/ stem_dest' = [stem_dest EXCEPT ![StemOf(job.name)] =
                              [exp |-> job.exp, at |-> clock]]
      BY <1>14 DEF WriteNext, Written, WriteFails
    <3> QED BY <1>0, <3>1, <3>2 DEF PullType
  <2>5. /\ job' = NoJob
        /\ job' \in Jobs
    <3>1. job' = NoJob
      BY <1>14 DEF WriteNext, Written, WriteFails
    <3>2. NoJob \in Jobs
      BY DEF NoJob, Job, Jobs, Exposures, Commands
    <3> QED BY <3>1, <3>2
  <2>6. phase' \in Phases /\ InHand'
    BY <1>14 DEF WriteNext, Written, WriteFails, Resting, Phases, InHand
  <2>7. UNCHANGED <<fresh, todo, plausVars, startVars>>
    BY <1>14 DEF WriteNext, Written, WriteFails
  <2> QED BY <1>0, <2>2, <2>3, <2>4, <2>5, <2>6, <2>7 DEF PullType
<1>15. CASE HandleStopped \/ Exit
  <2>1. /\ todo' \in SUBSET Names /\ phase' \in {"idle", "exit"}
        /\ UNCHANGED <<stem_dest, keepVars, pullVars, fresh, job, plausVars,
                       startVars>>
    BY <1>0, <1>15 DEF HandleStopped, Exit, PullType
  <2> QED BY <1>0, <2>1 DEF PullType, InHand, Phases
<1> QED BY <1>1, <1>2, <1>3, <1>4, <1>5, <1>8, <1>9, <1>11, <1>12, <1>13,
           <1>14, <1>15 DEF Next, WorkerNext, ResolveNext

LEMMA LogTypeStep ==
  ASSUME TypeOK, InHand, [Next]_vars
  PROVE  LogType'
<1> USE DEF logVars, ownVars
<1>0. NodeType /\ LedgerType /\ PullType /\ LogType /\ InHand
  BY DEF TypeOK
<1>1. \A S : CountOrphans(S) \in [Shots -> Nat]
  BY <1>0 DEF LogType, CountOrphans
<1>2. \A n \in Names : /\ spool[n] \in Exposures /\ ExtOf(n) \in Exts
                       /\ [exp |-> spool[n], ext |-> ExtOf(n)] \in Files
  BY <1>0 DEF NodeType, Names, ExtOf, Files
<1>3. CASE UNCHANGED <<logVars, orphaned>>
  BY <1>0, <1>3 DEF LogType
<1>4. CASE PollUnanswered \/ PollNext \/ ResolveOrphan
  <2>1. orphaned' \in [Shots -> Nat] /\ UNCHANGED logVars
    BY <1>1, <1>4 DEF PollUnanswered, PollNext, PollLists, ResolveOrphan
  <2> QED BY <1>0, <2>1 DEF LogType
<1>5. ASSUME NEW n \in Names, Failed(n), UNCHANGED <<rows, host>>
      PROVE  LogType'
  <2>1. orphaned' \in [Shots -> Nat] /\ unpulled' \in SUBSET Files
    <3>1. [exp |-> spool[n], ext |-> ExtOf(n)] \in Files
      BY <1>2
    <3>2. CASE attempts[n] + 1 < MaxAttempts
      BY <1>0, <1>5, <3>2 DEF Failed, LogType
    <3>3. CASE ~(attempts[n] + 1 < MaxAttempts)
      <4>1. orphaned' \in [Shots -> Nat]
        BY <1>1, <1>5, <3>3 DEF Failed
      <4>2. unpulled' = unpulled \union {[exp |-> spool[n], ext |-> ExtOf(n)]}
        BY <1>5, <3>3 DEF Failed
      <4> QED BY <1>0, <3>1, <4>1, <4>2 DEF LogType
    <3> QED BY <3>2, <3>3
  <2> QED BY <1>0, <1>5, <2>1 DEF LogType
<1>6. CASE DownloadFails
  BY <1>0, <1>5, <1>6, NextFileIn DEF DownloadFails, CanHandle
<1>7. CASE WriteFails
  BY <1>0, <1>5, <1>7 DEF WriteFails, InHand
<1>8. CASE WriteNext
  <2> DEFINE n == job.name
  <2>1. /\ ExtOf(n) \in Exts /\ cap[n] \in [cmd : Commands, src : Sources]
        /\ job.exp \in Exposures /\ job.base \in Exposures
    BY <1>0, <1>2, <1>8 DEF WriteNext, Written, InHand, PullType, Jobs
  <2>2. /\ [exp |-> job.exp, ext |-> ExtOf(n), base |-> job.exp]
             \in [exp : Exposures, ext : Exts, base : Exposures]
        /\ [exp |-> job.exp, ext |-> ExtOf(n), base |-> job.base]
             \in [exp : Exposures, ext : Exts, base : Exposures]
        /\ [exp |-> job.exp, ext |-> ExtOf(n), cmd |-> cap[n].cmd,
            src |-> cap[n].src]
             \in [exp : Exposures, ext : Exts, cmd : Commands, src : Sources]
    BY <2>1
  <2>3. host' \in SUBSET [exp : Exposures, ext : Exts, base : Exposures]
    BY <1>0, <1>8, <2>2 DEF WriteNext, Written, LogType
  <2>4. rows' \in SUBSET [exp : Exposures, ext : Exts, cmd : Commands,
                         src : Sources]
    BY <1>0, <1>8, <2>2 DEF WriteNext, Written, LogType
  <2>5. UNCHANGED <<unpulled, orphaned>>
    BY <1>8 DEF WriteNext, Written
  <2> QED BY <1>0, <2>3, <2>4, <2>5 DEF LogType
<1>9. CASE Exit
  <2>1. unpulled' \in SUBSET Files
    BY <1>0, <1>2, <1>9 DEF Exit, LogType, PullType
  <2> QED BY <1>0, <1>9, <2>1 DEF Exit, LogType
<1>10. CASE EnvNext \/ UNCHANGED vars
  <2>1. UNCHANGED <<logVars, orphaned>>
    BY <1>10 DEF EnvNext, CaptureNext, BodyNext, CalNext, NoteCommand,
       FireExposes, FireOk, FireFails, Expose, BodyExposes, Land, CalBegin,
       CalFires, CalFire, CalSees, CalEnds, Tick, StopWorker, vars
  <2> QED BY <1>3, <2>1
<1>11. CASE BaselineTaken \/ BaselineFails \/ BaselineStopped \/ ListNext
            \/ DiscardCalibration \/ Downloaded \/ HandleStopped
  <2>1. UNCHANGED <<logVars, orphaned>>
    BY <1>11 DEF BaselineTaken, BaselineFails, BaselineStopped, ListNext,
       DiscardCalibration, Downloaded, HandleStopped
  <2> QED BY <1>3, <2>1
<1>12. CASE \/ ResolveUnchecked \/ ResolveOwned \/ ResolveUnscheduled
            \/ ResolveDistrusted \/ Reclaim
  <2>1. UNCHANGED <<logVars, orphaned>>
    BY <1>12 DEF ResolveUnchecked, ResolveOwned, ResolveUnscheduled,
       ResolveDistrusted, Reclaim, Decide
  <2> QED BY <1>3, <2>1
<1> QED BY <1>4, <1>6, <1>7, <1>8, <1>9, <1>10, <1>11, <1>12
        DEF Next, WorkerNext, ResolveNext

\* A claim in reach of any file is a command.
LEMMA ClaimedType ==
  ASSUME TypeOK
  PROVE  \A n \in Names : Claimed(n) \in Commands
<1>1. LedgerType
  BY DEF TypeOK
<1>2. cmds # {} => Min(cmds) \in Shots
  BY <1>1, OldestQueued DEF LedgerType
<1> QED BY <1>1, <1>2 DEF LedgerType, Claimed, Commands, Names, StemOf

LEMMA InitIndInv == Init => IndInv
<1> SUFFICES ASSUME Init PROVE IndInv
  OBVIOUS
<1> USE PullAssumption DEF Init
<1>1. NodeType
  <2>1. OldExp + AwayExp \in 0..MaxExp
    OBVIOUS
  <2>2. \A n \in Names : spool[n] \in Exposures
    BY <2>1 DEF Exposures, Exps, NoExp
  <2>3. spool \in [Names -> Exposures]
    BY <2>2
  <2>4. expo \in [Exps -> [shot : Commands, at : Int,
                          kind : {"old", "survey", "calibration"}]]
    BY DEF Commands
  <2>5. calib \in [state : {"none", "fire", "wait", "named"}, left : Nat,
                  names : SUBSET Names]
    BY DEF NoCal
  <2>6. /\ fires \in [Shots -> {"idle", "sent", "exposed", "ok", "failed"}]
        /\ issued \in [Shots -> Nat]
    OBVIOUS
  <2> QED BY <2>1, <2>3, <2>4, <2>5, <2>6 DEF NodeType
<1>2. LedgerType
  BY DEF LedgerType, Commands
<1>3. PullType /\ InHand
  <2>1. NoJob \in Jobs
    BY DEF NoJob, Job, Jobs, Exposures, Commands
  <2>2. /\ stem_dest \in [Stems -> [exp : Exposures, at : Nat]]
        /\ cap \in [Names -> [cmd : Commands, src : Sources]]
        /\ attempts \in [Names -> Nat]
    BY DEF NoDest, NoCap, Exposures, Commands, Sources
  <2> QED BY <2>1, <2>2 DEF PullType, InHand, Phases
<1>4. LogType
  BY DEF LogType
<1>5. OneReleasePerCommand /\ UnfiredUnclaimed
  BY DEF OneReleasePerCommand, UnfiredUnclaimed, Names, StemOf, NoCmd, Shots
<1> QED BY <1>1, <1>2, <1>3, <1>4, <1>5 DEF IndInv, TypeOK, LedgerInv

LEMMA NextIndInv == IndInv /\ [Next]_vars => IndInv'
<1> SUFFICES ASSUME IndInv, [Next]_vars PROVE IndInv'
  OBVIOUS
<1>1. TypeOK /\ InHand
  BY DEF IndInv
<1>2. LedgerInv' /\ LedgerType'
  BY LedgerStep DEF LedgerInv
<1>3. PullType' /\ InHand'
  BY <1>1, <1>2, ClaimedType, PullTypeStep
<1>4. NodeType' /\ LogType'
  BY <1>1, NodeTypeStep, LogTypeStep
<1> QED BY <1>2, <1>3, <1>4 DEF IndInv, TypeOK

-----------------------------------------------------------------------------
(***************************************************************************)
(* What the steps do to the files, whatever they do to the claims.         *)
(***************************************************************************)
nodeFiles == <<expo, nexp, landing, spool>>
kept      == <<rows, host, stem_dest>>
fileVars  == <<nodeFiles, kept, clock, seen, pending, cap, fresh, todo, job,
               phase>>

\* An exposure: of a shot, of the body's own, or of a calibration.
Shoots(shot, at, kind) ==
    /\ nexp < MaxExp /\ nexp' = nexp + 1
    /\ \A n \in FilesOf(nexp + 1) : spool[n] = NoExp
    /\ \A f \in landing : f.name \notin FilesOf(nexp + 1)
    /\ LET last == stem_dest[StemOfExp(nexp + 1)] IN
       last.exp # NoExp => clock - last.at > SiblingWindow
    /\ expo' = [expo EXCEPT ![nexp + 1] = [shot |-> shot, at |-> at, kind |-> kind]]
    /\ landing' = landing \cup {[exp |-> nexp + 1, name |-> n] : n \in FilesOf(nexp + 1)}
    /\ \/ shot \in Shots /\ at = Epoch(shot) /\ kind = "survey" /\ fires[shot] = "sent"
       \/ shot = NoCmd /\ at \in Presses /\ kind = "survey" /\ BodyShutter /\ calib.state = "none"
          /\ phase # "baseline"
       \/ shot = NoCmd /\ at \in Presses /\ kind = "calibration" /\ calib.state = "fire"
    /\ UNCHANGED <<spool, clock, kept, seen, pending, cap, fresh, todo, job, phase>>

Lands(f) ==
    /\ f \in landing /\ landing' = landing \ {f}
    /\ spool' = [spool EXCEPT ![f.name] = f.exp]
    /\ UNCHANGED <<expo, nexp, clock, kept, seen, pending, cap, fresh, todo, job, phase>>

Ticks == /\ clock < MaxClock /\ clock' = clock + 1
         /\ UNCHANGED <<nodeFiles, kept, seen, pending, cap, fresh, todo, job, phase>>

\* The worker rests, or stops for good.
Rests ==
    /\ phase # "list" /\ todo' \subseteq todo
    /\ \/ phase' = "exit"
       \/ phase' = "idle" /\ phase \notin {"baseline", "exit"}
    /\ UNCHANGED <<nodeFiles, kept, clock, seen, pending, cap, fresh, job>>

\* File n is put back for another try, or its handling is over.
Freed(n) == /\ seen' = seen \cup {n} /\ pending' = pending \ {n}
            /\ cap' = [cap EXCEPT ![n] = NoCap]
SetsAside(n) ==
    /\ \/ phase = "handle" /\ n \in todo /\ todo' = todo \ {n} /\ UNCHANGED job
       \/ phase = "write" /\ n = job.name /\ UNCHANGED todo /\ job' = NoJob
    /\ phase' \in {"idle", "handle"}
    /\ UNCHANGED <<seen, pending, cap>> \/ Freed(n)
    /\ UNCHANGED <<nodeFiles, kept, clock, fresh>>

\* A file is taken in hand, after the release of its number that has a row, or
\* to be dated.
Takes(n) ==
    /\ phase = "handle" /\ n \in todo /\ todo' = todo \ {n}
    /\ n \notin calNames /\ spool[n] # NoExp
    /\ job'.name = n /\ job'.exp = spool[n]
    /\ \/ /\ SiblingWritten(StemOf(n)) /\ job'.base = stem_dest[StemOf(n)].exp
          /\ phase' = "write"
       \/ /\ ~SiblingWritten(StemOf(n)) /\ job'.base = NoExp
          /\ phase' \in {"write", "resolve"}
    /\ UNCHANGED <<nodeFiles, kept, clock, seen, pending, cap, fresh>>

\* Its command and where its instant comes from are decided, or not yet.
Dates ==
    /\ phase \in {"resolve", "reclaim"}
    /\ phase' \in {"resolve", "reclaim", "write"}
    /\ job'.name = job.name /\ job'.exp = job.exp /\ job'.base = job.base
    /\ \/ UNCHANGED cap
       \/ \E cmd \in Commands, src \in Sources :
             /\ cap' = [cap EXCEPT ![job.name] = [cmd |-> cmd, src |-> src]]
             /\ src = "command" /\ cmd # NoCmd =>
                   cmd = job.cmd /\ (Checkable => Delta \in (-Tol)..Tol)
    /\ UNCHANGED <<nodeFiles, kept, clock, seen, pending, fresh, todo>>

Writes ==
    LET n == job.name
        row == job.base = NoExp
    IN /\ phase = "write" /\ phase' \in {"idle", "handle"}
       /\ host' = host \cup {[exp |-> job.exp, ext |-> ExtOf(n),
                              base |-> IF row THEN job.exp ELSE job.base]}
       /\ IF row
          THEN /\ rows' = rows \cup {[exp |-> job.exp, ext |-> ExtOf(n),
                                      cmd |-> cap[n].cmd, src |-> cap[n].src]}
               /\ stem_dest' = [stem_dest EXCEPT ![StemOf(n)] =
                                    [exp |-> job.exp, at |-> clock]]
          ELSE UNCHANGED <<rows, stem_dest>>
       /\ spool' = [spool EXCEPT ![n] = NoExp] \/ UNCHANGED spool
       /\ Freed(n) /\ job' = NoJob
       /\ UNCHANGED <<expo, nexp, landing, clock, fresh, todo>>

\* A step that is none of the system's.
LEMMA StutterStays ==
  ASSUME UNCHANGED vars
  PROVE  UNCHANGED fileVars
BY DEF vars, envVars, nodeVars, bodyVars, timeVars, ownVars, keepVars, pullVars, logVars,
       fileVars, nodeFiles, kept

\* What the capture loop, the body, a calibration pass and the clock do.
LEMMA EnvDoes ==
  ASSUME TypeOK, EnvNext
  PROVE  /\ \/ UNCHANGED fileVars \/ Ticks \/ \E f \in landing : Lands(f)
            \/ \E shot, at, kind : Shoots(shot, at, kind)
         /\ UNCHANGED ownVars
<1> USE DEF nodeVars, bodyVars, timeVars, calVars, claimVars, ownVars, keepVars,
            pullVars, logVars, fileVars, nodeFiles, kept
<1>1. ASSUME NEW s \in Shots, NoteCommand(s) PROVE UNCHANGED fileVars /\ UNCHANGED ownVars
  BY <1>1 DEF NoteCommand
<1>2. ASSUME NEW s \in Shots, FireExposes(s)
      PROVE  Shoots(s, Epoch(s), "survey") /\ UNCHANGED ownVars
  BY <1>2 DEF FireExposes, Expose, Shoots
<1>3. ASSUME NEW s \in Shots, FireOk(s) \/ FireFails(s)
      PROVE  UNCHANGED fileVars /\ UNCHANGED ownVars
  BY <1>3 DEF FireOk, FireFails
<1>4. CASE BodyNext
  <2>1. ASSUME NEW t \in Presses, BodyExposes(t)
        PROVE  Shoots(NoCmd, t, "survey") /\ UNCHANGED ownVars
    BY <2>1 DEF BodyExposes, Expose, Shoots
  <2>2. ASSUME NEW f \in landing, Land(f) PROVE Lands(f) /\ UNCHANGED ownVars
    BY <2>2 DEF Land, Lands
  <2> QED BY <1>4, <2>1, <2>2 DEF BodyNext
<1>5. ASSUME NEW t \in Presses, CalFire(t)
      PROVE  Shoots(NoCmd, t, "calibration") /\ UNCHANGED ownVars
  BY <1>5 DEF CalFire, Expose, Shoots
<1>6. CASE CalBegin \/ CalSees \/ CalEnds \/ StopWorker
  BY <1>6 DEF CalBegin, CalSees, CalEnds, StopWorker
<1>7. CASE Tick
  BY <1>7 DEF Tick, Ticks
<1> QED BY <1>1, <1>2, <1>3, <1>4, <1>5, <1>6, <1>7
        DEF EnvNext, CaptureNext, CalNext, CalFires

\* What the worker's thread does.
LEMMA WorkerDoes ==
  ASSUME TypeOK, InHand, WorkerNext
  PROVE  /\ \/ UNCHANGED fileVars \/ BaselineTaken \/ PollNext \/ ListNext
            \/ Rests \/ Dates \/ Writes
            \/ \E n \in Names : SetsAside(n) \/ Takes(n)
         /\ UNCHANGED <<calVars, stopev, fires>>
<1> USE DEF envVars, nodeVars, bodyVars, timeVars, calVars, claimVars, keepVars,
            pullVars, logVars, fileVars, nodeFiles, kept
<1>1. CASE BaselineTaken
  BY <1>1 DEF BaselineTaken
<1>2. CASE BaselineFails \/ PollUnanswered
  BY <1>2 DEF BaselineFails, PollUnanswered
<1>3. CASE BaselineStopped \/ HandleStopped \/ Exit
  BY <1>3 DEF BaselineStopped, HandleStopped, Exit, Rests
<1>4. CASE PollNext
  BY <1>4 DEF PollNext, PollLists
<1>5. CASE ListNext
  BY <1>5 DEF ListNext
<1>6. CASE DiscardCalibration \/ DownloadFails
  <2>1. NextFile \in todo /\ NextFile \in Names
    BY <1>6, NextFileIn DEF DiscardCalibration, DownloadFails, CanHandle
  <2>2. SetsAside(NextFile)
    BY <1>6, <2>1 DEF DiscardCalibration, DownloadFails, CanHandle, Failed,
       Finished, Freed, SetsAside, Resting
  <2> QED BY <1>6, <2>1, <2>2 DEF DiscardCalibration, DownloadFails
<1>7. CASE Downloaded
  <2>1. NextFile \in todo /\ NextFile \in Names
    BY <1>7, NextFileIn DEF Downloaded, CanHandle
  <2>2. Takes(NextFile)
    BY <1>7, <2>1 DEF Downloaded, CanHandle, Takes, Job, SiblingWritten
  <2> QED BY <1>7, <2>1, <2>2 DEF Downloaded
<1>8. CASE ResolveNext
  <2>0. job \in Jobs /\ job.cmd \in Commands
    BY DEF TypeOK, PullType, Jobs
  <2>1. CASE ResolveUnchecked
    <3>1. PICK src \in {"command", "exif", "other"} :
             /\ Decide(job.cmd, src) /\ src = "command" => ~Checkable
      BY <2>1 DEF ResolveUnchecked
    <3> QED BY <2>0, <2>1, <3>1 DEF Decide, Dates, Sources, ResolveUnchecked
  <2>2. CASE ResolveOwned
    BY <2>0, <2>2 DEF ResolveOwned, Checking, Decide, Dates, Sources
  <2>3. CASE ResolveUnscheduled
    BY <2>0, <2>3 DEF ResolveUnscheduled, Checking, Decide, Dates, Sources, Commands
  <2>4. CASE ResolveDistrusted
    BY <2>0, <2>4 DEF ResolveDistrusted, Checking, Decide, Dates, Sources
  <2>5. CASE ResolveOrphan
    <3>1. job'.name = job.name /\ job'.exp = job.exp /\ job'.base = job.base
      BY <2>0, <2>5 DEF ResolveOrphan, Jobs
    <3> QED BY <2>5, <3>1 DEF ResolveOrphan, Checking, Dates
  <2>6. CASE Reclaim
    <3>1. job'.name = job.name /\ job'.exp = job.exp /\ job'.base = job.base
      BY <2>0, <2>6 DEF Reclaim, Jobs
    <3> QED BY <2>6, <3>1 DEF Reclaim, Dates
  <2> QED BY <1>8, <2>1, <2>2, <2>3, <2>4, <2>5, <2>6 DEF ResolveNext
<1>9. CASE WriteNext
  <2>1. PICK erased \in BOOLEAN, confirmed \in BOOLEAN : Written(erased, confirmed)
    BY <1>9 DEF WriteNext
  <2>2. Writes
    BY <2>1 DEF Written, Writes, Finished, Freed, Resting
  <2> QED BY <2>1, <2>2 DEF Written
<1>10. CASE WriteFails
  <2>1. job.name \in Names
    BY <1>10 DEF WriteFails, InHand
  <2>2. SetsAside(job.name)
    BY <1>10, <2>1 DEF WriteFails, Failed, Finished, Freed, SetsAside, Resting
  <2> QED BY <1>10, <2>1, <2>2 DEF WriteFails
<1> QED BY <1>1, <1>2, <1>3, <1>4, <1>5, <1>6, <1>7, <1>8, <1>9, <1>10
        DEF WorkerNext
-----------------------------------------------------------------------------
(***************************************************************************)
(* Which exposure a file is of, from the body to the host.                 *)
(***************************************************************************)
\* File n of exposure e is on the node, or on its way there.
OnNode(n, e) == \/ spool[n] = e
                \/ [exp |-> e, name |-> n] \in landing

\* What is on the node was exposed, under its own name, and is there once.
Delivered ==
    /\ \A n \in Names, e \in Exps : OnNode(n, e) => e <= nexp /\ n \in FilesOf(e)
    /\ \A f \in landing : spool[f.name] = NoExp

\* The files of one camera number that are on the node are one exposure's.
OneNumber ==
    \A m, n \in Names, d, e \in Exps :
        OnNode(m, d) /\ OnNode(n, e) /\ StemOf(m) = StemOf(n) => d = e

\* What the worker has listed stays on the node until it is dealt with, and it
\* is not dealt with twice; the file in hand is one of them.
Handling == phase \in {"resolve", "reclaim", "write"}
Tracked ==
    /\ pending \cup fresh \subseteq Listed
    /\ pending \cap fresh = {} /\ (pending \cup fresh) \cap seen = {}
    /\ todo \subseteq pending \cup fresh
    /\ phase # "list" => fresh = {}
    /\ phase = "baseline" => pending = {}
    /\ Handling => /\ job.name \in pending /\ job.name \notin todo
                   /\ job.exp = spool[job.name] /\ job.base \in {NoExp, job.exp}

\* A number that may still be taken for a written release's is that release's.
SiblingsMatch ==
    \A n \in Names, e \in Exps :
        OnNode(n, e) /\ SiblingWritten(StemOf(n)) => stem_dest[StemOf(n)].exp = e

Filed == \A h \in host : h.exp \in 1..nexp /\ h.base = h.exp

FilesInv == Delivered /\ OneNumber /\ Tracked /\ SiblingsMatch /\ Filed

\* What a file's name tells, and what the types say of the files' variables.
LEMMA NameFacts ==
  ASSUME NEW e \in Exps
  PROVE  /\ StemOfExp(e) \in Stems
         /\ \A n \in FilesOf(e) : /\ n \in Names /\ StemOf(n) = StemOfExp(e)
                                  /\ n = <<StemOf(n), ExtOf(n)>>
                                  /\ ExtOf(n) \in Formats
<1>1. StemOfExp(e) \in Stems
  BY PullAssumption DEF Exps, Stems, StemOfExp
<1>2. Formats \subseteq Exts
  BY PullAssumption DEF Exts
<1> QED BY <1>1, <1>2 DEF FilesOf, Names, StemOf, ExtOf

\* A name is its number and its kind.
LEMMA NameTypes ==
  ASSUME NEW n \in Names
  PROVE  /\ StemOf(n) \in Stems /\ ExtOf(n) \in Exts /\ n = <<StemOf(n), ExtOf(n)>>
BY DEF Names, StemOf, ExtOf

FileTypes ==
    /\ nexp \in Nat /\ nexp <= MaxExp /\ clock \in Nat
    /\ expo \in [Exps -> [shot : Commands, at : Int,
                          kind : {"old", "survey", "calibration"}]]
    /\ landing \subseteq [exp : Exps, name : Names]
    /\ spool \in [Names -> Exposures]
    /\ stem_dest \in [Stems -> [exp : Exposures, at : Nat]]
    /\ seen \subseteq Names /\ pending \subseteq Names
    /\ fresh \subseteq Names /\ todo \subseteq Names
    /\ cap \in [Names -> [cmd : Commands, src : Sources]]

LEMMA FileTypesHold == TypeOK => FileTypes
BY PullAssumption DEF TypeOK, NodeType, PullType, FileTypes

\* What is on the node before the run is there under its own names.
LEMMA FilesBegin ==
  ASSUME Init
  PROVE  FilesInv
<1>1. nexp \in Nat /\ nexp <= MaxExp /\ 1..nexp \subseteq Exps /\ NoExp \notin Exps
  BY PullAssumption DEF Init, Exps, NoExp
<1>2. \A n \in Names, e \in Exps : OnNode(n, e) => e \in 1..nexp /\ n \in FilesOf(e)
  BY <1>1 DEF Init, OnNode
<1>3. Delivered
  BY <1>1, <1>2 DEF Delivered, Init
<1>4. ASSUME NEW m \in Names, NEW n \in Names, NEW d \in Exps, NEW e \in Exps,
             OnNode(m, d), OnNode(n, e), StemOf(m) = StemOf(n)
      PROVE  d = e
  <2>1. m \in FilesOf(d) /\ n \in FilesOf(e)
    BY <1>2, <1>4
  <2>2. ExtOf(m) \in Formats /\ ExtOf(n) \in Formats
    BY <2>1, NameFacts
  <2>3. \A c \in 1..nexp : m \in FilesOf(c) <=> n \in FilesOf(c)
    BY <1>4, <2>2, NameTypes DEF FilesOf, StemOf, ExtOf
  <2>4. /\ d = CHOOSE c \in 1..nexp : m \in FilesOf(c)
        /\ e = CHOOSE c \in 1..nexp : n \in FilesOf(c)
    BY <1>1, <1>4 DEF Init, OnNode
  <2>5. (CHOOSE c \in 1..nexp : m \in FilesOf(c)) = (CHOOSE c \in 1..nexp : n \in FilesOf(c))
    BY <2>3, Zenon
  <2> QED BY <2>4, <2>5
<1>5. OneNumber
  BY <1>4 DEF OneNumber
<1>6. Tracked /\ Filed
  BY DEF Init, Tracked, Filed, Handling
<1>7. SiblingsMatch
  BY NameTypes DEF Init, SiblingsMatch, SiblingWritten, NoDest
<1> QED BY <1>3, <1>5, <1>6, <1>7 DEF FilesInv

\* A step that takes nothing to the node leaves what was there as it was.
NothingNew ==
    /\ nexp' = nexp /\ expo' = expo
    /\ \A n \in Names, e \in Exps : OnNode(n, e)' => OnNode(n, e)
    /\ \A f \in landing' : f \in landing

LEMMA NodeKeeps ==
  ASSUME Delivered, OneNumber, NothingNew,
         \A f \in landing' : spool'[f.name] = spool[f.name]
  PROVE  Delivered' /\ OneNumber'
BY DEF Delivered, OneNumber, NothingNew

\* The files a step leaves where they are.
LEMMA NodeStays ==
  ASSUME FileTypes, FilesInv, UNCHANGED nodeFiles, clock' \in Nat, clock <= clock',
         UNCHANGED stem_dest
  PROVE  Delivered' /\ OneNumber' /\ SiblingsMatch' /\ Listed' = Listed
<1> USE DEF nodeFiles
<1>1. NothingNew
  BY DEF NothingNew, OnNode
<1>2. Delivered' /\ OneNumber'
  BY <1>1, NodeKeeps DEF FilesInv
<1>3. \A st \in Stems : SiblingWritten(st)' => SiblingWritten(st)
  BY PullAssumption DEF SiblingWritten, FileTypes
<1>4. SiblingsMatch'
  BY <1>1, <1>3, NameTypes DEF SiblingsMatch, NothingNew, FilesInv
<1> QED BY <1>2, <1>4 DEF Listed

\* An exposure takes a number that nothing on the node has.
LEMMA ShootsKeeps ==
  ASSUME FileTypes, FilesInv, NEW shot, NEW at, NEW kind, Shoots(shot, at, kind)
  PROVE  FilesInv'
<1> USE DEF FilesInv
<1> DEFINE x == nexp + 1
<1>1. x \in Exps /\ x \in Nat /\ x # NoExp /\ nexp' = x
  BY PullAssumption DEF FileTypes, Shoots, Exps, NoExp
<1>2. \A n \in Names, e \in Exps :
         OnNode(n, e)' <=> OnNode(n, e) \/ (e = x /\ n \in FilesOf(x))
  <2>1. landing' = landing \cup {[exp |-> x, name |-> n] : n \in FilesOf(x)}
        /\ spool' = spool
    BY DEF Shoots
  <2> HIDE DEF x
  <2> QED BY <2>1 DEF OnNode
<1>3. \A n \in FilesOf(x), e \in Exps : ~OnNode(n, e)
  BY <1>1 DEF Shoots, OnNode, Exps, NoExp
<1>4. \A n \in Names, e \in Exps : OnNode(n, e) => StemOf(n) # StemOfExp(x)
  <2> SUFFICES ASSUME NEW n \in Names, NEW e \in Exps, OnNode(n, e),
                      StemOf(n) = StemOfExp(x)
               PROVE  FALSE
    OBVIOUS
  <2>1. n \in FilesOf(e) /\ ExtOf(n) \in Formats
    BY NameFacts DEF Delivered
  <2>2. n \in FilesOf(x)
    BY <2>1, NameTypes DEF FilesOf
  <2> QED BY <2>2, <1>3
<1>5. Delivered'
  <2>1. \A n \in Names, e \in Exps : OnNode(n, e)' => e <= nexp' /\ n \in FilesOf(e)
    BY <1>1, <1>2 DEF Delivered, FileTypes, Exps
  <2>2. \A f \in landing' : f \in landing \/ f.name \in FilesOf(x)
    BY DEF Shoots
  <2>3. \A f \in landing' : spool'[f.name] = NoExp
    BY <2>2 DEF Shoots, Delivered
  <2> QED BY <2>1, <2>3 DEF Delivered
<1>6. OneNumber'
  <2> SUFFICES ASSUME NEW m \in Names, NEW n \in Names, NEW d \in Exps, NEW e \in Exps,
                      OnNode(m, d)', OnNode(n, e)', StemOf(m) = StemOf(n)
               PROVE  d = e
    BY DEF OneNumber
  <2>1. \A k \in FilesOf(x) : StemOf(k) = StemOfExp(x)
    BY <1>1, NameFacts
  <2> HIDE DEF x
  <2> QED BY <1>2, <1>4, <2>1 DEF OneNumber
<1>7. Tracked'
  BY DEF Tracked, Shoots, Listed, kept, Handling
<1>8. SiblingsMatch'
  <2> SUFFICES ASSUME NEW n \in Names, NEW e \in Exps, OnNode(n, e)',
                      SiblingWritten(StemOf(n))'
               PROVE  stem_dest'[StemOf(n)].exp = e
    BY DEF SiblingsMatch
  <2>1. stem_dest' = stem_dest /\ clock' = clock /\ SiblingWritten(StemOf(n))
    BY DEF Shoots, kept, SiblingWritten
  <2>2. ~SiblingWritten(StemOfExp(x))
    <3>1. stem_dest[StemOfExp(x)].at \in Nat
      BY <1>1, NameFacts DEF FileTypes
    <3> QED BY <3>1, PullAssumption DEF Shoots, SiblingWritten, FileTypes
  <2>3. n \notin FilesOf(x)
    BY <2>1, <2>2, <1>1, NameFacts
  <2> QED BY <1>2, <2>1, <2>3 DEF SiblingsMatch
<1>9. Filed'
  BY DEF Filed, Shoots, kept, FileTypes
<1> QED BY <1>5, <1>6, <1>7, <1>8, <1>9

\* A file that lands was on its way to the spool.
LEMMA LandsKeeps ==
  ASSUME FileTypes, FilesInv, NEW f \in landing, Lands(f)
  PROVE  FilesInv'
<1> USE DEF FilesInv
<1>1. f \in [exp : Exps, name : Names] /\ f = [exp |-> f.exp, name |-> f.name]
  BY DEF FileTypes
<1>2. \A n \in Names : spool'[n] = IF n = f.name THEN f.exp ELSE spool[n]
  BY DEF Lands, FileTypes
<1>3. NothingNew
  BY <1>1, <1>2 DEF NothingNew, OnNode, Lands
<1>4. \A g \in landing' : spool'[g.name] = spool[g.name]
  <2> SUFFICES ASSUME NEW g \in landing', g.name = f.name PROVE FALSE
    BY <1>2 DEF Lands, FileTypes
  <2>1. g \in landing /\ g # f
    BY DEF Lands
  <2>2. g \in [exp : Exps, name : Names] /\ g = [exp |-> g.exp, name |-> g.name]
    BY <2>1 DEF FileTypes
  <2>3. OnNode(g.name, g.exp) /\ OnNode(f.name, f.exp)
    BY <2>1, <2>2, <1>1 DEF OnNode
  <2>4. g.exp = f.exp
    BY <2>2, <2>3, <1>1 DEF OneNumber
  <2> QED BY <2>1, <2>2, <2>4, <1>1
<1>5. Delivered' /\ OneNumber'
  BY <1>3, <1>4, NodeKeeps
<1>6. Tracked'
  <2>1. Listed \subseteq Listed' /\ f.name \notin Listed
    BY <1>1, <1>2 DEF Listed, Exps, NoExp, Delivered
  <2>2. Handling => spool'[job.name] = spool[job.name]
    BY <2>1, <1>2 DEF Tracked, Handling, FileTypes
  <2> QED BY <2>1, <2>2 DEF Tracked, Handling, Lands
<1>7. SiblingsMatch'
  BY <1>3, NameTypes DEF SiblingsMatch, SiblingWritten, NothingNew, Lands, kept
<1>8. Filed'
  BY DEF Filed, Lands, kept
<1> QED BY <1>5, <1>6, <1>7, <1>8

\* The worker's steps up to the writing of a file leave the node as it is.
LEMMA ListingKeeps ==
  ASSUME TypeOK, InHand, FileTypes, FilesInv, BaselineTaken \/ PollNext \/ ListNext
  PROVE  FilesInv'
<1> USE DEF FilesInv
<1>1. UNCHANGED <<nodeFiles, kept, clock>>
  BY DEF BaselineTaken, PollNext, PollLists, ListNext, envVars, nodeVars, bodyVars,
         timeVars, logVars, nodeFiles, kept
<1>2. Delivered' /\ OneNumber' /\ SiblingsMatch' /\ Listed' = Listed
  BY <1>1, NodeStays DEF kept, FileTypes
<1>3. Filed'
  BY <1>1 DEF Filed, kept, nodeFiles
<1>4. CASE BaselineTaken
  BY <1>2, <1>3, <1>4 DEF BaselineTaken, Tracked, Handling, pullVars
<1>5. CASE PollNext
  BY <1>2, <1>3, <1>5 DEF PollNext, PollLists, Tracked, Handling, pullVars, Resting
<1>6. CASE ListNext
  <2>1. NextListed(fresh) \in fresh
    BY <1>6, NextFileIn DEF ListNext
  <2> QED BY <1>2, <1>3, <1>6, <2>1 DEF ListNext, Tracked, Handling, keepVars, Resting
<1> QED BY <1>4, <1>5, <1>6

\* Taking a file in hand, dating it, setting it aside and waiting change no file.
LEMMA PullingKeeps ==
  ASSUME FileTypes, FilesInv,
         \/ UNCHANGED fileVars \/ Ticks \/ Rests \/ Dates
         \/ \E n \in Names : SetsAside(n) \/ Takes(n)
  PROVE  FilesInv'
<1> USE DEF FilesInv
<1>1. UNCHANGED <<nodeFiles, kept>> /\ clock' \in Nat /\ clock <= clock'
  BY DEF FileTypes, Ticks, Rests, Dates, SetsAside, Takes, fileVars
<1>2. Delivered' /\ OneNumber' /\ SiblingsMatch' /\ Listed' = Listed
  BY <1>1, NodeStays DEF kept
<1>3. Filed'
  BY <1>1 DEF Filed, kept, nodeFiles
<1>4. spool' = spool
  BY <1>1 DEF nodeFiles
<1>5. CASE UNCHANGED fileVars \/ Ticks
  BY <1>2, <1>3, <1>4, <1>5 DEF Ticks, fileVars, Tracked, Handling
<1>6. CASE Rests
  BY <1>2, <1>3, <1>4, <1>6 DEF Rests, Tracked, Handling
<1>7. CASE Dates
  BY <1>2, <1>3, <1>4, <1>7 DEF Dates, Tracked, Handling
<1>8. ASSUME NEW n \in Names, SetsAside(n) PROVE Tracked'
  BY <1>2, <1>4, <1>8 DEF SetsAside, Freed, Tracked, Handling
<1>9. ASSUME NEW n \in Names, Takes(n) PROVE Tracked'
  <2>1. spool[n] \in Exps /\ OnNode(n, spool[n])
    BY <1>9 DEF Takes, FileTypes, Exposures, OnNode
  <2>2. job'.base \in {NoExp, job'.exp}
    BY <1>9, <2>1 DEF Takes, SiblingsMatch
  <2>3. n \in pending /\ fresh = {}
    BY <1>9 DEF Takes, Tracked
  <2> QED BY <1>2, <1>4, <1>9, <2>2, <2>3 DEF Takes, Tracked, Handling
<1> QED BY <1>2, <1>3, <1>5, <1>6, <1>7, <1>8, <1>9

\* The file that is written is an exposure's, the one in hand.
LEMMA InHandOnNode ==
  ASSUME FileTypes, FilesInv, Handling
  PROVE  /\ job.name \in Names /\ job.exp \in Exps /\ job.exp \in 1..nexp
         /\ job.exp = spool[job.name] /\ job.name \in FilesOf(job.exp)
         /\ OnNode(job.name, job.exp)
<1>1. job.name \in Listed /\ job.exp = spool[job.name]
  BY DEF FilesInv, Tracked
<1>2. job.name \in Names /\ job.exp \in Exps /\ OnNode(job.name, job.exp)
  BY <1>1 DEF Listed, FileTypes, Exposures, OnNode
<1>3. job.exp <= nexp /\ job.name \in FilesOf(job.exp)
  BY <1>2 DEF FilesInv, Delivered
<1> QED BY <1>1, <1>2, <1>3 DEF Exps, FileTypes

\* A file that is written is filed with its own release.
LEMMA WritesKeeps ==
  ASSUME FileTypes, FilesInv, Writes
  PROVE  FilesInv'
<1> USE DEF FilesInv
<1>1. Handling
  BY DEF Writes, Handling
<1>2. /\ job.name \in Names /\ job.exp \in Exps /\ job.exp \in 1..nexp
      /\ job.exp = spool[job.name] /\ OnNode(job.name, job.exp)
  BY <1>1, InHandOnNode
<1>3. \A n \in Names : spool'[n] = spool[n] \/ (n = job.name /\ spool'[n] = NoExp)
  BY DEF Writes, FileTypes
<1>4. NothingNew
  BY <1>3 DEF Writes, NothingNew, OnNode, Exps, NoExp
<1>5. \A f \in landing' : spool'[f.name] = spool[f.name]
  BY <1>3 DEF Writes, Delivered, FileTypes
<1>6. Delivered' /\ OneNumber'
  BY <1>4, <1>5, NodeKeeps
<1>7. Tracked'
  <2>1. Listed \ {job.name} \subseteq Listed'
    BY <1>3 DEF Listed
  <2> QED BY <2>1 DEF Writes, Freed, Tracked, Handling
<1>8. SiblingsMatch'
  <2> SUFFICES ASSUME NEW n \in Names, NEW e \in Exps, OnNode(n, e)',
                      SiblingWritten(StemOf(n))'
               PROVE  stem_dest'[StemOf(n)].exp = e
    BY DEF SiblingsMatch
  <2>1. OnNode(n, e)
    BY <1>4 DEF NothingNew
  <2>2. CASE StemOf(n) = StemOf(job.name) /\ job.base = NoExp
    <3>1. e = job.exp
      BY <1>2, <2>1, <2>2 DEF OneNumber
    <3>2. stem_dest'[StemOf(n)].exp = job.exp
      BY <1>2, <2>2, NameTypes DEF Writes, FileTypes
    <3> QED BY <3>1, <3>2
  <2>3. CASE ~(StemOf(n) = StemOf(job.name) /\ job.base = NoExp)
    <3>1. stem_dest'[StemOf(n)] = stem_dest[StemOf(n)] /\ clock' = clock
      BY <2>3, NameTypes DEF Writes, FileTypes
    <3> QED BY <2>1, <3>1 DEF SiblingsMatch, SiblingWritten
  <2> QED BY <2>2, <2>3
<1>9. Filed'
  BY <1>1, <1>2 DEF Filed, Writes, Tracked
<1> QED BY <1>6, <1>7, <1>8, <1>9

\* Every step keeps the files in order.
LEMMA FilesStep ==
  ASSUME IndInv, FilesInv, [Next]_vars
  PROVE  FilesInv'
<1>1. TypeOK /\ InHand /\ FileTypes
  BY FileTypesHold DEF IndInv
<1>2. CASE UNCHANGED vars
  <2>1. UNCHANGED fileVars
    BY <1>2, StutterStays
  <2> QED BY <1>1, <2>1, PullingKeeps
<1>3. CASE EnvNext
  BY <1>1, <1>3, EnvDoes, PullingKeeps, LandsKeeps, ShootsKeeps
<1>4. CASE WorkerNext
  BY <1>1, <1>4, WorkerDoes, ListingKeeps, PullingKeeps, WritesKeeps
<1> QED BY <1>2, <1>3, <1>4 DEF Next

-----------------------------------------------------------------------------
(***************************************************************************)
(* What the node held before the run.                                      *)
(***************************************************************************)
OldInv ==
    /\ OldExp <= nexp
    /\ \A e \in Exps : expo[e].kind = "old" <=> e <= OldExp
    /\ \A f \in landing : f.exp > OldExp
    /\ phase \notin {"baseline", "exit"} =>
          \A n \in Listed : spool[n] <= OldExp => n \in seen
    /\ \A h \in host : h.exp > OldExp

\* A step that brings no file to the spool, and after which the worker has
\* seen what it had seen of it.
LEMMA OldStays ==
  ASSUME OldInv, UNCHANGED <<nodeFiles, host>>,
         Listed \cap seen \subseteq seen',
         phase' = phase \/ phase \notin {"baseline", "exit"}
  PROVE  OldInv'
BY DEF OldInv, Listed, nodeFiles

\* No step lets what was there before the run in.
LEMMA OldStep ==
  ASSUME IndInv, FilesInv, OldInv, [Next]_vars
  PROVE  OldInv'
<1>1. TypeOK /\ InHand /\ FileTypes
  BY FileTypesHold DEF IndInv
<1>2. CASE UNCHANGED fileVars \/ Ticks \/ Dates \/ \E n \in Names : SetsAside(n) \/ Takes(n)
  <2>1. /\ UNCHANGED <<nodeFiles, host>> /\ seen \subseteq seen'
        /\ phase' = phase \/ phase \notin {"baseline", "exit"}
    BY <1>2 DEF fileVars, Ticks, Dates, SetsAside, Takes, Freed, kept
  <2> QED BY <2>1, OldStays
<1>3. CASE Rests
  <2>1. CASE phase' = "idle" /\ phase \notin {"baseline", "exit"}
    BY <1>3, <2>1, OldStays DEF Rests, kept
  <2>2. CASE phase' = "exit"
    BY <1>3, <2>2 DEF Rests, kept, OldInv, nodeFiles
  <2> QED BY <1>3, <2>1, <2>2 DEF Rests
<1>4. CASE PollNext \/ ListNext
  <2>1. /\ UNCHANGED <<nodeFiles, host>> /\ Listed \cap seen \subseteq seen'
        /\ phase \notin {"baseline", "exit"}
    BY <1>4 DEF PollNext, PollLists, ListNext, envVars, nodeVars, bodyVars, logVars,
                keepVars, nodeFiles
  <2> QED BY <2>1, OldStays
<1>5. CASE BaselineTaken
  <2>1. /\ UNCHANGED <<nodeFiles, host>> /\ phase' = "idle"
    BY <1>5 DEF BaselineTaken, envVars, nodeVars, bodyVars, logVars, nodeFiles
  <2>2. ASSUME NEW n \in Listed, spool[n] <= OldExp PROVE n \in seen'
    <3>0. spool[n] \in Exps /\ OnNode(n, spool[n]) /\ n \in Names
      BY <1>1 DEF Listed, FileTypes, Exposures, OnNode
    <3>1. n \in FilesOf(spool[n]) /\ spool[n] \in 1..OldExp
      BY <2>2, <3>0, PullAssumption DEF FilesInv, Delivered, Exps
    <3>2. Remembered => n \in KnownFrames
      BY <3>1 DEF KnownFrames
    <3> QED BY <1>5, <3>2 DEF BaselineTaken
  <2> QED BY <2>1, <2>2 DEF OldInv, nodeFiles, Listed
<1>6. ASSUME NEW f \in landing, Lands(f) PROVE OldInv'
  <2>1. f \in [exp : Exps, name : Names] /\ f.exp > OldExp
    BY <1>1 DEF FileTypes, OldInv
  <2>2. \A n \in Names : spool'[n] = IF n = f.name THEN f.exp ELSE spool[n]
    BY <1>1, <1>6 DEF Lands, FileTypes
  <2>3. \A n \in Listed' : spool'[n] <= OldExp => n \in Listed /\ spool'[n] = spool[n]
    BY <2>1, <2>2, PullAssumption DEF Listed, Exps
  <2> QED BY <1>6, <2>3 DEF Lands, OldInv, kept
<1>7. ASSUME NEW shot, NEW at, NEW kind, Shoots(shot, at, kind) PROVE OldInv'
  <2>1. nexp + 1 \in Exps /\ nexp \in Nat /\ kind # "old"
    BY <1>1, <1>7, PullAssumption DEF Shoots, Exps, FileTypes
  <2>2. \A e \in Exps : expo'[e].kind = "old" <=> e <= OldExp
    BY <1>1, <1>7, <2>1, PullAssumption DEF Shoots, OldInv, FileTypes, Exps
  <2>3. \A f \in landing' : f.exp > OldExp
    BY <1>7, <2>1, PullAssumption DEF Shoots, OldInv
  <2> QED BY <1>7, <2>1, <2>2, <2>3, PullAssumption DEF Shoots, OldInv, kept, Listed
<1>8. CASE Writes
  <2>1. Handling
    BY <1>8 DEF Writes, Handling
  <2>2. job.exp \in Exps /\ job.exp = spool[job.name] /\ job.name \in Listed
    BY <1>1, <2>1, InHandOnNode DEF Listed, Exps, NoExp
  <2>3. job.exp > OldExp
    BY <2>1, <2>2, PullAssumption DEF OldInv, FilesInv, Tracked, Handling, Exps
  <2>4. \A n \in Names : spool'[n] = spool[n] \/ spool'[n] = NoExp
    BY <1>1, <1>8 DEF Writes, FileTypes
  <2>5. \A n \in Listed' : n \in Listed /\ spool'[n] = spool[n]
    BY <2>4 DEF Listed
  <2> QED BY <1>8, <2>3, <2>5 DEF Writes, OldInv, Freed
<1>9. CASE EnvNext
  BY <1>1, <1>2, <1>6, <1>7, <1>9, EnvDoes
<1>10. CASE WorkerNext
  BY <1>1, <1>2, <1>3, <1>4, <1>5, <1>8, <1>10, WorkerDoes
<1>11. CASE UNCHANGED vars
  <2>1. UNCHANGED fileVars
    BY <1>11, StutterStays
  <2> QED BY <1>2, <2>1
<1> QED BY <1>9, <1>10, <1>11 DEF Next

-----------------------------------------------------------------------------
(***************************************************************************)
(* The instants tell the exposures apart.                                  *)
(***************************************************************************)
\* The cross-check is on and its tolerance is less than a shot period.
Sharp == Checkable /\ Tol < Period

Near(c, e) == Epoch(c) - expo[e].at \in (-Tol)..Tol

\* An exposure near a fire is that fire's, or nobody's.
OwnInstants ==
    \A e \in 1..nexp, c \in Shots : Near(c, e) => expo[e].shot \in {c, NoCmd}

\* Dated from a command: the exposure is one that command made, or one near it
\* that none did.
StampOwn(c, e) == c.src = "command" /\ c.cmd # NoCmd =>
                      /\ e \in 1..nexp /\ c.cmd \in Shots
                      /\ expo[e].shot = c.cmd \/ (expo[e].shot = NoCmd /\ Near(c.cmd, e))
OwnInv == /\ OwnInstants
          /\ \A n \in Names : StampOwn(cap[n], spool[n])
          /\ \A r \in rows : r.exp \in 1..nexp /\ StampOwn(r, r.exp)

\* Two fires are at least a shot period apart.
LEMMA FiresApart ==
  ASSUME NEW r \in Shots, NEW s \in Shots, r < s
  PROVE  Epoch(s) - Epoch(r) >= Period
<1>1. r \in Nat /\ s \in Nat /\ Period \in Nat /\ s - r - 1 \in Nat
  BY PullAssumption DEF Shots
<1>2. Period * s = Period * r + Period + Period * (s - r - 1)
  BY <1>1
<1>3. Period * (s - r - 1) >= 0
  BY <1>1
<1>4. Period * s \in Int /\ Period * r \in Int /\ Period * (s - r - 1) \in Int
  BY <1>1
<1> QED BY <1>1, <1>2, <1>3, <1>4 DEF Epoch

\* A new exposure is at an instant of its own, or it is nobody's.
LEMMA ShootsApart ==
  ASSUME Sharp, FileTypes, OwnInstants,
         NEW shot, NEW at, NEW kind, Shoots(shot, at, kind)
  PROVE  OwnInstants'
<1> SUFFICES ASSUME NEW e \in 1..(nexp + 1), NEW c \in Shots, Near(c, e)'
             PROVE  expo'[e].shot \in {c, NoCmd}
  BY DEF OwnInstants, Shoots
<1>1. nexp \in Nat /\ nexp + 1 \in Exps /\ e \in Exps
  BY PullAssumption DEF Shoots, FileTypes, Exps
<1>2. expo'[e] = IF e = nexp + 1 THEN [shot |-> shot, at |-> at, kind |-> kind] ELSE expo[e]
  BY <1>1 DEF Shoots, FileTypes
<1>3. CASE e # nexp + 1
  BY <1>1, <1>2, <1>3 DEF OwnInstants, Near
<1>4. CASE e = nexp + 1 /\ shot \in Shots /\ at = Epoch(shot)
  <2>1. Epoch(c) - Epoch(shot) \in (-Tol)..Tol
    BY <1>2, <1>4 DEF Near
  <2>2. Epoch(c) \in Int /\ Epoch(shot) \in Int /\ c \in Int /\ shot \in Int
        /\ Tol \in Nat /\ Period \in Nat /\ Tol < Period
    BY <1>4, PullAssumption DEF Epoch, Shots, Sharp
  <2>3. ~(c < shot) /\ ~(shot < c)
    BY <1>4, <2>1, <2>2, FiresApart
  <2> QED BY <1>2, <1>4, <2>2, <2>3
<1>5. CASE e = nexp + 1 /\ shot = NoCmd
  BY <1>2, <1>5
<1> QED BY <1>3, <1>4, <1>5 DEF Shoots

\* A step that exposes nothing, dates nothing and logs nothing.
LEMMA StampsStay ==
  ASSUME OwnInv, UNCHANGED <<expo, nexp, rows>>,
         \A n \in Names : \/ cap'[n].src = "none"
                          \/ cap'[n] = cap[n] /\ spool'[n] = spool[n]
  PROVE  OwnInv'
BY DEF OwnInv, OwnInstants, StampOwn, Near

\* A cached instant stays that of the exposure its file is of.
LEMMA OwnStep ==
  ASSUME Sharp, IndInv, FilesInv, OwnInv, [Next]_vars
  PROVE  OwnInv'
<1>1. TypeOK /\ InHand /\ FileTypes
  BY FileTypesHold DEF IndInv
<1>3. CASE \/ UNCHANGED fileVars \/ Ticks \/ Rests \/ PollNext \/ BaselineTaken
           \/ \E n \in Names : Takes(n)
  <2>1. UNCHANGED <<expo, nexp, rows, cap, spool>>
    BY <1>3 DEF fileVars, Ticks, Rests, Takes, PollNext, PollLists, BaselineTaken, envVars,
       nodeVars, bodyVars, pullVars, logVars, nodeFiles, kept
  <2> QED BY <2>1, StampsStay
<1>4. ASSUME NEW n \in Names, SetsAside(n) PROVE OwnInv'
  <2>1. UNCHANGED <<expo, nexp, rows, spool>>
    BY <1>4 DEF SetsAside, nodeFiles, kept
  <2>2. \A m \in Names : cap'[m].src = "none" \/ cap'[m] = cap[m]
    BY <1>1, <1>4 DEF SetsAside, Freed, FileTypes, NoCap
  <2> QED BY <2>1, <2>2, StampsStay
<1>5. CASE ListNext
  <2>1. UNCHANGED <<expo, nexp, rows, spool>>
    BY <1>5 DEF ListNext, envVars, nodeVars, bodyVars, logVars
  <2>2. \A m \in Names : cap'[m].src = "none" \/ cap'[m] = cap[m]
    BY <1>1, <1>5 DEF ListNext, FileTypes, NoCap
  <2> QED BY <2>1, <2>2, StampsStay
<1>6. ASSUME NEW f \in landing, Lands(f) PROVE OwnInv'
  <2>1. UNCHANGED <<expo, nexp, rows, cap>>
    BY <1>6 DEF Lands, kept
  <2>2. \A n \in Names : spool'[n] = spool[n] \/ spool[n] = NoExp
    BY <1>1, <1>6 DEF Lands, FileTypes, FilesInv, Delivered
  <2>3. \A n \in Names : StampOwn(cap[n], spool'[n])
    BY <2>2 DEF OwnInv, StampOwn, NoExp
  <2> QED BY <2>1, <2>3 DEF OwnInv, OwnInstants, StampOwn, Near
<1>7. ASSUME NEW shot, NEW at, NEW kind, Shoots(shot, at, kind) PROVE OwnInv'
  <2>1. OwnInstants'
    BY <1>1, <1>7, ShootsApart DEF OwnInv
  <2>2. \A e \in 1..nexp : e \in 1..nexp' /\ expo'[e] = expo[e]
    BY <1>1, <1>7 DEF Shoots, FileTypes, Exps
  <2>3. UNCHANGED <<cap, spool, rows>>
    BY <1>7 DEF Shoots, kept
  <2> QED BY <2>1, <2>2, <2>3 DEF OwnInv, StampOwn, Near
<1>8. CASE Dates
  <2>1. UNCHANGED <<expo, nexp, rows, spool>> /\ Handling
    BY <1>8 DEF Dates, nodeFiles, kept, Handling
  <2>2. job.name \in Names /\ job.exp \in 1..nexp /\ job.exp = spool[job.name]
    BY <1>1, <2>1, InHandOnNode
  <2>3. CASE UNCHANGED cap
    BY <2>1, <2>3, StampsStay
  <2>4. ASSUME NEW cmd \in Commands, NEW src \in Sources,
               cap' = [cap EXCEPT ![job.name] = [cmd |-> cmd, src |-> src]],
               src = "command" /\ cmd # NoCmd =>
                   cmd = job.cmd /\ (Checkable => Delta \in (-Tol)..Tol)
        PROVE  OwnInv'
    <3>1. StampOwn([cmd |-> cmd, src |-> src], job.exp)
      BY <2>2, <2>4 DEF StampOwn, OwnInv, OwnInstants, Near, Delta, Sharp, Commands
    <3>2. \A n \in Names : cap'[n] = IF n = job.name THEN [cmd |-> cmd, src |-> src]
                                      ELSE cap[n]
      BY <1>1, <2>4 DEF FileTypes
    <3>3. \A n \in Names : StampOwn(cap'[n], spool[n])
      BY <2>2, <3>1, <3>2 DEF OwnInv
    <3> QED BY <2>1, <3>3 DEF OwnInv, OwnInstants, StampOwn, Near
  <2> QED BY <1>8, <2>3, <2>4 DEF Dates
<1>9. CASE Writes
  <2>1. UNCHANGED <<expo, nexp>> /\ Handling
    BY <1>9 DEF Writes, Handling
  <2>2. job.name \in Names /\ job.exp \in 1..nexp /\ job.exp = spool[job.name]
    BY <1>1, <2>1, InHandOnNode
  <2>3. \A n \in Names : StampOwn(cap'[n], spool'[n])
    <3>1. \A n \in Names : n # job.name => cap'[n] = cap[n] /\ spool'[n] = spool[n]
      BY <1>1, <1>9 DEF Writes, Freed, FileTypes
    <3>2. cap'[job.name] = NoCap
      BY <1>1, <1>9, <2>2 DEF Writes, Freed, FileTypes
    <3> QED BY <3>1, <3>2 DEF OwnInv, StampOwn, NoCap
  <2>4. \A r \in rows' : r.exp \in 1..nexp /\ StampOwn(r, r.exp)
    <3>1. StampOwn(cap[job.name], job.exp)
      BY <2>2 DEF OwnInv
    <3>2. \A r \in rows' : r \in rows \/ (r.exp = job.exp /\ r.cmd = cap[job.name].cmd
                                          /\ r.src = cap[job.name].src)
      BY <1>9 DEF Writes
    <3> QED BY <2>2, <3>1, <3>2 DEF OwnInv, StampOwn, Near
  <2> QED BY <2>1, <2>3, <2>4 DEF OwnInv, OwnInstants, StampOwn, Near
<1>10. CASE EnvNext
  BY <1>1, <1>3, <1>6, <1>7, <1>10, EnvDoes
<1>11. CASE WorkerNext
  BY <1>1, <1>3, <1>4, <1>5, <1>8, <1>9, <1>11, WorkerDoes
<1>12. CASE UNCHANGED vars
  <2>1. UNCHANGED fileVars
    BY <1>12, StutterStays
  <2> QED BY <1>3, <2>1
<1> QED BY <1>10, <1>11, <1>12 DEF Next

\* Before the run nothing is dated.
LEMMA OwnBegins ==
  ASSUME Init
  PROVE  OwnInv
<1>1. \A e \in Exps : expo[e].shot = NoCmd
  BY DEF Init
<1>2. 1..nexp \subseteq Exps
  BY PullAssumption DEF Init, Exps
<1>3. OwnInstants
  BY <1>1, <1>2 DEF OwnInstants
<1>4. \A n \in Names : StampOwn(cap[n], spool[n])
  BY DEF Init, StampOwn, NoCap
<1> QED BY <1>3, <1>4 DEF Init, OwnInv

-----------------------------------------------------------------------------
(***************************************************************************)
(* One row for each exposure.                                              *)
(***************************************************************************)
\* The file a row was written for is not on its way to another one.
RowsDone ==
    \A r \in rows : /\ r.exp \in 1..nexp /\ r.ext \in Formats
                    /\ \A n \in Names : OnNode(n, r.exp) /\ ExtOf(n) = r.ext =>
                                            spool[n] = r.exp /\ n \in seen

\* While a file of an exposure that has a row may come, its number is that row's.
RowsNoted ==
    \A r \in rows, n \in Names :
        OnNode(n, r.exp) => stem_dest[StemOf(n)].exp = r.exp

\* A file in hand that is to have a row is of an exposure that has none.
RowsNew == Handling /\ job.base = NoExp => \A r \in rows : r.exp # job.exp

RowInv == RowsDone /\ RowsNoted /\ RowsNew /\ OneRowPerExposure

\* A file still to be dealt with finds its release's sibling window open.
HalvesInTime ==
    \A n \in Listed \ seen :
        stem_dest[StemOf(n)].exp = spool[n] => SiblingWritten(StemOf(n))

\* Each exposure delivers one file.
OneFile == \A x, y \in Formats : x = y

\* A file taken in hand without a base name is of an exposure without a row.
LEMMA TakenIsNew ==
  ASSUME FileTypes, FilesInv, RowInv, OneFile \/ HalvesInTime,
         NEW n \in Names, Takes(n), job'.base = NoExp, NEW r \in rows
  PROVE  r.exp # job'.exp
<1> SUFFICES ASSUME r.exp = job'.exp PROVE FALSE
  OBVIOUS
<1>1. n \in Listed /\ n \notin seen
  BY DEF Takes, FilesInv, Tracked
<1>2. OnNode(n, r.exp) /\ r.exp = spool[n] /\ r.exp \in Exps
  BY PullAssumption DEF Takes, OnNode, RowInv, RowsDone, FileTypes, Exps
<1>3. CASE OneFile
  <2>1. ExtOf(n) = r.ext
    BY <1>2, <1>3, NameFacts DEF FilesInv, Delivered, OneFile, RowInv, RowsDone
  <2> QED BY <1>1, <1>2, <2>1 DEF RowInv, RowsDone
<1>4. CASE HalvesInTime
  <2>1. stem_dest[StemOf(n)].exp = r.exp
    BY <1>2 DEF RowInv, RowsNoted
  <2>2. SiblingWritten(StemOf(n))
    BY <1>1, <1>2, <1>4, <2>1 DEF HalvesInTime
  <2>3. r.exp # NoExp
    BY <1>2 DEF Exps, NoExp
  <2> QED BY <2>1, <2>2, <2>3 DEF Takes
<1> QED BY <1>3, <1>4

LEMMA RowsStay ==
  ASSUME FileTypes, FilesInv, RowInv, OneFile \/ HalvesInTime,
         UNCHANGED <<nexp, rows, stem_dest>>, Listed \cap seen \subseteq seen',
         \A n \in Names, e \in Exps :
            OnNode(n, e)' => OnNode(n, e) /\ (spool[n] = e => spool'[n] = e),
         Handling' => \/ Handling /\ job'.exp = job.exp /\ job'.base = job.base
                      \/ \E n \in Names : Takes(n)
  PROVE  RowInv'
<1>1. \A r \in rows : r.exp \in Exps /\ r.exp # NoExp
  BY PullAssumption DEF RowInv, RowsDone, FileTypes, Exps, NoExp
<1>2. RowsDone' /\ RowsNoted'
  BY <1>1 DEF RowInv, RowsDone, RowsNoted, Listed
<1>3. RowsNew'
  BY TakenIsNew DEF RowInv, RowsNew
<1>4. OneRowPerExposure'
  BY DEF RowInv, OneRowPerExposure
<1> QED BY <1>2, <1>3, <1>4 DEF RowInv

\* A row that is written is the first of its exposure.
LEMMA RowWritten ==
  ASSUME FileTypes, FilesInv, RowInv, Writes
  PROVE  RowInv'
<1>0. Handling
  BY DEF Writes, Handling
<1>1. /\ job.name \in Names /\ job.exp \in Exps /\ job.exp \in 1..nexp
      /\ job.exp = spool[job.name] /\ job.name \in FilesOf(job.exp)
      /\ OnNode(job.name, job.exp) /\ ExtOf(job.name) \in Formats
      /\ job.name \in pending /\ job.name \notin seen
  BY <1>0, InHandOnNode, NameFacts DEF FilesInv, Tracked
<1>2. \A n \in Names : spool'[n] = spool[n] \/ (n = job.name /\ spool'[n] = NoExp)
  BY DEF Writes, FileTypes
<1>3. \A n \in Names, e \in Exps : OnNode(n, e)' => OnNode(n, e)
  BY <1>2 DEF Writes, OnNode, Exps, NoExp
<1>4. \A r \in rows' : \/ r \in rows
                       \/ r.exp = job.exp /\ r.ext = ExtOf(job.name) /\ job.base = NoExp
  BY DEF Writes
<1>5. \A r \in rows : r.exp \in Exps
  BY PullAssumption DEF RowInv, RowsDone, FileTypes, Exps
<1>6. \A r \in rows' : r.exp \in 1..nexp' /\ r.ext \in Formats /\ r.exp \in Exps
  BY <1>1, <1>4, <1>5 DEF Writes, RowInv, RowsDone
<1>7. ASSUME NEW r \in rows', NEW n \in Names, OnNode(n, r.exp)', ExtOf(n) = r.ext
      PROVE  spool'[n] = r.exp /\ n \in seen'
  <2>1. OnNode(n, r.exp)
    BY <1>3, <1>6, <1>7
  <2>2. spool[n] = r.exp /\ n \in seen \cup {job.name}
    <3>1. CASE r \in rows
      BY <1>7, <2>1, <3>1 DEF RowInv, RowsDone
    <3>2. CASE r.exp = job.exp /\ r.ext = ExtOf(job.name)
      <4>1. n \in FilesOf(job.exp)
        BY <1>1, <2>1, <3>2 DEF FilesInv, Delivered
      <4>2. n = job.name
        BY <1>1, <1>7, <3>2, <4>1, NameFacts
      <4> QED BY <1>1, <3>2, <4>2
    <3> QED BY <1>4, <3>1, <3>2
  <2>3. [exp |-> r.exp, name |-> n] \notin landing
    BY <1>6, <2>2 DEF FilesInv, Delivered, Exps, NoExp
  <2> QED BY <1>7, <2>2, <2>3 DEF Writes, Freed, OnNode
<1>8. RowsDone'
  BY <1>6, <1>7 DEF RowsDone
<1>9. ASSUME NEW r \in rows', NEW n \in Names, OnNode(n, r.exp)'
      PROVE  stem_dest'[StemOf(n)].exp = r.exp
  <2>1. OnNode(n, r.exp)
    BY <1>3, <1>6, <1>9
  <2>2. CASE StemOf(n) = StemOf(job.name) /\ job.base = NoExp
    <3>1. r.exp = job.exp
      BY <1>1, <1>6, <2>1, <2>2 DEF FilesInv, OneNumber
    <3>2. stem_dest'[StemOf(n)].exp = job.exp
      BY <1>1, <2>2, NameTypes DEF Writes, FileTypes
    <3> QED BY <3>1, <3>2
  <2>3. CASE ~(StemOf(n) = StemOf(job.name) /\ job.base = NoExp)
    <3>1. stem_dest'[StemOf(n)] = stem_dest[StemOf(n)]
      BY <2>3, NameTypes DEF Writes, FileTypes
    <3>2. r.exp = job.exp => StemOf(n) = StemOf(job.name)
      BY <1>1, <2>1, NameFacts DEF FilesInv, Delivered
    <3>3. r \in rows
      BY <1>4, <2>3, <3>2
    <3> QED BY <2>1, <3>1, <3>3 DEF RowInv, RowsNoted
  <2> QED BY <2>2, <2>3
<1>10. RowsNew'
  BY DEF RowsNew, Handling, Writes
<1>11. OneRowPerExposure'
  BY <1>0 DEF RowInv, RowsNew, OneRowPerExposure, Writes
<1> QED BY <1>8, <1>9, <1>10, <1>11 DEF RowInv, RowsNoted

\* Every step keeps the rows and the numbers they are noted under in step.
LEMMA RowStep ==
  ASSUME IndInv, FilesInv, RowInv, OneFile \/ HalvesInTime, [Next]_vars
  PROVE  RowInv'
<1>1. TypeOK /\ InHand /\ FileTypes
  BY FileTypesHold DEF IndInv
<1>2. CASE \/ UNCHANGED fileVars \/ Ticks \/ Rests \/ Dates
           \/ \E n \in Names : SetsAside(n) \/ Takes(n)
  <2>1. UNCHANGED <<nexp, rows, stem_dest, spool, landing>> /\ seen \subseteq seen'
    BY <1>2 DEF fileVars, Ticks, Rests, Dates, SetsAside, Takes, Freed, nodeFiles, kept
  <2>3. Handling' => \/ Handling /\ job'.exp = job.exp /\ job'.base = job.base
                     \/ \E n \in Names : Takes(n)
    BY <1>2 DEF fileVars, Ticks, Rests, Dates, SetsAside, Handling
  <2>4. \A n \in Names, e \in Exps : OnNode(n, e)' <=> OnNode(n, e)
    BY <2>1 DEF OnNode
  <2> QED BY <1>1, <2>1, <2>3, <2>4, RowsStay
<1>3. CASE BaselineTaken \/ PollNext \/ ListNext
  <2>1. UNCHANGED <<nexp, rows, stem_dest, spool, landing, clock>>
    BY <1>3 DEF PollNext, PollLists, ListNext, BaselineTaken, envVars, nodeVars, bodyVars,
                timeVars, logVars
  <2>2. Listed \cap seen \subseteq seen' /\ ~Handling'
    BY <1>3 DEF PollNext, PollLists, ListNext, BaselineTaken, keepVars, Handling, Resting
  <2>3. \A n \in Names, e \in Exps : OnNode(n, e)' <=> OnNode(n, e)
    BY <2>1 DEF OnNode
  <2> QED BY <1>1, <2>1, <2>2, <2>3, RowsStay
<1>4. ASSUME NEW f \in landing, Lands(f) PROVE RowInv'
  <2>1. f \in [exp : Exps, name : Names] /\ f = [exp |-> f.exp, name |-> f.name]
        /\ spool[f.name] = NoExp
    BY <1>1 DEF FileTypes, FilesInv, Delivered
  <2>2. \A n \in Names : spool'[n] = IF n = f.name THEN f.exp ELSE spool[n]
    BY <1>1, <1>4 DEF Lands, FileTypes
  <2>3. \A n \in Names, e \in Exps :
           OnNode(n, e)' => OnNode(n, e) /\ (spool[n] = e => spool'[n] = e)
    BY <1>4, <2>1, <2>2 DEF OnNode, Lands, Exps, NoExp
  <2>4. UNCHANGED <<nexp, rows, stem_dest, clock, seen, phase, job>>
    BY <1>4 DEF Lands, kept
  <2>5. Handling' <=> Handling
    BY <2>4 DEF Handling
  <2> QED BY <1>1, <2>3, <2>4, <2>5, RowsStay
<1>5. ASSUME NEW shot, NEW at, NEW kind, Shoots(shot, at, kind) PROVE RowInv'
  <2>1. nexp' = nexp + 1 /\ nexp \in Nat
        /\ UNCHANGED <<rows, stem_dest, spool, clock, seen, phase, job>>
    BY <1>1, <1>5 DEF Shoots, kept, FileTypes
  <2>2. landing' = landing \cup {[exp |-> nexp + 1, name |-> n] : n \in FilesOf(nexp + 1)}
    BY <1>5 DEF Shoots
  <2>3. ASSUME NEW n \in Names, NEW e \in 1..nexp, OnNode(n, e)' PROVE OnNode(n, e)
    <3>1. e # nexp + 1
      BY <2>1
    <3> QED BY <2>1, <2>2, <2>3, <3>1 DEF OnNode
  <2>4. \A r \in rows : r.exp \in 1..nexp /\ r.exp \in 1..nexp'
    BY <2>1 DEF RowInv, RowsDone
  <2>5. RowsDone'
    BY <2>1, <2>3, <2>4 DEF RowInv, RowsDone
  <2>6. RowsNoted' /\ RowsNew'
    BY <2>1, <2>3, <2>4 DEF RowInv, RowsNoted, RowsNew, Handling
  <2> QED BY <2>1, <2>5, <2>6 DEF RowInv, OneRowPerExposure
<1>6. CASE Writes
  BY <1>1, <1>6, RowWritten
<1>7. CASE EnvNext
  BY <1>1, <1>2, <1>4, <1>5, <1>7, EnvDoes
<1>8. CASE WorkerNext
  BY <1>1, <1>2, <1>3, <1>6, <1>8, WorkerDoes
<1>9. CASE UNCHANGED vars
  <2>1. UNCHANGED fileVars
    BY <1>9, StutterStays
  <2> QED BY <1>2, <2>1
<1> QED BY <1>7, <1>8, <1>9 DEF Next

-----------------------------------------------------------------------------
(***************************************************************************)
(* Calibration exposures.                                                  *)
(***************************************************************************)
\* While a pass is on the worker is quiet and no shot is fired; what the pass
\* listed before its fire is all that is on the node besides its own exposure.
PassAlone ==
    /\ calib.state # "none" => quiet /\ NoShotInFlight
    /\ calib.state = "fire" => landing = {} /\ Listed \subseteq calib.names
    /\ calib.state = "wait" =>
          \A n \in Names, e \in Exps : OnNode(n, e) => e = nexp \/ n \in calib.names

\* A step that exposes nothing and is none of a pass's.
PassRests ==
    /\ UNCHANGED <<expo, nexp, calVars>> /\ (stopev => stopev')
    /\ calib.state # "none" => NoShotInFlight'
    /\ landing' \subseteq landing /\ (calib.state = "fire" => Listed' \subseteq Listed)
    /\ \A n \in Names, e \in Exps : OnNode(n, e)' => OnNode(n, e)
    /\ pending' \cup fresh' \subseteq pending \cup fresh \/ (~quiet /\ ~stopev)
    /\ Handling' => \/ Handling /\ job'.exp = job.exp
                    \/ \E n \in Names : Takes(n)
    /\ \A h \in host' : h \in host \/ (Handling /\ h.exp = job.exp)

\* An exposure that no pass fires.
SurveyShoots ==
    /\ \E shot, at : Shoots(shot, at, "survey")
    /\ calib.state = "none" /\ UNCHANGED <<calVars, stopev>>

\* The worker's steps leave a pass alone.
LEMMA WorkerLeavesPass ==
  ASSUME IndInv, FilesInv, PassAlone, WorkerNext
  PROVE  PassRests
<1>1. TypeOK /\ InHand /\ FileTypes
  BY FileTypesHold DEF IndInv
<1>2. UNCHANGED <<calVars, stopev, fires>>
  BY <1>1, WorkerDoes
<1>3. calib.state # "none" => NoShotInFlight'
  BY <1>2 DEF PassAlone, NoShotInFlight, Settled
<1>4. CASE \/ UNCHANGED fileVars \/ Rests \/ Dates
           \/ \E n \in Names : SetsAside(n) \/ Takes(n)
  <2>1. /\ UNCHANGED <<expo, nexp, landing, spool, host, fresh>>
        /\ pending' \subseteq pending
    BY <1>4 DEF fileVars, Rests, Dates, SetsAside, Takes, Freed, nodeFiles, kept
  <2>2. Handling' => \/ Handling /\ job'.exp = job.exp
                     \/ \E n \in Names : Takes(n)
    BY <1>4 DEF fileVars, Rests, Dates, SetsAside, Handling
  <2>3. Listed' = Listed /\ \A n \in Names, e \in Exps : OnNode(n, e)' <=> OnNode(n, e)
    BY <2>1 DEF OnNode, Listed
  <2> QED BY <1>1, <1>2, <1>3, <2>1, <2>2, <2>3 DEF PassRests
<1>5. CASE BaselineTaken \/ PollNext \/ ListNext
  <2>1. UNCHANGED <<expo, nexp, landing, spool, host>>
    BY <1>5 DEF PollNext, PollLists, ListNext, BaselineTaken, envVars, nodeVars, bodyVars,
                logVars
  <2>2. pending' \cup fresh' \subseteq pending \cup fresh \/ (~quiet /\ ~stopev)
    <3>1. CASE BaselineTaken
      BY <3>1 DEF BaselineTaken, pullVars
    <3>2. CASE PollNext
      BY <3>2 DEF PollNext, PollLists, pullVars
    <3>3. CASE ListNext
      BY <1>1, <3>3, NextFileIn DEF ListNext
    <3> QED BY <1>5, <3>1, <3>2, <3>3
  <2>3. ~Handling'
    BY <1>5 DEF PollNext, PollLists, ListNext, BaselineTaken, Handling, Resting
  <2>4. Listed' = Listed /\ \A n \in Names, e \in Exps : OnNode(n, e)' <=> OnNode(n, e)
    BY <2>1 DEF OnNode, Listed
  <2> QED BY <1>1, <1>2, <1>3, <2>1, <2>2, <2>3, <2>4 DEF PassRests
<1>6. CASE Writes
  <2>1. \A n \in Names : spool'[n] = spool[n] \/ spool'[n] = NoExp
    BY <1>1, <1>6 DEF Writes, FileTypes
  <2>2. Listed' \subseteq Listed /\ \A n \in Names, e \in Exps : OnNode(n, e)' => OnNode(n, e)
    BY <1>6, <2>1 DEF Writes, OnNode, Listed, Exps, NoExp
  <2>3. /\ UNCHANGED <<expo, nexp, landing, fresh>> /\ pending' \subseteq pending
        /\ ~Handling' /\ Handling
    BY <1>6 DEF Writes, Freed, Handling
  <2>4. \A h \in host' : h \in host \/ h.exp = job.exp
    BY <1>6 DEF Writes
  <2> QED BY <1>1, <1>2, <1>3, <2>2, <2>3, <2>4 DEF PassRests
<1> QED BY <1>1, <1>4, <1>5, <1>6, WorkerDoes

\* What a step does to a pass.
LEMMA PassDoes ==
  ASSUME IndInv, FilesInv, PassAlone, [Next]_vars
  PROVE  PassRests \/ SurveyShoots \/ CalBegin \/ CalFires \/ CalSees \/ CalEnds
<1>1. TypeOK /\ InHand /\ FileTypes
  BY FileTypesHold DEF IndInv
<1> USE DEF nodeVars, bodyVars, timeVars, calVars, claimVars, ownVars, keepVars, pullVars,
            logVars, fileVars, nodeFiles, kept
<1>2. ASSUME NEW s \in Shots, NoteCommand(s) \/ FireOk(s) \/ FireFails(s) PROVE PassRests
  <2>1. calib.state = "none"
    <3>1. CASE NoteCommand(s)
      BY <3>1 DEF NoteCommand
    <3>2. CASE FireOk(s) \/ FireFails(s)
      BY <3>2 DEF FireOk, FireFails, PassAlone, NoShotInFlight, Settled
    <3> QED BY <1>2, <3>1, <3>2
  <2>2. UNCHANGED <<expo, nexp, landing, spool, host, stopev, pending, fresh, job, phase>>
        /\ UNCHANGED calVars
    BY <1>2 DEF NoteCommand, FireOk, FireFails
  <2>3. Listed' = Listed /\ (\A n \in Names, e \in Exps : OnNode(n, e)' <=> OnNode(n, e))
        /\ (Handling' <=> Handling)
    BY <2>2 DEF OnNode, Listed, Handling
  <2> QED BY <1>1, <2>1, <2>2, <2>3 DEF PassRests
<1>3. ASSUME NEW s \in Shots, FireExposes(s) PROVE SurveyShoots
  <2>1. calib.state = "none"
    BY <1>3 DEF FireExposes, PassAlone, NoShotInFlight, Settled
  <2>2. Shoots(s, Epoch(s), "survey") /\ UNCHANGED <<calVars, stopev>>
    BY <1>3 DEF FireExposes, Expose, Shoots
  <2> QED BY <2>1, <2>2 DEF SurveyShoots
<1>4. ASSUME NEW t \in Presses, BodyExposes(t) PROVE SurveyShoots
  <2>1. Shoots(NoCmd, t, "survey") /\ UNCHANGED <<calVars, stopev>>
    BY <1>4 DEF BodyExposes, Expose, Shoots
  <2> QED BY <1>4, <2>1 DEF BodyExposes, SurveyShoots
<1>5. ASSUME NEW f \in landing, Land(f) PROVE PassRests
  <2>1. /\ UNCHANGED <<expo, nexp, host, stopev, pending, fresh, job, phase, fires>>
        /\ UNCHANGED calVars /\ landing' \subseteq landing
    BY <1>5 DEF Land
  <2>2. f \in [exp : Exps, name : Names] /\ f = [exp |-> f.exp, name |-> f.name]
    BY <1>1 DEF FileTypes
  <2>3. \A n \in Names : spool'[n] = IF n = f.name THEN f.exp ELSE spool[n]
    BY <1>1, <1>5 DEF Land, FileTypes
  <2>4. \A n \in Names, e \in Exps : OnNode(n, e)' => OnNode(n, e)
    BY <2>1, <2>2, <2>3 DEF OnNode
  <2>5. calib.state # "fire" /\ (calib.state # "none" => NoShotInFlight')
    BY <2>1 DEF PassAlone, NoShotInFlight, Settled
  <2>6. Handling' <=> Handling
    BY <2>1 DEF Handling
  <2> QED BY <1>1, <2>1, <2>4, <2>5, <2>6 DEF PassRests
<1>6. CASE Tick \/ StopWorker \/ UNCHANGED vars
  <2>1. UNCHANGED <<expo, nexp, landing, spool, host, pending, fresh, job, phase, fires>>
        /\ UNCHANGED calVars /\ (stopev => stopev')
    BY <1>6 DEF Tick, StopWorker, vars, envVars
  <2>2. Listed' = Listed /\ (\A n \in Names, e \in Exps : OnNode(n, e)' <=> OnNode(n, e))
        /\ (Handling' <=> Handling) /\ (calib.state # "none" => NoShotInFlight')
    BY <2>1 DEF OnNode, Listed, Handling, NoShotInFlight, Settled, PassAlone
  <2> QED BY <1>1, <2>1, <2>2 DEF PassRests
<1>7. CASE WorkerNext
  BY <1>7, WorkerLeavesPass
<1> QED BY <1>2, <1>3, <1>4, <1>5, <1>6, <1>7
        DEF Next, EnvNext, CaptureNext, BodyNext, CalNext

\* What the steps of a pass leave alone.
LEMMA PassFrame ==
  ASSUME CalBegin \/ CalSees \/ CalEnds
  PROVE  /\ UNCHANGED <<expo, nexp, landing, spool, host, seen, unpulled, stopev, fires>>
         /\ UNCHANGED <<pending, fresh, job, phase>>
BY DEF CalBegin, CalSees, CalEnds, nodeVars, bodyVars, ownVars, keepVars, pullVars, logVars

LEMMA CalFireDoes ==
  ASSUME TypeOK, CalFires
  PROVE  /\ nexp \in Nat /\ nexp + 1 \in Exps /\ nexp' = nexp + 1
         /\ calib.state = "fire" /\ calib'.state = "wait" /\ calib'.names = calib.names
         /\ UNCHANGED <<spool, host, seen, unpulled, pending, fresh, job, phase>>
         /\ UNCHANGED <<stopev, fires, quiet, calNames>>
         /\ landing' = landing \cup
                          {[exp |-> nexp + 1, name |-> n] : n \in FilesOf(nexp + 1)}
         /\ \A n \in FilesOf(nexp + 1) : spool[n] = NoExp
         /\ expo'[nexp + 1].kind = "calibration"
         /\ \A e \in 1..nexp : e \in Exps /\ expo'[e] = expo[e]
<1>0. PICK t \in Presses : CalFire(t)
  BY DEF CalFires
<1>1. nexp < MaxExp /\ nexp' = nexp + 1
  BY <1>0 DEF CalFire, Expose
<1>2. nexp \in Nat /\ nexp + 1 \in Exps
  BY <1>1, PullAssumption DEF Exps, TypeOK, NodeType
<1>3. calib.state = "fire" /\ calib'.state = "wait" /\ calib'.names = calib.names
  BY <1>0 DEF CalFire, TypeOK, NodeType
<1>4. /\ UNCHANGED <<spool, host, seen, unpulled, pending, fresh, job, phase>>
      /\ UNCHANGED <<stopev, fires, quiet, calNames>>
  BY <1>0 DEF CalFire, Expose, ownVars, keepVars, pullVars, logVars
<1>5. expo' = [expo EXCEPT ![nexp + 1] = [shot |-> NoCmd, at |-> t, kind |-> "calibration"]]
  BY <1>0 DEF CalFire, Expose
<1>6. \A e \in 1..nexp : e \in Exps /\ e # nexp + 1
  BY <1>1, <1>2, PullAssumption DEF Exps
<1>7. /\ expo'[nexp + 1].kind = "calibration"
      /\ \A e \in 1..nexp : e \in Exps /\ expo'[e] = expo[e]
  BY <1>2, <1>5, <1>6 DEF TypeOK, NodeType
<1> QED BY <1>0, <1>1, <1>2, <1>3, <1>4, <1>7 DEF CalFire, Expose

\* A pass has the node to itself.
LEMMA AloneStep ==
  ASSUME IndInv, FilesInv, PassAlone, [Next]_vars
  PROVE  PassAlone'
<1>1. TypeOK /\ FileTypes
  BY FileTypesHold DEF IndInv
<1>2. CASE PassRests
  BY <1>2 DEF PassRests, PassAlone, calVars
<1>3. CASE SurveyShoots
  BY <1>3 DEF SurveyShoots, PassAlone, calVars
<1>4. CASE CalBegin \/ CalSees \/ CalEnds
  <2>1. (NoShotInFlight' <=> NoShotInFlight) /\ Listed' = Listed
    BY <1>4, PassFrame DEF NoShotInFlight, Settled, Listed
  <2>2. CASE CalBegin
    BY <2>1, <2>2, PassFrame DEF CalBegin, PassAlone
  <2>3. CASE CalSees
    BY <2>1, <2>3 DEF CalSees, PassAlone
  <2>4. CASE CalEnds
    BY <2>4 DEF CalEnds, PassAlone
  <2> QED BY <1>4, <2>2, <2>3, <2>4
<1>5. CASE CalFires
  <2>1. quiet' /\ NoShotInFlight'
    BY <1>1, <1>5, CalFireDoes DEF PassAlone, NoShotInFlight, Settled
  <2>2. \A n \in Names, e \in Exps : OnNode(n, e) => n \in calib.names
    BY <1>1, <1>5, CalFireDoes DEF PassAlone, OnNode, Listed, Exps, NoExp
  <2>3. \A n \in Names, e \in Exps : OnNode(n, e)' => OnNode(n, e) \/ e = nexp'
    <3> DEFINE x == nexp + 1
    <3>1. /\ nexp' = x /\ spool' = spool
          /\ landing' = landing \cup {[exp |-> x, name |-> n] : n \in FilesOf(x)}
      BY <1>1, <1>5, CalFireDoes
    <3> HIDE DEF x
    <3> QED BY <3>1 DEF OnNode
  <2> QED BY <1>1, <1>5, <2>1, <2>2, <2>3, CalFireDoes DEF PassAlone
<1> QED BY <1>2, <1>3, <1>4, <1>5, PassDoes

IsCal(e) == expo[e].kind = "calibration"

\* A calibration file the worker does not know as one.
Unnamed(n, e) == OnNode(n, e) /\ IsCal(e) /\ n \notin calNames

\* The worker has not listed it; its pass is still on, or the run is over.
UnnamedUnlisted ==
    \A n \in Names, e \in Exps : Unnamed(n, e) =>
        /\ n \notin pending \cup fresh
        /\ \/ stopev
           \/ calib.state = "wait" /\ e = nexp
           \/ calib.state = "named" /\ n \in calib.names

SurveyInHand == Handling => ~IsCal(job.exp)

CalInv == UnnamedUnlisted /\ SurveyInHand /\ CalibrationKeptOut

\* A step that exposes nothing and is none of a pass's.
LEMMA PassStays ==
  ASSUME FileTypes, FilesInv, PassAlone, CalInv, PassRests
  PROVE  CalInv'
<1>1. ASSUME NEW n \in Names, NEW e \in Exps, Unnamed(n, e)'
      PROVE  Unnamed(n, e) /\ n \notin pending' \cup fresh'
  <2>1. Unnamed(n, e)
    BY <1>1 DEF Unnamed, IsCal, calVars, PassRests
  <2>2. ~quiet => stopev
    BY <2>1 DEF CalInv, UnnamedUnlisted, PassAlone
  <2> QED BY <2>1, <2>2 DEF CalInv, UnnamedUnlisted, PassRests
<1>2. UnnamedUnlisted'
  BY <1>1 DEF CalInv, UnnamedUnlisted, calVars, PassRests
<1>3. ASSUME NEW n \in Names, Takes(n) PROVE ~IsCal(job'.exp)
  <2>1. OnNode(n, job'.exp) /\ job'.exp \in Exps /\ n \in pending /\ n \notin calNames
    BY <1>3 DEF Takes, OnNode, FileTypes, Exposures, FilesInv, Tracked
  <2> QED BY <2>1 DEF CalInv, UnnamedUnlisted, Unnamed
<1>4. SurveyInHand'
  BY <1>3 DEF CalInv, SurveyInHand, IsCal, PassRests
<1>5. CalibrationKeptOut'
  BY DEF CalInv, SurveyInHand, IsCal, CalibrationKeptOut, PassRests
<1> QED BY <1>2, <1>4, <1>5 DEF CalInv

\* An exposure that no pass fires.
LEMMA PassExposure ==
  ASSUME FileTypes, FilesInv, CalInv, SurveyShoots
  PROVE  CalInv'
<1>0. PICK shot, at : Shoots(shot, at, "survey")
  BY DEF SurveyShoots
<1>1. /\ nexp + 1 \in Exps /\ nexp \in Nat
      /\ UNCHANGED <<spool, host, pending, fresh, job, phase>>
  BY <1>0, PullAssumption DEF Shoots, kept, Exps, FileTypes
<1>2. landing' = landing \cup {[exp |-> nexp + 1, name |-> n] : n \in FilesOf(nexp + 1)}
  BY <1>0 DEF Shoots
<1>3. \A e \in 1..nexp : IsCal(e)' <=> IsCal(e)
  BY <1>0, <1>1 DEF Shoots, IsCal, FileTypes, Exps
<1>4. expo'[nexp + 1].kind # "calibration"
  BY <1>0, <1>1 DEF Shoots, FileTypes
<1>5. ASSUME NEW n \in Names, NEW e \in Exps, Unnamed(n, e)' PROVE Unnamed(n, e)
  <2>1. e # nexp + 1 /\ OnNode(n, e)'
    BY <1>4, <1>5 DEF Unnamed, IsCal
  <2>2. OnNode(n, e)
    BY <1>1, <1>2, <2>1 DEF OnNode
  <2>3. e \in 1..nexp
    BY <1>1, <2>2 DEF FilesInv, Delivered, Exps
  <2> QED BY <1>3, <1>5, <2>2, <2>3 DEF Unnamed, calVars, SurveyShoots
<1>6. UnnamedUnlisted'
  BY <1>1, <1>5 DEF CalInv, UnnamedUnlisted, calVars, SurveyShoots
<1>8. SurveyInHand'
  BY <1>1, <1>3, InHandOnNode DEF CalInv, SurveyInHand, Handling
<1>9. CalibrationKeptOut'
  BY <1>1, <1>3 DEF CalInv, CalibrationKeptOut, IsCal, FilesInv, Filed
<1> QED BY <1>6, <1>8, <1>9 DEF CalInv

\* A pass begins on a node at rest and names the one file its fire left.
LEMMA PassEnds ==
  ASSUME FileTypes, FilesInv, PassAlone, CalInv, OneFile, CalBegin \/ CalSees \/ CalEnds
  PROVE  CalInv'
<1>1. /\ UNCHANGED <<expo, nexp, landing, spool, host, stopev>>
      /\ UNCHANGED <<pending, fresh, job, phase>>
  BY PassFrame
<1>2. SurveyInHand' /\ CalibrationKeptOut'
  BY <1>1 DEF CalInv, SurveyInHand, CalibrationKeptOut, IsCal, Handling
<1>3. \A n \in Names, e \in Exps :
         (OnNode(n, e)' <=> OnNode(n, e)) /\ (Unnamed(n, e)' => Unnamed(n, e))
  BY <1>1 DEF OnNode, Unnamed, IsCal, CalBegin, CalSees, CalEnds
<1>4. \A n \in Names, e \in Exps : Unnamed(n, e)' => n \notin pending' \cup fresh'
  BY <1>1, <1>3 DEF CalInv, UnnamedUnlisted
<1>6. CASE CalBegin
  <2>1. UnnamedUnlisted'
    BY <1>3, <1>4, <1>6 DEF CalBegin, CalInv, UnnamedUnlisted
  <2> QED BY <1>2, <2>1 DEF CalInv
<1>7. CASE CalSees
  <2>1. ASSUME NEW n \in Names, NEW e \in Exps, Unnamed(n, e), ~stopev
        PROVE  n \in CalNew
    <3>1. e = nexp /\ n \in FilesOf(e)
      BY <1>7, <2>1 DEF CalSees, CalInv, UnnamedUnlisted, Unnamed, FilesInv, Delivered
    <3>2. PICK m \in CalNew : m \in Listed /\ m \notin calib.names
      BY <1>7 DEF CalSees, CalNew
    <3>3. m \in Names /\ spool[m] \in Exps /\ OnNode(m, spool[m])
      BY <3>2 DEF Listed, FileTypes, Exposures, OnNode
    <3>4. spool[m] = nexp
      BY <1>7, <3>2, <3>3 DEF CalSees, PassAlone
    <3>5. m \in FilesOf(e)
      BY <3>1, <3>3, <3>4 DEF FilesInv, Delivered
    <3> QED BY <3>1, <3>2, <3>5 DEF FilesOf, OneFile
  <2>2. calib' = [calib EXCEPT !.state = "named", !.names = CalNew] /\ calib.state = "wait"
    BY <1>7 DEF CalSees
  <2>3. UnnamedUnlisted'
    BY <1>1, <1>3, <1>4, <2>1, <2>2 DEF UnnamedUnlisted
  <2> QED BY <1>2, <2>3 DEF CalInv
<1>8. CASE CalEnds
  <2>1. ASSUME NEW n \in Names, NEW e \in Exps, Unnamed(n, e)' PROVE stopev'
    BY <1>1, <1>3, <1>8, <2>1 DEF CalEnds, Unnamed, CalInv, UnnamedUnlisted
  <2>2. UnnamedUnlisted'
    BY <1>4, <2>1 DEF UnnamedUnlisted
  <2> QED BY <1>2, <2>2 DEF CalInv
<1> QED BY <1>6, <1>7, <1>8

\* The exposure of a pass.
LEMMA PassFires ==
  ASSUME TypeOK, FileTypes, FilesInv, CalInv, CalFires
  PROVE  CalInv'
<1> DEFINE x == nexp + 1
<1>1. /\ x \in Exps /\ nexp' = x /\ nexp \in Nat
      /\ calib.state = "fire" /\ calib'.state = "wait"
      /\ UNCHANGED <<spool, host, pending, fresh, job, phase, stopev, calNames>>
      /\ landing' = landing \cup {[exp |-> x, name |-> n] : n \in FilesOf(x)}
      /\ \A n \in FilesOf(x) : spool[n] = NoExp
  BY CalFireDoes
<1>2. \A e \in 1..nexp : IsCal(e)' <=> IsCal(e)
  <2>1. \A e \in 1..nexp : expo'[e] = expo[e]
    BY CalFireDoes
  <2> QED BY <2>1 DEF IsCal
<1>3. \A n \in Names, e \in Exps : OnNode(n, e)' => OnNode(n, e) \/ e = x
  <2> HIDE DEF x
  <2> QED BY <1>1 DEF OnNode
<1>4. ASSUME NEW n \in Names, NEW e \in Exps, OnNode(n, e)'
      PROVE  n \notin pending \cup fresh \/ OnNode(n, e)
  <2>1. CASE [exp |-> e, name |-> n] \in landing'
    BY <1>1, <2>1 DEF OnNode, FilesInv, Tracked, Listed
  <2>2. CASE spool'[n] = e
    BY <1>1, <2>2 DEF OnNode
  <2> QED BY <1>4, <2>1, <2>2 DEF OnNode
<1>5. ASSUME NEW n \in Names, NEW e \in Exps, Unnamed(n, e)'
      PROVE  n \notin pending \cup fresh /\ (stopev \/ e = x)
  <2>1. CASE OnNode(n, e)
    <3>1. e \in 1..nexp
      BY <1>1, <2>1 DEF FilesInv, Delivered, Exps
    <3>2. Unnamed(n, e)
      BY <1>1, <1>2, <1>5, <2>1, <3>1 DEF Unnamed
    <3> QED BY <1>1, <3>2 DEF CalInv, UnnamedUnlisted
  <2>2. CASE ~OnNode(n, e)
    BY <1>3, <1>4, <1>5, <2>2 DEF Unnamed
  <2> QED BY <2>1, <2>2
<1>6. UnnamedUnlisted'
  BY <1>1, <1>5 DEF UnnamedUnlisted
<1>8. SurveyInHand'
  BY <1>1, <1>2, InHandOnNode DEF CalInv, SurveyInHand, Handling
<1>9. CalibrationKeptOut'
  BY <1>1, <1>2 DEF CalInv, CalibrationKeptOut, IsCal, FilesInv, Filed
<1> QED BY <1>6, <1>8, <1>9 DEF CalInv

\* Every step keeps calibration files from the worker, or known to it.
LEMMA CalStep ==
  ASSUME OneFile, IndInv, FilesInv, PassAlone, CalInv, [Next]_vars
  PROVE  CalInv'
<1>1. TypeOK /\ FileTypes
  BY FileTypesHold DEF IndInv
<1> QED BY <1>1, PassDoes, PassStays, PassExposure, PassEnds, PassFires

-----------------------------------------------------------------------------
(***************************************************************************)
(* No frame vanishes.                                                      *)
(***************************************************************************)
\* The camera numbers do not come round within the run, and what is on the node
\* when the baseline is taken is told from what was there before the run.
NoRollover    == MaxExp <= NStems
BaselineSorts == (Remembered /\ Adopted) \/ (AwayExp = 0 /\ ~EarlyFire)

\* A name is of one exposure.
LEMMA NamesOnce ==
  ASSUME NoRollover, NEW d \in Exps, NEW e \in Exps, NEW n \in FilesOf(d), n \in FilesOf(e)
  PROVE  d = e
<1>1. \A c \in Exps : StemOfExp(c) = c
  <2> SUFFICES ASSUME NEW c \in Exps PROVE StemOfExp(c) = c
    OBVIOUS
  <2>1. c - 1 \in 0..(NStems - 1) /\ NStems \in Nat \ {0} /\ c \in Int
    BY PullAssumption DEF Exps, NoRollover
  <2>2. (c - 1) % NStems = c - 1
    BY <2>1
  <2> QED BY <2>1, <2>2 DEF StemOfExp
<1>2. StemOf(n) = StemOfExp(d) /\ StemOf(n) = StemOfExp(e)
  BY NameFacts
<1> QED BY <1>1, <1>2

\* What the worker has seen was on the node, and what landed was not seen.
SeenPast == /\ \A n \in seen : \E e \in 1..nexp : n \in FilesOf(e)
            /\ \A f \in landing : f.name \notin seen

\* What is named as a calibration's is one's.
NamedOwn ==
    /\ \A n \in calNames : \E e \in 1..nexp : n \in FilesOf(e) /\ IsCal(e)
    /\ calib.state = "named" =>
          \A n \in calib.names : \E e \in 1..nexp : n \in FilesOf(e) /\ IsCal(e)
    /\ calib.state = "wait" => nexp \in Exps /\ IsCal(nexp)

\* Before the baseline of a run that waits for it nothing was fired.
BaselineFirst ==
    phase = "baseline" /\ ~EarlyFire =>
        /\ \A s \in Shots : fires[s] = "idle"
        /\ AwayExp = 0 => \A e \in 1..nexp : expo[e].kind # "survey"

PastInv == SeenPast /\ NamedOwn /\ BaselineFirst

\* What an exposure does not change.
LEMMA ShootsFrame ==
  ASSUME FileTypes, NEW shot, NEW at, NEW kind, Shoots(shot, at, kind)
  PROVE  /\ nexp \in Nat /\ nexp + 1 \in Exps /\ nexp' = nexp + 1
         /\ \A e \in 1..nexp : e \in Exps /\ expo'[e] = expo[e]
         /\ expo'[nexp + 1].kind = kind
         /\ UNCHANGED <<spool, clock, host, seen, pending, fresh, todo, job, phase>>
         /\ landing' = landing \cup
                          {[exp |-> nexp + 1, name |-> n] : n \in FilesOf(nexp + 1)}
<1>1. nexp < MaxExp /\ nexp' = nexp + 1 /\ nexp \in Nat
  BY DEF Shoots, FileTypes
<1>2. nexp + 1 \in Exps /\ \A e \in 1..nexp : e \in Exps /\ e # nexp + 1
  BY <1>1, PullAssumption DEF Exps
<1>3. expo' = [expo EXCEPT ![nexp + 1] = [shot |-> shot, at |-> at, kind |-> kind]]
  BY DEF Shoots
<1> QED BY <1>1, <1>2, <1>3 DEF Shoots, kept, FileTypes

LEMMA SeenStep ==
  ASSUME NoRollover, IndInv, FilesInv, SeenPast, [Next]_vars
  PROVE  SeenPast'
<1>1. TypeOK /\ InHand /\ FileTypes
  BY FileTypesHold DEF IndInv
<1>2. ASSUME UNCHANGED <<nexp, landing>>, seen' \subseteq seen \cup Listed PROVE SeenPast'
  <2>1. \A n \in Listed : n \in Names /\ spool[n] \in Exps /\ OnNode(n, spool[n])
    BY <1>1 DEF Listed, FileTypes, Exposures, OnNode
  <2>2. \A n \in Listed : \E e \in 1..nexp : n \in FilesOf(e)
    BY <1>1, <2>1 DEF FilesInv, Delivered, FileTypes, Exps
  <2>3. \A f \in landing : f.name \notin Listed
    BY DEF FilesInv, Delivered, Listed
  <2> QED BY <1>2, <2>2, <2>3 DEF SeenPast
<1>3. CASE UNCHANGED fileVars \/ Ticks \/ Rests \/ Dates
           \/ \E n \in Names : SetsAside(n) \/ Takes(n)
  <2>1. UNCHANGED <<nexp, landing>>
    BY <1>3 DEF fileVars, Ticks, Rests, Dates, SetsAside, Takes, nodeFiles
  <2>2. seen' \subseteq seen \cup Listed
    BY <1>3 DEF fileVars, Ticks, Rests, Dates, SetsAside, Takes, Freed, FilesInv, Tracked,
       Handling
  <2> QED BY <1>2, <2>1, <2>2
<1>4. CASE BaselineTaken \/ PollNext \/ ListNext
  <2>1. UNCHANGED <<nexp, landing>>
    BY <1>4 DEF PollNext, PollLists, ListNext, BaselineTaken, envVars, nodeVars, bodyVars
  <2>2. seen' \subseteq seen \cup Listed
    BY <1>4 DEF PollNext, PollLists, ListNext, BaselineTaken, keepVars
  <2> QED BY <1>2, <2>1, <2>2
<1>5. CASE Writes
  <2>1. UNCHANGED <<nexp, landing>> /\ seen' \subseteq seen \cup Listed
    BY <1>5 DEF Writes, Freed, FilesInv, Tracked, Handling
  <2> QED BY <1>2, <2>1
<1>6. ASSUME NEW f \in landing, Lands(f) PROVE SeenPast'
  BY <1>6 DEF Lands, SeenPast
<1>7. ASSUME NEW shot, NEW at, NEW kind, Shoots(shot, at, kind) PROVE SeenPast'
  <2>1. \A n \in FilesOf(nexp + 1) : n \notin seen
    <3> SUFFICES ASSUME NEW n \in FilesOf(nexp + 1), n \in seen PROVE FALSE
      OBVIOUS
    <3>1. nexp \in Nat /\ nexp + 1 \in Exps /\ \A e \in 1..nexp : e \in Exps
      BY <1>1, <1>7, ShootsFrame
    <3>2. PICK e \in 1..nexp : n \in FilesOf(e)
      BY DEF SeenPast
    <3>3. e = nexp + 1
      BY <3>1, <3>2, NamesOnce
    <3> QED BY <3>1, <3>2, <3>3
  <2>2. \A f \in landing' : f \in landing \/ f.name \in FilesOf(nexp + 1)
    BY <1>7 DEF Shoots
  <2>3. UNCHANGED seen /\ nexp \in Nat /\ nexp' = nexp + 1
    BY <1>1, <1>7, ShootsFrame
  <2> QED BY <2>1, <2>2, <2>3 DEF SeenPast
<1>8. CASE EnvNext
  BY <1>1, <1>3, <1>6, <1>7, <1>8, EnvDoes
<1>9. CASE WorkerNext
  BY <1>1, <1>3, <1>4, <1>5, <1>9, WorkerDoes
<1>10. CASE UNCHANGED vars
  BY <1>3, <1>10, StutterStays
<1> QED BY <1>8, <1>9, <1>10 DEF Next

LEMMA NamedStep ==
  ASSUME IndInv, FilesInv, PassAlone, NamedOwn, [Next]_vars
  PROVE  NamedOwn'
<1>1. TypeOK /\ FileTypes
  BY FileTypesHold DEF IndInv
<1>2. CASE PassRests
  BY <1>2 DEF PassRests, NamedOwn, calVars, IsCal
<1>3. CASE SurveyShoots
  <2>1. PICK shot, at : Shoots(shot, at, "survey")
    BY <1>3 DEF SurveyShoots
  <2>2. \A e \in 1..nexp : e \in 1..nexp' /\ (IsCal(e) => IsCal(e)')
    BY <1>1, <2>1, ShootsFrame DEF IsCal
  <2> QED BY <1>3, <2>2 DEF SurveyShoots, NamedOwn, calVars
<1>4. CASE CalBegin
  BY <1>4, PassFrame DEF CalBegin, NamedOwn, IsCal
<1>5. CASE CalSees
  <2>1. \A n \in CalNew : n \in Listed /\ n \notin calib.names
    BY DEF CalNew
  <2>2. ASSUME NEW n \in CalNew PROVE nexp \in 1..nexp /\ n \in FilesOf(nexp)
    <3>1. n \in Names /\ spool[n] \in Exps /\ OnNode(n, spool[n])
      BY <1>1, <2>1 DEF Listed, FileTypes, Exposures, OnNode
    <3>2. spool[n] = nexp
      BY <1>5, <2>1, <3>1 DEF CalSees, PassAlone
    <3> QED BY <3>1, <3>2 DEF FilesInv, Delivered, Exps
  <2>3. calib' = [calib EXCEPT !.state = "named", !.names = CalNew] /\ calib.state = "wait"
    BY <1>5 DEF CalSees
  <2>4. calib'.state = "named" /\ calib'.names = CalNew
    BY <1>1, <2>3 DEF TypeOK, NodeType
  <2>5. UNCHANGED <<nexp, expo, calNames>>
    BY <1>5, PassFrame DEF CalSees
  <2> QED BY <1>5, <2>2, <2>3, <2>4, <2>5 DEF NamedOwn, IsCal
<1>6. CASE CalEnds
  <2>1. calib'.state = "none"
    BY <1>1, <1>6 DEF CalEnds, TypeOK, NodeType
  <2>2. UNCHANGED <<expo, nexp>>
    BY <1>6, PassFrame
  <2>3. calNames' = calNames \/ (calib.state = "named" /\ calNames' = calNames \cup calib.names)
    BY <1>6 DEF CalEnds
  <2> QED BY <2>1, <2>2, <2>3 DEF NamedOwn, IsCal
<1>7. CASE CalFires
  <2> DEFINE x == nexp + 1
  <2>1. /\ nexp' = x /\ x \in Exps /\ calNames' = calNames /\ calib'.state = "wait"
        /\ nexp \in Nat
    BY <1>1, <1>7, CalFireDoes
  <2>2. \A e \in 1..nexp : e \in 1..nexp' /\ expo'[e] = expo[e]
    BY <1>1, <1>7, <2>1, CalFireDoes
  <2>3. expo'[x].kind = "calibration"
    BY <1>1, <1>7, CalFireDoes
  <2> QED BY <2>1, <2>2, <2>3 DEF NamedOwn, IsCal
<1> QED BY <1>2, <1>3, <1>4, <1>5, <1>6, <1>7, PassDoes

LEMMA BaselineStep ==
  ASSUME IndInv, FilesInv, PassAlone, BaselineFirst, [Next]_vars
  PROVE  BaselineFirst'
<1> SUFFICES ASSUME phase' = "baseline", ~EarlyFire
             PROVE  /\ \A s \in Shots : fires'[s] = "idle"
                    /\ AwayExp = 0 => \A e \in 1..nexp' : expo'[e].kind # "survey"
  BY DEF BaselineFirst
<1>1. TypeOK /\ InHand /\ FileTypes
  BY FileTypesHold DEF IndInv
<1>2. CASE WorkerNext
  <2>1. phase = "baseline" /\ UNCHANGED <<expo, nexp>>
    BY <1>1, <1>2, WorkerDoes DEF fileVars, BaselineTaken, PollNext, PollLists, ListNext, Rests,
       Dates, Writes, SetsAside, Takes, Resting, nodeFiles
  <2>2. UNCHANGED fires
    BY <1>1, <1>2, WorkerDoes
  <2> QED BY <2>1, <2>2 DEF BaselineFirst
<1>3. CASE EnvNext
  <2>1. phase = "baseline"
    BY <1>1, <1>3, EnvDoes DEF ownVars
  <2>2. fires' = fires
    BY <1>3, <2>1 DEF EnvNext, CaptureNext, BodyNext, CalNext, NoteCommand, FireExposes, FireOk,
       FireFails, BodyExposes, Land, CalBegin, CalFires, CalFire, CalSees, CalEnds, Tick, StopWorker,
       BaselineFirst, nodeVars
  <2>3. CASE UNCHANGED <<expo, nexp>>
    BY <2>1, <2>2, <2>3 DEF BaselineFirst
  <2>4. ASSUME NEW shot, NEW at, NEW kind, Shoots(shot, at, kind)
        PROVE  \A e \in 1..nexp' : expo'[e].kind = "survey" => e \in 1..nexp /\ expo'[e] = expo[e]
    <3>1. kind # "survey"
      BY <2>1, <2>4 DEF Shoots, BaselineFirst
    <3> QED BY <1>1, <2>4, <3>1, ShootsFrame
  <2>5. UNCHANGED <<expo, nexp>> \/ \E shot, at, kind : Shoots(shot, at, kind)
    BY <1>1, <1>3, EnvDoes DEF fileVars, nodeFiles, Ticks, Lands
  <2> QED BY <2>1, <2>2, <2>3, <2>4, <2>5 DEF BaselineFirst
<1>4. CASE UNCHANGED vars
  BY <1>4 DEF vars, envVars, nodeVars, bodyVars, ownVars, BaselineFirst
<1> QED BY <1>2, <1>3, <1>4 DEF Next

\* What the worker stops looking for, it has archived or it tells.
LEMMA WorkerTells ==
  ASSUME TypeOK, InHand, FilesInv, WorkerNext
  PROVE  /\ UNCHANGED <<expo, nexp, landing, calNames>>
         /\ unpulled \subseteq unpulled' /\ host \subseteq host'
         /\ \A n \in Names : spool'[n] = spool[n]
               \/ \E h \in host' : h.exp = spool[n] /\ h.ext = ExtOf(n)
         /\ \A n \in seen' : \/ n \in seen \/ BaselineTaken \/ n \in calNames
               \/ [exp |-> spool[n], ext |-> ExtOf(n)] \in unpulled'
               \/ \E h \in host' : h.exp = spool[n] /\ h.ext = ExtOf(n)
         /\ phase' = "exit" => \A n \in pending' : n \in calNames
               \/ [exp |-> spool[n], ext |-> ExtOf(n)] \in unpulled'
<1> USE DEF envVars, nodeVars, bodyVars, timeVars, calVars, claimVars, keepVars, pullVars,
            logVars
<1>1. CASE BaselineTaken
  BY <1>1 DEF BaselineTaken
<1>2. CASE BaselineFails \/ PollUnanswered
  BY <1>2 DEF BaselineFails, PollUnanswered
<1>3. CASE BaselineStopped
  BY <1>3 DEF BaselineStopped, FilesInv, Tracked
<1>4. CASE HandleStopped
  BY <1>4 DEF HandleStopped
<1>5. CASE Exit
  BY <1>5 DEF Exit
<1>6. CASE PollNext
  BY <1>6 DEF PollNext, PollLists, Resting
<1>7. CASE ListNext
  BY <1>7 DEF ListNext, Resting
<1>8. CASE DiscardCalibration
  BY <1>8 DEF DiscardCalibration, Finished, Resting
<1>9. ASSUME NEW n, Failed(n), UNCHANGED spool
      PROVE  /\ unpulled \subseteq unpulled'
             /\ \A m \in seen' : m \in seen \/ [exp |-> spool[m], ext |-> ExtOf(m)] \in unpulled'
  BY <1>9 DEF Failed, Finished
<1>10. CASE DownloadFails
  BY <1>9, <1>10 DEF DownloadFails, Resting
<1>11. CASE Downloaded
  BY <1>11 DEF Downloaded
<1>12. CASE ResolveNext
  BY <1>12 DEF ResolveNext, ResolveUnchecked, ResolveOwned, ResolveUnscheduled, ResolveOrphan,
     ResolveDistrusted, Reclaim, Decide
<1>13. CASE WriteNext
  <2>1. PICK erased \in BOOLEAN, confirmed \in BOOLEAN : Written(erased, confirmed)
    BY <1>13 DEF WriteNext
  <2>2. job.exp = spool[job.name]
    BY <2>1 DEF Written, FilesInv, Tracked, Handling
  <2>3. \E h \in host' : h.exp = spool[job.name] /\ h.ext = ExtOf(job.name)
    <3>1. PICK base : host' = host \cup {[exp |-> job.exp, ext |-> ExtOf(job.name),
                                         base |-> base]}
      BY <2>1 DEF Written
    <3> DEFINE h == [exp |-> job.exp, ext |-> ExtOf(job.name), base |-> base]
    <3>2. h \in host'
      BY <3>1
    <3>3. h.exp = job.exp /\ h.ext = ExtOf(job.name)
      OBVIOUS
    <3> QED BY <2>2, <3>2, <3>3
  <2>4. /\ \A n \in Names : spool'[n] = spool[n] \/ n = job.name
        /\ seen' = seen \cup {job.name} /\ host \subseteq host' /\ phase' # "exit"
    BY <2>1 DEF Written, Finished, Resting, TypeOK, NodeType
  <2> QED BY <2>1, <2>3, <2>4 DEF Written
<1>14. CASE WriteFails
  BY <1>9, <1>14 DEF WriteFails, Resting
<1> QED BY <1>1, <1>2, <1>3, <1>4, <1>5, <1>6, <1>7, <1>8, <1>10, <1>11, <1>12, <1>13, <1>14
        DEF WorkerNext

\* File n of exposure e is still to be pulled, or its fate is known.
Kept(n, e, x) ==
    \/ \E f \in landing : f.exp = e /\ f.name = n
    \/ spool[n] = e /\ n \notin seen /\ ~(phase = "exit" /\ n \in pending)
    \/ \E h \in host : h.exp = e /\ h.ext = x
    \/ [exp |-> e, ext |-> x] \in unpulled

SurveyKept == \A e \in 1..nexp, x \in Formats :
                  expo[e].kind = "survey" => Kept(<<StemOfExp(e), x>>, e, x)

LEMMA KeptMeans == NoFrameVanishes <=> SurveyKept
BY DEF NoFrameVanishes, SurveyKept, Kept

\* Without a new exposure nothing is lost if what is kept stays kept.
LEMMA NoNewLoss ==
  ASSUME SurveyKept, nexp' = nexp, expo' = expo,
         \A e \in 1..nexp, x \in Formats : expo[e].kind = "survey" =>
            (Kept(<<StemOfExp(e), x>>, e, x) => Kept(<<StemOfExp(e), x>>, e, x)')
  PROVE  SurveyKept'
BY DEF SurveyKept

\* The file of an exposure in one format.
LEMMA FileOfExp ==
  ASSUME FileTypes, NEW e \in 1..nexp, NEW x \in Formats
  PROVE  /\ e \in Exps /\ e # NoExp /\ <<StemOfExp(e), x>> \in FilesOf(e)
         /\ <<StemOfExp(e), x>> \in Names /\ ExtOf(<<StemOfExp(e), x>>) = x
<1>1. e \in Exps /\ e # NoExp
  BY PullAssumption DEF FileTypes, Exps, NoExp
<1> QED BY <1>1, NameFacts DEF FilesOf, ExtOf

\* A survey file is neither named as a calibration's nor baselined away.
LEMMA SurveyIsSurvey ==
  ASSUME NoRollover, BaselineSorts, FileTypes, OldInv, PastInv,
         NEW e \in 1..nexp, expo[e].kind = "survey", NEW n \in FilesOf(e)
  PROVE  n \notin calNames /\ (BaselineTaken /\ n \notin seen => n \notin seen')
<1>1. \A d \in 1..nexp : d \in Exps
  BY PullAssumption DEF FileTypes, Exps
<1>2. n \notin calNames
  <2> SUFFICES ASSUME n \in calNames PROVE FALSE
    OBVIOUS
  <2>1. PICK d \in 1..nexp : n \in FilesOf(d) /\ IsCal(d)
    BY DEF PastInv, NamedOwn
  <2>2. d = e
    BY <1>1, <2>1, NamesOnce
  <2> QED BY <2>1, <2>2 DEF IsCal
<1>3. ASSUME BaselineTaken, n \notin seen PROVE n \notin seen'
  <2>1. Remembered /\ Adopted
    BY <1>3 DEF BaselineTaken, BaselineSorts, PastInv, BaselineFirst
  <2>2. n \notin KnownFrames
    <3> SUFFICES ASSUME n \in KnownFrames PROVE FALSE
      OBVIOUS
    <3>1. PICK d \in 1..OldExp : n \in FilesOf(d)
      BY <2>1 DEF KnownFrames
    <3>2. d \in Exps /\ d <= OldExp
      BY PullAssumption DEF Exps
    <3>3. d = e
      BY <1>1, <3>1, <3>2, NamesOnce
    <3> QED BY <3>2, <3>3 DEF OldInv
  <2> QED BY <1>3, <2>1, <2>2 DEF BaselineTaken
<1> QED BY <1>2, <1>3

LEMMA WorkerLosesNothing ==
  ASSUME NoRollover, BaselineSorts, IndInv, FilesInv, OldInv, PastInv, WorkerNext,
         NEW e \in 1..nexp, expo[e].kind = "survey", NEW n \in FilesOf(e),
         Kept(n, e, ExtOf(n))
  PROVE  Kept(n, e, ExtOf(n))'
<1>1. TypeOK /\ InHand /\ FileTypes
  BY FileTypesHold DEF IndInv
<1>2. n \in Names
  BY <1>1, NameFacts, PullAssumption DEF FileTypes, Exps
<1>3. /\ UNCHANGED <<expo, nexp, landing, calNames>>
      /\ unpulled \subseteq unpulled' /\ host \subseteq host'
      /\ spool'[n] = spool[n] \/ \E h \in host' : h.exp = spool[n] /\ h.ext = ExtOf(n)
      /\ n \in seen' => \/ n \in seen \/ BaselineTaken \/ n \in calNames
                        \/ [exp |-> spool[n], ext |-> ExtOf(n)] \in unpulled'
                        \/ \E h \in host' : h.exp = spool[n] /\ h.ext = ExtOf(n)
      /\ phase' = "exit" /\ n \in pending' =>
            n \in calNames \/ [exp |-> spool[n], ext |-> ExtOf(n)] \in unpulled'
  BY <1>1, <1>2, WorkerTells
<1>4. n \notin calNames /\ (BaselineTaken /\ n \notin seen => n \notin seen')
  BY <1>1, SurveyIsSurvey
<1>5. CASE spool[n] = e /\ n \notin seen
  BY <1>3, <1>4, <1>5 DEF Kept
<1>6. CASE ~(spool[n] = e /\ n \notin seen)
  BY <1>3, <1>6 DEF Kept
<1> QED BY <1>5, <1>6

LEMMA LandingLosesNothing ==
  ASSUME FileTypes, FilesInv, SeenPast, NEW f \in landing, Lands(f), UNCHANGED ownVars,
         NEW e \in Exps, NEW n \in Names, NEW x, Kept(n, e, x)
  PROVE  Kept(n, e, x)'
<1>1. UNCHANGED <<host, unpulled, seen, pending, phase>>
  BY DEF ownVars, keepVars, pullVars, logVars
<1>3. spool'[n] = IF n = f.name THEN f.exp ELSE spool[n]
  BY DEF Lands, FileTypes
<1>4. f.name \notin seen /\ f.name \notin pending /\ spool[f.name] = NoExp
  BY DEF SeenPast, FilesInv, Delivered, Tracked, Listed
<1>5. ASSUME NEW g \in landing, g.exp = e, g.name = n PROVE Kept(n, e, x)'
  <2>1. CASE f = g
    BY <1>1, <1>3, <1>4, <1>5, <2>1 DEF Kept
  <2>2. CASE f # g
    BY <1>5, <2>2 DEF Kept, Lands
  <2> QED BY <2>1, <2>2
<1>6. CASE spool[n] = e /\ n \notin seen /\ ~(phase = "exit" /\ n \in pending)
  <2>1. n # f.name
    BY <1>4, <1>6 DEF Exps, NoExp
  <2> QED BY <1>1, <1>3, <1>6, <2>1 DEF Kept
<1> QED BY <1>1, <1>5, <1>6 DEF Kept

LEMMA ExposureLosesNothing ==
  ASSUME FileTypes, SurveyKept, UNCHANGED ownVars,
         NEW shot, NEW at, NEW kind, Shoots(shot, at, kind)
  PROVE  SurveyKept'
<1> DEFINE y == nexp + 1
<1>1. /\ nexp \in Nat /\ nexp' = y /\ UNCHANGED spool
      /\ \A e \in 1..nexp : expo'[e] = expo[e]
      /\ landing' = landing \cup {[exp |-> y, name |-> n] : n \in FilesOf(y)}
  BY ShootsFrame
<1>2. UNCHANGED <<host, unpulled, seen, pending, phase>>
  BY DEF ownVars, keepVars, pullVars, logVars
<1>3. SUFFICES ASSUME NEW e \in 1..y, NEW x \in Formats, expo'[e].kind = "survey"
               PROVE  Kept(<<StemOfExp(e), x>>, e, x)'
  BY <1>1 DEF SurveyKept
<1>4. CASE e = y
  <2> DEFINE f == [exp |-> y, name |-> <<StemOfExp(y), x>>]
  <2>1. f \in landing'
    BY <1>1 DEF FilesOf
  <2>2. f.exp = e /\ f.name = <<StemOfExp(e), x>>
    BY <1>4
  <2> HIDE DEF f
  <2> QED BY <2>1, <2>2 DEF Kept
<1>5. CASE e # y
  <2>1. e \in 1..nexp
    BY <1>1, <1>5
  <2>2. Kept(<<StemOfExp(e), x>>, e, x)
    BY <1>1, <1>3, <2>1 DEF SurveyKept
  <2> QED BY <1>1, <1>2, <2>2 DEF Kept
<1> QED BY <1>4, <1>5

\* No step loses a survey frame.
LEMMA VanishStep ==
  ASSUME NoRollover, BaselineSorts, IndInv, FilesInv, OldInv, PastInv, SurveyKept,
         [Next]_vars
  PROVE  SurveyKept'
<1>1. TypeOK /\ FileTypes
  BY FileTypesHold DEF IndInv
<1>2. CASE UNCHANGED vars
  BY <1>2 DEF vars, envVars, nodeVars, bodyVars, ownVars, keepVars, pullVars, logVars,
              SurveyKept, Kept
<1>3. CASE EnvNext
  <2>1. UNCHANGED ownVars
    BY <1>1, <1>3, EnvDoes
  <2>2. CASE UNCHANGED fileVars \/ Ticks
    BY <2>1, <2>2 DEF fileVars, Ticks, nodeFiles, ownVars, keepVars, pullVars, logVars,
                      SurveyKept, Kept
  <2>3. ASSUME NEW f \in landing, Lands(f) PROVE SurveyKept'
    <3>1. nexp' = nexp /\ expo' = expo
      BY <2>3 DEF Lands
    <3>2. ASSUME NEW e \in 1..nexp, NEW x \in Formats, Kept(<<StemOfExp(e), x>>, e, x)
          PROVE  Kept(<<StemOfExp(e), x>>, e, x)'
      BY <1>1, <2>1, <2>3, <3>2, FileOfExp, LandingLosesNothing DEF PastInv
    <3> QED BY <1>1, <3>1, <3>2, NoNewLoss
  <2>4. ASSUME NEW shot, NEW at, NEW kind, Shoots(shot, at, kind) PROVE SurveyKept'
    BY <1>1, <2>1, <2>4, ExposureLosesNothing
  <2> QED BY <1>1, <1>3, <2>2, <2>3, <2>4, EnvDoes
<1>4. CASE WorkerNext
  <2>1. nexp' = nexp /\ expo' = expo
    BY <1>4, WorkerTells DEF IndInv
  <2>2. ASSUME NEW e \in 1..nexp, NEW x \in Formats, expo[e].kind = "survey",
               Kept(<<StemOfExp(e), x>>, e, x)
        PROVE  Kept(<<StemOfExp(e), x>>, e, x)'
    <3>1. <<StemOfExp(e), x>> \in FilesOf(e) /\ ExtOf(<<StemOfExp(e), x>>) = x
      BY <1>1, FileOfExp
    <3> QED BY <1>4, <2>2, <3>1, WorkerLosesNothing
  <2> QED BY <1>1, <2>1, <2>2, NoNewLoss
<1> QED BY <1>2, <1>3, <1>4 DEF Next

LEMMA NothingLostYet ==
  ASSUME NoRollover, Init
  PROVE  SurveyKept
<1>1. FileTypes /\ nexp \in Nat /\ nexp <= MaxExp
  BY InitIndInv, FileTypesHold DEF IndInv, FileTypes
<1>2. ASSUME NEW e \in 1..nexp, NEW x \in Formats
      PROVE  spool[<<StemOfExp(e), x>>] = e
  <2> DEFINE n == <<StemOfExp(e), x>>
  <2>1. e \in Exps /\ n \in Names /\ n \in FilesOf(e)
    BY <1>1, FileOfExp
  <2>2. \A d \in 1..nexp : d \in Exps /\ (n \in FilesOf(d) => d = e)
    <3> SUFFICES ASSUME NEW d \in 1..nexp PROVE d \in Exps /\ (n \in FilesOf(d) => d = e)
      OBVIOUS
    <3>1. d \in Exps
      BY <1>1, PullAssumption DEF Exps
    <3> HIDE DEF n
    <3> QED BY <2>1, <3>1, NamesOnce
  <2> HIDE DEF n
  <2>3. spool[n] = CHOOSE d \in 1..nexp : n \in FilesOf(d)
    BY <2>1 DEF Init
  <2>4. (CHOOSE d \in 1..nexp : n \in FilesOf(d)) = e
    BY <2>1, <2>2
  <2> QED BY <2>3, <2>4 DEF n
<1> QED BY <1>2 DEF SurveyKept, Kept, Init

-----------------------------------------------------------------------------
(***************************************************************************)
(* The theorems.                                                           *)
(***************************************************************************)

\* The invariant the others follow from: types, the file in hand, and the
\* ledger of class PullWorker (_cmds, cmd_epoch, _stem_cmd).
THEOREM Inductive == Spec => []IndInv
BY InitIndInv, NextIndInv, PTL DEF Spec

\* The state of the worker, the node and the run's records stays in its type.
THEOREM TypeCorrect == Spec => []TypeOK
<1>1. IndInv => TypeOK
  BY DEF IndInv
<1> QED BY <1>1, Inductive, PTL

\* However many shots, files, retries, walks and drops: no fire command is
\* ever held by two releases, or held and queued, or held by no file.
THEOREM ClaimsExclusive == Spec => []OneReleasePerCommand
<1>1. IndInv => OneReleasePerCommand
  BY DEF IndInv, LedgerInv
<1> QED BY <1>1, Inductive, PTL

\* The worker implements the claim ledger: commands are handed out oldest
\* first, and a command that is over never dates another exposure.
THEOREM LedgerRefined == Spec => LedgerKept
<1>1. Init => Ledger!Init
  BY DEF Init, Ledger!Init, Over, NoCmd, Ledger!NoOrder
<1>2. IndInv /\ [Next]_vars => [Ledger!Next]_(Ledger!ledger)
  BY LedgerStep DEF LedgerNext
<1> QED BY <1>1, <1>2, Inductive, PTL DEF Spec, LedgerKept, Ledger!Spec

\* Names and exposures stay together from the body to the host.
THEOREM FilesKept == Spec => []FilesInv
<1>1. Init => FilesInv
  BY FilesBegin
<1>2. IndInv /\ FilesInv /\ [Next]_vars => FilesInv'
  BY FilesStep
<1> QED BY <1>1, <1>2, Inductive, PTL DEF Spec

\* A half is archived beside its own sibling, never beside another release,
\* whatever numbers the camera uses again (_stem_dest in _handle).
THEOREM HalvesTogether == Spec => []FiledUnderOwnName
<1>1. FilesInv => FiledUnderOwnName
  BY DEF FilesInv, Filed, FiledUnderOwnName
<1> QED BY <1>1, FilesKept, PTL

\* What was on the node before the run is told from what came later, and once
\* the worker has its baseline it has seen it.
THEOREM OldKept == Spec => []OldInv
<1>1. Init => OldInv
  <2>1. ASSUME Init PROVE nexp = OldExp + AwayExp /\ landing = {} /\ host = {} /\ phase = "baseline"
    BY <2>1 DEF Init
  <2>2. ASSUME Init, NEW e \in Exps
        PROVE  expo[e].kind = IF e <= OldExp THEN "old" ELSE "survey"
    BY <2>2 DEF Init
  <2> QED BY <2>1, <2>2, PullAssumption DEF OldInv
<1>2. IndInv /\ FilesInv /\ OldInv /\ [Next]_vars => OldInv'
  BY OldStep
<1> QED BY <1>1, <1>2, Inductive, FilesKept, PTL DEF Spec

\* What was on the node before the run never enters the transect, whichever
\* baseline the worker took (`seen` in PullWorker._baseline).
THEOREM OldFramesStayOut == Spec => []OldFramesKeptOut
<1>1. TypeOK /\ FilesInv /\ OldInv => OldFramesKeptOut
  <2> SUFFICES ASSUME TypeOK, FilesInv, OldInv, NEW h \in host PROVE expo[h.exp].kind # "old"
    BY DEF OldFramesKeptOut
  <2>1. h.exp \in Exps
    BY PullAssumption DEF TypeOK, NodeType, FilesInv, Filed, Exps
  <2> QED BY <2>1, PullAssumption DEF OldInv, Exps
<1> QED BY <1>1, TypeCorrect, FilesKept, OldKept, PTL

\* A row stamped from a fire command is of the exposure that fire made, or of one
\* nobody scheduled within the tolerance of it, whatever frames and answers are
\* lost, whatever the body exposes by itself and however many shots overlap, as
\* long as the tolerance is less than a shot period (_capture_instant's
\* cross-check; _claim_tolerance is 0.45 of a period above 0.56 s).
THEOREM RowsOwnTheirFires ==
  ASSUME Sharp
  PROVE  Spec => []RowOwnsItsFire
<1>1. Init => OwnInv
  BY OwnBegins
<1>2. IndInv /\ FilesInv /\ OwnInv /\ [Next]_vars => OwnInv'
  BY OwnStep
<1>3. OwnInv => RowOwnsItsFire
  BY DEF OwnInv, StampOwn, Near, RowOwnsItsFire
<1> QED BY <1>1, <1>2, <1>3, Inductive, FilesKept, PTL DEF Spec

\* One shutter release, one flight_log row, whatever the order its halves are
\* listed and pulled in, as long as they find the sibling window open
\* (RAW_SIBLING_WINDOW_S in _handle).
THEOREM OneRowEach == Spec /\ [](OneFile \/ HalvesInTime) => []OneRowPerExposure
<1>1. Init => RowInv
  BY DEF Init, RowInv, RowsDone, RowsNoted, RowsNew, OneRowPerExposure, Handling
<1>2. IndInv /\ FilesInv /\ RowInv /\ (OneFile \/ HalvesInTime) /\ [Next]_vars => RowInv'
  BY RowStep
<1>3. RowInv => OneRowPerExposure
  BY DEF RowInv
<1> QED BY <1>1, <1>2, <1>3, Inductive, FilesKept, PTL DEF Spec

\* In particular when the body delivers one file, and in a run no longer than
\* the window.
THEOREM OneRowInWindow ==
  ASSUME OneFile \/ MaxClock <= SiblingWindow
  PROVE  Spec => []OneRowPerExposure
<1> DEFINE Early == clock <= MaxClock
<1>1. Init => Early
  BY PullAssumption DEF Init
<1>2. IndInv /\ Early /\ [Next]_vars => Early'
  <2> SUFFICES ASSUME IndInv, Early, [Next]_vars PROVE Early'
    OBVIOUS
  <2>1. TypeOK /\ InHand /\ clock \in Nat
    BY DEF IndInv, TypeOK, NodeType
  <2>2. CASE EnvNext
    <3>1. clock' = clock \/ Ticks
      BY <2>1, <2>2, EnvDoes DEF fileVars, Lands, Shoots
    <3> QED BY <2>1, <3>1, PullAssumption DEF Ticks
  <2>3. CASE WorkerNext
    BY <2>1, <2>3, WorkerDoes DEF fileVars, BaselineTaken, PollNext, PollLists, ListNext,
       envVars, timeVars, Rests, Dates, Writes, SetsAside, Takes
  <2>4. CASE UNCHANGED vars
    BY <2>4 DEF vars, envVars, timeVars
  <2> QED BY <2>2, <2>3, <2>4 DEF Next
<1>3. TypeOK /\ Early => OneFile \/ HalvesInTime
  <2> SUFFICES ASSUME TypeOK, Early, MaxClock <= SiblingWindow, NEW n \in Listed,
                      stem_dest[StemOf(n)].exp = spool[n]
               PROVE  SiblingWritten(StemOf(n))
    BY DEF HalvesInTime
  <2>1. StemOf(n) \in Stems /\ spool[n] # NoExp
    BY NameTypes DEF Listed
  <2>2. stem_dest[StemOf(n)].at \in Nat /\ clock \in Nat
    BY <2>1 DEF TypeOK, NodeType, PullType
  <2> QED BY <2>1, <2>2, PullAssumption DEF SiblingWritten
<1> QED BY <1>1, <1>2, <1>3, OneRowEach, Inductive, TypeCorrect, PTL DEF Spec

\* The calibration thread has the node to itself while it fires on it.
THEOREM PassesAlone == Spec => []PassAlone
<1>1. Init => PassAlone
  BY DEF Init, PassAlone, NoCal
<1>2. IndInv /\ FilesInv /\ PassAlone /\ [Next]_vars => PassAlone'
  BY AloneStep
<1> QED BY <1>1, <1>2, Inductive, FilesKept, PTL DEF Spec

\* A calibration exposure never enters the transect: what a pass leaves on the
\* node is named as its own before the worker lists it (calibration_quiet and
\* note_calibration_frames).
THEOREM CalibrationsStayOut ==
  ASSUME OneFile
  PROVE  Spec => []CalibrationKeptOut
<1>1. Init => CalInv
  <2> SUFFICES ASSUME Init PROVE CalInv
    OBVIOUS
  <2>1. \A e \in Exps : ~IsCal(e)
    BY DEF Init, IsCal
  <2>2. UnnamedUnlisted
    BY <2>1 DEF UnnamedUnlisted, Unnamed
  <2>3. SurveyInHand /\ CalibrationKeptOut
    BY DEF Init, SurveyInHand, CalibrationKeptOut, Handling, NoCal
  <2> QED BY <2>2, <2>3 DEF CalInv
<1>2. IndInv /\ FilesInv /\ PassAlone /\ CalInv /\ [Next]_vars => CalInv'
  BY CalStep
<1>3. CalInv => CalibrationKeptOut
  BY DEF CalInv
<1> QED BY <1>1, <1>2, <1>3, Inductive, FilesKept, PassesAlone, PTL DEF Spec

\* A survey frame that reached the node is never lost: not baselined away, not
\* taken for a calibration's, not erased unpulled, not forgotten at stop.
THEOREM FramesStay ==
  ASSUME NoRollover, BaselineSorts
  PROVE  Spec => []NoFrameVanishes
<1>1. Init => PastInv /\ SurveyKept
  <2> SUFFICES ASSUME Init PROVE PastInv /\ SurveyKept
    OBVIOUS
  <2>1. SeenPast /\ NamedOwn
    BY DEF Init, SeenPast, NamedOwn, NoCal
  <2>2. BaselineFirst
    BY PullAssumption DEF Init, BaselineFirst, Exps
  <2> QED BY <2>1, <2>2, NothingLostYet DEF PastInv
<1>2. IndInv /\ FilesInv /\ PassAlone /\ PastInv /\ [Next]_vars => PastInv'
  BY SeenStep, NamedStep, BaselineStep DEF PastInv
<1>3. IndInv /\ FilesInv /\ OldInv /\ PastInv /\ SurveyKept /\ [Next]_vars => SurveyKept'
  BY VanishStep
<1>4. SurveyKept => NoFrameVanishes
  BY KeptMeans
<1> QED BY <1>1, <1>2, <1>3, <1>4, Inductive, FilesKept, OldKept, PassesAlone, PTL DEF Spec

=============================================================================
