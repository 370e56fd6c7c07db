------------------------- MODULE CaptureGridProofs -------------------------
(***************************************************************************)
(* Proofs about CaptureGrid, for any members, frame budget, streak,        *)
(* backoffs, shots in flight and faults: how long the others shoot alone,  *)
(* what becomes of a probe's frame, and what a resume has seen.            *)
(***************************************************************************)
EXTENDS CaptureGrid, FiniteSetTheorems, WellFoundedInduction, TLAPS

-----------------------------------------------------------------------------
(***************************************************************************)
(* Types.                                                                  *)
(***************************************************************************)
\* A shot's members were contacted, answered or failed, and no others are.
ShotRecords == [no : Nat, roster : SUBSET Nodes, wait : SUBSET Nodes,
                ok : SUBSET Nodes, bad : SUBSET Nodes]
Shot(s) == /\ s \in ShotRecords /\ s.roster = s.wait \cup s.ok \cup s.bad
           /\ s.wait # {} => s.ok = {}

Places == {"none", "coming", "spool", "pulled"}

GridTypeOK ==
    /\ on \subseteq Nodes /\ k \in Nat
    /\ \A s \in shots : Shot(s)
    /\ streak \in [Nodes -> Nat] /\ lonely \in [Nodes -> Nat]
    /\ pause \in [node : Nodes \cup {None}, level : Nat, due : BOOLEAN]
    /\ last \in [node : Nodes \cup {None}, level : Nat, recent : BOOLEAN]
    /\ frame \in [node : Nodes \cup {None}, at : Places, told : BOOLEAN]
    /\ probe \in [fired : BOOLEAN, ok : BOOLEAN]
    /\ loop \in {"top", "wake", "list", "fire", "name", "ended"}
    /\ loop \in {"list", "fire", "name"} => pause.node \in Nodes

\* The first of some members is one of them.
LEMMA FirstMember ==
  ASSUME NEW S \in SUBSET Nodes, S # {}
  PROVE  Min(S) \in S
<1> DEFINE upto(n) == S \cap (1..n)
           T == {upto(n) : n \in S}
<1>1. T \subseteq FiniteSubsetsOf(Nodes) /\ T # {}
  <2>1. \A n \in S : IsFiniteSet(upto(n))
    BY GridAssumption, FS_Interval, FS_Subset DEF Nodes
  <2> QED BY <2>1 DEF FiniteSubsetsOf
<1>2. PICK X \in T : \A Y \in T : ~(<<Y, X>> \in StrictSubsetOrdering(Nodes))
  <2> HIDE DEF T
  <2> QED BY <1>1, FS_StrictSubsetOrderingWellFounded, WFMin
<1>3. PICK m \in S : X = upto(m)
  OBVIOUS
<1>4. ASSUME NEW n \in S, n < m PROVE FALSE
  <2>1. upto(n) \in T /\ upto(n) \subseteq X /\ upto(n) # X
    BY <1>3, <1>4, GridAssumption DEF Nodes
  <2> QED BY <1>1, <1>2, <1>3, <2>1 DEF StrictSubsetOrdering
<1>5. \A n \in S : m <= n
  BY <1>4, GridAssumption DEF Nodes
<1> QED BY <1>5 DEF Min

\* The member the loop stops for is one of the members.
LEMMA DeadIsMember ==
  ASSUME GridTypeOK, DeadNodes # {}
  PROVE  DeadNode \in Nodes
BY FirstMember DEF GridTypeOK, DeadNodes, DeadNode

\* A backoff level stays a level.
LEMMA LevelTyped ==
  ASSUME NEW l \in Nat
  PROVE  Min({l + 1, MaxLevel}) \in Nat
<1> USE GridAssumption
<1>1. CASE l + 1 <= MaxLevel
  BY <1>1 DEF Min
<1>2. CASE MaxLevel <= l + 1
  BY <1>2 DEF Min
<1> QED BY <1>1, <1>2

\* The level a new pause starts at is a level.
LEMMA FirstLevelTyped ==
  ASSUME GridTypeOK, NEW n
  PROVE  FirstLevel(n) \in Nat
BY LevelTyped DEF GridTypeOK, FirstLevel

\* A probe's verdict, whatever led to it.
LEMMA VerdictTyped ==
  ASSUME GridTypeOK, NEW n \in Nodes, NEW passed \in BOOLEAN, Verdict(n, passed)
  PROVE  /\ streak' \in [Nodes -> Nat] /\ lonely' \in [Nodes -> Nat]
         /\ pause' \in [node : Nodes \cup {None}, level : Nat, due : BOOLEAN]
         /\ last' \in [node : Nodes \cup {None}, level : Nat, recent : BOOLEAN]
         /\ probe' \in [fired : BOOLEAN, ok : BOOLEAN] /\ loop' = "top"
<1>0. probe' \in [fired : BOOLEAN, ok : BOOLEAN] /\ loop' = "top"
  BY DEF Verdict, NoProbe
<1>1. pause.level \in Nat /\ Min({pause.level + 1, MaxLevel}) \in Nat
  BY LevelTyped DEF GridTypeOK
<1>2. CASE passed
  <2>1. streak' = [streak EXCEPT ![n] = 0] /\ lonely' = [lonely EXCEPT ![n] = 0]
    BY <1>2 DEF Verdict
  <2>2. /\ last' = [node |-> n, level |-> pause.level, recent |-> TRUE]
        /\ pause' = [node |-> None, level |-> 0, due |-> FALSE]
    BY <1>2 DEF Verdict
  <2>3. /\ streak' \in [Nodes -> Nat] /\ lonely' \in [Nodes -> Nat]
    BY <2>1 DEF GridTypeOK
  <2>4. /\ last' \in [node : Nodes \cup {None}, level : Nat, recent : BOOLEAN]
        /\ pause' \in [node : Nodes \cup {None}, level : Nat, due : BOOLEAN]
    BY <1>1, <2>2
  <2> QED BY <1>0, <2>3, <2>4
<1>3. CASE ~passed
  <2>1. /\ pause' = [pause EXCEPT !.level = Min({@ + 1, MaxLevel}), !.due = FALSE]
        /\ UNCHANGED <<streak, lonely, last>>
    BY <1>3 DEF Verdict
  <2>2. pause' \in [node : Nodes \cup {None}, level : Nat, due : BOOLEAN]
    BY <1>1, <2>1 DEF GridTypeOK
  <2> QED BY <1>0, <2>1, <2>2 DEF GridTypeOK
<1> QED BY <1>0, <1>2, <1>3

\* Every step keeps the type.
LEMMA GridTyped ==
  ASSUME GridTypeOK, [Next]_vars
  PROVE  GridTypeOK'
<1> USE DEF env, run, probing
<1>1. CASE UNCHANGED vars
  BY <1>1 DEF vars, GridTypeOK, Shot
<1>2. ASSUME NEW s \in shots, Answer(s) PROVE GridTypeOK'
  <2> DEFINE t == [s EXCEPT !.wait = {}, !.ok = s.wait \intersect pi,
                            !.bad = @ \union (s.wait \ pi)]
  <2>1. s \in ShotRecords /\ s.roster = s.wait \cup s.ok \cup s.bad /\ s.ok = {}
    BY <1>2 DEF GridTypeOK, Shot, Answer
  <2>2. t \in ShotRecords /\ t.wait = {} /\ t.ok = s.wait \cap pi
        /\ t.bad = s.bad \cup (s.wait \ pi) /\ t.roster = s.roster
    BY <2>1 DEF ShotRecords
  <2>3. Shot(t)
    BY <2>1, <2>2 DEF Shot
  <2> HIDE DEF t
  <2>4. shots' = (shots \ {s}) \cup {t}
    BY <1>2 DEF Answer, t
  <2>5. \A r \in shots' : Shot(r)
    BY <2>3, <2>4 DEF GridTypeOK
  <2> QED BY <1>2, <2>5 DEF Answer, GridTypeOK, Shot
<1>3. ASSUME NEW s \in shots, Judge(s) PROVE GridTypeOK'
  BY <1>3 DEF Judge, Streaks, GridTypeOK, Shot
<1>4. CASE LoopEnds
  BY <1>4 DEF LoopEnds, GridTypeOK, Shot
<1>5. CASE Pauses
  BY <1>5, DeadIsMember, FirstLevelTyped DEF Pauses, GridTypeOK, Shot
<1>6. CASE ProbeBegins
  BY <1>6, DeadIsMember DEF ProbeBegins, GridTypeOK, Shot, NoProbe
<1>7. CASE Aims
  BY <1>7 DEF Aims, GridTypeOK, Shot
<1>8. CASE Fires
  <2>1. Shot(ShotOf)
    BY DEF GridTypeOK, ShotOf, Shot, ShotRecords
  <2>2. \A r \in shots' : Shot(r)
    BY <1>8, <2>1 DEF Fires, GridTypeOK
  <2> QED BY <1>8, <2>2 DEF Fires, GridTypeOK, Shot
<1>9. CASE ProbeLists
  BY <1>9 DEF ProbeLists, GridTypeOK, Shot
<1>10. CASE ProbeUnlisted \/ ProbeRefused
  BY <1>10, VerdictTyped DEF ProbeUnlisted, ProbeRefused, GridTypeOK, Shot, Me
<1>11. CASE ProbeAccepted \/ ProbeAbandoned
  <2>0. Me \in Nodes /\ Exposed
    BY <1>11 DEF ProbeAccepted, ProbeAbandoned, GridTypeOK, Me
  <2>1. frame' \in [node : Nodes \cup {None}, at : Places, told : BOOLEAN]
    BY <2>0 DEF Exposed, NoFrame, Places
  <2>2. PICK b \in BOOLEAN : probe' = [fired |-> TRUE, ok |-> b]
    BY <1>11 DEF ProbeAccepted, ProbeAbandoned
  <2>3. loop' = "name" /\ UNCHANGED <<on, k, shots, run>>
    BY <1>11 DEF ProbeAccepted, ProbeAbandoned
  <2> QED BY <2>0, <2>1, <2>2, <2>3 DEF GridTypeOK, Shot, Me
<1>12. CASE ProbeNames
  <2>1. Me \in Nodes /\ probe.ok \in BOOLEAN
    BY <1>12 DEF ProbeNames, GridTypeOK, Me
  <2>2. NoFrame \in [node : Nodes \cup {None}, at : Places, told : BOOLEAN]
    BY DEF NoFrame, Places
  <2> QED BY <1>12, <2>1, <2>2, VerdictTyped DEF ProbeNames, GridTypeOK, Shot
<1>13. CASE ProbeHolds
  BY <1>13 DEF ProbeHolds, GridTypeOK, Shot
<1>14. CASE ProbeGivesUp
  BY <1>14, VerdictTyped DEF ProbeGivesUp, GridTypeOK, Shot, Me
<1>15. ASSUME NEW n \in Nodes, Lose(n) \/ Mend(n) \/ Switch(n) \/ Poll(n) \/ HoldExpires(n)
       PROVE  GridTypeOK'
  BY <1>15 DEF Lose, Mend, Switch, Poll, HoldExpires, GridTypeOK, Shot
<1>16. CASE FrameLands \/ Pulls
  BY <1>16 DEF FrameLands, Pulls, GridTypeOK, Shot, Places
<1>17. CASE BackoffOver \/ ResumeAges \/ StopGrid
  BY <1>17 DEF BackoffOver, ResumeAges, StopGrid, GridTypeOK, Shot
<1> QED BY <1>1, <1>2, <1>3, <1>4, <1>5, <1>6, <1>7, <1>8, <1>9, <1>10, <1>11, <1>12,
           <1>13, <1>14, <1>15, <1>16, <1>17
        DEF Next, ShotNext, LoopNext, ProbeNext, EnvNext

-----------------------------------------------------------------------------
(***************************************************************************)
(* How long the others shoot alone.                                        *)
(***************************************************************************)
\* The shots in flight that member n takes part in.
Awaited(n) == {s \in shots : n \in s.roster}
Exposure(n) == lonely[n] + Cardinality(Awaited(n))

\* What a member has missed is in its streak; with what is in flight it is
\* bounded, and while the loop waits for the next instant one shot more fits.
LonelyInv ==
    /\ IsFiniteSet(shots) /\ Cardinality(shots) <= MaxFlight
    /\ \A n \in Nodes : lonely[n] <= streak[n]
    /\ \A n \in Nodes : Exposure(n) <= DeadAfter + MaxFlight
    /\ loop = "wake" => \A n \in on : Exposure(n) < DeadAfter + MaxFlight

\* A member awaits no more shots than are in flight.
LEMMA AwaitedSize ==
  ASSUME IsFiniteSet(shots), NEW n
  PROVE  /\ IsFiniteSet(Awaited(n)) /\ Cardinality(Awaited(n)) \in Nat
         /\ Cardinality(shots) \in Nat /\ Cardinality(Awaited(n)) <= Cardinality(shots)
BY FS_Subset, FS_CardinalityType DEF Awaited

\* A step that fires and judges nothing counts no more against anyone.
LEMMA LonelyStays ==
  ASSUME GridTypeOK, GridTypeOK', LonelyInv, shots' = shots,
         \A n \in Nodes : lonely'[n] <= streak'[n] /\ lonely'[n] <= lonely[n],
         loop' = "wake" =>
            \A n \in on' : (loop = "wake" /\ n \in on) \/ lonely'[n] = 0
  PROVE  LonelyInv'
<1>1. ASSUME NEW n \in Nodes
      PROVE  /\ Awaited(n)' = Awaited(n) /\ Cardinality(Awaited(n)) \in Nat
             /\ Cardinality(Awaited(n)) <= MaxFlight
             /\ lonely[n] \in Nat /\ lonely'[n] \in Nat
  <2>1. Awaited(n)' = Awaited(n)
    BY DEF Awaited
  <2>2. /\ Cardinality(Awaited(n)) \in Nat /\ Cardinality(shots) \in Nat
        /\ Cardinality(Awaited(n)) <= Cardinality(shots)
    BY AwaitedSize DEF LonelyInv
  <2>3. Cardinality(shots) <= MaxFlight
    BY DEF LonelyInv
  <2>4. Cardinality(Awaited(n)) <= MaxFlight
    BY <2>2, <2>3, GridAssumption
  <2> QED BY <2>1, <2>2, <2>4 DEF GridTypeOK
<1>2. \A n \in Nodes : Exposure(n)' <= Exposure(n) /\ Exposure(n)' \in Nat /\ Exposure(n) \in Nat
  BY <1>1 DEF Exposure
<1>3. \A n \in Nodes : lonely'[n] = 0 => Exposure(n)' < DeadAfter + MaxFlight
  BY <1>1, GridAssumption DEF Exposure
<1>4. loop' = "wake" => \A n \in on' : Exposure(n)' < DeadAfter + MaxFlight
  <2> SUFFICES ASSUME loop' = "wake", NEW n \in on', lonely'[n] # 0
               PROVE  Exposure(n)' < DeadAfter + MaxFlight
    BY <1>3 DEF GridTypeOK
  <2>1. n \in Nodes /\ Exposure(n) < DeadAfter + MaxFlight
    BY DEF GridTypeOK, LonelyInv
  <2> QED BY <1>2, <2>1, GridAssumption
<1>5. \A n \in Nodes : Exposure(n)' <= DeadAfter + MaxFlight
  BY <1>2, GridAssumption DEF LonelyInv
<1> QED BY <1>4, <1>5 DEF LonelyInv

\* A shot that is answered is awaited by the same members as before.
LEMMA AnswerKeeps ==
  ASSUME GridTypeOK, LonelyInv, NEW s \in shots, Answer(s)
  PROVE  LonelyInv'
<1> DEFINE t == [s EXCEPT !.wait = {}, !.ok = s.wait \intersect pi,
                          !.bad = @ \union (s.wait \ pi)]
<1>1. t.roster = s.roster
  BY DEF GridTypeOK, Shot, ShotRecords
<1>2. shots' = (shots \ {s}) \cup {t} /\ UNCHANGED <<lonely, streak, loop, on>>
  BY DEF Answer, env, run
<1> HIDE DEF t
<1>3. IsFiniteSet(shots') /\ Cardinality(shots') <= Cardinality(shots)
  <2>1. IsFiniteSet(shots \ {s}) /\ Cardinality(shots \ {s}) = Cardinality(shots) - 1
    BY FS_RemoveElement DEF LonelyInv
  <2>2. Cardinality(shots) \in Nat /\ Cardinality(shots \ {s}) \in Nat
    BY <2>1, FS_CardinalityType DEF LonelyInv
  <2> QED BY <1>2, <2>1, <2>2, FS_AddElement
<1>4. ASSUME NEW n \in Nodes PROVE Cardinality(Awaited(n)') <= Cardinality(Awaited(n))
  <2>1. IsFiniteSet(Awaited(n)) /\ Cardinality(Awaited(n)) \in Nat
    BY AwaitedSize DEF LonelyInv
  <2>2. CASE n \in s.roster
    <3>1. Awaited(n)' = (Awaited(n) \ {s}) \cup {t} /\ s \in Awaited(n)
      BY <1>1, <1>2, <2>2 DEF Awaited
    <3>2. IsFiniteSet(Awaited(n) \ {s}) /\ Cardinality(Awaited(n) \ {s}) = Cardinality(Awaited(n)) - 1
      BY <2>1, <3>1, FS_RemoveElement
    <3>3. Cardinality(Awaited(n) \ {s}) \in Nat
      BY <3>2, FS_CardinalityType
    <3>4. Cardinality((Awaited(n) \ {s}) \cup {t}) <= Cardinality(Awaited(n) \ {s}) + 1
      BY <3>2, <3>3, FS_AddElement
    <3> QED BY <2>1, <3>1, <3>2, <3>4
  <2>3. CASE n \notin s.roster
    <3>1. Awaited(n)' = Awaited(n)
      BY <1>1, <1>2, <2>3 DEF Awaited
    <3> QED BY <2>1, <3>1
  <2> QED BY <2>2, <2>3
<1>5. \A n \in Nodes : Cardinality(Awaited(n)') \in Nat /\ Cardinality(Awaited(n)) \in Nat
                       /\ lonely[n] \in Nat
  BY <1>3, AwaitedSize, FS_Subset, FS_CardinalityType DEF Awaited, LonelyInv, GridTypeOK
<1>6. \A n \in Nodes : Exposure(n)' <= Exposure(n) /\ Exposure(n)' \in Nat /\ Exposure(n) \in Nat
  BY <1>2, <1>4, <1>5 DEF Exposure
<1>7. Cardinality(shots) \in Nat /\ Cardinality(shots') \in Nat
  BY <1>3, FS_CardinalityType DEF LonelyInv
<1>8. IsFiniteSet(shots') /\ Cardinality(shots') <= MaxFlight
  BY <1>3, <1>7, GridAssumption DEF LonelyInv
<1>9. \A n \in Nodes : Exposure(n)' <= DeadAfter + MaxFlight
  BY <1>6, GridAssumption DEF LonelyInv
<1>10. loop' = "wake" => \A n \in on' : Exposure(n)' < DeadAfter + MaxFlight
  BY <1>2, <1>6, GridAssumption DEF LonelyInv, GridTypeOK
<1> QED BY <1>2, <1>8, <1>9, <1>10 DEF LonelyInv

\* A judged shot is out of flight, and into the streak of who missed it.
LEMMA JudgeKeeps ==
  ASSUME GridTypeOK, LonelyInv, NEW s \in shots, Judge(s)
  PROVE  LonelyInv'
<1>1. shots' = shots \ {s} /\ UNCHANGED <<loop, on>>
  BY DEF Judge, env
<1>2. /\ IsFiniteSet(shots') /\ Cardinality(shots') <= MaxFlight
  <2>1. IsFiniteSet(shots') /\ Cardinality(shots') = Cardinality(shots) - 1
    BY <1>1, FS_RemoveElement DEF LonelyInv
  <2>2. Cardinality(shots) \in Nat
    BY FS_CardinalityType DEF LonelyInv
  <2> QED BY <2>1, <2>2, GridAssumption DEF LonelyInv
<1>3. ASSUME NEW n \in Nodes
      PROVE  /\ lonely'[n] <= streak'[n]
             /\ \/ Exposure(n)' <= Exposure(n)
                \/ Exposure(n)' < DeadAfter + MaxFlight
             /\ Exposure(n)' \in Nat /\ Exposure(n) \in Nat
  <2>1. /\ IsFiniteSet(Awaited(n)) /\ Cardinality(Awaited(n)) \in Nat
        /\ lonely[n] \in Nat /\ streak[n] \in Nat /\ lonely[n] <= streak[n]
    BY AwaitedSize DEF LonelyInv, GridTypeOK
  <2>2. Awaited(n)' = Awaited(n) \ {s}
    BY <1>1 DEF Awaited
  <2>3. /\ IsFiniteSet(Awaited(n)') /\ Cardinality(Awaited(n)') \in Nat
        /\ Cardinality(Awaited(n)') =
              Cardinality(Awaited(n)) - (IF n \in s.roster THEN 1 ELSE 0)
    <3>1. s \in Awaited(n) <=> n \in s.roster
      BY DEF Awaited
    <3>2. /\ IsFiniteSet(Awaited(n) \ {s})
          /\ Cardinality(Awaited(n) \ {s}) =
                IF s \in Awaited(n) THEN Cardinality(Awaited(n)) - 1
                                    ELSE Cardinality(Awaited(n))
      BY <2>1, FS_RemoveElement
    <3>3. Cardinality(Awaited(n) \ {s}) \in Nat
      BY <3>2, FS_CardinalityType
    <3> QED BY <2>1, <2>2, <3>1, <3>2, <3>3
  <2>4. s.wait = {} /\ s.roster = s.ok \cup s.bad
    BY DEF Judge, GridTypeOK, Shot
  <2>5. /\ streak'[n] = (IF n \in s.ok THEN 0 ELSE IF n \in s.bad THEN streak[n] + 1
                                                 ELSE streak[n])
        /\ lonely'[n] = (IF n \in s.ok THEN 0
                         ELSE IF n \in s.roster /\ s.ok # {} THEN lonely[n] + 1
                         ELSE lonely[n])
    BY DEF Judge, Streaks
  <2>6. CASE n \in s.ok
    <3>1. Cardinality(Awaited(n)') <= MaxFlight
      BY <1>2, AwaitedSize, FS_Subset, FS_CardinalityType, GridAssumption DEF Awaited
    <3> QED BY <2>1, <2>3, <2>5, <2>6, <3>1, GridAssumption DEF Exposure
  <2>7. CASE n \notin s.ok
    BY <2>1, <2>3, <2>4, <2>5, <2>7 DEF Exposure
  <2> QED BY <2>6, <2>7
<1>4. \A n \in Nodes : Exposure(n)' <= DeadAfter + MaxFlight
  BY <1>3, GridAssumption DEF LonelyInv
<1>5. loop' = "wake" => \A n \in on' : Exposure(n)' < DeadAfter + MaxFlight
  <2> SUFFICES ASSUME loop = "wake", NEW n \in on PROVE Exposure(n)' < DeadAfter + MaxFlight
    BY <1>1
  <2>1. n \in Nodes /\ Exposure(n) < DeadAfter + MaxFlight
    BY DEF LonelyInv, GridTypeOK
  <2> QED BY <1>3, <2>1, GridAssumption
<1> QED BY <1>2, <1>3, <1>4, <1>5 DEF LonelyInv

\* The loop goes on to the next instant only when nobody is dead.
LEMMA AimsKeeps ==
  ASSUME GridTypeOK, LonelyInv, Aims
  PROVE  LonelyInv'
<1>1. UNCHANGED <<shots, lonely, streak, on>> /\ DeadNodes = {}
  BY DEF Aims, env
<1>2. \A n \in Nodes : Awaited(n)' = Awaited(n) /\ Exposure(n)' = Exposure(n)
  BY <1>1 DEF Awaited, Exposure
<1>3. ASSUME NEW n \in on PROVE Exposure(n) < DeadAfter + MaxFlight
  <2>1. /\ n \in Nodes /\ streak[n] \in Nat /\ lonely[n] \in Nat /\ ~(streak[n] >= DeadAfter)
        /\ lonely[n] <= streak[n]
    BY <1>1 DEF GridTypeOK, DeadNodes, LonelyInv
  <2>2. Cardinality(Awaited(n)) \in Nat /\ Cardinality(Awaited(n)) <= MaxFlight
    BY AwaitedSize, GridAssumption DEF LonelyInv
  <2> QED BY <2>1, <2>2, GridAssumption DEF Exposure
<1> QED BY <1>1, <1>2, <1>3 DEF LonelyInv, GridTypeOK

\* A shot is one more in flight for each of its roster.
LEMMA FiresKeeps ==
  ASSUME GridTypeOK, LonelyInv, Fires
  PROVE  LonelyInv'
<1>1. /\ loop = "wake" /\ loop' = "top" /\ UNCHANGED <<lonely, streak, on>>
      /\ Cardinality(shots) < MaxFlight
      /\ shots' = shots \/ shots' = shots \cup {ShotOf}
  BY DEF Fires, env, run
<1>2. IsFiniteSet(shots) /\ Cardinality(shots) \in Nat
  BY FS_CardinalityType DEF LonelyInv
<1>3. IsFiniteSet(shots') /\ Cardinality(shots') <= MaxFlight
  BY <1>1, <1>2, FS_AddElement, GridAssumption
<1>4. ASSUME NEW n \in Nodes PROVE Exposure(n)' <= DeadAfter + MaxFlight
  <2>1. /\ IsFiniteSet(Awaited(n)) /\ Cardinality(Awaited(n)) \in Nat /\ lonely[n] \in Nat
        /\ Exposure(n) <= DeadAfter + MaxFlight
        /\ n \in on => Exposure(n) < DeadAfter + MaxFlight
    BY <1>1, AwaitedSize DEF LonelyInv, GridTypeOK
  <2>2. CASE Awaited(n)' = Awaited(n)
    BY <1>1, <2>1, <2>2 DEF Exposure
  <2>3. CASE Awaited(n)' # Awaited(n)
    <3>1. n \in on /\ Awaited(n)' = Awaited(n) \cup {ShotOf}
      BY <1>1, <2>3 DEF Awaited, ShotOf
    <3> DEFINE one == ShotOf
    <3> HIDE DEF one
    <3>2. /\ Cardinality(Awaited(n) \cup {one}) <= Cardinality(Awaited(n)) + 1
          /\ IsFiniteSet(Awaited(n) \cup {one})
      <4>1. /\ IsFiniteSet(Awaited(n) \cup {one})
            /\ Cardinality(Awaited(n) \cup {one}) =
                 IF one \in Awaited(n) THEN Cardinality(Awaited(n))
                                       ELSE Cardinality(Awaited(n)) + 1
        BY <2>1, FS_AddElement
      <4> QED BY <2>1, <4>1
    <3>3. Cardinality(Awaited(n) \cup {one}) \in Nat
      BY <3>2, FS_CardinalityType
    <3>4. /\ Cardinality(Awaited(n)') <= Cardinality(Awaited(n)) + 1
          /\ Cardinality(Awaited(n)') \in Nat
      BY <3>1, <3>2, <3>3 DEF one
    <3>5. Exposure(n)' = lonely[n] + Cardinality(Awaited(n)')
      BY <1>1 DEF Exposure
    <3>6. lonely[n] + Cardinality(Awaited(n)) < DeadAfter + MaxFlight
      BY <2>1, <3>1 DEF Exposure
    <3> QED BY <2>1, <3>4, <3>5, <3>6, GridAssumption
  <2> QED BY <2>2, <2>3
<1> QED BY <1>1, <1>3, <1>4 DEF LonelyInv

\* Every step keeps what members have missed within bounds.
LEMMA LonelyStep ==
  ASSUME GridTypeOK, GridTypeOK', LonelyInv, [Next]_vars
  PROVE  LonelyInv'
<1> USE DEF env, run, probing
<1>1. \A n \in Nodes : streak[n] \in Nat /\ lonely[n] \in Nat /\ lonely[n] <= streak[n]
  BY DEF GridTypeOK, LonelyInv
<1>2. CASE UNCHANGED vars
  BY <1>1, <1>2, LonelyStays DEF vars
<1>3. CASE LoopEnds \/ Pauses \/ ProbeBegins \/ ProbeLists \/ ProbeAccepted \/ ProbeAbandoned
           \/ ProbeHolds
  <2>1. UNCHANGED <<shots, lonely, streak>> /\ loop' # "wake"
    BY <1>3 DEF LoopEnds, Pauses, ProbeBegins, ProbeLists, ProbeAccepted, ProbeAbandoned,
                ProbeHolds
  <2> QED BY <1>1, <2>1, LonelyStays
<1>4. CASE ProbeUnlisted \/ ProbeRefused \/ ProbeNames \/ ProbeGivesUp
  <2>1. PICK n, passed : Verdict(n, passed) /\ UNCHANGED shots
    BY <1>4 DEF ProbeUnlisted, ProbeRefused, ProbeNames, ProbeGivesUp
  <2>2. /\ loop' = "top"
        /\ \/ UNCHANGED <<streak, lonely>>
           \/ streak' = [streak EXCEPT ![n] = 0] /\ lonely' = [lonely EXCEPT ![n] = 0]
    BY <2>1 DEF Verdict
  <2>3. \A m \in Nodes : lonely'[m] <= streak'[m] /\ lonely'[m] <= lonely[m]
    BY <1>1, <2>2 DEF GridTypeOK
  <2> QED BY <2>1, <2>2, <2>3, LonelyStays
<1>5. ASSUME NEW n \in Nodes, Lose(n) \/ Mend(n) \/ Poll(n) \/ HoldExpires(n) PROVE LonelyInv'
  <2>1. UNCHANGED <<shots, lonely, streak, loop, on>>
    BY <1>5 DEF Lose, Mend, Poll, HoldExpires
  <2> QED BY <1>1, <2>1, LonelyStays
<1>6. ASSUME NEW n \in Nodes, Switch(n) PROVE LonelyInv'
  <2>1. /\ UNCHANGED <<shots, streak, loop>> /\ lonely' = [lonely EXCEPT ![n] = 0]
        /\ on' \subseteq on \cup {n}
    BY <1>6 DEF Switch
  <2>2. \A m \in Nodes : /\ lonely'[m] <= streak'[m] /\ lonely'[m] <= lonely[m]
    BY <1>1, <2>1 DEF GridTypeOK
  <2>3. lonely'[n] = 0
    BY <2>1 DEF GridTypeOK
  <2> QED BY <2>1, <2>2, <2>3, LonelyStays
<1>7. CASE FrameLands \/ Pulls \/ BackoffOver \/ ResumeAges \/ StopGrid
  <2>1. UNCHANGED <<shots, lonely, streak, loop, on>>
    BY <1>7 DEF FrameLands, Pulls, BackoffOver, ResumeAges, StopGrid
  <2> QED BY <1>1, <2>1, LonelyStays
<1> QED BY <1>2, <1>3, <1>4, <1>5, <1>6, <1>7, AnswerKeeps, JudgeKeeps, AimsKeeps, FiresKeeps
        DEF Next, ShotNext, LoopNext, ProbeNext, EnvNext

-----------------------------------------------------------------------------
(***************************************************************************)
(* The frame of a probe.                                                   *)
(***************************************************************************)
\* Every step keeps the frame of a probe pending, named or reported.
LEMMA ProbeFrameStep ==
  ASSUME GridTypeOK, ProbeFrameAccounted, [Next]_vars
  PROVE  ProbeFrameAccounted'
<1> USE DEF env, run, probing, Me
<1>1. CASE UNCHANGED vars \/ \E s \in shots : Answer(s) \/ Judge(s)
  BY <1>1 DEF vars, Answer, Judge, ProbeFrameAccounted
<1>2. CASE LoopEnds \/ Pauses \/ ProbeBegins \/ Aims \/ Fires \/ ProbeLists \/ ProbeHolds
  BY <1>2 DEF LoopEnds, Pauses, ProbeBegins, Aims, Fires, ProbeLists, ProbeHolds,
              ProbeFrameAccounted
<1>3. CASE ProbeUnlisted \/ ProbeRefused
  BY <1>3 DEF ProbeUnlisted, ProbeRefused, ProbeFrameAccounted
<1>4. CASE ProbeAccepted \/ ProbeAbandoned
  BY <1>4 DEF ProbeAccepted, ProbeAbandoned, Exposed, NoFrame, ProbeFrameAccounted
<1>5. CASE ProbeNames
  BY <1>5 DEF ProbeNames, NoFrame, ProbeFrameAccounted
<1>6. CASE ProbeGivesUp
  <2>1. frame' = [frame EXCEPT !.told = @ \/ frame.node = pause.node]
    BY <1>6 DEF ProbeGivesUp
  <2>2. frame'.at = frame.at /\ frame'.told = (frame.told \/ frame.node = pause.node)
    BY <2>1 DEF GridTypeOK
  <2> QED BY <1>6, <2>2 DEF ProbeGivesUp, ProbeFrameAccounted
<1>7. ASSUME NEW n \in Nodes, Lose(n) \/ Mend(n) \/ Switch(n) \/ Poll(n) \/ HoldExpires(n)
      PROVE  ProbeFrameAccounted'
  BY <1>7 DEF Lose, Mend, Switch, Poll, HoldExpires, ProbeFrameAccounted
<1>8. CASE FrameLands \/ Pulls
  <2>1. frame.at # "none" /\ frame'.told = frame.told /\ frame'.node = frame.node
        /\ UNCHANGED <<loop, pause>>
    BY <1>8 DEF FrameLands, Pulls, GridTypeOK
  <2> QED BY <2>1 DEF ProbeFrameAccounted
<1>9. CASE BackoffOver \/ ResumeAges \/ StopGrid
  <2>1. UNCHANGED <<frame, loop>> /\ pause'.node = pause.node
    BY <1>9 DEF BackoffOver, ResumeAges, StopGrid, GridTypeOK
  <2> QED BY <2>1 DEF ProbeFrameAccounted
<1> QED BY <1>1, <1>2, <1>3, <1>4, <1>5, <1>6, <1>7, <1>8, <1>9
        DEF Next, ShotNext, LoopNext, ProbeNext, EnvNext

\* A resume is a verdict, and a verdict that passes is of a named frame.
LEMMA ResumeStep ==
  ASSUME GridTypeOK, Next, NEW n \in Nodes, last' # last, last'.node = n, last'.recent
  PROVE  InSpool(n)
<1> USE DEF env, run, probing
<1>1. CASE ResumeAges
  BY <1>1 DEF ResumeAges, GridTypeOK
<1>2. CASE ProbeNames
  <2>1. last' = [node |-> Me, level |-> pause.level, recent |-> TRUE] /\ InSpool(Me)
    BY <1>2 DEF ProbeNames, Verdict
  <2> QED BY <2>1
<1>3. CASE ProbeUnlisted \/ ProbeRefused \/ ProbeGivesUp
  BY <1>3 DEF ProbeUnlisted, ProbeRefused, ProbeGivesUp, Verdict
<1>4. CASE \/ LoopEnds \/ Pauses \/ ProbeBegins \/ Aims \/ Fires \/ ProbeLists \/ ProbeHolds
           \/ ProbeAccepted \/ ProbeAbandoned \/ ShotNext
  BY <1>4 DEF LoopEnds, Pauses, ProbeBegins, Aims, Fires, ProbeLists, ProbeHolds,
              ProbeAccepted, ProbeAbandoned, ShotNext, Answer, Judge
<1>5. CASE \/ \E m \in Nodes : Lose(m) \/ Mend(m) \/ Switch(m) \/ Poll(m) \/ HoldExpires(m)
           \/ FrameLands \/ Pulls \/ BackoffOver \/ StopGrid
  BY <1>5 DEF Lose, Mend, Switch, Poll, HoldExpires, FrameLands, Pulls, BackoffOver, StopGrid
<1> QED BY <1>1, <1>2, <1>3, <1>4, <1>5 DEF Next, LoopNext, ProbeNext, EnvNext

-----------------------------------------------------------------------------
(***************************************************************************)
(* The theorems.                                                           *)
(***************************************************************************)
\* What the grid keeps of its members, shots, pause and probe stays in its type,
\* and a shot's roster is who was asked, who answered and who failed.
THEOREM GridTypeCorrect == Spec => []GridTypeOK
<1>1. Init => GridTypeOK
  BY GridAssumption DEF Init, GridTypeOK, NoFrame, NoProbe, Places, Nodes, None
<1>2. GridTypeOK /\ [Next]_vars => GridTypeOK'
  BY GridTyped
<1> QED BY <1>1, <1>2, PTL DEF Spec

\* A member that stopped answering does not leave the others shooting alone
\* for longer than the streak and what was in flight (_judge_shot).
THEOREM ShotsAloneBounded == Spec => []LonelyShotsBounded
<1>1. Init => LonelyInv
  <2> SUFFICES ASSUME Init PROVE LonelyInv
    OBVIOUS
  <2>1. IsFiniteSet(shots) /\ Cardinality(shots) = 0
    BY FS_EmptySet DEF Init
  <2>2. \A n \in Nodes : Awaited(n) = {} /\ lonely[n] = 0 /\ streak[n] = 0
    BY DEF Init, Awaited
  <2>3. Cardinality({}) = 0
    BY FS_EmptySet
  <2>4. \A n \in Nodes : Exposure(n) = 0
    BY <2>2, <2>3 DEF Exposure
  <2>5. loop # "wake"
    BY DEF Init
  <2> QED BY <2>1, <2>2, <2>4, <2>5, GridAssumption DEF LonelyInv
<1>2. GridTypeOK /\ GridTypeOK' /\ LonelyInv /\ [Next]_vars => LonelyInv'
  BY LonelyStep
<1>3. GridTypeOK /\ LonelyInv => LonelyShotsBounded
  <2> SUFFICES ASSUME GridTypeOK, LonelyInv, NEW n \in Nodes
               PROVE  lonely[n] <= DeadAfter + MaxFlight
    BY DEF LonelyShotsBounded
  <2>1. lonely[n] \in Nat /\ Cardinality(Awaited(n)) \in Nat
        /\ Exposure(n) <= DeadAfter + MaxFlight
    BY AwaitedSize DEF GridTypeOK, LonelyInv
  <2> QED BY <2>1, GridAssumption DEF Exposure
<1> QED BY <1>1, <1>2, <1>3, GridTypeCorrect, PTL DEF Spec

\* The frame of a probe is named, or reported as not accounted for, whatever
\* was lost on the way (_probe_fire, _name_probe_frame).
THEOREM ProbesAccounted == Spec => []ProbeFrameAccounted
<1>1. Init => ProbeFrameAccounted
  BY DEF Init, ProbeFrameAccounted, NoFrame
<1>2. GridTypeOK /\ ProbeFrameAccounted /\ [Next]_vars => ProbeFrameAccounted'
  BY ProbeFrameStep
<1> QED BY <1>1, <1>2, GridTypeCorrect, PTL DEF Spec

\* The grid resumes after a probe only on a frame of that body's that the
\* listing showed (_start_capture_loop).
THEOREM ResumesByFrame == Spec => ResumedByFrame
<1>1. GridTypeOK /\ [Next]_vars =>
         [\A n \in Nodes : (last' # last /\ last'.node = n /\ last'.recent) => InSpool(n)]_vars
  BY ResumeStep
<1> QED BY <1>1, GridTypeCorrect, PTL DEF Spec, ResumedByFrame
=============================================================================
