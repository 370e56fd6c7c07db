--------------------------- MODULE MCGridAndMatch ---------------------------
(***************************************************************************)
(* The capture grid and, after the run, the match of the cards with its    *)
(* rows, side by side: each behaviour is one of one of them, the other     *)
(* stays as it was begun.  They share no state: what the match knows of a  *)
(* run is its rows.                                                        *)
(***************************************************************************)
EXTENDS CaptureGrid, MCCardMatch

VARIABLE part      \* the component at work

\* A scene of the match for the behaviours that are of the grid.
Unmatched ==
    scene = [dir |-> "cam1", runs |-> 1, setup |-> CHOOSE s \in Setups : TRUE,
             journal |-> {}, flaws |-> {}]

GridAndMatchInit ==
    /\ Init /\ MatchInit
    /\ part \in {"match"} \cup (IF Unmatched THEN {"grid"} ELSE {})

GridAndMatchNext ==
    /\ part' = part
    /\ \/ part = "grid" /\ Next /\ UNCHANGED matchVars
       \/ part = "match" /\ MatchNext /\ UNCHANGED vars

\* The fairness of CaptureGrid.
FairGridAndMatch ==
    /\ GridAndMatchInit /\ [][GridAndMatchNext]_<<part, vars, matchVars>>
    /\ WF_vars(part = "grid" /\ ShotNext)
    /\ WF_vars(part = "grid" /\ LoopNext)
    /\ WF_vars(part = "grid" /\ BackoffOver)
    /\ WF_vars(part = "grid" /\ FrameLands)
    /\ WF_vars(part = "grid" /\ Pulls)
    /\ \A n \in Nodes : WF_vars(part = "grid" /\ Poll(n))

\* CaptureGrid: the transect is completed (see TransectCompletes there).
GridCompletes == part = "grid" => TransectCompletes
=============================================================================
