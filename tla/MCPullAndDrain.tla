--------------------------- MODULE MCPullAndDrain ---------------------------
(***************************************************************************)
(* The two ways a shot reaches the host side by side: pulled from the node *)
(* in the run, and drained from the card between runs.  Each behaviour is  *)
(* one of one of them, the other stays as it was begun: no run is active   *)
(* while a card is drained (RunXorDrain in RunLifecycle), and what the     *)
(* drain reads is on the card, what the pull worker reads on the node.     *)
(***************************************************************************)
EXTENDS MCPullWorker, MCCardDrain

VARIABLE part      \* the component at work

PullAndDrainInit == part \in {"pull", "drain"} /\ Init /\ CardInit

\* A pull worker may rest for ever; a drain may not stop half way.
PullAndDrainNext ==
    /\ part' = part
    /\ \/ part = "pull" /\ Next /\ UNCHANGED cardVars
       \/ part = "pull" /\ UNCHANGED <<vars, cardVars>>
       \/ part = "drain" /\ CardNext /\ UNCHANGED vars

PullAndDrain ==
    PullAndDrainInit /\ [][PullAndDrainNext]_<<part, vars, cardVars>>
=============================================================================
