----------------------------- MODULE ClaimLedger -----------------------------
(***************************************************************************)
(* What the pull worker's claim bookkeeping (rig/run.py, class PullWorker, *)
(* `_cmds`, `cmd_epoch`, `_stem_cmd`) promises, files and spool aside: a   *)
(* fire command is queued once, handed to one release at a time, oldest    *)
(* first, and once it is over - spent on a row, dropped, expired, orphaned *)
(* or squeezed out of the queue - it never dates another exposure.         *)
(***************************************************************************)
EXTENDS Integers, FiniteSets, FiniteSetsExt

CONSTANTS
    Orders,     \* the fire commands, numbered from 1 in target order
    Releases    \* what a command may be handed to: the camera's stems

NoOrder == 0

VARIABLES
    queue,      \* commands waiting for a release
    held,       \* per release: the command it holds, or NoOrder
    over        \* commands that will never be handed out again

ledger == <<queue, held, over>>

Handed == {held[r] : r \in Releases} \ {NoOrder}

\* A new command joins the queue, and may push the oldest one out of it.
Note(s) ==
    /\ s \notin queue \union Handed \union over
    /\ LET joined == queue \union {s} IN
       \E out \in {{}, {Min(joined)}} :
          /\ queue' = joined \ out
          /\ over' = over \union out
    /\ UNCHANGED held

\* A release that holds nothing takes the oldest command.
Take(r) ==
    /\ held[r] = NoOrder /\ queue # {}
    /\ held' = [held EXCEPT ![r] = Min(queue)]
    /\ queue' = queue \ {Min(queue)}
    /\ UNCHANGED over

\* A release that was not that fire's gives its command back.
Return(r) ==
    /\ held[r] # NoOrder
    /\ held' = [held EXCEPT ![r] = NoOrder]
    /\ queue' = queue \union {held[r]}
    /\ UNCHANGED over

\* A release is done with its command, which then belongs to nobody.
Settle(r) ==
    /\ held[r] # NoOrder
    /\ held' = [held EXCEPT ![r] = NoOrder]
    /\ over' = over \union {held[r]}
    /\ UNCHANGED queue

\* Queued commands are dropped: too old, or the fire was refused.
Drop(S) ==
    /\ queue' = queue \ S
    /\ over' = over \union S
    /\ UNCHANGED held

Init ==
    /\ queue = {} /\ over = {}
    /\ held = [r \in Releases |-> NoOrder]

Next ==
    \/ \E s \in Orders : Note(s)
    \/ \E r \in Releases : Take(r) \/ Return(r) \/ Settle(r)
    \/ \E S \in SUBSET queue : Drop(S)

Spec == Init /\ [][Next]_ledger
=============================================================================
