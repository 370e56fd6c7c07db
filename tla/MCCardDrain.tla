---------------------------- MODULE MCCardDrain ----------------------------
(***************************************************************************)
(* Model-checking instances of CardDrain: three shots whose card names     *)
(* recur, the last with the content id of the second.                      *)
(***************************************************************************)
EXTENDS CardDrain

RawAndJpeg == {"raw", "jpg"}
ThreeShots == 1..3
SameName == [c \in ThreeShots |-> "DSC00001"]
ReusedId == [c \in ThreeShots |-> IF c = 1 THEN 1 ELSE 2]
=============================================================================
