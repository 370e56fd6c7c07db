---------------------------- MODULE MCCardMatch ----------------------------
(***************************************************************************)
(* CardMatch with what the bodies and the nodes may be set to.             *)
(***************************************************************************)
EXTENDS CardMatch

Setup(letters, files, frames, all, ahead) ==
    [prefix |-> letters, first |-> files, saved |-> frames, counts |-> all,
     clock |-> ahead]

\* No number is shared, with clocks far apart and close; one camera's numbers
\* are its files', and both's; both bodies' names begin alike; and numbers four
\* shots off, which the last row shares with another's file.
SetupsDef == {
    Setup(<<1, 2>>, <<0, 0>>, <<100, 200>>, TRUE, <<1000, 3000>>),
    Setup(<<1, 2>>, <<0, 0>>, <<100, 200>>, TRUE, <<1000, 1002>>),
    Setup(<<1, 2>>, <<50, 0>>, <<100, 0>>, TRUE, <<1000, 1004>>),
    Setup(<<2, 1>>, <<50, 0>>, <<50, 0>>, TRUE, <<1000, 1001>>),
    Setup(<<1, 1>>, <<50, 0>>, <<100, 200>>, TRUE, <<1000, 3000>>),
    Setup(<<1, 1>>, <<50, 0>>, <<50, 0>>, FALSE, <<1000, 3000>>),
    Setup(<<1, 2>>, <<50, 0>>, <<54, 0>>, FALSE, <<1000, 3000>>)}

\* The second camera's numbers are its files', the first one's are nobody's.
SecondCounts == {Setup(<<1, 2>>, <<50, 0>>, <<100, 0>>, TRUE, <<1000, 3000>>)}
=============================================================================
