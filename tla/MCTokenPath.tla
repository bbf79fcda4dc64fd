---------------------------- MODULE MCTokenPath ----------------------------
(***************************************************************************)
(* An instance of TokenPath for TLC: tokens that differ in either half, one *)
(* that readPW cuts, the reset, and readings with and without a newline.   *)
(***************************************************************************)
EXTENDS TokenPath

CONSTANTS p, q, x, y

MCTexts ==
    {Reset, <<p, q, Newline, x>>, <<q, q, Newline, x, y>>,
     <<q, p, Newline, y, x, y>>}

MCImei == <<x>>

MCReadings == {<<x, y>>, <<x, Newline>>, <<Newline, y>>, <<Newline, Newline>>}
=============================================================================
