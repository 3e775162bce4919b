----------------------------- MODULE MCParallel -----------------------------
(* A maximum of one or two calls or none, with and without a minimum; 9 stands *)
(* for SIZE_MAX.  Sequences of up to three pairs when slices end, and of five   *)
(* when they do not.                                                          *)
EXTENDS Parallel

MCLimits == {<<1, 9>>, <<2, 9>>, <<2, 1>>, <<2, 2>>, <<9, 9>>}
MCCases == {<<0, TRUE>>, <<1, TRUE>>, <<3, TRUE>>, <<5, FALSE>>}

==============================================================================
