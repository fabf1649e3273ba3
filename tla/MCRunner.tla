------------------------------ MODULE MCRunner ------------------------------
(* Small instances of Runner.                                              *)
EXTENDS Runner

OneStem == <<"drums">>
TwoStems == <<"drums", "bass">>
=============================================================================
