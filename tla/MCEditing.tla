----------------------------- MODULE MCEditing -----------------------------
(* Documents of one hit and of two, a steady grid for the edits, one with     *)
(* changes of tempo and of signature for the arithmetic, and a loop; two tabs*)
(* with three edits and an export between them.                            *)
EXTENDS Editing

MCGroups == <<<<"hhc", "hhp", "hho">>, <<"kick">>>>

Kick == [id |-> -1, art |-> "kick", t |-> 0, vel |-> 2]
Hat == [id |-> -2, art |-> "hhc", t |-> 2, vel |-> 1]
MCDocuments == {{Kick}, {Kick, Hat}}

Steady == [beats |-> <<0, 4>>, offset |-> 0, signatures |-> <<[beat |-> 0, numerator |-> 1]>>]
Varied == [beats |-> <<1, 9, 13, 21>>, offset |-> 1,
           signatures |-> <<[beat |-> 0, numerator |-> 3], [beat |-> 4, numerator |-> 2]>>]
MCGrids == {NoGrid, Steady, Varied}

MCBudgets ==
  {[edits |-> 2, looks |-> 0, frames |-> 0, grid |-> Steady, hits |-> {Kick}],
   [edits |-> 1, looks |-> 0, frames |-> 0, grid |-> Steady, hits |-> {Kick, Hat}],
   [edits |-> 0, looks |-> 4, frames |-> 0, grid |-> Varied, hits |-> {Kick}],
   [edits |-> 0, looks |-> 0, frames |-> 4, grid |-> NoGrid, hits |-> {Kick, Hat}],
   [edits |-> 0, looks |-> 1, frames |-> 3, grid |-> NoGrid, hits |-> {Kick, Hat}],
   [edits |-> 1, looks |-> 0, frames |-> 2, grid |-> NoGrid, hits |-> {Kick}]}

MCRegions == {NoLoop, [start |-> 0, end |-> 2]}

TwoAndOne == <<2, 1>>
OneAndNone == <<1, 0>>
=============================================================================
