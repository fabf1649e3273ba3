---------------------------- MODULE MCListening ----------------------------
(* Small instances of Listening.                                           *)
EXTENDS Listening

CONSTANTS Drums, Gone

OneRegion == {[start |-> 1, end |-> 4]}

StoredStem(p, on) == [position |-> p, muted |-> on]

\* A saved mix; one of a job with another stem; one with a loop turned round.
SomeMixes ==
  {[stems |-> [s \in Strips |-> StoredStem(0, FALSE)], solo |-> Drums,
    loop |-> [start |-> 0, end |-> 2], loopEnabled |-> TRUE, selected |-> Nobody, master |-> 1],
   [stems |-> [s \in {Gone, Drums} |-> StoredStem(2, TRUE)], solo |-> Gone,
    loop |-> [start |-> 2, end |-> 1], loopEnabled |-> TRUE, selected |-> Gone, master |-> 3]}
=============================================================================
