------------------------------ MODULE JobFeed -------------------------------
(***************************************************************************)
(* What the event stream of a job promises: the events of the job form a   *)
(* log, which is closed by the event that ends the job or by its removal,  *)
(* and every client is told the log from its beginning, in order, each     *)
(* event once.                                                             *)
(***************************************************************************)
EXTENDS Naturals, Sequences

CONSTANTS Clients, Events

VARIABLES log,   (* the events of the job                                  *)
          ended, (* there will be no more                                  *)
          told   (* told[c]: what client c was told                        *)

feedVars == <<log, ended, told>>

FeedInit ==
  /\ \E e \in Events : log = <<e>>
  /\ ended = FALSE
  /\ told = [c \in Clients |-> <<>>]

Write(e) ==
  /\ ~ended
  /\ log' = Append(log, e)
  /\ ended' \in BOOLEAN
  /\ UNCHANGED told

Close ==
  /\ ended' = TRUE
  /\ UNCHANGED <<log, told>>

Tell(c) ==
  /\ Len(told[c]) < Len(log)
  /\ told' = [told EXCEPT ![c] = Append(@, log[Len(@) + 1])]
  /\ UNCHANGED <<log, ended>>

FeedNext == Close \/ (\E e \in Events : Write(e)) \/ (\E c \in Clients : Tell(c))

FeedSpec == FeedInit /\ [][FeedNext]_feedVars
=============================================================================
