------------------------------ MODULE Profile ------------------------------
(***************************************************************************)
(* The profile page (web/src/routes/Profile.tsx): its query, which starts  *)
(* from the signed-in user, the form, and the save that writes both.       *)
(* Fault kinds: "network" (a request or its answer is lost).               *)
(***************************************************************************)
EXTENDS Integers, Faults

CONSTANTS Names,   (* names and avatars an account may have                 *)
          Refusals (* those the form or the server refuses                  *)

ASSUME ProfileAssumption == Refusals \cap Names = {} /\ "old" \in Names

VARIABLES stored, (* the server: the name of the account                    *)
          shows,  (* the cached profile and the cached user                 *)
          draft,  (* editing, what is typed, error                          *)
          wire    (* the fetch of the profile, the save and its answer,     *)
                  (* and whether a cache missed a change                    *)

profileVars == <<stored, shows, draft, wire>>

ProfileInit ==
  /\ stored = "old"
  /\ shows = [profile |-> "old", user |-> "old"]
  /\ draft = [editing |-> FALSE, typed |-> "old", error |-> FALSE]
  /\ wire = [fetch |-> "sent", save |-> "none", missed |-> FALSE]

ProfileServed ==
  /\ wire.fetch = "sent" /\ wire' = [wire EXCEPT !.fetch = stored]
  /\ UNCHANGED <<stored, shows, draft, faults>>

\* An answer read before a save may come after it.
ProfileLands ==
  /\ wire.fetch \in Names
  /\ shows' = [shows EXCEPT !.profile = wire.fetch]
  /\ wire' = [wire EXCEPT !.fetch = "none", !.missed = @ \/ wire.fetch # stored]
  /\ UNCHANGED <<stored, draft, faults>>

StartEdit ==
  /\ ~draft.editing
  /\ draft' = [editing |-> TRUE, typed |-> shows.profile, error |-> FALSE]
  /\ UNCHANGED <<stored, shows, wire, faults>>

\* The fields are read-only while the form is saved.
TypeName(n) ==
  /\ draft.editing /\ wire.save = "none" /\ n # draft.typed
  /\ draft' = [draft EXCEPT !.typed = n]
  /\ UNCHANGED <<stored, shows, wire, faults>>

\* It asks first when something was changed.
CancelEdit ==
  /\ draft.editing /\ wire.save = "none"
  /\ draft' = [draft EXCEPT !.editing = FALSE, !.error = FALSE]
  /\ UNCHANGED <<stored, shows, wire, faults>>

SubmitProfile ==
  /\ draft.editing /\ wire.save = "none"
  /\ \/ wire' = [wire EXCEPT !.save = "sent"] /\ UNCHANGED draft
     \/ draft.typed \in Refusals /\ draft' = [draft EXCEPT !.error = TRUE] /\ UNCHANGED wire
  /\ UNCHANGED <<stored, shows, faults>>

SaveServed ==
  /\ wire.save = "sent"
  /\ wire' = [wire EXCEPT !.save = IF draft.typed \in Refusals THEN "refused" ELSE "saved"]
  /\ stored' = IF draft.typed \in Refusals THEN stored ELSE draft.typed
  /\ UNCHANGED <<shows, draft, faults>>

SaveLost ==
  /\ wire.save \in {"sent", "saved"} /\ Fault("network")
  /\ wire' = [wire EXCEPT !.save = "refused", !.missed = @ \/ wire.save = "saved"]
  /\ UNCHANGED <<stored, shows, draft>>

\* Mutant of SavedAs: the header keeps the user it has.
SavedHere(n) == [shows EXCEPT !.profile = n]

SavedAs(n) == [profile |-> n, user |-> n]

SaveLands ==
  /\ wire.save \in {"saved", "refused"}
  /\ IF wire.save = "saved"
     THEN /\ shows' = SavedAs(draft.typed)
          /\ draft' = [draft EXCEPT !.editing = FALSE, !.error = FALSE]
     ELSE draft' = [draft EXCEPT !.error = TRUE] /\ UNCHANGED shows
  /\ wire' = [wire EXCEPT !.save = "none", !.missed = @ /\ wire.save # "saved"]
  /\ UNCHANGED <<stored, faults>>

ProfileNext ==
  \/ ProfileServed \/ ProfileLands \/ StartEdit \/ CancelEdit \/ SubmitProfile
  \/ SaveServed \/ SaveLost \/ SaveLands
  \/ \E n \in Names \cup Refusals : TypeName(n)

-----------------------------------------------------------------------------
(* Properties                                                              *)

\* The header and the page say what the account has, once no save is under
\* way ("updated everywhere", Profile.tsx:47); unless the save's answer was
\* lost, or an answer of the query was read before the save and came after
\* it: the query under way is not dropped (Profile.tsx:43).
SavedEverywhere ==
  wire.save = "none" /\ ~wire.missed => shows = [profile |-> stored, user |-> stored]
=============================================================================
