------------------------------- MODULE Toasts -------------------------------
(***************************************************************************)
(* The notifications of the web application (web/src/components/Toast.tsx): *)
(* three are shown, the others wait; an error stays until it is dismissed, *)
(* the others go by themselves unless the pointer or the focus is on them. *)
(***************************************************************************)
EXTENDS Sequences, SequencesExt, Integers

CONSTANTS MaxVisible, (* MAX_VISIBLE                                        *)
          MaxQueue    (* bound: toasts that wait                            *)

ASSUME ToastsAssumption == MaxVisible \in Nat \ {0} /\ MaxQueue \in Nat

VARIABLE toasts \* those on show, with their timers, and the kinds that wait

Kinds == {"success", "error", "info"}

ToastsInit == toasts = [items |-> <<>>, queue |-> <<>>]

\* arm: an error gets no timer.
Armed(item) == [item EXCEPT !.timer = item.kind # "error"]
Fresh(kind) == Armed([kind |-> kind, timer |-> FALSE, on |-> {}])

\* Mutant of Promoted: a place that is free is left to the next new toast.
PromotedNever(t) == t

\* A free place is taken by the toast that has waited longest.
Promoted(t) ==
  IF Len(t.items) < MaxVisible /\ t.queue # <<>>
  THEN [items |-> Append(t.items, Fresh(Head(t.queue))), queue |-> Tail(t.queue)]
  ELSE t

Toast(kind) ==
  /\ Len(toasts.queue) < MaxQueue
  /\ toasts' = IF Len(toasts.items) >= MaxVisible
               THEN [toasts EXCEPT !.queue = Append(@, kind)]
               ELSE [toasts EXCEPT !.items = Append(@, Fresh(kind))]

Removed(i) == toasts' = Promoted([toasts EXCEPT !.items = RemoveAt(@, i)])

\* The cross or the action of a toast, where the pointer or the focus is; or
\* its timer.
DismissToast(i) == toasts.items[i].on # {} /\ Removed(i)
TimeUp(i) == toasts.items[i].timer /\ Removed(i)

\* The pointer or the focus comes to a toast, and stops its timer.
PausedBy(item, how) == [item EXCEPT !.on = @ \cup {how}, !.timer = FALSE]

Pause(i, how) ==
  /\ \A k \in DOMAIN toasts.items : how \notin toasts.items[k].on
  /\ toasts' = [toasts EXCEPT !.items[i] = PausedBy(@, how)]

\* Mutant of Rearmed: a toast that was looked at has no timer any more.
RearmedNever(item) == item

\* resume: any leave starts the timer over, the focus may still be there.
Rearmed(item) == IF item.timer THEN item ELSE Armed(item)
ResumedBy(item, how) == Rearmed([item EXCEPT !.on = @ \ {how}])

Resume(i, how) ==
  /\ how \in toasts.items[i].on
  /\ toasts' = [toasts EXCEPT !.items[i] = ResumedBy(@, how)]

ToastsRun == \E i \in DOMAIN toasts.items : TimeUp(i)

ToastsNext ==
  \/ \E kind \in Kinds : Toast(kind)
  \/ \E i \in DOMAIN toasts.items :
       DismissToast(i) \/ \E how \in {"pointer", "focus"} : Pause(i, how) \/ Resume(i, how)
  \/ ToastsRun

-----------------------------------------------------------------------------
(* Properties                                                              *)

\* A toast waits only while every place is taken.
NoPlaceIsWasted == toasts.queue # <<>> => Len(toasts.items) = MaxVisible

\* A toast that may go by itself, and that nobody looks at, will: its timer
\* runs, however often the pointer and the focus came and went.
NoneStaysForEver ==
  \A i \in DOMAIN toasts.items :
    toasts.items[i].kind # "error" /\ toasts.items[i].on = {} => toasts.items[i].timer

\* Toasts come and go: free places are taken, and timers run again after every
\* pause.
ToastsInv == NoPlaceIsWasted /\ NoneStaysForEver
=============================================================================
