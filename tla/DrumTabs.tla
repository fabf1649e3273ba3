------------------------------ MODULE DrumTabs ------------------------------
(***************************************************************************)
(* The drum editor's document in several browser tabs: each tab loads the  *)
(* document, autosaves its edits on a chain of revisions, and exports a    *)
(* saved revision.  The server accepts a save only at its current          *)
(* revision.  A document is the set of edits that went into it.            *)
(***************************************************************************)
EXTENDS Faults, FiniteSets

CONSTANTS Tabs,
          MaxEdits,   (* MaxEdits[t]: bound on the edits of tab t          *)
          MaxLoads,   (* bound on its loads                                *)
          MaxExports  (* MaxExports[t]: bound on the exports of tab t      *)

ASSUME DrumTabsAssumption ==
  MaxEdits \in [Tabs -> Nat] /\ MaxLoads \in Nat /\ MaxExports \in [Tabs -> Nat]

VARIABLES
  server,    (* the stored document and its edit_rev                       *)
  page,      (* page[t]: what the hook of tab t shows                      *)
  autosave,  (* autosave[t]: its Autosave                                  *)
  puts,      (* PUTs under way                                             *)
  export     (* export[t]: its exportNow                                   *)

drumVars == <<server, page, autosave, puts, export, faults>>

Edits == UNION {{t} \X (1..MaxEdits[t]) : t \in Tabs}
Docs == SUBSET Edits
Answers == {"none", "saved", "conflict"}
NoExport == [step |-> "none", asked |-> {}, rev |-> 0, count |-> 0]

NoAnswer == [rev |-> 0, doc |-> {}]

\* new Autosave(rev): the n-th of its tab.
NewAutosave(n, rev) ==
  [load |-> n, alive |-> TRUE, status |-> "idle", rev |-> rev, pending |-> {},
   timer |-> FALSE, inFlight |-> FALSE, queued |-> FALSE]

-----------------------------------------------------------------------------
(* Autosave: a is its state; pending holds at most one document            *)

\* Mutant of CanStart: it starts with nothing to send.
CanStartEmpty(a) == a.alive /\ ~a.inFlight

\* The condition on which startSave goes on.
CanStart(a) == a.alive /\ ~a.inFlight /\ a.pending # {}

\* startSave
Started(a) ==
  IF CanStart(a)
  THEN [a EXCEPT !.pending = {}, !.inFlight = TRUE, !.status = "saving"]
  ELSE a

\* The PUT that startSave sends from a.
Request(t, a) ==
  IF CanStart(a)
  THEN {[tab |-> t, load |-> a.load, base |-> a.rev, doc |-> d, answer |-> "none", rev |-> 0] :
          d \in a.pending}
  ELSE {}

\* update: debounced, or queued behind the PUT in flight.
Updated(a, doc) ==
  IF ~a.alive \/ a.status = "conflict" THEN a
  ELSE IF a.inFlight
  THEN [a EXCEPT !.pending = {doc}, !.timer = FALSE, !.queued = TRUE,
                 !.status = IF @ = "saving" THEN "saving" ELSE "pending"]
  ELSE [a EXCEPT !.pending = {doc}, !.timer = TRUE, !.status = "pending"]

NoTimer(a) == [a EXCEPT !.timer = FALSE]

\* dispose
Disposed(a) ==
  [a EXCEPT !.alive = FALSE, !.timer = FALSE, !.pending = {}]

Settled(a) == [a EXCEPT !.inFlight = FALSE, !.queued = FALSE]

\* Mutant of Saved: what is pending by now is taken for saved.
SavedAll(a, rev) == [Settled(a) EXCEPT !.rev = rev, !.status = "saved", !.pending = {}]

\* onSaved; settle then sends what was queued.
Saved(a, rev) ==
  [Settled(a) EXCEPT !.rev = rev, !.status = IF a.pending = {} THEN "saved" ELSE "pending"]

\* onFailed with an EditConflict
Conflicted(a) == [Settled(a) EXCEPT !.pending = {}, !.status = "conflict"]

\* Mutant of SaveFailed: what came meanwhile waits for nobody.
SaveForgotten(a, doc) ==
  [Settled(a) EXCEPT !.pending = IF @ = {} THEN {doc} ELSE @, !.status = "pending"]

\* onFailed otherwise: held, and retried only if an update came meanwhile.
SaveFailed(a, doc) ==
  [Settled(a) EXCEPT !.pending = IF @ = {} THEN {doc} ELSE @, !.status = "error",
                     !.timer = a.queued]

\* describeAutosave
Says(a) ==
  CASE a.status \in {"saved", "idle"} -> "autosaved"
    [] a.status = "pending" -> "unsaved changes"
    [] OTHER -> a.status

-----------------------------------------------------------------------------
(* Export: exportNow goes on when its Autosave has settled                 *)

Over(x) == [NoExport EXCEPT !.count = x.count]

\* Mutant of ExportGoesOn: it goes on whatever the save came to.
ExportAnyway(x, a) ==
  IF x.step # "flushing" \/ (a.inFlight /\ a.alive) THEN x
  ELSE [x EXCEPT !.step = "checking", !.rev = a.rev]

ExportGoesOn(x, a) ==
  IF x.step # "flushing" \/ (a.inFlight /\ a.alive) THEN x
  ELSE IF a.status \in {"conflict", "error"} THEN Over(x)
  ELSE [x EXCEPT !.step = "checking", !.rev = a.rev]

\* The Autosave of t becomes a, which starts a save when it can.
Saves(t, a) ==
  /\ autosave' = [autosave EXCEPT ![t] = Started(a)]
  /\ puts' = puts \cup Request(t, a)

\* exportDisabled: the button of the toolbar.
ExportOffered(t) ==
  /\ page[t].status = "ready" /\ export[t].step = "none"
  /\ autosave[t].status \notin {"conflict", "error"}

AskExport(t) ==
  LET asked == [step |-> "flushing", asked |-> page[t].doc, rev |-> 0, count |-> export[t].count + 1] IN
  /\ ExportOffered(t) /\ ~page[t].gesture
  /\ export[t].count < MaxExports[t]
  /\ Saves(t, NoTimer(autosave[t]))
  /\ export' = [export EXCEPT ![t] = ExportGoesOn(asked, autosave'[t])]
  /\ UNCHANGED <<server, page, faults>>

\* checkDrumExport: the server compares the revisions.
CheckExport(t) ==
  /\ export[t].step = "checking"
  /\ export' = [export EXCEPT ![t] = IF server.rev = @.rev THEN [@ EXCEPT !.step = "posting"]
                                       ELSE Over(@)]
  /\ UNCHANGED <<server, page, autosave, puts, faults>>

\* submitExport: a form in a hidden frame; a refusal is seen by nobody.
PostExport(t) ==
  /\ export[t].step = "posting"
  /\ export' = [export EXCEPT ![t] = Over(@)]
  /\ UNCHANGED <<server, page, autosave, puts, faults>>

-----------------------------------------------------------------------------
(* The hook: loading, editing, leaving                                     *)

\* getDrumEdits reads the document, and answers later.
LoadRead(t) ==
  /\ page[t].status = "loading"
  /\ page' = [page EXCEPT ![t].status = "read", ![t].answer = server]
  /\ UNCHANGED <<server, autosave, puts, export, faults>>

\* A new Autosave takes the place of the last one.
LoadArrives(t) ==
  /\ page[t].status = "read"
  /\ page' = [page EXCEPT ![t].status = "ready", ![t].doc = page[t].answer.doc,
                          ![t].loads = @ + 1, ![t].answer = NoAnswer]
  /\ autosave' = [autosave EXCEPT ![t] = NewAutosave(page[t].loads + 1, page[t].answer.rev)]
  /\ UNCHANGED <<server, puts, export, faults>>

LoadFails(t) ==
  /\ page[t].status \in {"loading", "read"}
  /\ Fault("load")
  /\ page' = [page EXCEPT ![t].status = "error"]
  /\ UNCHANGED <<server, autosave, puts, export>>

\* Offered after a failed load and in a conflict.
ReloadDoc(t) ==
  /\ \/ page[t].status = "error"
     \/ page[t].status = "ready" /\ autosave[t].status = "conflict"
  /\ page[t].loads < MaxLoads
  /\ page' = [page EXCEPT ![t].status = "loading", ![t].gesture = FALSE]
  /\ UNCHANGED <<server, autosave, puts, export, faults>>

\* An edit of the tab, pushed to the Autosave unless a gesture goes on.
Change(t, gesture) ==
  LET doc == page[t].doc \cup {<<t, page[t].made + 1>>} IN
  /\ page[t].status = "ready" /\ page[t].made < MaxEdits[t]
  /\ page' = [page EXCEPT ![t].doc = doc, ![t].made = @ + 1, ![t].gesture = gesture]
  /\ autosave' = [autosave EXCEPT ![t] = IF gesture THEN @ ELSE Updated(@, doc)]
  /\ UNCHANGED <<server, puts, export, faults>>

EditDoc(t) == ~page[t].gesture /\ Change(t, FALSE)
Drag(t) == Change(t, TRUE)

Drop(t) ==
  /\ page[t].status = "ready" /\ page[t].gesture
  /\ page' = [page EXCEPT ![t].gesture = FALSE]
  /\ autosave' = [autosave EXCEPT ![t] = Updated(@, page[t].doc)]
  /\ UNCHANGED <<server, puts, export, faults>>

Debounce(t) ==
  /\ autosave[t].alive /\ autosave[t].timer
  /\ Saves(t, NoTimer(autosave[t]))
  /\ UNCHANGED <<server, page, export, faults>>

\* onHide and onBeforeUnload: flush.
Hide(t) ==
  /\ page[t].status # "left" /\ autosave[t].pending # {}
  /\ Saves(t, NoTimer(autosave[t]))
  /\ UNCHANGED <<server, page, export, faults>>

\* Unmount: flush, then dispose.
Leave(t) ==
  LET a == NoTimer(autosave[t]) IN
  /\ page[t].status # "left"
  /\ page' = [page EXCEPT ![t].status = "left"]
  /\ puts' = puts \cup Request(t, a)
  /\ autosave' = [autosave EXCEPT ![t] = Disposed(Started(a))]
  /\ export' = [export EXCEPT ![t] = ExportGoesOn(@, autosave'[t])]
  /\ UNCHANGED <<server, faults>>

-----------------------------------------------------------------------------
(* The server and the answers                                              *)

\* Mutant of Accepts: the last save wins.
AcceptsAny(p) == TRUE

Accepts(p) == p.base = server.rev

\* Save, under the lock of the job
Serve(p) ==
  /\ p.answer = "none"
  /\ IF Accepts(p)
     THEN /\ server' = [rev |-> server.rev + 1, doc |-> p.doc]
          /\ puts' = (puts \ {p}) \cup {[p EXCEPT !.answer = "saved", !.rev = server.rev + 1]}
     ELSE /\ puts' = (puts \ {p}) \cup {[p EXCEPT !.answer = "conflict"]}
          /\ UNCHANGED server
  /\ UNCHANGED <<page, autosave, export, faults>>

\* The PUT belongs to an Autosave that still listens.
Listens(p) == autosave[p.tab].load = p.load /\ autosave[p.tab].alive

\* Its answer makes a of the Autosave; the next save may start at once.
Hears(p, a) ==
  /\ puts' = (puts \ {p}) \cup (IF Listens(p) THEN Request(p.tab, a) ELSE {})
  /\ autosave' = [autosave EXCEPT ![p.tab] = IF Listens(p) THEN Started(a) ELSE @]
  /\ export' = [export EXCEPT ![p.tab] = ExportGoesOn(@, autosave'[p.tab])]

HearSaved(p) ==
  /\ p.answer = "saved"
  /\ Hears(p, Saved(autosave[p.tab], p.rev))
  /\ UNCHANGED <<server, page, faults>>

HearConflict(p) ==
  /\ p.answer = "conflict"
  /\ Hears(p, Conflicted(autosave[p.tab]))
  /\ UNCHANGED <<server, page, faults>>

\* The request fails: it never arrives, its answer does not, or (late) the
\* server comes to it when the tab has given it up.
LosePut(p, late) ==
  LET a == SaveFailed(autosave[p.tab], p.doc)
      orphan == [p EXCEPT !.load = 0] IN
  /\ Fault("put")
  /\ late => p.answer = "none" /\ p # orphan
  /\ puts' = IF late THEN (puts \ {p}) \cup {orphan} ELSE puts \ {p}
  /\ autosave' = [autosave EXCEPT ![p.tab] = IF Listens(p) THEN a ELSE @]
  /\ export' = [export EXCEPT ![p.tab] = ExportGoesOn(@, autosave'[p.tab])]
  /\ UNCHANGED <<server, page>>

-----------------------------------------------------------------------------
DrumInit ==
  /\ server = [rev |-> 0, doc |-> {}]
  /\ page = [t \in Tabs |-> [status |-> "loading", answer |-> NoAnswer, doc |-> {},
                             made |-> 0, loads |-> 0, gesture |-> FALSE]]
  /\ autosave = [t \in Tabs |-> Disposed(NewAutosave(0, 0))]
  /\ puts = {}
  /\ export = [t \in Tabs |-> NoExport]
  /\ faults = 0

TabNext(t) ==
  \/ LoadRead(t) \/ LoadArrives(t) \/ LoadFails(t) \/ ReloadDoc(t)
  \/ EditDoc(t) \/ Drag(t) \/ Drop(t) \/ Debounce(t) \/ Hide(t) \/ Leave(t)
  \/ AskExport(t) \/ CheckExport(t) \/ PostExport(t)

PutNext(p) ==
  \/ Serve(p) \/ HearSaved(p) \/ HearConflict(p)
  \/ \E late \in BOOLEAN : LosePut(p, late)

DrumNext == (\E t \in Tabs : TabNext(t)) \/ (\E p \in puts : PutNext(p))

DrumSpec == DrumInit /\ [][DrumNext]_drumVars

\* The debounce fires, the server serves, and answers come back.
Answered(t) ==
  \E p \in puts : p.tab = t /\ (Serve(p) \/ HearSaved(p) \/ HearConflict(p))

DrumFairness == \A t \in Tabs : WF_drumVars(Debounce(t)) /\ WF_drumVars(Answered(t))

FairDrumSpec == DrumSpec /\ DrumFairness

-----------------------------------------------------------------------------
(* What the editor promises *)

DrumTypeOK ==
  /\ server.rev \in Nat /\ server.doc \in Docs
  /\ \A t \in Tabs :
       /\ page[t].status \in {"loading", "read", "ready", "error", "left"}
       /\ page[t].doc \in Docs /\ page[t].made \in 0..MaxEdits[t]
       /\ autosave[t].status \in {"idle", "pending", "saving", "saved", "conflict", "error"}
       /\ Cardinality(autosave[t].pending) <= 1
       /\ autosave[t].inFlight /\ autosave[t].alive =>
            Cardinality({p \in puts : p.tab = t /\ p.load = autosave[t].load}) = 1
       /\ export[t].step \in {"none", "flushing", "checking", "posting"}
  /\ \A p \in puts : p.answer \in Answers /\ p.doc \in Docs /\ p.base \in Nat

\* No save overwrites edits it has not seen: what was once on the server stays,
\* whichever tabs save, retry and reload in whatever order.
LineNeverForks == [][server.doc \subseteq server'.doc]_drumVars

\* "Autosaved" is true: every edit the tab shows is then on the server.
AutosavedIsTrue ==
  \A t \in Tabs :
    page[t].status = "ready" /\ ~page[t].gesture /\ Says(autosave[t]) = "autosaved" =>
      page[t].doc \subseteq server.doc

\* The archive the server would answer with now holds every edit that was on
\* the screen when it was asked for, if the tab was not left meanwhile.
ExportHasTheEdits ==
  \A t \in Tabs :
    export[t].step = "posting" /\ server.rev = export[t].rev /\ page[t].status # "left" =>
      export[t].asked \subseteq server.doc

Troubled(t) ==
  \/ page[t].status # "ready"
  \/ page[t].gesture
  \/ Says(autosave[t]) \in {"conflict", "error"}

\* An edit reaches the server, or the tab says why it has not.
EditsAreSaved ==
  \A t \in Tabs : \A n \in 1..MaxEdits[t] :
    <<t, n>> \in page[t].doc ~> <<t, n>> \in server.doc \/ Troubled(t)

\* Nothing was lost or refused, and nobody else edits.
Undisturbed(t) == faults = 0 /\ \A u \in Tabs \ {t} : page[u].made = 0

\* Of an editor that was left between two gestures, every edit is on the server or on its way.
LeavingLosesNothing ==
  \A t \in Tabs :
    page[t].status = "left" /\ ~page[t].gesture /\ Undisturbed(t) =>
      \A n \in 1..page[t].made :
        <<t, n>> \in server.doc \/ \E p \in puts : p.tab = t /\ <<t, n>> \in p.doc

\* The editor tells no lies: "autosaved" is true, and an archive has the edits
\* it was asked for with.
DrumInv == DrumTypeOK /\ AutosavedIsTrue /\ ExportHasTheEdits
=============================================================================
