------------------------------ MODULE JobsList ------------------------------
(***************************************************************************)
(* The list of an account's jobs (web/src/routes/JobsList.tsx, JobRow.tsx):*)
(* the search, debounced and kept in the address, the filter and the pages,*)
(* the query of the rows and its polling, cancelling and deleting rows.    *)
(* Jobs are numbered by age.  A render and its effects follow at once on   *)
(* the step that changed the state they read.                              *)
(* Fault kinds: "network" (a request and its retry, or an answer, is lost).*)
(***************************************************************************)
EXTENDS FiniteSets, Integers, Faults

CONSTANTS Jobs,     (* the account's jobs, 1 is the oldest                  *)
          Matching, (* those the searched word matches                      *)
          PageSize, (* PAGE_SIZE                                            *)
          Moves     (* bound on searches, filters and pages                 *)

ASSUME JobsListAssumption ==
  /\ IsFiniteSet(Jobs) /\ Jobs \subseteq Nat \ {0} /\ Matching \subseteq Jobs
  /\ PageSize \in Nat \ {0} /\ Moves \in Nat

VARIABLES have, (* the server: the status of each job                       *)
          find, (* typed, debounced (quiet), the address, moves so far      *)
          list, (* the query: rows, whether they are its own, error, fetch  *)
          acts  (* the dialog, the two mutations, and what became of them   *)

listVars == <<have, find, list, acts>>

NoRows == [items |-> <<>>, total |-> 0]
Idle == [state |-> "none", rows |-> NoRows]
Asked == [Idle EXCEPT !.state = "sent"]
NoAct == [job |-> 0, answer |-> "none"]

ListInit ==
  /\ have \in [Jobs -> {"active", "completed"}]
  /\ find = [typed |-> "", quiet |-> "", url |-> [status |-> "all", q |-> "", page |-> 1], moves |-> 0]
  /\ list = [rows |-> NoRows, had |-> FALSE, own |-> FALSE, error |-> FALSE, fetch |-> Asked]
  /\ acts = [dialog |-> "none", job |-> 0, cancel |-> NoAct, delete |-> NoAct, gone |-> {}, unsure |-> {}]

-----------------------------------------------------------------------------
(* The rows                                                                *)

\* What GET /jobs answers: the newest first, one page of what matches.
Listed ==
  LET found == {j \in Jobs : /\ have[j] # "gone" /\ (find.url.status = "all" \/ have[j] = find.url.status)
                             /\ (find.quiet = "" \/ j \in Matching)}
      rank(j) == Cardinality({k \in found : k >= j})
      last == find.url.page * PageSize IN
  [items |-> [j \in {k \in found : rank(k) > last - PageSize /\ rank(k) <= last} |-> have[j]],
   total |-> Cardinality(found)]

RowIds == DOMAIN list.rows.items
RowStatus(j) == list.rows.items[j]
Pages == IF list.rows.total = 0 THEN 1 ELSE (list.rows.total + PageSize - 1) \div PageSize
Shown == CASE list.error -> "error"
           [] ~list.error /\ ~list.had -> "skeleton"
           [] ~list.error /\ list.had /\ RowIds = {} -> "nothing"
           [] OTHER -> "rows"

ListServed ==
  /\ list.fetch.state = "sent"
  /\ list' = [list EXCEPT !.fetch = [state |-> "back", rows |-> Listed]]
  /\ UNCHANGED <<have, find, acts, faults>>

ListLands ==
  /\ list.fetch.state = "back"
  /\ list' = [rows |-> list.fetch.rows, had |-> TRUE, own |-> TRUE, error |-> FALSE, fetch |-> Idle]
  /\ UNCHANGED <<have, find, acts, faults>>

\* A query that fails shows that, whatever rows it had.
ListFails ==
  /\ list.fetch.state \in {"sent", "back"}
  /\ Fault("network")
  /\ list' = [list EXCEPT !.error = TRUE, !.fetch = Idle]
  /\ UNCHANGED <<have, find, acts>>

\* A list with a job at work is fetched every three seconds.
Poll ==
  /\ list.own /\ \E j \in RowIds : RowStatus(j) = "active"
  /\ list.fetch.state = "none"
  /\ list' = [list EXCEPT !.fetch = Asked]
  /\ UNCHANGED <<have, find, acts, faults>>

\* The error stays on show while a query with rows of its own tries again.
RetryList ==
  /\ Shown = "error" /\ list.fetch.state = "none"
  /\ list' = [list EXCEPT !.fetch = Asked, !.error = list.own]
  /\ UNCHANGED <<have, find, acts, faults>>

-----------------------------------------------------------------------------
(* The search                                                              *)

\* Mutant of Reflected: the address is left behind.
ReflectedNot(f) == f

\* The effect that puts the debounced search in the address.
Reflected(f) == IF f.url.q = f.quiet THEN f ELSE [f EXCEPT !.url.q = f.quiet, !.url.page = 1]

Key(f) == <<f.url.status, f.quiet, f.url.page>>

\* A query of other rows begins, and the rows before it stay on show until it
\* answers; those kept of an earlier visit to its key are left out.
Went(f) ==
  /\ find' = Reflected(f)
  /\ list' = IF Key(find') = Key(find) THEN list
             ELSE [list EXCEPT !.own = FALSE, !.error = FALSE, !.fetch = Asked]
  /\ UNCHANGED <<have, acts, faults>>

Move(f) == find.moves < Moves /\ acts.dialog = "none" /\ Went([f EXCEPT !.moves = @ + 1])

Type(word) == word # find.typed /\ Move([find EXCEPT !.typed = word])

\* useDebounced: 250 ms after the last keystroke.
Debounced == find.quiet # find.typed /\ Went([find EXCEPT !.quiet = find.typed])

Filter(status) ==
  /\ status # find.url.status
  /\ Move([find EXCEPT !.url.status = status, !.url.page = 1])

ClearFilters ==
  /\ Shown = "nothing"
  /\ Move([find EXCEPT !.typed = "", !.url = [status |-> "all", q |-> "", page |-> 1]])

TurnPage(page) ==
  /\ Shown = "rows" /\ page \in {find.url.page - 1, find.url.page + 1}
  /\ page >= 1 /\ (page > find.url.page => find.url.page < Pages)
  /\ Move([find EXCEPT !.url.page = page])

-----------------------------------------------------------------------------
(* The actions of a row                                                    *)

RowBusy(j) == j \in {acts.cancel.job, acts.delete.job}

\* The button of the row, and the menu beside it.
RowOffers(what, j) ==
  \/ what = "cancel" /\ RowStatus(j) = "active" /\ ~RowBusy(j)
  \/ what = "delete"

AskRow(what, j) ==
  /\ Shown = "rows" /\ j \in RowIds /\ acts.dialog = "none" /\ RowOffers(what, j)
  /\ acts' = [acts EXCEPT !.dialog = what, !.job = j]
  /\ UNCHANGED <<have, find, list, faults>>

\* A dialog is locked while a mutation of its kind is under way.
DeclineRow ==
  /\ acts.dialog # "none" /\ acts[acts.dialog].job = 0
  /\ acts' = [acts EXCEPT !.dialog = "none", !.job = 0]
  /\ UNCHANGED <<have, find, list, faults>>

ConfirmRow ==
  /\ acts.dialog # "none" /\ acts[acts.dialog].job = 0 /\ find.moves < Moves
  /\ acts' = [acts EXCEPT !.dialog = "none", !.job = 0, ![acts.dialog] = [NoAct EXCEPT !.job = acts.job]]
  /\ find' = [find EXCEPT !.moves = @ + 1]
  /\ UNCHANGED <<have, list, faults>>

ActServed(what) ==
  LET j == acts[what].job IN
  /\ j # 0 /\ acts[what].answer = "none"
  /\ IF have[j] = "gone" \/ (what = "cancel" /\ have[j] # "active")
     THEN acts' = [acts EXCEPT ![what].answer = "refused"] /\ UNCHANGED have
     ELSE /\ acts' = [acts EXCEPT ![what].answer = "done"]
          /\ have' = [have EXCEPT ![j] = IF what = "cancel" THEN "cancelled" ELSE "gone"]
  /\ UNCHANGED <<find, list, faults>>

ActLost(what) ==
  /\ acts[what].job # 0 /\ acts[what].answer \in {"none", "done"}
  /\ Fault("network")
  /\ acts' = [acts EXCEPT ![what].answer = "refused", !.unsure = @ \cup {acts[what].job}]
  /\ UNCHANGED <<have, find, list>>

\* Mutant of Invalidated: a fetch under way is taken for the new one.
InvalidatedOnce(l) == IF l.fetch.state = "none" THEN [l EXCEPT !.fetch = Asked] ELSE l

\* onChanged: the query is fetched anew, and a fetch under way is dropped.
Invalidated(l) == [l EXCEPT !.fetch = Asked]

\* A refusal is a toast and changes nothing.
ActLands(what) ==
  /\ acts[what].answer # "none"
  /\ acts' = [acts EXCEPT ![what] = NoAct,
                !.gone = IF what = "delete" /\ acts[what].answer = "done" THEN @ \cup {acts[what].job} ELSE @]
  /\ list' = IF acts[what].answer = "done" THEN Invalidated(list) ELSE list
  /\ UNCHANGED <<have, find, faults>>

JobCompletes(j) ==
  /\ have[j] = "active" /\ have' = [have EXCEPT ![j] = "completed"]
  /\ UNCHANGED <<find, list, acts, faults>>

-----------------------------------------------------------------------------
ListNext ==
  \/ ListServed \/ ListLands \/ ListFails \/ Poll \/ RetryList \/ Debounced
  \/ \E word \in {"", "x"} : Type(word)
  \/ \E status \in {"all", "active", "completed"} : Filter(status)
  \/ ClearFilters \/ \E page \in 1..Cardinality(Jobs) : TurnPage(page)
  \/ \E what \in {"cancel", "delete"} : ActServed(what) \/ ActLost(what) \/ ActLands(what)
  \/ \E what \in {"cancel", "delete"}, j \in Jobs : AskRow(what, j)
  \/ DeclineRow \/ ConfirmRow
  \/ \E j \in Jobs : JobCompletes(j)

-----------------------------------------------------------------------------
(* Properties                                                              *)

\* A job whose deletion was answered is not listed again, once no answer of
\* the list is awaited: one that was read before it never comes in last.
DeletedStaysGone ==
  list.fetch.state = "none" /\ Shown = "rows" => RowIds \cap acts.gone = {}

\* Once nothing is under way, the list is that of what is typed: the address
\* names it, and the rows answer it and say of each job what the server says,
\* through a filter, a page or a cleared search in the middle of the debounce,
\* and through jobs that end; or it shows an error.  A job whose change failed
\* in the visitor's eyes is left out: the toast may be wrong about it.
ListAtRest ==
  /\ list.fetch.state = "none" /\ find.quiet = find.typed /\ acts.cancel = NoAct /\ acts.delete = NoAct
  /\ ~list.own \/ \A j \in RowIds : RowStatus(j) # "active"
ListIsTrue ==
  ListAtRest =>
    /\ find.url.q = find.typed
    /\ list.error \/ (list.own /\ \A j \in RowIds \ acts.unsure : RowStatus(j) = have[j])
=============================================================================
