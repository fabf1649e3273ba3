----------------------------- MODULE EventStream ----------------------------
(***************************************************************************)
(* The event stream of one job: transactions write job_events and NOTIFY   *)
(* (internal/jobs), the broker's one LISTEN connection wakes the handlers  *)
(* of GET /jobs/{id}/events, each handler reads the table from the last id *)
(* it sent, and the browser (web/src/api/sse.ts) reads the stream and      *)
(* reconnects with Last-Event-ID.                                          *)
(*                                                                         *)
(* An event is its id, drawn from the table's sequence.  What is written   *)
(* to a connection is read in order, or lost with the connection.          *)
(***************************************************************************)
EXTENDS Faults, Sequences, SequencesExt

CONSTANTS Clients,  (* open pages                                          *)
          Writers,  (* transactions that write events of the job           *)
          MaxId     (* bound on the ids drawn                              *)

ASSUME StreamAssumption == MaxId \in Nat \ {0}

VARIABLES exists,    (* the job has its row                                 *)
          final,     (* the id of the event that ended the job, or 0        *)
          events,    (* its committed rows of job_events                    *)
          tx,        (* tx[w]: the event of an open transaction             *)
          nextId,    (* the sequence of job_events                          *)
          listening, (* the broker's connection listens                     *)
          note,      (* a notification for the job is on its way            *)
          handler,   (* handler[c]: the handler of c's connection           *)
          wake,      (* wake[c]: its channel of one wake-up is full         *)
          wire,      (* wire[c]: what was written and not yet read          *)
          page,      (* page[c]: "retry", "open", "closed" or "left"        *)
          told,      (* history: the events onEvent was called with         *)
          past       (* history: every event in the order of commits        *)

tableVars == <<exists, final, events, tx, nextId, past>>
brokerVars == <<listening, note>>
connVars == <<handler, wake, wire>>
pageVars == <<page, told>>
streamVars == <<tableVars, brokerVars, connVars, pageVars, faults>>

Ids == 1..MaxId
NoTx == [id |-> 0, ends |-> FALSE]
Gone == [at |-> "none", last |-> 0, ended |-> FALSE, rows |-> <<>>]
LastId(c) == IF told[c] = <<>> THEN 0 ELSE Last(told[c])

-----------------------------------------------------------------------------
(* Transactions *)

\* Mutant of RowFree: the status is read without FOR UPDATE.
RowFreeAnyway == TRUE

RowFree == \A w \in Writers : tx[w] = NoTx

\* SELECT ... FOR UPDATE of a live row, and emit: the event draws its id.
Begin(w) ==
  /\ exists /\ final = 0 /\ RowFree /\ tx[w] = NoTx
  /\ nextId \in Ids
  /\ \E ends \in BOOLEAN : tx' = [tx EXCEPT ![w] = [id |-> nextId, ends |-> ends]]
  /\ nextId' = nextId + 1
  /\ UNCHANGED <<exists, final, events, past, brokerVars, connVars, pageVars, faults>>

\* The event is visible and the notification goes to whoever listens.
Commit(w) ==
  /\ tx[w] # NoTx
  /\ events' = events \cup {tx[w].id}
  /\ past' = Append(past, tx[w].id)
  /\ final' = IF tx[w].ends THEN tx[w].id ELSE final
  /\ tx' = [tx EXCEPT ![w] = NoTx]
  /\ note' = (note \/ listening)
  /\ UNCHANGED <<exists, nextId, listening, connVars, pageVars, faults>>

Rollback(w) ==
  /\ tx[w] # NoTx
  /\ Fault("rollback")
  /\ tx' = [tx EXCEPT ![w] = NoTx]
  /\ UNCHANGED <<exists, final, events, nextId, past, brokerVars, connVars, pageVars>>

\* The row goes with its events, ended or not; nobody is notified.
Delete ==
  /\ exists /\ RowFree
  /\ exists' = FALSE /\ events' = {}
  /\ UNCHANGED <<final, tx, nextId, past, brokerVars, connVars, pageVars, faults>>

-----------------------------------------------------------------------------
(* Broker *)

\* Mutant of Subscribed: a channel without a buffer reaches only who waits.
SubscribedUnbuffered(c) == handler[c].at = "wait"

\* The channel of the handler is in the broker's map.
Subscribed(c) == handler[c].at \in {"query", "write", "wait"}

\* publish: a wake-up to every subscriber; a full channel stays full.
Publish ==
  /\ note
  /\ note' = FALSE
  /\ wake' = [c \in Clients |-> wake[c] \/ Subscribed(c)]
  /\ UNCHANGED <<tableVars, listening, handler, wire, pageVars, faults>>

LoseListener ==
  /\ listening
  /\ Fault("listen")
  /\ listening' = FALSE /\ note' = FALSE
  /\ UNCHANGED <<tableVars, connVars, pageVars>>

Relisten ==
  /\ ~listening
  /\ listening' = TRUE
  /\ UNCHANGED <<tableVars, note, connVars, pageVars, faults>>

-----------------------------------------------------------------------------
(* Handler *)

Goto(c, point) == handler' = [handler EXCEPT ![c].at = point]

\* Mutant of Return: the channel is not taken out of the broker's map.
ReturnSubscribed(c) ==
  /\ handler' = [handler EXCEPT ![c] = Gone]
  /\ UNCHANGED wake

\* The handler returns and unsubscribes.
Return(c) ==
  /\ handler' = [handler EXCEPT ![c] = Gone]
  /\ wake' = [wake EXCEPT ![c] = FALSE]

\* The page's fetch: the job is loaded, 404 ends the subscription.
Connect(c) ==
  /\ page[c] = "retry"
  /\ IF exists
     THEN /\ page' = [page EXCEPT ![c] = "open"]
          /\ handler' = [handler EXCEPT ![c] =
               [at |-> "loaded", last |-> LastId(c), ended |-> final # 0, rows |-> <<>>]]
     ELSE page' = [page EXCEPT ![c] = "closed"] /\ UNCHANGED handler
  /\ UNCHANGED <<tableVars, brokerVars, wake, wire, told, faults>>

Subscribe(c) ==
  /\ handler[c].at = "loaded"
  /\ Goto(c, "query")
  /\ UNCHANGED <<tableVars, brokerVars, wake, wire, pageVars, faults>>

\* ORDER BY id: the i-th row has i rows up to it.
InOrder(rows) ==
  [i \in 1..Cardinality(rows) |->
     CHOOSE e \in rows : Cardinality({d \in rows : d <= e}) = i]

\* Mutant of Batch: the row with the last id is read again.
BatchAgain(c) == InOrder({e \in events : e >= handler[c].last})

\* Events: the rows after the last id sent, in the order of their ids.
Batch(c) == InOrder({e \in events : e > handler[c].last})

\* catchUp: the rows are read,
Read(c) ==
  /\ handler[c].at = "query"
  /\ handler' = [handler EXCEPT ![c].at = "write", ![c].rows = Batch(c)]
  /\ UNCHANGED <<tableVars, brokerVars, wake, wire, pageVars, faults>>

\* and written; a terminal one ends the stream, and so does a job that had
\* ended and of which the client has something.
Send(c) ==
  /\ handler[c].at = "write"
  /\ LET rows == handler[c].rows
         last == IF rows = <<>> THEN handler[c].last ELSE Last(rows) IN
     /\ wire' = [wire EXCEPT ![c] = @ \o rows]
     /\ IF final \in ToSet(rows) \/ (handler[c].ended /\ last > 0)
        THEN Return(c)
        ELSE /\ handler' = [handler EXCEPT ![c] = [Gone EXCEPT !.at = "wait", !.last = last]]
             /\ UNCHANGED wake
  /\ UNCHANGED <<tableVars, brokerVars, pageVars, faults>>

CatchUpFails(c) ==
  /\ handler[c].at = "query"
  /\ Fault("db")
  /\ Return(c)
  /\ UNCHANGED <<tableVars, brokerVars, wire, pageVars>>

Woken(c) ==
  /\ handler[c].at = "wait" /\ wake[c]
  /\ wake' = [wake EXCEPT ![c] = FALSE]
  /\ Goto(c, "query")
  /\ UNCHANGED <<tableVars, brokerVars, wire, pageVars, faults>>

\* Mutant of Tick: the ticker only sends a ping.
TickPings(c) == handler[c].at = "wait" /\ UNCHANGED streamVars

\* The heartbeat is a poll as well.
Tick(c) ==
  /\ handler[c].at = "wait"
  /\ Goto(c, "query")
  /\ UNCHANGED <<tableVars, brokerVars, wake, wire, pageVars, faults>>

-----------------------------------------------------------------------------
(* Page *)

SawTerminal(c) == final # 0 /\ LastId(c) = final
AfterStream(c) == IF SawTerminal(c) THEN "closed" ELSE "retry"
Hangup(c) == page' = [page EXCEPT ![c] = AfterStream(c)]

\* One block is parsed.
Receive(c) ==
  /\ page[c] = "open" /\ wire[c] # <<>>
  /\ told' = [told EXCEPT ![c] = Append(@, Head(wire[c]))]
  /\ wire' = [wire EXCEPT ![c] = Tail(@)]
  /\ UNCHANGED <<tableVars, brokerVars, handler, wake, page, faults>>

EndOfStream(c) ==
  /\ page[c] = "open" /\ wire[c] = <<>> /\ handler[c] = Gone
  /\ Hangup(c)
  /\ UNCHANGED <<tableVars, brokerVars, connVars, told, faults>>

\* The connection breaks with what is on it.
Drop(c) ==
  /\ page[c] = "open"
  /\ Fault("drop")
  /\ Return(c)
  /\ wire' = [wire EXCEPT ![c] = <<>>]
  /\ Hangup(c)
  /\ UNCHANGED <<tableVars, brokerVars, told>>

\* The server stops and starts: every connection breaks, and the new process
\* has a new broker.
ServerRestart ==
  /\ Fault("restart")
  /\ listening' = FALSE /\ note' = FALSE
  /\ handler' = [c \in Clients |-> Gone]
  /\ wake' = [c \in Clients |-> FALSE]
  /\ wire' = [c \in Clients |-> <<>>]
  /\ page' = [c \in Clients |-> IF page[c] = "open" THEN AfterStream(c) ELSE page[c]]
  /\ UNCHANGED <<tableVars, told>>

\* close(): the user goes elsewhere.
Leave(c) ==
  /\ page[c] \in {"retry", "open"}
  /\ page' = [page EXCEPT ![c] = "left"]
  /\ Return(c)
  /\ wire' = [wire EXCEPT ![c] = <<>>]
  /\ UNCHANGED <<tableVars, brokerVars, told, faults>>

-----------------------------------------------------------------------------
StreamInit ==
  /\ exists = TRUE /\ final = 0 /\ events = {1} /\ past = <<1>> /\ nextId = 2
  /\ tx = [w \in Writers |-> NoTx]
  /\ listening = TRUE /\ note = FALSE
  /\ handler = [c \in Clients |-> Gone]
  /\ wake = [c \in Clients |-> FALSE]
  /\ wire = [c \in Clients |-> <<>>]
  /\ page = [c \in Clients |-> "retry"]
  /\ told = [c \in Clients |-> <<>>]
  /\ faults = 0

HandlerStep(c) == Subscribe(c) \/ Read(c) \/ Send(c) \/ Woken(c)
PageStep(c) == Connect(c) \/ Receive(c) \/ EndOfStream(c)

StreamNext ==
  \/ \E w \in Writers : Begin(w) \/ Commit(w) \/ Rollback(w)
  \/ Delete \/ Publish \/ LoseListener \/ Relisten \/ ServerRestart
  \/ \E c \in Clients :
       \/ HandlerStep(c) \/ CatchUpFails(c) \/ Tick(c)
       \/ PageStep(c) \/ Drop(c) \/ Leave(c)

StreamSpec == StreamInit /\ [][StreamNext]_streamVars

\* Handlers and pages go on and the ticker ticks; nothing is asked of the
\* broker or of the writers.
StreamFairness ==
  \A c \in Clients : /\ WF_streamVars(HandlerStep(c)) /\ WF_streamVars(Tick(c))
                     /\ WF_streamVars(PageStep(c))

FairStreamSpec == StreamSpec /\ StreamFairness
-----------------------------------------------------------------------------
(* What the stream promises *)

\* Types; a wake-up belongs to a handler that is subscribed.
StreamTypeOK ==
  /\ exists \in BOOLEAN /\ final \in Ids \cup {0}
  /\ events \subseteq Ids /\ past \in Seq(Ids) /\ nextId \in 1..MaxId + 1
  /\ tx \in [Writers -> [id : Ids \cup {0}, ends : BOOLEAN]]
  /\ listening \in BOOLEAN /\ note \in BOOLEAN
  /\ handler \in [Clients -> [at : {"none", "loaded", "query", "write", "wait"},
                              last : Ids \cup {0}, ended : BOOLEAN, rows : Seq(Ids)]]
  /\ wake \in [Clients -> BOOLEAN]
  /\ \A c \in Clients : wake[c] => handler[c].at \in {"query", "write", "wait"}
  /\ wire \in [Clients -> Seq(Ids)] /\ told \in [Clients -> Seq(Ids)]
  /\ page \in [Clients -> {"retry", "open", "closed", "left"}]
  /\ faults \in 0..MaxFaults

\* As long as nothing fails, a handler that waits has written every committed
\* row or will be woken: nothing falls between the replay and the subscription.
NothingFallsInTheGap ==
  \A c \in Clients :
    handler[c].at = "wait" /\ Batch(c) # <<>> /\ faults = 0 => note \/ wake[c]

\* Through lost notifications, broken connections and reconnects every page is
\* told every event once and in the order of the commits: the stream
\* implements the feed.
Feed == INSTANCE JobFeed WITH log <- past, ended <- final # 0 \/ ~exists, Events <- Ids
IsAFeed == Feed!FeedSpec

\* A page that stays hears of the end of the job, unless the job is deleted
\* before: the ticker makes up for every lost notification.
EndIsHeard ==
  \A c \in Clients :
    final # 0 ~> (SawTerminal(c) \/ page[c] = "left" \/ ~exists)

\* The safety of the stream: its types, and no row left lying at a sleeping
\* handler.
StreamInv == StreamTypeOK /\ NothingFallsInTheGap
=============================================================================
