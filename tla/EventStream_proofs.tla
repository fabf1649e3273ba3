------------------------- MODULE EventStream_proofs -------------------------
(***************************************************************************)
(* Proofs about the event stream, for any number of pages, transactions    *)
(* and faults and for any bound on the ids: its invariant, and that it     *)
(* implements the feed (JobFeed).                                          *)
(***************************************************************************)
EXTENDS EventStream, FiniteSetTheorems, TLAPS

USE StreamAssumption DEF tableVars, brokerVars, connVars, pageVars, streamVars

-----------------------------------------------------------------------------
(* The inductive invariant *)

Points == {"none", "loaded", "query", "write", "wait"}
Handlers == [at : Points, last : Ids \cup {0}, ended : BOOLEAN, rows : Seq(Ids)]

\* The types, without what StreamTypeOK says of wake-ups.
TableType ==
  /\ exists \in BOOLEAN /\ final \in Ids \cup {0}
  /\ events \subseteq Ids /\ past \in Seq(Ids) /\ nextId \in 1..MaxId + 1
  /\ tx \in [Writers -> [id : Ids \cup {0}, ends : BOOLEAN]]
ConnType ==
  /\ listening \in BOOLEAN /\ note \in BOOLEAN
  /\ handler \in [Clients -> Handlers]
  /\ wake \in [Clients -> BOOLEAN]
  /\ wire \in [Clients -> Seq(Ids)] /\ told \in [Clients -> Seq(Ids)]
  /\ page \in [Clients -> {"retry", "open", "closed", "left"}]
  /\ faults \in 0..MaxFaults

\* The ids rise in the order of the commits, because one transaction at a
\* time holds the row: an open one has drawn an id above every committed one.
CommitsRise ==
  /\ Len(past) > 0
  /\ \A i, j \in 1..Len(past) : i < j => past[i] < past[j]
  /\ \A i \in 1..Len(past) : past[i] < nextId
OneWriter ==
  /\ \A w, v \in Writers : tx[w] # NoTx /\ tx[v] # NoTx => w = v
  /\ \A w \in Writers : tx[w] # NoTx =>
       /\ exists /\ final = 0
       /\ tx[w].id \in Ids /\ tx[w].id < nextId
       /\ \A i \in 1..Len(past) : past[i] < tx[w].id
TableIsPast ==
  /\ exists => events = {past[i] : i \in 1..Len(past)}
  /\ ~exists => events = {}
  /\ final # 0 => final = past[Len(past)]

\* What c was told, what is on its wire and what its handler has read follow
\* each other in past.
Written(c) == Len(told[c]) + Len(wire[c])
Taken(c) == Written(c) + Len(handler[c].rows)
InStep(c) ==
  /\ Taken(c) <= Len(past)
  /\ \A i \in 1..Len(told[c]) : told[c][i] = past[i]
  /\ \A i \in 1..Len(wire[c]) : wire[c][i] = past[Len(told[c]) + i]
  /\ \A i \in 1..Len(handler[c].rows) : handler[c].rows[i] = past[Written(c) + i]
Connected(c) ==
  /\ handler[c].at # "none" =>
       /\ page[c] = "open"
       /\ handler[c].last = IF Written(c) = 0 THEN 0 ELSE past[Written(c)]
  /\ handler[c].at # "write" => handler[c].rows = <<>>
  /\ page[c] # "open" => handler[c].at = "none" /\ wire[c] = <<>>
  /\ wake[c] => Subscribed(c)

\* As long as nothing fails the broker listens, and a handler past its read
\* has every event or a wake-up to come.
Covered(c) ==
  /\ faults = 0 /\ exists
  /\ handler[c].at \in {"write", "wait"} /\ Taken(c) < Len(past)
  => note \/ wake[c]

TableIInv == TableType /\ CommitsRise /\ OneWriter /\ TableIsPast
StreamIInv ==
  /\ TableIInv /\ ConnType
  /\ \A c \in Clients : InStep(c) /\ Connected(c) /\ Covered(c)
  /\ faults = 0 => listening

-----------------------------------------------------------------------------
(* What a query returns *)

\* A set counted by 1..m has m members.
LEMMA Counted ==
  ASSUME NEW m \in Nat, NEW T, NEW f \in [1..m -> T],
         \A i, j \in 1..m : i < j => f[i] # f[j],
         \A t \in T : \E i \in 1..m : f[i] = t
  PROVE  Cardinality(T) = m
<1>1. \A i, j \in 1..m : f[i] = f[j] => i = j
  OBVIOUS
<1>2. f \in Bijection(1..m, T)
  BY <1>1 DEF Bijection, Injection, Surjection, IsInjective
<1>3. IsFiniteSet(1..m) /\ Cardinality(1..m) = m
  BY FS_Interval
<1> QED BY <1>2, <1>3, FS_Bijection DEF ExistsBijection

LEMMA QueryOfNothing == InOrder({}) = <<>>
<1>1. Cardinality({}) = 0
  BY FS_EmptySet
<1> DEFINE row(i) == CHOOSE e \in {} : Cardinality({d \in {} : d <= e}) = i
<1>2. InOrder({}) = [i \in 1..0 |-> row(i)]
  BY <1>1 DEF InOrder
<1> HIDE DEF row
<1>3. [i \in 1..0 |-> row(i)] = <<>>
  OBVIOUS
<1> QED BY <1>2, <1>3

\* Of a rising sequence of ids, the query for those above its k-th one returns
\* the rest of the sequence.
LEMMA QueryReturns ==
  ASSUME NEW s \in Seq(Ids), \A i, j \in 1..Len(s) : i < j => s[i] < s[j],
         NEW k \in 0..Len(s), NEW last, last = (IF k = 0 THEN 0 ELSE s[k])
  PROVE  LET rows == InOrder({e \in {s[i] : i \in 1..Len(s)} : e > last})
         IN  /\ rows \in Seq(Ids) /\ Len(rows) = Len(s) - k
             /\ \A i \in 1..Len(rows) : rows[i] = s[k + i]
<1> DEFINE n == Len(s) - k
           R == {e \in {s[i] : i \in 1..Len(s)} : e > last}
           UpTo(e) == {d \in R : d <= e}
<1>1. n \in Nat /\ \A i \in 1..Len(s) : s[i] \in Ids /\ s[i] \in Nat
  BY DEF Ids
<1>2. \A i \in 1..n : s[k + i] \in R
  <2> SUFFICES ASSUME NEW i \in 1..n  PROVE s[k + i] \in R
    OBVIOUS
  <2>1. k + i \in 1..Len(s) /\ s[k + i] \in Nat /\ s[k + i] > 0
    BY <1>1 DEF Ids
  <2>2. k # 0 => s[k] < s[k + i]
    BY <2>1
  <2> QED BY <2>1, <2>2
<1>3. \A e \in R : \E i \in 1..n : e = s[k + i]
  <2> SUFFICES ASSUME NEW i \in 1..Len(s), s[i] > last  PROVE \E x \in 1..n : s[i] = s[k + x]
    OBVIOUS
  <2>1. i > k
    BY <1>1 DEF Ids
  <2>2. i - k \in 1..n /\ k + (i - k) = i
    BY <2>1
  <2> QED BY <2>2
<1>4. \A i, j \in 1..n : i < j => s[k + i] < s[k + j]
  OBVIOUS
<1>5. Cardinality(R) = n
  <2> DEFINE f == [i \in 1..n |-> s[k + i]]
  <2>1. f \in [1..n -> R]
    BY <1>2
  <2>2. \A i, j \in 1..n : i < j => f[i] # f[j]
    BY <1>1, <1>4
  <2>3. \A t \in R : \E i \in 1..n : f[i] = t
    BY <1>3
  <2> HIDE DEF f, R, n
  <2> QED BY <1>1, <2>1, <2>2, <2>3, Counted
<1>6. \A m \in 1..n : Cardinality(UpTo(s[k + m])) = m
  <2> SUFFICES ASSUME NEW m \in 1..n  PROVE Cardinality(UpTo(s[k + m])) = m
    OBVIOUS
  <2> DEFINE f == [i \in 1..m |-> s[k + i]]
  <2>1. f \in [1..m -> UpTo(s[k + m])]
    <3> SUFFICES ASSUME NEW i \in 1..m  PROVE s[k + i] \in R /\ s[k + i] <= s[k + m]
      OBVIOUS
    <3>1. i \in 1..n /\ (i = m \/ i < m)
      OBVIOUS
    <3>2. s[k + i] \in R /\ s[k + i] \in Nat /\ s[k + m] \in Nat
      BY <1>1, <1>2, <3>1
    <3>3. i < m => s[k + i] < s[k + m]
      BY <1>4
    <3> QED BY <3>1, <3>2, <3>3
  <2>2. \A i, j \in 1..m : i < j => f[i] # f[j]
    BY <1>1, <1>4
  <2>3. \A t \in UpTo(s[k + m]) : \E i \in 1..m : f[i] = t
    <3> SUFFICES ASSUME NEW t \in R, t <= s[k + m]  PROVE \E i \in 1..m : s[k + i] = t
      OBVIOUS
    <3>1. PICK i \in 1..n : t = s[k + i]
      BY <1>3
    <3>2. i <= m
      BY <1>1, <1>4, <3>1
    <3> QED BY <3>1, <3>2
  <2>4. m \in Nat
    OBVIOUS
  <2> HIDE DEF f, UpTo
  <2> QED BY <2>1, <2>2, <2>3, <2>4, Counted
<1>7. \A m \in 1..n : (CHOOSE e \in R : Cardinality(UpTo(e)) = m) = s[k + m]
  <2> SUFFICES ASSUME NEW m \in 1..n
               PROVE  (CHOOSE e \in R : Cardinality(UpTo(e)) = m) = s[k + m]
    OBVIOUS
  <2>1. s[k + m] \in R /\ Cardinality(UpTo(s[k + m])) = m
    BY <1>2, <1>6
  <2>2. ASSUME NEW e \in R, Cardinality(UpTo(e)) = m  PROVE e = s[k + m]
    <3>1. PICK i \in 1..n : e = s[k + i]
      BY <1>3
    <3>2. Cardinality(UpTo(e)) = i
      <4> HIDE DEF UpTo
      <4> QED BY <1>6, <3>1
    <3> QED BY <2>2, <3>1, <3>2
  <2> HIDE DEF UpTo, R
  <2> QED BY <2>1, <2>2
<1>8. InOrder(R) = [m \in 1..n |-> s[k + m]]
  BY <1>5, <1>7 DEF InOrder
<1>9. [m \in 1..n |-> s[k + m]] \in Seq(Ids)
  <2>1. \A m \in 1..n : s[k + m] \in Ids
    BY <1>1
  <2> QED BY <1>1, <2>1
<1> HIDE DEF R, n
<1>10. Len(InOrder(R)) = n
  BY <1>1, <1>8
<1> QED BY <1>1, <1>8, <1>9, <1>10 DEF R, n

-----------------------------------------------------------------------------
(* Transactions *)

LEMMA IdsAreNumbers == Ids \subseteq Nat \ {0}
BY DEF Ids

LEMMA BeginTable ==
  ASSUME TableIInv, NEW w \in Writers, Begin(w)
  PROVE  TableIInv'
<1> USE DEF TableIInv, Begin, NoTx
<1>1. TableType'
  BY DEF TableType, Ids
<1>2. CommitsRise'
  BY DEF TableType, CommitsRise, Ids
<1>3. OneWriter'
  <2>1. \A v \in Writers : v # w => tx'[v] = NoTx
    BY DEF TableType, RowFree
  <2>2. tx'[w].id = nextId /\ nextId \in Ids /\ nextId < nextId'
    BY DEF TableType, Ids
  <2>3. exists' /\ final' = 0 /\ \A i \in 1..Len(past') : past'[i] < tx'[w].id
    BY <2>2 DEF CommitsRise
  <2> QED BY <2>1, <2>2, <2>3 DEF OneWriter
<1>4. TableIsPast'
  BY DEF TableIsPast
<1> QED BY <1>1, <1>2, <1>3, <1>4

LEMMA CommitTable ==
  ASSUME TableIInv, NEW w \in Writers, Commit(w)
  PROVE  /\ TableIInv' /\ exists /\ final = 0
         /\ Len(past') = Len(past) + 1
         /\ \A i \in 1..Len(past) : past'[i] = past[i]
<1> USE DEF TableIInv, Commit
<1>1. /\ exists /\ final = 0 /\ tx[w].id \in Ids /\ tx[w].id < nextId
      /\ \A i \in 1..Len(past) : past[i] < tx[w].id
  BY DEF OneWriter
<1>2. /\ past \in Seq(Ids) /\ past' \in Seq(Ids) /\ Len(past') = Len(past) + 1
      /\ \A i \in 1..Len(past) : past'[i] = past[i]
      /\ past'[Len(past')] = tx[w].id
  BY <1>1 DEF TableType
<1>3. TableType'
  BY <1>1, <1>2 DEF TableType, NoTx
<1>4. CommitsRise'
  BY <1>1, <1>2, IdsAreNumbers DEF CommitsRise
<1>5. OneWriter'
  BY DEF TableType, OneWriter, NoTx
<1>6. TableIsPast'
  <2>1. events' = {past'[i] : i \in 1..Len(past')}
    BY <1>1, <1>2 DEF TableIsPast
  <2> QED BY <1>1, <1>2, <2>1 DEF TableIsPast
<1> QED BY <1>1, <1>2, <1>3, <1>4, <1>5, <1>6

LEMMA RollbackTable ==
  ASSUME TableIInv, NEW w \in Writers, Rollback(w)
  PROVE  TableIInv'
<1> USE DEF TableIInv, Rollback, NoTx
<1>1. TableType' /\ CommitsRise' /\ TableIsPast'
  BY DEF TableType, CommitsRise, TableIsPast
<1>2. OneWriter'
  BY DEF TableType, OneWriter
<1> QED BY <1>1, <1>2

LEMMA DeleteTable ==
  ASSUME TableIInv, Delete
  PROVE  TableIInv'
<1> USE DEF TableIInv, Delete
<1>1. TableType' /\ CommitsRise' /\ TableIsPast'
  BY DEF TableType, CommitsRise, TableIsPast
<1>2. OneWriter'
  BY DEF OneWriter, RowFree
<1> QED BY <1>1, <1>2

LEMMA TableKept ==
  ASSUME TableIInv, UNCHANGED tableVars
  PROVE  TableIInv'
BY DEF TableIInv, TableType, CommitsRise, OneWriter, TableIsPast

-----------------------------------------------------------------------------
(* Connections *)

\* The log only grows.
Grows ==
  /\ Len(past) <= Len(past')
  /\ \A i \in 1..Len(past) : past'[i] = past[i]

\* The connection of c is left alone.
Alone(c) ==
  /\ handler'[c] = handler[c] /\ wire'[c] = wire[c]
  /\ told'[c] = told[c] /\ page'[c] = page[c]

LEMMA Sums ==
  ASSUME NEW t \in Seq(Ids), NEW w \in Seq(Ids), NEW r \in Seq(Ids)
  PROVE  /\ Len(t) \in Nat /\ Len(w) \in Nat /\ Len(r) \in Nat
         /\ Len(t) + Len(w) \in Nat /\ Len(t) + Len(w) + Len(r) \in Nat
         /\ Len(t) <= Len(t) + Len(w) /\ Len(t) + Len(w) <= Len(t) + Len(w) + Len(r)
         /\ w = <<>> => Len(t) + Len(w) = Len(t)
         /\ r = <<>> => Len(t) + Len(w) + Len(r) = Len(t) + Len(w)
<1> DEFINE a == Len(t)  b == Len(w)  d == Len(r)
<1>1. a \in Nat /\ b \in Nat /\ d \in Nat /\ (w = <<>> => b = 0) /\ (r = <<>> => d = 0)
  OBVIOUS
<1> HIDE DEF a, b, d
<1>2. /\ a + b \in Nat /\ a + b + d \in Nat /\ a <= a + b /\ a + b <= a + b + d
      /\ (b = 0 => a + b = a) /\ (d = 0 => a + b + d = a + b)
  BY <1>1
<1> QED BY <1>1, <1>2 DEF a, b, d

LEMMA Lengths ==
  ASSUME ConnType, NEW c \in Clients
  PROVE  /\ Len(told[c]) \in Nat /\ Len(wire[c]) \in Nat /\ Len(handler[c].rows) \in Nat
         /\ Written(c) \in Nat /\ Taken(c) \in Nat
         /\ Len(told[c]) <= Written(c) /\ Written(c) <= Taken(c)
         /\ handler[c] \in Handlers /\ wire[c] \in Seq(Ids) /\ told[c] \in Seq(Ids)
         /\ handler[c].rows \in Seq(Ids) /\ handler[c].last \in Ids \cup {0}
<1>1. handler[c] \in Handlers /\ wire[c] \in Seq(Ids) /\ told[c] \in Seq(Ids)
  BY DEF ConnType
<1>2. handler[c].rows \in Seq(Ids) /\ handler[c].last \in Ids \cup {0}
  BY <1>1 DEF Handlers
<1> QED BY <1>1, <1>2, Sums, Zenon DEF Written, Taken

\* The positions in past of what c was told, of its wire and of its handler.
LEMMA Positions ==
  ASSUME TableType, ConnType, NEW c \in Clients, Taken(c) <= Len(past)
  PROVE  /\ \A i \in 1..Len(told[c]) : i \in 1..Len(past)
         /\ \A i \in 1..Len(wire[c]) : Len(told[c]) + i \in 1..Len(past)
         /\ \A i \in 1..Len(handler[c].rows) : Written(c) + i \in 1..Len(past)
         /\ Written(c) \in 0..Len(past) /\ Len(past) \in Nat
<1> DEFINE t == Len(told[c])  w == Len(wire[c])  r == Len(handler[c].rows)  p == Len(past)
<1>1. p \in Nat
  BY DEF TableType
<1>2. t \in Nat /\ w \in Nat /\ r \in Nat
  BY Lengths
<1>3. Written(c) = t + w /\ t + w + r <= p
  BY DEF Written, Taken
<1> HIDE DEF t, w, r, p
<1>4. /\ \A i \in 1..t : i \in 1..p
      /\ \A i \in 1..w : t + i \in 1..p
      /\ \A i \in 1..r : Written(c) + i \in 1..p
      /\ Written(c) \in 0..p /\ p \in Nat
  BY <1>1, <1>2, <1>3
<1> QED BY <1>4 DEF t, w, r, p

LEMMA AloneKept ==
  ASSUME TableType, TableType', ConnType, NEW c \in Clients,
         InStep(c), Connected(c), Grows, Alone(c),
         wake'[c] => wake[c] \/ Subscribed(c)
  PROVE  InStep(c)' /\ Connected(c)'
<1>1. Written(c)' = Written(c) /\ Taken(c)' = Taken(c)
  BY DEF Alone, Written, Taken
<1>2. Len(past) \in Nat /\ Len(past') \in Nat
  BY DEF TableType
<1>3. InStep(c)'
  <2>1. Taken(c)' <= Len(past')
    BY <1>1, <1>2, Lengths DEF InStep, Grows
  <2>2. \A i \in 1..Len(told[c]) : told'[c][i] = past'[i]
    BY Positions DEF InStep, Grows, Alone
  <2>3. \A i \in 1..Len(wire[c]) : wire'[c][i] = past'[Len(told[c]) + i]
    BY Positions DEF InStep, Grows, Alone
  <2>4. \A i \in 1..Len(handler[c].rows) : handler'[c].rows[i] = past'[Written(c) + i]
    BY Positions DEF InStep, Grows, Alone
  <2> QED BY <1>1, <2>1, <2>2, <2>3, <2>4 DEF InStep, Alone
<1>4. Written(c) # 0 => past'[Written(c)] = past[Written(c)]
  <2>1. Written(c) # 0 => Written(c) \in 1..Len(past)
    BY Positions DEF InStep
  <2> QED BY <2>1 DEF Grows
<1>5. Connected(c)'
  BY <1>1, <1>4 DEF Connected, Alone, Subscribed
<1> QED BY <1>3, <1>5

\* A step of the connection of c, which leaves the table and the others alone.
LEMMA OneConnection ==
  ASSUME StreamIInv, NEW c \in Clients, UNCHANGED <<tableVars, brokerVars>>,
         faults' = 0 => faults = 0, ConnType',
         \A d \in Clients : d # c => Alone(d) /\ wake'[d] = wake[d],
         InStep(c)', Connected(c)', Covered(c)'
  PROVE  StreamIInv'
<1> USE DEF StreamIInv
<1>1. TableIInv'
  BY TableKept
<1>2. Grows /\ TableType /\ TableType'
  BY <1>1 DEF Grows, TableIInv, TableType
<1>3. ASSUME NEW d \in Clients, d # c  PROVE InStep(d)' /\ Connected(d)' /\ Covered(d)'
  <2>1. Alone(d) /\ wake'[d] = wake[d]
    BY <1>3
  <2>2. InStep(d)' /\ Connected(d)'
    BY <1>2, <2>1, AloneKept
  <2>3. Covered(d)'
    BY <2>1 DEF Alone, Covered, Taken, Written
  <2> QED BY <2>2, <2>3
<1>4. faults' = 0 => listening'
  OBVIOUS
<1> QED BY <1>1, <1>3, <1>4

LEMMA GoneType == Gone \in Handlers /\ Gone.rows = <<>> /\ Gone.at = "none"
BY DEF Gone, Handlers, Points

\* A connection without a handler takes nothing more.
LEMMA ReturnStep ==
  ASSUME StreamIInv, NEW c \in Clients, handler'[c] = Gone, wake'[c] = FALSE,
         UNCHANGED past, told'[c] = told[c],
         \/ wire'[c] = wire[c] /\ page'[c] = page[c] /\ page[c] = "open"
         \/ wire'[c] = <<>>
  PROVE  InStep(c)' /\ Connected(c)' /\ Covered(c)'
<1> USE GoneType
<1>1. TableType /\ ConnType /\ InStep(c) /\ Connected(c)
  BY DEF StreamIInv, TableIInv
<1>2. Len(<<>>) = 0
  OBVIOUS
<1>3. /\ told[c] \in Seq(Ids) /\ wire[c] \in Seq(Ids) /\ handler[c].rows \in Seq(Ids)
      /\ <<>> \in Seq(Ids)
  BY <1>1, Lengths
<1>4. Taken(c)' <= Len(past')
  <2>1. Len(past) \in Nat /\ Taken(c) <= Len(past) /\ Taken(c)' \in Nat /\ Taken(c) \in Nat
    BY <1>1, <1>3, Sums DEF TableType, InStep, Taken, Written
  <2>2. Taken(c)' = Written(c)'
    BY <1>3, Sums DEF Taken, Written
  <2>3. Written(c)' = Written(c) \/ Written(c)' = Len(told[c])
    BY <1>3, Sums DEF Written
  <2>4. Written(c)' <= Taken(c)
    BY <1>1, <2>3, Lengths
  <2> QED BY <2>1, <2>2, <2>4
<1>5. \A i \in 1..Len(wire'[c]) : wire'[c][i] = past'[Len(told'[c]) + i]
  BY <1>1, <1>2 DEF InStep
<1>6. InStep(c)'
  BY <1>1, <1>2, <1>4, <1>5 DEF InStep
<1>7. Connected(c)' /\ Covered(c)'
  BY <1>1 DEF Connected, Covered
<1> QED BY <1>6, <1>7

LEMMA FaultStep ==
  ASSUME ConnType, NEW kind, Fault(kind)
  PROVE  faults' \in 0..MaxFaults /\ faults' # 0
BY FaultsAssumption DEF ConnType, Fault

\* A handler goes on to its query.
LEMMA ToQuery ==
  ASSUME StreamIInv, NEW c \in Clients, Goto(c, "query"),
         UNCHANGED <<past, wire, pageVars>>, wake'[c] => wake[c], handler[c].at # "write",
         handler[c].at # "none"
  PROVE  /\ handler' \in [Clients -> Handlers]
         /\ \A d \in Clients : d # c => Alone(d)
         /\ InStep(c)' /\ Connected(c)' /\ Covered(c)'
<1> USE DEF Goto
<1>1. ConnType /\ InStep(c) /\ Connected(c)
  BY DEF StreamIInv
<1>2. handler' \in [Clients -> Handlers]
  BY <1>1 DEF ConnType, Handlers, Points
<1>3. handler'[c] = [handler[c] EXCEPT !.at = "query"] /\ handler[c] \in Handlers
  BY <1>1 DEF ConnType
<1>4. /\ handler'[c].rows = handler[c].rows /\ handler'[c].last = handler[c].last
      /\ handler'[c].at = "query"
  BY <1>3 DEF Handlers
<1>5. Written(c)' = Written(c) /\ Taken(c)' = Taken(c)
  BY <1>4 DEF Written, Taken
<1>6. InStep(c)' /\ Connected(c)' /\ Covered(c)'
  BY <1>1, <1>4, <1>5 DEF InStep, Connected, Covered, Subscribed
<1>7. \A d \in Clients : d # c => Alone(d)
  BY <1>1 DEF Alone, ConnType
<1> QED BY <1>2, <1>6, <1>7

LEMMA SubscribeStep ==
  ASSUME StreamIInv, NEW c \in Clients, Subscribe(c)
  PROVE  StreamIInv'
<1> USE DEF Subscribe
<1>1. ConnType'
  BY ToQuery DEF ConnType, StreamIInv
<1> QED BY <1>1, ToQuery, OneConnection

LEMMA WokenStep ==
  ASSUME StreamIInv, NEW c \in Clients, Woken(c)
  PROVE  StreamIInv'
<1> USE DEF Woken
<1>1. ConnType'
  BY ToQuery DEF ConnType, StreamIInv
<1>2. \A d \in Clients : d # c => wake'[d] = wake[d]
  BY DEF ConnType, StreamIInv
<1>3. wake'[c] => wake[c]
  OBVIOUS
<1> QED BY <1>1, <1>2, <1>3, ToQuery, OneConnection

LEMMA TickStep ==
  ASSUME StreamIInv, NEW c \in Clients, Tick(c)
  PROVE  StreamIInv'
<1> USE DEF Tick
<1>1. ConnType'
  BY ToQuery DEF ConnType, StreamIInv
<1> QED BY <1>1, ToQuery, OneConnection

\* The handler of c reads: the rows go on where the wire ends, and all of them
\* are there.
LEMMA ReadStep ==
  ASSUME StreamIInv, NEW c \in Clients, Read(c)
  PROVE  StreamIInv'
<1>1. ConnType /\ InStep(c) /\ Connected(c) /\ TableIInv /\ TableType
  BY DEF StreamIInv, TableIInv
<1> DEFINE rows == Batch(c)
           h == [handler[c] EXCEPT !.at = "write", !.rows = rows]
<1>2. /\ rows \in Seq(Ids) /\ Len(rows) <= Len(past) - Written(c)
      /\ exists => Len(rows) = Len(past) - Written(c)
      /\ \A i \in 1..Len(rows) : rows[i] = past[Written(c) + i]
  <2>1. CASE exists
    <3>1. events = {past[i] : i \in 1..Len(past)}
      BY <1>1, <2>1 DEF TableIInv, TableIsPast
    <3>2. past \in Seq(Ids) /\ \A i, j \in 1..Len(past) : i < j => past[i] < past[j]
      BY <1>1 DEF TableIInv, TableType, CommitsRise
    <3>3. Written(c) \in 0..Len(past) /\ Len(past) \in Nat
      BY <1>1, Positions DEF InStep
    <3>4. handler[c].last = IF Written(c) = 0 THEN 0 ELSE past[Written(c)]
      BY <1>1 DEF Connected, Read
    <3>5. /\ rows \in Seq(Ids) /\ Len(rows) = Len(past) - Written(c)
          /\ \A i \in 1..Len(rows) : rows[i] = past[Written(c) + i]
      <4>1. rows = InOrder({e \in {past[i] : i \in 1..Len(past)} : e > handler[c].last})
        BY <3>1 DEF Batch
      <4> HIDE DEF Written, rows
      <4>2. /\ InOrder({e \in {past[i] : i \in 1..Len(past)} : e > handler[c].last}) \in Seq(Ids)
            /\ Len(InOrder({e \in {past[i] : i \in 1..Len(past)} : e > handler[c].last}))
                 = Len(past) - Written(c)
            /\ \A i \in 1..Len(InOrder({e \in {past[j] : j \in 1..Len(past)} : e > handler[c].last})) :
                 InOrder({e \in {past[j] : j \in 1..Len(past)} : e > handler[c].last})[i]
                   = past[Written(c) + i]
        BY <3>2, <3>3, <3>4, QueryReturns, Zenon
      <4> QED BY <4>1, <4>2, Zenon
    <3> QED BY <3>3, <3>5
  <2>2. CASE ~exists
    <3>1. events = {}
      BY <1>1, <2>2 DEF TableIInv, TableIsPast
    <3>2. {e \in events : e > handler[c].last} = {}
      BY <3>1
    <3>4. rows = <<>>
      BY <3>2, QueryOfNothing DEF Batch
    <3>5. Written(c) \in 0..Len(past) /\ Len(past) \in Nat
      BY <1>1, Positions DEF InStep
    <3> QED BY <2>2, <3>4, <3>5
  <2> QED BY <2>1, <2>2
<1> HIDE DEF rows
<1>3. handler[c] \in Handlers /\ Written(c) \in Nat /\ Len(past) \in Nat /\ Len(rows) \in Nat
  BY <1>1, <1>2, Lengths, Positions DEF InStep
<1>4. handler' = [handler EXCEPT ![c] = h] /\ handler'[c] = h
  BY <1>1 DEF ConnType, rows, Read
<1>5. h \in Handlers /\ h.rows = rows /\ h.last = handler[c].last /\ h.at = "write"
  BY <1>2, <1>3 DEF Handlers, Points
<1> HIDE DEF h
<1>6. ConnType' /\ \A d \in Clients : d # c => Alone(d) /\ wake'[d] = wake[d]
  BY <1>1, <1>4, <1>5 DEF ConnType, Alone, Read
<1>7. /\ handler'[c].rows = rows /\ handler'[c].last = handler[c].last
      /\ handler'[c].at = "write"
  BY <1>4, <1>5
<1>8. Written(c)' = Written(c) /\ Taken(c)' = Written(c) + Len(rows)
  BY <1>7 DEF Written, Taken, Read
<1>9. Taken(c)' <= Len(past) /\ (exists => Taken(c)' = Len(past))
  BY <1>2, <1>3, <1>8
<1>10. InStep(c)'
  BY <1>1, <1>2, <1>7, <1>8, <1>9 DEF InStep, Read
<1>11. handler[c].at = "query"
  BY DEF Read
<1>12. Connected(c)' /\ Covered(c)'
  BY <1>1, <1>3, <1>7, <1>8, <1>9, <1>11 DEF Connected, Covered, Subscribed, Read
<1> QED BY <1>6, <1>10, <1>12, OneConnection DEF Read

\* The handler of c writes: the wire ends where the rows ended, and so does
\* what the handler takes for sent.
LEMMA SendStep ==
  ASSUME StreamIInv, NEW c \in Clients, Send(c)
  PROVE  StreamIInv'
<1> DEFINE rows == handler[c].rows
           last == IF rows = <<>> THEN handler[c].last ELSE Last(rows)
           h == [Gone EXCEPT !.at = "wait", !.last = last]
<1>1. ConnType /\ InStep(c) /\ Connected(c) /\ Covered(c) /\ TableType
  BY DEF StreamIInv, TableIInv
<1>2. /\ told[c] \in Seq(Ids) /\ wire[c] \in Seq(Ids) /\ rows \in Seq(Ids)
      /\ handler[c].last \in Ids \cup {0} /\ Len(rows) \in Nat
      /\ Written(c) \in Nat /\ Taken(c) \in Nat /\ Taken(c) = Written(c) + Len(rows)
  BY <1>1, Lengths DEF Taken
<1>3. /\ wire' = [wire EXCEPT ![c] = wire[c] \o rows] /\ UNCHANGED <<tableVars, brokerVars, pageVars, faults>>
      /\ handler[c].at = "write"
      /\ \/ Return(c)
         \/ handler' = [handler EXCEPT ![c] = h] /\ UNCHANGED wake
  BY DEF Send
<1>4. /\ wire'[c] = wire[c] \o rows /\ wire'[c] \in Seq(Ids)
      /\ wire' \in [Clients -> Seq(Ids)] /\ \A d \in Clients : d # c => wire'[d] = wire[d]
  BY <1>1, <1>2, <1>3 DEF ConnType
<1>5. last \in Ids \cup {0} /\ last = IF Taken(c) = 0 THEN 0 ELSE past[Taken(c)]
  <2>1. handler[c].last = IF Written(c) = 0 THEN 0 ELSE past[Written(c)]
    BY <1>1, <1>3 DEF Connected
  <2>2. CASE rows = <<>>
    <3>1. Taken(c) = Written(c)
      BY <1>2, <2>2
    <3> QED BY <1>2, <2>1, <2>2, <3>1
  <2>3. CASE rows # <<>>
    <3>1. Len(rows) > 0 /\ Last(rows) = rows[Len(rows)] /\ Last(rows) \in Ids
      BY <1>2, <2>3 DEF Last
    <3>2. Len(rows) \in 1..Len(rows)
      BY <1>2, <3>1
    <3>3. rows[Len(rows)] = past[Written(c) + Len(rows)]
      BY <1>1, <3>2, Zenon DEF InStep
    <3> QED BY <1>2, <2>3, <3>1, <3>3
  <2> QED BY <2>2, <2>3
<1> HIDE DEF last
<1>6. h \in Handlers /\ h.at = "wait" /\ h.last = last /\ h.rows = <<>>
  BY <1>5, GoneType DEF Handlers, Points
<1> HIDE DEF rows, h
<1>7. /\ handler'[c] \in {Gone, h} /\ (handler'[c] = Gone => wake'[c] = FALSE)
      /\ handler' \in [Clients -> Handlers] /\ wake' \in [Clients -> BOOLEAN]
      /\ \A d \in Clients : d # c => handler'[d] = handler[d] /\ wake'[d] = wake[d]
      /\ (handler'[c] = h => wake' = wake)
  BY <1>1, <1>3, <1>6, GoneType DEF ConnType, Return
<1>8. ConnType' /\ \A d \in Clients : d # c => Alone(d) /\ wake'[d] = wake[d]
  BY <1>1, <1>3, <1>4, <1>7 DEF ConnType, Alone
<1>9. handler'[c].rows = <<>> /\ handler'[c].at \in {"none", "wait"}
  BY <1>6, <1>7, GoneType
<1>10. Len(wire'[c]) = Len(wire[c]) + Len(rows)
  BY <1>2, <1>4
<1>11. Written(c)' = Taken(c) /\ Taken(c)' = Taken(c)
  <2>1. \A x, y, z \in Nat : x + (y + z) = (x + y) + z /\ x + 0 = x
    OBVIOUS
  <2>2. Len(told[c]) \in Nat /\ Len(wire[c]) \in Nat /\ Len(<<>>) = 0 /\ told' = told
    BY <1>2, <1>3
  <2>3. Written(c)' = Taken(c)
    <3>1. Written(c)' = Len(told[c]) + Len(wire'[c])
      BY <2>2 DEF Written
    <3>2. Taken(c) = (Len(told[c]) + Len(wire[c])) + Len(rows)
      BY <1>2 DEF Written
    <3> DEFINE t == Len(told[c])  w == Len(wire[c])  r == Len(rows)
    <3>3. t \in Nat /\ w \in Nat /\ r \in Nat
      BY <1>2, <2>2
    <3>4. Written(c)' = t + (w + r) /\ Taken(c) = (t + w) + r
      BY <1>10, <3>1, <3>2, Zenon
    <3> HIDE DEF t, w, r
    <3> QED BY <3>3, <3>4
  <2>4. Taken(c)' = Written(c)' + 0
    BY <1>9, <2>2, Zenon DEF Taken
  <2> QED BY <1>2, <2>3, <2>4
<1>12. InStep(c)'
  <2>1. \A i \in 1..Len(wire'[c]) : wire'[c][i] = past[Len(told[c]) + i]
    <3> SUFFICES ASSUME NEW i \in 1..Len(wire'[c])
                 PROVE  wire'[c][i] = past[Len(told[c]) + i]
      OBVIOUS
    <3> DEFINE t == Len(told[c])  w == Len(wire[c])  r == Len(rows)
    <3>1. t \in Nat /\ w \in Nat /\ r \in Nat
      BY <1>2
    <3>2. wire'[c][i] = IF i <= w THEN wire[c][i] ELSE rows[i - w]
      BY <1>2, <1>4, <1>10
    <3>3. i \in 1..w + r
      BY <1>10
    <3>4. /\ \A k \in 1..w : wire[c][k] = past[t + k]
          /\ \A k \in 1..r : rows[k] = past[(t + w) + k]
      BY <1>1 DEF InStep, rows, Written
    <3> HIDE DEF t, w, r
    <3>5. i \in 1..w \/ (i - w \in 1..r /\ ~(i <= w) /\ (t + w) + (i - w) = t + i)
      BY <3>1, <3>3
    <3>6. CASE i \in 1..w
      BY <3>2, <3>4, <3>6, <3>1 DEF t
    <3>7. CASE i - w \in 1..r /\ ~(i <= w) /\ (t + w) + (i - w) = t + i
      BY <3>2, <3>4, <3>7, Zenon DEF t
    <3> QED BY <3>5, <3>6, <3>7
  <2>2. \A i \in 1..Len(<<>>) : FALSE
    OBVIOUS
  <2> QED BY <1>1, <1>3, <1>9, <1>11, <2>1, <2>2 DEF InStep
<1>13. Connected(c)' /\ Covered(c)'
  <2>1. CASE handler'[c] = Gone
    BY <1>1, <1>3, <1>7, <2>1, GoneType DEF Connected, Covered
  <2>2. CASE handler'[c] = h
    BY <1>1, <1>3, <1>5, <1>6, <1>7, <1>11, <2>2 DEF Connected, Covered, Subscribed
  <2> QED BY <1>7, <2>1, <2>2
<1> QED BY <1>3, <1>8, <1>12, <1>13, OneConnection

\* A new handler starts from the last event the page was told.
LEMMA ConnectStep ==
  ASSUME StreamIInv, NEW c \in Clients, Connect(c)
  PROVE  StreamIInv'
<1> DEFINE h == [at |-> "loaded", last |-> LastId(c), ended |-> final # 0, rows |-> <<>>]
<1>1. ConnType /\ InStep(c) /\ Connected(c) /\ Covered(c) /\ TableType
  BY DEF StreamIInv, TableIInv
<1>2. handler[c].at = "none" /\ wire[c] = <<>> /\ handler[c].rows = <<>>
  BY <1>1 DEF Connected, Connect
<1>3. /\ told[c] \in Seq(Ids) /\ Len(told[c]) \in Nat /\ Written(c) = Len(told[c])
      /\ <<>> \in Seq(Ids) /\ handler[c].rows \in Seq(Ids)
  BY <1>1, <1>2, Lengths, Sums DEF Written
<1>4. /\ LastId(c) \in Ids \cup {0}
      /\ LastId(c) = IF Len(told[c]) = 0 THEN 0 ELSE past[Len(told[c])]
  <2>1. CASE told[c] = <<>>
    BY <2>1 DEF LastId
  <2>2. CASE told[c] # <<>>
    <3>1. Len(told[c]) \in 1..Len(told[c]) /\ LastId(c) = told[c][Len(told[c])]
          /\ Len(told[c]) # 0 /\ LastId(c) \in Ids
      BY <1>3, <2>2 DEF LastId, Last
    <3>2. told[c][Len(told[c])] = past[Len(told[c])]
      BY <1>1, <3>1, Zenon DEF InStep
    <3> QED BY <3>1, <3>2
  <2> QED BY <2>1, <2>2
<1>5. h \in Handlers /\ h.at = "loaded" /\ h.last = LastId(c) /\ h.rows = <<>>
  <2> DEFINE l == LastId(c)  e == (final # 0)
  <2>1. l \in Ids \cup {0} /\ e \in BOOLEAN
    BY <1>4
  <2> HIDE DEF l, e
  <2>2. [at |-> "loaded", last |-> l, ended |-> e, rows |-> <<>>] \in Handlers
    BY <1>3, <2>1 DEF Handlers, Points
  <2> QED BY <2>2 DEF l, e
<1> HIDE DEF h
<1>6. /\ UNCHANGED <<tableVars, brokerVars, wake, wire, told, faults>>
      /\ page' \in [Clients -> {"retry", "open", "closed", "left"}]
      /\ handler' \in [Clients -> Handlers]
      /\ \A d \in Clients : d # c => handler'[d] = handler[d] /\ page'[d] = page[d]
      /\ \/ handler'[c] = h /\ page'[c] = "open"
         \/ handler'[c] = handler[c] /\ page'[c] = "closed"
  <2>1. /\ page[c] = "retry"
        /\ \/ page' = [page EXCEPT ![c] = "open"] /\ handler' = [handler EXCEPT ![c] = h]
           \/ page' = [page EXCEPT ![c] = "closed"] /\ UNCHANGED handler
        /\ UNCHANGED <<tableVars, brokerVars, wake, wire, told, faults>>
    BY DEF Connect, h
  <2> QED BY <1>1, <1>5, <2>1 DEF ConnType
<1>7. ConnType' /\ \A d \in Clients : d # c => Alone(d) /\ wake'[d] = wake[d]
  BY <1>1, <1>6 DEF ConnType, Alone
<1>8. handler'[c].rows = <<>>
  BY <1>2, <1>5, <1>6
<1>9. Written(c)' = Written(c) /\ Taken(c)' = Taken(c)
  BY <1>2, <1>6, <1>8 DEF Written, Taken
<1>10. InStep(c)'
  BY <1>1, <1>2, <1>6, <1>8, <1>9 DEF InStep
<1>11. ~wake[c]
  BY <1>1, <1>2 DEF Connected, Subscribed
<1>12. Connected(c)' /\ Covered(c)'
  BY <1>1, <1>2, <1>3, <1>4, <1>5, <1>6, <1>8, <1>9, <1>11 DEF Connected, Covered, Subscribed
<1> QED BY <1>6, <1>7, <1>10, <1>12, OneConnection

\* The page reads the next event of past.
LEMMA ReceiveStep ==
  ASSUME StreamIInv, NEW c \in Clients, Receive(c)
  PROVE  /\ StreamIInv' /\ Len(told[c]) < Len(past)
         /\ Head(wire[c]) = past[Len(told[c]) + 1]
<1> DEFINE e == Head(wire[c])  t == Len(told[c])  w == Len(wire[c])
<1>1. ConnType /\ InStep(c) /\ Connected(c) /\ Covered(c) /\ TableType
  BY DEF StreamIInv, TableIInv
<1>2. told[c] \in Seq(Ids) /\ wire[c] \in Seq(Ids) /\ wire[c] # <<>>
  BY <1>1, Lengths DEF Receive
<1>3. t \in Nat /\ w \in Nat /\ w > 0 /\ e \in Ids /\ e = wire[c][1]
  BY <1>2
<1>4. /\ told' = [told EXCEPT ![c] = Append(told[c], e)] /\ wire' = [wire EXCEPT ![c] = Tail(wire[c])]
      /\ UNCHANGED <<tableVars, brokerVars, handler, wake, page, faults>>
  BY DEF Receive
<1>5. /\ told'[c] = Append(told[c], e) /\ wire'[c] = Tail(wire[c])
      /\ told'[c] \in Seq(Ids) /\ wire'[c] \in Seq(Ids)
  BY <1>1, <1>2, <1>3, <1>4 DEF ConnType
<1>6. /\ Len(told'[c]) = t + 1 /\ Len(wire'[c]) = w - 1
      /\ \A i \in 1..t : told'[c][i] = told[c][i]
      /\ told'[c][t + 1] = e
      /\ \A i \in 1..(w - 1) : wire'[c][i] = wire[c][i + 1]
  BY <1>2, <1>3, <1>5
<1>7. ConnType' /\ \A d \in Clients : d # c => Alone(d) /\ wake'[d] = wake[d]
  BY <1>1, <1>4, <1>5 DEF ConnType, Alone
<1>8. t + 1 \in 1..Len(past) /\ e = past[t + 1] /\ Len(past) \in Nat
  <2>1. 1 \in 1..w
    BY <1>3
  <2> QED BY <1>1, <1>3, <2>1, Positions DEF InStep
<1>9. /\ \A i \in 1..t : told[c][i] = past[i]
      /\ \A i \in 1..w : wire[c][i] = past[t + i]
  BY <1>1 DEF InStep
<1>10. Written(c)' = Written(c) /\ Taken(c)' = Taken(c)
  <2>1. (t + 1) + (w - 1) = t + w
    <3> HIDE DEF t, w
    <3> QED BY <1>3
  <2>2. Written(c)' = Written(c)
    BY <1>6, <2>1 DEF Written
  <2> QED BY <1>4, <2>2 DEF Taken
<1> HIDE DEF e, t, w
<1>11. \A i \in 1..t + 1 : told'[c][i] = past[i]
  <2> SUFFICES ASSUME NEW i \in 1..t + 1  PROVE told'[c][i] = past[i]
    OBVIOUS
  <2>1. i \in 1..t \/ i = t + 1
    BY <1>3
  <2> QED BY <1>6, <1>8, <1>9, <2>1
<1>12. \A i \in 1..(w - 1) : wire'[c][i] = past[(t + 1) + i]
  <2> SUFFICES ASSUME NEW i \in 1..(w - 1)  PROVE wire'[c][i] = past[(t + 1) + i]
    OBVIOUS
  <2>1. i + 1 \in 1..w /\ t + (i + 1) = (t + 1) + i
    BY <1>3
  <2>2. wire[c][i + 1] = past[t + (i + 1)]
    BY <1>9, <2>1
  <2> QED BY <1>6, <2>1, <2>2
<1>13. InStep(c)'
  <2>1. Taken(c)' <= Len(past)'
    BY <1>1, <1>4, <1>10 DEF InStep
  <2>2. \A i \in 1..Len(handler'[c].rows) : handler'[c].rows[i] = past'[Written(c)' + i]
    BY <1>1, <1>4, <1>10 DEF InStep
  <2> QED BY <1>4, <1>6, <1>11, <1>12, <2>1, <2>2 DEF InStep
<1>14. Connected(c)' /\ Covered(c)'
  BY <1>1, <1>4, <1>10 DEF Connected, Covered, Subscribed, Receive
<1>15. StreamIInv'
  BY <1>4, <1>7, <1>13, <1>14, OneConnection
<1> QED BY <1>3, <1>8, <1>15 DEF e, t

LEMMA EndOfStreamStep ==
  ASSUME StreamIInv, NEW c \in Clients, EndOfStream(c)
  PROVE  StreamIInv'
<1>1. ConnType /\ InStep(c) /\ Connected(c) /\ Covered(c)
  BY DEF StreamIInv
<1>2. /\ page[c] = "open" /\ wire[c] = <<>> /\ handler[c] = Gone
      /\ page' = [page EXCEPT ![c] = AfterStream(c)] /\ AfterStream(c) \in {"closed", "retry"}
      /\ UNCHANGED <<tableVars, brokerVars, connVars, told, faults>>
  BY DEF EndOfStream, Hangup, AfterStream
<1>3. ConnType' /\ \A d \in Clients : d # c => Alone(d) /\ wake'[d] = wake[d]
  BY <1>1, <1>2 DEF ConnType, Alone
<1>4. Written(c)' = Written(c) /\ Taken(c)' = Taken(c)
  BY <1>2 DEF Written, Taken
<1>5. InStep(c)' /\ Connected(c)' /\ Covered(c)'
  BY <1>1, <1>2, <1>4, GoneType DEF InStep, Connected, Covered, Subscribed
<1> QED BY <1>2, <1>3, <1>5, OneConnection

\* The handler returns, and its wire stays or is lost.
LEMMA LoseStep ==
  ASSUME StreamIInv, NEW c \in Clients, Return(c), UNCHANGED <<tableVars, brokerVars, told>>,
         faults' \in 0..MaxFaults, faults' = 0 => faults = 0,
         \/ UNCHANGED <<wire, page>> /\ page[c] = "open"
         \/ /\ wire' = [wire EXCEPT ![c] = <<>>]
            /\ \E p \in {"closed", "retry", "left"} : page' = [page EXCEPT ![c] = p]
  PROVE  StreamIInv'
<1>1. ConnType /\ Connected(c)
  BY DEF StreamIInv
<1>2. <<>> \in Seq(Ids)
  OBVIOUS
<1>3. /\ handler' \in [Clients -> Handlers] /\ wake' \in [Clients -> BOOLEAN]
      /\ handler'[c] = Gone /\ wake'[c] = FALSE
      /\ \A d \in Clients : d # c => handler'[d] = handler[d] /\ wake'[d] = wake[d]
  BY <1>1, GoneType DEF ConnType, Return
<1>4. /\ wire' \in [Clients -> Seq(Ids)]
      /\ page' \in [Clients -> {"retry", "open", "closed", "left"}]
      /\ \A d \in Clients : d # c => wire'[d] = wire[d] /\ page'[d] = page[d]
      /\ \/ wire'[c] = wire[c] /\ page'[c] = page[c] /\ page[c] = "open"
         \/ wire'[c] = <<>>
  BY <1>1, <1>2 DEF ConnType
<1>5. ConnType' /\ \A d \in Clients : d # c => Alone(d)
  BY <1>1, <1>3, <1>4 DEF ConnType, Alone
<1>6. InStep(c)' /\ Connected(c)' /\ Covered(c)'
  BY <1>3, <1>4, ReturnStep
<1> QED BY <1>3, <1>5, <1>6, OneConnection

LEMMA CatchUpFailsStep ==
  ASSUME StreamIInv, NEW c \in Clients, CatchUpFails(c)
  PROVE  StreamIInv'
<1>1. ConnType /\ Connected(c)
  BY DEF StreamIInv
<1>2. page[c] = "open"
  BY <1>1 DEF CatchUpFails, Connected
<1> QED BY <1>1, <1>2, LoseStep, FaultStep DEF CatchUpFails

LEMMA DropStep ==
  ASSUME StreamIInv, NEW c \in Clients, Drop(c)
  PROVE  StreamIInv'
<1>1. ConnType
  BY DEF StreamIInv
<1>2. AfterStream(c) \in {"closed", "retry", "left"}
  BY DEF AfterStream
<1> QED BY <1>1, <1>2, LoseStep, FaultStep DEF Drop, Hangup

LEMMA LeaveStep ==
  ASSUME StreamIInv, NEW c \in Clients, Leave(c)
  PROVE  StreamIInv'
<1>1. faults \in 0..MaxFaults
  BY DEF StreamIInv, ConnType
<1> QED BY <1>1, LoseStep DEF Leave

-----------------------------------------------------------------------------
(* Broker, server and transactions: every connection at once *)

\* The connections are left alone while the table grows, or wake-ups come.
LEMMA ConnectionsKept ==
  ASSUME StreamIInv, TableIInv', ConnType', Grows,
         UNCHANGED <<handler, wire, page, told>>,
         \A c \in Clients : wake'[c] => wake[c] \/ Subscribed(c),
         \A c \in Clients : Covered(c)',
         faults' = 0 => listening'
  PROVE  StreamIInv'
<1>1. ConnType /\ TableType /\ TableType'
  BY DEF StreamIInv, TableIInv
<1>2. \A c \in Clients : InStep(c) /\ Connected(c) /\ Alone(c)
  BY DEF StreamIInv, Alone
<1>3. \A c \in Clients : InStep(c)' /\ Connected(c)'
  BY <1>1, <1>2, AloneKept
<1> QED BY <1>3 DEF StreamIInv

LEMMA SameLog ==
  ASSUME TableIInv, UNCHANGED past
  PROVE  Grows
BY DEF Grows, TableIInv, TableType

LEMMA TransactionStep ==
  ASSUME StreamIInv, NEW w \in Writers, Begin(w) \/ Rollback(w)
  PROVE  StreamIInv'
<1>1. ConnType /\ TableIInv
  BY DEF StreamIInv
<1>2. TableIInv'
  BY <1>1, BeginTable, RollbackTable
<1>3. UNCHANGED <<past, brokerVars, connVars, pageVars>> /\ (exists' => exists)
  BY DEF Begin, Rollback
<1>4. faults' \in 0..MaxFaults /\ (faults' = 0 => faults = 0)
  BY <1>1, FaultStep DEF Begin, Rollback, ConnType
<1>5. ConnType'
  BY <1>1, <1>3, <1>4 DEF ConnType
<1>6. \A c \in Clients : Covered(c)'
  BY <1>3, <1>4 DEF StreamIInv, Covered, Taken, Written
<1>7. Grows
  BY <1>1, <1>3, SameLog
<1> QED BY <1>2, <1>3, <1>4, <1>5, <1>6, <1>7, ConnectionsKept DEF StreamIInv

LEMMA CommitStep ==
  ASSUME StreamIInv, NEW w \in Writers, Commit(w)
  PROVE  StreamIInv'
<1>1. ConnType /\ TableIInv
  BY DEF StreamIInv
<1>2. TableIInv' /\ Grows
  <2>1. Len(past) \in Nat
    BY <1>1 DEF TableIInv, TableType
  <2> QED BY <1>1, <2>1, CommitTable DEF Grows
<1>3. UNCHANGED <<connVars, pageVars, listening, faults>> /\ note' = (note \/ listening)
  BY DEF Commit
<1>4. ConnType'
  BY <1>1, <1>3 DEF ConnType
<1>5. faults = 0 => listening
  BY DEF StreamIInv
<1>6. \A c \in Clients : Covered(c)'
  BY <1>3, <1>5 DEF Covered
<1> QED BY <1>2, <1>3, <1>4, <1>5, <1>6, ConnectionsKept

LEMMA PublishStep ==
  ASSUME StreamIInv, Publish
  PROVE  StreamIInv'
<1>1. ConnType /\ TableIInv
  BY DEF StreamIInv
<1>2. /\ UNCHANGED <<tableVars, listening, handler, wire, pageVars, faults>> /\ note' = FALSE
      /\ wake' = [c \in Clients |-> wake[c] \/ Subscribed(c)]
  BY DEF Publish
<1>3. wake' \in [Clients -> BOOLEAN] /\ \A c \in Clients : wake'[c] = (wake[c] \/ Subscribed(c))
  BY <1>1, <1>2 DEF Subscribed, ConnType
<1>4. ConnType' /\ TableIInv' /\ Grows
  BY <1>1, <1>2, <1>3, TableKept, SameLog DEF ConnType
<1>5. \A c \in Clients : Covered(c)'
  BY <1>2, <1>3 DEF Covered, Subscribed
<1> QED BY <1>2, <1>3, <1>4, <1>5, ConnectionsKept DEF StreamIInv

LEMMA ListenerStep ==
  ASSUME StreamIInv, LoseListener \/ Relisten
  PROVE  StreamIInv'
<1>1. ConnType /\ TableIInv
  BY DEF StreamIInv
<1>2. UNCHANGED <<tableVars, connVars, pageVars>>
  BY DEF LoseListener, Relisten
<1>3. /\ faults' \in 0..MaxFaults /\ (faults' = 0 => faults = 0 /\ note' = note /\ listening')
      /\ note' \in BOOLEAN /\ listening' \in BOOLEAN
  BY <1>1, FaultStep DEF LoseListener, Relisten, ConnType
<1>4. ConnType' /\ TableIInv' /\ Grows
  BY <1>1, <1>2, <1>3, TableKept, SameLog DEF ConnType
<1>5. \A c \in Clients : Covered(c)'
  <2> SUFFICES ASSUME NEW c \in Clients  PROVE Covered(c)'
    OBVIOUS
  <2>1. Taken(c)' = Taken(c)
    BY <1>2 DEF Taken, Written
  <2>2. Covered(c)
    BY DEF StreamIInv
  <2> QED BY <1>2, <1>3, <2>1, <2>2 DEF Covered
<1> QED BY <1>2, <1>3, <1>4, <1>5, ConnectionsKept

LEMMA RestartStep ==
  ASSUME StreamIInv, ServerRestart
  PROVE  StreamIInv'
<1>1. ConnType /\ TableIInv
  BY DEF StreamIInv
<1>2. faults' \in 0..MaxFaults /\ faults' # 0
  BY <1>1, FaultStep DEF ServerRestart
<1>3. <<>> \in Seq(Ids) /\ \A c \in Clients : AfterStream(c) \in {"closed", "retry"}
  BY DEF AfterStream
<1>4. /\ UNCHANGED <<tableVars, told>> /\ note' = FALSE /\ listening' = FALSE
      /\ handler' = [c \in Clients |-> Gone]
      /\ wake' = [c \in Clients |-> FALSE]
      /\ wire' = [c \in Clients |-> <<>>]
      /\ page' = [c \in Clients |-> IF page[c] = "open" THEN AfterStream(c) ELSE page[c]]
  BY DEF ServerRestart
<1>5. TableIInv'
  BY <1>1, <1>4, TableKept
<1>6. ConnType'
  BY <1>1, <1>2, <1>3, <1>4, GoneType DEF ConnType
<1>7. ASSUME NEW c \in Clients  PROVE InStep(c)' /\ Connected(c)' /\ Covered(c)'
  BY <1>4, ReturnStep
<1> QED BY <1>2, <1>5, <1>6, <1>7 DEF StreamIInv

-----------------------------------------------------------------------------
(* The invariant *)

LEMMA StreamStarts == StreamInit => StreamIInv
<1> SUFFICES ASSUME StreamInit  PROVE StreamIInv
  OBVIOUS
<1> USE DEF StreamInit
<1>1. 1 \in Ids /\ <<1>> \in Seq(Ids) /\ <<>> \in Seq(Ids) /\ Len(<<1>>) = 1 /\ Len(<<>>) = 0
  BY DEF Ids
<1>2. NoTx \in [id : Ids \cup {0}, ends : BOOLEAN]
  BY DEF NoTx
<1>3. TableType
  BY <1>1, <1>2 DEF TableType
<1>4. ConnType
  <2>1. handler \in [Clients -> Handlers]
    BY GoneType
  <2>2. faults \in 0..MaxFaults
    BY FaultsAssumption
  <2>3. wire \in [Clients -> Seq(Ids)] /\ told \in [Clients -> Seq(Ids)]
    BY <1>1
  <2> QED BY <2>1, <2>2, <2>3 DEF ConnType
<1>5. CommitsRise /\ OneWriter /\ TableIsPast
  <2>1. \A i \in 1..Len(past) : i = 1 /\ past[i] = 1
    BY <1>1
  <2>2. events = {past[i] : i \in 1..Len(past)}
    BY <1>1, <2>1
  <2> QED BY <1>1, <2>1, <2>2 DEF CommitsRise, OneWriter, TableIsPast
<1>6. \A c \in Clients : InStep(c) /\ Connected(c) /\ Covered(c)
  <2> SUFFICES ASSUME NEW c \in Clients  PROVE InStep(c) /\ Connected(c) /\ Covered(c)
    OBVIOUS
  <2>1. told[c] = <<>> /\ wire[c] = <<>> /\ handler[c] = Gone
    OBVIOUS
  <2>2. Written(c) = 0 /\ Taken(c) = 0
    BY <1>1, <2>1, GoneType DEF Written, Taken
  <2> QED BY <1>1, <2>1, <2>2, GoneType DEF InStep, Connected, Covered
<1> QED BY <1>3, <1>4, <1>5, <1>6 DEF StreamIInv, TableIInv

LEMMA StreamStays ==
  ASSUME StreamIInv, [StreamNext]_streamVars
  PROVE  StreamIInv'
<1>1. ASSUME NEW w \in Writers, Begin(w) \/ Commit(w) \/ Rollback(w)
      PROVE  StreamIInv'
  BY <1>1, TransactionStep, CommitStep
<1>2. CASE Delete
  <2>1. ConnType /\ TableIInv
    BY DEF StreamIInv
  <2>2. /\ UNCHANGED <<past, brokerVars, connVars, pageVars, faults>> /\ ~exists'
        /\ TableIInv' /\ Grows
    BY <1>2, <2>1, DeleteTable, SameLog DEF Delete
  <2>3. ConnType' /\ \A c \in Clients : Covered(c)'
    BY <2>1, <2>2 DEF ConnType, Covered
  <2> QED BY <2>2, <2>3, ConnectionsKept DEF StreamIInv
<1>3. CASE Publish \/ LoseListener \/ Relisten \/ ServerRestart
  BY <1>3, PublishStep, ListenerStep, RestartStep
<1>4. ASSUME NEW c \in Clients,
             HandlerStep(c) \/ CatchUpFails(c) \/ Tick(c) \/ PageStep(c) \/ Drop(c) \/ Leave(c)
      PROVE  StreamIInv'
  BY <1>4, SubscribeStep, ReadStep, SendStep, WokenStep, CatchUpFailsStep, TickStep,
     ConnectStep, ReceiveStep, EndOfStreamStep, DropStep, LeaveStep
     DEF HandlerStep, PageStep
<1>5. CASE UNCHANGED streamVars
  <2>1. ConnType /\ TableIInv
    BY DEF StreamIInv
  <2>2. ConnType' /\ TableIInv' /\ Grows
    BY <1>5, <2>1, TableKept, SameLog DEF ConnType
  <2>3. \A c \in Clients : Covered(c)'
    BY <1>5 DEF StreamIInv, Covered, Taken, Written
  <2> QED BY <1>5, <2>2, <2>3, ConnectionsKept DEF StreamIInv
<1> QED BY <1>1, <1>2, <1>3, <1>4, <1>5 DEF StreamNext

LEMMA StreamSafe == StreamSpec => []StreamIInv
<1>1. StreamIInv /\ [StreamNext]_streamVars => StreamIInv'
  BY StreamStays
<1> QED BY <1>1, StreamStarts, PTL DEF StreamSpec

-----------------------------------------------------------------------------
(* Theorems *)

LEMMA TypesFollow == StreamIInv => StreamTypeOK
BY DEF StreamIInv, TableIInv, TableType, ConnType, Connected, Subscribed, Handlers, Points,
       StreamTypeOK

LEMMA GapFollows == StreamIInv => NothingFallsInTheGap
<1> SUFFICES ASSUME StreamIInv, NEW c \in Clients, handler[c].at = "wait", Batch(c) # <<>>,
                    faults = 0
             PROVE  note \/ wake[c]
  BY DEF NothingFallsInTheGap
<1>1. ConnType /\ TableIInv /\ TableType /\ InStep(c) /\ Connected(c) /\ Covered(c)
  BY DEF StreamIInv, TableIInv
<1>2. exists
  <2>1. SUFFICES ASSUME ~exists  PROVE FALSE
    OBVIOUS
  <2>2. {e \in events : e > handler[c].last} = {}
    BY <1>1, <2>1 DEF TableIInv, TableIsPast
  <2> QED BY <2>2, QueryOfNothing DEF Batch
<1>3. PICK e \in events : e > handler[c].last
  <2>1. SUFFICES ASSUME {e \in events : e > handler[c].last} = {}  PROVE FALSE
    OBVIOUS
  <2> QED BY <2>1, QueryOfNothing DEF Batch
<1>4. PICK i \in 1..Len(past) : e = past[i]
  BY <1>1, <1>2 DEF TableIInv, TableIsPast
<1>5. /\ Written(c) \in 0..Len(past) /\ Len(past) \in Nat
      /\ handler[c].last = IF Written(c) = 0 THEN 0 ELSE past[Written(c)]
      /\ handler[c].rows = <<>>
  BY <1>1, Positions DEF InStep, Connected
<1>6. Taken(c) = Written(c)
  BY <1>1, <1>5, Lengths, Sums DEF Taken, Written
<1>7. Written(c) < Len(past)
  <2>1. SUFFICES ASSUME Written(c) = Len(past)  PROVE FALSE
    BY <1>5
  <2>2. Len(past) \in 1..Len(past) /\ handler[c].last = past[Len(past)] /\ past \in Seq(Ids)
    BY <1>4, <1>5, <1>1, <2>1 DEF TableType
  <2>3. i < Len(past) => past[i] < past[Len(past)]
    BY <1>1, <2>2 DEF TableIInv, CommitsRise
  <2>4. past[i] \in Ids /\ past[Len(past)] \in Ids
    BY <2>2
  <2> QED BY <1>3, <1>4, <1>5, <2>2, <2>3, <2>4 DEF Ids
<1> QED BY <1>1, <1>2, <1>6, <1>7 DEF Covered

\* The stream keeps its types and, as long as nothing fails, no committed row
\* is left lying at a handler that sleeps without a wake-up to come.
THEOREM StreamCorrect == StreamSpec => []StreamInv
<1>1. StreamIInv => StreamInv
  BY TypesFollow, GapFollows DEF StreamInv
<1> QED BY <1>1, StreamSafe, PTL

\* No event is lost, repeated or reordered on its way to a page, whatever
\* breaks: the stream implements the feed.
THEOREM StreamIsAFeed == StreamSpec => IsAFeed
<1>1. StreamInit => Feed!FeedInit
  <2> SUFFICES ASSUME StreamInit  PROVE Feed!FeedInit
    OBVIOUS
  <2>1. 1 \in Ids
    BY DEF Ids
  <2> QED BY <2>1 DEF StreamInit, Feed!FeedInit
<1>2. StreamIInv /\ [StreamNext]_streamVars => [Feed!FeedNext]_(Feed!feedVars)
  <2> SUFFICES ASSUME StreamIInv, [StreamNext]_streamVars
               PROVE  [Feed!FeedNext]_(Feed!feedVars)
    OBVIOUS
  <2> USE DEF Feed!FeedNext, Feed!feedVars
  <2>1. ASSUME NEW w \in Writers, Commit(w)  PROVE \E e \in Ids : Feed!Write(e)
    <3>1. TableIInv
      BY DEF StreamIInv
    <3>2. exists /\ final = 0 /\ tx[w].id \in Ids
      BY <2>1, <3>1, CommitTable DEF TableIInv, OneWriter, Commit
    <3>3. (final' # 0 \/ ~exists') \in BOOLEAN
      OBVIOUS
    <3> QED BY <2>1, <3>2, <3>3 DEF Feed!Write, Commit
  <2>2. ASSUME NEW c \in Clients, Receive(c)  PROVE Feed!Tell(c)
    BY <2>2, ReceiveStep DEF Feed!Tell, Receive
  <2>3. CASE Delete
    BY <2>3 DEF Feed!Close, Delete
  <2>4. ASSUME NEW w \in Writers, Begin(w) \/ Rollback(w)  PROVE UNCHANGED Feed!feedVars
    BY <2>4 DEF Begin, Rollback
  <2>5. CASE Publish \/ LoseListener \/ Relisten \/ ServerRestart
    BY <2>5 DEF Publish, LoseListener, Relisten, ServerRestart
  <2>6. ASSUME NEW c \in Clients,
               \/ HandlerStep(c) \/ CatchUpFails(c) \/ Tick(c)
               \/ Connect(c) \/ EndOfStream(c) \/ Drop(c) \/ Leave(c)
        PROVE  UNCHANGED Feed!feedVars
    <3>1. CASE HandlerStep(c)
      <4>1. UNCHANGED <<tableVars, pageVars>>
        BY <3>1, Zenon DEF HandlerStep, Subscribe, Read, Send, Woken
      <4> QED BY <4>1
    <3>2. CASE CatchUpFails(c) \/ Tick(c) \/ Connect(c)
      BY <3>2 DEF CatchUpFails, Tick, Connect
    <3>3. CASE EndOfStream(c) \/ Drop(c) \/ Leave(c)
      BY <3>3 DEF EndOfStream, Drop, Leave
    <3> QED BY <2>6, <3>1, <3>2, <3>3
  <2>7. CASE UNCHANGED streamVars
    BY <2>7
  <2> QED BY <2>1, <2>2, <2>3, <2>4, <2>5, <2>6, <2>7 DEF StreamNext, PageStep
<1> QED BY <1>1, <1>2, StreamSafe, PTL DEF StreamSpec, IsAFeed, Feed!FeedSpec
=============================================================================
