------------------------- MODULE EventLedger_proofs -------------------------
(***************************************************************************)
(* Proofs about EventLedger, for any number of writers, retries and calls. *)
(* LedgerInv is inductive: it numbers the rows without a gap, links each   *)
(* row to the one before it, and says of each writer that the row it read  *)
(* is still in place.  An insert that finds its number free has therefore  *)
(* read the row that is last now, and extends the chain.                   *)
(***************************************************************************)
EXTENDS EventLedger, SequenceTheorems, TLAPS

-----------------------------------------------------------------------------
(* Lemmas about tables. *)

\* The greatest of the numbers up to n is n.
LEMMA NewestUpTo ==
  ASSUME NEW n \in Nat, n # 0
  PROVE  Newest(1..n) = n
  BY DEF Newest

\* Adding an element under the next number is Append.
LEMMA AppendIs ==
  ASSUME NEW S, NEW t \in Seq(S), NEW e \in S, NEW u,
         u = [i \in 1..(Len(t) + 1) |-> IF i = Len(t) + 1 THEN e ELSE t[i]]
  PROVE  u = Append(t, e)
  <1>1. PICK v : v = Append(t, e)
    OBVIOUS
  <1>2. v \in Seq(S) /\ Len(v) = Len(t) + 1
        /\ \A i \in 1..Len(v) : v[i] = IF i = Len(t) + 1 THEN e ELSE t[i]
    BY <1>1
  <1>3. u \in Seq(S) /\ Len(u) = Len(t) + 1
        /\ \A i \in 1..Len(u) : u[i] = IF i = Len(t) + 1 THEN e ELSE t[i]
    OBVIOUS
  <1>4. u = v
    BY <1>2, <1>3, SeqEqual
  <1> QED
    BY <1>1, <1>4

\* The types of what the table holds.
LEMMA RowsTyped ==
  ASSUME TypeOK
  PROVE  /\ Len(rows) \in Nat
         /\ DOMAIN rows = 1..Len(rows)
         /\ \A s \in DOMAIN rows : /\ rows[s] \in Row
                                  /\ rows[s].event \in Events
                                  /\ rows[s].prev \in Hashes
                                  /\ rows[s].hash \in Hashes
  <1>1. Len(rows) \in Nat /\ DOMAIN rows = 1..Len(rows)
    BY DEF TypeOK
  <1>2. \A s \in DOMAIN rows : rows[s] \in Row
    BY DEF TypeOK
  <1>3. \A row \in Row : row.event \in Events /\ row.prev \in Hashes /\ row.hash \in Hashes
    BY DEF Row
  <1> QED
    BY <1>1, <1>2, <1>3

\* A table numbered from 1 ends with the row that SELECT ... DESC LIMIT 1 finds.
LEMMA LastRowIs ==
  ASSUME TypeOK
  PROVE  LastRow = [seq |-> Len(rows), hash |-> HashAt(Len(rows))]
  <1>1. Len(rows) \in Nat /\ DOMAIN rows = 1..Len(rows)
    BY DEF TypeOK
  <1>2. CASE Len(rows) = 0
    BY <1>1, <1>2 DEF LastRow, HashAt, Nothing
  <1>3. CASE Len(rows) # 0
    <2>1. DOMAIN rows # {} /\ Newest(DOMAIN rows) = Len(rows)
      BY <1>1, <1>3, NewestUpTo
    <2> QED
      BY <1>3, <2>1 DEF LastRow, HashAt
  <1> QED
    BY <1>2, <1>3

\* A hash is never the hash it continues.
LEMMA HashGrows ==
  ASSUME NEW h \in Hashes, NEW r \in Records
  PROVE  EventHash(h, r) # h /\ EventHash(h, r) # Genesis /\ EventHash(h, r) \in Hashes
  BY DEF EventHash, Hashes, Genesis

\* Hashes of different contents differ.
LEMMA HashInjective ==
  ASSUME NEW h \in Hashes, NEW r \in Records, NEW q \in Records, r # q
  PROVE  EventHash(h, r) # EventHash(h, q)
  <1>1. EventHash(h, r)[Len(h) + 1] = r /\ EventHash(h, q)[Len(h) + 1] = q
    BY DEF EventHash, Hashes
  <1> QED
    BY <1>1

\* In a table numbered from 1, what precedes a row is the row before it.
LEMMA PrevIs ==
  ASSUME NEW table, NEW n \in Nat, DOMAIN table = 1..n, NEW s \in 1..n
  PROVE  LET before == {p \in DOMAIN table : p < s}
         IN  (IF before = {} THEN Genesis ELSE table[Newest(before)].hash)
               = IF s = 1 THEN Genesis ELSE table[s - 1].hash
  <1> DEFINE before == {p \in DOMAIN table : p < s}
  <1>1. before = 1..(s - 1)
    OBVIOUS
  <1>2. CASE s = 1
    BY <1>1, <1>2
  <1>3. CASE s # 1
    <2>1. s - 1 \in Nat /\ s - 1 # 0 /\ s - 1 \in 1..(s - 1)
      BY <1>3
    <2>2. Newest(before) = s - 1 /\ before # {}
      BY <1>1, <2>1, NewestUpTo
    <2> QED
      BY <1>3, <2>2
  <1> QED
    BY <1>2, <1>3

-----------------------------------------------------------------------------
(* The inductive invariant. *)

LEMMA InitInv == Init => LedgerInv
  <1> SUFFICES ASSUME Init PROVE LedgerInv
    OBVIOUS
  <1>1. Nothing \in [seq : Nat, hash : Hashes]
    BY DEF Nothing, Genesis, Hashes
  <1>2. TypeOK
    BY <1>1, LedgerAssumption DEF Init, TypeOK
  <1>3. Chained /\ ReadSound /\ EventsOnce
    BY DEF Init, Chained, ReadSound, EventsOnce
  <1> QED
    BY <1>2, <1>3 DEF LedgerInv

\* A step that leaves the table alone leaves the chain alone.
LEMMA ChainFrame ==
  ASSUME Chained, UNCHANGED rows
  PROVE  Chained' /\ \A s : HashAt(s)' = HashAt(s)
  BY DEF Chained, HashAt

LEMMA BeginInv ==
  ASSUME LedgerInv, NEW w \in Writers, Begin(w)
  PROVE  LedgerInv'
  <1> USE LedgerAssumption DEF LedgerInv, Begin
  <1>1. TypeOK'
    BY DEF TypeOK
  <1>2. Chained' /\ \A s : HashAt(s)' = HashAt(s)
    BY ChainFrame
  <1>3. ReadSound'
    BY <1>2 DEF ReadSound, TypeOK
  <1>4. EventsOnce'
    <2>1. calls[w] \in Nat /\ calls'[w] = calls[w] + 1
          /\ \A v \in Writers : v # w => calls'[v] = calls[v] /\ pc'[v] = pc[v]
      BY DEF TypeOK
    <2>2. \A v \in Writers : v # w => Event(v)' = Event(v)
      BY <2>1 DEF Event
    <2>3. Event(w)'.writer = w /\ Event(w)'.call = calls[w] + 1
      BY <2>1 DEF Event
    <2>4. \A e \in Events : e.writer \in Writers /\ e.call \in Nat
      BY DEF Events
    <2>5. \A v \in Writers : calls[v] \in Nat /\ calls'[v] \in Nat /\ calls[v] <= calls'[v]
      BY <2>1 DEF TypeOK
    <2>6. \A e \in Events : e.call <= calls[e.writer] => e.call <= calls'[e.writer]
      BY <2>4, <2>5
    <2>7. Event(w)' \notin raised /\ \A s \in DOMAIN rows : rows[s].event # Event(w)'
      BY <2>1, <2>3 DEF EventsOnce
    <2>8. calls'[w] \in 1..MaxCalls
      BY <2>1 DEF TypeOK
    <2>9. \A s \in DOMAIN rows : rows[s].event.call <= calls'[rows[s].event.writer]
      <3>1. \A s \in DOMAIN rows : /\ rows[s].event \in Events
                                  /\ rows[s].event.call <= calls[rows[s].event.writer]
        BY RowsTyped DEF EventsOnce
      <3> QED
        BY <2>6, <3>1
    <2>10. \A e \in raised : e.call <= calls'[e.writer]
      BY <2>6 DEF EventsOnce, TypeOK
    <2> QED
      BY <2>1, <2>2, <2>7, <2>8, <2>9, <2>10 DEF EventsOnce
  <1> QED
    BY <1>1, <1>2, <1>3, <1>4

LEMMA ReadLastInv ==
  ASSUME LedgerInv, NEW w \in Writers, ReadLast(w)
  PROVE  LedgerInv'
  <1> USE LedgerAssumption DEF LedgerInv, ReadLast
  <1>1. Len(rows) \in Nat /\ DOMAIN rows = 1..Len(rows)
        /\ \A s \in DOMAIN rows : rows[s].hash \in Hashes
    BY RowsTyped
  <1>2. HashAt(Len(rows)) \in Hashes
    BY <1>1 DEF HashAt, Hashes, Genesis
  <1>3. LastRow = [seq |-> Len(rows), hash |-> HashAt(Len(rows))]
    BY LastRowIs
  <1>4. TypeOK'
    BY <1>1, <1>2, <1>3 DEF TypeOK
  <1>5. Chained' /\ \A s : HashAt(s)' = HashAt(s)
    BY ChainFrame
  <1>6. ReadSound'
    <2>1. last'[w].seq = Len(rows) /\ last'[w].hash = HashAt(Len(rows))
      BY <1>3 DEF TypeOK
    <2>2. \A v \in Writers : v # w => last'[v] = last[v] /\ pc'[v] = pc[v]
      BY DEF TypeOK
    <2> QED
      BY <1>1, <1>5, <2>1, <2>2 DEF ReadSound
  <1>7. EventsOnce'
    BY DEF EventsOnce, Event, TypeOK
  <1> QED
    BY <1>4, <1>5, <1>6, <1>7

\* The row that a successful insert adds comes right after the last one.
LEMMA InsertAppends ==
  ASSUME LedgerInv, NEW w \in Writers, Insert(w)
  PROVE  /\ NewRow(w) \in Row
         /\ NextSeq(w) = Len(rows) + 1
         /\ last[w].hash = HashAt(Len(rows))
         /\ rows' = Append(rows, NewRow(w))
  <1> USE DEF LedgerInv, Insert
  <1>1. Len(rows) \in Nat /\ DOMAIN rows = 1..Len(rows)
    BY DEF TypeOK
  <1>2. last[w].seq \in 0..Len(rows) /\ last[w].hash = HashAt(last[w].seq)
    BY DEF ReadSound
  <1>3. last[w].seq = Len(rows) /\ NextSeq(w) = Len(rows) + 1
    BY <1>1, <1>2 DEF NextSeq
  <1>4. Event(w) \in Events
    BY DEF EventsOnce, Event, Events
  <1>5. NewRow(w) \in Row
    <2>1. last[w].hash \in Hashes /\ Record(NextSeq(w), Event(w)) \in Records
      BY <1>1, <1>3, <1>4 DEF TypeOK, Record, Records
    <2> QED
      BY <1>4, <2>1, HashGrows DEF NewRow, Row
  <1>6. rows' = Append(rows, NewRow(w))
    <2>1. DOMAIN rows \cup {NextSeq(w)} = 1..(Len(rows) + 1)
      BY <1>1, <1>3
    <2>2. rows' = [s \in 1..(Len(rows) + 1) |->
                     IF s = Len(rows) + 1 THEN NewRow(w) ELSE rows[s]]
      BY <1>3, <2>1
    <2> QED
      BY <1>5, <2>2, AppendIs DEF TypeOK
  <1> QED
    BY <1>2, <1>3, <1>5, <1>6

LEMMA InsertInv ==
  ASSUME LedgerInv, NEW w \in Writers, Insert(w)
  PROVE  LedgerInv'
  <1> USE LedgerAssumption DEF LedgerInv
  <1> DEFINE n == Len(rows)
             row == NewRow(w)
  <1>1. row \in Row /\ NextSeq(w) = n + 1 /\ last[w].hash = HashAt(n) /\ rows' = Append(rows, row)
    BY InsertAppends
  <1>2. rows \in Seq(Row) /\ n \in Nat
    BY DEF TypeOK
  <1>3. /\ rows' \in Seq(Row) /\ Len(rows') = n + 1
        /\ DOMAIN rows' = 1..(n + 1)
        /\ rows'[n + 1] = row
        /\ \A s \in 1..n : rows'[s] = rows[s]
    BY <1>1, <1>2
  <1> HIDE DEF n
  <1>4. \A s \in 0..n : HashAt(s)' = HashAt(s)
    BY <1>2, <1>3 DEF HashAt
  <1>5. /\ row.event = Event(w)
        /\ row.prev = HashAt(n)
        /\ row.hash = EventHash(row.prev, Record(n + 1, row.event))
    BY <1>1 DEF NewRow
  <1> HIDE DEF row
  <1>6. pc' = [pc EXCEPT ![w] = "idle"] /\ UNCHANGED <<calls, tries, last, started, raised>>
    BY DEF Insert
  <1>7. \A v \in Writers : pc'[v] # "idle" => v # w /\ pc'[v] = pc[v]
    BY <1>6 DEF TypeOK
  <1>8. TypeOK'
    BY <1>3, <1>6 DEF TypeOK
  <1>9. Chained'
    <2> SUFFICES ASSUME NEW s \in 1..(n + 1)
                 PROVE  /\ rows'[s].prev = HashAt(s - 1)'
                        /\ rows'[s].hash = EventHash(rows'[s].prev, Record(s, rows'[s].event))
      BY <1>3 DEF Chained
    <2>1. HashAt(s - 1)' = HashAt(s - 1)
      BY <1>2, <1>4
    <2>2. CASE s = n + 1
      BY <1>2, <1>3, <1>5, <2>1, <2>2
    <2>3. CASE s # n + 1
      <3>1. s \in 1..n /\ s \in DOMAIN rows /\ rows'[s] = rows[s]
        BY <1>2, <1>3, <2>3 DEF n
      <3> QED
        BY <2>1, <3>1 DEF Chained
    <2> QED
      BY <2>2, <2>3
  <1>10. ReadSound'
    <2> SUFFICES ASSUME NEW v \in Writers, pc'[v] # "idle"
                 PROVE  /\ started[v] + tries[v] <= n + 1 /\ tries[v] < AppendRetries
                        /\ pc[v] = "insert" =>
                             /\ last[v].seq \in 0..(n + 1)
                             /\ last[v].hash = HashAt(last[v].seq)'
                             /\ started[v] + tries[v] <= last[v].seq
      BY <1>3, <1>6, <1>7 DEF ReadSound
    <2>1. pc[v] # "idle" /\ started[v] \in Nat /\ tries[v] \in Nat
      BY <1>7 DEF TypeOK
    <2>2. /\ started[v] + tries[v] <= n /\ tries[v] < AppendRetries
          /\ pc[v] = "insert" =>
               /\ last[v].seq \in 0..n
               /\ last[v].hash = HashAt(last[v].seq)
               /\ started[v] + tries[v] <= last[v].seq
      BY <2>1 DEF ReadSound, n
    <2>3. last' = last
      BY <1>6
    <2>4. pc[v] = "insert" => HashAt(last[v].seq)' = HashAt(last[v].seq)
      BY <1>2, <1>3, <2>2, <2>3 DEF HashAt
    <2> QED
      BY <1>2, <2>1, <2>2, <2>4
  <1>11. EventsOnce'
    <2>1. \A v \in Writers : Event(v)' = Event(v)
      BY <1>6 DEF Event
    <2>2. pc[w] # "idle"
      BY DEF Insert
    <2>3. /\ Event(w) \notin raised
          /\ \A s \in 1..n : rows[s].event # Event(w)
          /\ Event(w).call <= calls[Event(w).writer]
      BY <1>2, <2>2 DEF EventsOnce, Event, n, TypeOK
    <2>4. \A s \in 1..n : /\ rows[s].event.call <= calls[rows[s].event.writer]
                          /\ rows[s].event \notin raised
      BY <1>2 DEF EventsOnce, n
    <2>5. \A s \in 1..(n + 1) : s = n + 1 \/ s \in 1..n
      BY <1>2
    <2>6. \A s \in 1..(n + 1) : /\ rows'[s].event.call <= calls'[rows'[s].event.writer]
                                /\ rows'[s].event \notin raised'
      BY <1>3, <1>5, <1>6, <2>3, <2>4, <2>5
    <2>7. \A s, p \in 1..(n + 1) : rows'[s].event = rows'[p].event => s = p
      <3>1. \A s, p \in 1..n : rows[s].event = rows[p].event => s = p
        BY <1>2 DEF EventsOnce, n
      <3> QED
        BY <1>3, <1>5, <2>3, <2>5, <3>1
    <2>8. \A v \in Writers : pc'[v] # "idle" =>
            \A s \in 1..(n + 1) : rows'[s].event # Event(v)'
      <3> SUFFICES ASSUME NEW v \in Writers, pc'[v] # "idle", NEW s \in 1..(n + 1)
                   PROVE  rows'[s].event # Event(v)
        BY <2>1
      <3>1. v # w /\ pc[v] # "idle"
        BY <1>7
      <3>2. Event(v) # Event(w)
        BY <3>1 DEF Event
      <3>3. \A p \in 1..n : rows[p].event # Event(v)
        BY <1>2, <3>1 DEF EventsOnce, n
      <3> QED
        BY <1>3, <1>5, <2>5, <3>2, <3>3
    <2>9. \A v \in Writers : pc'[v] # "idle" => calls'[v] \in 1..MaxCalls /\ Event(v)' \notin raised'
      BY <1>6, <1>7, <2>1 DEF EventsOnce
    <2>10. \A e \in raised' : e.call <= calls'[e.writer]
      BY <1>6 DEF EventsOnce
    <2> QED
      BY <1>3, <2>6, <2>7, <2>8, <2>9, <2>10 DEF EventsOnce
  <1> QED
    BY <1>8, <1>9, <1>10, <1>11

LEMMA CollideInv ==
  ASSUME LedgerInv, NEW w \in Writers, Collide(w)
  PROVE  LedgerInv'
  <1> USE LedgerAssumption DEF LedgerInv, Collide
  <1>1. TypeOK'
    BY DEF TypeOK
  <1>2. Chained' /\ \A s : HashAt(s)' = HashAt(s)
    BY ChainFrame
  <1>3. ReadSound'
    <2>1. Len(rows) \in Nat /\ last[w].seq + 1 <= Len(rows)
          /\ started[w] + tries[w] <= last[w].seq
      BY DEF TypeOK, ReadSound, NextSeq
    <2>2. tries'[w] = tries[w] + 1 /\ pc'[w] = "read"
          /\ started[w] \in Nat /\ tries[w] \in Nat /\ last[w].seq \in Nat
      BY DEF TypeOK
    <2>3. started'[w] + tries'[w] <= Len(rows') /\ tries'[w] < AppendRetries
      BY <2>1, <2>2
    <2>4. \A v \in Writers : v # w => tries'[v] = tries[v] /\ pc'[v] = pc[v]
      BY DEF TypeOK
    <2> QED
      BY <1>2, <2>2, <2>3, <2>4 DEF ReadSound
  <1>4. EventsOnce'
    BY DEF EventsOnce, Event, TypeOK
  <1> QED
    BY <1>1, <1>2, <1>3, <1>4

LEMMA GiveUpInv ==
  ASSUME LedgerInv, NEW w \in Writers, GiveUp(w)
  PROVE  LedgerInv'
  <1> USE LedgerAssumption DEF LedgerInv, GiveUp
  <1>1. Event(w) \in Events /\ Event(w).writer = w /\ Event(w).call = calls[w]
    BY DEF EventsOnce, Event, Events
  <1>2. TypeOK'
    BY <1>1 DEF TypeOK
  <1>3. Chained' /\ \A s : HashAt(s)' = HashAt(s)
    BY ChainFrame
  <1>4. ReadSound'
    BY <1>3 DEF ReadSound, TypeOK
  <1>5. EventsOnce'
    <2>1. \A v \in Writers : pc'[v] # "idle" => v # w /\ pc[v] # "idle"
      BY DEF TypeOK
    <2>2. \A v \in Writers : Event(v)' = Event(v) /\ (v # w => Event(v) # Event(w))
      BY DEF Event
    <2>3. calls[w] \in Nat /\ calls[w] <= calls[w]
      BY DEF TypeOK
    <2>4. \A e \in raised' : e.call <= calls[e.writer]
      BY <1>1, <2>3 DEF EventsOnce
    <2>5. \A s \in DOMAIN rows : rows[s].event # Event(w)
      BY DEF EventsOnce
    <2> QED
      BY <2>1, <2>2, <2>4, <2>5 DEF EventsOnce
  <1> QED
    BY <1>2, <1>3, <1>4, <1>5

LEMMA LostInv ==
  ASSUME LedgerInv, NEW w \in Writers, Lost(w)
  PROVE  LedgerInv'
  <1> USE DEF LedgerInv, Lost
  <1>1. TypeOK'
    BY DEF TypeOK
  <1>2. Chained' /\ \A s : HashAt(s)' = HashAt(s)
    BY ChainFrame
  <1>3. ReadSound'
    BY <1>2 DEF ReadSound, TypeOK
  <1>4. EventsOnce'
    BY DEF EventsOnce, Event, TypeOK
  <1> QED
    BY <1>1, <1>2, <1>3, <1>4

LEMMA StutterInv ==
  ASSUME LedgerInv, UNCHANGED vars
  PROVE  LedgerInv'
  BY DEF LedgerInv, vars, TypeOK, Chained, HashAt, ReadSound, EventsOnce, Event

\* The ledger keeps LedgerInv: rows without a gap, each chained to the one before
\* it (events.append).
THEOREM LedgerInvariant == Spec => []LedgerInv
  <1>1. Init => LedgerInv
    BY InitInv
  <1>2. LedgerInv /\ [Next]_vars => LedgerInv'
    <2> SUFFICES ASSUME LedgerInv, [Next]_vars PROVE LedgerInv'
      OBVIOUS
    <2>1. CASE UNCHANGED vars
      BY <2>1, StutterInv
    <2>2. ASSUME NEW w \in Writers, Begin(w) PROVE LedgerInv'
      BY <2>2, BeginInv
    <2>3. ASSUME NEW w \in Writers, ReadLast(w) PROVE LedgerInv'
      BY <2>3, ReadLastInv
    <2>4. ASSUME NEW w \in Writers, Insert(w) PROVE LedgerInv'
      BY <2>4, InsertInv
    <2>5. ASSUME NEW w \in Writers, Collide(w) PROVE LedgerInv'
      BY <2>5, CollideInv
    <2>6. ASSUME NEW w \in Writers, GiveUp(w) PROVE LedgerInv'
      BY <2>6, GiveUpInv
    <2>7. ASSUME NEW w \in Writers, Lost(w) PROVE LedgerInv'
      BY <2>7, LostInv
    <2> QED
      BY <2>1, <2>2, <2>3, <2>4, <2>5, <2>6, <2>7 DEF Next
  <1> QED
    BY <1>1, <1>2, PTL DEF Spec

-----------------------------------------------------------------------------
(* What readers and writers may rely on. *)

\* A chained table verifies.
LEMMA ChainedVerifies == LedgerInv => ChainVerifies
  <1> SUFFICES ASSUME LedgerInv, NEW s \in DOMAIN rows
               PROVE  LET before == {p \in DOMAIN rows : p < s}
                          prev == IF before = {} THEN Genesis ELSE rows[Newest(before)].hash
                      IN  /\ rows[s].prev = prev
                          /\ rows[s].hash = EventHash(prev, Record(s, rows[s].event))
    BY DEF ChainVerifies, VerifyChain
  <1>1. Len(rows) \in Nat /\ DOMAIN rows = 1..Len(rows) /\ s \in 1..Len(rows)
    BY DEF LedgerInv, TypeOK
  <1>2. rows[s].prev = HashAt(s - 1) /\ rows[s].hash = EventHash(rows[s].prev, Record(s, rows[s].event))
    BY DEF LedgerInv, Chained
  <1>3. HashAt(s - 1) = IF s = 1 THEN Genesis ELSE rows[s - 1].hash
    BY <1>1 DEF HashAt
  <1> DEFINE before == {p \in DOMAIN rows : p < s}
             prev == IF before = {} THEN Genesis ELSE rows[Newest(before)].hash
  <1>4. prev = IF s = 1 THEN Genesis ELSE rows[s - 1].hash
    BY <1>1, PrevIs
  <1>5. rows[s].prev = prev
    BY <1>2, <1>3, <1>4
  <1> HIDE DEF prev
  <1>6. rows[s].hash = EventHash(prev, Record(s, rows[s].event))
    BY <1>2, <1>5
  <1> QED
    BY <1>5, <1>6 DEF prev

\* A reader that verifies the ledger, at any moment and among any number of
\* writers, finds the chain valid (events.verify_chain).
THEOREM LedgerVerifies == Spec => []ChainVerifies
  BY LedgerInvariant, ChainedVerifies, PTL

\* The rows are numbered without a gap, and an append that raised left none.
THEOREM LedgerSequenced == Spec => []Sequenced
  <1>1. ASSUME LedgerInv PROVE Sequenced
    <2>1. Len(rows) \in Nat /\ DOMAIN rows = 1..Len(rows)
      BY <1>1 DEF LedgerInv, TypeOK
    <2>2. \A s \in DOMAIN rows : s = 1 \/ s - 1 \in DOMAIN rows
      BY <2>1
    <2> QED
      BY <1>1, <2>2 DEF LedgerInv, EventsOnce, Sequenced
  <1> QED
    BY <1>1, LedgerInvariant, PTL

\* Rewriting the content of row s breaks the hash of that row.
LEMMA EditBreaks ==
  ASSUME LedgerInv, NEW s \in DOMAIN rows, NEW e \in Events, e # rows[s].event
  PROVE  ~ VerifyChain([rows EXCEPT ![s].event = e])
  <1> DEFINE table == [rows EXCEPT ![s].event = e]
             before == {p \in DOMAIN table : p < s}
             prev == IF before = {} THEN Genesis ELSE table[Newest(before)].hash
  <1>1. Len(rows) \in Nat /\ DOMAIN rows = 1..Len(rows) /\ s \in Nat
    BY DEF LedgerInv, TypeOK
  <1>2. rows[s] \in Row
    BY DEF LedgerInv, TypeOK
  <1>3. DOMAIN table = DOMAIN rows /\ table[s].event = e
        /\ table[s].prev = rows[s].prev /\ table[s].hash = rows[s].hash
    BY <1>2 DEF Row
  <1>4. rows[s].hash = EventHash(rows[s].prev, Record(s, rows[s].event))
    BY DEF LedgerInv, Chained
  <1>5. EventHash(rows[s].prev, Record(s, rows[s].event)) # EventHash(rows[s].prev, Record(s, e))
    <2>1. Record(s, rows[s].event) \in Records /\ Record(s, e) \in Records
          /\ rows[s].prev \in Hashes
      BY <1>1, <1>2 DEF Record, Records, Row
    <2>2. Record(s, rows[s].event) # Record(s, e)
      BY DEF Record
    <2> QED
      BY <2>1, <2>2, HashInjective
  <1> HIDE DEF table
  <1>6. VerifyChain(table) => table[s].prev = prev /\ table[s].hash = EventHash(prev, Record(s, table[s].event))
    BY <1>3 DEF VerifyChain
  <1>7. ~ VerifyChain(table)
    BY <1>3, <1>4, <1>5, <1>6
  <1> QED
    BY <1>7 DEF table

\* Removing row s leaves the next one pointing to a hash that is gone.
LEMMA RemovalBreaks ==
  ASSUME LedgerInv, NEW s \in DOMAIN rows, s # Len(rows)
  PROVE  ~ VerifyChain([p \in DOMAIN rows \ {s} |-> rows[p]])
  <1> DEFINE table == [p \in DOMAIN rows \ {s} |-> rows[p]]
             before == {p \in DOMAIN table : p < s + 1}
             prev == IF before = {} THEN Genesis ELSE table[Newest(before)].hash
  <1>1. Len(rows) \in Nat /\ DOMAIN rows = 1..Len(rows) /\ s \in Nat
    BY DEF LedgerInv, TypeOK
  <1>2. s + 1 \in DOMAIN rows /\ s + 1 \in DOMAIN table /\ table[s + 1] = rows[s + 1]
    BY <1>1
  <1>3. before = 1..(s - 1)
    BY <1>1
  <1>4. prev = HashAt(s - 1)
    <2>1. CASE s = 1
      BY <1>3, <2>1 DEF HashAt
    <2>2. CASE s # 1
      <3>1. s - 1 \in Nat /\ s - 1 # 0 /\ s - 1 \in 1..(s - 1)
            /\ s - 1 \in DOMAIN table /\ table[s - 1] = rows[s - 1]
        BY <1>1, <2>2
      <3> HIDE DEF before, table
      <3>2. Newest(before) = s - 1 /\ before # {}
        BY <1>3, <3>1, NewestUpTo
      <3> QED
        BY <3>1, <3>2 DEF HashAt
    <2> QED
      BY <2>1, <2>2
  <1>5. rows[s].hash # HashAt(s - 1)
    <2>1. rows[s] \in Row
      BY DEF LedgerInv, TypeOK
    <2>2. rows[s].prev \in Hashes /\ Record(s, rows[s].event) \in Records
      BY <1>1, <2>1 DEF Row, Record, Records
    <2>3. rows[s].prev = HashAt(s - 1)
          /\ rows[s].hash = EventHash(rows[s].prev, Record(s, rows[s].event))
      BY DEF LedgerInv, Chained
    <2> QED
      BY <2>2, <2>3, HashGrows
  <1>6. rows[s + 1].prev = rows[s].hash
    <2>1. rows[s + 1].prev = HashAt((s + 1) - 1)
      BY <1>2 DEF LedgerInv, Chained
    <2> QED
      BY <1>1, <2>1 DEF HashAt
  <1>7. VerifyChain(table) => table[s + 1].prev = prev
    BY <1>2 DEF VerifyChain
  <1> QED
    BY <1>2, <1>4, <1>5, <1>6, <1>7

\* No row can be rewritten, and none but the last removed, without verify_chain
\* seeing it.
THEOREM LedgerTamperEvident == Spec => []TamperEvident
  <1>1. LedgerInv => TamperEvident
    BY EditBreaks, RemovalBreaks DEF TamperEvident
  <1> QED
    BY <1>1, LedgerInvariant, PTL

\* A call raises RuntimeError only after AppendRetries other appends succeeded.
THEOREM LedgerRaisesOnlyContended == Spec => RaisesOnlyContended
  <1>1. LedgerInv /\ [Next]_vars
          => [\A w \in Writers : Event(w) \in raised' \ raised
                => Len(rows) >= started[w] + AppendRetries]_vars
    <2> SUFFICES ASSUME LedgerInv, Next, NEW w \in Writers, Event(w) \in raised', Event(w) \notin raised
                 PROVE  Len(rows) >= started[w] + AppendRetries
      OBVIOUS
    <2>1. PICK v \in Writers : GiveUp(v)
      BY DEF Next, Begin, ReadLast, Insert, Collide, Lost
    <2>2. v = w
      BY <2>1 DEF GiveUp, Event
    <2>3. /\ Len(rows) \in Nat /\ last[w].seq + 1 <= Len(rows)
          /\ started[w] + tries[w] <= last[w].seq
          /\ tries[w] + 1 = AppendRetries
      BY <2>1, <2>2 DEF GiveUp, LedgerInv, TypeOK, ReadSound, NextSeq
    <2>4. started[w] \in Nat /\ tries[w] \in Nat /\ last[w].seq \in Nat
      BY DEF LedgerInv, TypeOK
    <2> QED
      BY <2>3, <2>4
  <1> QED
    BY <1>1, LedgerInvariant, PTL DEF Spec, RaisesOnlyContended

-----------------------------------------------------------------------------
(* Refinement. *)

\* An insert appends its event to the log of the contract.
LEMMA InsertRecords ==
  ASSUME LedgerInv, NEW w \in Writers, Insert(w)
  PROVE  Contract!Next
  <1> DEFINE log == [s \in DOMAIN rows |-> rows[s].event]
             after == [s \in DOMAIN rows' |-> rows'[s].event]
  <1>1. rows' = Append(rows, NewRow(w)) /\ NewRow(w) \in Row
    BY InsertAppends
  <1>2. rows \in Seq(Row) /\ Len(rows) \in Nat
    BY DEF LedgerInv, TypeOK
  <1>3. NewRow(w).event = Event(w) /\ Event(w) \in Events
    BY <1>1 DEF NewRow, Row
  <1>4. log \in Seq(Events) /\ Len(log) = Len(rows)
    <2>1. DOMAIN rows = 1..Len(rows) /\ \A s \in DOMAIN rows : rows[s].event \in Events
      BY RowsTyped DEF LedgerInv
    <2> QED
      BY <1>2, <2>1
  <1>5. after = Append(log, Event(w))
    BY <1>1, <1>2, <1>3, <1>4
  <1>6. \A s \in DOMAIN log : log[s] # Event(w)
    BY DEF LedgerInv, EventsOnce, Insert
  <1>7. PICK e \in Events : e = Event(w)
    BY <1>3
  <1>8. Contract!Record(e)
    BY <1>5, <1>6, <1>7 DEF Contract!Record
  <1> QED
    BY <1>8 DEF Contract!Next

\* The ledger implements its contract: an append-only log without duplicates.
THEOREM LedgerImplementsContract == Spec => ImplementsContract
  <1>1. Init => Contract!Init
    BY DEF Init, Contract!Init
  <1>2. LedgerInv /\ [Next]_vars => [Contract!Next]_[s \in DOMAIN rows |-> rows[s].event]
    <2> SUFFICES ASSUME LedgerInv, [Next]_vars, rows' # rows
                 PROVE  Contract!Next
      OBVIOUS
    <2>1. PICK w \in Writers : Insert(w)
      BY DEF Next, Begin, ReadLast, Collide, GiveUp, Lost, vars
    <2> QED
      BY <2>1, InsertRecords
  <1> QED
    BY <1>1, <1>2, LedgerInvariant, PTL DEF Spec, ImplementsContract, Contract!Spec
=============================================================================
