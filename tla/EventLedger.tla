----------------------------- MODULE EventLedger -----------------------------
(***************************************************************************)
(* The hash-chained ledger of one verification session                     *)
(* (contestiq_api/skilltrace/events.py).  Writers append concurrently:     *)
(* each reads the last row, then inserts the next one under the constraint *)
(* UNIQUE (session_id, seq); the loser of a race reads again, AppendRetries *)
(* times at most.  The read and the insert are two steps: the SELECT       *)
(* commits by itself before the INSERT opens its transaction.              *)
(*                                                                         *)
(* SHA-256 is taken to be free of collisions: a hash is what was hashed.   *)
(***************************************************************************)
EXTENDS Naturals, Sequences

CONSTANTS
  Writers,         \* requests that append to the session
  AppendRetries,   \* _APPEND_RETRIES
  MaxCalls         \* bound: calls of append by one writer

ASSUME LedgerAssumption ==
  /\ AppendRetries \in Nat \ {0}
  /\ MaxCalls \in Nat

\* An event_id, with the content that goes with it; a new one for each call.
Events == [writer : Writers, call : 1..MaxCalls]

\* Mutant of Record: the content is left out of the hash.
RecordBare(seq, event) == [seq |-> seq, event |-> CHOOSE e \in Events : TRUE]

\* The part of a row that its hash covers, and the hash.
Record(seq, event) == [seq |-> seq, event |-> event]
Records == [seq : Nat, event : Events]

Genesis == <<>>
EventHash(prev, record) == Append(prev, record)
Hashes == Seq(Records)

Row == [event : Events, prev : Hashes, hash : Hashes]

VARIABLES
  rows,      \* session_events of the session, by seq
  pc,
  calls,     \* calls made by each writer
  tries,     \* collisions of the current call
  last,      \* seq and event_hash of the last row, as read
  started,   \* history: the length of the ledger when the current call began
  raised     \* history: events whose append raised RuntimeError

vars == <<rows, pc, calls, tries, last, started, raised>>

Nothing == [seq |-> 0, hash |-> Genesis]

Init ==
  /\ rows = <<>>
  /\ pc = [w \in Writers |-> "idle"]
  /\ calls = [w \in Writers |-> 0]
  /\ tries = [w \in Writers |-> 0]
  /\ last = [w \in Writers |-> Nothing]
  /\ started = [w \in Writers |-> 0]
  /\ raised = {}

-----------------------------------------------------------------------------
Newest(seqs) == CHOOSE s \in seqs : \A p \in seqs : p <= s

\* SELECT seq, event_hash ... ORDER BY seq DESC LIMIT 1
LastRow ==
  IF DOMAIN rows = {}
  THEN Nothing
  ELSE LET s == Newest(DOMAIN rows) IN [seq |-> s, hash |-> rows[s].hash]

Event(w) == [writer |-> w, call |-> calls[w]]

\* The row that writer w is about to insert.
NextSeq(w) == last[w].seq + 1
NewRow(w) ==
  [event |-> Event(w),
   prev  |-> last[w].hash,
   hash  |-> EventHash(last[w].hash, Record(NextSeq(w), Event(w)))]

Begin(w) ==
  /\ pc[w] = "idle"
  /\ calls[w] < MaxCalls
  /\ pc' = [pc EXCEPT ![w] = "read"]
  /\ calls' = [calls EXCEPT ![w] = @ + 1]
  /\ tries' = [tries EXCEPT ![w] = 0]
  /\ started' = [started EXCEPT ![w] = Len(rows)]
  /\ UNCHANGED <<rows, last, raised>>

ReadLast(w) ==
  /\ pc[w] = "read"
  /\ pc' = [pc EXCEPT ![w] = "insert"]
  /\ last' = [last EXCEPT ![w] = LastRow]
  /\ UNCHANGED <<rows, calls, tries, started, raised>>

\* Mutant of Insert: INSERT OR REPLACE.
InsertReplacing(w) ==
  /\ pc[w] = "insert"
  /\ rows' = [s \in DOMAIN rows \cup {NextSeq(w)} |->
                IF s = NextSeq(w) THEN NewRow(w) ELSE rows[s]]
  /\ pc' = [pc EXCEPT ![w] = "idle"]
  /\ UNCHANGED <<calls, tries, last, started, raised>>

Insert(w) ==
  /\ pc[w] = "insert"
  /\ NextSeq(w) \notin DOMAIN rows
  /\ rows' = [s \in DOMAIN rows \cup {NextSeq(w)} |->
                IF s = NextSeq(w) THEN NewRow(w) ELSE rows[s]]
  /\ pc' = [pc EXCEPT ![w] = "idle"]
  /\ UNCHANGED <<calls, tries, last, started, raised>>

\* Mutant of Collide: the number is recomputed, the last hash is not read again.
CollideBump(w) ==
  /\ pc[w] = "insert"
  /\ NextSeq(w) \in DOMAIN rows
  /\ tries[w] + 1 < AppendRetries
  /\ last' = [last EXCEPT ![w].seq = @ + 1]
  /\ tries' = [tries EXCEPT ![w] = @ + 1]
  /\ UNCHANGED <<rows, pc, calls, started, raised>>

\* IntegrityError: another writer took the seq.
Collide(w) ==
  /\ pc[w] = "insert"
  /\ NextSeq(w) \in DOMAIN rows
  /\ tries[w] + 1 < AppendRetries
  /\ pc' = [pc EXCEPT ![w] = "read"]
  /\ tries' = [tries EXCEPT ![w] = @ + 1]
  /\ UNCHANGED <<rows, calls, last, started, raised>>

\* Mutant of GiveUp: the first collision is final.
GiveUpAtOnce(w) ==
  /\ pc[w] = "insert"
  /\ NextSeq(w) \in DOMAIN rows
  /\ pc' = [pc EXCEPT ![w] = "idle"]
  /\ raised' = raised \cup {Event(w)}
  /\ UNCHANGED <<rows, calls, tries, last, started>>

GiveUp(w) ==
  /\ pc[w] = "insert"
  /\ NextSeq(w) \in DOMAIN rows
  /\ tries[w] + 1 = AppendRetries
  /\ pc' = [pc EXCEPT ![w] = "idle"]
  /\ raised' = raised \cup {Event(w)}
  /\ UNCHANGED <<rows, calls, tries, last, started>>

\* The process is killed, or SQLite raises an error that append does not catch.
Lost(w) ==
  /\ pc[w] # "idle"
  /\ pc' = [pc EXCEPT ![w] = "idle"]
  /\ UNCHANGED <<rows, calls, tries, last, started, raised>>

Next ==
  \E w \in Writers :
    \/ Begin(w)
    \/ ReadLast(w)
    \/ Insert(w)
    \/ Collide(w)
    \/ GiveUp(w)
    \/ Lost(w)

Spec == Init /\ [][Next]_vars

-----------------------------------------------------------------------------
(* Properties *)

\* What verify_chain computes of a table: each row in the order of seq points to
\* the hash of the row before it, and its own hash covers its content.
VerifyChain(table) ==
  \A s \in DOMAIN table :
    LET before == {p \in DOMAIN table : p < s}
        prev == IF before = {} THEN Genesis ELSE table[Newest(before)].hash
    IN  /\ table[s].prev = prev
        /\ table[s].hash = EventHash(prev, Record(s, table[s].event))

TypeOK ==
  /\ rows \in Seq(Row)
  /\ pc \in [Writers -> {"idle", "read", "insert"}]
  /\ calls \in [Writers -> 0..MaxCalls]
  /\ tries \in [Writers -> 0..AppendRetries]
  /\ last \in [Writers -> [seq : Nat, hash : Hashes]]
  /\ started \in [Writers -> Nat]
  /\ raised \subseteq Events

\* Whatever the interleaving of its writers, a reader that verifies the ledger
\* at any moment finds the chain valid (events.verify_chain, on which the badge
\* decision depends).
ChainVerifies == VerifyChain(rows)

\* The rows are numbered from 1 without a gap, and an append that raised has
\* left no row (the retry loop of events.append).
Sequenced ==
  \A s \in DOMAIN rows :
    /\ s = 1 \/ s - 1 \in DOMAIN rows
    /\ rows[s].event \notin raised

\* Rewriting the content of any row, or removing any row but the last, is seen
\* by verify_chain ("any tampering breaks verify_chain()", events.py).
TamperEvident ==
  \A s \in DOMAIN rows :
    /\ \A e \in Events :
         e # rows[s].event => ~ VerifyChain([rows EXCEPT ![s].event = e])
    /\ s # Len(rows) => ~ VerifyChain([p \in DOMAIN rows \ {s} |-> rows[p]])

\* The retries are optimistic but not in vain: a call that raises has seen
\* AppendRetries other events recorded since it began.
RaisesOnlyContended ==
  [][\A w \in Writers : Event(w) \in raised' \ raised
       => Len(rows) >= started[w] + AppendRetries]_vars

\* The ledger implements the log of its contract.
Contract == INSTANCE LedgerContract WITH log <- [s \in DOMAIN rows |-> rows[s].event]
ImplementsContract == Contract!Spec

-----------------------------------------------------------------------------
(* What the proofs need besides. *)

HashAt(s) == IF s = 0 THEN Genesis ELSE rows[s].hash

\* Each row continues the one before it.
Chained ==
  \A s \in DOMAIN rows :
    /\ rows[s].prev = HashAt(s - 1)
    /\ rows[s].hash = EventHash(rows[s].prev, Record(s, rows[s].event))

\* What a writer has read of the last row is still in the table, and every
\* collision it has counted is an event recorded since it began.
ReadSound ==
  \A w \in Writers :
    /\ pc[w] # "idle" => started[w] + tries[w] <= Len(rows) /\ tries[w] < AppendRetries
    /\ pc[w] = "insert" =>
         /\ last[w].seq \in 0..Len(rows)
         /\ last[w].hash = HashAt(last[w].seq)
         /\ started[w] + tries[w] <= last[w].seq

\* An event_id is used by one call, and is in the ledger only if that call has
\* inserted it.
EventsOnce ==
  /\ \A s \in DOMAIN rows : rows[s].event.call <= calls[rows[s].event.writer]
  /\ \A e \in raised : e.call <= calls[e.writer]
  /\ \A w \in Writers : pc[w] # "idle" =>
       /\ calls[w] \in 1..MaxCalls
       /\ Event(w) \notin raised
       /\ \A s \in DOMAIN rows : rows[s].event # Event(w)
  /\ \A s, p \in DOMAIN rows : rows[s].event = rows[p].event => s = p
  /\ \A s \in DOMAIN rows : rows[s].event \notin raised

LedgerInv == TypeOK /\ Chained /\ ReadSound /\ EventsOnce

=============================================================================
