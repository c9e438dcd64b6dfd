--------------------------- MODULE StatementQueue ---------------------------
(***************************************************************************)
(* The queue through which missing problem statements are fetched          *)
(* (contestiq_api/cfdata/store.py, statement_ingest.py, routes/relay.py,   *)
(* routes/admin.py, and the embedded relay of main.py).  Relays prime the  *)
(* queue, lease a job, fetch its page and hand it in; the embedded relay   *)
(* does the same inside the server; an administrator ingests a page or a   *)
(* batch without a lease; and an import of the problem archive overwrites  *)
(* statements, or takes them away, beside all of them.  A SELECT that      *)
(* precedes the first write of its block is a step of its own, and the     *)
(* write does not repeat its test.                                         *)
(*                                                                         *)
(* The page of a problem is abstracted to what the handlers tell apart: it *)
(* is refused, it is gone, it parses (wholly or in part), or it does not.  *)
(* A row counts its attempts up to MaxAttempts, beyond which nothing       *)
(* distinguishes them.  A request leases one job (LIMIT 1).                *)
(***************************************************************************)
EXTENDS Naturals, FiniteSets

CONSTANTS
  NumProblems,   \* problems 1..NumProblems; the newest contest has the greatest
  Relays,        \* remote relays, each with its relay_id
  Embedded,      \* the embedded relay of the server: one or none
  Admins,        \* administrators' requests
  MaxAttempts,   \* statement_ingest_max_attempts
  None

Actors == Relays \cup Embedded \cup Admins

ASSUME QueueAssumption ==
  /\ NumProblems \in Nat \ {0}
  /\ MaxAttempts \in Nat \ {0}
  /\ Relays \cap Embedded = {} /\ Admins \cap (Relays \cup Embedded) = {}
  /\ None \notin Actors

Problems == 1..NumProblems

VARIABLES
  row,        \* statement_ingest_queue
  statement,  \* problem_statements, by what ingestion makes of them: see Statements
  pc,         \* where each actor is
  job,        \* the problem it works on
  found,      \* what its fetch, its ingestion or its bump has found
  read,       \* what it has read before writing
  dropped,    \* history: problems whose handling was cut short
  withdrawn   \* history: actors whose statement an import took away before they finish

vars == <<row, statement, pc, job, found, read, dropped, withdrawn>>

Statuses == {"absent", "pending", "processing", "retrying", "succeeded", "partial", "failed"}
\* There is none to display; one that ingestion replaces (of its page, or partial); one of
\* another source, which it leaves alone; or one marked display_ready without its text,
\* which priming takes for missing and ingestion leaves alone (_classify, "raw_only").
Statements == {"missing", "page", "other", "raw"}
Rows == [status : Statuses, tried : 0..MaxAttempts, due : BOOLEAN,
         lease : {"none", "live", "late"}, by : Actors \cup {None}]
NoRow == [status |-> "absent", tried |-> 0, due |-> TRUE, lease |-> "none", by |-> None]

\* What is read: the problems to be enqueued, and whether the first has no row.
NothingRead == [missing |-> {}, absent |-> FALSE]

Init ==
  /\ row = [p \in Problems |-> NoRow]
  /\ statement = [p \in Problems |-> "missing"]
  /\ pc = [a \in Actors |-> "idle"]
  /\ job = [a \in Actors |-> 0]
  /\ found = [a \in Actors |-> "nothing"]
  /\ read = [a \in Actors |-> NothingRead]
  /\ dropped = {}
  /\ withdrawn = {}

-----------------------------------------------------------------------------
Goto(a, label) == pc' = [pc EXCEPT ![a] = label]

\* The request is over.
Leave(a) ==
  /\ pc' = [pc EXCEPT ![a] = "idle"]
  /\ job' = [job EXCEPT ![a] = 0]
  /\ found' = [found EXCEPT ![a] = "nothing"]
  /\ read' = [read EXCEPT ![a] = NothingRead]

\* list_non_display_ready_problem_ids
Missing == {p \in Problems : statement[p] \in {"missing", "raw"}}

\* The rows that enqueue_statement_ingest inserts, or puts back when asked.
Writes(p) ==
  \/ row[p].status \in {"absent", "failed", "partial"}
  \/ row[p].status = "succeeded" /\ p \in Missing

\* What it writes; a lease is left as it is.
Pending(p) == [row[p] EXCEPT !.status = "pending", !.due = TRUE]

First(ps) == CHOOSE p \in ps : \A q \in ps : p <= q

-----------------------------------------------------------------------------
(* Priming the queue: enqueue_statement_ingest.  The rows are read up to the *)
(* first that is written; from there on the block is one transaction.        *)

\* The first problem of ps whose row is to be written, and its row.
ReadRows(a, ps) ==
  LET written == {p \in ps : Writes(p)} IN
  IF written = {}
  THEN /\ Goto(a, IF a \in Admins THEN "reclaim" ELSE "expire")
       /\ UNCHANGED <<job, read>>
  ELSE /\ Goto(a, "enqueue")
       /\ job' = [job EXCEPT ![a] = First(written)]
       /\ read' = [read EXCEPT ![a] = [missing |-> ps, absent |-> row[First(written)].status = "absent"]]

\* jobs/next, and the loop of the embedded relay.
Prime(a) ==
  /\ a \notin Admins
  /\ pc[a] = "idle"
  /\ ReadRows(a, Missing)
  /\ UNCHANGED <<row, statement, found, dropped, withdrawn>>

\* The row that was read as absent may be there by now: the INSERT fails.  The UPDATE of
\* another does not repeat the tests of what was read.
Enqueue(a) ==
  LET p == job[a] IN
  /\ pc[a] = "enqueue"
  /\ IF read[a].absent /\ row[p].status # "absent"
     THEN Leave(a) /\ UNCHANGED row
     ELSE /\ row' = [q \in Problems |->
                       IF q = p \/ (q \in read[a].missing /\ q > p /\ Writes(q))
                       THEN Pending(q) ELSE row[q]]
          /\ Goto(a, IF a \in Admins THEN "reclaim" ELSE "expire")
          /\ job' = [job EXCEPT ![a] = IF a \in Admins THEN @ ELSE 0]
          /\ read' = [read EXCEPT ![a] = NothingRead]
          /\ UNCHANGED found
  /\ UNCHANGED <<statement, dropped, withdrawn>>

-----------------------------------------------------------------------------
(* Leasing: lease_next_statement_jobs, claim_statement_ingest_batch. *)

\* Mutant of Expire: an abandoned lease is cleared, its row left in processing.
ExpireLease(a) ==
  /\ pc[a] = "expire"
  /\ row' = [p \in Problems |->
               IF row[p].status = "processing" /\ row[p].lease = "late"
               THEN [row[p] EXCEPT !.lease = "none", !.by = None]
               ELSE row[p]]
  /\ Goto(a, "select")
  /\ UNCHANGED <<statement, job, found, read, dropped, withdrawn>>

\* Mutant of Expire: nothing brings an abandoned lease back.
ExpireNothing(a) ==
  /\ pc[a] = "expire"
  /\ Goto(a, "select")
  /\ UNCHANGED <<row, statement, job, found, read, dropped, withdrawn>>

\* Abandoned leases go back to retrying: their attempts are not zero.
Expire(a) ==
  /\ pc[a] = "expire"
  /\ row' = [p \in Problems |->
               IF row[p].status = "processing" /\ row[p].lease = "late"
               THEN [row[p] EXCEPT !.status = "retrying", !.lease = "none", !.by = None]
               ELSE row[p]]
  /\ Goto(a, "select")
  /\ UNCHANGED <<statement, job, found, read, dropped, withdrawn>>

Leasable == {p \in Problems : /\ row[p].status \in {"pending", "retrying"}
                              /\ row[p].due
                              /\ row[p].lease # "live"}

\* SELECT ... ORDER BY priority_contest_id DESC LIMIT 1
Select(a) ==
  /\ pc[a] = "select"
  /\ IF Leasable = {}
     THEN Leave(a)
     ELSE /\ job' = [job EXCEPT ![a] = CHOOSE p \in Leasable : \A q \in Leasable : q <= p]
          /\ Goto(a, "claim")
          /\ UNCHANGED <<found, read>>
  /\ UNCHANGED <<row, statement, dropped, withdrawn>>

\* The UPDATE of a claim tests the problem_id only.
Claimed(p, a) ==
  [row EXCEPT ![p] =
     [row[p] EXCEPT !.status = "processing",
                    !.tried = IF row[p].tried < MaxAttempts THEN row[p].tried + 1 ELSE row[p].tried,
                    !.lease = IF a \in Admins THEN "none" ELSE "live",
                    !.by = IF a \in Admins THEN None ELSE a]]

Claim(a) ==
  /\ pc[a] = "claim"
  /\ row' = Claimed(job[a], a)
  /\ Goto(a, IF a \in Admins THEN "ingest" ELSE "fetch")
  /\ UNCHANGED <<statement, job, found, read, dropped, withdrawn>>

-----------------------------------------------------------------------------
(* Fetching, and handing the result in. *)

\* The page is there; it is refused for now; or it is gone for good.
Fetch(a) ==
  /\ pc[a] = "fetch"
  /\ \E outcome \in {"page", "refused", "gone"} : found' = [found EXCEPT ![a] = outcome]
  /\ Goto(a, "record")
  /\ UNCHANGED <<row, statement, job, read, dropped, withdrawn>>

FetchPage(a) == Fetch(a) /\ found'[a] = "page"

\* record_statement_job_result reads who holds the lease.  A remote relay is
\* turned away; the embedded relay does not look at the answer.
RecordRead(a) ==
  LET held == row[job[a]].by \notin {a, None} /\ row[job[a]].lease = "live" IN
  /\ pc[a] = "record"
  /\ IF ~ held THEN Goto(a, "clear") /\ UNCHANGED <<job, found, read>>
     ELSE IF a \in Relays THEN Leave(a)
     ELSE /\ Goto(a, CASE found[a] = "page" -> "ingest"
                       [] found[a] = "gone" -> "finish"
                       [] OTHER -> "bump")
          /\ UNCHANGED <<job, found, read>>
  /\ UNCHANGED <<row, statement, dropped, withdrawn>>

\* ... and clears it, whoever holds it by now.
RecordWrite(a) ==
  /\ pc[a] = "clear"
  /\ row' = [row EXCEPT ![job[a]] = [@ EXCEPT !.lease = "none", !.by = None]]
  /\ Goto(a, CASE found[a] = "page" /\ a \in Relays -> "reclaim"
               [] found[a] = "page" /\ a \in Embedded -> "ingest"
               [] found[a] = "gone" -> "finish"
               [] OTHER -> "bump")
  /\ UNCHANGED <<statement, job, found, read, dropped, withdrawn>>

\* The explicit claim of one problem, whatever its status and its lease.
Reclaim(a) ==
  /\ pc[a] = "reclaim"
  /\ row' = Claimed(job[a], a)
  /\ Goto(a, "ingest")
  /\ UNCHANGED <<statement, job, found, read, dropped, withdrawn>>

-----------------------------------------------------------------------------
(* Ingesting: ingest_one, and what its caller makes of it. *)

\* A statement from another source, if it is marked display_ready.
Kept(p) == statement[p] \in {"other", "raw"}

\* It is left alone.
Skip(a) ==
  /\ pc[a] = "ingest"
  /\ Kept(job[a])
  /\ found' = [found EXCEPT ![a] = "succeeded"]
  /\ Goto(a, "finish")
  /\ UNCHANGED <<row, statement, job, read, dropped, withdrawn>>

\* ... except by an administrator who forces it.
Store(a) ==
  /\ pc[a] = "ingest"
  /\ ~ Kept(job[a]) \/ a \in Admins
  /\ statement' = [statement EXCEPT ![job[a]] = "page"]
  /\ \E outcome \in {"succeeded", "partial"} : found' = [found EXCEPT ![a] = outcome]
  /\ Goto(a, "finish")
  /\ UNCHANGED <<row, job, read, dropped, withdrawn>>

\* The page does not parse: ingest-html gives the problem up, the other handlers
\* count the failure, and the loop of the embedded relay only logs it.
Unreadable(a) ==
  /\ pc[a] = "ingest"
  /\ ~ Kept(job[a]) \/ a \in Admins
  /\ IF a \in Embedded
     THEN Leave(a) /\ dropped' = dropped \cup {job[a]}
     ELSE LET byPage == a \in Admins /\ found[a] = "page" IN
          /\ Goto(a, IF byPage THEN "finish" ELSE "bump")
          /\ found' = [found EXCEPT ![a] = IF byPage THEN "gone" ELSE "unreadable"]
          /\ UNCHANGED <<job, read, dropped>>
  /\ UNCHANGED <<row, statement, withdrawn>>

\* bump_statement_ingest_failure: retrying, after a delay.  A page that does not
\* parse is finished next: as retrying while attempts remain, and the delay with it.
Bump(a) ==
  LET p == job[a] IN
  /\ pc[a] = "bump"
  /\ row' = [row EXCEPT ![p] = [@ EXCEPT !.status = "retrying", !.due = FALSE]]
  /\ IF found[a] = "unreadable" /\ (a \in Relays \/ row[p].tried = MaxAttempts)
     THEN /\ found' = [found EXCEPT ![a] = IF row[p].tried < MaxAttempts THEN "retrying" ELSE "gone"]
          /\ Goto(a, "finish")
          /\ UNCHANGED <<job, read>>
     ELSE Leave(a)
  /\ UNCHANGED <<statement, dropped, withdrawn>>

\* Mutant of Finish: the row is called done though its page is gone.
FinishStored(a) ==
  LET status == IF found[a] = "gone" THEN "succeeded" ELSE found[a] IN
  /\ pc[a] = "finish"
  /\ row' = [row EXCEPT ![job[a]] = [@ EXCEPT !.status = status, !.due = TRUE]]
  /\ Leave(a)
  /\ withdrawn' = withdrawn \ {a}
  /\ UNCHANGED <<statement, dropped>>

\* Mutant of Finish: what was found is written as the status, whatever it is.
FinishAsFound(a) ==
  /\ pc[a] = "finish"
  /\ row' = [row EXCEPT ![job[a]] = [@ EXCEPT !.status = found[a], !.due = TRUE]]
  /\ Leave(a)
  /\ withdrawn' = withdrawn \ {a}
  /\ UNCHANGED <<statement, dropped>>

\* finish_statement_ingest: the lease is left as it is.
Finish(a) ==
  LET status == IF found[a] = "gone" THEN "failed" ELSE found[a] IN
  /\ pc[a] = "finish"
  /\ row' = [row EXCEPT ![job[a]] = [@ EXCEPT !.status = status, !.due = TRUE]]
  /\ Leave(a)
  /\ withdrawn' = withdrawn \ {a}
  /\ UNCHANGED <<statement, dropped>>

-----------------------------------------------------------------------------
(* The administrator. *)

\* ingest-html: one problem is enqueued, then claimed by name.
AdminPage(a, p) ==
  /\ a \in Admins
  /\ pc[a] = "idle"
  /\ IF Writes(p)
     THEN /\ Goto(a, "enqueue")
          /\ read' = [read EXCEPT ![a] = [missing |-> {p}, absent |-> row[p].status = "absent"]]
     ELSE Goto(a, "reclaim") /\ UNCHANGED read
  /\ job' = [job EXCEPT ![a] = p]
  /\ found' = [found EXCEPT ![a] = "page"]
  /\ UNCHANGED <<row, statement, dropped, withdrawn>>

\* process_statement_ingest_batch: what is due, without a lease.
AdminBatch(a) ==
  /\ a \in Admins
  /\ pc[a] = "idle"
  /\ Goto(a, "select")
  /\ UNCHANGED <<row, statement, job, found, read, dropped, withdrawn>>

-----------------------------------------------------------------------------
(* Time, other sources, and failures. *)

Done == {"succeeded", "partial"}

\* The actor is about to write that the statement of p is stored.
Reports(a, p) == job[a] = p /\ pc[a] = "finish" /\ found[a] \in Done

\* lease_seconds have passed.  Nothing reads whose a late lease was.
LeaseEnds(p) ==
  /\ row[p].lease = "live"
  /\ row' = [row EXCEPT ![p].lease = "late", ![p].by = None]
  /\ UNCHANGED <<statement, pc, job, found, read, dropped, withdrawn>>

\* next_attempt_at is reached.
DelayEnds(p) ==
  /\ ~ row[p].due
  /\ row' = [row EXCEPT ![p].due = TRUE]
  /\ UNCHANGED <<statement, pc, job, found, read, dropped, withdrawn>>

\* An import of the archive overwrites whatever differs from it, with whatever it holds:
\* it may take a statement away that an actor has seen stored and is about to report.
Import(p) ==
  /\ \E new \in Statements \ {statement[p]} :
       /\ statement' = [statement EXCEPT ![p] = new]
       /\ withdrawn' = IF new = "missing"
                       THEN withdrawn \cup {a \in Actors : Reports(a, p)}
                       ELSE withdrawn
  /\ UNCHANGED <<row, pc, job, found, read, dropped>>

\* A relay gives its job up: it stops, or its answer is lost on the way.  What is cut
\* short before its first write, or before its answer is there, leaves no trace: that it
\* stops after its fetch is no different, and elsewhere it is not modelled.
GiveUp(a) ==
  /\ a \notin Admins
  /\ pc[a] = "fetch"
  /\ Leave(a)
  /\ UNCHANGED <<row, statement, dropped, withdrawn>>

\* Past its claim, a handler has no lease that expires, or has just cleared it: a stop
\* of the process, or a database that stays locked, drops the problem.  Bound: once
\* for each problem.
Cut(a) ==
  /\ pc[a] \in {"reclaim", "ingest", "bump", "finish"}
  /\ job[a] \notin dropped
  /\ dropped' = dropped \cup {job[a]}
  /\ Leave(a)
  /\ withdrawn' = withdrawn \ {a}
  /\ UNCHANGED <<row, statement>>

Handle(a) ==
  \/ Prime(a)
  \/ Enqueue(a)
  \/ Expire(a)
  \/ Select(a)
  \/ Claim(a)
  \/ Fetch(a)
  \/ RecordRead(a)
  \/ RecordWrite(a)
  \/ Reclaim(a)
  \/ Skip(a)
  \/ Store(a)
  \/ Unreadable(a)
  \/ Bump(a)
  \/ Finish(a)

Ask(a) ==
  \/ \E p \in Problems : AdminPage(a, p)
  \/ AdminBatch(a)

Next ==
  \/ \E a \in Actors : Handle(a) \/ Ask(a) \/ GiveUp(a) \/ Cut(a)
  \/ \E p \in Problems : LeaseEnds(p) \/ DelayEnds(p) \/ Import(p)

Spec == Init /\ [][Next]_vars

\* A handler that has begun goes on, and time passes; a relay that is idle asks
\* again; and a page that a relay fetches again and again is served at last, and one that
\* is ingested again and again is parsed at last, for one of those who ingest it.
Fairness ==
  /\ \A a \in Actors : WF_vars(Handle(a))
  /\ \A p \in Problems : WF_vars(LeaseEnds(p)) /\ WF_vars(DelayEnds(p))
  /\ \A a \in Relays \cup Embedded, p \in Problems : SF_vars(job[a] = p /\ FetchPage(a))
  /\ \A p \in Problems : SF_vars(\E a \in Actors : job[a] = p /\ Store(a))

FairSpec == Spec /\ Fairness

-----------------------------------------------------------------------------
(* Properties *)

Labels == {"idle", "enqueue", "expire", "select", "claim", "fetch", "record", "clear",
           "reclaim", "ingest", "bump", "finish"}

TypeOK ==
  /\ row \in [Problems -> Rows]
  /\ statement \in [Problems -> Statements]
  /\ pc \in [Actors -> Labels]
  /\ job \in [Actors -> 0..NumProblems]
  /\ found \in [Actors -> {"nothing", "page", "refused", "gone", "unreadable",
                           "succeeded", "partial", "retrying"}]
  /\ read \in [Actors -> [missing : SUBSET Problems, absent : BOOLEAN]]
  /\ dropped \subseteq Problems
  /\ withdrawn \subseteq Actors

\* An actor that will write the row of p before it is done.
Works(a, p) == job[a] = p /\ pc[a] \in {"clear", "reclaim", "ingest", "bump", "finish"}
AtWork(p) == \E a \in Actors : Works(a, p)

\* A problem that is in processing without a lease, from where neither priming nor
\* the expiry of leases brings it back, is being handled at this moment, unless its
\* handling was cut short (store.py, "Expire abandoned leases").
StuckOnlyIfDropped ==
  \A p \in Problems :
    row[p].status = "processing" /\ row[p].lease = "none" => AtWork(p) \/ p \in dropped

\* A row is called done only while there is a statement to display, however many actors
\* lease, clear, claim and finish it at once, unless an import has just taken away the
\* statement that its actor had seen stored (finish_statement_ingest).
DoneWhenStored ==
  [][\A p \in Problems :
       row'[p].status \in Done /\ row[p].status \notin Done =>
         \/ statement'[p] # "missing"
         \/ \E a \in withdrawn : Reports(a, p)]_vars

\* What an actor relies on when it writes: it has a problem in hand, and what it is about
\* to write as the status of the row is one, which stands only for a statement stored.
ActorSound(a) ==
  /\ pc[a] \notin {"idle", "expire", "select"} => job[a] \in Problems
  /\ pc[a] = "finish" =>
       /\ found[a] \in {"gone", "retrying"} \cup Done
       /\ found[a] \in Done => statement[job[a]] # "missing" \/ a \in withdrawn

\* The inductive invariant: types, the property above of abandoned rows, and what
\* DoneWhenStored rests on.
QueueInv ==
  /\ TypeOK
  /\ StuckOnlyIfDropped
  /\ \A a \in Actors : ActorSound(a)

\* No statement stays missing, at first or since an import has taken it away, unless the
\* handling of its problem was cut short.
StoredAtLast ==
  \A p \in Problems : []<>(statement[p] # "missing" \/ p \in dropped)
=============================================================================
