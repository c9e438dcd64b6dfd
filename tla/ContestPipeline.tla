--------------------------- MODULE ContestPipeline ---------------------------
(***************************************************************************)
(* How a finished Codeforces contest gets into the catalogue               *)
(* (contestiq_api/contests/watcher.py, contests/pipeline.py,               *)
(* cfdata/sync.py sync_problemset, and the periodic tasks of main.py).     *)
(* Each server runs a watcher, which polls the contest list, queues what   *)
(* has finished and processes what is queued or has failed; a contest is   *)
(* processed by a sync of the problemset and the indexing of its problems. *)
(* The same sync runs periodically and on request.  One sync is active at  *)
(* a time: a caller that finds an active job returns it.                   *)
(*                                                                         *)
(* Every connect() block is a step, and a SELECT that precedes the first   *)
(* write of its block is a step of its own.  The problems of a contest are *)
(* imported together; the statuses queued and running of a sync job are    *)
(* one, since nothing tells them apart.  Every contest is a recent one.    *)
(***************************************************************************)
EXTENDS Naturals, FiniteSets

CONSTANTS
  Contests,
  Watchers,     \* one for each server
  Syncers,      \* the periodic sync, and requests for one
  BatchLimit,   \* tick_contest_pipelines(limit)
  MaxFaults,    \* bound: threads lost, and calls and steps that fail
  Nil

Threads == Watchers \cup Syncers

ASSUME PipelineAssumption ==
  /\ Nil \notin Contests
  /\ Watchers \cap Syncers = {}
  /\ BatchLimit \in Nat \ {0}
  /\ MaxFaults \in Nat

VARIABLES
  finished,   \* Codeforces: the contests that are over,
  published,  \*   and those whose problems are in its problemset
  cached,     \* the problemset that was last fetched, which the client falls back on
  phase,      \* cf_contests.phase
  status,     \* cf_contests.pipeline_status
  catalog,    \* problems: the contests whose problems are imported
  indexed,    \* the contests whose problems have skill map, similar problems and pack jobs
  syncing,    \* cf_sync_jobs, queued or running: the threads whose job it is
  orphaned,   \*   and whether there is one whose thread was lost
  at,
  todo,       \* the contests a watcher has yet to handle
  this,       \* the one it handles
  fetched,    \* a watcher's contest list, a thread's problemset
  was,        \* the phase a watcher has read
  lost,       \* threads lost so far,
  failed,     \*   and calls and steps that failed
  abandoned   \* history: contests whose processing was lost

codeforces == <<finished, published, cached>>
contests == <<phase, status>>
library == <<catalog, indexed>>
jobs == <<syncing, orphaned>>
locals == <<at, todo, this, fetched, was>>
history == <<lost, failed, abandoned>>
pipelineVars == <<codeforces, contests, library, jobs, locals, history>>

Phases == {"unknown", "before", "FINISHED"}
PipelineStatuses == {"idle", "queued", "running", "complete", "failed"}

PipelineInit ==
  /\ finished = {} /\ published = {} /\ cached = Nil
  /\ phase = [c \in Contests |-> "unknown"]
  /\ status = [c \in Contests |-> "idle"]
  /\ catalog = {} /\ indexed = {}
  /\ syncing = {} /\ orphaned = FALSE
  /\ at = [t \in Threads |-> "idle"]
  /\ todo = [t \in Threads |-> {}]
  /\ this = [t \in Threads |-> Nil]
  /\ fetched = [t \in Threads |-> {}]
  /\ was = [t \in Threads |-> "unknown"]
  /\ lost = 0 /\ failed = 0 /\ abandoned = {}

-----------------------------------------------------------------------------
Advance(t, label) == at' = [at EXCEPT ![t] = label]

\* The watcher goes on at label with the contest it takes from those left, or at
\* after when none is left.
Take(w, left, label, after) ==
  IF left = {}
  THEN /\ Advance(w, after)
       /\ todo' = [todo EXCEPT ![w] = {}]
       /\ this' = [this EXCEPT ![w] = Nil]
  ELSE \E c \in left :
         /\ Advance(w, label)
         /\ todo' = [todo EXCEPT ![w] = left \ {c}]
         /\ this' = [this EXCEPT ![w] = c]

-----------------------------------------------------------------------------
(* poll_contests *)

Poll(w) ==
  /\ w \in Watchers
  /\ at[w] = "idle"
  /\ fetched' = [fetched EXCEPT ![w] = finished]
  /\ Take(w, Contests, "look", "backfill")
  /\ UNCHANGED <<codeforces, contests, library, jobs, was, history>>

Look(w) ==
  /\ at[w] = "look"
  /\ was' = [was EXCEPT ![w] = phase[this[w]]]
  /\ Advance(w, "upsert")
  /\ UNCHANGED <<codeforces, contests, library, jobs, todo, this, fetched, history>>

\* _upsert_contest: the list that was fetched wins.  A contest that is seen finished
\* for the first time is queued, if its pipeline has not begun.
Upsert(w) ==
  LET now == IF this[w] \in fetched[w] THEN "FINISHED" ELSE "before" IN
  /\ at[w] = "upsert"
  /\ phase' = [phase EXCEPT ![this[w]] = now]
  /\ IF now = "FINISHED" /\ was[w] # "FINISHED"
     THEN Advance(w, "check") /\ UNCHANGED <<todo, this>>
     ELSE Take(w, todo[w], "look", "backfill")
  /\ UNCHANGED <<codeforces, status, library, jobs, fetched, was, history>>

Begun == {"queued", "running", "complete"}

\* enqueue_contest_pipeline: the UPDATE does not repeat the test.  A list in hand
\* means that the poll is not over.
Check(w) ==
  /\ at[w] \in {"check", "recheck"}
  /\ IF status[this[w]] \in Begun
     THEN IF at[w] = "check" THEN Take(w, todo[w], "look", "backfill")
                             ELSE Take(w, todo[w], "recheck", "tick")
     ELSE /\ Advance(w, IF at[w] = "check" THEN "queue" ELSE "requeue")
          /\ UNCHANGED <<todo, this>>
  /\ UNCHANGED <<codeforces, contests, library, jobs, fetched, was, history>>

Queue(w) ==
  /\ at[w] \in {"queue", "requeue"}
  /\ status' = [status EXCEPT ![this[w]] = "queued"]
  /\ IF at[w] = "queue" THEN Take(w, todo[w], "look", "backfill")
                        ELSE Take(w, todo[w], "recheck", "tick")
  /\ UNCHANGED <<codeforces, phase, library, jobs, fetched, was, history>>

\* "Catch finished contests stuck in idle."
Backfill(w) ==
  /\ at[w] = "backfill"
  /\ fetched' = [fetched EXCEPT ![w] = {}]
  /\ was' = [was EXCEPT ![w] = "unknown"]
  /\ Take(w, {c \in Contests : phase[c] = "FINISHED" /\ status[c] = "idle"}, "recheck", "tick")
  /\ UNCHANGED <<codeforces, contests, library, jobs, history>>

-----------------------------------------------------------------------------
(* tick_contest_pipelines and process_finished_contest *)

With(s) == {c \in Contests : status[c] = s}
Smaller(m, n) == IF m < n THEN m ELSE n

\* As many of the queued contests as the limit allows.
Tick(w) ==
  /\ at[w] = "tick"
  /\ \E queued \in SUBSET With("queued") :
       /\ Cardinality(queued) = Smaller(BatchLimit, Cardinality(With("queued")))
       /\ todo' = [todo EXCEPT ![w] = queued]
  /\ Advance(w, "retry")
  /\ UNCHANGED <<codeforces, contests, library, jobs, this, fetched, was, history>>

\* Mutant of Retry: failed contests are not retried.
RetryNone(w) ==
  /\ at[w] = "retry"
  /\ Take(w, todo[w], "start", "idle")
  /\ UNCHANGED <<codeforces, contests, library, jobs, fetched, was, history>>

\* ... and one that has failed, if the limit allows it: a SELECT of its own.
Retry(w) ==
  /\ at[w] = "retry"
  /\ \E retried \in SUBSET With("failed") :
       /\ Cardinality(retried) =
            Smaller(Smaller(1, BatchLimit - Cardinality(todo[w])), Cardinality(With("failed")))
       /\ Take(w, todo[w] \cup retried, "start", "idle")
  /\ UNCHANGED <<codeforces, contests, library, jobs, fetched, was, history>>

Start(w) ==
  /\ at[w] = "start"
  /\ status' = [status EXCEPT ![this[w]] = "running"]
  /\ Advance(w, "find")
  /\ UNCHANGED <<codeforces, phase, library, jobs, todo, this, fetched, was, history>>

\* The problems of the contest are listed after the sync, whatever it returned.
List(w) ==
  /\ at[w] = "list"
  /\ Advance(w, IF this[w] \in catalog THEN "index" ELSE "complete")
  /\ UNCHANGED <<codeforces, contests, library, jobs, todo, this, fetched, was, history>>

Index(w) ==
  /\ at[w] = "index"
  /\ indexed' = indexed \cup {this[w]}
  /\ Advance(w, "complete")
  /\ UNCHANGED <<codeforces, contests, catalog, jobs, todo, this, fetched, was, history>>

Fault ==
  /\ lost + failed < MaxFaults
  /\ failed' = failed + 1
  /\ UNCHANGED <<lost, abandoned>>

\* One of the steps that follow the sync raises.
Raise(w) ==
  /\ at[w] \in {"list", "index", "complete"}
  /\ Fault
  /\ Advance(w, "fail")
  /\ UNCHANGED <<codeforces, contests, library, jobs, todo, this, fetched, was>>

\* Mutant of Complete: a contest without problems is left as it is.
CompleteIndexed(w) ==
  /\ at[w] = "complete"
  /\ status' = IF this[w] \in indexed THEN [status EXCEPT ![this[w]] = "complete"] ELSE status
  /\ Take(w, todo[w], "start", "idle")
  /\ UNCHANGED <<codeforces, phase, library, jobs, fetched, was, history>>

Complete(w) ==
  /\ at[w] = "complete"
  /\ status' = [status EXCEPT ![this[w]] = "complete"]
  /\ Take(w, todo[w], "start", "idle")
  /\ UNCHANGED <<codeforces, phase, library, jobs, fetched, was, history>>

Fail(w) ==
  /\ at[w] = "fail"
  /\ status' = [status EXCEPT ![this[w]] = "failed"]
  /\ Take(w, todo[w], "start", "idle")
  /\ UNCHANGED <<codeforces, phase, library, jobs, fetched, was, history>>

-----------------------------------------------------------------------------
(* sync_problemset *)

\* What the caller does after its sync.
Synced(t) == IF t \in Watchers THEN "list" ELSE "idle"

Request(t) ==
  /\ t \in Syncers
  /\ at[t] = "idle"
  /\ Advance(t, "find")
  /\ UNCHANGED <<codeforces, contests, library, jobs, todo, this, fetched, was, history>>

\* find_active_sync_job
Find(t) ==
  /\ at[t] = "find"
  /\ Advance(t, IF orphaned \/ syncing # {} THEN Synced(t) ELSE "create")
  /\ UNCHANGED <<codeforces, contests, library, jobs, todo, this, fetched, was, history>>

Create(t) ==
  /\ at[t] = "create"
  /\ syncing' = syncing \cup {t}
  /\ Advance(t, "fetch")
  /\ UNCHANGED <<codeforces, contests, library, orphaned, todo, this, fetched, was, history>>

FetchProblemset(t) ==
  /\ at[t] = "fetch"
  /\ fetched' = [fetched EXCEPT ![t] = published]
  /\ cached' = published
  /\ Advance(t, "save")
  /\ UNCHANGED <<finished, published, contests, library, jobs, todo, this, was, history>>

\* Codeforces does not answer: the client serves what it fetched last, or raises.
FetchStale(t) ==
  /\ at[t] = "fetch"
  /\ Fault
  /\ IF cached = Nil
     THEN Advance(t, "abort") /\ UNCHANGED fetched
     ELSE Advance(t, "save") /\ fetched' = [fetched EXCEPT ![t] = cached]
  /\ UNCHANGED <<codeforces, contests, library, jobs, todo, this, was>>

\* save_problemset_snapshot "never deletes historical rows".
Save(t) ==
  /\ at[t] = "save"
  /\ catalog' = catalog \cup fetched[t]
  /\ fetched' = [fetched EXCEPT ![t] = {}]
  /\ Advance(t, "end")
  /\ UNCHANGED <<codeforces, contests, indexed, jobs, todo, this, was, history>>

\* Mutant of End: a sync that failed leaves its job running.
EndSuccess(t) ==
  /\ at[t] \in {"end", "abort"}
  /\ syncing' = IF at[t] = "end" THEN syncing \ {t} ELSE syncing
  /\ Advance(t, CASE at[t] = "end" -> Synced(t)
                  [] t \in Watchers -> "fail"
                  [] OTHER -> "idle")
  /\ UNCHANGED <<codeforces, contests, library, orphaned, todo, this, fetched, was, history>>

\* finish_sync_job, with or without an exception that the caller gets.
End(t) ==
  /\ at[t] \in {"end", "abort"}
  /\ syncing' = syncing \ {t}
  /\ Advance(t, CASE at[t] = "end" -> Synced(t)
                  [] t \in Watchers -> "fail"
                  [] OTHER -> "idle")
  /\ UNCHANGED <<codeforces, contests, library, orphaned, todo, this, fetched, was, history>>

-----------------------------------------------------------------------------
ContestEnds(c) ==
  /\ c \notin finished
  /\ finished' = finished \cup {c}
  /\ UNCHANGED <<published, cached, contests, library, jobs, locals, history>>

Publish(c) ==
  /\ c \in finished \ published
  /\ published' = published \cup {c}
  /\ UNCHANGED <<finished, cached, contests, library, jobs, locals, history>>

\* From its start to its end, a watcher holds the contest in process.
SyncLabels == {"find", "create", "fetch", "save", "end", "abort"}
WatchLabels == {"idle", "look", "upsert", "check", "queue", "backfill", "recheck", "requeue",
                "tick", "retry", "start", "list", "index", "complete", "fail"}
Processing(w) == at[w] \in SyncLabels \cup {"list", "index", "complete", "fail"}

\* A process stops, or the database stays locked: nothing closes the job of a sync,
\* or the contest, that was in hand.
Lose(t) ==
  /\ lost + failed < MaxFaults
  /\ at[t] # "idle"
  /\ lost' = lost + 1
  /\ syncing' = syncing \ {t}
  /\ orphaned' = (orphaned \/ t \in syncing)
  /\ abandoned' = IF t \in Watchers /\ Processing(t) THEN abandoned \cup {this[t]} ELSE abandoned
  /\ Advance(t, "idle")
  /\ todo' = [todo EXCEPT ![t] = {}]
  /\ this' = [this EXCEPT ![t] = Nil]
  /\ fetched' = [fetched EXCEPT ![t] = {}]
  /\ was' = [was EXCEPT ![t] = "unknown"]
  /\ UNCHANGED <<codeforces, contests, library, failed>>

Sync(t) == Find(t) \/ Create(t) \/ FetchProblemset(t) \/ FetchStale(t) \/ Save(t) \/ End(t)

Watch(w) ==
  \/ Poll(w) \/ Look(w) \/ Upsert(w) \/ Check(w) \/ Queue(w) \/ Backfill(w)
  \/ Tick(w) \/ Retry(w) \/ Start(w) \/ List(w) \/ Index(w) \/ Raise(w) \/ Complete(w) \/ Fail(w)

PipelineNext ==
  \/ \E w \in Watchers : Watch(w)
  \/ \E t \in Threads : Request(t) \/ Sync(t) \/ Lose(t)
  \/ \E c \in Contests : ContestEnds(c) \/ Publish(c)

PipelineSpec == PipelineInit /\ [][PipelineNext]_pipelineVars

\* The loops of the servers go on.
PipelineFairness ==
  /\ \A w \in Watchers : WF_pipelineVars(Watch(w))
  /\ \A t \in Threads : WF_pipelineVars(Request(t) \/ Sync(t))

FairPipelineSpec == PipelineSpec /\ PipelineFairness

-----------------------------------------------------------------------------
(* Properties *)

PipelineTypeOK ==
  /\ published \subseteq finished /\ finished \subseteq Contests
  /\ cached \in {Nil} \cup SUBSET Contests
  /\ phase \in [Contests -> Phases] /\ status \in [Contests -> PipelineStatuses]
  /\ catalog \subseteq Contests /\ indexed \subseteq Contests
  /\ syncing \subseteq Threads /\ orphaned \in BOOLEAN
  /\ at \in [Threads -> WatchLabels \cup SyncLabels]
  /\ todo \in [Threads -> SUBSET Contests]
  /\ this \in [Threads -> Contests \cup {Nil}]
  /\ fetched \in [Threads -> SUBSET Contests]
  /\ was \in [Threads -> Phases]
  /\ lost \in Nat /\ failed \in Nat /\ lost + failed <= MaxFaults
  /\ abandoned \subseteq Contests

\* An active sync job, which makes every later sync return at once, is in the hands of
\* a thread that will end it, however the syncs of servers and requests overlap and
\* fail; only a thread that is lost leaves one behind.
SyncWorkedOn ==
  /\ \A t \in Threads : t \in syncing <=> at[t] \in {"fetch", "save", "end", "abort"}
  /\ orphaned => lost > 0

\* A running contest, which no watcher takes up again, is processed by one, though two
\* servers may process it at once and one of them has failed or finished it already.
RunningWorkedOn ==
  \A c \in Contests :
    status[c] = "running" =>
      c \in abandoned \/ \E w \in Watchers : this[w] = c /\ Processing(w)

\* Nothing is imported that was not published, nor processed that was not seen finished.
FlowSound ==
  /\ indexed \subseteq catalog /\ catalog \subseteq published
  /\ cached # Nil => cached \subseteq published
  /\ \A c \in Contests :
       /\ phase[c] = "FINISHED" => c \in finished
       /\ status[c] # "idle" => c \in finished

\* What a thread has in hand at each step of its way.
ThreadSound(t) ==
  /\ t \in Syncers => at[t] \in SyncLabels \cup {"idle"}
  /\ t \in Watchers /\ at[t] \notin {"idle", "backfill", "tick", "retry"} => this[t] \in Contests
  /\ t \in Watchers /\ at[t] \notin {"idle", "look", "upsert", "backfill", "tick", "retry"} =>
       this[t] \in finished
  /\ t \in Watchers /\ (Processing(t) \/ at[t] \in {"recheck", "requeue", "retry", "start"}) =>
       todo[t] \subseteq finished
  /\ fetched[t] \subseteq finished
  /\ at[t] = "save" => fetched[t] \subseteq published
  /\ at[t] = "index" => this[t] \in catalog

\* The inductive invariant: types, the two properties above, and what they rest on.
PipelineInv ==
  /\ PipelineTypeOK
  /\ SyncWorkedOn
  /\ RunningWorkedOn
  /\ FlowSound
  /\ \A t \in Threads : ThreadSound(t)

\* Every contest that ends is processed to completion, as long as no thread is lost.
Processed ==
  \A c \in Contests : c \in finished ~> status[c] = "complete" \/ lost > 0

\* "Keep CF_CURRENT a subset of SOLVEX_CATALOG" (main.py): what Codeforces publishes is
\* imported, as long as no thread is lost.
CaughtUp ==
  \A c \in Contests : c \in published ~> c \in catalog \/ lost > 0
=============================================================================
