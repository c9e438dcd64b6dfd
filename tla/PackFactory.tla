----------------------------- MODULE PackFactory -----------------------------
(***************************************************************************)
(* How a problem gets the pack of tests a submission is judged on          *)
(* (contestiq_api/practice_packs/jobs.py, batch.py, pipeline.py, and the   *)
(* built-in packs of duels.py).  A job per problem is leased by workers    *)
(* that run batches; the start of a server, or an administrator, goes      *)
(* through the oracle registry; every request that needs a pack first      *)
(* seeds the built-in ones.  All of them store and activate packs.         *)
(*                                                                         *)
(* A SELECT that precedes the first write of its block is a step of its    *)
(* own.  A problem has at most two packs, the built-in one and the one     *)
(* generated from its oracle; what the generation computes is abstracted   *)
(* to its recommendation, and it may fail at any time.                     *)
(***************************************************************************)
EXTENDS Naturals, FiniteSets

CONSTANTS
  NumProblems,   \* problems 1..NumProblems, in the order of the registry
  Builtin,       \* those with a built-in pack
  Reviewed,      \* those whose generated pack is recommended for review only
  AutoVersion,   \* the version of each generated pack; built-in packs have version 1
  Workers,       \* callers of run_batch
  Name,          \* their worker_id: the watchers of two servers have the same
  Limit,         \* jobs claimed by one batch
  Activators,    \* runs of activate_oracle_packs
  Seeders,       \* runs of seed_builtin_duel_problem_packs
  MaxLapses,     \* bound: leases that lapse while their job is worked on
  MaxLost,       \* bound: threads that are lost
  None

Problems == 1..NumProblems
Names == {Name[w] : w \in Workers}
Threads == Workers \cup Activators \cup Seeders

ASSUME PackAssumption ==
  /\ NumProblems \in Nat /\ Limit \in Nat \ {0}
  /\ Builtin \subseteq Problems /\ Reviewed \subseteq Problems
  /\ AutoVersion \in [Problems -> Nat \ {0}]
  /\ DOMAIN Name = Workers /\ None \notin Names
  /\ Workers \cap Activators = {} /\ Seeders \cap (Workers \cup Activators) = {}
  /\ MaxLapses \in Nat /\ MaxLost \in Nat

VARIABLES
  catalog,   \* problems
  pack,      \* duel_problem_packs: each pack of a problem is absent, stored or active
  job,       \* practice_pack_jobs
  pc,        \* where each thread is
  todo,      \* the problems it has yet to handle; the first is in hand
  outcome,   \* what it has made of the problem in hand
  lapses, lost

counters == <<lapses, lost>>
vars == <<catalog, pack, job, pc, todo, outcome, counters>>

Kinds == {"builtin", "auto"}
Version(p, kind) == IF kind = "builtin" THEN 1 ELSE AutoVersion[p]
Ended == {"active", "review_required", "rejected"}
Jobs == [status : {"absent", "pending", "processing", "retrying"} \cup Ended,
         lease : {"none", "live", "late"}, by : Names \cup {None}]
NoJob == [status |-> "absent", lease |-> "none", by |-> None]

Init ==
  /\ catalog = {}
  /\ pack = [p \in Problems |-> [kind \in Kinds |-> "absent"]]
  /\ job = [p \in Problems |-> NoJob]
  /\ pc = [t \in Threads |-> "idle"]
  /\ todo = [t \in Threads |-> {}]
  /\ outcome = [t \in Threads |-> "none"]
  /\ lapses = 0
  /\ lost = 0

-----------------------------------------------------------------------------
Goto(t, label) == pc' = [pc EXCEPT ![t] = label]
InHand(t) == CHOOSE p \in todo[t] : \A q \in todo[t] : p <= q

\* On to the next problem, at the given label, or the thread has done.
Advance(t, label) ==
  LET rest == todo[t] \ {InHand(t)} IN
  /\ todo' = [todo EXCEPT ![t] = rest]
  /\ outcome' = [outcome EXCEPT ![t] = "none"]
  /\ Goto(t, IF rest = {} THEN "idle" ELSE label)

Active(p) == {kind \in Kinds : pack[p][kind] = "active"}

\* UNIQUE (problem_id, version): an INSERT OR IGNORE leaves a taken version alone.
Insertable(p, kind) ==
  \A other \in Kinds :
    pack[p][other] # "absent" => other # kind /\ Version(p, other) # Version(p, kind)

\* Mutant of Activated: the other packs of the problem stay active.
ActivatedToo(p, kind) ==
  [pack EXCEPT ![p][kind] = IF @ # "absent" \/ Insertable(p, kind) THEN "active" ELSE @]

\* An upsert that activates: the other packs of the problem are deactivated first,
\* whether or not this one can then be inserted.
Activated(p, kind) ==
  [pack EXCEPT ![p] = [k \in Kinds |->
     IF k = kind
     THEN IF @[k] # "absent" \/ Insertable(p, kind) THEN "active" ELSE "absent"
     ELSE IF @[k] = "active" THEN "stored" ELSE @[k]]]

\* An upsert that does not.
Stored(p, kind) ==
  IF Insertable(p, kind) THEN [pack EXCEPT ![p][kind] = "stored"] ELSE pack

-----------------------------------------------------------------------------
(* Jobs: enqueue_pack_jobs and run_batch. *)

\* INSERT OR IGNORE, for the problems of a finished contest, or for those an
\* administrator finds without a pack, in the catalogue or not.
Enqueue(p) ==
  /\ job[p].status = "absent"
  /\ job' = [job EXCEPT ![p].status = "pending"]
  /\ UNCHANGED <<catalog, pack, pc, todo, outcome, counters>>

\* reclaim_expired_leases: back to retrying, since a job that was claimed has an attempt.
Reclaim(w) ==
  /\ w \in Workers
  /\ pc[w] = "idle"
  /\ job' = [p \in Problems |->
               IF job[p].status = "processing" /\ job[p].lease = "late"
               THEN [NoJob EXCEPT !.status = "retrying"]
               ELSE job[p]]
  /\ Goto(w, "select")
  /\ UNCHANGED <<catalog, pack, todo, outcome, counters>>

Due == {p \in Problems : job[p].status \in {"pending", "retrying"} /\ job[p].lease # "live"}

\* SELECT ... ORDER BY priority_score LIMIT, whichever comes first.
Select(w) ==
  /\ pc[w] = "select"
  /\ \E batch \in SUBSET Due :
       /\ Cardinality(batch) = Limit \/ (batch = Due /\ Cardinality(batch) < Limit)
       /\ todo' = [todo EXCEPT ![w] = batch]
       /\ Goto(w, IF batch = {} THEN "idle" ELSE "claim")
  /\ UNCHANGED <<catalog, pack, job, outcome, counters>>

\* The UPDATEs test the job_id only.
Claim(w) ==
  /\ pc[w] = "claim"
  /\ job' = [p \in Problems |->
               IF p \in todo[w]
               THEN [status |-> "processing", lease |-> "live", by |-> Name[w]]
               ELSE job[p]]
  /\ Goto(w, "build")
  /\ UNCHANGED <<catalog, pack, todo, outcome, counters>>

\* Mutant of Recommended: a pack that passes its gate is activated.
RecommendedAll(p) == "active"

\* What build_candidate_pack recommends when it does not fail.
Recommended(p) == IF p \in Reviewed THEN "review_required" ELSE "active"

\* build_candidate_pack and the quality gate.
Build(w) ==
  /\ pc[w] = "build"
  /\ \E result \in {Recommended(InHand(w)), "rejected"} :
       /\ outcome' = [outcome EXCEPT ![w] = result]
       /\ Goto(w, IF result = "rejected" THEN "complete" ELSE "upsert")
  /\ UNCHANGED <<catalog, pack, job, todo, counters>>

\* upsert_practice_pack: nothing is stored for a problem that is not in the catalogue.
Upsert(w) ==
  LET p == InHand(w) IN
  /\ pc[w] = "upsert"
  /\ IF p \notin catalog
     THEN /\ outcome' = [outcome EXCEPT ![w] = IF @ = "active" THEN "rejected" ELSE @]
          /\ UNCHANGED pack
     ELSE /\ pack' = IF outcome[w] = "active" THEN Activated(p, "auto") ELSE Stored(p, "auto")
          /\ UNCHANGED outcome
  /\ Goto(w, "complete")
  /\ UNCHANGED <<catalog, job, todo, counters>>

\* complete_pack_job: a job that another name holds by now is left to it; one that
\* nobody holds, because it is completed, is not.
Complete(w) ==
  /\ pc[w] = "complete"
  /\ IF job[InHand(w)].by \in {None, Name[w]}
     THEN Goto(w, "write") /\ UNCHANGED <<todo, outcome>>
     ELSE Advance(w, "build")
  /\ UNCHANGED <<catalog, pack, job, counters>>

\* Mutant of Write: the lease stays with the worker.
WriteStatus(w) ==
  /\ pc[w] = "write"
  /\ job' = [job EXCEPT ![InHand(w)].status = outcome[w]]
  /\ Advance(w, "build")
  /\ UNCHANGED <<catalog, pack, counters>>

Write(w) ==
  /\ pc[w] = "write"
  /\ job' = [job EXCEPT ![InHand(w)] = [NoJob EXCEPT !.status = outcome[w]]]
  /\ Advance(w, "build")
  /\ UNCHANGED <<catalog, pack, counters>>

-----------------------------------------------------------------------------
(* activate_oracle_packs, at the start of a server or for an administrator. *)

Activate(a) ==
  /\ a \in Activators
  /\ pc[a] = "idle"
  /\ Problems # {}
  /\ todo' = [todo EXCEPT ![a] = Problems]
  /\ Goto(a, "generate")
  /\ UNCHANGED <<catalog, pack, job, outcome, counters>>

Generate(a) ==
  /\ pc[a] = "generate"
  /\ \E result \in {Recommended(InHand(a)), "rejected"} :
       CASE result = "rejected" -> Advance(a, "generate")
         [] result = "review_required" ->
              /\ outcome' = [outcome EXCEPT ![a] = result]
              /\ Goto(a, "store")
              /\ UNCHANGED todo
         [] OTHER ->
              /\ outcome' = [outcome EXCEPT ![a] = result]
              /\ Goto(a, "compare")
              /\ UNCHANGED todo
  /\ UNCHANGED <<catalog, pack, job, counters>>

\* "Keep existing active pack unless we introduce a higher version."
Compare(a) ==
  LET p == InHand(a) IN
  /\ pc[a] = "compare"
  /\ IF \E kind \in Active(p) : Version(p, kind) >= AutoVersion[p]
     THEN Advance(a, "generate")
     ELSE Goto(a, "store") /\ UNCHANGED <<todo, outcome>>
  /\ UNCHANGED <<catalog, pack, job, counters>>

Store(a) ==
  LET p == InHand(a) IN
  /\ pc[a] = "store"
  /\ pack' = CASE p \notin catalog -> pack
               [] outcome[a] = "active" -> Activated(p, "auto")
               [] OTHER -> Stored(p, "auto")
  /\ Advance(a, "generate")
  /\ UNCHANGED <<catalog, job, counters>>

-----------------------------------------------------------------------------
(* seed_builtin_duel_problem_packs, before a pack is looked up. *)

Seed(s) ==
  /\ s \in Seeders
  /\ pc[s] = "idle"
  /\ Builtin # {}
  /\ todo' = [todo EXCEPT ![s] = Builtin]
  /\ Goto(s, "look")
  /\ UNCHANGED <<catalog, pack, job, outcome, counters>>

Look(s) ==
  /\ pc[s] = "look"
  /\ IF Active(InHand(s)) = {}
     THEN Goto(s, "insert") /\ UNCHANGED <<todo, outcome>>
     ELSE Advance(s, "look")
  /\ UNCHANGED <<catalog, pack, job, counters>>

\* upsert_duel_problem_pack
InsertBuiltin(s) ==
  LET p == InHand(s) IN
  /\ pc[s] = "insert"
  /\ pack' = IF p \in catalog THEN Activated(p, "builtin") ELSE pack
  /\ Advance(s, "look")
  /\ UNCHANGED <<catalog, job, counters>>

-----------------------------------------------------------------------------
\* A catalogue sync imports the problem.
Import(p) ==
  /\ p \notin catalog
  /\ catalog' = catalog \cup {p}
  /\ UNCHANGED <<pack, job, pc, todo, outcome, counters>>

\* lease_seconds have passed: nobody works on the job any more, or its worker is slow.
LeaseEnds(p) ==
  LET working == \E w \in Workers : pc[w] # "select" /\ p \in todo[w] IN
  /\ job[p].lease = "live"
  /\ working => lapses < MaxLapses
  /\ lapses' = IF working THEN lapses + 1 ELSE lapses
  /\ job' = [job EXCEPT ![p].lease = "late"]
  /\ UNCHANGED <<catalog, pack, pc, todo, outcome, lost>>

\* A process stops, or a request is cut short.
Lose(t) ==
  /\ lost < MaxLost
  /\ pc[t] # "idle"
  /\ lost' = lost + 1
  /\ Goto(t, "idle")
  /\ todo' = [todo EXCEPT ![t] = {}]
  /\ outcome' = [outcome EXCEPT ![t] = "none"]
  /\ UNCHANGED <<catalog, pack, job, lapses>>

Work(w) ==
  \/ Reclaim(w) \/ Select(w) \/ Claim(w)
  \/ Build(w) \/ Upsert(w) \/ Complete(w) \/ Write(w)

Next ==
  \/ \E w \in Workers : Work(w)
  \/ \E a \in Activators : Activate(a) \/ Generate(a) \/ Compare(a) \/ Store(a)
  \/ \E s \in Seeders : Seed(s) \/ Look(s) \/ InsertBuiltin(s)
  \/ \E p \in Problems : Enqueue(p) \/ Import(p) \/ LeaseEnds(p)
  \/ \E t \in Threads : Lose(t)

Spec == Init /\ [][Next]_vars

-----------------------------------------------------------------------------
(* Properties *)

TypeOK ==
  /\ catalog \subseteq Problems
  /\ pack \in [Problems -> [Kinds -> {"absent", "stored", "active"}]]
  /\ job \in [Problems -> Jobs]
  /\ pc \in [Threads -> {"idle", "select", "claim", "build", "upsert", "complete", "write",
                         "generate", "compare", "store", "look", "insert"}]
  /\ todo \in [Threads -> SUBSET Problems]
  /\ outcome \in [Threads -> {"none"} \cup Ended]
  /\ lapses \in 0..MaxLapses /\ lost \in 0..MaxLost

\* However workers, activators and requests interleave, a problem has one active pack
\* at most: a submission is never judged by two sets of tests.
OneActive == \A p \in Problems : Cardinality(Active(p)) <= 1

\* Fail closed: a generated pack that is to be reviewed is never active, whichever of
\* the ways it was stored.
FailClosed == \A p \in Reviewed : pack[p]["auto"] # "active"

\* A job is leased exactly while it is processed, so that every abandoned job is
\* reclaimed some time; a job that has ended is leased by nobody, though two workers
\* may have completed it.
LeasedIffProcessing ==
  \A p \in Problems :
    /\ job[p].status = "processing" <=> job[p].lease # "none"
    /\ job[p].lease # "none" <=> job[p].by # None

\* A thread past its selection has a problem in hand; it holds an outcome from the
\* generation of the pack until it goes on, and never means to activate a pack that is
\* to be reviewed.
InHandSound ==
  \A t \in Threads :
    /\ pc[t] \notin {"idle", "select"} => todo[t] # {}
    /\ outcome[t] # "none" <=> pc[t] \in {"upsert", "complete", "write", "compare", "store"}
    /\ outcome[t] = "active" => InHand(t) \notin Reviewed

\* The inductive invariant.
PackInv ==
  /\ TypeOK
  /\ LeasedIffProcessing
  /\ InHandSound
  /\ OneActive
  /\ FailClosed

\* pipeline.py: "Keep existing active pack unless we introduce a higher version."
KeptUnlessHigher ==
  [][\A p \in Problems, kind \in Kinds :
       pack[p][kind] = "active" /\ pack'[p][kind] # "active" =>
         \E other \in Kinds :
           pack'[p][other] = "active" /\ Version(p, other) > Version(p, kind)]_vars
=============================================================================
