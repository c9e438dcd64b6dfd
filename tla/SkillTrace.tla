----------------------------- MODULE SkillTrace -----------------------------
(***************************************************************************)
(* One verification session (contestiq_api/skilltrace/sessions.py and      *)
(* judge0.py): the owner's snapshots, runs and final submissions, the      *)
(* results of the judge, and the badge decision.                           *)
(*                                                                         *)
(* The owner's calls and the reconciler are plain functions served by a    *)
(* thread pool; the callback route is a coroutine that never awaits once   *)
(* it has its payload, so the event loop serves one callback at a time.    *)
(* A step is one SQLite transaction, one autocommitted read, or one        *)
(* request to the judge.  An append to the event ledger is one step of it  *)
(* (EventLedger) and is merged with a neighbouring step unless another     *)
(* request could tell; an append that raises ends the request (Fail).      *)
(***************************************************************************)
EXTENDS Naturals, FiniteSets

CONSTANTS
  Calls,        \* calls of snapshot, run or submit by the owner
  Loop,         \* the event loop, which handles callbacks
  Reconcilers,  \* concurrent reconcile requests
  MaxTests,     \* hidden tests of a challenge, at most
  MaxRuns,      \* MAX_RUNS_PER_SESSION
  Sessions,     \* sessions to start from
  MaxFailures,  \* bound of the model
  None

ASSUME SkillAssumption ==
  /\ Loop \notin Reconcilers
  /\ Calls \cap (Reconcilers \cup {Loop}) = {}
  /\ None \notin Calls \cup {"issued", "manual_review", "not_issued"}
  /\ MaxTests \in Nat /\ MaxRuns \in Nat /\ MaxFailures \in Nat
  /\ Sessions \subseteq [plan  : [Calls -> {"snapshot", "run", "submit"}],
                        tests : 1..MaxTests,
                        trail : [snapshots : Nat, runs : Nat]]

Handlers == {Loop} \cup Reconcilers
Processes == Calls \cup Handlers
Results == {"passed", "failed"}

\* A judge submission: the attempt is named after the call that made it.
Jobs == Calls \X (1..MaxTests)

AllowedLabels == {"strong", "sufficient", "limited", "insufficient"}

VARIABLES
  status,     \* session_status
  trail,      \* code_snapshot and run_attempt_created events in the ledger
  attempts,   \* attempt_status of each call's attempt
  sub,        \* judge0_submissions: "none", "submitted", or done with a result
  decision,   \* badge_decisions row
  report,     \* whether the private_reports row exists
  badge,      \* whether the public_badges row exists
  judge,      \* the judge: what it knows of each submission
  pc,
  op,         \* the endpoint that each call calls
  tests,      \* number of hidden tests of the challenge
  next,       \* the test that a call sends next
  work,       \* the submission a handler records
  todo,       \* rows that a reconciler has yet to poll
  draft,      \* what a handler has counted
  failures

tables == <<status, trail, attempts, sub, decision, report, badge>>
locals == <<pc, next, work, todo, draft>>
fixed == <<op, tests>>
vars == <<tables, judge, locals, fixed, failures>>

NoDraft == [graded |-> {}, passed |-> {}, label |-> None]
NoDecision == [verdict |-> None, attempt |-> None, graded |-> {}, label |-> None]

\* start_session has made the session; earlier calls, now over, have left a trail.
Init ==
  /\ status = "active"
  /\ \E session \in Sessions :
       op = session.plan /\ tests = session.tests /\ trail = session.trail
  /\ attempts = [c \in Calls |-> "none"]
  /\ sub = [j \in Jobs |-> "none"]
  /\ decision = NoDecision
  /\ report = FALSE
  /\ badge = FALSE
  /\ judge = [j \in Jobs |-> "none"]
  /\ pc = [p \in Processes |-> "idle"]
  /\ next = [c \in Calls |-> 1]
  /\ work = [h \in Handlers |-> None]
  /\ todo = [h \in Handlers |-> {}]
  /\ draft = [h \in Handlers |-> NoDraft]
  /\ failures = 0

Goto(p, label) == pc' = [pc EXCEPT ![p] = label]
End(c) == Goto(c, "end")

-----------------------------------------------------------------------------
(* The owner's calls. *)

\* _owned_session and _assert_active: a call on a session that is not active is
\* refused, and one that comes too late expires the session first.  The clock is
\* not kept: a call on an active session may find it past expires_at or not, for
\* entering changes no row, so that the calls that are in time can enter first.
Enter(c) ==
  /\ pc[c] = "idle"
  /\ status = "active"
  /\ Goto(c, op[c]) \/ Goto(c, "expire")
  /\ UNCHANGED <<tables, judge, fixed, next, work, todo, draft, failures>>

\* The UPDATE of _assert_active does not ask what the status is by now.
Expire(c) ==
  /\ pc[c] = "expire"
  /\ status' = "expired"
  /\ End(c)
  /\ UNCHANGED <<trail, attempts, sub, decision, report, badge, judge, fixed, next,
                 work, todo, draft, failures>>

\* record_snapshot: a snapshot of known content is ignored, its event is not.
RecordSnapshot(c) ==
  /\ pc[c] = "snapshot"
  /\ trail' = [trail EXCEPT !.snapshots = @ + 1]
  /\ End(c)
  /\ UNCHANGED <<status, attempts, sub, decision, report, badge, judge, fixed, next,
                 work, todo, draft, failures>>

\* create_run: the runs are counted, then the attempt is inserted.
CountRuns(c) ==
  /\ pc[c] = "run"
  /\ Goto(c, IF trail.runs >= MaxRuns THEN "end" ELSE "attempt")
  /\ UNCHANGED <<tables, judge, fixed, next, work, todo, draft, failures>>

CreateRun(c) ==
  /\ pc[c] = "attempt"
  /\ attempts' = [attempts EXCEPT ![c] = "pending"]
  /\ trail' = [trail EXCEPT !.runs = @ + 1]
  /\ Goto(c, "post")
  /\ UNCHANGED <<status, sub, decision, report, badge, judge, fixed, next, work, todo,
                 draft, failures>>

\* submit_final: one transaction makes the attempt and sets the status.
SubmitFinal(c) ==
  /\ pc[c] = "submit"
  /\ attempts' = [attempts EXCEPT ![c] = "pending"]
  /\ status' = "judging"
  /\ Goto(c, "post")
  /\ UNCHANGED <<trail, sub, decision, report, badge, judge, fixed, next, work, todo,
                 draft, failures>>

\* Judge0Adapter.submit: the judge has the submission before its row exists.
Post(c) ==
  /\ pc[c] = "post"
  /\ judge' = [judge EXCEPT ![<<c, next[c]>>] = "queued"]
  /\ Goto(c, "track")
  /\ UNCHANGED <<tables, fixed, next, work, todo, draft, failures>>

LastTest(c) == IF op[c] = "run" THEN 1 ELSE tests

Track(c) ==
  /\ pc[c] = "track"
  /\ sub' = [sub EXCEPT ![<<c, next[c]>>] = "submitted"]
  /\ IF next[c] = LastTest(c)
     THEN End(c) /\ UNCHANGED next
     ELSE Goto(c, "post") /\ next' = [next EXCEPT ![c] = @ + 1]
  /\ UNCHANGED <<status, trail, attempts, decision, report, badge, judge, fixed, work,
                 todo, draft, failures>>

-----------------------------------------------------------------------------
(* Results: the callback and the reconciler. *)

\* The judge (external) reaches a verdict.
Judge(j, result) ==
  /\ judge[j] = "queued"
  /\ judge' = [judge EXCEPT ![j] = result]
  /\ UNCHANGED <<tables, locals, fixed, failures>>

\* The judge calls back, at any time after its verdict, once, several times or
\* never.  A callback that finds no row is refused (403), one whose row is done
\* was already processed; neither changes anything.
Callback(j) ==
  /\ pc[Loop] = "idle"
  /\ judge[j] \in Results
  /\ sub[j] = "submitted"
  /\ work' = [work EXCEPT ![Loop] = j]
  /\ Goto(Loop, "record")
  /\ UNCHANGED <<tables, judge, fixed, next, todo, draft, failures>>

\* Mutant of Pending: only the first test of an attempt is polled.
PendingFirst == {j \in Jobs : sub[j] = "submitted" /\ j[2] = 1}

Pending == {j \in Jobs : sub[j] = "submitted"}

\* pending_submissions: rows too young to be polled are those of an earlier scan.
Scan(r) ==
  /\ pc[r] = "idle"
  /\ Pending # {}
  /\ todo' = [todo EXCEPT ![r] = Pending]
  /\ Goto(r, "poll")
  /\ UNCHANGED <<tables, judge, fixed, next, work, draft, failures>>

\* A handler is done with a submission; a reconciler goes on to the next.
Done(h) ==
  /\ Goto(h, IF todo[h] = {} THEN "idle" ELSE "poll")
  /\ draft' = [draft EXCEPT ![h] = NoDraft]
  /\ work' = [work EXCEPT ![h] = None]

\* An exception ends the handler and, with it, the whole reconcile request.
Abort(h) ==
  /\ Goto(h, "idle")
  /\ todo' = [todo EXCEPT ![h] = {}]
  /\ draft' = [draft EXCEPT ![h] = NoDraft]
  /\ work' = [work EXCEPT ![h] = None]

\* A submission that the judge has finished is recorded, on the strength of the
\* row read by the scan; another is passed over.
Poll(r, j) ==
  /\ pc[r] = "poll"
  /\ j \in todo[r]
  /\ todo' = [todo EXCEPT ![r] = @ \ {j}]
  /\ IF judge[j] \in Results
     THEN Goto(r, "record") /\ work' = [work EXCEPT ![r] = j]
     ELSE Goto(r, IF todo[r] = {j} THEN "idle" ELSE "poll") /\ UNCHANGED work
  /\ UNCHANGED <<tables, judge, fixed, next, draft, failures>>

\* record_result: the UPDATE does not ask whether the row is still submitted.
Record(h) ==
  /\ pc[h] = "record"
  /\ sub' = [sub EXCEPT ![work[h]] = judge[work[h]]]
  /\ Goto(h, "check")
  /\ UNCHANGED <<status, trail, attempts, decision, report, badge, judge, fixed, next,
                 work, todo, draft, failures>>

Attempt(h) == work[h][1]
Tracked(c) == {i \in 1..tests : sub[<<c, i>>] # "none"}

\* Mutant of Check: tests that are done are counted as passed.
CheckDone(h) ==
  /\ pc[h] = "check"
  /\ IF \E i \in Tracked(Attempt(h)) : sub[<<Attempt(h), i>>] = "submitted"
     THEN Done(h)
     ELSE /\ draft' = [draft EXCEPT ![h].graded = Tracked(Attempt(h)),
                                    ![h].passed = Tracked(Attempt(h))]
          /\ Goto(h, "complete")
          /\ UNCHANGED work
  /\ UNCHANGED <<status, trail, attempts, sub, decision, report, badge, judge, fixed, next, todo,
                 failures>>

\* _maybe_complete_attempt: all the rows that exist must be done.
Check(h) ==
  /\ pc[h] = "check"
  /\ LET c == Attempt(h)
     IN  IF \E i \in Tracked(c) : sub[<<c, i>>] = "submitted"
         THEN Done(h)
         ELSE /\ draft' = [draft EXCEPT ![h] = [NoDraft EXCEPT
                               !.graded = Tracked(c),
                               !.passed = {i \in Tracked(c) : sub[<<c, i>>] = "passed"}]]
              /\ Goto(h, "complete")
              /\ UNCHANGED work
  /\ UNCHANGED <<status, trail, attempts, sub, decision, report, badge, judge, fixed, next, todo,
                 failures>>

\* Mutant of Label: a label that is not in ALLOWED_LABELS.
LabelUnlisted == IF trail.runs = 0 THEN "suspicious" ELSE "sufficient"

\* _process_evidence
Label ==
  CASE trail.snapshots = 0 /\ trail.runs = 0 -> "insufficient"
    [] trail.snapshots >= 5 /\ trail.runs >= 2 -> "strong"
    [] trail.snapshots >= 2 /\ trail.runs >= 1 /\ ~ (trail.snapshots >= 5 /\ trail.runs >= 2)
         -> "sufficient"
    [] OTHER -> "limited"

\* Mutant of Complete: the session is completed with the attempt.
CompleteEarly(h) ==
  /\ pc[h] = "complete"
  /\ attempts' = [attempts EXCEPT ![Attempt(h)] = "completed"]
  /\ IF op[Attempt(h)] = "run"
     THEN Done(h) /\ UNCHANGED status
     ELSE /\ draft' = [draft EXCEPT ![h].label = Label]
          /\ status' = "completed"
          /\ Goto(h, "decide")
          /\ UNCHANGED work
  /\ UNCHANGED <<trail, sub, decision, report, badge, judge, fixed, next, todo, failures>>

\* The attempt is completed; a hidden one goes on to be decided on the trail as
\* it is now.  The chain is valid whenever it is verified (EventLedger).
Complete(h) ==
  /\ pc[h] = "complete"
  /\ attempts' = [attempts EXCEPT ![Attempt(h)] = "completed"]
  /\ IF op[Attempt(h)] = "run"
     THEN Done(h)
     ELSE /\ draft' = [draft EXCEPT ![h].label = Label]
          /\ Goto(h, "decide")
          /\ UNCHANGED work
  /\ UNCHANGED <<status, trail, sub, decision, report, badge, judge, fixed, next, todo,
                 failures>>

\* The decision of _finalize_session.
Verdict(d) ==
  CASE d.passed = d.graded /\ d.label \in {"strong", "sufficient"} -> "issued"
    [] d.passed = d.graded /\ d.label = "insufficient" -> "manual_review"
    [] OTHER -> "not_issued"

\* Mutant of Decide: INSERT OR REPLACE.
DecideReplacing(h) ==
  /\ pc[h] = "decide"
  /\ decision' = [verdict |-> Verdict(draft[h]), attempt |-> Attempt(h),
                  graded |-> draft[h].graded, label |-> draft[h].label]
  /\ status' = "completed"
  /\ Goto(h, "report")
  /\ UNCHANGED <<trail, attempts, sub, report, badge, judge, fixed, next, work, todo, draft,
                 failures>>

\* One transaction inserts the decision and completes the session.
Decide(h) ==
  /\ pc[h] = "decide"
  /\ decision = NoDecision
  /\ decision' = [verdict |-> Verdict(draft[h]), attempt |-> Attempt(h),
                  graded |-> draft[h].graded, label |-> draft[h].label]
  /\ status' = "completed"
  /\ Goto(h, "report")
  /\ UNCHANGED <<trail, attempts, sub, report, badge, judge, fixed, next, work, todo,
                 draft, failures>>

\* The session has a decision: the insert fails.
DecidedAlready(h) ==
  /\ pc[h] = "decide"
  /\ decision # NoDecision
  /\ Abort(h)
  /\ UNCHANGED <<tables, judge, fixed, next, failures>>

Report(h) ==
  /\ pc[h] = "report"
  /\ report' = TRUE
  /\ IF Verdict(draft[h]) = "issued"
     THEN Goto(h, "badge") /\ UNCHANGED <<draft, work>>
     ELSE Done(h)
  /\ UNCHANGED <<status, trail, attempts, sub, decision, badge, judge, fixed, next,
                 todo, failures>>

IssueBadge(h) ==
  /\ pc[h] = "badge"
  /\ badge' = TRUE
  /\ Done(h)
  /\ UNCHANGED <<status, trail, attempts, sub, decision, report, judge, fixed, next,
                 todo, failures>>

-----------------------------------------------------------------------------
(* Failures. *)

\* A call ends in an exception: the judge cannot be reached or its answer is
\* lost, the ledger gives up.
FailCall(c) ==
  /\ failures < MaxFailures
  /\ pc[c] \notin {"idle", "end"}
  /\ End(c)
  /\ failures' = failures + 1
  /\ UNCHANGED <<tables, judge, fixed, next, work, todo, draft>>

FailHandler(h) ==
  /\ failures < MaxFailures
  /\ pc[h] # "idle"
  /\ Abort(h)
  /\ failures' = failures + 1
  /\ UNCHANGED <<tables, judge, fixed, next>>

\* The process is restarted: what is in service is lost.
Restart ==
  /\ failures < MaxFailures
  /\ pc' = [p \in Processes |-> IF p \in Handlers \/ pc[p] = "idle" THEN "idle" ELSE "end"]
  /\ work' = [h \in Handlers |-> None]
  /\ todo' = [h \in Handlers |-> {}]
  /\ draft' = [h \in Handlers |-> NoDraft]
  /\ failures' = failures + 1
  /\ UNCHANGED <<tables, judge, fixed, next>>

CallStep(c) ==
  \/ Expire(c) \/ RecordSnapshot(c) \/ CountRuns(c) \/ CreateRun(c) \/ SubmitFinal(c)
  \/ Post(c) \/ Track(c)

HandlerStep(h) ==
  \/ Record(h) \/ Check(h) \/ Complete(h) \/ Decide(h) \/ DecidedAlready(h)
  \/ Report(h) \/ IssueBadge(h)

Reconcile(r) == Scan(r) \/ \E j \in Jobs : Poll(r, j)

Next ==
  \/ \E c \in Calls : Enter(c) \/ CallStep(c) \/ FailCall(c)
  \/ \E j \in Jobs, result \in Results : Judge(j, result)
  \/ \E j \in Jobs : Callback(j)
  \/ \E h \in Handlers : HandlerStep(h) \/ FailHandler(h)
  \/ \E r \in Reconcilers : Reconcile(r)
  \/ Restart

Spec == Init /\ [][Next]_vars

\* Threads run, the judge comes to a verdict on what it has queued, and the
\* scheduler calls the reconciler.  No callback is ever promised.
FairSpec ==
  /\ Spec
  /\ \A c \in Calls : WF_vars(CallStep(c))
  /\ \A h \in Handlers : WF_vars(HandlerStep(h))
  /\ \A r \in Reconcilers : WF_vars(Reconcile(r))
  /\ \A j \in Jobs : WF_vars(\E result \in Results : Judge(j, result))

-----------------------------------------------------------------------------
(* Properties *)

TypeOK ==
  /\ status \in {"active", "judging", "completed", "expired"}
  /\ report \in BOOLEAN /\ badge \in BOOLEAN
  /\ trail \in [snapshots : Nat, runs : Nat]
  /\ attempts \in [Calls -> {"none", "pending", "completed"}]
  /\ sub \in [Jobs -> {"none", "submitted"} \cup Results]
  /\ judge \in [Jobs -> {"none", "queued"} \cup Results]
  /\ pc \in [Processes -> {"idle", "end", "expire", "snapshot", "run", "attempt", "submit", "post",
                           "track", "poll", "record", "check", "complete", "decide", "report",
                           "badge"}]
  /\ op \in [Calls -> {"snapshot", "run", "submit"}]
  /\ tests \in 1..MaxTests
  /\ next \in [Calls -> 1..MaxTests]
  /\ work \in [Handlers -> Jobs \cup {None}]
  /\ todo \in [Handlers -> SUBSET Jobs]
  /\ draft \in [Handlers -> [graded : SUBSET (1..MaxTests), passed : SUBSET (1..MaxTests),
                             label : AllowedLabels \cup {None}]]
  /\ failures \in 0..MaxFailures

\* A badge stands for a decision to issue it, made on a submission all of whose
\* graded tests the judge has passed, and on a trail that justifies it
\* (_finalize_session, whoever got the last result in).
BadgeEarned ==
  badge =>
    /\ decision.verdict = "issued"
    /\ op[decision.attempt] = "submit"
    /\ decision.graded # {}
    /\ \A i \in decision.graded : judge[<<decision.attempt, i>>] = "passed"
    /\ trail.snapshots >= 2 /\ trail.runs >= 1

\* A completed session has its decision, which was made on a completed attempt.
CompletedIsDecided ==
  /\ status = "completed" => decision # NoDecision
  /\ decision # NoDecision => attempts[decision.attempt] = "completed"

\* Only the handler whose decision was recorded publishes, so that the report
\* and the badge are never inserted twice.
PublishedOnce ==
  \A h \in Handlers :
    /\ pc[h] = "report" => ~ report
    /\ pc[h] = "badge" => ~ badge

\* Unless something failed, an attempt all of whose results are in is in the
\* hands of the handler that will complete it: no result is the last one for
\* nobody, although several are recorded at once.
NoneLeftBehind ==
  failures = 0 =>
    \A c \in Calls :
      /\ attempts[c] = "pending"
      /\ \A i \in 1..LastTest(c) : sub[<<c, i>>] \in Results
      => \E h \in Handlers : pc[h] \in {"check", "complete"} /\ Attempt(h) = c

\* The outcome of the session follows its contract.
Contract == INSTANCE BadgeContract WITH decision <- decision.verdict
ImplementsContract == Contract!Spec

Settled ==
  /\ decision # NoDecision
  /\ report
  /\ decision.verdict = "issued" => badge

\* Even if no callback ever arrives, a submission leads to a decision that is
\* published, unless something fails (the reconciler, docs/launch_checklist.md:37).
SubmissionSettles ==
  \A c \in Calls : (pc[c] = "post" /\ op[c] = "submit") ~> (Settled \/ failures > 0)

\* "No badge when hidden tests fail" (tests/test_skilltrace.py:330): a badge
\* means that no hidden test of the submission it was decided on is failed.
NoBadgeWhenTestsFail ==
  badge => \A i \in 1..tests : judge[<<decision.attempt, i>>] # "failed"

-----------------------------------------------------------------------------
(* What the proofs need besides. *)

\* A call makes its attempt, then sends one test after the other: what it has
\* not sent yet, the judge does not know and the table does not hold.
CallSound(c) ==
  /\ next[c] <= LastTest(c)
  /\ pc[c] \in {"idle", "run", "attempt", "submit"} => attempts[c] = "none"
  /\ pc[c] \in {"run", "attempt"} => op[c] = "run"
  /\ pc[c] = "submit" => op[c] = "submit"
  /\ attempts[c] # "none" => op[c] # "snapshot"
  /\ attempts[c] = "none" => /\ pc[c] \notin {"post", "track"}
                            /\ \A i \in 1..MaxTests : judge[<<c, i>>] = "none" /\ sub[<<c, i>>] = "none"
  /\ \A i \in 1..MaxTests :
       /\ i > next[c] => judge[<<c, i>>] = "none" /\ sub[<<c, i>>] = "none"
       /\ i = next[c] /\ pc[c] = "post" => judge[<<c, i>>] = "none"
       /\ i = next[c] /\ pc[c] \in {"post", "track"} => sub[<<c, i>>] = "none"

\* The table holds the results of the judge.
ResultsSound == \A j \in Jobs : sub[j] \in Results => judge[j] = sub[j]

Supported(label) ==
  label \in {"strong", "sufficient"} => trail.snapshots >= 2 /\ trail.runs >= 1

\* What was counted of call c stays true.
Counted(c, d) ==
  /\ d.graded # {}
  /\ \A i \in d.passed : judge[<<c, i>>] = "passed"

Decided(h) == [verdict |-> Verdict(draft[h]), attempt |-> Attempt(h),
               graded |-> draft[h].graded, label |-> draft[h].label]

\* A handler at each step of its way, up to the publication, where it is alone.
HandlerSound(h) ==
  /\ \A j \in todo[h] : sub[j] # "none"
  /\ pc[h] \in {"record", "check", "complete", "decide", "report", "badge"} =>
       /\ work[h] \in Jobs
       /\ sub[work[h]] # "none"
  /\ pc[h] = "record" => judge[work[h]] \in Results
  /\ pc[h] \in {"complete", "decide", "report", "badge"} => Counted(Attempt(h), draft[h])
  /\ pc[h] \in {"decide", "report", "badge"} =>
       /\ op[Attempt(h)] = "submit"
       /\ attempts[Attempt(h)] = "completed"
       /\ draft[h].label \in AllowedLabels
       /\ Supported(draft[h].label)
  /\ pc[h] \in {"report", "badge"} =>
       /\ decision = Decided(h)
       /\ ~ badge
       /\ \A g \in Handlers : pc[g] \in {"report", "badge"} => g = h
  /\ pc[h] = "report" => ~ report
  /\ pc[h] = "badge" => report /\ decision.verdict = "issued"

\* The decision is sound, and nothing was published before it.
DecisionSound ==
  /\ decision = NoDecision => status # "completed" /\ ~ report
  /\ badge => report /\ decision.verdict = "issued"
  /\ decision # NoDecision =>
       /\ decision.verdict \in {"issued", "manual_review", "not_issued"}
       /\ decision.attempt \in Calls
       /\ op[decision.attempt] = "submit"
       /\ attempts[decision.attempt] = "completed"
       /\ decision.graded \subseteq 1..MaxTests /\ decision.graded # {}
       /\ decision.verdict = "issued" =>
            /\ \A i \in decision.graded : judge[<<decision.attempt, i>>] = "passed"
            /\ trail.snapshots >= 2 /\ trail.runs >= 1

SkillInv ==
  /\ TypeOK
  /\ \A c \in Calls : CallSound(c)
  /\ ResultsSound
  /\ \A h \in Handlers : HandlerSound(h)
  /\ DecisionSound
  /\ NoneLeftBehind
=============================================================================
