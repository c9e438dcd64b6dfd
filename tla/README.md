# Verification of the SolveX backend

TLA+ models of the parts of `src/contestiq_api` that hold state under concurrency, TLC
configurations that check them, and TLAPS proofs about them.  The backend is a FastAPI
application in one uvicorn process (`Procfile`; `docs/launch_checklist.md:33` recommends
`--workers 2`, so that wherever a second process makes a difference the model has one, or the
difference is stated) over one SQLite database.  `def` routes run in a thread
pool and interleave; `async def` routes (practice submit, duel submit, the judge callback)
interleave at every `await`.

## Granularity: what one step is

`store.connect` (`cfdata/store.py:1259`) opens a connection in Python's legacy transaction
mode.  This fixes what is atomic, in every module:

* a SELECT before the first write of a `with` block commits by itself: it is one step;
* the first INSERT or UPDATE opens a transaction that lasts to the end of the block: what
  follows it, reads included, belongs to the same step;
* read-then-write in one block is therefore *two* steps, unless the block says
  `BEGIN IMMEDIATE` (`_complete_authenticated`, `_store_response`, handle claims,
  identity resolution);
* an `await` ends a step.

Between two steps a request keeps only its local variables.  Reads of rows that nothing
else can change are merged with the step before them, and said to be so at the definition.

## Inventory

| component | code | state | modules |
|---|---|---|---|
| Practice submission | `practice.py` | `practice_submissions`, `practice_completions`, `practice_continuations`, practice events | `PracticeContract`, `PracticeSubmit`, proofs |
| Friend duels | `duels.py` | `duel_matches`, `duel_participants`, duel events | `DuelContract`, `Duel`, proofs |
| SkillTrace sessions, badges | `skilltrace/sessions.py`, `judge0.py` | sessions, attempts, judge submissions, decisions, reports, badges | `BadgeContract`, `SkillTrace`, proofs |
| Session event ledger | `skilltrace/events.py` | `session_events`, hash-chained | `LedgerContract`, `EventLedger`, proofs |
| Statement ingest, relay | `cfdata/store.py` 1958-2412, `cfdata/statement_ingest.py`, `routes/relay.py`, `main.py` | `statement_ingest_queue` with leases, the statements of `problems` | `StatementQueue`, proofs |
| Billing, entitlements | `billing.py`, `entitlements.py`, `routes/admin.py` | payments, webhook events, grants | `Billing`, proofs |
| Handle claims, identities | `handles.py`, `supabase_auth.py`, `routes/admin.py` | claims, owners, accounts | `HandleContract`, `HandleClaims`, proofs |
| Practice pack jobs, packs | `practice_packs/*`, `duels.py` 169-218 | `practice_pack_jobs` with leases, `duel_problem_packs` | `PackFactory`, proofs |
| Contest watcher and pipeline; Codeforces sync | `contests/*`, `cfdata/sync.py`, `cfdata/client.py`, `main.py` | `cf_contests`, `cf_sync_jobs`, `problems` | `ContestPipeline` (one module composes the two), proofs |
| Teams, screening events | `teams.py`, `events_screening.py` | invites, links | not planned: smaller instances of check-then-insert |
| Gamification, leaderboards | `gamification.py` | none of its own (folds over `product_events`) | writes modelled at their source |
| Planner, weakness, episodes, core analysis, import, coach, copilot | several | derived or per-user data | not modelled: no protocol |

**How they interact.** Practice and duels write `product_events`, from which gamification
computes XP; only `practice_problem_completed`, `duel_completed` and `duel_won` award XP
among the events these two write, so those are the ones counted.  Practice and duels call
the judge (external) across an await.  SkillTrace submits to the judge and receives results by
callback or by polling; it appends every step to the session's ledger and reads the ledger to
decide a badge.  The contest watcher runs the same sync as the periodic task and the administrator,
then queues a pack job for each problem of the contest; pack jobs make the packs that practice and
duels judge by.  Missing statements are queued by relays, which lease and fetch them.  Billing and
administrators write the grants that `throttle.py` reads.

**What is hard here.** Rows read before an await or in an earlier statement and used after it;
several requests deciding the same transition; a lease or claim revoked while its holder still
works; a restart between two transactions of one handler; retries by idempotency key; loops that
must get everything done in the end although calls fail and threads are lost.
`PROJECT.json` lists each such place under `hazards`, with the properties that cover it.

## Practice submission

`POST /practice/submit` is idempotent in the client's `request_id`.  A call claims the
`request_id` by an INSERT, judges across an await, records the verdict only if it still holds
the claim, records the completion in one `BEGIN IMMEDIATE` transaction, and caches one
response.  A later call with the same `request_id` replays, recovers or revokes.

`PracticeContract` says what a caller may rely on: a key is bound to one payload, gets one
verdict, a verdict credits a problem at most once and in the same step, and an answer exists
only after a verdict and forever.  `PracticeSubmit` is the handler, one action per transaction:

| action | code |
|---|---|
| `Preflight`, `Replay` | `_preflight_replay` |
| `PackUnavailable`, `Claim` | `_active_pack`, `_claim_attempt` |
| `KeyReused`, `ReplayCached`, `InProgress`, `RevokeStale`, `Recover` | the branches of `_resolve_existing_attempt`, `_recover_terminal_response` |
| `Judged`, `TaskCancelled`, `Disconnected` | the await on `_judge_pack`, `CancelledError`, the second `is_cancelled()` |
| `SetVerdict` | `_set_attempt_verdict` for an outcome that did not pass |
| `Complete`, `CompleteRevoked` | `_complete_authenticated` and `ClaimRevoked` |
| `Compose`, `StoreResponse` | the progress snapshot, `_store_response` |
| `Crash`, `GrowStale` | a killed process; `STALE_JUDGING_MINUTES` pass |

State: `rows`, `responses`, `completions`, `continuations`, `events` are the tables; `aged`
holds the claims older than fifteen minutes; `pc`, `arg`, `seen`, `outcome`, `draft`, `reply`
are a call's locals.  One account is modelled: every statement filters on `user_id`.

Deliberate simplifications.  The unique index on a continuation's `(user_id, problem_id)` is
left out of `Continue`, so that `QueueFresh` can show the selection never runs into it.  After
an accepted verdict of a client that has disconnected, the code reads the progress snapshot before
the guarded update (`practice.py:1302`); the model reads it afterwards, in `Compose`, which a
response without a completion cannot tell apart.  Suppressed and visible problems, skill and rating only narrow the
selection and are left to the nondeterministic choice in `Continue`.

Runs:

* `practice_race`: three calls, two request_ids, two payloads, three problems (two are submitted to,
  the third can only be offered by the queue), one clock reading, so that two completions always
  tie.  Three calls are the least with which a judge,
  its revoker and a third reader overlap; two request_ids the least that race for one completion.
  Calls and request_ids are symmetric.
* `practice_live`: three calls on one request_id under `FairSpec`, no symmetry.

Fairness is weak fairness of each call's steps: the event loop resumes a coroutine whose await
is over, and the judge client has its own timeouts.  Nothing is assumed of `Crash`.

### Proofs

`PracticeSubmit_proofs` proves `Spec => []PracticeInv` for any sets of calls, keys, payloads,
problems and clock readings.  The safety properties are not inductive: that a cached response agrees
with the tables depends on what each call holds between two steps.  The strengthening says that
for each call (`CallSound`):

* `Keyed`: from its first read on, a call works on the row of its request_id, bound to its payload;
* `SeenSound`: what it has read of a terminal row, or of a cached response, is still so;
* `DraftSound`: the response it is composing agrees with the tables already;
* `ReplySound`: a reply with a response is the cached one;

and of the tables `RowsSound` (a row is judging iff claimed, accepted iff it points to a completion)
and `LatestExists`, without which `CompletionTime` would take a CHOOSE from an empty set.  The key
fact is that `HoldsClaim` can be true of one call only, and that a verdict is never overwritten,
so `SeenSound` and `DraftSound` survive the steps of other calls.  From the invariant follow
`PracticeOneAnswer`, `PracticeSound` and the action properties `PracticeVerdictFinal` (the run checks
it as part of the contract) and `PracticeTimesGrow`.  `PracticeRefinesContract` maps each step to a contract step or a stutter:
`Claim` to `Bind`, the verdict steps to `Reject`, `Complete` to `Accept`, `StoreResponse` to
`Answer` (or a stutter if an answer is there already).

`PracticeQueueFresh` needs nothing of the calls: `QueueFresh` is about the tables only, and the only step
that writes `completions` or `continuations` is `Complete`, one transaction, which reads both before it writes.
It is inductive once it says that an active item has a problem.  `MarkedRows` is what the queue looks like after
the items of the solved problem are marked, `ContinueFresh` says that what is then offered is neither completed
nor offered; together they show that the unique index, which the model leaves out, never fails a completion.

The only assumption is `PracticeAssumption`, on the constants.  `EveryCallEnds` is checked by TLC
only; liveness is out of the prover's reach.

## Duels

One duel, between the account that created it and those that hold its invite code.  There is no
background job: every request first expires the duel if it is late, then acts on the rows it has read.

`DuelContract`: a duel starts once, closes once, is won by nobody or by a player whose solution
was accepted, and announces its result at most once per player, after the fact.
`Duel` has `Threads`, each serving one request:

| action | code |
|---|---|
| `Enter`, `Reread`, `Proceed` | `require_participant`, `get_duel`, `_maybe_expire`, the tests at the head of each endpoint |
| `CountSeats`, `TakeSeat` | `join_duel`: count, then insert |
| `MarkReady`, `Gather`, `Activate` | `mark_ready`, `start_duel`, `_activate` |
| `UseHint` | `use_hint` |
| `StartJudging`, `Judged`, `Record` | `submit_solution` around its await |
| `ReadRows`, `Close` | `_finalize_duel` |
| `Announce`, `Emit`, `Crown` | `_emit_completion_events`: the players, then `duel_completed` and `duel_won`, one transaction each |
| `View` | `public_detail`, `duel_state`, with which requests answer |
| `Tick`, `Crash` | time; a restart loses the requests in service |

Not modelled: creation, the choice of the problem, the branch of `_finalize_duel` for a duel whose
locked tests are missing, `last_seen_at`, `arena_opened_at`, the events that award no XP, and the
status `cancelled`, which no code assigns.  The reason of a result is not kept.

Runs (two threads each: every race here is between two requests; one tick each for the
waiting life, the countdown and the duration, and a clock that stops at the deadline because all later
readings pass the same tests):

* `duel_match` (1.4 million states): two players, one hint in the budget, one restart.  To stay small it is
  the creator who asks for the start, and the other who takes hints and may submit one wrong answer
  (`Ops`, `MaxWrong`); both submit.  The restart finds no submission under judgement (`RestartAt`), because its
  judging mark would then stay, which `JudgingShown` does not allow for.  It checks the inductive invariant
  `DuelInv`, the refinement of the contract, that the result is told once, `HintsBounded`: a player takes no
  more hints than the budget and the requests in flight, and `DuelEnds` under `FairSpec`: threads run, time
  passes, and some player's room polls its state, which the client does every one to two seconds.
  Without polling a duel is never closed: there is no other actor.
* `duel_full` expects a violation: three accounts, and `TwoSeats` says that at most two are seated.
  `join_duel` counts the participants on one connection and inserts on another (`duels.py:778`, `:786`), and the
  primary key of `duel_participants` only keeps one account from two seats, so two accounts that both count
  one player are both seated beside the creator.

### Proofs

`Duel_proofs` proves `Spec => []DuelInv` for any accounts, any number of requests in service, and restarts.
Requests act on rows read earlier, so the argument is, as in `SkillTrace`, that what they have read is never
taken back (`Grows`: seats stay taken, players stay ready, a solution stays accepted, a closed duel stays
closed).  The strengthening:

* `RoomSound`: a duel that has started has two ready players, and nobody's solution is accepted before
  (`SoundStart`; how many are seated is no part of it, for nothing bounds them);
* `RequestSound`: what a request has established at its step, `TwoReady` before `Activate`, a seat before
  `Record`, a verdict whose winner has an accepted solution before `Close`, is true and remains so;
* `TellingSound`: one thread at most is telling the result, only if the duel is completed, and what it has
  yet to tell (`ListSound`) has not been told: `Close` finds the duel open and closes it, so no other thread
  enters.

`DuelToldOnce`, `DuelSoundStart` and `DuelImplementsContract` follow, with any number of seats: `Activate` maps to the start, an accepting `Record` to the acceptance,
`Close` to the end, `Emit` and `Crown` to the announcements, all others to a stutter.

`DuelHintsBounded` is a count: `InFlight(u)` is the set of u's hint requests that have not answered, and the
hints taken and those in flight together stay below the budget and the number of `Threads`.  A request
enters the set only by `Enter`, which reads the hints taken and compares them with the budget, at a moment when
there are at most as many in flight as threads, itself included; `UseHint` takes a hint and leaves the set, so the sum stays.
This needs finitely many threads, at least one: `ThreadsAssumption`, which holds of a thread pool and is used by
this theorem only; the others hold for any set of threads.  `DuelEnds` is checked by TLC only.

## Session event ledger

Every step of a verification session is appended to a ledger whose rows are numbered and
hash-chained.  `append` reads the last row and inserts the next one: two steps, so that writers
race.  The constraint `UNIQUE (session_id, seq)` lets one of them win; the others read again,
`_APPEND_RETRIES` times at most.

`LedgerContract` is a log that only grows at its end and holds no event twice.  `EventLedger` has
any number of `Writers`, each calling `append` again and again:

| action | code |
|---|---|
| `Begin` | the call, a new `event_id` |
| `ReadLast` | `SELECT ... ORDER BY seq DESC LIMIT 1` |
| `Insert` | the INSERT commits |
| `Collide`, `GiveUp` | `IntegrityError`: read again, or raise after the last try |
| `Lost` | the request is killed, or SQLite raises something else |

The hash is what was hashed (SHA-256 is taken to be free of collisions).  `started` and `raised` are
history variables, which no guard reads.  `VerifyChain` is what `verify_chain` computes of *any*
table, so that `TamperEvident` can ask about altered ones.  Two things `verify_chain` does not see,
by construction of the code: that the last rows were removed, and a change of `trace_id` or
`request_id`, which the hash leaves out.

Run `ledger_append`: three writers (the least with which a loser loses again), two tries, two calls
each; the last writer to insert stands on a row that was itself raced for.  The run is finite because calls are
bounded, hence no deadlock check.

### Proofs

`EventLedger_proofs` proves `Spec => []LedgerInv` for any writers, retries and calls.  `ChainVerifies`
is not inductive, since a row is hashed over what its writer read earlier.  The strengthening:

* `Chained`: each row holds the hash of the row before it, and its own;
* `ReadSound`: what a writer holds between its two steps is a row of the table, its collisions are
  at most the rows added since it began, and its tries are not used up;
* `EventsOnce`: an `event_id` is used by one call, is in the table at most once, and not if it raised.

That `Insert` preserves `Chained` rests on `ReadSound`: the writer's `seq` is in `0..Len(rows)` and the
next number is free, hence it is the last.  `LedgerSequenced` (numbers without a gap, and no row of an
append that raised) is a conjunct of the invariant.  `TamperEvident` follows from `Chained`, since
hashing is injective; `RaisesOnlyContended` from the count of collisions in `ReadSound`;
`LedgerImplementsContract` maps `Insert` to `Record` and every other step to a stutter.  The
only assumption is `LedgerAssumption`, on the constants.

## SkillTrace

The owner of a verification session sends snapshots and runs, then submits.  The submission is sent
to the judge once per hidden test; results come back by callback or are fetched by the
reconciler; whoever records the last result completes the attempt, decides on the badge, writes the
private report and issues the badge.

`BadgeContract`: one decision, final, then the report, then a badge if and only if it was to be issued.
`SkillTrace` models one session with its owner's `Calls` (each served by a thread), the event `Loop`,
which serves one callback at a time because that route awaits nothing after its payload, and
`Reconcilers`:

| action | code |
|---|---|
| `Enter`, `Expire` | `_owned_session`, `_assert_active` |
| `RecordSnapshot`, `CountRuns`, `CreateRun`, `SubmitFinal` | the head of each operation |
| `Post`, `Track` | `Judge0Adapter.submit`: the request, then the row |
| `Judge` | the judge (external) |
| `Callback` | `handle_judge0_result` up to `record_result` |
| `Scan`, `Poll` | `reconcile_pending` |
| `Record`, `Check`, `Complete` | `record_result`, `_maybe_complete_attempt` |
| `Decide`, `DecidedAlready`, `Report`, `IssueBadge` | `_finalize_session` |
| `FailCall`, `FailHandler`, `Restart` | an exception of one request; a restart |

An append to the ledger is not a step of its own: `trail` counts the two event types that the
label depends on.  The chain is taken to be valid when it is read, which is what
`ChainVerifies` shows.  The clock is not kept: a call on an active session may
find it expired or not.  Submissions without a token, callbacks with a wrong one and verdicts that are not
final change nothing and are left out.  Not modelled: the choice of the challenge, usage quotas and
the content of reports.  The model has one event loop; with more workers (`docs/launch_checklist.md`)
callbacks would race with each other as they do with a reconciler here.

Runs (two calls: every race among calls is between two; two hidden tests, the least with which a result
is not the last; one reconciler beside the loop, so that two handlers record at once):

* `skill_session`: a submission beside a snapshot, a run, or another submission, on five sessions whose
  trails lie just below and at the thresholds of the label, two of them with one hidden test and one with no
  runs left; one failure anywhere.  Calls are bounded, hence no deadlock check.
* `skill_early`: no failures.  `submit_final` posts the tests one by one and `_maybe_complete_attempt`
  asks only whether all rows *so far* are done: the attempt may be decided on its first tests, and
  a badge stays although a later test fails.

Fairness in `FairSpec`: threads run; the judge reaches a verdict on what it has queued; the scheduler
calls the reconciler every two minutes (`docs/launch_checklist.md:37`).  No callback is ever
assumed, so `SubmissionSettles` is about the reconciler.  It excludes failures, with reason: after a restart between
recording the last result and completing the attempt nothing takes it up again.

### Proofs

`SkillTrace_proofs` proves `Spec => []SkillInv` for any calls, reconcilers, tests, runs and failures.
What the handlers compute rests on rows read earlier, so the argument is that none of it is ever taken
back (`Grows`): rows stay, results stay, completed attempts stay completed, the trail grows.
The strengthening:

* `CallSound`: a call sends its tests in order; what it has not sent the judge does not know and the
  table does not hold, so that neither is overwritten by `Post` and `Track`;
* `ResultsSound`: recorded results are the judge's;
* `HandlerSound`: what a handler has counted is true, the label it holds has its trail, and at `report` and
  `badge` it holds the recorded decision, alone;
* `DecisionSound`: the same of the decision, which precedes the report, which precedes the badge.

One handler at most publishes because `Decide` requires that there is no decision, and a handler at
`report` or `badge` implies that there is one.  From the invariant, which `skill_session` checks, follow `SkillBadgeEarned`,
`SkillCompletedIsDecided`, `SkillPublishedOnce`, `SkillNoneLeftBehind` and the refinement of
`BadgeContract`: `Decide`, `Report` and `IssueBadge` map to its three steps, all others to a stutter.
The only assumption is `SkillAssumption`, on the constants.  `SubmissionSettles` is checked by TLC only.

## Handle claims

A user who starts a claim gets a code, puts it on the public profile of the Codeforces handle, and asks
for verification: the profile is fetched live, and `handle_owners` receives the handle in one
transaction.  `HandleContract` says that a handle is given only when it is free, to an account that
exists, and taken away only with the account.  `HandleClaims` has `Threads`, each serving one request:

| action | code |
|---|---|
| `SignUp`, `CreateUser`, `DeleteUser` | `resolve_internal_user`; `auth.create_user`, which an administrator calls; `delete_user` |
| `AdminBind` | `admin_bind` |
| `ReadClaims` | `list_claims_for_user`, `get_active_claim`, which expire what is late as they read |
| `StartRead`, `StartInsert` | `start_claim`: the owner is read, then claims are superseded and one inserted |
| `GetClaim`, `CheckOwner`, `Supersede` | the head of `verify_claim` |
| `Fetch`, `ReadClock`, `Commit` | the live fetch, `now_dt`, the `BEGIN IMMEDIATE` block |
| `ShowCode`, `TimePasses`, `Lost` | the profile (external); `CLAIM_TTL_MINUTES` (30) pass; the request is killed |

A code is identified with its claim, since every UPDATE that takes a claim out of `pending` clears its code.
Foreign keys are not enforced (`store.connect` does not turn them on), so `StartInsert` may write a
claim of an account deleted since; `Commit` is safe because `delete_user` removes the claims that are there.

`create_user` writes the `users.handle` it is given without a row of `handle_owners`, so what that column says is
not always owned: it may be anything, the verified handle of another account too (`FreeText`).  The comment at
`handles.py:17` says as much: `users.handle` "is NOT authoritative", and an "admin-set `users.handle` value
grants no handle-scoped privileges".  `ClaimsAndOwnersAgree` is therefore about a column that a verification or
`admin_bind` wrote: that handle is owned by the account.  One reader takes the column at its word all the same: when an
administrator recomputes a snapshot for a user (`routes/gamification.py:173`), the events of that handle are
merged into it, whoever owns the handle.

Run `handle_claims` (1.4 million states, with symmetry): two accounts, two handles, two requests and two
claims, the least with which two accounts claim one handle at once, and one account two handles.  Claims
are bounded, hence no deadlock check.

### Proofs

`HandleClaims_proofs` proves `Spec => []HandleInv` for any accounts, handles, requests and number of claims.
`HandleProvedInTime` is not inductive: `Commit` trusts a fetch and a clock reading made before its lock.  The
strengthening uses again that claims and profiles only move forward (`Grows`): `RequestSound` says that a
request at `clock` has seen the code on the profile (`Seen`), and that one at `bind` whose clock reading was
in time has seen it in time, which `shown` records; `RowsSound` and `OwnersSound` tie claims, owners and the
handle column that a verification or a binding wrote together.  `CreateUser` takes an account from absent to active
without an owner, and the column it writes is in `FreeText`, outside `Handles`, so that nothing is claimed of it.  `HandleClaimsAgree` is a conjunct of it, and
`HandleImplementsContract` maps `SignUp` and `CreateUser`, `DeleteUser`, `AdminBind` and a `Commit` that binds to the
contract's steps, all others to a stutter.

## Billing

A webhook event is recorded, its payment completed, its grant inserted and its result recorded, in
four transactions; a delivery of an event already recorded does nothing.  An administrator's refund
marks the payment in one transaction and revokes the plan in another.

| action | code |
|---|---|
| `Checkout` | `_create_payment` |
| `Receive`, `Record` | `process_webhook`: the INSERT of the event, the UPDATE of its result |
| `ReadPayment`, `Complete`, `GrantPlan`, `Answer...` | `_apply_webhook_event`, its branches, `grant_entitlement` |
| `MarkRefunded`, `RevokePlan` | `refund_payment`, `revoke_entitlement` |
| `AdminGrant`, `AdminRevoke` | the two admin routes |
| `Cut`, `CutRefund` | the process stops between two transactions, or the database stays locked |

`Workers` are server processes: the webhook route is `async` and awaits nothing after its body, so one
process handles one event at a time, and only a second one lets two events of one payment overlap.

Run `billing_webhook` (3 million states, with symmetry): two workers, one refund request, three
completion events for one payment, another payment of the same user for the same plan whose only event is
not a completion, and at most three grants.

### Proofs

`Billing_proofs` proves `Spec => []BillingInv` for any payments, events, workers, refunds and grants.
`AppliedOnce` says that the grants of a payment are at most as many as the workers, which needs what is
underway counted in: `PaymentsSound` says that the grants of a payment and the workers about to grant
it are together at most the workers.  The sum grows only in `ReadPayment`, which finds the payment pending,
when there are no grants yet; `GrantPlan` trades a worker for a grant.  `EventsSound` says that an event in
progress is held by one worker only, without a result and without a grant until that worker inserts it; and
`RefundRevokes` rests on `GrantsSound` (a grant is of its payment's user and plan, which is what
`Revoked` tests) and on the fact that whoever is underway for a refunded payment has raced the refund.
The theorems: `BillingInvariant`, `BillingAppliedOnce`, `BillingPaidIsGranted`, `BillingRefundRevokes`.

## Statement queue

| action | code |
|---|---|
| `Prime`, `Enqueue` | `next_statement_job`, `_embedded_statement_relay`: rows for missing statements |
| `Expire`, `Select`, `Claim` | `lease_next_statement_jobs`, `claim_statement_ingest_batch` |
| `Fetch` | the relay's or the server's HTTP request (external): a page, a refusal, or gone |
| `RecordRead`, `RecordWrite` | `record_statement_job_result`: who holds the lease, then its clearing |
| `Reclaim`, `Store`, `Skip`, `Unreadable`, `Bump`, `Finish` | the explicit claim of one problem, `ingest_one`, and what each caller makes of its outcome |
| `AdminPage`, `AdminBatch` | `ingest-html`, the batch without leases |
| `Import` | `import_problem_database` |
| `LeaseEnds`, `DelayEnds`, `GiveUp`, `Cut` | time; failures |

Actors differ in what they do with an answer, and each branch is in the action at the place where the code
has it: a remote relay that has lost its lease is turned away, the embedded relay does not look;
a page that does not parse is counted as a failure by the relay route, and only logged by the embedded
loop, which leaves the row in processing without a lease.

A statement is one of `Statements`: missing; ingested from its page, or otherwise replaceable by it; from another
source and ready for display, which `ingest_one` leaves alone; or `raw`, marked `display_ready` on the strength of a
raw text only (`_classify`), which priming takes for missing and `ingest_one` leaves alone.  An import of the problem
archive overwrites whatever differs from what the archive holds (`problem_import.py:759-764`), so `Import` turns any
of them into any other at any moment, whatever the queue's row says: a row may be succeeded while its statement is
missing.  That is the case for which `enqueue_statement_ingest` puts a succeeded row back
(`store.py:2005-2012`; `Writes`), and the next priming does so.

Run `queue_relay` (660 thousand states): one problem handled at once by a remote relay, the embedded relay
and an administrator, beside imports.  The properties relate actors on one row, so a second problem adds none to
TLC's run; the proofs are for any number.  `QueueInv` is the inductive invariant, with `StuckOnlyIfDropped` among
its conjuncts: nothing is left in processing without a lease unless its handling was cut short.
`DoneWhenStored`: a step that makes a row succeeded or partial does so only while there is a statement, or just after an
import has taken away the one its actor had stored or found.  `withdrawn`, a history variable, holds those actors from
the import to their report, no longer.  `StoredAtLast`: again and again there is a statement, whatever imports take
away, unless the handling of its problem was cut short; a `raw` one counts, since no relay ever replaces it.

Fairness: handlers and time go on (weak); a page that is fetched again and again is at last served to each relay,
and one that is ingested again and again is at last parsed and stored, by one of those who ingest it (strong), for
without it no queue makes progress.  Nothing is assumed of imports, nor that a refused result is accepted.
`StoredAtLast` assumes one remote relay: two can livelock, each clearing the other's lease with a late result.

### Proofs

`Catalogue_proofs`, which holds the proofs of this module and of `ContestPipeline`, proves `Spec => []QueueInv` for
any problems, relays, embedded relays and administrators, and from it `QueueStuckOnlyIfDropped` and
`QueueDoneWhenStored`.  To the property `QueueInv` adds `ActorSound`: an actor past its selection has a
problem in hand, and at `finish` it is about to write one of four outcomes, of which those that call the row done
stand for a statement that is there, or for one that was withdrawn since.  The others' part of it survives every
step because only `Import` makes a statement missing, and it then puts every actor that is about to report it into
`withdrawn`; two actors may hold one job, and do in the code, but the invariant never needs the lease to be
exclusive.  `DoneWhenStored` follows since no step but `Finish` makes a row done (`OthersLeaveUndone`).  For
`StuckOnlyIfDropped` each step owes two things (`NoneStuck`): a row that it puts into processing without a lease is
in its own hands, and it turns away from such a row only by dropping it.  `Works(a, p)` names the steps at
which an actor has a row in hand.  That `Select` and `Prime` find a problem rests on the least number of a
set (`LeastOf`, `GreatestOf`), derived from the well-foundedness of the naturals.

## Packs

| action | code |
|---|---|
| `Enqueue`, `Reclaim`, `Select`, `Claim` | `enqueue_pack_jobs`, `reclaim_expired_leases`, `claim_pack_jobs` |
| `Build`, `Upsert`, `Complete`, `Write` | `process_pack_job`: generation, `upsert_practice_pack`, `complete_pack_job` |
| `Activate`, `Generate`, `Compare`, `Store` | `activate_oracle_packs` |
| `Seed`, `Look`, `InsertBuiltin` | `seed_builtin_duel_problem_packs` |
| `Import`, `LeaseEnds`, `Lose` | the catalogue sync; time; a thread that is lost |

A problem has at most two packs, the built-in and the generated one, distinguished by version.  Run
`packs_jobs` (2.8 million states): two workers, one activation and one seeding request on two
problems, one with a built-in pack and one whose generated pack is for review only; one lapse of a
lease under a slow worker and one lost thread.

### Proofs

`PackFactory_proofs` proves `Spec => []PackInv`, `PackOneActive` and `PackFailClosed` for any problems,
workers (with equal or different names), activations and requests.  `OneActive` is inductive because each
upsert deactivates the others and activates one in a single transaction, whatever was read before.
`FailClosed` needs `InHandSound`: an outcome is held only from the generation of a pack until it is written
down, and says `active` only of a problem that is not reviewed.  `LeasedIffProcessing` is what makes
`reclaim_expired_leases` find every abandoned job.

## Contests and sync

| action | code |
|---|---|
| `Poll`, `Look`, `Upsert`, `Check`, `Queue`, `Backfill` | `poll_contests`, `_upsert_contest`, `enqueue_contest_pipeline` |
| `Tick`, `Retry` | `tick_contest_pipelines` |
| `Start`, `List`, `Index`, `Complete`, `Raise`, `Fail` | `process_finished_contest` |
| `Request`, `Find`, `Create`, `FetchProblemset`, `FetchStale`, `Save`, `End` | `sync_problemset`, for the periodic task, a request, or the pipeline |
| `ContestEnds`, `Publish` | Codeforces |
| `Fault` (within others), `Lose` | a call that fails; a thread that is lost |

Run `contest_watch` (310 thousand states, about 90 seconds): two servers' watchers and one periodic sync on
one contest, one fault.  `PipelineInv` contains `SyncWorkedOn` (an active sync job is in the hands of a
thread that will end it, or a thread was lost) and `RunningWorkedOn` (a running contest is being
processed, or its watcher was lost).  `Processed` and `CaughtUp`: every contest that ends is processed and
every problem that is published imported, as long as no thread is lost.  One contest suffices for the
races, which are between servers and syncs; with it `BatchLimit` 2 never binds.  Fairness: the loops of the
servers go on, which is what `main.py` does with every exception of a round.

### Proofs

`Catalogue_proofs` proves `PipelineSpec => []PipelineInv` for any contests, servers, sync requests, batch limit and
number of faults (the names of the specification carry the component's name because that module extends
`StatementQueue` too).  `ThreadSound` says what a thread has in hand at each of its labels: a watcher that
queues, starts or processes a contest has one that is over, whatever list it was in, what it is about to save was
published, what it indexes is in the catalogue.  Others leave that as it is (`OthersKeep`), because contests stay finished,
published and imported.  Then a step owes, for its own thread (`ThreadStep`): that its sync job is where it is
(`JobsFollow`), and that a contest it leaves running is in its own hands or was running in another's
(`RunningFollows`).  The case that a test would hardly reach is that of two watchers on one contest: when one completes
or fails it, or queues it again, the status leaves `running` under the other, which is harmless; when the other then
goes on, no status is running without a watcher, because a watcher drops its contest only in the step that writes
another status.  `PipelineWorkedOn` states the two conjuncts by themselves.  `Processed` and `CaughtUp` are
checked by TLC only.

## What is proved and what is not

Each of the nine components has an inductive invariant proved for all values of its constants, and every safety
invariant, action property and refinement that a passing run checks is the statement of a theorem.  Each proof assumes
only the named ASSUMEs of its module, which TLC evaluates on every run.

Not proved, and checked by TLC on the instances above:

* liveness: `EveryCallEnds`, `DuelEnds`, `SubmissionSettles`, `StoredAtLast`, `Processed`, `CaughtUp`.  The prover has no
  rules for ENABLED, on which fairness rests;
* `NoBadgeWhenTestsFail` and `TwoSeats`, which are false of the code (`skill_early`, `duel_full`).

## Known divergences

Two are checked by runs that expect a violation:

* `skill_early`: `submit_final` posts the tests one by one and `_maybe_complete_attempt` asks only
  whether all rows *so far* are done: a badge stays although a later test fails.
* `duel_full`: two accounts that join a duel at once both count one participant (`duels.py:778`) and are both seated
  (`duels.py:786`), in spite of "This duel already has two participants." (`duels.py:780`).

The others were found while modelling.  The models contain the behaviour, and each property is
stated with it allowed:

* A request that read a waiting duel past its deadline expires it after another request has started
  it: `_maybe_expire` tests `expires_at` on the row it was given (`duels.py:549`).
* Concurrent hint requests exceed the budget, by at most the requests in flight (`duels.py:932`).
* The winner is decided on a snapshot of the participants: an acceptance or a hint that commits before the
  closing UPDATE is ignored, so the winner may rank behind another accepted player (`duels.py:601`).
* A restart between closing a duel and its events loses XP for good (`duels.py:656`).
* A stop after a payment is completed and before its grant loses the grant: every later
  delivery is answered as already processed (`billing.py:129`).
* The embedded relay leaves a row in processing without a lease when its page does not parse
  (`main.py:283`); neither priming (`relay.py`: "Keep the queue primed") nor "Expire abandoned leases" brings it back.
* A statement that is ready for display on the strength of its raw text (`raw_only`, `problem_import.py:300`) and has no
  statement proper is queued by every priming and skipped by every ingestion as succeeded: "unless missing again"
  holds of it for ever (`store.py:2005-2012`, `statement_ingest.py:113-127`).
* `scripts/import_missing_statements.py` says "Import only missing statement rows", but runs the import that
  overwrites any statement which differs from its archive, one ingested from a page too; it stays missing until the next priming if the
  archive has none.
* `create_user` sets `users.handle` to a handle that nobody verified, and `routes/gamification.py:173` merges the
  events of that handle when an administrator recomputes the account's snapshot.
* `lease_next_statement_jobs` says "Atomically lease", but its UPDATE does not repeat the test of its
  SELECT: two relays can hold one job.
* `activate_oracle_packs` compares versions in one transaction and stores in another
  (`pipeline.py:172`), so "Keep existing active pack unless we introduce a higher version" may fail
  against a concurrent seeding (`KeptUnlessHigher`, stated in `PackFactory` and not run), and a problem may be left
  without an active pack.
* A thread lost in a sync leaves its job running, and every later sync returns it; `main.py` says
  "TTL cannot leave the catalog stale for weeks".
* A contest is called complete even if Codeforces has not published its problems yet; a failed contest is
  retried again and again, where `pipeline.py` says "retry recent failures once".
* After a restart of the process between recording the last test and completing an attempt, or between a badge
  decision and its report, nothing takes the session up again (`skilltrace/sessions.py`).
* Each sync creates its own Codeforces client (`sync.py:75`, `sync.py:151`), so that what the circuit breaker has
  learnt is never shared.

## Not modelled, and why

* **Catalogue data.** `practice_packs/catalog/*.py` are 36,400 of the 67,500 lines of implementation:
  per-problem reference solutions, alternative solutions and input generators, pure functions of one string, of
  which the pipeline uses only whether they agree (`Recommended`).  Each would be a restatement of a solution, so the
  share of lines the models stand for stays small whatever is modelled.
* **Within modelled components.** Duels: creation and the choice of the problem, presence
  (`last_seen_at`), duels with missing tests.  SkillTrace: the choice of the challenge, quotas, contents of
  reports.  Statement queue: heartbeats and authentication of relays, the HTTP fetch.  Billing:
  usage limits, expiry of grants, customer records, removal of payments with the account.
  Handle claims: token verification, several identity providers.  Contests: lifecycle stages (recomputed from
  other tables), the TTL and age filters (every contest is recent), `sync_handle`, the rate limiter and
  the circuit breaker.
* **Teams, screening events, invites.** A smaller instance of check-then-insert, as in `join_duel`.
* **Gamification, leaderboards.** Folds over `product_events`; the writes are modelled at their source.
* **Planner, weakness, episodes, taxonomy; offline analysis; parsing of imported problems.** Pure or
  per-user numeric and text pipelines without a protocol.  What an import does to statements is `Import` of
  `StatementQueue`.
* **Coach, copilot, workspace.** Calls to a language model and per-user documents.
* **Backend jobs; HTTP layer.** A runner over, and wiring of, the components above; its
  transaction semantics are built into the choice of steps.

## Plan

Left: abstract contracts for `Billing`, `PackFactory`, `StatementQueue` and `ContestPipeline`, as the other components have
(the invariants state what such contracts would forbid); the lifecycle stages of contests, if they come to be written from more
than one place; invites of teams.
