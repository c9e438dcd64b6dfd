--------------------------- MODULE PracticeSubmit ---------------------------
(***************************************************************************)
(* POST /practice/submit for one signed-in account (contestiq_api/         *)
(* practice.py): the idempotent claim of a request_id, the await on the    *)
(* judge, the guarded verdict, the completion transaction, the response    *)
(* cache, and recovery by a later call.                                    *)
(*                                                                         *)
(* A call is one invocation of submit().  A step of a call is one SQLite   *)
(* transaction (or one autocommitted read) of the code, or the end of the  *)
(* await on the judge, so calls interleave as SQLite lets them.  Between   *)
(* two steps a call keeps only its locals: seen, the row it last read, and *)
(* draft, the response under construction.                                 *)
(*                                                                         *)
(* Accounts share no row (every statement filters on user_id), so one      *)
(* account is modelled.  A uuid4 is named by the event that draws it: a    *)
(* submission by its request_id, a claim token by its call, a completion   *)
(* by the submission that recorded it.                                     *)
(***************************************************************************)
EXTENDS Naturals

CONSTANTS
  RequestIds,   \* idempotency keys chosen by the client
  Payloads,     \* submission bodies, told apart by client_request_hash
  Problems,
  ProblemOf,    \* the problem a payload submits to
  Calls,        \* invocations of submit(), each used once
  Clock,        \* readings of the wall clock, which may step backwards
  None          \* no call, no request_id, no problem, no payload

ASSUME PracticeAssumption ==
  /\ ProblemOf \in [Payloads -> Problems]
  /\ Clock \subseteq Nat
  /\ None \notin RequestIds \cup Payloads \cup Problems \cup Calls

\* Verdicts of _judge_pack that are not "accepted": a judged failure, an
\* infrastructure failure, and a disconnected client.
Refusals == {"wrong_answer", "service_error", "canceled"}
Statuses == Refusals \cup {"accepted"}

Row == [status : Statuses \cup {"absent", "judging"}, payload : Payloads \cup {None},
        claim : Calls \cup {None}, completion : RequestIds \cup {None}]

NoRow == [status |-> "absent", payload |-> None, claim |-> None, completion |-> None]

\* A response, as far as two of them can differ: the verdict, the completion
\* block, and the progress snapshot (the practice events it was computed from).
Response == [status : Statuses \cup {"none"}, completion : RequestIds \cup {None},
             recorded : BOOLEAN, progress : SUBSET RequestIds]

NoResponse == [status |-> "none", completion |-> None, recorded |-> FALSE, progress |-> {}]

VARIABLES
  rows,           \* practice_submissions, by request_id
  responses,      \* their response_json column
  completions,    \* practice_completions, by problem
  continuations,  \* practice_continuations, by completion
  events,         \* product_events of type practice_problem_completed
  aged,           \* claims older than STALE_JUDGING_MINUTES
  pc, arg, seen, outcome, draft, reply   \* per call: control, inputs, locals, result

db    == <<rows, responses, completions, continuations, events>>
local == <<arg, seen, outcome, draft, reply>>
vars  == <<db, aged, pc, local>>

Init ==
  /\ rows = [k \in RequestIds |-> NoRow]
  /\ responses = [k \in RequestIds |-> NoResponse]
  /\ completions = [p \in Problems |-> [first |-> None, at |-> 0]]
  /\ continuations = [k \in RequestIds |-> [status |-> "none", problem |-> None]]
  /\ events = {}
  /\ aged = {}
  /\ pc = [c \in Calls |-> "idle"]
  /\ arg = [c \in Calls |-> [id |-> None, payload |-> None]]
  /\ seen = [c \in Calls |-> [row |-> NoRow, response |-> NoResponse]]
  /\ outcome = [c \in Calls |-> "canceled"]
  /\ draft = [c \in Calls |-> NoResponse]
  /\ reply = [c \in Calls |-> [kind |-> "none", body |-> NoResponse]]

-----------------------------------------------------------------------------
Key(c) == arg[c].id
Problem(c) == ProblemOf[arg[c].payload]
Goto(c, label) == pc' = [pc EXCEPT ![c] = label]

\* SELECT * FROM practice_submissions WHERE user_id = ? AND request_id = ?
ReadRow(c, k) == seen' = [seen EXCEPT ![c] = [row |-> rows[k], response |-> responses[k]]]

Finish(c, kind, body) ==
  /\ reply' = [reply EXCEPT ![c] = [kind |-> kind, body |-> body]]
  /\ Goto(c, "done")

\* Mutant of HoldsClaim: the UPDATE names the row and nothing else.
HoldsAnyRow(c) == rows[Key(c)].status # "absent"

\* The guard of _set_attempt_verdict: still judging, and under this call's claim.
HoldsClaim(c) == rows[Key(c)].status = "judging" /\ rows[Key(c)].claim = c

-----------------------------------------------------------------------------
\* _preflight_replay: a known request_id is resolved before anything else.
Preflight(c, k, payload) ==
  /\ pc[c] = "idle"
  /\ arg' = [arg EXCEPT ![c] = [id |-> k, payload |-> payload]]
  /\ ReadRow(c, k)
  /\ Goto(c, IF rows[k].status = "absent" THEN "claim" ELSE "resolve")
  /\ UNCHANGED <<db, aged, outcome, draft, reply>>

\* _active_pack raises: nothing is written and the request_id stays unused.
PackUnavailable(c) ==
  /\ pc[c] = "claim"
  /\ Finish(c, "PRACTICE_TESTS_UNAVAILABLE", NoResponse)
  /\ UNCHANGED <<db, aged, arg, seen, outcome, draft>>

\* Mutant of Claim: INSERT OR REPLACE.
ClaimReplacing(c) ==
  /\ pc[c] = "claim"
  /\ rows' = [rows EXCEPT ![Key(c)] = [status |-> "judging", payload |-> arg[c].payload,
                                       claim |-> c, completion |-> None]]
  /\ Goto(c, "judge")
  /\ UNCHANGED <<seen, responses, completions, continuations, events, aged, arg, outcome, draft, reply>>

\* _claim_attempt: INSERT OR IGNORE under UNIQUE(user_id, request_id).
Claim(c) ==
  /\ pc[c] = "claim"
  /\ \/ /\ rows[Key(c)].status = "absent"
        /\ rows' = [rows EXCEPT ![Key(c)] =
                      [status |-> "judging", payload |-> arg[c].payload,
                       claim |-> c, completion |-> None]]
        /\ Goto(c, "judge")
        /\ UNCHANGED seen
     \/ /\ rows[Key(c)].status # "absent"
        /\ ReadRow(c, Key(c))
        /\ Goto(c, "resolve")
        /\ UNCHANGED rows
  /\ UNCHANGED <<responses, completions, continuations, events, aged, arg, outcome, draft, reply>>

-----------------------------------------------------------------------------
(* _resolve_existing_attempt on the row the call has seen. *)

SamePayload(c) == seen[c].row.payload = arg[c].payload
Unanswered(c) == SamePayload(c) /\ seen[c].response = NoResponse

KeyReused(c) ==
  /\ pc[c] = "resolve"
  /\ ~ SamePayload(c)
  /\ Finish(c, "IDEMPOTENCY_KEY_REUSED", NoResponse)
  /\ UNCHANGED <<db, aged, arg, seen, outcome, draft>>

ReplayCached(c) ==
  /\ pc[c] = "resolve"
  /\ SamePayload(c)
  /\ seen[c].response # NoResponse
  /\ Finish(c, "response", seen[c].response)
  /\ UNCHANGED <<db, aged, arg, seen, outcome, draft>>

InProgress(c) ==
  /\ pc[c] = "resolve"
  /\ Unanswered(c)
  /\ seen[c].row.status = "judging"
  /\ Key(c) \notin aged
  /\ Finish(c, "PRACTICE_SUBMISSION_IN_PROGRESS", NoResponse)
  /\ UNCHANGED <<db, aged, arg, seen, outcome, draft>>

\* A stale claim is revoked by a guarded UPDATE; the row is then read again in
\* the same transaction and resolved once more, whoever changed it.
RevokeStale(c) ==
  /\ pc[c] = "resolve"
  /\ Unanswered(c)
  /\ seen[c].row.status = "judging"
  /\ Key(c) \in aged
  /\ LET k == Key(c)
         current == IF rows[k].status = "judging" /\ responses[k] = NoResponse
                    THEN [rows[k] EXCEPT !.status = "service_error", !.claim = None]
                    ELSE rows[k]
     IN  /\ rows' = [rows EXCEPT ![k] = current]
         /\ seen' = [seen EXCEPT ![c] = [row |-> current, response |-> responses[k]]]
  /\ UNCHANGED <<responses, completions, continuations, events, aged, pc, arg, outcome, draft, reply>>

\* Mutant of Recover: every accepted row claims to have recorded the completion.
RecoverRecorded(c) ==
  /\ pc[c] = "resolve"
  /\ Unanswered(c)
  /\ seen[c].row.status # "judging"
  /\ draft' = [draft EXCEPT ![c] =
                 [status |-> seen[c].row.status, completion |-> seen[c].row.completion,
                  recorded |-> seen[c].row.status = "accepted", progress |-> events]]
  /\ Goto(c, "store")
  /\ UNCHANGED <<db, aged, arg, seen, outcome, reply>>

\* _recover_terminal_response rebuilds the answer of a terminal row whose
\* response was never cached, from the completion the row points to.
Recover(c) ==
  /\ pc[c] = "resolve"
  /\ Unanswered(c)
  /\ seen[c].row.status # "judging"
  /\ LET row  == seen[c].row
         done == row.status = "accepted" /\ row.completion # None
     IN  draft' = [draft EXCEPT ![c] =
                     [status |-> row.status,
                      completion |-> IF done THEN row.completion ELSE None,
                      recorded |-> done /\ completions[Problem(c)].first = Key(c),
                      progress |-> events]]
  /\ Goto(c, "store")
  /\ UNCHANGED <<db, aged, arg, seen, outcome, reply>>

-----------------------------------------------------------------------------
\* The await on _judge_pack returns a verdict, or the task is cancelled.
Judged(c, v) ==
  /\ pc[c] = "judge"
  /\ outcome' = [outcome EXCEPT ![c] = v]
  /\ Goto(c, IF v = "accepted" THEN "complete" ELSE "verdict")
  /\ UNCHANGED <<db, aged, arg, seen, draft, reply>>

\* asyncio.CancelledError: the verdict is recorded, nobody is answered.
TaskCancelled(c) ==
  /\ pc[c] = "judge"
  /\ rows' = IF HoldsClaim(c)
             THEN [rows EXCEPT ![Key(c)].status = "canceled", ![Key(c)].claim = None]
             ELSE rows
  /\ Finish(c, "aborted", NoResponse)
  /\ UNCHANGED <<responses, completions, continuations, events, aged, arg, seen, outcome, draft>>

\* The second is_cancelled() check, after an accepted verdict.
Disconnected(c) ==
  /\ pc[c] = "complete"
  /\ outcome' = [outcome EXCEPT ![c] = "canceled"]
  /\ Goto(c, "verdict")
  /\ UNCHANGED <<db, aged, arg, seen, draft, reply>>

\* _set_attempt_verdict for an outcome that did not pass; a call whose claim
\* was revoked leaves the row alone and replays it.
SetVerdict(c) ==
  /\ pc[c] = "verdict"
  /\ \/ /\ HoldsClaim(c)
        /\ rows' = [rows EXCEPT ![Key(c)].status = outcome[c], ![Key(c)].claim = None]
        /\ draft' = [draft EXCEPT ![c] = [NoResponse EXCEPT !.status = outcome[c]]]
        /\ Goto(c, "compose")
     \/ /\ ~ HoldsClaim(c)
        /\ Goto(c, "replay")
        /\ UNCHANGED <<rows, draft>>
  /\ UNCHANGED <<responses, completions, continuations, events, aged, arg, seen, outcome, reply>>

-----------------------------------------------------------------------------
(* _complete_authenticated, one BEGIN IMMEDIATE transaction. *)

\* The SELECT on (user_id, problem_id, completion_mode).
Completed(p) == completions[p].first # None

CompletionTimes == {completions[p].at : p \in {q \in Problems : Completed(q)}}

\* Mutant of CompletionTime: the wall clock as it reads.
CompletionTimeWall(now) == now

\* _monotonic_completion_time: MAX(completed_at) plus one tick when the clock
\* reads no later than it.
CompletionTime(now) ==
  IF \A t \in CompletionTimes : t < now
  THEN now
  ELSE 1 + CHOOSE t \in CompletionTimes : \A s \in CompletionTimes : s <= t

\* Mutant of Selectable: only completions are excluded.
SelectableAgain(p) == {q \in Problems \ {p} : ~ Completed(q)}

\* What _select_next may still offer: no completed problem and no problem of an
\* earlier continuation.
Offered == {continuations[k].problem : k \in RequestIds}
Selectable(p) == {q \in Problems \ {p} : ~ Completed(q) /\ q \notin Offered}

\* The continuation of completion k: kept if there is one, left out if the
\* selection failed, else a selectable problem, or exhaustion.
Continue(k, p, marked) ==
  \/ continuations' = marked
  \/ /\ marked[k].status = "none"
     /\ \/ \E q \in Selectable(p) :
             continuations' = [marked EXCEPT ![k] = [status |-> "active", problem |-> q]]
        \/ continuations' = [marked EXCEPT ![k] = [status |-> "exhausted", problem |-> None]]

\* Mutant of MarkCompleted: a status the CHECK constraint does not know.
MarkDone(p) ==
  [k \in RequestIds |->
     IF continuations[k].status = "active" /\ continuations[k].problem = p
     THEN [continuations[k] EXCEPT !.status = "done"] ELSE continuations[k]]

\* _mark_owned_items_completed: the queue item that led to p is done.
MarkCompleted(p) ==
  [k \in RequestIds |->
     IF continuations[k].status = "active" /\ continuations[k].problem = p
     THEN [continuations[k] EXCEPT !.status = "completed"] ELSE continuations[k]]

Complete(c, now) ==
  /\ pc[c] = "complete"
  /\ HoldsClaim(c)
  /\ LET k == Key(c)
         p == Problem(c)
         recorded == ~ Completed(p)
         first == IF recorded THEN k ELSE completions[p].first
     IN  /\ rows' = [rows EXCEPT ![k].status = "accepted", ![k].claim = None,
                                 ![k].completion = first]
         /\ IF recorded
            THEN /\ completions' = [completions EXCEPT ![p] =
                                      [first |-> k, at |-> CompletionTime(now)]]
                 /\ events' = events \cup {k}
                 /\ Continue(k, p, MarkCompleted(p))
            ELSE /\ UNCHANGED <<completions, events>>
                 /\ Continue(first, p, continuations)
         /\ draft' = [draft EXCEPT ![c] =
                        [status |-> "accepted", completion |-> first,
                         recorded |-> recorded, progress |-> {}]]
  /\ Goto(c, "compose")
  /\ UNCHANGED <<responses, aged, arg, seen, outcome, reply>>

\* ClaimRevoked rolls the transaction back.
CompleteRevoked(c) ==
  /\ pc[c] = "complete"
  /\ ~ HoldsClaim(c)
  /\ Goto(c, "replay")
  /\ UNCHANGED <<db, aged, local>>

-----------------------------------------------------------------------------
\* The progress snapshot is read after the verdict has committed.
Compose(c) ==
  /\ pc[c] = "compose"
  /\ draft' = [draft EXCEPT ![c].progress = events]
  /\ Goto(c, "store")
  /\ UNCHANGED <<db, aged, arg, seen, outcome, reply>>

\* Mutant of StoreResponse: the last response wins.
StoreLatest(c) ==
  /\ pc[c] = "store"
  /\ responses' = [responses EXCEPT ![Key(c)] = draft[c]]
  /\ Finish(c, "response", draft[c])
  /\ UNCHANGED <<rows, completions, continuations, events, aged, arg, seen, outcome, draft>>

\* _store_response: the first cached response wins, and every writer returns it.
StoreResponse(c) ==
  /\ pc[c] = "store"
  /\ LET k == Key(c)
         kept == IF responses[k] = NoResponse THEN draft[c] ELSE responses[k]
     IN  /\ responses' = [responses EXCEPT ![k] = kept]
         /\ Finish(c, "response", kept)
  /\ UNCHANGED <<rows, completions, continuations, events, aged, arg, seen, outcome, draft>>

\* Mutant of Replay: the call tries to complete again.
ReplayRetries(c) ==
  /\ pc[c] = "replay"
  /\ ReadRow(c, Key(c))
  /\ Goto(c, "complete")
  /\ UNCHANGED <<db, aged, arg, outcome, draft, reply>>

\* _preflight_replay again, after losing the claim.
Replay(c) ==
  /\ pc[c] = "replay"
  /\ ReadRow(c, Key(c))
  /\ Goto(c, "resolve")
  /\ UNCHANGED <<db, aged, arg, outcome, draft, reply>>

-----------------------------------------------------------------------------
\* The process dies, or an unexpected exception ends the call, between two steps.
Crash(c) ==
  /\ pc[c] \notin {"idle", "done", "crashed"}
  /\ Goto(c, "crashed")
  /\ UNCHANGED <<db, aged, local>>

\* Fifteen minutes pass since the claim was taken.
GrowStale(k) ==
  /\ rows[k].status = "judging"
  /\ k \notin aged
  /\ aged' = aged \cup {k}
  /\ UNCHANGED <<db, pc, local>>

Step(c) ==
  \/ PackUnavailable(c) \/ Claim(c)
  \/ KeyReused(c) \/ ReplayCached(c) \/ InProgress(c) \/ RevokeStale(c) \/ Recover(c)
  \/ (\E v \in Statuses : Judged(c, v)) \/ TaskCancelled(c) \/ Disconnected(c)
  \/ SetVerdict(c) \/ (\E now \in Clock : Complete(c, now)) \/ CompleteRevoked(c)
  \/ Compose(c) \/ StoreResponse(c) \/ Replay(c)

Next ==
  \/ \E c \in Calls : \/ \E k \in RequestIds, payload \in Payloads : Preflight(c, k, payload)
                      \/ Step(c)
                      \/ Crash(c)
  \/ \E k \in RequestIds : GrowStale(k)

Spec == Init /\ [][Next]_vars

\* The event loop resumes every coroutine whose await is over, and the judge
\* client's own timeouts end the await.
Fairness == \A c \in Calls : WF_vars(Step(c))
FairSpec == Spec /\ Fairness

-----------------------------------------------------------------------------
Labels == {"idle", "claim", "resolve", "judge", "verdict", "complete", "compose",
           "store", "replay", "done", "crashed"}

ReplyKinds == {"none", "response", "aborted", "PRACTICE_TESTS_UNAVAILABLE",
               "IDEMPOTENCY_KEY_REUSED", "PRACTICE_SUBMISSION_IN_PROGRESS"}

\* Every table row and every local of a call has its declared shape.
TypeOK ==
  /\ rows \in [RequestIds -> Row]
  /\ responses \in [RequestIds -> Response]
  /\ completions \in [Problems -> [first : RequestIds \cup {None}, at : Nat]]
  /\ continuations \in [RequestIds -> [status : {"none", "active", "completed", "exhausted"},
                                       problem : Problems \cup {None}]]
  /\ events \subseteq RequestIds
  /\ aged \subseteq RequestIds
  /\ pc \in [Calls -> Labels]
  /\ arg \in [Calls -> [id : RequestIds \cup {None}, payload : Payloads \cup {None}]]
  /\ seen \in [Calls -> [row : Row, response : Response]]
  /\ outcome \in [Calls -> Statuses]
  /\ draft \in [Calls -> Response]
  /\ reply \in [Calls -> [kind : ReplyKinds, body : Response]]

\* Two calls that answer the same request_id with a response answer with the
\* same one, whichever of them judged, recovered or replayed it
\* (_store_response, "return the same response").
OneAnswer ==
  \A c, d \in Calls :
    /\ reply[c].kind = "response"
    /\ reply[d].kind = "response"
    /\ Key(c) = Key(d)
    => reply[c] = reply[d]

\* A problem is completed exactly when some submission of it was accepted, its
\* first submission is one of those, and each of them points to that completion.
AcceptedIffCompleted ==
  \A p \in Problems :
    LET accepted == {k \in RequestIds : /\ rows[k].status = "accepted"
                                        /\ ProblemOf[rows[k].payload] = p}
        first == completions[p].first
    IN  /\ accepted = {} <=> first = None
        /\ accepted # {} => first \in accepted
        /\ \A k \in accepted : rows[k].completion = first

\* The account is rewarded once per completed problem: the practice events are
\* exactly the first accepted submissions.
OneRewardPerCompletion ==
  events = {completions[p].first : p \in Problems} \ {None}

\* What a response says of request_id k agrees with the tables: the row's
\* verdict, the completion, and "recorded" for the submission that recorded it.
Agrees(k, response) ==
  /\ response.status = rows[k].status
  /\ response.completion = rows[k].completion
  /\ response.recorded <=> k \in events

\* A cached response agrees with the tables for good, and its progress snapshot
\* counts the completion it reports, whether the judging call or a recovering
\* one composed it.
HonestAnswer ==
  \A k \in RequestIds :
    responses[k] # NoResponse =>
      /\ Agrees(k, responses[k])
      /\ responses[k].recorded => k \in responses[k].progress

\* The queue never holds an item whose problem the account has completed (an active item
\* names one), and never offers one problem twice, so the unique index on (user_id, problem_id)
\* never rolls a completion back.
QueueFresh ==
  \A j, k \in RequestIds :
    /\ continuations[k].status = "active" =>
         /\ continuations[k].problem # None
         /\ completions[continuations[k].problem].first = None
    /\ /\ j # k
       /\ continuations[j].problem # None
       => continuations[j].problem # continuations[k].problem

\* A verdict, once given, is final, and so is a cached response: no late judge,
\* recovery or retry changes either.
VerdictFinal ==
  [][\A k \in RequestIds :
       /\ rows[k].status \in Statuses => rows'[k] = rows[k]
       /\ responses[k] # NoResponse => responses'[k] = responses[k]]_vars

\* Completion times follow the order of the transactions even when the wall
\* clock steps back ("deterministic XP replay").
CompletionTimesGrow ==
  [][\A p, q \in Problems :
       /\ completions[p].first = None
       /\ completions'[p].first # None
       /\ completions[q].first # None
       => completions'[p].at > completions[q].at]_vars

-----------------------------------------------------------------------------
(* The inductive invariant behind the safety properties. *)

\* A row is unused, under judgement by the call that claimed it, or terminal.
RowsSound ==
  \A k \in RequestIds :
    /\ rows[k].status = "absent" <=> rows[k].payload = None
    /\ rows[k].status = "judging" <=> rows[k].claim # None
    /\ rows[k].status = "accepted" <=> rows[k].completion # None
    /\ responses[k] # NoResponse <=> responses[k].status # "none"

\* A call past its first read works on the row of its own request_id, and the
\* row is bound to its payload unless the call is about to find out otherwise;
\* an accepted outcome never takes the path of a refusal.
Keyed(c) ==
  /\ pc[c] # "idle" => arg[c].id \in RequestIds /\ arg[c].payload \in Payloads
  /\ pc[c] \in {"judge", "verdict", "complete", "compose", "store", "replay"} =>
       rows[Key(c)].payload = arg[c].payload
  /\ pc[c] \in {"compose", "store"} => rows[Key(c)].status \in Statuses
  /\ pc[c] = "verdict" => outcome[c] \in Refusals

\* What a call has read of a row stays true of it: the payload always, the
\* verdict and the response once they are there.
SeenSound(c) ==
  pc[c] = "resolve" =>
    LET row == seen[c].row
    IN  /\ row.status # "absent" /\ rows[Key(c)].status # "absent"
        /\ row.payload = rows[Key(c)].payload
        /\ row.status \in Statuses => row = rows[Key(c)]
        /\ seen[c].response # NoResponse => seen[c].response = responses[Key(c)]

\* A response agrees with the tables as soon as it is composed.
DraftSound(c) ==
  /\ pc[c] \in {"compose", "store"} => Agrees(Key(c), draft[c])
  /\ pc[c] = "store" /\ draft[c].recorded => Key(c) \in draft[c].progress

\* A reply that carries a response carries the cached one.
ReplySound(c) ==
  reply[c].kind = "response" =>
    /\ pc[c] # "idle"
    /\ responses[Key(c)] # NoResponse
    /\ reply[c].body = responses[Key(c)]

CallSound(c) == Keyed(c) /\ SeenSound(c) /\ DraftSound(c) /\ ReplySound(c)

\* Some completion is the latest one.
LatestExists ==
  CompletionTimes # {} => \E t \in CompletionTimes : \A s \in CompletionTimes : s <= t

PracticeInv ==
  /\ TypeOK
  /\ RowsSound
  /\ \A c \in Calls : CallSound(c)
  /\ LatestExists
  /\ AcceptedIffCompleted
  /\ OneRewardPerCompletion
  /\ HonestAnswer

\* Every call that is not killed ends with a reply.
EveryCallEnds == \A c \in Calls : pc[c] # "idle" ~> pc[c] \in {"done", "crashed"}

\* The abstract contract this module implements.
Contract == INSTANCE PracticeContract WITH
  Verdicts <- Refusals,
  NoPayload <- None,
  bound <- [k \in RequestIds |-> rows[k].payload],
  verdict <- [k \in RequestIds |-> IF rows[k].status \in Statuses
                                   THEN rows[k].status ELSE "open"],
  answered <- {k \in RequestIds : responses[k] # NoResponse},
  credited <- [p \in Problems |-> {completions[p].first} \ {None}]

\* Every behaviour of submit() is one the contract allows.
ImplementsContract == Contract!Spec
=============================================================================
