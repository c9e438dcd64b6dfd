-------------------------------- MODULE Duel --------------------------------
(***************************************************************************)
(* One duel (contestiq_api/duels.py): the waiting room, the start, hints,  *)
(* submissions judged across an await, and the race of requests to decide  *)
(* and close it.                                                           *)
(*                                                                         *)
(* A thread serves one request at a time.  A step of a thread is one       *)
(* SQLite transaction, one autocommitted read, or the end of the await on  *)
(* the judge; the routes are plain functions served by a thread pool (and  *)
(* one coroutine), so the steps of two requests interleave.  A request     *)
(* acts on the rows it has read, which other requests may have changed.    *)
(*                                                                         *)
(* Its first reads (the caller's participant row, the duel row) are one    *)
(* step: a request that could tell them apart fails its status test.       *)
(***************************************************************************)
EXTENDS Naturals, Sequences, FiniteSets

CONSTANTS
  Users,         \* accounts that hold the invite code
  Creator,
  Threads,       \* requests in service at one time
  Ops,           \* the endpoints each account calls
  HintsMax,      \* DUEL_HINTS_MAX
  WaitingLife, Countdown, Duration,   \* timedeltas, in ticks
  MaxWrong,      \* bounds of the model: wrong attempts of each account,
  MaxCrashes,    \* restarts,
  RestartAt,     \* and where a restart may find a request
  None

Endpoints == {"join", "ready", "start", "hint", "submit", "state"}

ASSUME DuelAssumption ==
  /\ Creator \in Users
  /\ None \notin Users
  /\ HintsMax \in Nat
  /\ {WaitingLife, Countdown, Duration} \subseteq Nat \ {0}
  /\ MaxCrashes \in Nat

ASSUME BoundsAssumption ==
  /\ Ops \in [Users -> SUBSET Endpoints]
  /\ MaxWrong \in [Users -> Nat]

\* Some requests are served, and not infinitely many at one time.
ASSUME ThreadsAssumption == IsFiniteSet(Threads) /\ Threads # {}

Closed == {"completed", "expired"}
Kinds == {"completed", "won"}
FinalStatuses == {"pending", "accepted", "failed", "no_submission"}

\* A duel_participants row; accepted is accepted_at, 0 when NULL.
Player == [ready : BOOLEAN, hints : Nat, wrong : Nat, accepted : Nat, judging : BOOLEAN,
           final : FinalStatuses]

NewPlayer == [ready |-> FALSE, hints |-> 0, wrong |-> 0, accepted |-> 0, judging |-> FALSE,
              final |-> "pending"]

Verdict == [status : Closed \cup {"undecided"}, winner : Users \cup {None}]
Undecided == [status |-> "undecided", winner |-> None]

VARIABLES
  duel,      \* the duel_matches row
  seats,     \* participants in joined_at order
  player,    \* their rows
  told,      \* product_events duel_completed and duel_won, counted
  now,
  crashes,
  pc,        \* per thread
  req,       \* the request a thread serves, and what it has read
  todo       \* the participants to whom a thread has yet to announce the result

rowsVars == <<duel, seats, player, told>>
vars == <<rowsVars, now, crashes, pc, req, todo>>

\* What a request remembers between two steps: from the caller's row, whether
\* the hints are spent (hint_count) and a solution was accepted (accepted_at);
\* in _finalize_duel, the decision and the final_status it gives each participant.
NoRequest == [op |-> "none", user |-> None, spent |-> FALSE, solved |-> FALSE, passed |-> FALSE,
              timeout |-> FALSE, after |-> "idle",
              verdict |-> Undecided, finals |-> [u \in Users |-> None]]

Init ==
  /\ duel = [status |-> "waiting", starts |-> 0, expires |-> WaitingLife, winner |-> None]
  /\ seats = <<Creator>>
  /\ player = [u \in Users |-> NewPlayer]
  /\ told = [kind \in Kinds |-> [u \in Users |-> 0]]
  /\ now = 0
  /\ crashes = 0
  /\ pc = [t \in Threads |-> "idle"]
  /\ req = [t \in Threads |-> NoRequest]
  /\ todo = [t \in Threads |-> <<>>]

-----------------------------------------------------------------------------
Seated == {seats[i] : i \in 1..Len(seats)}
Late == now >= duel.expires
Goto(t, label) == pc' = [pc EXCEPT ![t] = label]

Finish(t) ==
  /\ pc' = [pc EXCEPT ![t] = "idle"]
  /\ req' = [req EXCEPT ![t] = NoRequest]

\* The request will answer with a view of the duel.
Answer(t) ==
  /\ pc' = [pc EXCEPT ![t] = "view"]
  /\ req' = [req EXCEPT ![t] = NoRequest]

\* Control passes to _finalize_duel, and then to the label after; nothing else
\* the request has read is used again.
Finalize(t, timeout, after) ==
  /\ pc' = [pc EXCEPT ![t] = "decide"]
  /\ req' = [req EXCEPT ![t] = [NoRequest EXCEPT !.timeout = timeout, !.after = after]]

Return(t) ==
  CASE req[t].after = "idle" -> Finish(t)
    [] req[t].after = "view" -> Answer(t)
    [] OTHER -> /\ Goto(t, "reread")
                /\ req' = [req EXCEPT ![t].timeout = FALSE, ![t].verdict = Undecided,
                                      ![t].finals = NoRequest.finals]

-----------------------------------------------------------------------------
\* Mutant of Proceed: the hint budget is not tested.
ProceedSpent(t, r) ==
  LET playing == duel.status = "active" /\ now >= duel.starts
      allowed == CASE r.op \in {"join", "ready", "start"} -> duel.status = "waiting"
                   [] r.op \in {"hint", "submit"} -> playing
                   [] OTHER -> FALSE
  IN  IF allowed
      THEN /\ pc' = [pc EXCEPT ![t] = r.op]
           /\ req' = [req EXCEPT ![t] = r]
      ELSE IF r.op \in {"ready", "start"} /\ duel.status = "active" THEN Answer(t) ELSE Finish(t)

\* The status, countdown and hint tests of every endpoint on the rows that were
\* read; the request goes on, ends in an error, or answers with a view.
Proceed(t, r) ==
  LET playing == duel.status = "active" /\ now >= duel.starts
      allowed == CASE r.op \in {"join", "ready", "start"} -> duel.status = "waiting"
                   [] r.op = "hint" -> playing /\ ~ r.spent
                   [] r.op = "submit" -> playing
                   [] OTHER -> FALSE
  IN  IF allowed
      THEN /\ pc' = [pc EXCEPT ![t] = r.op]
           /\ req' = [req EXCEPT ![t] = r]
      ELSE IF r.op \in {"ready", "start"} /\ duel.status = "active" THEN Answer(t) ELSE Finish(t)

\* A request arrives: require_participant (join needs the invite code only),
\* get_duel and the test of _maybe_expire.
Enter(t, op, u) ==
  /\ pc[t] = "idle"
  /\ op \in Ops[u]
  /\ op = "join" \/ u \in Seated
  /\ LET r == [NoRequest EXCEPT !.op = op, !.user = u,
                                !.spent = op = "hint" /\ player[u].hints >= HintsMax,
                                !.solved = op = "submit" /\ player[u].accepted # 0]
     IN  IF duel.status \notin Closed /\ Late
         THEN /\ Goto(t, "decide")
              /\ req' = [req EXCEPT ![t] = [r EXCEPT !.timeout = TRUE, !.after = "reread"]]
         ELSE Proceed(t, r)
  /\ UNCHANGED <<rowsVars, now, crashes, todo>>

\* The end of _maybe_expire: the duel is read again.
Reread(t) ==
  /\ pc[t] = "reread"
  /\ Proceed(t, [req[t] EXCEPT !.after = "idle"])
  /\ UNCHANGED <<rowsVars, now, crashes, todo>>

\* public_detail and duel_state, with which ready, start and submit answer:
\* the duel is read, and expired if it is past its time.
View(t) ==
  /\ pc[t] = "view"
  /\ IF duel.status \notin Closed /\ Late THEN Finalize(t, TRUE, "idle") ELSE Finish(t)
  /\ UNCHANGED <<rowsVars, now, crashes, todo>>

-----------------------------------------------------------------------------
(* The waiting room. *)

\* join_duel counts the participants, then inserts: DUEL_FULL is decided on a
\* read that the INSERT does not repeat.
CountSeats(t) ==
  /\ pc[t] = "join"
  /\ IF req[t].user \in Seated \/ Len(seats) >= 2
     THEN Finish(t)
     ELSE Goto(t, "insert") /\ UNCHANGED req
  /\ UNCHANGED <<rowsVars, now, crashes, todo>>

\* A second row of the same player breaks the primary key.
TakeSeat(t) ==
  /\ pc[t] = "insert"
  /\ seats' = IF req[t].user \in Seated THEN seats ELSE Append(seats, req[t].user)
  /\ Finish(t)
  /\ UNCHANGED <<duel, player, told, now, crashes, todo>>

\* mark_ready, and start_duel which changes nothing here.
MarkReady(t) ==
  /\ pc[t] \in {"ready", "start"}
  /\ player' = IF pc[t] = "ready"
               THEN [player EXCEPT ![req[t].user].ready = TRUE] ELSE player
  /\ Goto(t, "gather")
  /\ UNCHANGED <<duel, seats, told, now, crashes, req, todo>>

\* list_participants: two of them, and all ready.
Gather(t) ==
  /\ pc[t] = "gather"
  /\ IF Len(seats) >= 2 /\ \A u \in Seated : player[u].ready
     THEN Goto(t, "activate") /\ UNCHANGED req
     ELSE IF req[t].op = "ready" THEN Answer(t) ELSE Finish(t)
  /\ UNCHANGED <<rowsVars, now, crashes, todo>>

\* Mutant of Activate: the UPDATE is not guarded by the status.
ActivateUnguarded(t) ==
  /\ pc[t] = "activate"
  /\ duel' = [duel EXCEPT !.status = "active", !.starts = now + Countdown,
                               !.expires = now + Countdown + Duration]
  /\ Answer(t)
  /\ UNCHANGED <<seats, player, told, now, crashes, todo>>

\* _activate: UPDATE ... WHERE status = 'waiting'.
Activate(t) ==
  /\ pc[t] = "activate"
  /\ duel' = IF duel.status = "waiting"
             THEN [duel EXCEPT !.status = "active", !.starts = now + Countdown,
                               !.expires = now + Countdown + Duration]
             ELSE duel
  /\ Answer(t)
  /\ UNCHANGED <<seats, player, told, now, crashes, todo>>

-----------------------------------------------------------------------------
(* Hints and submissions. *)

\* use_hint: hint_count + 1, whatever the count is by now.
UseHint(t) ==
  /\ pc[t] = "hint"
  /\ player' = [player EXCEPT ![req[t].user].hints = @ + 1]
  /\ Finalize(t, FALSE, "idle")
  /\ UNCHANGED <<duel, seats, told, now, crashes, todo>>

StartJudging(t) ==
  /\ pc[t] = "submit"
  /\ player' = [player EXCEPT ![req[t].user].judging = TRUE]
  /\ Goto(t, "judge")
  /\ UNCHANGED <<duel, seats, told, now, crashes, req, todo>>

\* Mutant of Judged: judging_at is cleared after the loop, not in `finally`.
JudgedNoFinally(t, verdict) ==
  /\ pc[t] = "judge"
  /\ verdict = "fail" => player[req[t].user].wrong < MaxWrong[req[t].user]
  /\ player' = IF verdict = "error" THEN player
               ELSE [player EXCEPT ![req[t].user].judging = FALSE]
  /\ IF verdict = "error"
     THEN Finish(t)
     ELSE /\ req' = [req EXCEPT ![t].passed = (verdict = "pass")]
          /\ Goto(t, "record")
  /\ UNCHANGED <<duel, seats, told, now, crashes, todo>>

\* The await ends with a verdict or an exception; `finally` clears judging_at.
Judged(t, verdict) ==
  /\ pc[t] = "judge"
  /\ verdict = "fail" => player[req[t].user].wrong < MaxWrong[req[t].user]
  /\ player' = [player EXCEPT ![req[t].user].judging = FALSE]
  /\ IF verdict = "error"
     THEN Finish(t)
     ELSE /\ req' = [req EXCEPT ![t].passed = (verdict = "pass")]
          /\ Goto(t, "record")
  /\ UNCHANGED <<duel, seats, told, now, crashes, todo>>

\* The submission row and the participant's counters, guarded by the
\* participant row that was read before the await.
Record(t) ==
  /\ pc[t] = "record"
  /\ LET u == req[t].user
         first == ~ req[t].solved
     IN  player' = CASE first /\ req[t].passed ->
                          [player EXCEPT ![u].accepted = now, ![u].final = "accepted"]
                     [] first /\ ~ req[t].passed ->
                          [player EXCEPT ![u].wrong = @ + 1,
                                         ![u].final = IF @ = "pending" THEN "failed" ELSE @]
                     [] OTHER -> player
  /\ IF req[t].passed THEN Finalize(t, FALSE, "view") ELSE Answer(t)
  /\ UNCHANGED <<duel, seats, told, now, crashes, todo>>

-----------------------------------------------------------------------------
(* _finalize_duel. *)

\* Winner v2: fewer hints, then the earlier acceptance, then fewer wrong
\* attempts (_rank_key).
RanksBefore(p, q) ==
  \/ p.hints < q.hints
  \/ p.hints = q.hints /\ p.accepted < q.accepted
  \/ p.hints = q.hints /\ p.accepted = q.accepted /\ p.wrong < q.wrong

\* Mutant of Expiry: with nobody accepted there is nothing to decide.
ExpiryNever(timeout) == Undecided

\* Nobody's solution is accepted: a draw once the time is over.
Expiry(timeout) == IF timeout THEN [status |-> "expired", winner |-> None] ELSE Undecided

\* The decision on the participants as read: order is the join order, rows their rows.
Decision(order, rows, timeout) ==
  LET members  == {order[i] : i \in 1..Len(order)}
      accepted == {u \in members : rows[u].accepted # 0}
      opponents(u) == {i \in 1..Len(order) : order[i] # u}
      opponent(u)  == order[CHOOSE i \in opponents(u) : \A j \in opponents(u) : i <= j]
      ahead == {u \in accepted : \A v \in accepted \ {u} : RanksBefore(rows[u], rows[v])}
      won(u) == [status |-> "completed", winner |-> u]
  IN  CASE accepted = {} -> Expiry(timeout)
        [] Cardinality(accepted) = 1 ->
             LET u == CHOOSE v \in accepted : TRUE
             IN  IF ~ timeout /\ opponents(u) # {} /\ rows[u].hints > rows[opponent(u)].hints
                 THEN Undecided
                 ELSE won(u)
        [] OTHER -> IF ahead = {} THEN won(None) ELSE won(CHOOSE u \in ahead : TRUE)

FinalStatus(p) ==
  IF p.accepted # 0 THEN "accepted" ELSE IF p.final = "failed" THEN "failed" ELSE "no_submission"

\* get_duel and list_participants: the decision is made on this snapshot.
ReadRows(t) ==
  /\ pc[t] = "decide"
  /\ LET verdict == Decision(seats, player, req[t].timeout)
     IN  IF duel.status \in Closed \/ verdict = Undecided
         THEN Return(t)
         ELSE /\ req' = [req EXCEPT ![t].verdict = verdict,
                                    ![t].finals = [u \in Users |-> IF u \in Seated
                                                     THEN FinalStatus(player[u]) ELSE None]]
              /\ Goto(t, "close")
  /\ UNCHANGED <<rowsVars, now, crashes, todo>>

\* Mutant of Close: the UPDATE is not guarded by the status.
CloseUnguarded(t) ==
  /\ pc[t] = "close"
  /\ LET r == req[t]
     IN  /\ duel' = [duel EXCEPT !.status = r.verdict.status, !.winner = r.verdict.winner]
         /\ player' = [u \in Users |-> IF r.finals[u] = None THEN player[u]
                                        ELSE [player[u] EXCEPT !.final = r.finals[u]]]
         /\ IF r.verdict.status = "completed"
            THEN Goto(t, "announce") /\ UNCHANGED req
            ELSE Return(t)
  /\ UNCHANGED <<seats, told, now, crashes, todo>>

\* UPDATE ... WHERE status NOT IN (closed), with the final_status of every
\* participant of the snapshot.
Close(t) ==
  /\ pc[t] = "close"
  /\ IF duel.status \in Closed
     THEN Return(t) /\ UNCHANGED <<duel, player>>
     ELSE LET r == req[t]
          IN  /\ duel' = [duel EXCEPT !.status = r.verdict.status, !.winner = r.verdict.winner]
              /\ player' = [u \in Users |-> IF r.finals[u] = None THEN player[u]
                                             ELSE [player[u] EXCEPT !.final = r.finals[u]]]
              /\ IF r.verdict.status = "completed"
                 THEN Goto(t, "announce") /\ UNCHANGED req
                 ELSE Return(t)
  /\ UNCHANGED <<seats, told, now, crashes, todo>>

\* _emit_completion_events lists the participants again ...
Announce(t) ==
  /\ pc[t] = "announce"
  /\ todo' = [todo EXCEPT ![t] = seats]
  /\ Goto(t, "emit")
  /\ UNCHANGED <<rowsVars, now, crashes, req>>

Tell(kind, u) == told' = [told EXCEPT ![kind][u] = @ + 1]

\* On to the next participant of the list.
TellNext(t) ==
  /\ todo' = [todo EXCEPT ![t] = Tail(@)]
  /\ IF Len(todo[t]) = 1 THEN Return(t) ELSE Goto(t, "emit") /\ UNCHANGED req

\* ... and inserts the events one transaction at a time: duel_completed for each,
Emit(t) ==
  LET u == Head(todo[t]) IN
  /\ pc[t] = "emit"
  /\ Tell("completed", u)
  /\ IF u = req[t].verdict.winner
     THEN Goto(t, "crown") /\ UNCHANGED <<req, todo>>
     ELSE TellNext(t)
  /\ UNCHANGED <<duel, seats, player, now, crashes>>

\* and then duel_won for the winner.
Crown(t) ==
  /\ pc[t] = "crown"
  /\ Tell("won", Head(todo[t]))
  /\ TellNext(t)
  /\ UNCHANGED <<duel, seats, player, now, crashes>>

-----------------------------------------------------------------------------
\* The clock stops at the deadline, after which every test has the same outcome.
Tick ==
  /\ duel.status \notin Closed
  /\ now < duel.expires
  /\ now' = now + 1
  /\ UNCHANGED <<rowsVars, crashes, pc, req, todo>>

\* The process restarts: every request in service is lost, every row is kept.
Crash ==
  /\ crashes < MaxCrashes
  /\ \E t \in Threads : pc[t] # "idle"
  /\ \A t \in Threads : pc[t] \in RestartAt
  /\ crashes' = crashes + 1
  /\ pc' = [t \in Threads |-> "idle"]
  /\ req' = [t \in Threads |-> NoRequest]
  /\ todo' = [t \in Threads |-> <<>>]
  /\ UNCHANGED <<rowsVars, now>>

Step(t) ==
  \/ Reread(t) \/ View(t)
  \/ CountSeats(t) \/ TakeSeat(t) \/ MarkReady(t) \/ Gather(t) \/ Activate(t)
  \/ UseHint(t) \/ StartJudging(t) \/ Record(t)
  \/ (\E verdict \in {"pass", "fail", "error"} : Judged(t, verdict))
  \/ ReadRows(t) \/ Close(t) \/ Announce(t) \/ Emit(t) \/ Crown(t)

Next ==
  \/ \E t \in Threads : (\E op \in Endpoints, u \in Users : Enter(t, op, u)) \/ Step(t)
  \/ Tick
  \/ Crash

Spec == Init /\ [][Next]_vars

\* Threads run, time passes, and a participant's room keeps polling its state.
Fairness ==
  /\ \A t \in Threads : WF_vars(Step(t))
  /\ WF_vars(Tick)
  /\ WF_vars(\E t \in Threads, u \in Users : Enter(t, "state", u))
FairSpec == Spec /\ Fairness

-----------------------------------------------------------------------------
Labels == Endpoints \cup {"idle", "reread", "view", "insert", "gather", "activate", "judge",
                   "record", "decide", "close", "announce", "emit", "crown"}

Request == [op : Endpoints \cup {"none"}, user : Users \cup {None}, spent : BOOLEAN, solved : BOOLEAN,
            passed : BOOLEAN, timeout : BOOLEAN, after : {"idle", "reread", "view"},
            verdict : Verdict, finals : [Users -> FinalStatuses \cup {None}]]

\* Every row and every local of a request has its declared shape.
RowsTyped ==
  /\ duel \in [status : {"waiting", "active"} \cup Closed, starts : Nat, expires : Nat,
               winner : Users \cup {None}]
  /\ seats \in Seq(Users)
  /\ player \in [Users -> Player]
  /\ told \in [Kinds -> [Users -> Nat]]
  /\ now \in Nat /\ crashes \in Nat

LocalsTyped ==
  /\ pc \in [Threads -> Labels]
  /\ req \in [Threads -> Request]
  /\ todo \in [Threads -> Seq(Users)]

TypeOK == RowsTyped /\ LocalsTyped

\* A player shown as "judging" has a submission under judgement, unless the
\* process was restarted meanwhile.
JudgingShown ==
  \A u \in Users :
    player[u].judging =>
      \/ crashes > 0
      \/ \E t \in Threads : pc[t] = "judge" /\ req[t].user = u

\* The result reaches the players exactly once: when no request is announcing
\* and none was lost, a completed duel has been announced once to every player
\* it was completed for, and its win once to the winner.
ToldOnce ==
  /\ \A u \in Users : told["completed"][u] <= 1 /\ told["won"][u] <= 1
  /\ /\ duel.status = "completed"
     /\ crashes = 0
     /\ \A t \in Threads : pc[t] \notin {"announce", "emit", "crown"}
     => /\ \A u \in Users : player[u].final # "pending" => told["completed"][u] = 1
        /\ \A u \in Users : told["won"][u] = 1 <=> u = duel.winner

\* However the requests of the waiting room interleave, a player holds one seat (the
\* primary key; it does not bound the seats, see TwoSeats), and a duel starts with two
\* players ready and nobody's solution accepted before.
SoundStart ==
  /\ \A i, j \in 1..Len(seats) : i # j => seats[i] # seats[j]
  /\ duel.status = "active" =>
       \E u, v \in Seated : u # v /\ player[u].ready /\ player[v].ready
  /\ \A u \in Users : player[u].accepted # 0 => u \in Seated /\ duel.status # "waiting"

\* "This duel already has two participants.": nobody is seated beside two players, as
\* join_duel and its error DUEL_FULL say.  Expected to fail: the participants are counted
\* on one connection and the row is inserted on another, so two accounts that both count
\* one player both get a seat.
TwoSeats == Len(seats) <= 2

\* The duel is over some time, as long as a player's room polls it.
DuelEnds == <>(duel.status \in Closed)

\* The requests for a hint that passed the test of the budget and have not answered.
InFlight(u) == {t \in Threads : req[t].op = "hint" /\ req[t].user = u /\ ~ req[t].spent}

\* The hint budget ("synchronized start countdown and hint budget") is tested on a row
\* read before the increment.  It is exceeded by no more than the requests in service
\* at one time, however many ask: the hints taken and those still in flight fit.
HintsBounded ==
  \A u \in Users :
    player[u].hints + Cardinality(InFlight(u)) < HintsMax + Cardinality(Threads)

Accepted == {u \in Users : player[u].accepted # 0}

\* The abstract contract.
Contract == INSTANCE DuelContract WITH
  stage <- duel.status,
  winner <- duel.winner,
  accepted <- Accepted

\* Every behaviour of the duel is one the contract allows.
ImplementsContract == Contract!Spec

-----------------------------------------------------------------------------
(* What the proofs need besides. *)

TwoReady == \E u, v \in Seated : u # v /\ player[u].ready /\ player[v].ready

RoomSound ==
  /\ Len(seats) > 0
  /\ SoundStart
  /\ duel.status = "active" => duel.starts > 0
  /\ \A u \in Users : player[u].final # "pending" => u \in Seated
  /\ duel.winner # None => duel.winner \in Accepted

VerdictSound(v) ==
  /\ v.status \in Closed
  /\ v.status = "completed" => Accepted # {} /\ v.winner \in Accepted \cup {None}
  /\ v.status = "expired" => v.winner = None

Playing(t) == pc[t] \in {"submit", "judge", "record"}
Telling(t) == pc[t] \in {"announce", "emit", "crown"}

\* What a request has read, and will not read again, is still so.
RequestSound(t) ==
  /\ req[t].user # None => req[t].op = "join" \/ req[t].user \in Seated
  /\ pc[t] \in {"join", "insert", "ready", "start", "hint", "submit", "judge", "record", "reread"}
       \/ req[t].after = "reread"
     => req[t].user # None
  /\ Playing(t) => req[t].op = "submit" /\ duel.status # "waiting" /\ now > 0
  /\ pc[t] = "activate" => TwoReady
  /\ pc[t] = "close" =>
       /\ VerdictSound(req[t].verdict)
       /\ \A u \in Users : req[t].finals[u] # None => u \in Seated
  /\ Telling(t) => duel.status = "completed" /\ req[t].verdict.winner = duel.winner

\* The participants to whom a thread announces the result: each once, and in the
\* middle of the winner's turn he has been told of the completion.
ListSound(t) ==
  /\ todo[t] # <<>>
  /\ \A i, j \in 1..Len(todo[t]) : todo[t][i] = todo[t][j] => i = j
  /\ \A i \in 1..Len(todo[t]) :
       /\ told["won"][todo[t][i]] = 0
       /\ told["completed"][todo[t][i]] = 0 \/ (pc[t] = "crown" /\ i = 1)
  /\ pc[t] = "crown" => todo[t][1] = duel.winner /\ told["completed"][duel.winner] = 1

\* u is on the list of a thread, or is to be told: he has a result, or will have one.
Listed(u) == \E t \in Threads :
  pc[t] \in {"emit", "crown"} /\ \E i \in 1..Len(todo[t]) : todo[t][i] = u
Entitled(u) ==
  player[u].final # "pending" \/ \E t \in Threads : Playing(t) /\ req[t].user = u

\* One request announces; nothing is announced before it has listed the players; and
\* whoever is entitled was told or is listed, unless a restart has lost the request.
TellingSound ==
  /\ \A s, t \in Threads : Telling(s) /\ Telling(t) => s = t
  /\ \A kind \in Kinds, u \in Users :
       /\ told[kind][u] <= 1
       /\ duel.status # "completed" \/ (\E t \in Threads : pc[t] = "announce")
            => told[kind][u] = 0
  /\ \A u \in Users : told["won"][u] # 0 => u = duel.winner
  /\ \A t \in Threads : pc[t] \in {"emit", "crown"} => ListSound(t)
  /\ duel.status = "completed" /\ crashes = 0 /\ (\A t \in Threads : pc[t] # "announce") =>
       /\ \A u \in Users : Entitled(u) => told["completed"][u] = 1 \/ Listed(u)
       /\ \A u \in Users : u = duel.winner => told["won"][u] = 1 \/ Listed(u)

\* The inductive invariant.
DuelInv ==
  /\ TypeOK
  /\ RoomSound
  /\ JudgingShown
  /\ \A t \in Threads : RequestSound(t)
  /\ TellingSound
=============================================================================
