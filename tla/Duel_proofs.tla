----------------------------- MODULE Duel_proofs -----------------------------
(***************************************************************************)
(* Proofs about Duel, for any users, requests and times.  What a request   *)
(* remembers stays true because the rows only grow (Grows): seats and      *)
(* accepted solutions are not taken back, a completed duel keeps its       *)
(* winner.  A step touches the locals of one thread (Moves) and one of the *)
(* tables; a lemma for each table, then one for each step.                 *)
(***************************************************************************)
EXTENDS Duel, FiniteSetTheorems, TLAPS

Grows ==
  /\ Seated \subseteq Seated'
  /\ Accepted \subseteq Accepted'
  /\ duel'.status = "waiting" => duel.status = "waiting"
  /\ duel.status = "completed" => duel'.status = "completed" /\ duel'.winner = duel.winner
  /\ now \in Nat /\ now' \in Nat /\ now <= now'
  /\ TwoReady => TwoReady'

\* The step is of thread t.
Moves(t) ==
  /\ pc' \in [Threads -> Labels]
  /\ req' \in [Threads -> Request]
  /\ \A s \in Threads \ {t} : pc'[s] = pc[s] /\ req'[s] = req[s]
  /\ crashes' = crashes

\* Nothing of a request is left that could become false, and it does not play or tell.
Rests(t) ==
  \/ pc'[t] \in {"idle", "view", "decide"} /\ req'[t].user = None /\ req'[t].after # "reread"
  \/ pc'[t] = "reread" /\ req'[t].user = req[t].user /\ req'[t].op = req[t].op
     /\ req[t].after = "reread"

\* The conjuncts of DuelInv that a step of t has to keep.
RowsKept == RowsTyped' /\ RoomSound' /\ Grows

USE DuelAssumption

-----------------------------------------------------------------------------
(* Locals. *)

LEMMA NoRequestTyped == NoRequest \in Request
BY DEF NoRequest, Request, Verdict, Undecided

LEMMA GotoMoves ==
  ASSUME LocalsTyped, NEW t \in Threads, NEW label \in Labels, Goto(t, label),
         UNCHANGED <<req, crashes>>
  PROVE Moves(t) /\ pc'[t] = label /\ req'[t] = req[t]
BY DEF LocalsTyped, Goto, Moves

LEMMA FinishMoves ==
  ASSUME LocalsTyped, NEW t \in Threads, Finish(t), UNCHANGED crashes
  PROVE Moves(t) /\ Rests(t) /\ pc'[t] = "idle" /\ req'[t] = NoRequest
<1>1. "idle" \in Labels
  BY DEF Labels
<1>2. Moves(t) /\ pc'[t] = "idle" /\ req'[t] = NoRequest
  BY <1>1, NoRequestTyped DEF LocalsTyped, Finish, Moves
<1> QED BY <1>2 DEF Rests, NoRequest

LEMMA AnswerMoves ==
  ASSUME LocalsTyped, NEW t \in Threads, Answer(t), UNCHANGED crashes
  PROVE Moves(t) /\ Rests(t) /\ pc'[t] = "view" /\ req'[t] = NoRequest
<1>1. "view" \in Labels
  BY DEF Labels
<1>2. Moves(t) /\ pc'[t] = "view" /\ req'[t] = NoRequest
  BY <1>1, NoRequestTyped DEF LocalsTyped, Answer, Moves
<1> QED BY <1>2 DEF Rests, NoRequest

LEMMA FinalizeMoves ==
  ASSUME LocalsTyped, NEW t \in Threads, NEW timeout \in BOOLEAN, NEW after \in {"idle", "view"},
         Finalize(t, timeout, after), UNCHANGED crashes
  PROVE Moves(t) /\ Rests(t) /\ pc'[t] = "decide"
<1> DEFINE r == [NoRequest EXCEPT !.timeout = timeout, !.after = after]
<1>1. "decide" \in Labels
  BY DEF Labels
<1>2. r \in Request /\ r.user = None /\ r.after = after
  BY DEF NoRequest, Request, Verdict, Undecided
<1>3. pc' = [pc EXCEPT ![t] = "decide"] /\ req' = [req EXCEPT ![t] = r]
  BY DEF Finalize
<1> HIDE DEF r
<1>4. Moves(t) /\ pc'[t] = "decide" /\ req'[t] = r
  BY <1>1, <1>2, <1>3 DEF LocalsTyped, Moves
<1> QED BY <1>2, <1>4 DEF Rests

LEMMA ReturnMoves ==
  ASSUME LocalsTyped, NEW t \in Threads, Return(t), UNCHANGED crashes
  PROVE Moves(t) /\ Rests(t)
<1>1. CASE req[t].after = "idle"
  BY <1>1, FinishMoves DEF Return
<1>2. CASE req[t].after = "view"
  BY <1>2, AnswerMoves DEF Return
<1>3. CASE req[t].after = "reread"
  <2> DEFINE r == [req[t] EXCEPT !.timeout = FALSE, !.verdict = Undecided,
                                 !.finals = NoRequest.finals]
  <2>1. req[t] \in Request /\ "reread" \in Labels
    BY DEF LocalsTyped, Labels
  <2>2. r \in Request /\ r.user = req[t].user /\ r.op = req[t].op
    BY <2>1 DEF Request, Undecided, Verdict, NoRequest
  <2>3. pc' = [pc EXCEPT ![t] = "reread"] /\ req' = [req EXCEPT ![t] = r]
    BY <1>3, <2>1 DEF Return, Goto, Request, LocalsTyped
  <2> HIDE DEF r
  <2>4. Moves(t) /\ pc'[t] = "reread" /\ req'[t] = r
    BY <2>1, <2>2, <2>3 DEF LocalsTyped, Moves
  <2> QED BY <1>3, <2>2, <2>4 DEF Rests
<1> QED BY <1>1, <1>2, <1>3 DEF LocalsTyped, Request

\* A request whose user is a participant, unless it joins, proceeds soundly.
LEMMA ProceedMoves ==
  ASSUME RowsTyped, LocalsTyped, RoomSound, NEW t \in Threads, NEW r \in Request,
         r.op \in Endpoints, r.user # None, r.op = "join" \/ r.user \in Seated, r.after # "reread",
         Proceed(t, r), UNCHANGED crashes
  PROVE /\ Moves(t)
        /\ \/ Rests(t)
           \/ /\ pc'[t] \in {"join", "ready", "start", "hint", "submit"} /\ req'[t] = r
              /\ pc'[t] = r.op
              /\ pc'[t] = "submit" => duel.status = "active" /\ now > 0
<1>1. CASE pc' = [pc EXCEPT ![t] = r.op] /\ req' = [req EXCEPT ![t] = r]
           /\ r.op \in {"join", "ready", "start", "hint", "submit"}
           /\ (r.op = "submit" => duel.status = "active" /\ now >= duel.starts)
  <2>1. r.op \in Labels
    BY DEF Labels
  <2>2. Moves(t) /\ pc'[t] = r.op /\ req'[t] = r
    BY <1>1, <2>1 DEF LocalsTyped, Moves
  <2>3. r.op = "submit" => now > 0
    BY <1>1 DEF RoomSound, RowsTyped
  <2> QED BY <1>1, <2>2, <2>3
<1>2. CASE Answer(t)
  BY <1>2, AnswerMoves
<1>3. CASE Finish(t)
  BY <1>3, FinishMoves
<1> QED BY <1>1, <1>2, <1>3 DEF Proceed

-----------------------------------------------------------------------------
(* Tables. *)

LEMMA RowsUnchanged ==
  ASSUME RowsTyped, RoomSound, UNCHANGED <<duel, seats, player, now, crashes>>,
         told' \in [Kinds -> [Users -> Nat]]
  PROVE RowsKept
<1>1. Seated' = Seated /\ Accepted' = Accepted /\ (TwoReady => TwoReady')
  BY DEF Seated, Accepted, TwoReady
<1>2. RowsTyped'
  BY DEF RowsTyped
<1>3. RoomSound'
  BY <1>1 DEF RoomSound, SoundStart
<1> QED BY <1>1, <1>2, <1>3 DEF RowsKept, Grows, RowsTyped

LEMMA TimePasses ==
  ASSUME RowsTyped, RoomSound, UNCHANGED rowsVars, now' \in Nat, now <= now', crashes' \in Nat
  PROVE RowsKept
<1>1. Seated' = Seated /\ Accepted' = Accepted /\ (TwoReady => TwoReady')
  BY DEF Seated, Accepted, TwoReady, rowsVars
<1>2. RowsTyped'
  BY DEF RowsTyped, rowsVars
<1>3. RoomSound'
  BY <1>1 DEF RoomSound, SoundStart, rowsVars
<1> QED BY <1>1, <1>2, <1>3 DEF RowsKept, Grows, RowsTyped, rowsVars

\* Readiness and acceptance are not taken back.
LEMMA PlayerChanges ==
  ASSUME RowsTyped, RoomSound, player' \in [Users -> Player], UNCHANGED <<duel, seats, now, crashes>>,
         told' = told,
         \A u \in Users :
           /\ player[u].ready => player'[u].ready
           /\ player[u].accepted # 0 => player'[u].accepted # 0
           /\ player'[u].accepted # 0 => player[u].accepted # 0
                                           \/ (u \in Seated /\ duel.status # "waiting")
           /\ player'[u].final # "pending" => player[u].final # "pending" \/ u \in Seated
  PROVE RowsKept
<1>1. Seated' = Seated /\ Seated \subseteq Users
  BY DEF Seated, RowsTyped
<1>2. Accepted \subseteq Accepted' /\ (TwoReady => TwoReady')
  BY <1>1 DEF Accepted, TwoReady
<1>3. RowsTyped'
  BY DEF RowsTyped
<1>4. RoomSound'
  <2>1. SoundStart'
    <3>1. (\A i, j \in 1..Len(seats) : i # j => seats[i] # seats[j])'
      BY DEF RoomSound, SoundStart
    <3>2. (duel.status = "active" =>
            \E u, v \in Seated : u # v /\ player[u].ready /\ player[v].ready)'
      BY <1>1 DEF RoomSound, SoundStart
    <3>3. (\A u \in Users : player[u].accepted # 0 => u \in Seated /\ duel.status # "waiting")'
      BY <1>1 DEF RoomSound, SoundStart
    <3> QED BY <3>1, <3>2, <3>3 DEF SoundStart
  <2>2. (\A u \in Users : player[u].final # "pending" => u \in Seated)'
    BY <1>1 DEF RoomSound
  <2> QED BY <1>2, <2>1, <2>2 DEF RoomSound
<1> QED BY <1>1, <1>2, <1>3, <1>4 DEF RowsKept, Grows, RowsTyped

LEMMA SeatTaken ==
  ASSUME RowsTyped, RoomSound, NEW u \in Users, u \notin Seated, seats' = Append(seats, u),
         UNCHANGED <<duel, player, told, now, crashes>>
  PROVE RowsKept
<1>1. /\ seats' \in Seq(Users) /\ Len(seats') = Len(seats) + 1 /\ Len(seats) \in Nat
      /\ \A i \in 1..Len(seats) : seats'[i] = seats[i]
      /\ seats'[Len(seats) + 1] = u
  BY DEF RowsTyped
<1>2. Seated \subseteq Seated' /\ Seated' \subseteq Users
  BY <1>1 DEF Seated
<1>3. Accepted' = Accepted /\ (TwoReady => TwoReady')
  BY <1>2 DEF Accepted, TwoReady
<1>4. RowsTyped'
  BY <1>1 DEF RowsTyped
<1>5. RoomSound'
  <2>1. (\A i, j \in 1..Len(seats) : i # j => seats[i] # seats[j])'
    <3>1. \A i \in 1..Len(seats) : seats[i] # u
      BY DEF Seated
    <3>2. \A i, j \in 1..Len(seats) : i # j => seats[i] # seats[j]
      BY DEF RoomSound, SoundStart
    <3>3. \A i \in 1..Len(seats') : i \in 1..Len(seats) \/ i = Len(seats) + 1
      BY <1>1
    <3> QED BY <1>1, <3>1, <3>2, <3>3
  <2>2. (duel.status = "active" =>
          \E v, w \in Seated : v # w /\ player[v].ready /\ player[w].ready)'
    BY <1>2 DEF RoomSound, SoundStart
  <2>3. (\A v \in Users : player[v].accepted # 0 => v \in Seated /\ duel.status # "waiting")'
    BY <1>2 DEF RoomSound, SoundStart
  <2>4. SoundStart'
    BY <2>1, <2>2, <2>3 DEF SoundStart
  <2>5. (\A v \in Users : player[v].final # "pending" => v \in Seated)'
    BY <1>2 DEF RoomSound
  <2> QED BY <1>1, <1>3, <2>4, <2>5 DEF RoomSound
<1> QED BY <1>2, <1>3, <1>4, <1>5 DEF RowsKept, Grows, RowsTyped

\* _activate, with two players ready.
LEMMA Activated ==
  ASSUME RowsTyped, RoomSound, TwoReady, duel.status = "waiting",
         duel' = [duel EXCEPT !.status = "active", !.starts = now + Countdown,
                              !.expires = now + Countdown + Duration],
         UNCHANGED <<seats, player, told, now, crashes>>
  PROVE RowsKept
<1>1. Seated' = Seated /\ Accepted' = Accepted /\ TwoReady'
  BY DEF Seated, Accepted, TwoReady
<1>2. /\ now \in Nat /\ Countdown \in Nat \ {0} /\ Duration \in Nat \ {0}
      /\ duel \in [status : {"waiting", "active"} \cup Closed, starts : Nat, expires : Nat,
                   winner : Users \cup {None}]
  BY DEF RowsTyped
<1>3. /\ duel'.status = "active" /\ duel'.starts = now + Countdown /\ duel'.winner = duel.winner
      /\ duel' \in [status : {"waiting", "active"} \cup Closed, starts : Nat, expires : Nat,
                   winner : Users \cup {None}]
  <2>1. now + Countdown \in Nat /\ now + Countdown + Duration \in Nat
    BY <1>2
  <2> QED BY <1>2, <2>1
<1>4. RowsTyped'
  BY <1>3 DEF RowsTyped
<1>5. SoundStart'
  BY <1>1, <1>3 DEF RoomSound, SoundStart, TwoReady
<1>6. (\A v \in Users : player[v].final # "pending" => v \in Seated)'
  BY <1>1 DEF RoomSound
<1>7. RoomSound'
  BY <1>1, <1>2, <1>3, <1>5, <1>6 DEF RoomSound
<1> QED BY <1>1, <1>2, <1>3, <1>4, <1>7 DEF RowsKept, Grows, RowsTyped

\* The UPDATE of _finalize_duel.
LEMMA ClosedBy ==
  ASSUME RowsTyped, RoomSound, duel.status \notin Closed,
         NEW v \in Verdict, VerdictSound(v), NEW finals \in [Users -> FinalStatuses \cup {None}],
         \A u \in Users : finals[u] # None => u \in Seated,
         duel' = [duel EXCEPT !.status = v.status, !.winner = v.winner],
         player' = [u \in Users |-> IF finals[u] = None THEN player[u]
                                    ELSE [player[u] EXCEPT !.final = finals[u]]],
         UNCHANGED <<seats, told, now, crashes>>
  PROVE /\ RowsKept
        /\ duel'.status = v.status /\ duel'.winner = v.winner
        /\ \A u \in Users : player'[u].judging = player[u].judging
        /\ Accepted' = Accepted
<1>1. Seated' = Seated /\ Seated \subseteq Users
  BY DEF Seated, RowsTyped
<1>2. /\ duel'.status = v.status /\ duel'.winner = v.winner
      /\ duel' \in [status : {"waiting", "active"} \cup Closed, starts : Nat, expires : Nat,
                   winner : Users \cup {None}]
  BY DEF RowsTyped, VerdictSound, Verdict
<1>3. ASSUME NEW u \in Users
      PROVE /\ player'[u] \in Player
            /\ player'[u].ready = player[u].ready /\ player'[u].accepted = player[u].accepted
            /\ player'[u].judging = player[u].judging
            /\ player'[u].final # "pending" => player[u].final # "pending" \/ u \in Seated
  <2>1. player[u] \in Player
    BY DEF RowsTyped
  <2>2. CASE finals[u] = None
    BY <2>1, <2>2
  <2>3. CASE finals[u] # None
    <3>1. player'[u] = [player[u] EXCEPT !.final = finals[u]]
      BY <2>3
    <3>2. finals[u] \in FinalStatuses /\ u \in Seated
      BY <2>3
    <3> QED BY <2>1, <3>1, <3>2 DEF Player
  <2> QED BY <2>2, <2>3
<1>4. player' \in [Users -> Player]
  BY <1>3
<1>5. Accepted' = Accepted /\ (TwoReady => TwoReady')
  BY <1>1, <1>3 DEF Accepted, TwoReady
<1>6. RowsTyped'
  BY <1>2, <1>4 DEF RowsTyped
<1>7. duel'.status \in Closed /\ duel'.status # "active" /\ duel'.status # "waiting"
  BY <1>2 DEF VerdictSound, Closed
<1>8. SoundStart'
  <2>1. (\A u \in Users : player[u].accepted # 0 => u \in Seated /\ duel.status # "waiting")'
    BY <1>1, <1>3, <1>7 DEF RoomSound, SoundStart
  <2> QED BY <1>7, <2>1 DEF RoomSound, SoundStart
<1>9. (\A u \in Users : player[u].final # "pending" => u \in Seated)'
  BY <1>1, <1>3 DEF RoomSound
<1>10. (duel.winner # None => duel.winner \in Accepted)'
  BY <1>2, <1>5 DEF VerdictSound, Closed
<1>11. RoomSound'
  BY <1>7, <1>8, <1>9, <1>10 DEF RoomSound
<1>12. Grows
  BY <1>1, <1>5, <1>7 DEF Grows, RowsTyped, Closed
<1> QED BY <1>2, <1>3, <1>5, <1>6, <1>11, <1>12 DEF RowsKept

-----------------------------------------------------------------------------
(* Requests, and what is shown and told. *)

LEMMA RequestsKept ==
  ASSUME \A s \in Threads : RequestSound(s), NEW t \in Threads, Grows, Moves(t), RequestSound(t)'
  PROVE \A s \in Threads : RequestSound(s)'
<1> SUFFICES ASSUME NEW s \in Threads, s # t
             PROVE RequestSound(s)'
  OBVIOUS
<1>1. pc'[s] = pc[s] /\ req'[s] = req[s]
  BY DEF Moves
<1>2. RequestSound(s) /\ Seated \subseteq Seated'
  BY DEF Grows
<1>3. (req[s].user # None => req[s].op = "join" \/ req[s].user \in Seated)'
  BY <1>1, <1>2 DEF RequestSound
<1>4. (pc[s] \in {"join", "insert", "ready", "start", "hint", "submit", "judge", "record", "reread"}
         \/ req[s].after = "reread" => req[s].user # None)'
  BY <1>1, <1>2 DEF RequestSound
<1>5. (Playing(s) => req[s].op = "submit" /\ duel.status # "waiting" /\ now > 0)'
  BY <1>1, <1>2 DEF RequestSound, Grows, Playing
<1>6. (pc[s] = "activate" => TwoReady)'
  BY <1>1, <1>2 DEF RequestSound, Grows
<1>7. (pc[s] = "close" =>
         /\ VerdictSound(req[s].verdict)
         /\ \A u \in Users : req[s].finals[u] # None => u \in Seated)'
  BY <1>1, <1>2 DEF RequestSound, Grows, VerdictSound
<1>8. (Telling(s) => duel.status = "completed" /\ req[s].verdict.winner = duel.winner)'
  BY <1>1, <1>2 DEF RequestSound, Grows, Telling
<1> QED BY <1>3, <1>4, <1>5, <1>6, <1>7, <1>8 DEF RequestSound

LEMMA RestsSound ==
  ASSUME NEW t \in Threads, RequestSound(t), Grows, Rests(t)
  PROVE RequestSound(t)'
<1>1. pc'[t] \in {"idle", "view", "decide", "reread"}
  BY DEF Rests
<1>2. (req[t].user # None => req[t].op = "join" \/ req[t].user \in Seated)'
  BY DEF Rests, RequestSound, Grows
<1>3. (pc[t] \in {"join", "insert", "ready", "start", "hint", "submit", "judge", "record", "reread"}
         \/ req[t].after = "reread" => req[t].user # None)'
  BY DEF Rests, RequestSound
<1> QED BY <1>1, <1>2, <1>3 DEF RequestSound, Playing, Telling

LEMMA JudgingKept ==
  ASSUME JudgingShown, NEW t \in Threads, Moves(t), pc[t] # "judge",
         \A u \in Users : player'[u].judging => player[u].judging
  PROVE JudgingShown'
BY DEF JudgingShown, Moves

\* A step that neither announces nor gives anyone a result when the duel is over.
LEMMA TellingKept ==
  ASSUME TellingSound, \A s \in Threads : RequestSound(s), Grows, NEW t \in Threads, Moves(t), todo' = todo, told' = told,
         ~ Telling(t), ~ Telling(t)',
         duel'.status = "completed" =>
           /\ duel.status = "completed"
           /\ Playing(t)' => Playing(t) /\ req'[t].user = req[t].user
           /\ \A u \in Users : player'[u].final # "pending" =>
                player[u].final # "pending" \/ (Playing(t) /\ req[t].user = u)
  PROVE TellingSound'
<1>1. \A s \in Threads : (Telling(s)' <=> Telling(s)) /\ (Telling(s) => pc'[s] = pc[s])
  BY DEF Moves, Telling
<1>2. \A s \in Threads : \A label \in {"announce", "emit", "crown"} :
        pc'[s] = label <=> pc[s] = label
  BY <1>1 DEF Telling, Moves
<1>3. duel'.status = "completed" <=> duel.status = "completed"
  BY DEF Grows
<1>4. (\A r, s \in Threads : Telling(r) /\ Telling(s) => r = s)'
  BY <1>1 DEF TellingSound
<1>5. (\A kind \in Kinds, u \in Users :
         /\ told[kind][u] <= 1
         /\ duel.status # "completed" \/ (\E s \in Threads : pc[s] = "announce")
              => told[kind][u] = 0)'
  BY <1>2, <1>3 DEF TellingSound
<1>6. (\A u \in Users : told["won"][u] # 0 => u = duel.winner)'
  <2> SUFFICES ASSUME NEW u \in Users, told["won"][u] # 0
               PROVE u = duel'.winner
    OBVIOUS
  <2>1. u = duel.winner /\ duel.status = "completed"
    BY DEF TellingSound, Kinds
  <2> QED BY <2>1 DEF Grows
<1>7. (\A s \in Threads : pc[s] \in {"emit", "crown"} => ListSound(s))'
  <2> SUFFICES ASSUME NEW s \in Threads, pc'[s] \in {"emit", "crown"}
               PROVE ListSound(s)'
    OBVIOUS
  <2>1. pc[s] = pc'[s] /\ ListSound(s)
    BY <1>2 DEF TellingSound
  <2>2. pc[s] = "crown" => duel'.winner = duel.winner
    BY <2>1 DEF RequestSound, Telling, Grows
  <2> QED BY <2>1, <2>2 DEF ListSound
<1>8. (duel.status = "completed" /\ crashes = 0 /\ (\A s \in Threads : pc[s] # "announce") =>
         /\ \A u \in Users : Entitled(u) => told["completed"][u] = 1 \/ Listed(u)
         /\ \A u \in Users : u = duel.winner => told["won"][u] = 1 \/ Listed(u))'
  <2> SUFFICES ASSUME duel'.status = "completed", crashes' = 0, \A s \in Threads : pc'[s] # "announce",
                      NEW u \in Users
               PROVE /\ Entitled(u)' => told["completed"][u] = 1 \/ Listed(u)'
                     /\ u = duel'.winner => told["won"][u] = 1 \/ Listed(u)'
    OBVIOUS
  <2>1. duel.status = "completed" /\ crashes = 0 /\ \A s \in Threads : pc[s] # "announce"
    BY <1>2, <1>3 DEF Moves
  <2>2. Listed(u)' <=> Listed(u)
    BY <1>2 DEF Listed
  <2>3. Entitled(u)' => Entitled(u)
    <3>1. ASSUME NEW s \in Threads, Playing(s)', req'[s].user = u
          PROVE Playing(s) /\ req[s].user = u
      BY <3>1 DEF Moves, Playing
    <3> QED BY <3>1 DEF Entitled
  <2>4. duel'.winner = duel.winner
    BY <2>1 DEF Grows
  <2> QED BY <2>1, <2>2, <2>3, <2>4 DEF TellingSound
<1> QED BY <1>4, <1>5, <1>6, <1>7, <1>8 DEF TellingSound

LEMMA AllKept ==
  ASSUME DuelInv, NEW t \in Threads, RowsKept, Moves(t), RequestSound(t)', JudgingShown',
         TellingSound', todo' \in [Threads -> Seq(Users)]
  PROVE DuelInv'
<1>1. \A s \in Threads : RequestSound(s)'
  BY RequestsKept DEF DuelInv, RowsKept
<1>2. TypeOK'
  BY DEF TypeOK, LocalsTyped, Moves, RowsKept
<1> QED BY <1>1, <1>2 DEF DuelInv, RowsKept

\* A step of a thread that neither judges nor tells.
LEMMA QuietStep ==
  ASSUME DuelInv, NEW t \in Threads, RowsKept, Moves(t), RequestSound(t)', UNCHANGED <<told, todo>>,
         pc[t] # "judge", ~ Telling(t), ~ Telling(t)',
         \A u \in Users : player'[u].judging => player[u].judging,
         duel'.status = "completed" =>
           /\ duel.status = "completed"
           /\ Playing(t)' => Playing(t) /\ req'[t].user = req[t].user
           /\ \A u \in Users : player'[u].final # "pending" =>
                player[u].final # "pending" \/ (Playing(t) /\ req[t].user = u)
  PROVE DuelInv'
<1>1. JudgingShown'
  BY JudgingKept DEF DuelInv
<1>2. TellingSound'
  BY TellingKept DEF DuelInv, RowsKept
<1>3. todo' \in [Threads -> Seq(Users)]
  BY DEF DuelInv, TypeOK, LocalsTyped
<1> QED BY <1>1, <1>2, <1>3, AllKept

LEMMA ReadStep ==
  ASSUME DuelInv, NEW t \in Threads, UNCHANGED <<rowsVars, now, crashes, todo>>, Moves(t),
         RequestSound(t)', pc[t] # "judge", ~ Telling(t), ~ Telling(t)',
         Playing(t)' => duel.status = "active"
  PROVE DuelInv'
<1>1. RowsKept
  <2>1. told' \in [Kinds -> [Users -> Nat]]
    BY DEF DuelInv, TypeOK, RowsTyped, rowsVars
  <2> QED BY <2>1, RowsUnchanged DEF DuelInv, TypeOK, rowsVars
<1> QED BY <1>1, QuietStep DEF rowsVars

\* ... that ends, answers, or hands over to _finalize_duel.
LEMMA ReadStepRests ==
  ASSUME DuelInv, NEW t \in Threads, UNCHANGED <<rowsVars, now, crashes, todo>>, Moves(t), Rests(t),
         pc[t] # "judge", ~ Telling(t)
  PROVE DuelInv'
<1>1. Grows
  <2>1. told' \in [Kinds -> [Users -> Nat]]
    BY DEF DuelInv, TypeOK, RowsTyped, rowsVars
  <2> QED BY <2>1, RowsUnchanged DEF DuelInv, TypeOK, rowsVars, RowsKept
<1>2. RequestSound(t)'
  BY <1>1, RestsSound DEF DuelInv
<1>3. ~ Telling(t)' /\ ~ Playing(t)'
  BY DEF Rests, Telling, Playing
<1> QED BY <1>2, <1>3, ReadStep

-----------------------------------------------------------------------------
(* The steps that read. *)

LEMMA ProceedKeeps ==
  ASSUME DuelInv, NEW t \in Threads, UNCHANGED <<rowsVars, now, crashes, todo>>,
         NEW r \in Request, r.op \in Endpoints, r.user # None, r.op = "join" \/ r.user \in Seated,
         r.after = "idle", Proceed(t, r), pc[t] \in {"idle", "reread"}
  PROVE DuelInv'
<1>1. /\ Moves(t)
      /\ \/ Rests(t)
         \/ /\ pc'[t] \in {"join", "ready", "start", "hint", "submit"} /\ req'[t] = r
            /\ pc'[t] = r.op
            /\ pc'[t] = "submit" => duel.status = "active" /\ now > 0
  BY ProceedMoves DEF DuelInv, TypeOK
<1>2. pc[t] # "judge" /\ ~ Telling(t)
  BY DEF Telling
<1>3. CASE Rests(t)
  BY <1>1, <1>2, <1>3, ReadStepRests
<1>4. CASE /\ pc'[t] \in {"join", "ready", "start", "hint", "submit"} /\ req'[t] = r
           /\ pc'[t] = r.op
           /\ pc'[t] = "submit" => duel.status = "active" /\ now > 0
  <2>1. ~ Telling(t)' /\ (Playing(t)' => duel.status = "active")
    BY <1>4 DEF Telling, Playing
  <2>2. RequestSound(t)'
    <3>1. Seated' = Seated
      BY DEF Seated, rowsVars
    <3>2. (req[t].user # None => req[t].op = "join" \/ req[t].user \in Seated)'
      BY <1>4, <3>1
    <3>3. (pc[t] \in {"join", "insert", "ready", "start", "hint", "submit", "judge", "record", "reread"}
             \/ req[t].after = "reread" => req[t].user # None)'
      BY <1>4
    <3>4. (Playing(t) => req[t].op = "submit" /\ duel.status # "waiting" /\ now > 0)'
      BY <1>4 DEF Playing, rowsVars
    <3>5. (pc[t] # "activate" /\ pc[t] # "close" /\ ~ Telling(t))'
      BY <1>4 DEF Telling
    <3> QED BY <3>2, <3>3, <3>4, <3>5 DEF RequestSound
  <2> QED BY <1>1, <1>2, <2>1, <2>2, ReadStep
<1> QED BY <1>1, <1>3, <1>4

LEMMA EnterKeeps ==
  ASSUME DuelInv, NEW t \in Threads, NEW op \in Endpoints, NEW u \in Users, Enter(t, op, u)
  PROVE DuelInv'
<1> DEFINE r == [NoRequest EXCEPT !.op = op, !.user = u,
                                  !.spent = op = "hint" /\ player[u].hints >= HintsMax,
                                  !.solved = op = "submit" /\ player[u].accepted # 0]
           q == [r EXCEPT !.timeout = TRUE, !.after = "reread"]
<1>1. /\ r \in Request /\ r.op = op /\ r.user = u /\ r.after = "idle"
      /\ q \in Request /\ q.op = op /\ q.user = u /\ q.after = "reread"
  BY DEF NoRequest, Request, Verdict, Undecided
<1>2. /\ pc[t] = "idle" /\ UNCHANGED <<rowsVars, now, crashes, todo>>
      /\ op = "join" \/ u \in Seated
      /\ u # None
  BY DEF Enter
<1>3. \/ Proceed(t, r)
      \/ pc' = [pc EXCEPT ![t] = "decide"] /\ req' = [req EXCEPT ![t] = q]
  BY DEF Enter, Goto
<1> HIDE DEF r, q
<1>4. CASE Proceed(t, r)
  BY <1>1, <1>2, <1>4, ProceedKeeps
<1>5. CASE pc' = [pc EXCEPT ![t] = "decide"] /\ req' = [req EXCEPT ![t] = q]
  <2>1. Moves(t) /\ pc'[t] = "decide" /\ req'[t] = q
    BY <1>1, <1>2, <1>5 DEF DuelInv, TypeOK, LocalsTyped, Moves, Labels
  <2>2. pc[t] # "judge" /\ ~ Telling(t) /\ ~ Telling(t)' /\ ~ Playing(t)'
    BY <1>2, <2>1 DEF Telling, Playing
  <2>3. RequestSound(t)'
    <3>1. Seated' = Seated
      BY <1>2 DEF Seated, rowsVars
    <3> QED BY <1>1, <1>2, <2>1, <3>1 DEF RequestSound, Playing, Telling
  <2> QED BY <1>2, <2>1, <2>2, <2>3, ReadStep
<1> QED BY <1>3, <1>4, <1>5

LEMMA RereadKeeps ==
  ASSUME DuelInv, NEW t \in Threads, Reread(t)
  PROVE DuelInv'
<1> DEFINE r == [req[t] EXCEPT !.after = "idle"]
<1>1. req[t] \in Request /\ RequestSound(t)
  BY DEF DuelInv, TypeOK, LocalsTyped
<1>2. r \in Request /\ r.op = req[t].op /\ r.user = req[t].user /\ r.after = "idle"
  BY <1>1 DEF Request
<1>3. pc[t] = "reread" /\ Proceed(t, r) /\ UNCHANGED <<rowsVars, now, crashes, todo>>
  BY DEF Reread
<1>4. r.user # None /\ (r.op = "join" \/ r.user \in Seated)
  BY <1>1, <1>2, <1>3 DEF RequestSound
<1>5. CASE r.op \in Endpoints
  <2> HIDE DEF r
  <2> QED BY <1>2, <1>3, <1>4, <1>5, ProceedKeeps
<1>6. CASE r.op = "none"
  <2>1. Finish(t)
    BY <1>3, <1>6 DEF Proceed
  <2> QED BY <1>3, <2>1, FinishMoves, ReadStepRests DEF DuelInv, TypeOK, Telling
<1> QED BY <1>1, <1>2, <1>5, <1>6 DEF Request

LEMMA ViewKeeps ==
  ASSUME DuelInv, NEW t \in Threads, View(t)
  PROVE DuelInv'
<1>1. pc[t] = "view" /\ UNCHANGED <<rowsVars, now, crashes, todo>> /\ LocalsTyped
  BY DEF View, DuelInv, TypeOK
<1>2. Moves(t) /\ Rests(t)
  BY <1>1, FinishMoves, FinalizeMoves DEF View
<1> QED BY <1>1, <1>2, ReadStepRests DEF Telling

LEMMA CountSeatsKeeps ==
  ASSUME DuelInv, NEW t \in Threads, CountSeats(t)
  PROVE DuelInv'
<1>1. pc[t] = "join" /\ UNCHANGED <<rowsVars, now, crashes, todo>> /\ LocalsTyped /\ RequestSound(t)
  BY DEF CountSeats, DuelInv, TypeOK
<1>2. CASE Finish(t)
  BY <1>1, <1>2, FinishMoves, ReadStepRests DEF Telling
<1>3. CASE Goto(t, "insert") /\ UNCHANGED req
  <2>1. Moves(t) /\ pc'[t] = "insert" /\ req'[t] = req[t]
    BY <1>1, <1>3, GotoMoves DEF Labels
  <2>2. RequestSound(t)'
    <3>1. Seated' = Seated
      BY <1>1 DEF Seated, rowsVars
    <3> QED BY <1>1, <2>1, <3>1 DEF RequestSound, Playing, Telling
  <2> QED BY <1>1, <2>1, <2>2, ReadStep DEF Telling, Playing
<1> QED BY <1>2, <1>3 DEF CountSeats

LEMMA GatherKeeps ==
  ASSUME DuelInv, NEW t \in Threads, Gather(t)
  PROVE DuelInv'
<1>1. pc[t] = "gather" /\ UNCHANGED <<rowsVars, now, crashes, todo>> /\ LocalsTyped /\ RequestSound(t)
  BY DEF Gather, DuelInv, TypeOK
<1>2. CASE Finish(t)
  BY <1>1, <1>2, FinishMoves, ReadStepRests DEF Telling
<1>3. CASE Answer(t)
  BY <1>1, <1>3, AnswerMoves, ReadStepRests DEF Telling
<1>4. CASE Goto(t, "activate") /\ UNCHANGED req
           /\ Len(seats) >= 2 /\ \A u \in Seated : player[u].ready
  <2>1. Moves(t) /\ pc'[t] = "activate" /\ req'[t] = req[t]
    BY <1>1, <1>4, GotoMoves DEF Labels
  <2>2. TwoReady
    <3>1. Len(seats) \in Nat /\ 1 \in 1..Len(seats) /\ 2 \in 1..Len(seats)
      BY <1>4 DEF DuelInv, TypeOK, RowsTyped
    <3>2. seats[1] # seats[2]
      BY <3>1 DEF DuelInv, RoomSound, SoundStart
    <3>3. seats[1] \in Seated /\ seats[2] \in Seated
      BY <3>1 DEF Seated
    <3> QED BY <1>4, <3>2, <3>3 DEF TwoReady
  <2>3. RequestSound(t)'
    <3>1. Seated' = Seated /\ TwoReady'
      BY <1>1, <2>2 DEF Seated, rowsVars, TwoReady
    <3> QED BY <1>1, <2>1, <3>1 DEF RequestSound, Playing, Telling
  <2> QED BY <1>1, <2>1, <2>3, ReadStep DEF Telling, Playing
<1> QED BY <1>2, <1>3, <1>4 DEF Gather

\* Whatever rows are read, the decision is sound.
LEMMA DecisionSound ==
  ASSUME RowsTyped, NEW timeout \in BOOLEAN, NEW v, v = Decision(seats, player, timeout)
  PROVE v \in Verdict /\ (v = Undecided \/ VerdictSound(v))
<1> DEFINE members  == {seats[i] : i \in 1..Len(seats)}
           accepted == {u \in members : player[u].accepted # 0}
           ahead == {u \in accepted : \A w \in accepted \ {u} : RanksBefore(player[u], player[w])}
           won(u) == [status |-> "completed", winner |-> u]
<1>1. members \subseteq Users /\ accepted \subseteq Accepted /\ ahead \subseteq accepted
  BY DEF RowsTyped, Accepted
<1>2. Undecided \in Verdict
  BY DEF Undecided, Verdict
<1>3. CASE accepted = {}
  <2>1. v = Expiry(timeout)
    <3>1. Cardinality({}) # 1
      BY FS_EmptySet
    <3> QED BY <1>3, <3>1 DEF Decision
  <2>2. v = Undecided \/ v = [status |-> "expired", winner |-> None]
    BY <2>1 DEF Expiry
  <2> QED BY <1>2, <2>2 DEF VerdictSound, Verdict, Closed
<1>4. CASE accepted # {}
  <2>1. \/ v = Undecided
        \/ v = won(CHOOSE u \in accepted : TRUE)
        \/ v = won(None)
        \/ ahead # {} /\ v = won(CHOOSE u \in ahead : TRUE)
    BY <1>4 DEF Decision
  <2>2. (CHOOSE u \in accepted : TRUE) \in accepted
    BY <1>4
  <2>3. ahead # {} => (CHOOSE u \in ahead : TRUE) \in accepted
    OBVIOUS
  <2>4. v = Undecided \/ \E u \in accepted \cup {None} : v = won(u)
    BY <2>1, <2>2, <2>3
  <2>5. ASSUME NEW u \in accepted \cup {None}
        PROVE won(u) \in Verdict /\ VerdictSound(won(u))
    BY <1>1, <1>4 DEF Verdict, VerdictSound, Closed, Accepted
  <2> HIDE DEF won, accepted
  <2> QED BY <1>2, <2>4, <2>5
<1> QED BY <1>3, <1>4

LEMMA ReadRowsKeeps ==
  ASSUME DuelInv, NEW t \in Threads, ReadRows(t)
  PROVE DuelInv'
<1> DEFINE v == Decision(seats, player, req[t].timeout)
           f == [u \in Users |-> IF u \in Seated THEN FinalStatus(player[u]) ELSE None]
           r == [req[t] EXCEPT !.verdict = v, !.finals = f]
<1>1. pc[t] = "decide" /\ UNCHANGED <<rowsVars, now, crashes, todo>> /\ LocalsTyped
  BY DEF ReadRows, DuelInv, TypeOK
<1>2. CASE Return(t)
  BY <1>1, <1>2, ReturnMoves, ReadStepRests DEF Telling
<1>3. CASE /\ v # Undecided
           /\ req' = [req EXCEPT ![t].verdict = v, ![t].finals = f]
           /\ Goto(t, "close")
  <2>1. req[t] \in Request /\ RequestSound(t) /\ RowsTyped
    BY DEF DuelInv, TypeOK, LocalsTyped
  <2>2. v \in Verdict /\ VerdictSound(v)
    BY <1>3, <2>1, DecisionSound DEF Request
  <2>3. f \in [Users -> FinalStatuses \cup {None}] /\ \A u \in Users : f[u] # None => u \in Seated
    BY DEF FinalStatus, FinalStatuses
  <2> HIDE DEF v, f
  <2>4. /\ r \in Request /\ r.user = req[t].user /\ r.op = req[t].op /\ r.after = req[t].after
        /\ r.verdict = v /\ r.finals = f
    BY <2>1, <2>2, <2>3 DEF Request
  <2>5. req' = [req EXCEPT ![t] = r] /\ pc' = [pc EXCEPT ![t] = "close"]
    BY <1>1, <1>3 DEF Goto, LocalsTyped
  <2> HIDE DEF r
  <2>6. Moves(t) /\ pc'[t] = "close" /\ req'[t] = r
    BY <1>1, <2>4, <2>5 DEF LocalsTyped, Moves, Labels
  <2>7. RequestSound(t)'
    <3>1. Seated' = Seated /\ Accepted' = Accepted
      BY <1>1 DEF Seated, Accepted, rowsVars
    <3>2. (req[t].user # None => req[t].op = "join" \/ req[t].user \in Seated)'
      BY <2>1, <2>4, <2>6, <3>1 DEF RequestSound
    <3>3. (pc[t] \in {"join", "insert", "ready", "start", "hint", "submit", "judge", "record", "reread"}
             \/ req[t].after = "reread" => req[t].user # None)'
      BY <2>1, <2>4, <2>6 DEF RequestSound
    <3>4. (VerdictSound(req[t].verdict) /\ \A u \in Users : req[t].finals[u] # None => u \in Seated)'
      BY <2>2, <2>3, <2>4, <2>6, <3>1 DEF VerdictSound
    <3> QED BY <2>6, <3>2, <3>3, <3>4 DEF RequestSound, Playing, Telling
  <2> QED BY <1>1, <2>6, <2>7, ReadStep DEF Telling, Playing
<1> QED BY <1>2, <1>3 DEF ReadRows

-----------------------------------------------------------------------------
(* The steps that write. *)

LEMMA RowChanges ==
  ASSUME RowsTyped, NEW u \in Users, NEW row \in Player, player' = [player EXCEPT ![u] = row]
  PROVE /\ player' \in [Users -> Player]
        /\ player'[u] = row
        /\ \A w \in Users \ {u} : player'[w] = player[w]
BY DEF RowsTyped

LEMMA TakeSeatKeeps ==
  ASSUME DuelInv, NEW t \in Threads, TakeSeat(t)
  PROVE DuelInv'
<1>1. /\ pc[t] = "insert" /\ UNCHANGED <<duel, player, told, now, crashes, todo>> /\ Finish(t)
      /\ LocalsTyped /\ RequestSound(t) /\ req[t] \in Request /\ RowsTyped
  BY DEF TakeSeat, DuelInv, TypeOK, LocalsTyped
<1>2. req[t].user \in Users
  BY <1>1 DEF RequestSound, Request
<1>3. RowsKept
  <2>1. CASE req[t].user \in Seated
    <3>1. seats' = seats /\ told' \in [Kinds -> [Users -> Nat]]
      BY <1>1, <2>1 DEF TakeSeat, RowsTyped
    <3> QED BY <1>1, <3>1, RowsUnchanged DEF DuelInv
  <2>2. CASE req[t].user \notin Seated
    BY <1>1, <1>2, <2>2, SeatTaken DEF TakeSeat, DuelInv
  <2> QED BY <2>1, <2>2
<1>4. Moves(t) /\ Rests(t)
  BY <1>1, FinishMoves
<1>5. RequestSound(t)'
  BY <1>1, <1>3, <1>4, RestsSound DEF RowsKept
<1> QED BY <1>1, <1>3, <1>4, <1>5, QuietStep DEF Rests, Telling, Playing

LEMMA MarkReadyKeeps ==
  ASSUME DuelInv, NEW t \in Threads, MarkReady(t)
  PROVE DuelInv'
<1>1. /\ pc[t] \in {"ready", "start"} /\ UNCHANGED <<duel, seats, told, now, crashes, req, todo>>
      /\ Goto(t, "gather")
      /\ LocalsTyped /\ RequestSound(t) /\ req[t] \in Request /\ RowsTyped
  BY DEF MarkReady, DuelInv, TypeOK, LocalsTyped
<1>2. req[t].user \in Users
  BY <1>1 DEF RequestSound, Request
<1>3. /\ player' \in [Users -> Player]
      /\ \A u \in Users : /\ player[u].ready => player'[u].ready
                          /\ player'[u].accepted = player[u].accepted
                          /\ player'[u].judging = player[u].judging
                          /\ player'[u].final = player[u].final
  <2> DEFINE row == [player[req[t].user] EXCEPT !.ready = TRUE]
  <2>1. player[req[t].user] \in Player
    BY <1>1, <1>2 DEF RowsTyped
  <2>2. /\ row \in Player /\ row.ready /\ row.accepted = player[req[t].user].accepted
        /\ row.judging = player[req[t].user].judging /\ row.final = player[req[t].user].final
    BY <2>1 DEF Player
  <2>3. player' = player \/ player' = [player EXCEPT ![req[t].user] = row]
    BY <1>1, <1>2 DEF MarkReady, RowsTyped
  <2> HIDE DEF row
  <2>4. CASE player' = player
    BY <1>1, <2>4 DEF RowsTyped
  <2>5. CASE player' = [player EXCEPT ![req[t].user] = row]
    BY <1>1, <1>2, <2>2, <2>5, RowChanges
  <2> QED BY <2>3, <2>4, <2>5
<1>4. RowsKept
  BY <1>1, <1>3, PlayerChanges DEF DuelInv
<1>5. Moves(t) /\ pc'[t] = "gather" /\ req'[t] = req[t]
  BY <1>1, GotoMoves DEF Labels
<1>6. RequestSound(t)'
  BY <1>1, <1>4, <1>5 DEF RequestSound, RowsKept, Grows, Playing, Telling
<1> QED BY <1>1, <1>3, <1>4, <1>5, <1>6, QuietStep DEF Telling, Playing

LEMMA ActivateKeeps ==
  ASSUME DuelInv, NEW t \in Threads, Activate(t)
  PROVE DuelInv'
<1>1. /\ pc[t] = "activate" /\ UNCHANGED <<seats, player, told, now, crashes, todo>> /\ Answer(t)
      /\ LocalsTyped /\ RequestSound(t) /\ RowsTyped
  BY DEF Activate, DuelInv, TypeOK
<1>2. RowsKept
  <2>1. CASE duel.status = "waiting"
    BY <1>1, <2>1, Activated DEF Activate, DuelInv, RequestSound
  <2>2. CASE duel.status # "waiting"
    <3>1. duel' = duel /\ told' \in [Kinds -> [Users -> Nat]]
      BY <1>1, <2>2 DEF Activate, RowsTyped
    <3> QED BY <1>1, <3>1, RowsUnchanged DEF DuelInv
  <2> QED BY <2>1, <2>2
<1>3. Moves(t) /\ Rests(t)
  BY <1>1, AnswerMoves
<1>4. RequestSound(t)'
  BY <1>1, <1>2, <1>3, RestsSound DEF RowsKept
<1>5. duel'.status = "completed" => duel.status = "completed"
  BY DEF Activate, DuelInv, TypeOK, RowsTyped
<1> QED BY <1>1, <1>2, <1>3, <1>4, <1>5, QuietStep DEF Rests, Telling, Playing

LEMMA UseHintKeeps ==
  ASSUME DuelInv, NEW t \in Threads, UseHint(t)
  PROVE DuelInv'
<1>1. /\ pc[t] = "hint" /\ UNCHANGED <<duel, seats, told, now, crashes, todo>>
      /\ Finalize(t, FALSE, "idle")
      /\ LocalsTyped /\ RequestSound(t) /\ req[t] \in Request /\ RowsTyped
  BY DEF UseHint, DuelInv, TypeOK, LocalsTyped
<1>2. req[t].user \in Users
  BY <1>1 DEF RequestSound, Request
<1>3. /\ player' \in [Users -> Player]
      /\ \A u \in Users : /\ player'[u].ready = player[u].ready
                          /\ player'[u].accepted = player[u].accepted
                          /\ player'[u].judging = player[u].judging
                          /\ player'[u].final = player[u].final
  <2> DEFINE row == [player[req[t].user] EXCEPT !.hints = @ + 1]
  <2>1. player[req[t].user] \in Player
    BY <1>1, <1>2 DEF RowsTyped
  <2>2. /\ row \in Player /\ row.ready = player[req[t].user].ready
        /\ row.accepted = player[req[t].user].accepted
        /\ row.judging = player[req[t].user].judging /\ row.final = player[req[t].user].final
    BY <2>1 DEF Player
  <2>3. player' = [player EXCEPT ![req[t].user] = row]
    BY <1>1, <1>2 DEF UseHint, RowsTyped
  <2> HIDE DEF row
  <2> QED BY <1>1, <1>2, <2>2, <2>3, RowChanges
<1>4. RowsKept
  BY <1>1, <1>3, PlayerChanges DEF DuelInv
<1>5. Moves(t) /\ Rests(t)
  BY <1>1, FinalizeMoves
<1>6. RequestSound(t)'
  BY <1>1, <1>4, <1>5, RestsSound DEF RowsKept
<1> QED BY <1>1, <1>3, <1>4, <1>5, <1>6, QuietStep DEF Rests, Telling, Playing

LEMMA RecordKeeps ==
  ASSUME DuelInv, NEW t \in Threads, Record(t)
  PROVE DuelInv'
<1> DEFINE u == req[t].user
<1>1. /\ pc[t] = "record" /\ UNCHANGED <<duel, seats, told, now, crashes, todo>>
      /\ LocalsTyped /\ RequestSound(t) /\ req[t] \in Request /\ RowsTyped
  BY DEF Record, DuelInv, TypeOK, LocalsTyped
<1>2. /\ u \in Users /\ u \in Seated /\ duel.status # "waiting" /\ now > 0 /\ now \in Nat
      /\ Playing(t)
  BY <1>1 DEF RequestSound, Request, Playing, RowsTyped
<1>3. /\ player' \in [Users -> Player]
      /\ \A w \in Users : /\ player'[w].ready = player[w].ready
                          /\ player'[w].judging = player[w].judging
                          /\ w # u => player'[w] = player[w]
                          /\ player[w].accepted # 0 => player'[w].accepted # 0
  <2> DEFINE right == [player[u] EXCEPT !.accepted = now, !.final = "accepted"]
             wrong == [player[u] EXCEPT !.wrong = @ + 1,
                                        !.final = IF @ = "pending" THEN "failed" ELSE @]
  <2>1. player[u] \in Player
    BY <1>1, <1>2 DEF RowsTyped
  <2>2. right \in Player /\ right.ready = player[u].ready /\ right.judging = player[u].judging
        /\ right.accepted # 0
    <3>1. now \in Nat /\ now # 0 /\ "accepted" \in FinalStatuses
      BY <1>2 DEF FinalStatuses
    <3> QED BY <2>1, <3>1 DEF Player
  <2>3. wrong \in Player /\ wrong.ready = player[u].ready /\ wrong.judging = player[u].judging
        /\ wrong.accepted = player[u].accepted
    <3>1. player[u].wrong + 1 \in Nat /\ player[u].final \in FinalStatuses
      BY <2>1 DEF Player
    <3>2. CASE player[u].final = "pending"
      <4>1. wrong = [player[u] EXCEPT !.wrong = @ + 1, !.final = "failed"]
        BY <2>1, <3>2 DEF Player
      <4> HIDE DEF wrong
      <4> QED BY <2>1, <3>1, <4>1 DEF Player, FinalStatuses
    <3>3. CASE player[u].final # "pending"
      <4>1. wrong = [player[u] EXCEPT !.wrong = @ + 1]
        BY <2>1, <3>3 DEF Player
      <4> HIDE DEF wrong
      <4> QED BY <2>1, <3>1, <4>1 DEF Player
    <3> QED BY <3>2, <3>3
  <2>4. \/ player' = player
        \/ player' = [player EXCEPT ![u] = right]
        \/ player' = [player EXCEPT ![u] = wrong]
    <3>1. \/ player' = player
          \/ player' = [player EXCEPT ![u].accepted = now, ![u].final = "accepted"]
          \/ player' = [player EXCEPT ![u].wrong = @ + 1,
                                      ![u].final = IF @ = "pending" THEN "failed" ELSE @]
      BY DEF Record
    <3>2. [player EXCEPT ![u].accepted = now, ![u].final = "accepted"] = [player EXCEPT ![u] = right]
      BY <1>1, <1>2 DEF RowsTyped
    <3>3. [player EXCEPT ![u].wrong = @ + 1, ![u].final = IF @ = "pending" THEN "failed" ELSE @]
            = [player EXCEPT ![u] = wrong]
      BY <1>1, <1>2, <2>1 DEF RowsTyped, Player
    <3> QED BY <3>1, <3>2, <3>3
  <2> HIDE DEF right, wrong
  <2>5. CASE player' = player
    BY <1>1, <2>5 DEF RowsTyped
  <2>6. CASE player' = [player EXCEPT ![u] = right]
    BY <1>1, <1>2, <2>2, <2>6, RowChanges
  <2>7. CASE player' = [player EXCEPT ![u] = wrong]
    BY <1>1, <1>2, <2>3, <2>7, RowChanges
  <2> QED BY <2>4, <2>5, <2>6, <2>7
<1>4. RowsKept
  BY <1>1, <1>2, <1>3, PlayerChanges DEF DuelInv
<1>5. Moves(t) /\ Rests(t)
  BY <1>1, FinalizeMoves, AnswerMoves DEF Record
<1>6. RequestSound(t)'
  BY <1>1, <1>4, <1>5, RestsSound DEF RowsKept
<1> QED BY <1>1, <1>2, <1>3, <1>4, <1>5, <1>6, QuietStep DEF Rests, Telling, Playing

LEMMA StartJudgingKeeps ==
  ASSUME DuelInv, NEW t \in Threads, StartJudging(t)
  PROVE DuelInv'
<1> DEFINE u == req[t].user
           row == [player[u] EXCEPT !.judging = TRUE]
<1>1. /\ pc[t] = "submit" /\ UNCHANGED <<duel, seats, told, now, crashes, req, todo>>
      /\ Goto(t, "judge")
      /\ LocalsTyped /\ RequestSound(t) /\ req[t] \in Request /\ RowsTyped
  BY DEF StartJudging, DuelInv, TypeOK, LocalsTyped
<1>2. u \in Users /\ player[u] \in Player
  BY <1>1 DEF RequestSound, Request, RowsTyped
<1>3. /\ row \in Player /\ row.ready = player[u].ready /\ row.accepted = player[u].accepted
      /\ row.final = player[u].final
  BY <1>2 DEF Player
<1>4. player' = [player EXCEPT ![u] = row]
  BY <1>1, <1>2 DEF StartJudging, RowsTyped
<1> HIDE DEF row
<1>5. /\ player' \in [Users -> Player] /\ player'[u] = row
      /\ \A w \in Users \ {u} : player'[w] = player[w]
  BY <1>1, <1>2, <1>3, <1>4, RowChanges
<1>6. RowsKept
  BY <1>1, <1>3, <1>5, PlayerChanges DEF DuelInv
<1>7. Moves(t) /\ pc'[t] = "judge" /\ req'[t] = req[t]
  BY <1>1, GotoMoves DEF Labels
<1>8. RequestSound(t)'
  BY <1>1, <1>6, <1>7 DEF RequestSound, RowsKept, Grows, Playing, Telling
<1>9. JudgingShown'
  <2> SUFFICES ASSUME NEW w \in Users, player'[w].judging, ~ (crashes' > 0)
               PROVE \E s \in Threads : pc'[s] = "judge" /\ req'[s].user = w
    BY DEF JudgingShown
  <2>1. CASE w = u
    BY <1>7, <2>1
  <2>2. CASE w # u
    <3>1. PICK s \in Threads : pc[s] = "judge" /\ req[s].user = w
      BY <1>1, <1>5, <2>2 DEF DuelInv, JudgingShown
    <3>2. s # t
      BY <1>1, <3>1
    <3> QED BY <1>7, <3>1, <3>2 DEF Moves
  <2> QED BY <2>1, <2>2
<1>10. TellingSound'
  <2>1. ~ Telling(t) /\ ~ Telling(t)' /\ Playing(t) /\ req'[t].user = req[t].user
    BY <1>1, <1>7 DEF Telling, Playing
  <2>2. \A w \in Users : player'[w].final = player[w].final
    BY <1>3, <1>5
  <2> QED BY <1>1, <1>6, <1>7, <2>1, <2>2, TellingKept DEF DuelInv, RowsKept
<1> QED BY <1>1, <1>6, <1>7, <1>8, <1>9, <1>10, AllKept DEF LocalsTyped

LEMMA JudgedKeeps ==
  ASSUME DuelInv, NEW t \in Threads, NEW verdict \in {"pass", "fail", "error"}, Judged(t, verdict)
  PROVE DuelInv'
<1> DEFINE u == req[t].user
           row == [player[u] EXCEPT !.judging = FALSE]
           r == [req[t] EXCEPT !.passed = (verdict = "pass")]
<1>1. /\ pc[t] = "judge" /\ UNCHANGED <<duel, seats, told, now, crashes, todo>>
      /\ LocalsTyped /\ RequestSound(t) /\ req[t] \in Request /\ RowsTyped
  BY DEF Judged, DuelInv, TypeOK, LocalsTyped
<1>2. u \in Users /\ player[u] \in Player
  BY <1>1 DEF RequestSound, Request, RowsTyped
<1>3. /\ row \in Player /\ row.ready = player[u].ready /\ row.accepted = player[u].accepted
      /\ row.final = player[u].final /\ ~ row.judging
  BY <1>2 DEF Player
<1>4. player' = [player EXCEPT ![u] = row]
  BY <1>1, <1>2 DEF Judged, RowsTyped
<1>5. Finish(t) \/ (req' = [req EXCEPT ![t] = r] /\ pc' = [pc EXCEPT ![t] = "record"])
  BY <1>1 DEF Judged, Goto, LocalsTyped
<1>6. r \in Request /\ r.user = u /\ r.op = req[t].op /\ r.after = req[t].after
  BY <1>1 DEF Request
<1> HIDE DEF row, r
<1>7. /\ player' \in [Users -> Player] /\ player'[u] = row
      /\ \A w \in Users \ {u} : player'[w] = player[w]
  BY <1>1, <1>2, <1>3, <1>4, RowChanges
<1>8. RowsKept
  BY <1>1, <1>3, <1>7, PlayerChanges DEF DuelInv
<1>9. Moves(t) /\ (Rests(t) \/ (pc'[t] = "record" /\ req'[t] = r))
  <2>1. CASE Finish(t)
    BY <1>1, <2>1, FinishMoves
  <2>2. CASE req' = [req EXCEPT ![t] = r] /\ pc' = [pc EXCEPT ![t] = "record"]
    <3>1. "record" \in Labels
      BY DEF Labels
    <3>2. pc' \in [Threads -> Labels] /\ req' \in [Threads -> Request]
      BY <1>1, <1>6, <2>2, <3>1 DEF LocalsTyped
    <3> QED BY <1>1, <2>2, <3>2 DEF Moves, LocalsTyped
  <2> QED BY <1>5, <2>1, <2>2
<1>10. RequestSound(t)'
  <2>1. CASE Rests(t)
    BY <1>1, <1>8, <2>1, RestsSound DEF RowsKept
  <2>2. CASE pc'[t] = "record" /\ req'[t] = r
    BY <1>1, <1>6, <1>8, <2>2 DEF RequestSound, RowsKept, Grows, Playing, Telling
  <2> QED BY <1>9, <2>1, <2>2
<1>11. JudgingShown'
  <2> SUFFICES ASSUME NEW w \in Users, player'[w].judging, ~ (crashes' > 0)
               PROVE \E s \in Threads : pc'[s] = "judge" /\ req'[s].user = w
    BY DEF JudgingShown
  <2>1. w # u
    BY <1>3, <1>7
  <2>2. PICK s \in Threads : pc[s] = "judge" /\ req[s].user = w
    BY <1>1, <1>7, <2>1 DEF DuelInv, JudgingShown
  <2>3. s # t
    BY <2>1, <2>2
  <2> QED BY <1>9, <2>2, <2>3 DEF Moves
<1>12. TellingSound'
  <2>1. ~ Telling(t) /\ ~ Telling(t)' /\ Playing(t) /\ (Playing(t)' => req'[t].user = req[t].user)
    BY <1>1, <1>6, <1>9 DEF Telling, Playing, Rests
  <2>2. \A w \in Users : player'[w].final = player[w].final
    BY <1>3, <1>7
  <2> QED BY <1>1, <1>8, <1>9, <2>1, <2>2, TellingKept DEF DuelInv, RowsKept
<1> QED BY <1>1, <1>8, <1>9, <1>10, <1>11, <1>12, AllKept DEF LocalsTyped

LEMMA CloseKeeps ==
  ASSUME DuelInv, NEW t \in Threads, Close(t)
  PROVE DuelInv'
<1> DEFINE v == req[t].verdict
<1>1. /\ pc[t] = "close" /\ UNCHANGED <<seats, told, now, crashes, todo>> /\ ~ Telling(t)
      /\ LocalsTyped /\ RequestSound(t) /\ req[t] \in Request /\ RowsTyped /\ RoomSound
  BY DEF Close, DuelInv, TypeOK, LocalsTyped, Telling
<1>2. CASE duel.status \in Closed
  <2>1. Return(t) /\ UNCHANGED rowsVars
    BY <1>1, <1>2 DEF Close, rowsVars
  <2>2. Moves(t) /\ Rests(t)
    BY <1>1, <2>1, ReturnMoves
  <2> QED BY <1>1, <2>1, <2>2, ReadStepRests
<1>3. CASE duel.status \notin Closed
  <2>1. /\ v \in Verdict /\ VerdictSound(v)
        /\ req[t].finals \in [Users -> FinalStatuses \cup {None}]
        /\ \A u \in Users : req[t].finals[u] # None => u \in Seated
    BY <1>1 DEF Request, RequestSound
  <2>2. /\ duel' = [duel EXCEPT !.status = v.status, !.winner = v.winner]
        /\ player' = [u \in Users |-> IF req[t].finals[u] = None THEN player[u]
                                      ELSE [player[u] EXCEPT !.final = req[t].finals[u]]]
    BY <1>3 DEF Close
  <2>3. /\ RowsKept
        /\ duel'.status = v.status /\ duel'.winner = v.winner
        /\ \A u \in Users : player'[u].judging = player[u].judging
    BY <1>1, <1>3, <2>1, <2>2, ClosedBy
  <2>4. CASE v.status # "completed"
    <3>1. Return(t)
      BY <1>3, <2>4 DEF Close
    <3>2. Moves(t) /\ Rests(t)
      BY <1>1, <3>1, ReturnMoves
    <3>3. RequestSound(t)'
      BY <1>1, <2>3, <3>2, RestsSound DEF RowsKept
    <3> QED BY <1>1, <2>3, <2>4, <3>2, <3>3, QuietStep DEF Rests, Telling
  <2>5. CASE v.status = "completed"
    <3>1. Goto(t, "announce") /\ UNCHANGED req
      BY <1>3, <2>5 DEF Close
    <3>2. Moves(t) /\ pc'[t] = "announce" /\ req'[t] = req[t]
      BY <1>1, <3>1, GotoMoves DEF Labels
    <3>3. RequestSound(t)'
      BY <1>1, <2>3, <2>5, <3>2 DEF RequestSound, RowsKept, Grows, Playing, Telling
    <3>4. JudgingShown'
      BY <1>1, <2>3, <3>2, JudgingKept DEF DuelInv
    <3>5. \A s \in Threads \ {t} : ~ Telling(s)'
      <4>1. \A s \in Threads : ~ Telling(s)
        BY <1>3 DEF DuelInv, RequestSound, Closed
      <4> QED BY <3>2, <4>1 DEF Moves, Telling
    <3>6. \A kind \in Kinds, u \in Users : told'[kind][u] = 0
      BY <1>1, <1>3 DEF DuelInv, TellingSound, Closed
    <3>7. TellingSound'
      BY <3>2, <3>5, <3>6 DEF TellingSound, Telling, Kinds
    <3> QED BY <1>1, <2>3, <3>2, <3>3, <3>4, <3>7, AllKept DEF LocalsTyped
  <2> QED BY <2>4, <2>5
<1> QED BY <1>2, <1>3

LEMMA AnnounceKeeps ==
  ASSUME DuelInv, NEW t \in Threads, Announce(t)
  PROVE DuelInv'
<1>1. /\ pc[t] = "announce" /\ UNCHANGED <<rowsVars, now, crashes, req>> /\ Goto(t, "emit")
      /\ todo' = [todo EXCEPT ![t] = seats] /\ Telling(t)
      /\ LocalsTyped /\ RequestSound(t) /\ RowsTyped /\ RoomSound
  BY DEF Announce, DuelInv, TypeOK, LocalsTyped, Telling
<1>2. UNCHANGED <<duel, seats, player, told>>
  BY <1>1 DEF rowsVars
<1>3. RowsKept
  <2>1. told' \in [Kinds -> [Users -> Nat]]
    BY <1>1, <1>2 DEF RowsTyped
  <2> QED BY <1>1, <1>2, <2>1, RowsUnchanged
<1>4. Moves(t) /\ pc'[t] = "emit" /\ req'[t] = req[t]
  BY <1>1, GotoMoves DEF Labels
<1>5. todo' \in [Threads -> Seq(Users)] /\ todo'[t] = seats
  BY <1>1 DEF LocalsTyped, RowsTyped
<1>6. RequestSound(t)'
  BY <1>1, <1>2, <1>3, <1>4 DEF RequestSound, RowsKept, Grows, Playing, Telling
<1>7. JudgingShown'
  BY <1>1, <1>2, <1>4, JudgingKept DEF DuelInv
<1>8. \A s \in Threads \ {t} : ~ Telling(s) /\ ~ Telling(s)' /\ pc'[s] \notin {"emit", "crown"}
  <2>1. \A s \in Threads \ {t} : ~ Telling(s)
    BY <1>1 DEF DuelInv, TellingSound
  <2> QED BY <1>4, <2>1 DEF Moves, Telling
<1>9. duel.status = "completed" /\ \A kind \in Kinds, u \in Users : told[kind][u] = 0
  BY <1>1 DEF DuelInv, TellingSound, RequestSound
<1>10. ListSound(t)'
  <2>1. Len(seats) \in Nat /\ Len(seats) > 0 /\ seats # <<>>
    BY <1>1 DEF RowsTyped, RoomSound
  <2>2. \A i \in 1..Len(seats) : seats[i] \in Users
    BY <1>1 DEF RowsTyped
  <2> QED BY <1>1, <1>2, <1>4, <1>5, <1>9, <2>1, <2>2 DEF ListSound, RoomSound, SoundStart, Kinds
<1>11. ASSUME NEW u \in Seated
       PROVE Listed(u)'
  <2>1. PICK i \in 1..Len(seats) : seats[i] = u
    BY DEF Seated
  <2> QED BY <1>4, <1>5, <2>1 DEF Listed
<1>12. \A u \in Users : Entitled(u)' => u \in Seated
  <2>1. \A u \in Users : player'[u].final # "pending" => u \in Seated
    BY <1>1, <1>2 DEF RoomSound
  <2>2. ASSUME NEW s \in Threads, Playing(s)'
        PROVE req'[s].user \in Seated
    <3>1. s # t /\ pc'[s] = pc[s] /\ req'[s] = req[s]
      BY <1>4, <2>2 DEF Playing, Moves
    <3> QED BY <2>2, <3>1 DEF DuelInv, RequestSound, Playing
  <2> QED BY <2>1, <2>2 DEF Entitled
<1>13. duel.winner \in Users => duel.winner \in Seated
  BY <1>1 DEF RoomSound, SoundStart, Accepted
<1>14. TellingSound'
  <2>1. \A s, r \in Threads : Telling(s)' /\ Telling(r)' => s = r
    BY <1>8
  <2>2. \A s \in Threads : pc'[s] \in {"emit", "crown"} => ListSound(s)'
    BY <1>8, <1>10
  <2>3. \A u \in Users : u = duel'.winner => Listed(u)'
    BY <1>2, <1>11, <1>13
  <2>4. \A u \in Users : Entitled(u)' => Listed(u)'
    BY <1>11, <1>12
  <2> QED BY <1>2, <1>9, <2>1, <2>2, <2>3, <2>4 DEF TellingSound, Kinds
<1> QED BY <1>1, <1>3, <1>4, <1>5, <1>6, <1>7, <1>14, AllKept

LEMMA TellTyped ==
  ASSUME RowsTyped, NEW kind \in Kinds, NEW u \in Users, told[kind][u] = 0, Tell(kind, u)
  PROVE /\ told' \in [Kinds -> [Users -> Nat]]
        /\ told'[kind][u] = 1
        /\ \A k \in Kinds, w \in Users : k # kind \/ w # u => told'[k][w] = told[k][w]
BY DEF RowsTyped, Tell

\* The participant at the head of the list of t has been told all he is to be told.
HeadTold(t, u) ==
  /\ u = todo[t][1]
  /\ told' \in [Kinds -> [Users -> Nat]]
  /\ told'["completed"][u] = 1
  /\ told'["won"][u] = IF u = duel.winner THEN 1 ELSE 0
  /\ \A kind \in Kinds, w \in Users \ {u} : told'[kind][w] = told[kind][w]

LEMMA TellNextKeeps ==
  ASSUME DuelInv, NEW t \in Threads, pc[t] \in {"emit", "crown"}, NEW u \in Users, HeadTold(t, u),
         TellNext(t), UNCHANGED <<duel, seats, player, now, crashes>>
  PROVE DuelInv'
<1>1. /\ Telling(t) /\ LocalsTyped /\ RequestSound(t) /\ RowsTyped /\ RoomSound /\ TellingSound
      /\ ListSound(t) /\ todo[t] \in Seq(Users) /\ Len(todo[t]) \in Nat \ {0}
      /\ duel.status = "completed"
  <2>1. /\ Telling(t) /\ LocalsTyped /\ RequestSound(t) /\ RowsTyped /\ RoomSound /\ TellingSound
        /\ todo[t] \in Seq(Users)
    BY DEF DuelInv, TypeOK, LocalsTyped, Telling
  <2>2. ListSound(t) /\ duel.status = "completed"
    BY <2>1 DEF TellingSound, RequestSound
  <2>3. todo[t] # <<>>
    BY <2>2 DEF ListSound
  <2> QED BY <2>1, <2>2, <2>3
<1>2. RowsKept
  BY <1>1, RowsUnchanged DEF HeadTold
<1>3. /\ todo' \in [Threads -> Seq(Users)] /\ todo'[t] = Tail(todo[t])
      /\ Len(todo'[t]) = Len(todo[t]) - 1
      /\ \A i \in 1..Len(todo'[t]) : todo'[t][i] = todo[t][i + 1]
  BY <1>1 DEF TellNext, LocalsTyped
<1>4. /\ Moves(t)
      /\ \/ Len(todo[t]) = 1 /\ Rests(t)
         \/ Len(todo[t]) > 1 /\ pc'[t] = "emit" /\ req'[t] = req[t]
  <2>1. CASE Len(todo[t]) = 1
    BY <1>1, <2>1, ReturnMoves DEF TellNext
  <2>2. CASE Len(todo[t]) # 1
    <3>1. Goto(t, "emit") /\ UNCHANGED req
      BY <2>2, Zenon DEF TellNext
    <3>2. "emit" \in Labels
      BY DEF Labels
    <3>3. Len(todo[t]) > 1
      <4>1. Len(todo[t]) \in Nat \ {0}
        BY <1>1
      <4>2. \A n \in Nat \ {0} : n # 1 => n > 1
        OBVIOUS
      <4> QED BY <2>2, <4>1, <4>2
    <3> QED BY <1>1, <3>1, <3>2, <3>3, GotoMoves
  <2> QED BY <2>1, <2>2
<1>5. RequestSound(t)'
  <2>1. CASE Rests(t)
    BY <1>1, <1>2, <2>1, RestsSound DEF RowsKept
  <2>2. CASE pc'[t] = "emit" /\ req'[t] = req[t]
    BY <1>1, <1>2, <2>2 DEF RequestSound, RowsKept, Grows, Playing, Telling
  <2> QED BY <1>4, <2>1, <2>2
<1>6. JudgingShown'
  BY <1>4, JudgingKept DEF DuelInv
<1>7. \A s \in Threads \ {t} : ~ Telling(s) /\ ~ Telling(s)' /\ pc'[s] \notin {"announce", "emit", "crown"}
  <2>1. \A s \in Threads \ {t} : ~ Telling(s)
    BY <1>1 DEF TellingSound
  <2> QED BY <1>4, <2>1 DEF Moves, Telling
<1>8. pc'[t] # "announce" /\ pc'[t] # "crown"
      /\ (pc'[t] = "emit" => Len(todo[t]) > 1 /\ Len(todo'[t]) > 0)
  BY <1>1, <1>3, <1>4 DEF Rests
<1>9. ASSUME NEW kind \in Kinds, NEW w \in Users
      PROVE told'[kind][w] <= 1
  <2>1. told[kind][w] <= 1
    BY <1>1 DEF TellingSound
  <2>2. CASE w # u
    BY <2>1, <2>2 DEF HeadTold
  <2>3. CASE w = u
    BY <2>3 DEF HeadTold, Kinds
  <2> QED BY <2>2, <2>3
<1>10. \A w \in Users : told'["won"][w] # 0 => w = duel'.winner
  BY <1>1 DEF HeadTold, TellingSound, Kinds
<1>11. pc'[t] = "emit" => ListSound(t)'
  <2> SUFFICES ASSUME pc'[t] = "emit"
               PROVE ListSound(t)'
    OBVIOUS
  <2>1. \A i \in 1..Len(todo'[t]) : i + 1 \in 1..Len(todo[t]) /\ i + 1 # 1
    BY <1>1, <1>3
  <2>2. \A i \in 1..Len(todo[t]) : todo[t][i] \in Users
    BY <1>1
  <2>3. \A i, j \in 1..Len(todo'[t]) : todo'[t][i] = todo'[t][j] => i = j
    <3> TAKE i, j \in 1..Len(todo'[t])
    <3>1. PICK k, l \in 1..Len(todo[t]) : k = i + 1 /\ l = j + 1
      BY <2>1
    <3>2. todo'[t][i] = todo[t][k] /\ todo'[t][j] = todo[t][l]
      BY <1>3, <3>1
    <3>3. todo[t][k] = todo[t][l] => k = l
      BY <1>1 DEF ListSound
    <3> QED BY <3>1, <3>2, <3>3
  <2>4. ASSUME NEW i \in 1..Len(todo'[t])
        PROVE told'["won"][todo'[t][i]] = 0 /\ told'["completed"][todo'[t][i]] = 0
    <3>1. PICK j \in 1..Len(todo[t]) : j = i + 1 /\ j # 1
      BY <2>1
    <3>2. todo'[t][i] = todo[t][j] /\ todo[t][j] \in Users
      BY <1>3, <2>2, <3>1
    <3>3. 1 \in 1..Len(todo[t])
      BY <1>1
    <3>4. todo[t][j] # u
      BY <1>1, <3>1, <3>3 DEF ListSound, HeadTold
    <3>5. told["won"][todo[t][j]] = 0 /\ told["completed"][todo[t][j]] = 0
      BY <1>1, <3>1 DEF ListSound
    <3>6. \A w \in Users \ {u} : told'["won"][w] = told["won"][w] /\ told'["completed"][w] = told["completed"][w]
      BY DEF HeadTold, Kinds
    <3>7. told'["won"][todo[t][j]] = 0 /\ told'["completed"][todo[t][j]] = 0
      BY <3>2, <3>4, <3>5, <3>6
    <3> QED BY <3>2, <3>7
  <2>5. todo'[t] # <<>>
    BY <1>3, <1>8
  <2> QED BY <2>3, <2>4, <2>5 DEF ListSound
<1>12. ASSUME NEW w \in Users, w # u, Listed(w)
       PROVE Listed(w)'
  <2>1. PICK i \in 1..Len(todo[t]) : todo[t][i] = w
    BY <1>7, <1>12 DEF Listed, Telling
  <2>2. i # 1 /\ i - 1 \in 1..Len(todo'[t]) /\ (i - 1) + 1 = i
    BY <1>1, <1>3, <1>12, <2>1 DEF HeadTold
  <2>3. todo'[t][i - 1] = w
    BY <1>3, <2>1, <2>2
  <2>4. pc'[t] = "emit"
    BY <1>1, <1>3, <1>4, <2>2
  <2> QED BY <2>2, <2>3, <2>4 DEF Listed
<1>13. ASSUME crashes = 0, NEW w \in Users
       PROVE /\ Entitled(w)' => told'["completed"][w] = 1 \/ Listed(w)'
             /\ w = duel'.winner => told'["won"][w] = 1 \/ Listed(w)'
  <2>1. CASE w = u
    BY <2>1 DEF HeadTold
  <2>2. CASE w # u
    <3>1. \A s \in Threads : pc[s] # "announce"
      BY <1>7 DEF Telling
    <3>2. /\ Entitled(w) => told["completed"][w] = 1 \/ Listed(w)
          /\ w = duel.winner => told["won"][w] = 1 \/ Listed(w)
      BY <1>1, <1>13, <3>1 DEF TellingSound
    <3>3. Entitled(w)' => Entitled(w)
      <4>1. ASSUME NEW s \in Threads, Playing(s)', req'[s].user = w
            PROVE Playing(s) /\ req[s].user = w
        <5>1. s # t
          BY <1>4, <4>1 DEF Playing, Rests
        <5> QED BY <1>4, <4>1, <5>1 DEF Moves, Playing
      <4> QED BY <4>1 DEF Entitled
    <3> QED BY <1>12, <2>2, <3>2, <3>3 DEF HeadTold, Kinds
  <2> QED BY <2>1, <2>2
<1>14. TellingSound'
  <2>1. \A s, r \in Threads : Telling(s)' /\ Telling(r)' => s = r
    BY <1>7
  <2>2. \A s \in Threads : pc'[s] \in {"emit", "crown"} => ListSound(s)'
    BY <1>7, <1>8, <1>11
  <2>3. (\A kind \in Kinds, w \in Users :
           /\ told[kind][w] <= 1
           /\ duel.status # "completed" \/ (\E s \in Threads : pc[s] = "announce")
                => told[kind][w] = 0)'
    BY <1>1, <1>7, <1>8, <1>9
  <2>4. (duel.status = "completed" /\ crashes = 0 /\ (\A s \in Threads : pc[s] # "announce") =>
         /\ \A w \in Users : Entitled(w) => told["completed"][w] = 1 \/ Listed(w)
         /\ \A w \in Users : w = duel.winner => told["won"][w] = 1 \/ Listed(w))'
    BY <1>13
  <2> QED BY <1>10, <2>1, <2>2, <2>3, <2>4 DEF TellingSound
<1> QED BY <1>2, <1>3, <1>4, <1>5, <1>6, <1>14, AllKept

LEMMA HeadFacts ==
  ASSUME DuelInv, NEW t \in Threads, pc[t] \in {"emit", "crown"}
  PROVE /\ RowsTyped /\ ListSound(t) /\ RequestSound(t) /\ Telling(t)
        /\ Head(todo[t]) = todo[t][1] /\ todo[t][1] \in Users
        /\ 1 \in 1..Len(todo[t])
        /\ duel.status = "completed" /\ req[t].verdict.winner = duel.winner
        /\ told["won"][todo[t][1]] = 0
        /\ pc[t] = "emit" => told["completed"][todo[t][1]] = 0
        /\ \A w \in Users : told["completed"][w] <= 1
<1>1. /\ RowsTyped /\ RequestSound(t) /\ Telling(t) /\ TellingSound /\ ListSound(t)
      /\ todo[t] \in Seq(Users)
  BY DEF DuelInv, TypeOK, LocalsTyped, Telling, TellingSound
<1>2. todo[t] # <<>>
  BY <1>1 DEF ListSound
<1>3. Head(todo[t]) = todo[t][1] /\ todo[t][1] \in Users /\ 1 \in 1..Len(todo[t])
  BY <1>1, <1>2
<1> QED BY <1>1, <1>3 DEF ListSound, RequestSound, TellingSound, Kinds

LEMMA EmitKeeps ==
  ASSUME DuelInv, NEW t \in Threads, Emit(t)
  PROVE DuelInv'
<1> DEFINE u == todo[t][1]
<1>1. pc[t] = "emit" /\ UNCHANGED <<duel, seats, player, now, crashes>>
  BY DEF Emit
<1>2. /\ RowsTyped /\ ListSound(t) /\ RequestSound(t) /\ Telling(t)
      /\ Head(todo[t]) = u /\ u \in Users
      /\ duel.status = "completed" /\ req[t].verdict.winner = duel.winner
      /\ told["won"][u] = 0 /\ told["completed"][u] = 0
  BY <1>1, HeadFacts
<1>3. /\ told' \in [Kinds -> [Users -> Nat]]
      /\ told'["completed"][u] = 1
      /\ \A k \in Kinds, w \in Users : k # "completed" \/ w # u => told'[k][w] = told[k][w]
  BY <1>2, TellTyped DEF Emit, Kinds
<1>4. CASE u # duel.winner
  <2>1. TellNext(t)
    BY <1>2, <1>4 DEF Emit
  <2>2. HeadTold(t, u)
    BY <1>2, <1>3, <1>4 DEF HeadTold, Kinds
  <2> QED BY <1>1, <1>2, <2>1, <2>2, TellNextKeeps
<1>5. CASE u = duel.winner
  <2>1. Goto(t, "crown") /\ UNCHANGED <<req, todo>>
    BY <1>2, <1>5 DEF Emit
  <2>2. Moves(t) /\ pc'[t] = "crown" /\ req'[t] = req[t]
    BY <1>1, <2>1, GotoMoves DEF DuelInv, TypeOK, Labels
  <2>3. RowsKept
    BY <1>1, <1>2, <1>3, RowsUnchanged DEF DuelInv
  <2>4. RequestSound(t)'
    BY <1>1, <1>2, <2>2, <2>3 DEF RequestSound, RowsKept, Grows, Playing, Telling
  <2>5. JudgingShown'
    BY <1>1, <2>2, JudgingKept DEF DuelInv
  <2>6. \A s \in Threads \ {t} : ~ Telling(s) /\ ~ Telling(s)' /\ pc'[s] \notin {"announce", "emit", "crown"}
    <3>1. \A s \in Threads \ {t} : ~ Telling(s)
      BY <1>2 DEF DuelInv, TellingSound
    <3> QED BY <2>2, <3>1 DEF Moves, Telling
  <2>7. ListSound(t)'
    <3>1. \A i \in 1..Len(todo[t]) : todo[t][i] \in Users /\ (todo[t][i] = u => i = 1)
      <4>1. todo[t] \in Seq(Users) /\ 1 \in 1..Len(todo[t])
        BY <1>1, HeadFacts DEF DuelInv, TypeOK, LocalsTyped
      <4> QED BY <1>2, <4>1 DEF ListSound
    <3>2. ASSUME NEW i \in 1..Len(todo[t])
          PROVE /\ told'["won"][todo[t][i]] = 0
                /\ told'["completed"][todo[t][i]] = 0 \/ i = 1
      <4>1. told["won"][todo[t][i]] = 0 /\ told["completed"][todo[t][i]] = 0
        BY <1>1, <1>2 DEF ListSound
      <4> QED BY <1>3, <3>1, <4>1 DEF Kinds
    <3>3. told'["completed"][duel'.winner] = 1 /\ todo'[t][1] = duel'.winner
      BY <1>1, <1>3, <1>5, <2>1
    <3> QED BY <1>2, <2>1, <2>2, <3>2, <3>3 DEF ListSound
  <2>8. TellingSound'
    <3>1. \A s, r \in Threads : Telling(s)' /\ Telling(r)' => s = r
      BY <2>6
    <3>2. \A s \in Threads : pc'[s] \in {"emit", "crown"} => ListSound(s)'
      BY <2>6, <2>7
    <3>3. (\A kind \in Kinds, w \in Users :
             /\ told[kind][w] <= 1
             /\ duel.status # "completed" \/ (\E s \in Threads : pc[s] = "announce")
                  => told[kind][w] = 0)'
      <4>1. \A kind \in Kinds, w \in Users : told'[kind][w] <= 1
        BY <1>3 DEF DuelInv, TellingSound, Kinds
      <4> QED BY <1>1, <1>2, <2>2, <2>6, <4>1
    <3>4. \A w \in Users : told'["won"][w] # 0 => w = duel'.winner
      BY <1>1, <1>3 DEF DuelInv, TellingSound, Kinds
    <3>5. ASSUME crashes = 0, NEW w \in Users
          PROVE /\ Entitled(w)' => told'["completed"][w] = 1 \/ Listed(w)'
                /\ w = duel'.winner => told'["won"][w] = 1 \/ Listed(w)'
      <4>1. \A s \in Threads : pc[s] # "announce"
        BY <1>1, <2>6 DEF Telling
      <4>2. /\ Entitled(w) => told["completed"][w] = 1 \/ Listed(w)
            /\ w = duel.winner => told["won"][w] = 1 \/ Listed(w)
        BY <1>2, <3>5, <4>1 DEF DuelInv, TellingSound
      <4>3. Entitled(w)' => Entitled(w)
        <5>1. ASSUME NEW s \in Threads, Playing(s)', req'[s].user = w
              PROVE Playing(s) /\ req[s].user = w
          BY <2>2, <5>1 DEF Moves, Playing
        <5> QED BY <1>1, <5>1 DEF Entitled
      <4>4. Listed(w) => Listed(w)'
        <5>1. Listed(w) => \E i \in 1..Len(todo[t]) : todo[t][i] = w
          BY <2>6 DEF Listed, Telling
        <5> QED BY <2>1, <2>2, <5>1 DEF Listed
      <4>5. told["completed"][w] = 1 => told'["completed"][w] = 1
        BY <1>3 DEF Kinds
      <4>6. told'["won"][w] = told["won"][w]
        BY <1>3 DEF Kinds
      <4> QED BY <1>1, <4>2, <4>3, <4>4, <4>5, <4>6
    <3>6. (duel.status = "completed" /\ crashes = 0 /\ (\A s \in Threads : pc[s] # "announce") =>
           /\ \A w \in Users : Entitled(w) => told["completed"][w] = 1 \/ Listed(w)
           /\ \A w \in Users : w = duel.winner => told["won"][w] = 1 \/ Listed(w))'
      BY <1>1, <3>5
    <3> QED BY <3>1, <3>2, <3>3, <3>4, <3>6 DEF TellingSound
  <2>9. todo' \in [Threads -> Seq(Users)]
    BY <2>1 DEF DuelInv, TypeOK, LocalsTyped
  <2> QED BY <2>2, <2>3, <2>4, <2>5, <2>8, <2>9, AllKept
<1> QED BY <1>4, <1>5

LEMMA CrownKeeps ==
  ASSUME DuelInv, NEW t \in Threads, Crown(t)
  PROVE DuelInv'
<1> DEFINE u == todo[t][1]
<1>1. pc[t] = "crown" /\ UNCHANGED <<duel, seats, player, now, crashes>> /\ TellNext(t)
  BY DEF Crown
<1>2. /\ RowsTyped /\ ListSound(t) /\ Head(todo[t]) = u /\ u \in Users /\ told["won"][u] = 0
      /\ RequestSound(t) /\ 1 \in 1..Len(todo[t])
  BY <1>1, HeadFacts
<1>3. /\ told' \in [Kinds -> [Users -> Nat]]
      /\ told'["won"][u] = 1
      /\ \A k \in Kinds, w \in Users : k # "won" \/ w # u => told'[k][w] = told[k][w]
  BY <1>2, TellTyped DEF Crown, Kinds
<1>4. u = duel.winner
  BY <1>1, <1>2 DEF ListSound
<1>5. told["completed"][u] = 1
  BY <1>1, <1>2, <1>4 DEF ListSound
<1>6. HeadTold(t, u)
  <2>1. told'["completed"][u] = 1
    BY <1>2, <1>3, <1>5 DEF Kinds
  <2>2. \A kind \in Kinds, w \in Users \ {u} : told'[kind][w] = told[kind][w]
    BY <1>3
  <2> QED BY <1>3, <1>4, <2>1, <2>2 DEF HeadTold
<1> QED BY <1>1, <1>2, <1>6, TellNextKeeps

-----------------------------------------------------------------------------
(* The whole specification. *)

LEMMA Initially == Init => DuelInv
<1> SUFFICES ASSUME Init PROVE DuelInv
  OBVIOUS
<1>1. RowsTyped
  <2>1. NewPlayer \in Player
    BY DEF NewPlayer, Player, FinalStatuses
  <2>2. player \in [Users -> Player] /\ told \in [Kinds -> [Users -> Nat]]
    BY <2>1 DEF Init
  <2>3. duel \in [status : {"waiting", "active"} \cup Closed, starts : Nat, expires : Nat,
                  winner : Users \cup {None}]
    BY DEF Init
  <2> QED BY <2>2, <2>3 DEF Init, RowsTyped
<1>2. LocalsTyped
  <2>1. "idle" \in Labels
    BY DEF Labels
  <2> QED BY <2>1, NoRequestTyped DEF Init, LocalsTyped
<1>3. RoomSound
  <2>1. \A u \in Users : player[u].accepted = 0 /\ player[u].final = "pending"
    BY DEF Init, NewPlayer
  <2>2. Len(seats) = 1 /\ duel.status = "waiting" /\ duel.winner = None
    BY DEF Init
  <2> QED BY <2>1, <2>2 DEF RoomSound, SoundStart
<1>4. JudgingShown
  BY DEF Init, NewPlayer, JudgingShown
<1>5. \A t \in Threads : RequestSound(t)
  BY DEF Init, NoRequest, RequestSound, Playing, Telling
<1>6. TellingSound
  BY DEF Init, TellingSound, Telling, Kinds
<1> QED BY <1>1, <1>2, <1>3, <1>4, <1>5, <1>6 DEF DuelInv, TypeOK

LEMMA TickKeeps == DuelInv /\ Tick => DuelInv'
<1> SUFFICES ASSUME DuelInv, Tick PROVE DuelInv'
  OBVIOUS
<1>1. UNCHANGED rowsVars /\ UNCHANGED <<duel, seats, player, told, crashes, pc, req, todo>>
      /\ now' = now + 1 /\ now \in Nat /\ crashes \in Nat
  BY DEF Tick, rowsVars, DuelInv, TypeOK, RowsTyped
<1>2. RowsKept
  BY <1>1, TimePasses DEF DuelInv, TypeOK
<1>3. ASSUME NEW t \in Threads
      PROVE RequestSound(t)'
  <2>1. Seated' = Seated /\ Accepted' = Accepted /\ RequestSound(t)
    BY <1>1 DEF Seated, Accepted, DuelInv
  <2> QED BY <1>1, <1>2, <2>1
          DEF RequestSound, RowsKept, Grows, VerdictSound, Playing, Telling
<1>4. LocalsTyped' /\ JudgingShown' /\ TellingSound'
  BY <1>1 DEF DuelInv, TypeOK, LocalsTyped, JudgingShown, TellingSound, Telling, ListSound,
              Listed, Entitled, Playing
<1> QED BY <1>2, <1>3, <1>4 DEF DuelInv, TypeOK, RowsKept

LEMMA CrashKeeps == DuelInv /\ Crash => DuelInv'
<1> SUFFICES ASSUME DuelInv, Crash PROVE DuelInv'
  OBVIOUS
<1>1. /\ UNCHANGED rowsVars /\ UNCHANGED <<duel, seats, player, told, now>>
      /\ crashes' = crashes + 1 /\ now \in Nat /\ crashes \in Nat
      /\ \A t \in Threads : pc'[t] = "idle" /\ req'[t] = NoRequest
  BY DEF Crash, rowsVars, DuelInv, TypeOK, RowsTyped
<1>2. RowsKept
  BY <1>1, TimePasses DEF DuelInv, TypeOK
<1>3. LocalsTyped'
  <2>1. "idle" \in Labels
    BY DEF Labels
  <2> QED BY <2>1, NoRequestTyped DEF Crash, LocalsTyped
<1>4. JudgingShown'
  BY <1>1 DEF JudgingShown
<1>5. \A t \in Threads : RequestSound(t)'
  BY <1>1 DEF NoRequest, RequestSound, Playing, Telling
<1>6. TellingSound'
  <2>1. (\A kind \in Kinds, u \in Users :
           /\ told[kind][u] <= 1
           /\ duel.status # "completed" \/ (\E t \in Threads : pc[t] = "announce")
                => told[kind][u] = 0)'
    BY <1>1 DEF DuelInv, TellingSound
  <2>2. (\A u \in Users : told["won"][u] # 0 => u = duel.winner)'
    BY <1>1 DEF DuelInv, TellingSound
  <2> QED BY <1>1, <2>1, <2>2 DEF TellingSound, Telling
<1> QED BY <1>2, <1>3, <1>4, <1>5, <1>6 DEF DuelInv, TypeOK, RowsKept

LEMMA Inductive == DuelInv /\ [Next]_vars => DuelInv'
<1> SUFFICES ASSUME DuelInv, [Next]_vars PROVE DuelInv'
  OBVIOUS
<1>1. ASSUME NEW t \in Threads, NEW op \in Endpoints, NEW u \in Users, Enter(t, op, u)
      PROVE DuelInv'
  BY <1>1, EnterKeeps
<1>2. ASSUME NEW t \in Threads, Step(t)
      PROVE DuelInv'
  BY <1>2, RereadKeeps, ViewKeeps, CountSeatsKeeps, TakeSeatKeeps, MarkReadyKeeps, GatherKeeps,
     ActivateKeeps, UseHintKeeps, StartJudgingKeeps, RecordKeeps, JudgedKeeps, ReadRowsKeeps,
     CloseKeeps, AnnounceKeeps, EmitKeeps, CrownKeeps
     DEF Step
<1>3. CASE UNCHANGED vars
  <2>1. UNCHANGED <<duel, seats, player, told, now, crashes, pc, req, todo>>
    BY <1>3 DEF vars, rowsVars
  <2>2. TypeOK'
    BY <2>1 DEF DuelInv, TypeOK, RowsTyped, LocalsTyped
  <2>3. Seated' = Seated /\ Accepted' = Accepted
    BY <2>1 DEF Seated, Accepted
  <2>4. RoomSound'
    BY <2>1, <2>3 DEF DuelInv, RoomSound, SoundStart
  <2>5. JudgingShown'
    BY <2>1 DEF DuelInv, JudgingShown
  <2>6. \A t \in Threads : RequestSound(t)'
    BY <2>1, <2>3 DEF DuelInv, RequestSound, VerdictSound, TwoReady, Playing, Telling
  <2>7. TellingSound'
    BY <2>1 DEF DuelInv, TellingSound, Telling, ListSound, Listed, Entitled, Playing
  <2> QED BY <2>2, <2>4, <2>5, <2>6, <2>7 DEF DuelInv
<1> QED BY <1>1, <1>2, <1>3, TickKeeps, CrashKeeps DEF Next

\* The invariant of the duel holds for any players, requests and durations: duels.py.
THEOREM DuelInvariant == Spec => []DuelInv
BY Initially, Inductive, PTL DEF Spec

\* The result reaches each player exactly once, unless a restart loses the request that
\* announces it: _finalize_duel and _emit_completion_events of duels.py.
THEOREM DuelToldOnce == Spec => []ToldOnce
<1>1. DuelInv => ToldOnce
  <2> SUFFICES ASSUME DuelInv PROVE ToldOnce
    OBVIOUS
  <2>1. \A u \in Users : told["completed"][u] <= 1 /\ told["won"][u] <= 1
    BY DEF DuelInv, TellingSound, Kinds
  <2>2. ASSUME duel.status = "completed", crashes = 0,
               \A t \in Threads : pc[t] \notin {"announce", "emit", "crown"}, NEW u \in Users
        PROVE /\ player[u].final # "pending" => told["completed"][u] = 1
              /\ told["won"][u] = 1 <=> u = duel.winner
    <3>1. \A t \in Threads : pc[t] # "announce"
      BY <2>2
    <3>2. ~ Listed(u)
      BY <2>2 DEF Listed
    <3>3. /\ Entitled(u) => told["completed"][u] = 1 \/ Listed(u)
          /\ u = duel.winner => told["won"][u] = 1 \/ Listed(u)
          /\ told["won"][u] # 0 => u = duel.winner
      BY <2>2, <3>1 DEF DuelInv, TellingSound
    <3> QED BY <3>2, <3>3 DEF Entitled
  <2> QED BY <2>1, <2>2 DEF ToldOnce
<1> QED BY <1>1, DuelInvariant, PTL

\* A player holds one seat, and the duel starts with two players ready: join_duel,
\* mark_ready and _activate of duels.py.
THEOREM DuelSoundStart == Spec => []SoundStart
<1>1. DuelInv => SoundStart
  BY DEF DuelInv, RoomSound
<1> QED BY <1>1, DuelInvariant, PTL

-----------------------------------------------------------------------------
(* The hint budget.  A request that is let in for a hint found one left, so the *)
(* hints taken are fewer than HintsMax at that moment, and those in flight are  *)
(* no more than the requests in service.  A hint that is taken moves a request  *)
(* from the second number to the first; no other step adds to either.           *)

\* A request that is about to take a hint has passed the test.
Allowed == \A t \in Threads : pc[t] = "hint" => req[t].op = "hint" /\ ~ req[t].spent

\* No hint is taken, and no further request for one is in flight.
NoHint ==
  /\ \A u \in Users : player'[u].hints = player[u].hints
  /\ \A t \in Threads :
       req'[t].op = "hint" /\ ~ req'[t].spent =>
         req[t].op = "hint" /\ ~ req[t].spent /\ req'[t].user = req[t].user

LEMMA InFlightCounts ==
  ASSUME NEW u
  PROVE  /\ IsFiniteSet(InFlight(u)) /\ IsFiniteSet(InFlight(u)')
         /\ Cardinality(InFlight(u)) \in Nat /\ Cardinality(InFlight(u)') \in Nat
         /\ Cardinality(Threads) \in Nat /\ Cardinality(Threads) > 0
         /\ Cardinality(InFlight(u)') <= Cardinality(Threads)
<1>1. InFlight(u) \in SUBSET Threads /\ InFlight(u)' \in SUBSET Threads
  BY DEF InFlight
<1>2. /\ IsFiniteSet(InFlight(u)) /\ IsFiniteSet(InFlight(u)')
      /\ Cardinality(InFlight(u)') <= Cardinality(Threads)
  BY <1>1, ThreadsAssumption, FS_Subset
<1>3. Cardinality(Threads) # 0
  BY ThreadsAssumption, FS_EmptySet
<1>4. /\ Cardinality(InFlight(u)) \in Nat /\ Cardinality(InFlight(u)') \in Nat
      /\ Cardinality(Threads) \in Nat
  BY <1>2, ThreadsAssumption, FS_CardinalityType
<1> QED BY <1>2, <1>3, <1>4

LEMMA NoHintKeeps ==
  ASSUME TypeOK, HintsBounded, NoHint
  PROVE  HintsBounded'
<1> SUFFICES ASSUME NEW u \in Users
             PROVE  player'[u].hints + Cardinality(InFlight(u)') < HintsMax + Cardinality(Threads)
  BY DEF HintsBounded
<1>1. InFlight(u)' \in SUBSET InFlight(u)
  BY DEF InFlight, NoHint
<1>2. Cardinality(InFlight(u)') <= Cardinality(InFlight(u))
  BY <1>1, InFlightCounts, FS_Subset
<1>3. player[u].hints \in Nat /\ player'[u].hints = player[u].hints
  BY DEF TypeOK, RowsTyped, Player, NoHint
<1>4. player[u].hints + Cardinality(InFlight(u)) < HintsMax + Cardinality(Threads)
  BY DEF HintsBounded
<1> QED BY <1>2, <1>3, <1>4, InFlightCounts

\* Passing control on leaves the request as it was, or forgets it.
LEMMA ForgetsHints ==
  ASSUME TypeOK, NEW t \in Threads,
         \/ Finish(t) \/ Answer(t) \/ Return(t)
         \/ \E timeout, after : Finalize(t, timeout, after)
  PROVE  /\ \A s \in Threads : req'[s].op = "hint" /\ ~ req'[s].spent =>
              req[s].op = "hint" /\ ~ req[s].spent /\ req'[s].user = req[s].user
         /\ \A s \in Threads : pc'[s] = "hint" => s # t /\ pc[s] = "hint" /\ req'[s] = req[s]
<1>1. req \in [Threads -> Request] /\ pc \in [Threads -> Labels]
  BY DEF TypeOK, LocalsTyped
<1>2. /\ \A s \in Threads \ {t} : req'[s] = req[s] /\ pc'[s] = pc[s]
      /\ pc'[t] # "hint"
      /\ req'[t].op = "hint" => req'[t].op = req[t].op /\ req'[t].spent = req[t].spent
                                /\ req'[t].user = req[t].user
  <2>1. CASE Finish(t) \/ Answer(t)
    BY <1>1, <2>1 DEF Finish, Answer, NoRequest
  <2>2. CASE \E timeout, after : Finalize(t, timeout, after)
    <3>1. PICK timeout, after : Finalize(t, timeout, after)
      BY <2>2
    <3> DEFINE x == [NoRequest EXCEPT !.timeout = timeout, !.after = after]
    <3>2. x.op = "none"
      BY DEF NoRequest
    <3>3. pc' = [pc EXCEPT ![t] = "decide"] /\ req' = [req EXCEPT ![t] = x]
      BY <3>1, Zenon DEF Finalize
    <3> HIDE DEF x
    <3> QED BY <1>1, <3>2, <3>3
  <2>3. CASE Return(t)
    <3>1. CASE Goto(t, "reread") /\ req' = [req EXCEPT ![t].timeout = FALSE,
                                             ![t].verdict = Undecided, ![t].finals = NoRequest.finals]
      BY <1>1, <3>1 DEF Goto, Request
    <3> QED BY <2>1, <2>3, <3>1 DEF Return
  <2> QED BY <2>1, <2>2, <2>3
<1> QED BY <1>2

\* What the tests of an endpoint let through.
LEMMA ProceedAllows ==
  ASSUME TypeOK, NEW t \in Threads, NEW r \in Request, Proceed(t, r)
  PROVE  /\ \A s \in Threads \ {t} : req'[s] = req[s] /\ pc'[s] = pc[s]
         /\ req'[t] = NoRequest \/ req'[t] = r
         /\ pc'[t] = "hint" => req'[t] = r /\ r.op = "hint" /\ ~ r.spent
<1>1. req \in [Threads -> Request] /\ pc \in [Threads -> Labels]
  BY DEF TypeOK, LocalsTyped
<1>2. CASE Finish(t) \/ Answer(t)
  BY <1>1, <1>2 DEF Finish, Answer
<1>3. CASE pc' = [pc EXCEPT ![t] = r.op] /\ req' = [req EXCEPT ![t] = r]
           /\ (r.op = "hint" => ~ r.spent)
  BY <1>1, <1>3
<1> QED BY <1>2, <1>3 DEF Proceed

\* A request that is let in for a hint found one left.
LEMMA EnterHints ==
  ASSUME TypeOK, HintsBounded, Allowed, NEW t \in Threads, NEW op \in Endpoints, NEW v \in Users,
         Enter(t, op, v)
  PROVE  HintsBounded' /\ Allowed'
<1> DEFINE r == [NoRequest EXCEPT !.op = op, !.user = v,
                                  !.spent = op = "hint" /\ player[v].hints >= HintsMax,
                                  !.solved = op = "submit" /\ player[v].accepted # 0]
           late == [r EXCEPT !.timeout = TRUE, !.after = "reread"]
<1>1. r \in Request /\ r.op = op /\ r.user = v
      /\ (op = "hint" /\ ~ r.spent => ~ player[v].hints >= HintsMax)
  BY NoRequestTyped DEF Request, NoRequest
<1>2. late.op = op /\ late.user = v /\ late.spent = r.spent
  BY <1>1 DEF Request
<1>3. req \in [Threads -> Request] /\ pc \in [Threads -> Labels] /\ player' = player
  BY DEF TypeOK, LocalsTyped, Enter, rowsVars
<1> HIDE DEF r, late
<1>4. /\ \A s \in Threads \ {t} : req'[s] = req[s] /\ pc'[s] = pc[s]
      /\ req'[t] = NoRequest \/ (req'[t].op = op /\ req'[t].user = v /\ req'[t].spent = r.spent)
      /\ pc'[t] = "hint" => req'[t].op = "hint" /\ ~ req'[t].spent
  <2>1. CASE Goto(t, "decide") /\ req' = [req EXCEPT ![t] = late]
    BY <1>2, <1>3, <2>1 DEF Goto
  <2>2. CASE Proceed(t, r)
    BY <1>1, <2>2, ProceedAllows
  <2> QED BY <2>1, <2>2 DEF Enter, r, late
<1>5. Allowed'
  BY <1>4 DEF Allowed
<1>6. CASE op = "hint" /\ ~ r.spent
  <2> SUFFICES ASSUME NEW u \in Users
               PROVE  player'[u].hints + Cardinality(InFlight(u)') < HintsMax + Cardinality(Threads)
    BY <1>5 DEF HintsBounded
  <2>0. player'[u].hints = player[u].hints
    BY <1>3
  <2>1. player[u].hints \in Nat
    BY DEF TypeOK, RowsTyped, Player
  <2>2. CASE u = v
    <3>1. player[v].hints < HintsMax
      BY <1>1, <1>6, <2>1, <2>2, DuelAssumption
    <3> QED BY <2>0, <2>1, <2>2, <3>1, InFlightCounts
  <2>3. CASE u # v
    <3>1. InFlight(u)' \in SUBSET InFlight(u)
      BY <1>4, <2>3 DEF InFlight, NoRequest
    <3>2. Cardinality(InFlight(u)') <= Cardinality(InFlight(u))
      BY <3>1, InFlightCounts, FS_Subset
    <3>3. player[u].hints + Cardinality(InFlight(u)) < HintsMax + Cardinality(Threads)
      BY DEF HintsBounded
    <3> QED BY <2>0, <2>1, <3>2, <3>3, InFlightCounts
  <2> QED BY <2>2, <2>3
<1>7. CASE op # "hint" \/ r.spent
  <2>1. NoHint
    BY <1>3, <1>4, <1>7 DEF NoHint, NoRequest
  <2> QED BY <1>5, <2>1, NoHintKeeps
<1> QED BY <1>5, <1>6, <1>7

\* A hint that is taken was in flight.
LEMMA UseHintHints ==
  ASSUME DuelInv, HintsBounded, Allowed, NEW t \in Threads, UseHint(t)
  PROVE  HintsBounded' /\ Allowed'
<1>1. TypeOK /\ pc[t] = "hint" /\ req[t].op = "hint" /\ ~ req[t].spent /\ req[t].user # None
  BY DEF DuelInv, RequestSound, UseHint, Allowed
<1>2. /\ req \in [Threads -> Request] /\ player \in [Users -> Player]
      /\ pc \in [Threads -> Labels]
  BY <1>1 DEF TypeOK, LocalsTyped, RowsTyped
<1>3. PICK v \in Users : v = req[t].user
  BY <1>1, <1>2 DEF Request
<1>4. /\ \A u \in Users : player[u].hints \in Nat
      /\ player'[v].hints = player[v].hints + 1
      /\ \A u \in Users \ {v} : player'[u].hints = player[u].hints
  BY <1>2, <1>3 DEF UseHint, Player
<1>5. /\ req'[t].op = "none" /\ pc'[t] = "decide"
      /\ \A s \in Threads \ {t} : req'[s] = req[s] /\ pc'[s] = pc[s]
  BY <1>2 DEF UseHint, Finalize, NoRequest
<1>6. Allowed'
  BY <1>5 DEF Allowed
<1>7. t \in InFlight(v)
  BY <1>1, <1>3 DEF InFlight
<1>8. InFlight(v)' = InFlight(v) \ {t}
  BY <1>5 DEF InFlight
<1>9. Cardinality(InFlight(v)') = Cardinality(InFlight(v)) - 1
  <2>1. IsFiniteSet(InFlight(v))
    BY InFlightCounts
  <2>2. Cardinality(InFlight(v) \ {t}) = Cardinality(InFlight(v)) - 1
    BY <1>7, <2>1, FS_RemoveElement
  <2> QED BY <1>8, <2>2
<1>10. \A u \in Users \ {v} : InFlight(u)' = InFlight(u)
  BY <1>3, <1>5 DEF InFlight
<1>11. ASSUME NEW u \in Users
       PROVE  player'[u].hints + Cardinality(InFlight(u)') < HintsMax + Cardinality(Threads)
  <2>1. player[u].hints + Cardinality(InFlight(u)) < HintsMax + Cardinality(Threads)
    BY DEF HintsBounded
  <2>2. CASE u = v
    BY <1>4, <1>9, <2>1, <2>2, InFlightCounts
  <2>3. CASE u # v
    BY <1>4, <1>10, <2>1, <2>3
  <2> QED BY <2>2, <2>3
<1> QED BY <1>6, <1>11 DEF HintsBounded

\* Every other step of a request leaves the hints and the requests for one alone.
LEMMA StepHints ==
  ASSUME DuelInv, HintsBounded, Allowed, NEW t \in Threads, Step(t)
  PROVE  HintsBounded' /\ Allowed'
<1>1. TypeOK /\ req \in [Threads -> Request] /\ pc \in [Threads -> Labels]
      /\ player \in [Users -> Player]
  BY DEF DuelInv, TypeOK, LocalsTyped, RowsTyped
<1> DEFINE Quiet == /\ \A s \in Threads : req'[s].op = "hint" /\ ~ req'[s].spent =>
                         req[s].op = "hint" /\ ~ req[s].spent /\ req'[s].user = req[s].user
                    /\ \A s \in Threads : pc'[s] = "hint" => req'[s].op = "hint" /\ ~ req'[s].spent
           Plain == req' = req /\ \A s \in Threads : pc'[s] = "hint" => pc[s] = "hint"
           Passes == \/ Finish(t) \/ Answer(t) \/ Return(t)
                     \/ \E timeout, after : Finalize(t, timeout, after)
           Same == \A u \in Users : player'[u].hints = player[u].hints
<1>2. Plain => Quiet
  BY DEF Allowed
<1>3. Passes => Quiet
  BY <1>1, ForgetsHints DEF Allowed
<1>4. Quiet /\ Same => HintsBounded' /\ Allowed'
  <2>1. Quiet /\ Same => NoHint
    BY DEF NoHint
  <2> QED BY <1>1, <2>1, NoHintKeeps DEF Allowed
<1>5. ASSUME NEW label, Goto(t, label), label # "hint", req' = req
      PROVE  Plain
  BY <1>1, <1>5 DEF Goto
<1>6. CASE Reread(t)
  <2> DEFINE r == [req[t] EXCEPT !.after = "idle"]
  <2>1. r \in Request /\ r.op = req[t].op /\ r.user = req[t].user /\ r.spent = req[t].spent
    <3>1. req[t] \in Request
      BY <1>1
    <3> QED BY <3>1 DEF Request
  <2>2. Proceed(t, r) /\ Same
    BY <1>6 DEF Reread, rowsVars
  <2> HIDE DEF r
  <2>3. Quiet
    BY <1>1, <2>1, <2>2, ProceedAllows DEF Allowed, NoRequest
  <2> QED BY <1>4, <2>2, <2>3
<1> HIDE DEF Quiet, Plain, Passes
<1>7. CASE View(t) \/ CountSeats(t) \/ TakeSeat(t) \/ Gather(t) \/ Activate(t) \/ ReadRows(t)
           \/ Announce(t) \/ Emit(t) \/ Crown(t)
  <2>1. Same
    BY <1>7 DEF View, CountSeats, TakeSeat, Gather, Activate, ReadRows, Announce, Emit, Crown,
                rowsVars
  <2>2. Quiet
    <3>1. CASE View(t)
      BY <1>3, <3>1 DEF View, Passes
    <3>2. CASE CountSeats(t) \/ Gather(t) \/ Announce(t)
      BY <1>2, <1>3, <1>5, <3>2 DEF CountSeats, Gather, Announce, Passes
    <3>3. CASE TakeSeat(t) \/ Activate(t)
      BY <1>3, <3>3 DEF TakeSeat, Activate, Passes
    <3>4. CASE ReadRows(t)
      <4> DEFINE verdict == Decision(seats, player, req[t].timeout)
      <4>1. \/ Return(t)
            \/ /\ req' = [req EXCEPT ![t].verdict = verdict,
                                     ![t].finals = [u \in Users |-> IF u \in Seated
                                                      THEN FinalStatus(player[u]) ELSE None]]
               /\ Goto(t, "close")
        BY <3>4 DEF ReadRows
      <4> HIDE DEF verdict
      <4>2. CASE Return(t)
        BY <1>3, <4>2 DEF Passes
      <4>3. CASE /\ req' = [req EXCEPT ![t].verdict = verdict,
                                     ![t].finals = [u \in Users |-> IF u \in Seated
                                                      THEN FinalStatus(player[u]) ELSE None]]
                 /\ Goto(t, "close")
        <5>1. /\ req'[t].op = req[t].op /\ req'[t].spent = req[t].spent
              /\ req'[t].user = req[t].user /\ pc'[t] = "close"
              /\ \A s \in Threads \ {t} : req'[s] = req[s] /\ pc'[s] = pc[s]
          BY <1>1, <4>3 DEF Goto, Request
        <5> QED BY <5>1 DEF Quiet, Allowed
      <4> QED BY <4>1, <4>2, <4>3
    <3>5. CASE Emit(t) \/ Crown(t)
      BY <1>2, <1>3, <1>5, <3>5 DEF Emit, Crown, TellNext, Passes
    <3> QED BY <1>7, <3>1, <3>2, <3>3, <3>4, <3>5
  <2> QED BY <1>4, <2>1, <2>2
<1>8. CASE MarkReady(t) \/ StartJudging(t)
  <2>1. Same
    BY <1>1, <1>8 DEF MarkReady, StartJudging, Player
  <2> QED BY <1>2, <1>4, <1>5, <1>8, <2>1 DEF MarkReady, StartJudging
<1>9. ASSUME NEW verdict \in {"pass", "fail", "error"}, Judged(t, verdict)
      PROVE  HintsBounded' /\ Allowed'
  <2>1. Same
    BY <1>1, <1>9 DEF Judged, Player
  <2>2. CASE Finish(t)
    BY <1>3, <1>4, <2>1, <2>2 DEF Passes
  <2>3. CASE req' = [req EXCEPT ![t].passed = (verdict = "pass")] /\ Goto(t, "record")
    <3>1. /\ req'[t].op = req[t].op /\ req'[t].spent = req[t].spent
          /\ req'[t].user = req[t].user /\ pc'[t] = "record"
          /\ \A s \in Threads \ {t} : req'[s] = req[s] /\ pc'[s] = pc[s]
      BY <1>1, <2>3 DEF Goto, Request
    <3>2. Quiet
      BY <3>1 DEF Quiet, Allowed
    <3> QED BY <1>4, <2>1, <3>2
  <2> QED BY <1>9, <2>2, <2>3 DEF Judged
<1>10. CASE Record(t)
  <2>1. Same
    BY <1>1, <1>10 DEF Record, Player
  <2> QED BY <1>3, <1>4, <1>10, <2>1 DEF Record, Passes
<1>11. CASE Close(t)
  <2>1. Same
    BY <1>1, <1>11 DEF Close, Player
  <2> QED BY <1>2, <1>3, <1>4, <1>5, <1>11, <2>1 DEF Close, Passes
<1> QED BY <1>6, <1>7, <1>8, <1>9, <1>10, <1>11, UseHintHints DEF Step

\* The hint budget is exceeded by no more than the requests in service at one time,
\* whatever their number and however they interleave.
THEOREM DuelHintsBounded == Spec => []HintsBounded
<1>1. Init => HintsBounded /\ Allowed
  <2> SUFFICES ASSUME Init
               PROVE  HintsBounded /\ Allowed
    OBVIOUS
  <2>1. \A t \in Threads : req[t].op = "none" /\ pc[t] = "idle"
    BY DEF Init, NoRequest
  <2>2. \A u \in Users : player[u].hints = 0 /\ InFlight(u) = {}
    BY <2>1 DEF Init, NewPlayer, InFlight
  <2>3. \A u \in Users : player[u].hints + Cardinality(InFlight(u)) = 0
    <3>1. Cardinality({}) = 0
      BY FS_EmptySet
    <3> QED BY <2>2, <3>1
  <2> QED BY <2>1, <2>3, InFlightCounts DEF HintsBounded, Allowed
<1>2. DuelInv /\ HintsBounded /\ Allowed /\ [Next]_vars => HintsBounded' /\ Allowed'
  <2> SUFFICES ASSUME DuelInv, HintsBounded, Allowed, [Next]_vars
               PROVE  HintsBounded' /\ Allowed'
    OBVIOUS
  <2>1. TypeOK
    BY DEF DuelInv
  <2>2. CASE UNCHANGED <<pc, req, player>>
    BY <2>1, <2>2, NoHintKeeps DEF NoHint, Allowed
  <2>3. CASE Crash
    <3>1. \A t \in Threads : req'[t].op = "none" /\ pc'[t] = "idle"
      BY <2>3 DEF Crash, NoRequest
    <3>2. player' = player
      BY <2>3 DEF Crash, rowsVars
    <3> QED BY <2>1, <3>1, <3>2, NoHintKeeps DEF NoHint, Allowed
  <2>4. UNCHANGED vars \/ Tick => UNCHANGED <<pc, req, player>>
    BY DEF Tick, vars, rowsVars
  <2> QED BY <2>1, <2>2, <2>3, <2>4, EnterHints, StepHints DEF Next
<1> QED BY <1>1, <1>2, DuelInvariant, PTL DEF Spec

-----------------------------------------------------------------------------
(* The contract. *)

Stutters == UNCHANGED <<duel.status, duel.winner, Accepted, told>>

LEMMA StuttersSound == Stutters => UNCHANGED Contract!contractVars
BY DEF Stutters, Contract!contractVars

LEMMA SameAcceptedStutters ==
  ASSUME UNCHANGED <<duel, told>>, \A u \in Users : player'[u].accepted = player[u].accepted
  PROVE Stutters
BY DEF Stutters, Accepted

LEMMA PlayerStepsStutter ==
  ASSUME DuelInv, NEW t \in Threads,
         \/ MarkReady(t) \/ UseHint(t) \/ StartJudging(t)
         \/ \E verdict \in {"pass", "fail", "error"} : Judged(t, verdict)
  PROVE Stutters
<1> DEFINE u == req[t].user
<1>1. UNCHANGED <<duel, told>>
  BY DEF MarkReady, UseHint, StartJudging, Judged
<1>2. u \in Users /\ \A w \in Users : player[w] \in Player
  <2>1. RequestSound(t) /\ req[t] \in Request /\ RowsTyped
    BY DEF DuelInv, TypeOK, LocalsTyped
  <2>2. pc[t] \in {"ready", "start", "hint", "submit", "judge"}
    BY DEF MarkReady, UseHint, StartJudging, Judged
  <2> QED BY <2>1, <2>2 DEF RequestSound, Request, RowsTyped
<1>3. \/ player' = player
      \/ player' = [player EXCEPT ![u].ready = TRUE]
      \/ player' = [player EXCEPT ![u].hints = @ + 1]
      \/ player' = [player EXCEPT ![u].judging = TRUE]
      \/ player' = [player EXCEPT ![u].judging = FALSE]
  BY DEF MarkReady, UseHint, StartJudging, Judged
<1>4. player \in [Users -> Player]
  BY DEF DuelInv, TypeOK, RowsTyped
<1>5. \A w \in Users : player'[w].accepted = player[w].accepted
  BY <1>2, <1>3, <1>4 DEF Player
<1> QED BY <1>1, <1>5, SameAcceptedStutters

LEMMA RecordAccepts ==
  ASSUME DuelInv, NEW t \in Threads, Record(t)
  PROVE Stutters \/ \E u \in Users : Contract!Accept(u)
<1> DEFINE u == req[t].user
<1>1. UNCHANGED <<duel, told>> /\ pc[t] = "record"
  BY DEF Record
<1>2. u \in Users /\ duel.status # "waiting" /\ now > 0
  BY <1>1 DEF DuelInv, TypeOK, LocalsTyped, Request, RequestSound, Playing
<1>3. \/ player' = player
      \/ player' = [player EXCEPT ![u].accepted = now, ![u].final = "accepted"]
      \/ player' = [player EXCEPT ![u].wrong = @ + 1,
                                  ![u].final = IF @ = "pending" THEN "failed" ELSE @]
  BY DEF Record
<1>4. player \in [Users -> Player] /\ now \in Nat
  BY DEF DuelInv, TypeOK, RowsTyped
<1>5. CASE player' = [player EXCEPT ![u].accepted = now, ![u].final = "accepted"]
  <2>1. /\ player'[u].accepted = now
        /\ \A w \in Users \ {u} : player'[w] = player[w]
    BY <1>2, <1>4, <1>5 DEF Player
  <2>2. Accepted' = Accepted \cup {u}
    BY <1>2, <1>4, <2>1 DEF Accepted
  <2>3. Contract!Accept(u)
    BY <1>1, <1>2, <2>2 DEF Contract!Accept
  <2> QED BY <1>2, <2>3
<1>6. CASE \/ player' = player
           \/ player' = [player EXCEPT ![u].wrong = @ + 1,
                                       ![u].final = IF @ = "pending" THEN "failed" ELSE @]
  <2>1. \A w \in Users : player'[w].accepted = player[w].accepted
    BY <1>2, <1>4, <1>6 DEF Player
  <2> QED BY <1>1, <2>1, SameAcceptedStutters
<1> QED BY <1>3, <1>5, <1>6

LEMMA ActivateStarts ==
  ASSUME DuelInv, NEW t \in Threads, Activate(t)
  PROVE Stutters \/ Contract!Start
<1>1. UNCHANGED <<player, told>> /\ Accepted' = Accepted
  BY DEF Activate, Accepted
<1>2. CASE duel.status = "waiting"
  <2>1. duel'.status = "active" /\ duel'.winner = duel.winner
    BY <1>2 DEF Activate, DuelInv, TypeOK, RowsTyped
  <2> QED BY <1>1, <1>2, <2>1 DEF Contract!Start
<1>3. CASE duel.status # "waiting"
  BY <1>1, <1>3 DEF Activate, Stutters
<1> QED BY <1>2, <1>3

LEMMA CloseCloses ==
  ASSUME DuelInv, NEW t \in Threads, Close(t)
  PROVE Stutters \/ \E w \in Users \cup {None} : Contract!Close(w)
<1> DEFINE v == req[t].verdict
<1>1. /\ UNCHANGED <<seats, told, now, crashes>> /\ RowsTyped /\ RoomSound
      /\ v \in Verdict /\ VerdictSound(v)
      /\ req[t].finals \in [Users -> FinalStatuses \cup {None}]
      /\ \A u \in Users : req[t].finals[u] # None => u \in Seated
  BY DEF Close, DuelInv, TypeOK, LocalsTyped, Request, RequestSound
<1>2. CASE duel.status \in Closed
  BY <1>1, <1>2, SameAcceptedStutters DEF Close
<1>3. CASE duel.status \notin Closed
  <2>1. /\ duel' = [duel EXCEPT !.status = v.status, !.winner = v.winner]
        /\ player' = [u \in Users |-> IF req[t].finals[u] = None THEN player[u]
                                      ELSE [player[u] EXCEPT !.final = req[t].finals[u]]]
    BY <1>3 DEF Close
  <2>2. duel'.status = v.status /\ duel'.winner = v.winner /\ Accepted' = Accepted
    BY <1>1, <1>3, <2>1, ClosedBy
  <2>3. duel.status \in {"waiting", "active"}
    BY <1>1, <1>3 DEF RowsTyped
  <2>4. v.winner \in Users \cup {None}
    BY <1>1 DEF Verdict
  <2>5. Contract!Close(v.winner)
    BY <1>1, <2>2, <2>3 DEF Contract!Close, VerdictSound, Closed
  <2> QED BY <2>4, <2>5
<1> QED BY <1>2, <1>3

LEMMA TellAnnounces ==
  ASSUME DuelInv, NEW t \in Threads, Emit(t) \/ Crown(t)
  PROVE \E kind \in {"completed", "won"}, u \in Users : Contract!Announce(kind, u)
<1> DEFINE u == todo[t][1]
<1>1. pc[t] \in {"emit", "crown"} /\ UNCHANGED <<duel, player>> /\ Accepted' = Accepted
  BY DEF Emit, Crown, Accepted
<1>2. /\ RowsTyped /\ ListSound(t) /\ Head(todo[t]) = u /\ u \in Users
      /\ duel.status = "completed" /\ told["won"][u] = 0
      /\ pc[t] = "emit" => told["completed"][u] = 0
  BY <1>1, HeadFacts
<1>3. ASSUME NEW kind \in Kinds, told[kind][u] = 0, Tell(kind, u), kind = "won" => u = duel.winner
      PROVE Contract!Announce(kind, u)
  <2>1. told' = [told EXCEPT ![kind][u] = 1]
    BY <1>2, <1>3 DEF Tell, RowsTyped
  <2> QED BY <1>1, <1>2, <1>3, <2>1 DEF Contract!Announce
<1>4. CASE Emit(t)
  <2>1. Tell("completed", u) /\ told["completed"][u] = 0
    BY <1>2, <1>4 DEF Emit
  <2> QED BY <1>2, <1>3, <2>1 DEF Kinds
<1>5. CASE Crown(t)
  <2>1. Tell("won", u) /\ u = duel.winner
    BY <1>2, <1>5 DEF Crown, ListSound
  <2> QED BY <1>2, <1>3, <2>1 DEF Kinds
<1> QED BY <1>4, <1>5

LEMMA RowsStutter == UNCHANGED rowsVars => Stutters
BY DEF rowsVars, Stutters, Accepted

LEMMA StepImplements == DuelInv /\ [Next]_vars => [Contract!Next]_(Contract!contractVars)
<1> SUFFICES ASSUME DuelInv, [Next]_vars
             PROVE Stutters \/ Contract!Next
  BY StuttersSound
<1>1. ASSUME NEW t \in Threads, NEW op \in Endpoints, NEW u \in Users, Enter(t, op, u)
      PROVE Stutters
  BY <1>1, RowsStutter DEF Enter
<1>2. ASSUME NEW t \in Threads, Step(t)
      PROVE Stutters \/ Contract!Next
  <2>1. CASE \/ Reread(t) \/ View(t) \/ CountSeats(t) \/ Gather(t) \/ ReadRows(t) \/ Announce(t)
    BY <2>1, RowsStutter DEF Reread, View, CountSeats, Gather, ReadRows, Announce
  <2>2. CASE TakeSeat(t)
    BY <2>2, SameAcceptedStutters DEF TakeSeat
  <2>3. CASE \/ MarkReady(t) \/ UseHint(t) \/ StartJudging(t)
             \/ \E verdict \in {"pass", "fail", "error"} : Judged(t, verdict)
    BY <2>3, PlayerStepsStutter
  <2>4. CASE Record(t)
    BY <2>4, RecordAccepts DEF Contract!Next
  <2>5. CASE Activate(t)
    BY <2>5, ActivateStarts DEF Contract!Next
  <2>6. CASE Close(t)
    BY <2>6, CloseCloses DEF Contract!Next
  <2>7. CASE Emit(t) \/ Crown(t)
    BY <2>7, TellAnnounces DEF Contract!Next
  <2> QED BY <1>2, <2>1, <2>2, <2>3, <2>4, <2>5, <2>6, <2>7 DEF Step
<1>3. CASE Tick
  BY <1>3, RowsStutter DEF Tick
<1>4. CASE Crash
  BY <1>4, RowsStutter DEF Crash
<1>5. CASE UNCHANGED vars
  <2>1. UNCHANGED rowsVars
    BY <1>5 DEF vars
  <2> QED BY <2>1, RowsStutter
<1> QED BY <1>1, <1>2, <1>3, <1>4, <1>5 DEF Next

LEMMA InitImplements == Init => Contract!Init
<1> SUFFICES ASSUME Init PROVE Contract!Init
  OBVIOUS
<1>1. Accepted = {}
  BY DEF Init, Accepted, NewPlayer
<1> QED BY <1>1 DEF Init, Contract!Init, Kinds

\* The duel of duels.py is one its contract allows: it starts and closes once, only an
\* accepted player wins, and each announcement is made at most once, afterwards.
THEOREM DuelImplementsContract == Spec => ImplementsContract
<1>1. Spec => []DuelInv
  BY DuelInvariant
<1> QED BY <1>1, InitImplements, StepImplements, PTL DEF Spec, ImplementsContract, Contract!Spec
=============================================================================
