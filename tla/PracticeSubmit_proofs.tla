------------------------ MODULE PracticeSubmit_proofs ------------------------
(***************************************************************************)
(* Proofs about PracticeSubmit, for any set of calls, request_ids,         *)
(* payloads and problems: PracticeInv is inductive, and what follows.      *)
(*                                                                         *)
(* PracticeInv splits into what the tables say (TablesInv) and what each   *)
(* call remembers of them (CallSound).  A step that writes no table keeps  *)
(* TablesInv (TablesFrame).  Every step keeps what a terminal row and a    *)
(* cached response say (Stable), and a call that does not move relies on   *)
(* nothing else (OthersSound).                                             *)
(***************************************************************************)
EXTENDS PracticeSubmit, TLAPS

TablesInv ==
  /\ RowsSound
  /\ LatestExists
  /\ AcceptedIffCompleted
  /\ OneRewardPerCompletion
  /\ HonestAnswer

\* What no step undoes.
Stable ==
  \A k \in RequestIds :
    /\ rows[k].status # "absent" =>
         rows'[k].status # "absent" /\ rows'[k].payload = rows[k].payload
    /\ rows[k].status \in Statuses =>
         rows'[k] = rows[k] /\ (k \in events' <=> k \in events)
    /\ responses[k] # NoResponse => responses'[k] = responses[k]

\* Call d does not move.
Idles(d) ==
  /\ pc'[d] = pc[d]
  /\ arg'[d] = arg[d]
  /\ seen'[d] = seen[d]
  /\ outcome'[d] = outcome[d]
  /\ draft'[d] = draft[d]
  /\ reply'[d] = reply[d]

\* A step that writes no table keeps what the tables say.
LEMMA TablesFrame == TablesInv /\ UNCHANGED db => TablesInv' /\ Stable
  <1> SUFFICES ASSUME TablesInv, UNCHANGED db
               PROVE  TablesInv' /\ Stable
    OBVIOUS
  <1> USE DEF TablesInv, db
  <1>1. RowsSound'
    BY DEF RowsSound
  <1>2. LatestExists'
    <2>1. CompletionTimes' = CompletionTimes
      BY DEF CompletionTimes, Completed
    <2> QED
      BY <2>1 DEF LatestExists
  <1>3. AcceptedIffCompleted'
    BY DEF AcceptedIffCompleted
  <1>4. OneRewardPerCompletion'
    BY DEF OneRewardPerCompletion
  <1>5. HonestAnswer'
    BY DEF HonestAnswer, Agrees
  <1>6. Stable
    BY DEF Stable
  <1> QED
    BY <1>1, <1>2, <1>3, <1>4, <1>5, <1>6

\* A call that does not move stays sound: what it read, drafted or replied is
\* about terminal rows and cached responses.
LEMMA OthersSound ==
  ASSUME PracticeInv, Stable, NEW d \in Calls, Idles(d)
  PROVE  CallSound(d)'
  <1> USE DEF PracticeInv, Stable, Idles, CallSound, Key
  <1>1. Keyed(d)'
    BY PracticeAssumption DEF Keyed, RowsSound, Statuses, Refusals
  <1>2. SeenSound(d)'
    <2>1. SUFFICES ASSUME pc[d] = "resolve"
                   PROVE  SeenSound(d)'
      BY DEF SeenSound
    <2>2. arg[d].id \in RequestIds /\ rows[arg[d].id].status # "absent"
      BY <2>1, PracticeAssumption DEF SeenSound, Keyed
    <2>3. /\ rows'[arg[d].id].status # "absent"
          /\ rows'[arg[d].id].payload = rows[arg[d].id].payload
      BY <2>2
    <2>4. seen[d].row.status \in Statuses => seen[d].row = rows'[arg[d].id]
      BY <2>1, <2>2 DEF SeenSound
    <2>5. seen[d].response # NoResponse => seen[d].response = responses'[arg[d].id]
      BY <2>1, <2>2 DEF SeenSound
    <2>6. seen[d].row.status # "absent" /\ seen[d].row.payload = rows[arg[d].id].payload
      BY <2>1 DEF SeenSound
    <2> HIDE DEF PracticeInv, Stable
    <2> QED
      BY <2>3, <2>4, <2>5, <2>6 DEF SeenSound
  <1>3. DraftSound(d)'
    BY DEF DraftSound, Keyed, Agrees
  <1>4. ReplySound(d)'
    BY DEF ReplySound, Keyed
  <1> QED
    BY <1>1, <1>2, <1>3, <1>4

\* The empty tables and idle calls satisfy the invariant.
LEMMA InitInv == Init => PracticeInv
  BY PracticeAssumption
     DEF Init, PracticeInv, TypeOK, Row, NoRow, Response, NoResponse, Statuses, Refusals,
         Labels, ReplyKinds, RowsSound, CallSound, Keyed, SeenSound, DraftSound, ReplySound,
         LatestExists, CompletionTimes, Completed, AcceptedIffCompleted,
         OneRewardPerCompletion, HonestAnswer

-----------------------------------------------------------------------------
(* Steps that write no table. *)

\* The row of a call that has started.
LEMMA OwnRow ==
  ASSUME PracticeInv, NEW c \in Calls, pc[c] # "idle"
  PROVE  /\ Key(c) \in RequestIds
         /\ rows[Key(c)] \in Row
         /\ responses[Key(c)] \in Response
         /\ arg[c].payload \in Payloads
  BY DEF PracticeInv, CallSound, Keyed, Key, TypeOK

\* A step of call c that writes no table has to be checked for c alone.
LEMMA LocalStep ==
  ASSUME PracticeInv, NEW c \in Calls, UNCHANGED db, TypeOK', CallSound(c)',
         \A d \in Calls : d # c => Idles(d)
  PROVE  PracticeInv' /\ Stable
  <1>1. TablesInv' /\ Stable
    BY TablesFrame DEF PracticeInv, TablesInv
  <1>2. \A d \in Calls : d # c => CallSound(d)'
    BY <1>1, OthersSound
  <1> QED
    BY <1>1, <1>2 DEF PracticeInv, TablesInv

\* A call that ends without a response claims nothing.
LEMMA ErrorReply ==
  ASSUME PracticeInv, NEW c \in Calls, pc[c] # "idle", NEW kind \in ReplyKinds \ {"response"},
         Finish(c, kind, NoResponse), UNCHANGED <<db, aged, arg, seen, outcome, draft>>
  PROVE  PracticeInv' /\ Stable
  <1>1. /\ pc' = [pc EXCEPT ![c] = "done"]
        /\ reply' = [reply EXCEPT ![c] = [kind |-> kind, body |-> NoResponse]]
        /\ TypeOK /\ Keyed(c)
    BY DEF Finish, Goto, PracticeInv, CallSound
  <1>2. TypeOK'
    <2>1. [kind |-> kind, body |-> NoResponse] \in [kind : ReplyKinds, body : Response]
      BY DEF NoResponse, Response
    <2>2. pc' \in [Calls -> Labels] /\ reply' \in [Calls -> [kind : ReplyKinds, body : Response]]
      BY <1>1, <2>1 DEF TypeOK, Labels
    <2> QED
      BY <1>1, <2>2 DEF TypeOK, db
  <1>3. CallSound(c)'
    <2>1. pc'[c] = "done" /\ reply'[c].kind # "response" /\ arg' = arg
      BY <1>1 DEF TypeOK
    <2>2. arg[c].id \in RequestIds /\ arg[c].payload \in Payloads
      BY <1>1 DEF Keyed
    <2> QED
      BY <2>1, <2>2 DEF CallSound, Keyed, SeenSound, DraftSound, ReplySound
  <1>4. \A d \in Calls : d # c => Idles(d)
    BY <1>1 DEF Idles, TypeOK
  <1> QED
    BY <1>2, <1>3, <1>4, LocalStep

\* A call that moves on to a label where it has composed nothing relies on its
\* row's payload, and on its outcome if it is about to write a refusal.
LEMMA MoveOn ==
  ASSUME PracticeInv, NEW c \in Calls,
         NEW label \in {"verdict", "complete", "replay", "crashed"}, Goto(c, label),
         \/ pc[c] \in {"judge", "verdict", "complete"}
         \/ pc[c] # "idle" /\ label = "crashed",
         NEW v \in Statuses, outcome' = [outcome EXCEPT ![c] = v],
         label = "verdict" => v \in Refusals,
         UNCHANGED <<db, aged, arg, seen, draft, reply>>
  PROVE  PracticeInv' /\ Stable
  <1>1. TypeOK /\ CallSound(c) /\ pc' = [pc EXCEPT ![c] = label]
    BY DEF PracticeInv, Goto
  <1>2. TypeOK'
    <2>1. pc' \in [Calls -> Labels] /\ outcome' \in [Calls -> Statuses]
      BY <1>1 DEF TypeOK, Labels
    <2> QED
      BY <1>1, <2>1 DEF TypeOK, db
  <1>3. CallSound(c)'
    <2>1. pc'[c] = label /\ outcome'[c] = v
      BY <1>1 DEF TypeOK
    <2>2. UNCHANGED <<rows, responses, arg, reply>>
      BY DEF db
    <2>3. Keyed(c)'
      BY <1>1, <2>1, <2>2 DEF CallSound, Keyed, Key
    <2>4. SeenSound(c)' /\ DraftSound(c)'
      BY <2>1 DEF SeenSound, DraftSound
    <2>5. ReplySound(c)'
      BY <1>1, <2>1, <2>2 DEF CallSound, ReplySound, Key
    <2> QED
      BY <2>3, <2>4, <2>5 DEF CallSound
  <1>4. \A d \in Calls : d # c => Idles(d)
    BY <1>1 DEF Idles, TypeOK
  <1> QED
    BY <1>2, <1>3, <1>4, LocalStep

\* Calls that end with an error.
LEMMA ErrorsInv ==
  ASSUME PracticeInv, NEW c \in Calls, PackUnavailable(c) \/ KeyReused(c) \/ InProgress(c)
  PROVE  PracticeInv' /\ Stable
  <1>1. CASE PackUnavailable(c)
    BY <1>1, ErrorReply DEF PackUnavailable, ReplyKinds
  <1>2. CASE KeyReused(c)
    BY <1>2, ErrorReply DEF KeyReused, ReplyKinds
  <1>3. CASE InProgress(c)
    BY <1>3, ErrorReply DEF InProgress, ReplyKinds
  <1> QED
    BY <1>1, <1>2, <1>3

\* The verdict arrives; an outcome that is not accepted is a refusal.
LEMMA JudgedInv ==
  ASSUME PracticeInv, NEW c \in Calls, NEW v \in Statuses, Judged(c, v)
  PROVE  PracticeInv' /\ Stable
  <1>1. /\ pc[c] = "judge" /\ outcome' = [outcome EXCEPT ![c] = v]
        /\ UNCHANGED <<db, aged, arg, seen, draft, reply>>
    BY DEF Judged
  <1>2. CASE v = "accepted"
    BY <1>1, <1>2, MoveOn DEF Judged
  <1>3. CASE v # "accepted"
    <2>1. v \in Refusals
      BY <1>3 DEF Statuses
    <2> QED
      BY <1>1, <1>3, <2>1, MoveOn DEF Judged
  <1> QED
    BY <1>2, <1>3

\* A disconnected client turns an accepted outcome into a refusal.
LEMMA DisconnectedInv ==
  ASSUME PracticeInv, NEW c \in Calls, Disconnected(c)
  PROVE  PracticeInv' /\ Stable
  <1>1. "canceled" \in Refusals /\ "canceled" \in Statuses
    BY DEF Refusals, Statuses
  <1> QED
    BY <1>1, MoveOn DEF Disconnected

\* Nothing but the call's control point changes.
LEMMA MovesInv ==
  ASSUME PracticeInv, NEW c \in Calls, CompleteRevoked(c) \/ Crash(c)
  PROVE  PracticeInv' /\ Stable
  <1>1. outcome[c] \in Statuses /\ outcome' = [outcome EXCEPT ![c] = outcome[c]]
    BY DEF PracticeInv, TypeOK, CompleteRevoked, Crash, local
  <1>2. UNCHANGED <<db, aged, arg, seen, draft, reply>>
    BY DEF CompleteRevoked, Crash, local
  <1>3. CASE CompleteRevoked(c)
    BY <1>1, <1>2, <1>3, MoveOn DEF CompleteRevoked
  <1>4. CASE Crash(c)
    BY <1>1, <1>2, <1>4, MoveOn DEF Crash
  <1> QED
    BY <1>3, <1>4

\* The response the call saw is the cached one.
LEMMA ReplayCachedInv ==
  ASSUME PracticeInv, NEW c \in Calls, ReplayCached(c)
  PROVE  PracticeInv' /\ Stable
  <1>1. /\ pc[c] = "resolve" /\ seen[c].response # NoResponse /\ TypeOK /\ CallSound(c)
        /\ pc' = [pc EXCEPT ![c] = "done"]
        /\ reply' = [reply EXCEPT ![c] = [kind |-> "response", body |-> seen[c].response]]
        /\ UNCHANGED <<db, aged, arg, seen, outcome, draft>>
    BY DEF ReplayCached, Finish, Goto, PracticeInv
  <1>2. seen[c].response = responses[Key(c)]
    BY <1>1 DEF CallSound, SeenSound
  <1>3. TypeOK'
    <2>1. seen[c] \in [row : Row, response : Response] /\ "response" \in ReplyKinds
      BY <1>1 DEF TypeOK, ReplyKinds
    <2>2. pc' \in [Calls -> Labels] /\ reply' \in [Calls -> [kind : ReplyKinds, body : Response]]
      BY <1>1, <2>1 DEF TypeOK, Labels
    <2> QED
      BY <1>1, <2>2 DEF TypeOK, db
  <1>4. CallSound(c)'
    <2>1. pc'[c] = "done" /\ reply'[c].body = seen[c].response /\ UNCHANGED <<responses, arg>>
      BY <1>1 DEF TypeOK, db
    <2>2. arg[c].id \in RequestIds /\ arg[c].payload \in Payloads
      BY <1>1 DEF CallSound, Keyed
    <2> QED
      BY <1>1, <1>2, <2>1, <2>2 DEF CallSound, Keyed, SeenSound, DraftSound, ReplySound, Key
  <1>5. \A d \in Calls : d # c => Idles(d)
    BY <1>1 DEF Idles, TypeOK
  <1> QED
    BY <1>1, <1>3, <1>4, <1>5, LocalStep

\* The answer rebuilt for a terminal row agrees with it: an accepted row points
\* to its problem's completion, and recorded it exactly if it is the first.
LEMMA RecoverInv ==
  ASSUME PracticeInv, NEW c \in Calls, Recover(c)
  PROVE  PracticeInv' /\ Stable
  <1> DEFINE k    == Key(c)
             row  == seen[c].row
             done == row.status = "accepted" /\ row.completion # None
             answer == [status |-> row.status,
                        completion |-> IF done THEN row.completion ELSE None,
                        recorded |-> done /\ completions[Problem(c)].first = k,
                        progress |-> events]
  <1>1. /\ pc[c] = "resolve" /\ TypeOK /\ CallSound(c)
        /\ row.payload = arg[c].payload /\ row.status # "judging"
        /\ draft' = [draft EXCEPT ![c] = answer]
        /\ pc' = [pc EXCEPT ![c] = "store"]
        /\ UNCHANGED <<db, aged, arg, seen, outcome, reply>>
    BY DEF Recover, Unanswered, SamePayload, Goto, PracticeInv
  <1>2. k \in RequestIds /\ arg[c].payload \in Payloads /\ Problem(c) \in Problems
    BY <1>1, OwnRow, PracticeAssumption DEF Problem
  <1>3. row \in Row /\ row.status \in Statuses
    BY <1>1 DEF CallSound, SeenSound, TypeOK, Row
  <1>4. row = rows[k]
    BY <1>1, <1>3 DEF CallSound, SeenSound
  <1>5. (done <=> row.status = "accepted") /\ (~ done => row.completion = None)
    BY <1>2, <1>4 DEF PracticeInv, RowsSound
  <1>6. k \in events <=> done /\ completions[Problem(c)].first = k
    BY <1>1, <1>2, <1>4, <1>5, PracticeAssumption
       DEF PracticeInv, OneRewardPerCompletion, AcceptedIffCompleted, Problem
  <1>7. answer \in Response /\ Agrees(k, answer) /\ (answer.recorded => k \in answer.progress)
    BY <1>1, <1>3, <1>4, <1>5, <1>6 DEF Response, Row, Agrees, TypeOK
  <1> HIDE DEF answer
  <1>8. TypeOK'
    <2>1. pc' \in [Calls -> Labels] /\ draft' \in [Calls -> Response]
      BY <1>1, <1>7 DEF TypeOK, Labels
    <2> QED
      BY <1>1, <2>1 DEF TypeOK, db
  <1>9. CallSound(c)'
    <2>1. pc'[c] = "store" /\ draft'[c] = answer /\ UNCHANGED <<rows, responses, events, arg, reply>>
      BY <1>1 DEF TypeOK, db
    <2>2. Keyed(c)' /\ SeenSound(c)'
      BY <1>1, <1>2, <1>3, <1>4, <2>1 DEF Keyed, SeenSound, Key
    <2>3. DraftSound(c)'
      BY <1>7, <2>1 DEF DraftSound, Agrees, Key
    <2>4. ReplySound(c)'
      BY <1>1, <2>1 DEF CallSound, ReplySound, Key
    <2> QED
      BY <2>2, <2>3, <2>4 DEF CallSound
  <1>10. \A d \in Calls : d # c => Idles(d)
    BY <1>1 DEF Idles, TypeOK
  <1> QED
    BY <1>1, <1>8, <1>9, <1>10, LocalStep

\* The progress snapshot is read after the completion it has to show.
LEMMA ComposeInv ==
  ASSUME PracticeInv, NEW c \in Calls, Compose(c)
  PROVE  PracticeInv' /\ Stable
  <1> DEFINE answer == [draft[c] EXCEPT !.progress = events]
  <1>1. /\ pc[c] = "compose" /\ TypeOK /\ CallSound(c)
        /\ draft' = [draft EXCEPT ![c] = answer]
        /\ pc' = [pc EXCEPT ![c] = "store"]
        /\ UNCHANGED <<db, aged, arg, seen, outcome, reply>>
    BY DEF Compose, Goto, PracticeInv
  <1>2. /\ answer \in Response
        /\ Agrees(Key(c), answer) /\ (answer.recorded => Key(c) \in answer.progress)
    <2>1. draft[c] \in Response /\ events \in SUBSET RequestIds /\ Agrees(Key(c), draft[c])
      BY <1>1 DEF TypeOK, CallSound, DraftSound
    <2>2. ASSUME NEW r \in Response
          PROVE  LET s == [r EXCEPT !.progress = events]
                 IN  /\ s \in Response
                     /\ s.status = r.status /\ s.completion = r.completion
                     /\ s.recorded = r.recorded /\ s.progress = events
      BY <2>1 DEF Response
    <2> QED
      BY <2>1, <2>2 DEF Agrees
  <1> HIDE DEF answer
  <1>3. TypeOK'
    <2>1. pc' \in [Calls -> Labels] /\ draft' \in [Calls -> Response]
      BY <1>1, <1>2 DEF TypeOK, Labels
    <2> QED
      BY <1>1, <2>1 DEF TypeOK, db
  <1>4. CallSound(c)'
    <2>1. pc'[c] = "store" /\ draft'[c] = answer /\ UNCHANGED <<rows, responses, events, arg, reply>>
      BY <1>1 DEF TypeOK, db
    <2>2. Keyed(c)' /\ SeenSound(c)'
      BY <1>1, <2>1 DEF CallSound, Keyed, SeenSound, Key
    <2>3. DraftSound(c)'
      BY <1>2, <2>1 DEF DraftSound, Agrees, Key
    <2>4. ReplySound(c)'
      BY <1>1, <2>1 DEF CallSound, ReplySound, Key
    <2> QED
      BY <2>2, <2>3, <2>4 DEF CallSound
  <1>5. \A d \in Calls : d # c => Idles(d)
    BY <1>1 DEF Idles, TypeOK
  <1> QED
    BY <1>1, <1>3, <1>4, <1>5, LocalStep

\* A read puts a call before a row that is there, and shows it as it stands.
LEMMA ReadInv ==
  ASSUME PracticeInv, NEW c \in Calls, NEW k \in RequestIds, NEW payload \in Payloads,
         NEW label \in {"claim", "resolve"}, label = "resolve" => rows[k].status # "absent",
         Goto(c, label), ReadRow(c, k),
         arg' = [arg EXCEPT ![c] = [id |-> k, payload |-> payload]],
         pc[c] = "idle" \/ arg' = arg,
         UNCHANGED <<db, aged, outcome, draft, reply>>
  PROVE  PracticeInv' /\ Stable
  <1> DEFINE read == [row |-> rows[k], response |-> responses[k]]
  <1>1. /\ TypeOK /\ CallSound(c) /\ pc' = [pc EXCEPT ![c] = label]
        /\ seen' = [seen EXCEPT ![c] = read]
    BY DEF Goto, ReadRow, PracticeInv
  <1>2. TypeOK'
    <2>1. read \in [row : Row, response : Response]
      BY <1>1 DEF TypeOK
    <2>2. /\ pc' \in [Calls -> Labels] /\ seen' \in [Calls -> [row : Row, response : Response]]
          /\ arg' \in [Calls -> [id : RequestIds \cup {None}, payload : Payloads \cup {None}]]
      BY <1>1, <2>1 DEF TypeOK, Labels
    <2> QED
      BY <1>1, <2>2 DEF TypeOK, db
  <1>3. CallSound(c)'
    <2>1. /\ pc'[c] = label /\ seen'[c] = read /\ arg'[c].id = k /\ arg'[c].payload = payload
          /\ UNCHANGED <<rows, responses, reply>>
      BY <1>1 DEF TypeOK, db
    <2>2. Keyed(c)' /\ DraftSound(c)'
      BY <2>1 DEF Keyed, DraftSound
    <2>3. SeenSound(c)'
      BY <2>1 DEF SeenSound, Key
    <2>4. ReplySound(c)'
      BY <1>1, <2>1 DEF CallSound, ReplySound, Key
    <2> QED
      BY <2>2, <2>3, <2>4 DEF CallSound
  <1>4. \A d \in Calls : d # c => Idles(d)
    BY <1>1 DEF Idles, TypeOK
  <1> QED
    BY <1>2, <1>3, <1>4, LocalStep

\* The first read of the row starts the call on its request_id.
LEMMA PreflightInv ==
  ASSUME PracticeInv, NEW c \in Calls, NEW k \in RequestIds, NEW payload \in Payloads,
         Preflight(c, k, payload)
  PROVE  PracticeInv' /\ Stable
  BY ReadInv DEF Preflight

\* A row that has been claimed is never absent again.
LEMMA ReplayInv ==
  ASSUME PracticeInv, NEW c \in Calls, Replay(c)
  PROVE  PracticeInv' /\ Stable
  <1>1. /\ pc[c] = "replay" /\ ReadRow(c, Key(c)) /\ Goto(c, "resolve")
        /\ UNCHANGED <<db, aged, arg, outcome, draft, reply>>
    BY DEF Replay
  <1>2. PICK k \in RequestIds : k = Key(c)
    BY <1>1, OwnRow
  <1>3. PICK payload \in Payloads : payload = arg[c].payload
    BY <1>1, OwnRow
  <1>4. rows[k].status # "absent"
    BY <1>1, <1>2, <1>3, PracticeAssumption DEF PracticeInv, CallSound, Keyed, RowsSound
  <1>5. arg' = [arg EXCEPT ![c] = [id |-> k, payload |-> payload]]
    BY <1>1, <1>2, <1>3 DEF PracticeInv, TypeOK, Key
  <1> QED
    BY <1>1, <1>2, <1>4, <1>5, ReadInv

-----------------------------------------------------------------------------
(* Steps that write a table. *)

\* What TablesInv asks of a step that gives row k a status other than
\* "accepted" and leaves completions, events and cached responses alone: the
\* row was not accepted, and nobody has answered it.
LEMMA RowFrame ==
  ASSUME PracticeInv, NEW k \in RequestIds, NEW row \in Row,
         rows[k].status \in {"absent", "judging"},
         rows' = [rows EXCEPT ![k] = row],
         row.status \in Refusals \cup {"judging"},
         row.payload # None,
         row.status = "judging" <=> row.claim # None,
         row.completion = None,
         rows[k].status = "judging" => row.payload = rows[k].payload,
         UNCHANGED <<responses, completions, continuations, events>>
  PROVE  TablesInv' /\ Stable
  <1> USE DEF TablesInv, PracticeInv, TypeOK
  <1>1. RowsSound'
    BY DEF RowsSound, Refusals
  <1>2. LatestExists'
    <2>1. CompletionTimes' = CompletionTimes
      BY DEF CompletionTimes, Completed
    <2> QED
      BY <2>1 DEF LatestExists
  <1>3. AcceptedIffCompleted'
    <2>1. \A j \in RequestIds : rows[j].status = "accepted" <=> rows'[j].status = "accepted"
      BY DEF Refusals
    <2>2. \A j \in RequestIds : rows[j].status = "accepted" => rows'[j] = rows[j]
      BY DEF Refusals
    <2>3. ASSUME NEW p \in Problems
          PROVE  {j \in RequestIds : /\ rows'[j].status = "accepted"
                                     /\ ProblemOf[rows'[j].payload] = p}
                 = {j \in RequestIds : /\ rows[j].status = "accepted"
                                       /\ ProblemOf[rows[j].payload] = p}
      BY <2>1, <2>2
    <2> QED
      BY <2>2, <2>3 DEF AcceptedIffCompleted
  <1>4. OneRewardPerCompletion'
    BY DEF OneRewardPerCompletion
  <1>5. responses[k] = NoResponse
    <2>1. responses[k] # NoResponse => /\ responses[k].status = rows[k].status
                                      /\ responses[k].status # "none"
      BY DEF HonestAnswer, Agrees, RowsSound
    <2>2. responses[k].status \in Statuses \cup {"none"}
      BY DEF Response
    <2> QED
      BY <2>1, <2>2 DEF Statuses, Refusals
  <1>6. HonestAnswer'
    BY <1>5 DEF HonestAnswer, Agrees
  <1>7. Stable
    BY <1>5, PracticeAssumption DEF Stable, RowsSound, Statuses, Refusals, Row
  <1> QED
    BY <1>1, <1>2, <1>3, <1>4, <1>6, <1>7

\* What TypeOK says of the part of the state a writing step moves.
LEMMA RowTypes ==
  ASSUME TypeOK, NEW c \in Calls, NEW label \in Labels,
         rows' \in [RequestIds -> Row], seen' \in [Calls -> [row : Row, response : Response]],
         draft' \in [Calls -> Response],
         reply' \in [Calls -> [kind : ReplyKinds, body : Response]],
         Goto(c, label),
         UNCHANGED <<responses, completions, continuations, events, aged, arg, outcome>>
  PROVE  TypeOK'
  BY DEF TypeOK, Goto

\* Writing one row keeps the table's type.
LEMMA WriteRow ==
  ASSUME TypeOK, NEW k \in RequestIds, NEW row \in Row, rows' = [rows EXCEPT ![k] = row]
  PROVE  rows' \in [RequestIds -> Row]
  BY DEF TypeOK

\* Giving up a claim with a refusal.
LEMMA RefuseRow ==
  ASSUME PracticeInv, NEW k \in RequestIds, rows[k].status = "judging", NEW v \in Refusals,
         rows' = [rows EXCEPT ![k].status = v, ![k].claim = None],
         UNCHANGED <<responses, completions, continuations, events>>
  PROVE  /\ TablesInv' /\ Stable
         /\ rows' \in [RequestIds -> Row]
         /\ rows'[k].status = v
         /\ rows'[k].payload = rows[k].payload
         /\ rows'[k].completion = None
         /\ k \notin events'
  <1> DEFINE row == [rows[k] EXCEPT !.status = v, !.claim = None]
  <1>1. rows \in [RequestIds -> Row] /\ TypeOK /\ rows[k] \in Row
    BY DEF PracticeInv, TypeOK
  <1>2. rows' = [rows EXCEPT ![k] = row]
    BY <1>1
  <1>3. /\ row \in Row /\ row.status = v /\ row.claim = None
        /\ row.payload = rows[k].payload /\ row.completion = rows[k].completion
    BY <1>1 DEF Row, Statuses
  <1>4. rows[k].payload # None /\ rows[k].completion = None
    BY DEF PracticeInv, RowsSound
  <1>5. v # "judging" /\ v \in Refusals \cup {"judging"} /\ rows[k].status \in {"absent", "judging"}
    BY DEF Refusals
  <1>6. k \notin events'
    <2>1. \A p \in Problems : completions[p].first # k
      BY PracticeAssumption DEF PracticeInv, AcceptedIffCompleted
    <2> QED
      BY <2>1 DEF PracticeInv, OneRewardPerCompletion
  <1> HIDE DEF row
  <1>7. TablesInv' /\ Stable
    <2>1. row.payload # None /\ row.completion = None /\ (row.status = "judging" <=> row.claim # None)
          /\ row.status \in Refusals \cup {"judging"}
      BY <1>3, <1>4, <1>5, PracticeAssumption
    <2> QED
      BY <1>2, <1>3, <2>1, RowFrame
  <1>8. rows' \in [RequestIds -> Row]
    BY <1>1, <1>2, <1>3, WriteRow
  <1>9. rows'[k] = row
    BY <1>1, <1>2
  <1> QED
    BY <1>3, <1>4, <1>6, <1>7, <1>8, <1>9

\* A new row is under judgement by the call that inserts it; a known one is read.
LEMMA ClaimInv ==
  ASSUME PracticeInv, NEW c \in Calls, Claim(c)
  PROVE  PracticeInv' /\ Stable
  <1> DEFINE k   == Key(c)
             row == [status |-> "judging", payload |-> arg[c].payload,
                     claim |-> c, completion |-> None]
             read == [row |-> rows[k], response |-> responses[k]]
  <1>a. pc[c] = "claim" /\ TypeOK /\ CallSound(c)
    BY DEF Claim, PracticeInv
  <1>b. k \in RequestIds /\ rows[k] \in Row /\ responses[k] \in Response
        /\ arg[c].payload \in Payloads
    BY <1>a, OwnRow
  <1>c. row \in Row
    BY <1>b DEF Row
  <1>d. UNCHANGED <<responses, completions, continuations, events, aged, arg, outcome, draft, reply>>
    BY DEF Claim
  <1>e. CASE rows[k].status = "absent"
    <2>1. rows' = [rows EXCEPT ![k] = row] /\ Goto(c, "judge") /\ seen' = seen
      BY <1>e DEF Claim
    <2> HIDE DEF row, k
    <2>2. TypeOK'
      <3>1. rows' \in [RequestIds -> Row]
        BY <1>a, <1>b, <1>c, <2>1, WriteRow
      <3> QED
        BY <1>a, <1>d, <2>1, <3>1, RowTypes DEF Labels, TypeOK
    <2>3. TablesInv' /\ Stable
      BY <1>b, <1>c, <1>d, <1>e, <2>1, RowFrame, PracticeAssumption DEF row
    <2>4. CallSound(c)'
      BY <1>a, <1>b, <1>d, <2>1
         DEF k, row, CallSound, Keyed, SeenSound, DraftSound, ReplySound, Goto, Key, TypeOK
    <2> QED
      BY <1>d, <2>1, <2>2, <2>3, <2>4, OthersSound
         DEF PracticeInv, TablesInv, Idles, Goto, TypeOK
  <1>f. CASE rows[k].status # "absent"
    <2>1. rows' = rows /\ Goto(c, "resolve") /\ seen' = [seen EXCEPT ![c] = read]
      BY <1>f DEF Claim, ReadRow
    <2>2. TypeOK'
      BY <1>a, <1>b, <1>d, <2>1, RowTypes DEF Labels, TypeOK
    <2>3. TablesInv' /\ Stable
      BY <1>d, <2>1, TablesFrame DEF db, PracticeInv, TablesInv
    <2>4. CallSound(c)'
      BY <1>a, <1>b, <1>d, <1>f, <2>1
         DEF CallSound, Keyed, SeenSound, DraftSound, ReplySound, Goto, Key, TypeOK
    <2> QED
      BY <1>d, <2>1, <2>2, <2>3, <2>4, OthersSound
         DEF PracticeInv, TablesInv, Idles, Goto, TypeOK
  <1> QED
    BY <1>e, <1>f

\* A revoked row is refused; any other is read as it stands.
LEMMA RevokeStaleInv ==
  ASSUME PracticeInv, NEW c \in Calls, RevokeStale(c)
  PROVE  PracticeInv' /\ Stable
  <1> DEFINE k == Key(c)
  <1>a. /\ pc[c] = "resolve" /\ pc' = pc /\ TypeOK /\ CallSound(c)
        /\ seen[c].row.payload = arg[c].payload
    BY DEF RevokeStale, PracticeInv, Unanswered, SamePayload
  <1>b. k \in RequestIds /\ rows[k] \in Row /\ responses[k] \in Response
    BY <1>a, OwnRow
  <1>c. UNCHANGED <<responses, completions, continuations, events, aged, pc, arg, outcome, draft, reply>>
    BY DEF RevokeStale
  <1>d. rows[k].status # "absent" /\ rows[k].payload = arg[c].payload
    BY <1>a DEF CallSound, SeenSound
  <1>e. seen' = [seen EXCEPT ![c] = [row |-> rows'[k], response |-> responses[k]]]
    BY <1>b DEF RevokeStale, PracticeInv, TypeOK
  <1>f. /\ TablesInv' /\ Stable
        /\ rows' \in [RequestIds -> Row]
        /\ rows'[k].status # "absent" /\ rows'[k].payload = arg[c].payload
    <2>1. CASE rows[k].status = "judging" /\ responses[k] = NoResponse
      <3>1. rows' = [rows EXCEPT ![k].status = "service_error", ![k].claim = None]
        BY <1>b, <2>1 DEF RevokeStale, PracticeInv, TypeOK
      <3>2. "service_error" \in Refusals /\ "service_error" # "absent"
        BY DEF Refusals
      <3> HIDE DEF k
      <3>3. /\ TablesInv' /\ Stable /\ rows' \in [RequestIds -> Row]
            /\ rows'[k].status = "service_error" /\ rows'[k].payload = rows[k].payload
        BY <1>b, <1>c, <2>1, <3>1, <3>2, RefuseRow
      <3> QED
        BY <1>d, <3>2, <3>3
    <2>2. CASE ~ (rows[k].status = "judging" /\ responses[k] = NoResponse)
      <3>1. rows' = rows
        BY <1>b, <2>2 DEF RevokeStale, PracticeInv, TypeOK
      <3> QED
        BY <1>a, <1>c, <1>d, <3>1, TablesFrame DEF db, PracticeInv, TablesInv, TypeOK
    <2> QED
      BY <2>1, <2>2
  <1>g. rows'[k] \in Row
    BY <1>b, <1>f
  <1>h. TypeOK'
    BY <1>a, <1>b, <1>c, <1>e, <1>f, <1>g DEF TypeOK
  <1>i. CallSound(c)'
    BY <1>a, <1>b, <1>c, <1>e, <1>f
       DEF CallSound, Keyed, SeenSound, DraftSound, ReplySound, Key, TypeOK
  <1> QED
    BY <1>c, <1>e, <1>f, <1>h, <1>i, OthersSound DEF PracticeInv, TablesInv, Idles, TypeOK

\* A claim still held is given up with the verdict canceled.
LEMMA TaskCancelledInv ==
  ASSUME PracticeInv, NEW c \in Calls, TaskCancelled(c)
  PROVE  PracticeInv' /\ Stable
  <1> DEFINE k == Key(c)
  <1>a. pc[c] = "judge" /\ TypeOK /\ CallSound(c) /\ Finish(c, "aborted", NoResponse)
    BY DEF TaskCancelled, PracticeInv
  <1>b. k \in RequestIds
    BY <1>a, OwnRow
  <1>c. UNCHANGED <<responses, completions, continuations, events, aged, arg, seen, outcome, draft>>
    BY DEF TaskCancelled
  <1>d. TablesInv' /\ Stable /\ rows' \in [RequestIds -> Row]
    <2>1. CASE HoldsClaim(c)
      <3>1. rows' = [rows EXCEPT ![k].status = "canceled", ![k].claim = None]
            /\ rows[k].status = "judging"
        BY <2>1 DEF TaskCancelled, HoldsClaim
      <3>2. "canceled" \in Refusals
        BY DEF Refusals
      <3> HIDE DEF k
      <3> QED
        BY <1>b, <1>c, <3>1, <3>2, RefuseRow
    <2>2. CASE ~ HoldsClaim(c)
      <3>1. rows' = rows
        BY <2>2 DEF TaskCancelled
      <3> QED
        BY <1>a, <1>c, <3>1, TablesFrame DEF db, PracticeInv, TablesInv, TypeOK
    <2> QED
      BY <2>1, <2>2
  <1>e. /\ pc' = [pc EXCEPT ![c] = "done"]
        /\ reply' = [reply EXCEPT ![c] = [kind |-> "aborted", body |-> NoResponse]]
    BY <1>a DEF Finish, Goto
  <1>f. reply' \in [Calls -> [kind : ReplyKinds, body : Response]]
    BY <1>a, <1>e DEF TypeOK, ReplyKinds, Response, NoResponse
  <1>g. TypeOK'
    BY <1>a, <1>c, <1>d, <1>e, <1>f DEF TypeOK, Labels
  <1>h. CallSound(c)'
    BY <1>a, <1>b, <1>c, <1>e
       DEF CallSound, Keyed, SeenSound, DraftSound, ReplySound, Key, TypeOK
  <1> QED
    BY <1>c, <1>d, <1>e, <1>g, <1>h, OthersSound DEF PracticeInv, TablesInv, Idles, TypeOK

\* The verdict of a call that holds the claim ends the judging.
LEMMA SetVerdictInv ==
  ASSUME PracticeInv, NEW c \in Calls, SetVerdict(c)
  PROVE  PracticeInv' /\ Stable
  <1> DEFINE k == Key(c)
             answer == [NoResponse EXCEPT !.status = outcome[c]]
  <1>a. /\ pc[c] = "verdict" /\ TypeOK /\ CallSound(c) /\ outcome[c] \in Refusals
    BY DEF SetVerdict, PracticeInv, CallSound, Keyed
  <1>b. k \in RequestIds
    BY <1>a, OwnRow
  <1>c. UNCHANGED <<responses, completions, continuations, events, aged, arg, seen, outcome, reply>>
    BY DEF SetVerdict
  <1>d. CASE HoldsClaim(c)
    <2>1. /\ rows' = [rows EXCEPT ![k].status = outcome[c], ![k].claim = None]
          /\ rows[k].status = "judging"
          /\ Goto(c, "compose")
          /\ draft' = [draft EXCEPT ![c] = answer]
      BY <1>d DEF SetVerdict, HoldsClaim
    <2>2. /\ TablesInv' /\ Stable
          /\ rows' \in [RequestIds -> Row]
          /\ rows'[k].status = outcome[c]
          /\ rows'[k].payload = rows[k].payload
          /\ rows'[k].completion = None
          /\ k \notin events'
      <3> HIDE DEF k
      <3> QED
        BY <1>a, <1>b, <1>c, <2>1, RefuseRow
    <2>3. /\ answer \in Response
          /\ answer.status = outcome[c] /\ answer.completion = None /\ answer.recorded = FALSE
      BY <1>a DEF Response, NoResponse, Statuses
    <2> HIDE DEF answer
    <2>4. draft' \in [Calls -> Response]
      BY <1>a, <2>1, <2>3 DEF TypeOK
    <2>5. TypeOK'
      BY <1>a, <1>c, <2>1, <2>2, <2>4, RowTypes DEF Labels, TypeOK
    <2>6. CallSound(c)'
      BY <1>a, <1>b, <1>c, <2>1, <2>2, <2>3
         DEF CallSound, Keyed, SeenSound, DraftSound, Agrees, ReplySound, Key, Goto, TypeOK, Statuses
    <2> QED
      BY <1>c, <2>1, <2>2, <2>5, <2>6, OthersSound
         DEF PracticeInv, TablesInv, Idles, Goto, TypeOK
  <1>e. CASE ~ HoldsClaim(c)
    <2>1. rows' = rows /\ draft' = draft /\ Goto(c, "replay")
      BY <1>e DEF SetVerdict
    <2>2. TypeOK'
      BY <1>a, <1>c, <2>1, RowTypes DEF Labels, TypeOK
    <2>3. TablesInv' /\ Stable
      BY <1>c, <2>1, TablesFrame DEF db, PracticeInv, TablesInv
    <2>4. CallSound(c)'
      BY <1>a, <1>b, <1>c, <2>1
         DEF CallSound, Keyed, SeenSound, DraftSound, ReplySound, Key, Goto, TypeOK
    <2> QED
      BY <1>c, <2>1, <2>2, <2>3, <2>4, OthersSound
         DEF PracticeInv, TablesInv, Idles, Goto, TypeOK
  <1> QED
    BY <1>d, <1>e

\* A completion is dated after every earlier one, whatever the clock reads.
LEMMA CompletionTimeGrows ==
  ASSUME PracticeInv, NEW now \in Clock
  PROVE  /\ CompletionTime(now) \in Nat
         /\ \A t \in CompletionTimes : t < CompletionTime(now)
  <1>1. CompletionTimes \subseteq Nat /\ now \in Nat
    BY PracticeAssumption DEF CompletionTimes, PracticeInv, TypeOK
  <1>2. CASE \A t \in CompletionTimes : t < now
    BY <1>1, <1>2 DEF CompletionTime
  <1>3. CASE ~ \A t \in CompletionTimes : t < now
    <2> DEFINE latest == CHOOSE t \in CompletionTimes : \A s \in CompletionTimes : s <= t
    <2>1. \E t \in CompletionTimes : \A s \in CompletionTimes : s <= t
      BY <1>3 DEF PracticeInv, LatestExists
    <2>2. latest \in CompletionTimes /\ \A s \in CompletionTimes : s <= latest
      BY <2>1
    <2>3. CompletionTime(now) = 1 + latest
      BY <1>3 DEF CompletionTime
    <2> HIDE DEF latest
    <2> QED
      BY <1>1, <2>2, <2>3
  <1> QED
    BY <1>2, <1>3

\* The row under judgement has earned nothing and nobody has answered it.
LEMMA JudgingRow ==
  ASSUME PracticeInv, NEW k \in RequestIds, rows[k].status = "judging"
  PROVE  /\ rows[k].payload \in Payloads
         /\ rows[k].completion = None
         /\ responses[k] = NoResponse
         /\ k \notin events
         /\ \A p \in Problems : completions[p].first # k
  <1>1. rows[k].payload \in Payloads /\ rows[k].completion = None
    BY DEF PracticeInv, RowsSound, TypeOK, Row
  <1>2. \A p \in Problems : completions[p].first # k
    BY PracticeAssumption DEF PracticeInv, AcceptedIffCompleted
  <1>3. k \notin events
    BY <1>2 DEF PracticeInv, OneRewardPerCompletion
  <1>4. responses[k] = NoResponse
    <2>1. responses[k] # NoResponse => /\ responses[k].status = rows[k].status
                                      /\ responses[k].status # "none"
      BY DEF PracticeInv, HonestAnswer, Agrees, RowsSound
    <2>2. responses[k].status \in Statuses \cup {"none"}
      BY DEF PracticeInv, TypeOK, Response
    <2> QED
      BY <2>1, <2>2 DEF Statuses, Refusals
  <1> QED
    BY <1>1, <1>2, <1>3, <1>4

\* The continuation is of the declared shape, whichever way it is chosen.
LEMMA ContinueTypes ==
  ASSUME TypeOK, NEW k \in RequestIds, NEW p \in Problems,
         \/ Continue(k, p, MarkCompleted(p))
         \/ Continue(k, p, continuations)
  PROVE  continuations' \in [RequestIds -> [status : {"none", "active", "completed", "exhausted"},
                                            problem : Problems \cup {None}]]
  <1> DEFINE Shape == [RequestIds -> [status : {"none", "active", "completed", "exhausted"},
                                      problem : Problems \cup {None}]]
  <1>1. continuations \in Shape
    BY DEF TypeOK
  <1>2. MarkCompleted(p) \in Shape
    BY <1>1 DEF MarkCompleted
  <1>3. ASSUME NEW marked \in Shape, Continue(k, p, marked)
        PROVE  continuations' \in Shape
    BY <1>3 DEF Continue, Selectable
  <1> QED
    BY <1>1, <1>2, <1>3

\* The completion transaction credits the problem once, dates it after the
\* others, and accepts the row it holds.
LEMMA CompleteInv ==
  ASSUME PracticeInv, NEW c \in Calls, NEW now \in Clock, Complete(c, now)
  PROVE  PracticeInv' /\ Stable
  <1> DEFINE k == Key(c)
             p == Problem(c)
             recorded == ~ Completed(p)
             first == IF recorded THEN k ELSE completions[p].first
             time  == CompletionTime(now)
             answer == [status |-> "accepted", completion |-> first,
                        recorded |-> recorded, progress |-> {}]
  <1>a. /\ pc[c] = "complete" /\ TypeOK /\ CallSound(c)
        /\ rows[k].status = "judging" /\ Goto(c, "compose")
    BY DEF Complete, HoldsClaim, PracticeInv
  <1>b. /\ k \in RequestIds /\ rows[k] \in Row
        /\ arg[c].payload \in Payloads /\ rows[k].payload = arg[c].payload
    BY <1>a, OwnRow DEF CallSound, Keyed
  <1>c. UNCHANGED <<responses, aged, arg, seen, outcome, reply>>
    BY DEF Complete
  <1>d. /\ rows' = [rows EXCEPT ![k].status = "accepted", ![k].claim = None,
                                ![k].completion = first]
        /\ draft' = [draft EXCEPT ![c] = answer]
    BY DEF Complete
  <1>1. p \in Problems /\ ProblemOf[rows[k].payload] = p
    BY <1>b, PracticeAssumption DEF Problem
  <1>2. /\ recorded  => /\ completions' = [completions EXCEPT ![p] = [first |-> k, at |-> time]]
                        /\ events' = events \cup {k}
                        /\ Continue(k, p, MarkCompleted(p))
        /\ ~recorded => /\ completions' = completions /\ events' = events
                        /\ Continue(first, p, continuations)
    BY DEF Complete
  <1>3. first \in RequestIds /\ first # None /\ (recorded <=> completions[p].first = None)
    BY <1>a, <1>b, <1>1, PracticeAssumption DEF TypeOK, Completed
  <1>4. time \in Nat /\ \A t \in CompletionTimes : t < time
    BY CompletionTimeGrows
  <1>5. /\ rows[k].completion = None /\ responses[k] = NoResponse /\ k \notin events
        /\ \A q \in Problems : completions[q].first # k
    BY <1>a, <1>b, JudgingRow
  <1> HIDE DEF k, p, recorded, first, time, answer
  <1>p. PICK pb \in Problems : pb = p
    BY <1>1
  <1>q. /\ completions'[pb].first = first
        /\ recorded => completions'[pb].at = time
        /\ \A q \in Problems : q # pb => completions'[q] = completions[q]
    BY <1>a, <1>2, <1>p DEF TypeOK, first
  <1>6. /\ rows'[k].status = "accepted" /\ rows'[k].claim = None /\ rows'[k].completion = first
        /\ rows'[k].payload = rows[k].payload
        /\ \A j \in RequestIds : j # k => rows'[j] = rows[j]
        /\ rows' \in [RequestIds -> Row]
    BY <1>a, <1>b, <1>d, <1>3 DEF TypeOK, Row, Statuses
  <1>7. answer \in Response
    BY <1>3 DEF answer, recorded, Response, Statuses
  <1>8. continuations' \in [RequestIds -> [status : {"none", "active", "completed", "exhausted"},
                                           problem : Problems \cup {None}]]
    BY <1>a, <1>b, <1>1, <1>2, <1>3, ContinueTypes DEF first
  <1>9. TypeOK'
    <2>1. completions' \in [Problems -> [first : RequestIds \cup {None}, at : Nat]]
      <3>1. completions \in [Problems -> [first : RequestIds \cup {None}, at : Nat]]
        BY <1>a DEF TypeOK
      <3>2. [first |-> k, at |-> time] \in [first : RequestIds \cup {None}, at : Nat]
        BY <1>b, <1>4
      <3> QED
        BY <1>1, <1>2, <3>1, <3>2
    <2>2. events' \subseteq RequestIds
      BY <1>a, <1>b, <1>2 DEF TypeOK
    <2>3. draft' \in [Calls -> Response] /\ pc' \in [Calls -> Labels]
      BY <1>a, <1>d, <1>7 DEF TypeOK, Goto, Labels
    <2> QED
      BY <1>a, <1>c, <1>6, <1>8, <2>1, <2>2, <2>3 DEF TypeOK
  <1>10. RowsSound'
    BY <1>b, <1>c, <1>3, <1>6, PracticeAssumption DEF PracticeInv, RowsSound
  <1>11. LatestExists'
    <2>1. CASE recorded
      <3>1. Completed(pb)' /\ \A q \in Problems : q # pb => (Completed(q)' <=> Completed(q))
        BY <1>3, <1>q DEF Completed
      <3>a. time \in CompletionTimes' /\ \A t \in CompletionTimes' : t \in CompletionTimes \cup {time}
        BY <1>q, <2>1, <3>1 DEF CompletionTimes
      <3>2. CompletionTimes \subseteq Nat
        BY <1>a DEF CompletionTimes, TypeOK
      <3>3. \A s \in CompletionTimes' : s <= time
        BY <1>4, <3>a, <3>2
      <3> QED
        BY <3>a, <3>3 DEF LatestExists
    <2>2. CASE ~ recorded
      <3>1. CompletionTimes' = CompletionTimes
        BY <1>2, <2>2 DEF CompletionTimes, Completed
      <3> QED
        BY <3>1 DEF PracticeInv, LatestExists
    <2> QED
      BY <2>1, <2>2
  <1>12. AcceptedIffCompleted'
    <2> DEFINE Accepted(q) == {j \in RequestIds : /\ rows[j].status = "accepted"
                                                  /\ ProblemOf[rows[j].payload] = q}
    <2>1. \A q \in Problems : /\ Accepted(q) = {} <=> completions[q].first = None
                              /\ Accepted(q) # {} => completions[q].first \in Accepted(q)
                              /\ \A j \in Accepted(q) : rows[j].completion = completions[q].first
      BY DEF PracticeInv, AcceptedIffCompleted
    <2>2. Accepted(pb)' = Accepted(pb) \cup {k}
      BY <1>a, <1>b, <1>1, <1>6, <1>p
    <2>3. \A q \in Problems : q # pb => Accepted(q)' = Accepted(q)
      BY <1>a, <1>b, <1>1, <1>6, <1>p
    <2>5. \A q \in Problems : \A j \in Accepted(q) : j # k /\ rows'[j] = rows[j]
      BY <1>a, <1>6
    <2> HIDE DEF Accepted
    <2>6. /\ Accepted(pb)' # {} /\ first \in Accepted(pb)'
          /\ \A j \in Accepted(pb)' : rows'[j].completion = first
      BY <1>p, <1>3, <1>6, <2>1, <2>2, <2>5 DEF first
    <2>7. ASSUME NEW q \in Problems
          PROVE  /\ Accepted(q)' = {} <=> completions'[q].first = None
                 /\ Accepted(q)' # {} => completions'[q].first \in Accepted(q)'
                 /\ \A j \in Accepted(q)' : rows'[j].completion = completions'[q].first
      <3>1. CASE q = pb
        BY <1>3, <1>q, <2>6, <3>1
      <3>2. CASE q # pb
        <4>1. Accepted(q)' = Accepted(q) /\ completions'[q] = completions[q]
          BY <1>q, <2>3, <3>2
        <4>2. \A j \in Accepted(q) : rows'[j].completion = completions[q].first
          BY <2>1, <2>5
        <4> QED
          BY <2>1, <4>1, <4>2
      <3> QED
        BY <3>1, <3>2
    <2> QED
      BY <2>7 DEF AcceptedIffCompleted, Accepted
  <1>13. OneRewardPerCompletion'
    <2>1. CASE recorded
      <3>1. completions'[pb].first = k /\ completions[pb].first = None /\ k # None
        BY <1>3, <1>p, <1>q, <2>1 DEF first
      <3>2. {completions'[q].first : q \in Problems} \ {None}
              = ({completions[q].first : q \in Problems} \ {None}) \cup {k}
        BY <1>q, <3>1
      <3> QED
        BY <1>2, <2>1, <3>2 DEF PracticeInv, OneRewardPerCompletion
    <2>2. CASE ~ recorded
      BY <1>2, <2>2 DEF PracticeInv, OneRewardPerCompletion
    <2> QED
      BY <2>1, <2>2
  <1>14. k \in events' <=> recorded
    BY <1>2, <1>5
  <1>15. \A j \in RequestIds : j # k => (j \in events' <=> j \in events)
    BY <1>2
  <1>16. HonestAnswer'
    BY <1>c, <1>5, <1>6, <1>15 DEF PracticeInv, HonestAnswer, Agrees
  <1>17. Stable
    BY <1>a, <1>c, <1>6, <1>15 DEF Stable, Statuses, Refusals
  <1>18. CallSound(c)'
    <2>1. pc'[c] = "compose" /\ arg'[c] = arg[c] /\ reply'[c] = reply[c] /\ draft'[c] = answer
      BY <1>a, <1>c, <1>d DEF Goto, TypeOK
    <2>2. Keyed(c)'
      BY <1>b, <1>6, <2>1 DEF k, Keyed, Key, Statuses
    <2>3. SeenSound(c)'
      BY <2>1 DEF SeenSound
    <2>4. DraftSound(c)'
      BY <1>6, <1>14, <2>1 DEF k, answer, DraftSound, Agrees, Key
    <2>5. ReplySound(c)'
      BY <1>a, <1>c, <2>1 DEF CallSound, ReplySound, Key
    <2> QED
      BY <2>2, <2>3, <2>4, <2>5 DEF CallSound
  <1>19. ASSUME NEW d \in Calls, d # c
         PROVE  CallSound(d)'
    <2>1. Idles(d)
      BY <1>a, <1>c, <1>d, <1>19 DEF Idles, Goto, TypeOK
    <2> QED
      BY <1>17, <2>1, OthersSound
  <1> QED
    BY <1>9, <1>10, <1>11, <1>12, <1>13, <1>16, <1>17, <1>18, <1>19 DEF PracticeInv

\* The cached response is the first one composed, and agrees with the row.
LEMMA StoreResponseInv ==
  ASSUME PracticeInv, NEW c \in Calls, StoreResponse(c)
  PROVE  PracticeInv' /\ Stable
  <1> DEFINE k == Key(c)
             kept == IF responses[k] = NoResponse THEN draft[c] ELSE responses[k]
  <1>a. /\ pc[c] = "store" /\ TypeOK /\ CallSound(c)
        /\ responses' = [responses EXCEPT ![k] = kept] /\ Finish(c, "response", kept)
    BY DEF StoreResponse, PracticeInv
  <1>b. k \in RequestIds /\ responses[k] \in Response /\ rows[k].status \in Statuses
    BY <1>a, OwnRow DEF CallSound, Keyed
  <1>c. UNCHANGED <<rows, completions, continuations, events, aged, arg, seen, outcome, draft>>
    BY DEF StoreResponse
  <1>1. kept \in Response
    BY <1>a, <1>b DEF TypeOK
  <1>2. Agrees(k, kept) /\ (kept.recorded => k \in kept.progress)
    BY <1>a, <1>b DEF CallSound, DraftSound, PracticeInv, HonestAnswer
  <1>3. kept.status # "none" /\ kept # NoResponse
    BY <1>b, <1>2 DEF Agrees, Statuses, Refusals, NoResponse
  <1>4. responses[k] # NoResponse => kept = responses[k]
    OBVIOUS
  <1> HIDE DEF k, kept
  <1>5. /\ responses'[k] = kept
        /\ \A j \in RequestIds : j # k => responses'[j] = responses[j]
        /\ responses' \in [RequestIds -> Response]
    BY <1>a, <1>b, <1>1 DEF TypeOK
  <1>6. /\ pc' = [pc EXCEPT ![c] = "done"]
        /\ reply' = [reply EXCEPT ![c] = [kind |-> "response", body |-> kept]]
    BY <1>a DEF Finish, Goto
  <1>7. TypeOK'
    <2>1. pc' \in [Calls -> Labels] /\ reply' \in [Calls -> [kind : ReplyKinds, body : Response]]
      BY <1>a, <1>1, <1>6 DEF TypeOK, Labels, ReplyKinds
    <2> QED
      BY <1>a, <1>c, <1>5, <2>1 DEF TypeOK
  <1>8. RowsSound'
    BY <1>c, <1>3, <1>5 DEF PracticeInv, RowsSound
  <1>9. LatestExists' /\ AcceptedIffCompleted' /\ OneRewardPerCompletion'
    <2>1. CompletionTimes' = CompletionTimes
      BY <1>c DEF CompletionTimes, Completed
    <2> QED
      BY <1>c, <2>1 DEF PracticeInv, LatestExists, AcceptedIffCompleted, OneRewardPerCompletion
  <1>10. HonestAnswer'
    BY <1>c, <1>2, <1>5 DEF PracticeInv, HonestAnswer, Agrees
  <1>11. Stable
    BY <1>c, <1>4, <1>5 DEF Stable
  <1>12. CallSound(c)'
    <2>1. pc'[c] = "done" /\ reply'[c].body = kept /\ arg' = arg
      BY <1>a, <1>c, <1>6 DEF TypeOK
    <2>2. arg[c].id \in RequestIds /\ arg[c].payload \in Payloads
      BY <1>a DEF CallSound, Keyed
    <2> QED
      BY <1>3, <1>5, <2>1, <2>2 DEF k, CallSound, Keyed, SeenSound, DraftSound, ReplySound, Key
  <1>13. ASSUME NEW d \in Calls, d # c
         PROVE  CallSound(d)'
    <2>1. Idles(d)
      BY <1>a, <1>c, <1>6, <1>13 DEF Idles, TypeOK
    <2> QED
      BY <1>11, <2>1, OthersSound
  <1> QED
    BY <1>7, <1>8, <1>9, <1>10, <1>11, <1>12, <1>13 DEF PracticeInv

\* Time passes: no table and no call is touched.
LEMMA GrowStaleInv ==
  ASSUME PracticeInv, NEW k \in RequestIds, GrowStale(k)
  PROVE  PracticeInv' /\ Stable
  <1>1. UNCHANGED <<db, pc, local>> /\ aged' \subseteq RequestIds
    BY DEF GrowStale, PracticeInv, TypeOK
  <1>2. TablesInv' /\ Stable
    BY <1>1, TablesFrame DEF PracticeInv, TablesInv
  <1>3. \A d \in Calls : CallSound(d)'
    BY <1>1, <1>2, OthersSound DEF Idles, local
  <1>4. TypeOK'
    BY <1>1 DEF PracticeInv, TypeOK, db, local
  <1> QED
    BY <1>2, <1>3, <1>4 DEF PracticeInv, TablesInv

\* A stuttering step changes nothing.
LEMMA StutterInv == PracticeInv /\ UNCHANGED vars => PracticeInv' /\ Stable
  <1> SUFFICES ASSUME PracticeInv, UNCHANGED vars
               PROVE  PracticeInv' /\ Stable
    OBVIOUS
  <1>1. UNCHANGED <<db, aged, pc, local>>
    BY DEF vars
  <1>2. TablesInv' /\ Stable
    BY <1>1, TablesFrame DEF PracticeInv, TablesInv
  <1>3. \A d \in Calls : CallSound(d)'
    BY <1>1, <1>2, OthersSound DEF Idles, local
  <1>4. TypeOK'
    BY <1>1 DEF PracticeInv, TypeOK, db, local
  <1> QED
    BY <1>2, <1>3, <1>4 DEF PracticeInv, TablesInv

-----------------------------------------------------------------------------
\* PracticeInv is inductive, and no step undoes a verdict or a cached response.
LEMMA NextInv ==
  ASSUME PracticeInv, [Next]_vars
  PROVE  PracticeInv' /\ Stable
  <1>1. ASSUME NEW c \in Calls, NEW k \in RequestIds, NEW payload \in Payloads,
               Preflight(c, k, payload)
        PROVE  PracticeInv' /\ Stable
    BY <1>1, PreflightInv
  <1>2. ASSUME NEW c \in Calls, Step(c)
        PROVE  PracticeInv' /\ Stable
    BY <1>2, ErrorsInv, ClaimInv, ReplayCachedInv, RevokeStaleInv, RecoverInv, JudgedInv,
       TaskCancelledInv, DisconnectedInv, SetVerdictInv, CompleteInv, MovesInv, ComposeInv,
       StoreResponseInv, ReplayInv
       DEF Step
  <1>3. ASSUME NEW c \in Calls, Crash(c)
        PROVE  PracticeInv' /\ Stable
    BY <1>3, MovesInv
  <1>4. ASSUME NEW k \in RequestIds, GrowStale(k)
        PROVE  PracticeInv' /\ Stable
    BY <1>4, GrowStaleInv
  <1> QED
    BY <1>1, <1>2, <1>3, <1>4, StutterInv DEF Next

\* PracticeInv holds in every reachable state, for any number of calls racing on
\* any number of request_ids.
THEOREM PracticeInvariant == Spec => []PracticeInv
  <1>1. Init => PracticeInv
    BY InitInv
  <1>2. PracticeInv /\ [Next]_vars => PracticeInv'
    BY NextInv
  <1> QED
    BY <1>1, <1>2, PTL DEF Spec

\* Every table row and every local keeps its declared shape.
THEOREM PracticeTyped == Spec => []TypeOK
  <1>1. PracticeInv => TypeOK
    BY DEF PracticeInv
  <1> QED
    BY <1>1, PracticeInvariant, PTL

\* Two calls that answer one request_id with a response give the same one:
\* both replies carry the cached response.
THEOREM PracticeOneAnswer == Spec => []OneAnswer
  <1>1. PracticeInv => OneAnswer
    <2> SUFFICES ASSUME PracticeInv, NEW c \in Calls, NEW d \in Calls,
                        reply[c].kind = "response", reply[d].kind = "response",
                        Key(c) = Key(d)
                 PROVE  reply[c] = reply[d]
      BY DEF OneAnswer
    <2>1. reply[c].body = reply[d].body
      BY DEF PracticeInv, CallSound, ReplySound
    <2>2. reply[c] \in [kind : ReplyKinds, body : Response]
          /\ reply[d] \in [kind : ReplyKinds, body : Response]
      BY DEF PracticeInv, TypeOK
    <2> QED
      BY <2>1, <2>2
  <1> QED
    BY <1>1, PracticeInvariant, PTL

\* A problem is completed exactly when a submission of it was accepted, and is
\* rewarded once; a cached response keeps agreeing with the tables.
THEOREM PracticeSound == Spec => [](AcceptedIffCompleted /\ OneRewardPerCompletion /\ HonestAnswer)
  <1>1. PracticeInv => AcceptedIffCompleted /\ OneRewardPerCompletion /\ HonestAnswer
    BY DEF PracticeInv
  <1> QED
    BY <1>1, PracticeInvariant, PTL

\* No late judge, recovery, revocation or retry changes a verdict or a response.
THEOREM PracticeVerdictFinal == Spec => VerdictFinal
  <1>1. PracticeInv /\ [Next]_vars =>
          [\A k \in RequestIds :
             /\ rows[k].status \in Statuses => rows'[k] = rows[k]
             /\ responses[k] # NoResponse => responses'[k] = responses[k]]_vars
    <2>1. PracticeInv /\ [Next]_vars =>
            \A k \in RequestIds :
              /\ rows[k].status \in Statuses => rows'[k] = rows[k]
              /\ responses[k] # NoResponse => responses'[k] = responses[k]
      BY NextInv DEF Stable
    <2> QED
      BY <2>1
  <1> QED
    BY <1>1, PracticeInvariant, PTL DEF Spec, VerdictFinal

\* Whatever the clock reads, a problem completed later is dated later.
THEOREM PracticeTimesGrow == Spec => CompletionTimesGrow
  <1>1. ASSUME PracticeInv, [Next]_vars, NEW p \in Problems, NEW q \in Problems,
               completions[p].first = None, completions'[p].first # None,
               completions[q].first # None
        PROVE  completions'[p].at > completions[q].at
    <2>1. completions' # completions
      BY <1>1
    <2>2. PICK c \in Calls, now \in Clock : Complete(c, now)
      <3>1. ASSUME NEW c \in Calls, Step(c)
            PROVE  completions' = completions \/ \E now \in Clock : Complete(c, now)
        BY <3>1 DEF Step, PackUnavailable, Claim, KeyReused, ReplayCached, InProgress, RevokeStale,
                    Recover, Judged, TaskCancelled, Disconnected, SetVerdict, CompleteRevoked,
                    Compose, StoreResponse, Replay, db
      <3> QED
        BY <1>1, <2>1, <3>1 DEF Next, Preflight, Crash, GrowStale, vars, db
    <2>3. PICK r \in Problems : r = Problem(c)
      <3>1. pc[c] # "idle"
        BY <2>2 DEF Complete
      <3> QED
        BY <1>1, <3>1, OwnRow, PracticeAssumption DEF Problem
    <2>4. completions' = [completions EXCEPT ![r] = [first |-> Key(c), at |-> CompletionTime(now)]]
      BY <2>1, <2>2, <2>3 DEF Complete
    <2>5. p = r /\ completions'[p].at = CompletionTime(now)
      BY <1>1, <2>4 DEF PracticeInv, TypeOK
    <2>6. completions[q].at \in CompletionTimes
      BY <1>1 DEF CompletionTimes, Completed
    <2>7. completions[q].at < CompletionTime(now) /\ CompletionTime(now) \in Nat
          /\ completions[q].at \in Nat
      BY <1>1, <2>6, CompletionTimeGrows DEF PracticeInv, TypeOK
    <2> QED
      BY <2>5, <2>7
  <1>2. PracticeInv /\ [Next]_vars =>
          \A p, q \in Problems :
            /\ completions[p].first = None
            /\ completions'[p].first # None
            /\ completions[q].first # None
            => completions'[p].at > completions[q].at
    BY <1>1
  <1> QED
    BY <1>2, PracticeInvariant, PTL DEF Spec, CompletionTimesGrow

-----------------------------------------------------------------------------
(* The queue.  Only a completion writes it: it closes the item that led to   *)
(* the problem, and adds an item whose problem was never offered.            *)

\* The continuation of completion k of problem p keeps the queue fresh, whatever the
\* statuses it starts from, if none of them leaves p active.
LEMMA ContinueFresh ==
  ASSUME TypeOK, QueueFresh, NEW k \in RequestIds, NEW p \in Problems, NEW marked,
         \A j \in RequestIds : marked[j].problem = continuations[j].problem,
         \A j \in RequestIds : marked[j].status = "active" =>
           continuations[j].status = "active" /\ continuations[j].problem # p,
         marked \in [RequestIds -> [status : {"none", "active", "completed", "exhausted"},
                                    problem : Problems \cup {None}]],
         \A q \in Problems : q # p => completions'[q] = completions[q],
         Continue(k, p, marked)
  PROVE  QueueFresh'
  <1>1. CASE continuations' = marked
    BY <1>1 DEF QueueFresh, TypeOK
  <1>a. \A j \in RequestIds : marked[j].status = "active" =>
          /\ marked[j].problem # None
          /\ completions'[marked[j].problem].first = None
    BY DEF QueueFresh, TypeOK
  <1>b. \A i, j \in RequestIds : i # j /\ marked[i].problem # None
          => marked[i].problem # marked[j].problem
    BY DEF QueueFresh
  <1>2. ASSUME NEW q \in Selectable(p),
               continuations' = [marked EXCEPT ![k] = [status |-> "active", problem |-> q]]
        PROVE  QueueFresh'
    <2>1. /\ q \in Problems /\ q # p /\ completions[q].first = None
          /\ \A j \in RequestIds : continuations[j].problem # q
      BY DEF Selectable, Offered, Completed
    <2>2. q # None /\ completions'[q].first = None
      BY <2>1, PracticeAssumption
    <2>3. /\ continuations'[k].status = "active" /\ continuations'[k].problem = q
          /\ \A j \in RequestIds : j # k => continuations'[j] = marked[j]
      BY <1>2
    <2>4. \A j \in RequestIds : marked[j].problem # q
      BY <2>1
    <2> QED
      BY <1>a, <1>b, <2>2, <2>3, <2>4 DEF QueueFresh
  <1>3. CASE continuations' = [marked EXCEPT ![k] = [status |-> "exhausted", problem |-> None]]
    <2>1. /\ continuations'[k].status = "exhausted" /\ continuations'[k].problem = None
          /\ \A j \in RequestIds : j # k => continuations'[j] = marked[j]
      BY <1>3
    <2> QED
      BY <1>a, <1>b, <2>1 DEF QueueFresh
  <1> QED
    BY <1>1, <1>2, <1>3 DEF Continue

\* Closing the items that lead to p.
LEMMA MarkedRows ==
  ASSUME TypeOK, NEW p \in Problems
  PROVE  /\ MarkCompleted(p) \in [RequestIds -> [status : {"none", "active", "completed", "exhausted"},
                                                 problem : Problems \cup {None}]]
         /\ \A j \in RequestIds :
              /\ MarkCompleted(p)[j].problem = continuations[j].problem
              /\ MarkCompleted(p)[j].status = "active" =>
                   continuations[j].status = "active" /\ continuations[j].problem # p
  BY DEF TypeOK, MarkCompleted

\* A completion keeps the queue fresh, the first of its problem or not.
LEMMA CompleteFresh ==
  ASSUME PracticeInv, QueueFresh, NEW c \in Calls, NEW now \in Clock, Complete(c, now)
  PROVE  QueueFresh'
  <1>1. pc[c] # "idle" /\ TypeOK
    BY DEF Complete, PracticeInv
  <1>2. PICK k \in RequestIds, p \in Problems : k = Key(c) /\ p = Problem(c)
    BY <1>1, OwnRow, PracticeAssumption DEF Problem
  <1>3. CASE completions[p].first = None
    <2>1. /\ completions' = [completions EXCEPT ![p] = [first |-> k, at |-> CompletionTime(now)]]
          /\ Continue(k, p, MarkCompleted(p))
      BY <1>2, <1>3 DEF Complete, Completed
    <2>2. \A q \in Problems : q # p => completions'[q] = completions[q]
      BY <1>1, <2>1 DEF TypeOK
    <2> QED
      BY <1>1, <2>1, <2>2, MarkedRows, ContinueFresh
  <1>4. CASE completions[p].first # None
    <2>1. UNCHANGED completions /\ Continue(completions[p].first, p, continuations)
      BY <1>2, <1>4 DEF Complete, Completed
    <2>2. completions[p].first \in RequestIds
      BY <1>1, <1>4 DEF TypeOK
    <2>3. \A j \in RequestIds : continuations[j].status = "active" => continuations[j].problem # p
      BY <1>4 DEF QueueFresh
    <2>4. \A q \in Problems : q # p => completions'[q] = completions[q]
      BY <2>1
    <2>5. continuations \in [RequestIds -> [status : {"none", "active", "completed", "exhausted"},
                                            problem : Problems \cup {None}]]
      BY <1>1 DEF TypeOK
    <2> QED
      BY <1>1, <2>1, <2>2, <2>3, <2>4, <2>5, ContinueFresh
  <1> QED
    BY <1>3, <1>4

\* Neither the queue nor the completions change but in a completion.
LEMMA OnlyCompletes ==
  ASSUME [Next]_vars
  PROVE  \/ UNCHANGED <<completions, continuations>>
         \/ \E c \in Calls, now \in Clock : Complete(c, now)
  <1>1. ASSUME NEW c \in Calls, Step(c)
        PROVE  \/ UNCHANGED <<completions, continuations>>
               \/ \E now \in Clock : Complete(c, now)
    BY <1>1 DEF Step, PackUnavailable, Claim, KeyReused, ReplayCached, InProgress, RevokeStale,
                Recover, Judged, TaskCancelled, Disconnected, SetVerdict, CompleteRevoked,
                Compose, StoreResponse, Replay, db
  <1> QED
    BY <1>1 DEF Next, Preflight, Crash, GrowStale, vars, db

\* However the calls race, the queue never holds an item whose problem is completed, nor
\* two items of one problem: the unique index on (user_id, problem_id) never rolls a
\* completion back.
THEOREM PracticeQueueFresh == Spec => []QueueFresh
  <1>1. Init => QueueFresh
    <2> SUFFICES ASSUME Init
                 PROVE  QueueFresh
      OBVIOUS
    <2>1. \A k \in RequestIds : continuations[k].status = "none" /\ continuations[k].problem = None
      BY DEF Init
    <2> QED
      BY <2>1 DEF QueueFresh
  <1>2. PracticeInv /\ QueueFresh /\ [Next]_vars => QueueFresh'
    <2> SUFFICES ASSUME PracticeInv, QueueFresh, [Next]_vars
                 PROVE  QueueFresh'
      OBVIOUS
    <2>1. CASE UNCHANGED <<completions, continuations>>
      BY <2>1 DEF QueueFresh
    <2> QED
      BY <2>1, OnlyCompletes, CompleteFresh
  <1> QED
    BY <1>1, <1>2, PracticeInvariant, PTL DEF Spec

-----------------------------------------------------------------------------
(* PracticeSubmit implements PracticeContract: every step of a call binds a  *)
(* key, rejects it, accepts it, answers it, or is a stuttering step of the   *)
(* contract.                                                                 *)

\* The contract sees three tables only.
LEMMA ContractStutter ==
  ASSUME UNCHANGED <<rows, responses, completions>>
  PROVE  UNCHANGED Contract!contractVars
  BY DEF Contract!contractVars

\* A new row binds its request_id.
LEMMA InsertBinds ==
  ASSUME PracticeInv, NEW k \in RequestIds, NEW payload \in Payloads, NEW c,
         rows[k].status = "absent",
         rows' = [rows EXCEPT ![k] = [status |-> "judging", payload |-> payload,
                                      claim |-> c, completion |-> None]],
         UNCHANGED <<responses, completions>>
  PROVE  Contract!Bind(k, payload)
  <1>1. rows \in [RequestIds -> Row] /\ rows[k].payload = None
    BY DEF PracticeInv, TypeOK, RowsSound
  <1>2. /\ rows'[k].payload = payload /\ rows'[k].status = "judging"
        /\ \A j \in RequestIds : j # k => rows'[j] = rows[j]
    BY <1>1
  <1>3. [j \in RequestIds |-> rows'[j].payload]
          = [[j \in RequestIds |-> rows[j].payload] EXCEPT ![k] = payload]
    <2>1. \A j \in RequestIds : rows'[j].payload = IF j = k THEN payload ELSE rows[j].payload
      BY <1>2
    <2> QED
      BY <2>1, Zenon
  <1>4. [j \in RequestIds |-> IF rows'[j].status \in Statuses THEN rows'[j].status ELSE "open"]
          = [j \in RequestIds |-> IF rows[j].status \in Statuses THEN rows[j].status ELSE "open"]
    BY <1>2 DEF Statuses, Refusals
  <1> QED
    BY <1>1, <1>3, <1>4 DEF Contract!Bind

\* The verdict of a row written with status v, and of any other row.
LEMMA VerdictOf ==
  ASSUME NEW j, NEW k, NEW v \in Statuses, NEW before, NEW after,
         j = k => after = v, j # k => after = before
  PROVE  (IF after \in Statuses THEN after ELSE "open")
           = IF j = k THEN v ELSE IF before \in Statuses THEN before ELSE "open"
  OBVIOUS

\* Giving up a claim with a refusal rejects the request_id.
LEMMA RefuseRejects ==
  ASSUME PracticeInv, NEW k \in RequestIds, rows[k].status = "judging", NEW v \in Refusals,
         rows' = [rows EXCEPT ![k].status = v, ![k].claim = None],
         UNCHANGED <<responses, completions>>
  PROVE  Contract!Next
  <1>1. rows \in [RequestIds -> Row] /\ rows[k].payload # None
    BY DEF PracticeInv, TypeOK, RowsSound
  <1>2. /\ rows'[k].payload = rows[k].payload /\ rows'[k].status = v
        /\ \A j \in RequestIds : j # k => rows'[j] = rows[j]
    BY <1>1 DEF Row
  <1>3. [j \in RequestIds |-> rows'[j].payload] = [j \in RequestIds |-> rows[j].payload]
    <2>1. \A j \in RequestIds : rows'[j].payload = rows[j].payload
      BY <1>2
    <2> QED
      BY <2>1, Zenon
  <1>4. [j \in RequestIds |-> IF rows'[j].status \in Statuses THEN rows'[j].status ELSE "open"]
          = [[j \in RequestIds |-> IF rows[j].status \in Statuses THEN rows[j].status ELSE "open"]
               EXCEPT ![k] = v]
    <2>1. v \in Statuses
      BY DEF Statuses
    <2>2. ASSUME NEW j \in RequestIds
          PROVE  (IF rows'[j].status \in Statuses THEN rows'[j].status ELSE "open")
                   = IF j = k THEN v ELSE IF rows[j].status \in Statuses THEN rows[j].status ELSE "open"
      <3>1. /\ j = k => rows'[j].status = v
            /\ j # k => rows'[j].status = rows[j].status
        BY <1>2
      <3> QED
        BY <2>1, <3>1, VerdictOf
    <2> QED
      BY <2>2, Zenon
  <1>5. rows[k].status \notin Statuses
    BY DEF Statuses, Refusals
  <1>6. Contract!Reject(k, v)
    BY <1>1, <1>3, <1>4, <1>5 DEF Contract!Reject
  <1> QED
    BY <1>6 DEF Contract!Next

\* The completion transaction accepts the request_id and credits its problem.
LEMMA CompleteAccepts ==
  ASSUME PracticeInv, NEW c \in Calls, NEW now \in Clock, Complete(c, now)
  PROVE  Contract!Next
  <1>1. /\ pc[c] = "complete" /\ rows[Key(c)].status = "judging" /\ TypeOK
        /\ UNCHANGED responses
    BY DEF Complete, HoldsClaim, PracticeInv
  <1>2. /\ Key(c) \in RequestIds /\ arg[c].payload \in Payloads
        /\ rows[Key(c)].payload = arg[c].payload
    BY <1>1, OwnRow DEF PracticeInv, CallSound, Keyed
  <1>3. PICK k \in RequestIds : k = Key(c)
    BY <1>2
  <1>4. PICK p \in Problems : p = Problem(c)
    BY <1>2, PracticeAssumption DEF Problem
  <1>5. ProblemOf[rows[k].payload] = p /\ rows[k].payload # None
    BY <1>2, <1>3, <1>4, PracticeAssumption DEF Problem
  <1>6. \E first : rows' = [rows EXCEPT ![k].status = "accepted", ![k].claim = None,
                                        ![k].completion = first]
    BY <1>3 DEF Complete
  <1>7. /\ completions[p].first = None => completions'[p].first = k
        /\ completions[p].first # None => completions'[p].first = completions[p].first
        /\ \A q \in Problems : q # p => completions'[q] = completions[q]
    <2>1. CASE Completed(p)
      BY <1>4, <2>1 DEF Complete, Completed
    <2>2. CASE ~ Completed(p)
      <3>1. completions' = [completions EXCEPT ![p] = [first |-> k, at |-> CompletionTime(now)]]
        BY <1>3, <1>4, <2>2 DEF Complete
      <3> QED
        BY <1>1, <2>2, <3>1 DEF Completed, TypeOK
    <2> QED
      BY <2>1, <2>2
  <1>8. /\ rows'[k].payload = rows[k].payload /\ rows'[k].status = "accepted"
        /\ \A j \in RequestIds : j # k => rows'[j] = rows[j]
    BY <1>1, <1>6 DEF TypeOK, Row
  <1>9. [j \in RequestIds |-> rows'[j].payload] = [j \in RequestIds |-> rows[j].payload]
    BY <1>8
  <1>10. [j \in RequestIds |-> IF rows'[j].status \in Statuses THEN rows'[j].status ELSE "open"]
           = [[j \in RequestIds |-> IF rows[j].status \in Statuses THEN rows[j].status ELSE "open"]
                EXCEPT ![k] = "accepted"]
    BY <1>8 DEF Statuses
  <1>11. [q \in Problems |-> {completions'[q].first} \ {None}]
           = [[q \in Problems |-> {completions[q].first} \ {None}]
                EXCEPT ![p] = IF @ = {} THEN {k} ELSE @]
    BY <1>7, PracticeAssumption
  <1>12. rows[k].status \notin Statuses
    BY <1>1, <1>3 DEF Statuses, Refusals
  <1>13. Contract!Accept(k)
    BY <1>1, <1>5, <1>9, <1>10, <1>11, <1>12 DEF Contract!Accept
  <1> QED
    BY <1>13 DEF Contract!Next

\* The first stored response answers the request_id; a later one changes nothing.
LEMMA StoreAnswers ==
  ASSUME PracticeInv, NEW c \in Calls, StoreResponse(c)
  PROVE  [Contract!Next]_(Contract!contractVars)
  <1>1. pc[c] = "store" /\ TypeOK /\ CallSound(c) /\ UNCHANGED <<rows, completions>>
    BY DEF StoreResponse, PracticeInv
  <1>2. PICK k \in RequestIds : k = Key(c)
    BY <1>1, OwnRow
  <1>3. CASE responses[k] # NoResponse
    <2>1. responses' = responses
      BY <1>1, <1>2, <1>3 DEF StoreResponse, TypeOK
    <2> QED
      BY <1>1, <2>1, ContractStutter
  <1>4. CASE responses[k] = NoResponse
    <2>1. responses' = [responses EXCEPT ![k] = draft[c]]
      BY <1>2, <1>4 DEF StoreResponse
    <2>2. rows[k].status \in Statuses /\ draft[c] # NoResponse
      BY <1>1, <1>2 DEF CallSound, Keyed, DraftSound, Agrees, Statuses, Refusals, NoResponse
    <2>3. {j \in RequestIds : responses'[j] # NoResponse}
            = {j \in RequestIds : responses[j] # NoResponse} \cup {k}
      BY <1>1, <2>1, <2>2 DEF TypeOK
    <2>4. Contract!Answer(k)
      BY <1>1, <1>4, <2>2, <2>3 DEF Contract!Answer, Statuses, Refusals
    <2> QED
      BY <2>4 DEF Contract!Next
  <1> QED
    BY <1>3, <1>4

\* A claim inserts a row or reads one.
LEMMA ClaimBinds ==
  ASSUME PracticeInv, NEW c \in Calls, Claim(c)
  PROVE  [Contract!Next]_(Contract!contractVars)
  <1>1. pc[c] = "claim" /\ UNCHANGED <<responses, completions>>
    BY DEF Claim
  <1>2. PICK k \in RequestIds : k = Key(c)
    BY <1>1, OwnRow
  <1>3. PICK payload \in Payloads : payload = arg[c].payload
    BY <1>1, OwnRow
  <1>4. CASE rows[k].status = "absent"
    <2>1. rows' = [rows EXCEPT ![k] = [status |-> "judging", payload |-> payload,
                                       claim |-> c, completion |-> None]]
      BY <1>2, <1>3, <1>4 DEF Claim
    <2>2. Contract!Bind(k, payload)
      BY <1>1, <1>4, <2>1, InsertBinds
    <2> QED
      BY <2>2 DEF Contract!Next
  <1>5. CASE rows[k].status # "absent"
    BY <1>1, <1>2, <1>5, ContractStutter DEF Claim
  <1> QED
    BY <1>4, <1>5

\* A revocation, a cancellation or a verdict that finds the row under judgement
\* rejects the request_id; otherwise it changes no table.
LEMMA RefusalsReject ==
  ASSUME PracticeInv, NEW c \in Calls,
         RevokeStale(c) \/ TaskCancelled(c) \/ SetVerdict(c)
  PROVE  [Contract!Next]_(Contract!contractVars)
  <1>1. pc[c] # "idle" /\ TypeOK /\ UNCHANGED <<responses, completions>>
    BY DEF RevokeStale, TaskCancelled, SetVerdict, PracticeInv
  <1>2. PICK k \in RequestIds : k = Key(c)
    BY <1>1, OwnRow
  <1>3. SetVerdict(c) => outcome[c] \in Refusals
    BY DEF SetVerdict, PracticeInv, CallSound, Keyed
  <1>4. \/ rows' = rows
        \/ /\ rows[k].status = "judging"
           /\ \E v \in Refusals : rows' = [rows EXCEPT ![k].status = v, ![k].claim = None]
    <2>1. CASE RevokeStale(c)
      <3>1. CASE rows[k].status = "judging" /\ responses[k] = NoResponse
        BY <1>1, <1>2, <2>1, <3>1 DEF RevokeStale, Refusals, TypeOK
      <3>2. CASE ~ (rows[k].status = "judging" /\ responses[k] = NoResponse)
        BY <1>1, <1>2, <2>1, <3>2 DEF RevokeStale, TypeOK
      <3> QED
        BY <3>1, <3>2
    <2>2. CASE TaskCancelled(c)
      BY <1>2, <2>2 DEF TaskCancelled, HoldsClaim, Refusals
    <2>3. CASE SetVerdict(c)
      BY <1>2, <1>3, <2>3 DEF SetVerdict, HoldsClaim
    <2> QED
      BY <2>1, <2>2, <2>3
  <1>5. CASE rows' = rows
    BY <1>1, <1>5, ContractStutter
  <1>6. ASSUME rows[k].status = "judging", NEW v \in Refusals,
               rows' = [rows EXCEPT ![k].status = v, ![k].claim = None]
        PROVE  Contract!Next
    BY <1>1, <1>6, RefuseRejects
  <1> QED
    BY <1>4, <1>5, <1>6

LEMMA StepRefines ==
  ASSUME PracticeInv, [Next]_vars
  PROVE  [Contract!Next]_(Contract!contractVars)
  <1>1. ASSUME NEW c \in Calls, NEW k \in RequestIds, NEW payload \in Payloads,
               Preflight(c, k, payload)
        PROVE  UNCHANGED <<rows, responses, completions>>
    BY <1>1 DEF Preflight, db
  <1>2. ASSUME NEW c \in Calls, Step(c)
        PROVE  [Contract!Next]_(Contract!contractVars)
    <2>1. ASSUME \/ PackUnavailable(c) \/ KeyReused(c) \/ ReplayCached(c) \/ InProgress(c)
                 \/ Recover(c) \/ (\E v \in Statuses : Judged(c, v)) \/ Disconnected(c)
                 \/ CompleteRevoked(c) \/ Compose(c) \/ Replay(c)
          PROVE  UNCHANGED <<rows, responses, completions>>
      BY <2>1 DEF PackUnavailable, KeyReused, ReplayCached, InProgress, Recover, Judged,
                  Disconnected, CompleteRevoked, Compose, Replay, db
    <2> QED
      BY <1>2, <2>1, ContractStutter, ClaimBinds, RefusalsReject, CompleteAccepts, StoreAnswers
         DEF Step
  <1>3. ASSUME NEW c \in Calls, Crash(c)
        PROVE  UNCHANGED <<rows, responses, completions>>
    BY <1>3 DEF Crash, db
  <1>4. ASSUME NEW k \in RequestIds, GrowStale(k)
        PROVE  UNCHANGED <<rows, responses, completions>>
    BY <1>4 DEF GrowStale, db
  <1>5. UNCHANGED vars => UNCHANGED <<rows, responses, completions>>
    BY DEF vars, db
  <1> QED
    BY <1>1, <1>2, <1>3, <1>4, <1>5, ContractStutter DEF Next

\* submit() implements the contract, whatever the interleaving of its calls,
\* their crashes and the revocations of their claims.
THEOREM PracticeRefinesContract == Spec => ImplementsContract
  <1>1. Init => Contract!Init
    BY PracticeAssumption
       DEF Init, Contract!Init, NoRow, NoResponse, Statuses, Refusals
  <1>2. PracticeInv /\ [Next]_vars => [Contract!Next]_(Contract!contractVars)
    BY StepRefines
  <1> QED
    BY <1>1, <1>2, PracticeInvariant, PTL DEF Spec, ImplementsContract, Contract!Spec
=============================================================================
