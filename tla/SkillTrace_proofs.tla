-------------------------- MODULE SkillTrace_proofs --------------------------
(***************************************************************************)
(* Proofs about SkillTrace, for any number of calls, reconcilers, tests,   *)
(* runs and failures.                                                      *)
(*                                                                         *)
(* SkillInv is inductive.  Nothing that a handler relies on is ever taken  *)
(* back: rows stay, results stay, completed attempts stay completed, the   *)
(* trail grows (Grows).  So what a handler has counted stays true, and     *)
(* the one whose decision was recorded is alone to publish it.             *)
(***************************************************************************)
EXTENDS SkillTrace, TLAPS

Publishing == {"report", "badge"}

\* What no step takes back.
Grows ==
  /\ UNCHANGED fixed
  /\ \A j \in Jobs : sub[j] # "none" => sub'[j] # "none"
  /\ \A j \in Jobs : judge[j] \in Results => judge'[j] = judge[j]
  /\ \A c \in Calls : attempts[c] = "completed" => attempts'[c] = "completed"
  /\ trail'.snapshots >= trail.snapshots
  /\ trail'.runs >= trail.runs

\* Calls and handlers are different processes.
LEMMA ProcessesApart ==
  /\ \A c \in Calls : c \in Processes /\ c \notin Handlers /\ c # None
  /\ \A h \in Handlers : h \in Processes /\ h \notin Calls
  /\ Loop \in Handlers
  /\ Reconcilers \subseteq Handlers
  BY SkillAssumption DEF Processes, Handlers

\* A job is a pair of a call and a test.
LEMMA JobPair ==
  /\ \A c \in Calls, i \in 1..MaxTests : <<c, i>> \in Jobs
  /\ \A j \in Jobs : j[1] \in Calls /\ j[2] \in 1..MaxTests /\ j = <<j[1], j[2]>>
  BY DEF Jobs

\* The trail is a pair of numbers, and so it stays.
LEMMA TrailTyped ==
  ASSUME TypeOK
  PROVE  trail.snapshots \in Nat /\ trail.runs \in Nat
  BY DEF TypeOK

\* A call sends at least one test, and no more than there may be.
LEMMA LastTestTyped ==
  ASSUME TypeOK
  PROVE  /\ MaxTests \in Nat
         /\ \A c \in Calls : /\ LastTest(c) \in 1..tests
                           /\ LastTest(c) \in 1..MaxTests
                           /\ 1..LastTest(c) \subseteq 1..MaxTests
                           /\ next[c] \in 1..MaxTests
  BY SkillAssumption DEF TypeOK, LastTest

-----------------------------------------------------------------------------
(* Frames: what a part of the invariant needs of a step to survive it. *)

\* A call that rests, or ends, keeps its promises if nothing is sent for it.
LEMMA CallFrame ==
  ASSUME NEW c \in Calls, CallSound(c), UNCHANGED fixed,
         pc'[c] = pc[c] \/ pc'[c] \in {"end", "expire"},
         next'[c] = next[c],
         attempts[c] = "none" <=> attempts'[c] = "none",
         \A i \in 1..MaxTests : /\ judge[<<c, i>>] = "none" => judge'[<<c, i>>] = "none"
                                /\ sub[<<c, i>>] = "none" => sub'[<<c, i>>] = "none"
  PROVE  CallSound(c)'
  BY DEF CallSound, fixed, LastTest

LEMMA CountedStays ==
  ASSUME TypeOK, TypeOK', Grows, NEW c \in Calls,
         NEW d, d.passed \subseteq 1..MaxTests, Counted(c, d)
  PROVE  Counted(c, d)'
  BY JobPair DEF Counted, Grows, Results

LEMMA SupportStays ==
  ASSUME TypeOK, TypeOK', Grows, NEW label, Supported(label)
  PROVE  Supported(label)'
  BY TrailTyped DEF Supported, Grows, TypeOK

\* A handler that rests while nobody else publishes keeps its promises.
LEMMA HandlerFrame ==
  ASSUME TypeOK, TypeOK', Grows, NEW h \in Handlers, HandlerSound(h),
         pc'[h] = pc[h], work'[h] = work[h], draft'[h] = draft[h], todo'[h] \subseteq todo[h],
         pc[h] \in Publishing =>
           /\ UNCHANGED <<decision, report, badge>>
           /\ \A g \in Handlers : pc'[g] \in Publishing => pc[g] \in Publishing
  PROVE  HandlerSound(h)'
  <1>1. todo[h] \subseteq Jobs /\ todo'[h] \subseteq Jobs
    BY DEF TypeOK
  <1>2. \A j \in todo'[h] : sub'[j] # "none"
    BY <1>1 DEF Grows, HandlerSound
  <1>3. pc[h] \in {"record", "check", "complete", "decide", "report", "badge"} =>
          work[h] \in Jobs /\ sub'[work[h]] # "none" /\ work[h][1] \in Calls
    BY JobPair DEF Grows, HandlerSound
  <1>4. pc[h] = "record" => judge'[work[h]] \in Results
    BY DEF Grows, HandlerSound
  <1>5. pc[h] \in {"complete", "decide", "report", "badge"} => Counted(Attempt(h), draft[h])'
    <2> SUFFICES ASSUME pc[h] \in {"complete", "decide", "report", "badge"}
                 PROVE  Counted(Attempt(h), draft[h])'
      OBVIOUS
    <2>1. PICK c \in Calls : c = Attempt(h)
      BY <1>3 DEF Attempt
    <2>2. PICK d : d = draft[h]
      OBVIOUS
    <2>3. d.passed \subseteq 1..MaxTests
      BY <2>2 DEF TypeOK
    <2>4. Counted(c, d)
      BY <2>1, <2>2 DEF HandlerSound
    <2>5. Counted(c, d)'
      BY <2>3, <2>4, CountedStays
    <2>6. Attempt(h)' = c /\ draft'[h] = d
      BY <2>1, <2>2 DEF Attempt
    <2> QED
      BY <2>5, <2>6 DEF Counted
  <1>6. pc[h] \in {"decide", "report", "badge"} =>
          /\ op'[Attempt(h)'] = "submit"
          /\ attempts'[Attempt(h)'] = "completed"
          /\ draft'[h].label \in AllowedLabels
          /\ Supported(draft[h].label)'
    <2> SUFFICES ASSUME pc[h] \in {"decide", "report", "badge"}
                 PROVE  /\ op'[Attempt(h)'] = "submit"
                        /\ attempts'[Attempt(h)'] = "completed"
                        /\ draft'[h].label \in AllowedLabels
                        /\ Supported(draft[h].label)'
      OBVIOUS
    <2>1. Attempt(h)' = Attempt(h) /\ Attempt(h) \in Calls
      BY <1>3 DEF Attempt
    <2>2. PICK label : label = draft[h].label
      OBVIOUS
    <2>3. Supported(label)'
      BY <2>2, SupportStays DEF HandlerSound
    <2>4. Supported(draft[h].label)'
      BY <2>2, <2>3 DEF Supported
    <2> QED
      BY <2>1, <2>4 DEF HandlerSound, Grows, fixed
  <1>7. pc[h] \in Publishing =>
          /\ decision' = Decided(h)'
          /\ ~ badge'
          /\ \A g \in Handlers : pc'[g] \in Publishing => g = h
    BY DEF HandlerSound, Publishing, Decided, Attempt, Verdict
  <1>8. /\ pc[h] = "report" => ~ report'
        /\ pc[h] = "badge" => report' /\ decision'.verdict = "issued"
    BY DEF HandlerSound, Publishing
  <1> QED
    BY <1>2, <1>3, <1>4, <1>5, <1>6, <1>7, <1>8 DEF HandlerSound, Publishing

\* A handler without a submission has nothing to keep but its rows.
LEMMA HandlerFree ==
  ASSUME TypeOK, TypeOK', Grows, NEW h \in Handlers, HandlerSound(h),
         pc'[h] \in {"idle", "poll"}, todo'[h] \subseteq todo[h]
  PROVE  HandlerSound(h)'
  <1>1. todo[h] \subseteq Jobs
    BY DEF TypeOK
  <1>2. \A j \in todo'[h] : sub'[j] # "none"
    BY <1>1 DEF Grows, HandlerSound
  <1> QED
    BY <1>2 DEF HandlerSound

LEMMA DecisionFrame ==
  ASSUME TypeOK, TypeOK', Grows, DecisionSound, UNCHANGED <<decision, report, badge>>,
         status' = "completed" => status = "completed"
  PROVE  DecisionSound'
  <1>1. decision # NoDecision => \A i \in decision.graded : <<decision.attempt, i>> \in Jobs
    BY JobPair DEF DecisionSound
  <1>2. decision # NoDecision /\ decision.verdict = "issued" =>
          \A i \in decision.graded : judge'[<<decision.attempt, i>>] = "passed"
    BY <1>1 DEF DecisionSound, Grows, Results
  <1>3. decision # NoDecision /\ decision.verdict = "issued" =>
          trail'.snapshots >= 2 /\ trail'.runs >= 1
    BY TrailTyped DEF DecisionSound, Grows, TypeOK
  <1> QED
    BY <1>2, <1>3 DEF DecisionSound, Grows, fixed, NoDecision

\* Nobody is left behind by a step that adds no result and takes no handler away.
LEMMA BehindFrame ==
  ASSUME NoneLeftBehind, UNCHANGED <<fixed, failures>>,
         \A c \in Calls :
           attempts'[c] = "pending" /\ (\A i \in 1..LastTest(c) : sub'[<<c, i>>] \in Results)
             => attempts[c] = "pending" /\ \A i \in 1..LastTest(c) : sub[<<c, i>>] \in Results,
         \A h \in Handlers : pc[h] \in {"check", "complete"}
           => pc'[h] \in {"check", "complete"} /\ work'[h] = work[h]
  PROVE  NoneLeftBehind'
  BY DEF NoneLeftBehind, LastTest, fixed, Attempt

\* A step of call c alone keeps the invariant if it keeps what is said of c.
LEMMA CallStepFrame ==
  ASSUME SkillInv, TypeOK', Grows, NEW c \in Calls, CallSound(c)', ResultsSound',
         UNCHANGED <<work, todo, draft, decision, report, badge>>,
         failures' = failures \/ failures' = failures + 1,
         status' = "completed" => status = "completed",
         \A p \in Processes : p # c => pc'[p] = pc[p],
         \A d \in Calls : d # c => next'[d] = next[d] /\ attempts'[d] = attempts[d],
         \A d \in Calls, i \in 1..MaxTests : d # c =>
           judge'[<<d, i>>] = judge[<<d, i>>] /\ sub'[<<d, i>>] = sub[<<d, i>>],
         failures' = failures /\ attempts'[c] = "pending" => \/ sub'[<<c, LastTest(c)>>] \notin Results
                                    \/ UNCHANGED <<attempts, sub>>
  PROVE  SkillInv'
  <1> USE DEF SkillInv
  <1>1. \A d \in Calls : CallSound(d)'
    <2> SUFFICES ASSUME NEW d \in Calls, d # c PROVE CallSound(d)'
      OBVIOUS
    <2> QED
      BY CallFrame, ProcessesApart DEF Grows
  <1>2. \A h \in Handlers : HandlerSound(h)'
    <2> SUFFICES ASSUME NEW h \in Handlers PROVE HandlerSound(h)'
      OBVIOUS
    <2>1. \A g \in Handlers : pc'[g] = pc[g]
      BY ProcessesApart
    <2> QED
      BY <2>1, HandlerFrame
  <1>3. DecisionSound'
    BY DecisionFrame
  <1>4. NoneLeftBehind'
    <2>1. CASE failures' = failures + 1
      BY <2>1 DEF NoneLeftBehind, TypeOK
    <2>2. CASE failures' = failures
      <3>1. \A d \in Calls : LastTest(d) \in 1..MaxTests
        BY LastTestTyped
      <3>2. ASSUME NEW d \in Calls, attempts'[d] = "pending",
                   \A i \in 1..LastTest(d) : sub'[<<d, i>>] \in Results
            PROVE  attempts[d] = "pending" /\ \A i \in 1..LastTest(d) : sub[<<d, i>>] \in Results
        <4>1. CASE d = c
          <5>1. sub'[<<c, LastTest(c)>>] \in Results
            BY <3>1, <3>2, <4>1
          <5> QED
            BY <2>2, <3>2, <4>1, <5>1
        <4>2. CASE d # c
          BY LastTestTyped, <3>2, <4>2
        <4> QED
          BY <4>1, <4>2
      <3>3. \A h \in Handlers : pc'[h] = pc[h] /\ work'[h] = work[h]
        BY ProcessesApart
      <3> QED
        BY <2>2, <3>2, <3>3, BehindFrame DEF Grows
    <2> QED
      BY <2>1, <2>2
  <1> QED
    BY <1>1, <1>2, <1>3, <1>4

-----------------------------------------------------------------------------
(* The initial states. *)

LEMMA InitInv == Init => SkillInv
  <1> SUFFICES ASSUME Init PROVE SkillInv
    OBVIOUS
  <1>1. TypeOK
    <2>1. PICK session \in Sessions :
            op = session.plan /\ tests = session.tests /\ trail = session.trail
      BY DEF Init
    <2>2. /\ op \in [Calls -> {"snapshot", "run", "submit"}]
          /\ tests \in 1..MaxTests
          /\ trail \in [snapshots : Nat, runs : Nat]
      BY <2>1, SkillAssumption
    <2>3. NoDraft \in [graded : SUBSET (1..MaxTests), passed : SUBSET (1..MaxTests),
                       label : AllowedLabels \cup {None}]
      BY DEF NoDraft
    <2>4. draft \in [Handlers -> [graded : SUBSET (1..MaxTests), passed : SUBSET (1..MaxTests),
                                 label : AllowedLabels \cup {None}]]
      BY <2>3 DEF Init
    <2>5. next \in [Calls -> 1..MaxTests] /\ failures \in 0..MaxFailures
      BY <2>2, SkillAssumption DEF Init
    <2>6. /\ sub \in [Jobs -> {"none", "submitted"} \cup Results]
          /\ judge \in [Jobs -> {"none", "queued"} \cup Results]
          /\ work \in [Handlers -> Jobs \cup {None}]
          /\ todo \in [Handlers -> SUBSET Jobs]
      BY DEF Init
    <2> QED
      BY <2>2, <2>4, <2>5, <2>6 DEF Init, TypeOK
  <1>2. ASSUME NEW c \in Calls PROVE CallSound(c)
    BY <1>1, JobPair, ProcessesApart DEF Init, CallSound, LastTest, TypeOK
  <1>3. ResultsSound
    BY DEF Init, ResultsSound, Results
  <1>4. ASSUME NEW h \in Handlers PROVE HandlerSound(h)
    BY ProcessesApart DEF Init, HandlerSound
  <1>5. DecisionSound
    BY DEF Init, DecisionSound
  <1>6. NoneLeftBehind
    BY DEF Init, NoneLeftBehind
  <1> QED
    BY <1>1, <1>2, <1>3, <1>4, <1>5, <1>6 DEF SkillInv

-----------------------------------------------------------------------------
(* The steps of a call. *)

LEMMA EnterInv ==
  ASSUME SkillInv, NEW c \in Calls, Enter(c)
  PROVE  SkillInv'
  <1> USE DEF SkillInv, Enter, Goto, tables, fixed
  <1>1. TypeOK'
    BY ProcessesApart DEF TypeOK
  <1>2. Grows
    BY TrailTyped DEF Grows
  <1>3. CallSound(c)'
    BY ProcessesApart DEF CallSound, LastTest, TypeOK
  <1>4. ResultsSound'
    BY DEF ResultsSound
  <1>5. \A p \in Processes : p # c => pc'[p] = pc[p]
    BY DEF TypeOK
  <1> QED
    BY <1>1, <1>2, <1>3, <1>4, <1>5, CallStepFrame

LEMMA ExpireInv ==
  ASSUME SkillInv, NEW c \in Calls, Expire(c)
  PROVE  SkillInv'
  <1> USE DEF SkillInv, Expire, End, Goto, fixed
  <1>1. TypeOK'
    BY ProcessesApart DEF TypeOK
  <1>2. Grows
    BY TrailTyped DEF Grows
  <1>3. CallSound(c)'
    BY ProcessesApart DEF CallSound, LastTest, TypeOK
  <1>4. ResultsSound'
    BY DEF ResultsSound
  <1>5. \A p \in Processes : p # c => pc'[p] = pc[p]
    BY DEF TypeOK
  <1> QED
    BY <1>1, <1>2, <1>3, <1>4, <1>5, CallStepFrame

LEMMA RecordSnapshotInv ==
  ASSUME SkillInv, NEW c \in Calls, RecordSnapshot(c)
  PROVE  SkillInv'
  <1> USE DEF SkillInv, RecordSnapshot, End, Goto, fixed
  <1>1. TypeOK'
    BY ProcessesApart DEF TypeOK
  <1>2. Grows
    BY DEF Grows, TypeOK
  <1>3. CallSound(c)'
    BY ProcessesApart DEF CallSound, LastTest, TypeOK
  <1>4. ResultsSound'
    BY DEF ResultsSound
  <1>5. \A p \in Processes : p # c => pc'[p] = pc[p]
    BY DEF TypeOK
  <1> QED
    BY <1>1, <1>2, <1>3, <1>4, <1>5, CallStepFrame

LEMMA CountRunsInv ==
  ASSUME SkillInv, NEW c \in Calls, CountRuns(c)
  PROVE  SkillInv'
  <1> USE DEF SkillInv, CountRuns, Goto, tables, fixed
  <1>1. TypeOK'
    BY ProcessesApart DEF TypeOK
  <1>2. Grows
    BY TrailTyped DEF Grows
  <1>3. CallSound(c)'
    BY ProcessesApart DEF CallSound, LastTest, TypeOK
  <1>4. ResultsSound'
    BY DEF ResultsSound
  <1>5. \A p \in Processes : p # c => pc'[p] = pc[p]
    BY DEF TypeOK
  <1> QED
    BY <1>1, <1>2, <1>3, <1>4, <1>5, CallStepFrame

\* The attempt that a call makes is its own, and has no row yet.
LEMMA AttemptInv ==
  ASSUME SkillInv, NEW c \in Calls, CreateRun(c) \/ SubmitFinal(c)
  PROVE  SkillInv'
  <1> USE DEF SkillInv, CreateRun, SubmitFinal, Goto, fixed
  <1>1. TypeOK'
    BY ProcessesApart DEF TypeOK
  <1>2. attempts[c] = "none" /\ attempts' = [attempts EXCEPT ![c] = "pending"]
    BY DEF CallSound
  <1>3. Grows
    <2>1. \A d \in Calls : attempts[d] = "completed" => attempts'[d] = "completed"
      BY <1>2 DEF TypeOK
    <2>2. trail' = trail \/ trail' = [trail EXCEPT !.runs = @ + 1]
      OBVIOUS
    <2>3. trail'.snapshots >= trail.snapshots /\ trail'.runs >= trail.runs
      BY <2>2, TrailTyped DEF TypeOK
    <2> QED
      BY <2>1, <2>3 DEF Grows
  <1>4. CallSound(c)'
    <2>1. pc'[c] = "post" /\ attempts'[c] = "pending"
      BY ProcessesApart DEF TypeOK
    <2>2. op[c] # "snapshot"
      BY DEF CallSound
    <2>3. \A i \in 1..MaxTests : sub[<<c, i>>] = "none"
      BY <1>2 DEF CallSound
    <2>4. \A i \in 1..MaxTests : judge[<<c, i>>] = "none"
      BY <1>2 DEF CallSound
    <2> QED
      BY <2>1, <2>2, <2>3, <2>4 DEF CallSound, LastTest
  <1>5. ResultsSound'
    BY DEF ResultsSound
  <1>6. \A p \in Processes : p # c => pc'[p] = pc[p]
    BY DEF TypeOK
  <1>7. \A d \in Calls : d # c => attempts'[d] = attempts[d]
    BY <1>2 DEF TypeOK
  <1>8. sub'[<<c, LastTest(c)>>] \notin Results
    BY <1>2, LastTestTyped DEF CallSound, Results
  <1> QED
    BY <1>1, <1>3, <1>4, <1>5, <1>6, <1>7, <1>8, CallStepFrame

\* The judge hears of a job that has neither a result nor a row.
LEMMA PostInv ==
  ASSUME SkillInv, NEW c \in Calls, Post(c)
  PROVE  SkillInv'
  <1> USE DEF SkillInv, Post, Goto, tables, fixed
  <1>1. PICK n \in 1..MaxTests : n = next[c] /\ <<c, n>> \in Jobs
    BY LastTestTyped, JobPair
  <1>2. judge[<<c, n>>] = "none" /\ sub[<<c, n>>] = "none"
    BY <1>1 DEF CallSound
  <1>3. judge' = [judge EXCEPT ![<<c, n>>] = "queued"]
    BY <1>1
  <1>4. TypeOK'
    BY <1>3, ProcessesApart DEF TypeOK
  <1>5. \A j \in Jobs : j # <<c, n>> => judge'[j] = judge[j]
    BY <1>3 DEF TypeOK
  <1>6. \A d \in Calls, i \in 1..MaxTests : d # c \/ i # n => judge'[<<d, i>>] = judge[<<d, i>>]
    BY <1>5, JobPair
  <1>7. Grows
    BY <1>2, <1>5, TrailTyped DEF Grows, Results
  <1>8. CallSound(c)'
    <2>1. pc'[c] = "track"
      BY ProcessesApart DEF TypeOK
    <2>2. \A i \in 1..MaxTests : i > n => judge'[<<c, i>>] = "none" /\ sub'[<<c, i>>] = "none"
      BY <1>1, <1>6 DEF CallSound
    <2> QED
      BY <1>1, <1>2, <2>1, <2>2 DEF CallSound, LastTest
  <1>9. ResultsSound'
    BY <1>2, <1>5 DEF ResultsSound, Results
  <1>10. \A p \in Processes : p # c => pc'[p] = pc[p]
    BY DEF TypeOK
  <1> QED
    BY <1>4, <1>6, <1>7, <1>8, <1>9, <1>10, CallStepFrame

\* The row of a job is inserted once, and says that the job is not done.
LEMMA TrackInv ==
  ASSUME SkillInv, NEW c \in Calls, Track(c)
  PROVE  SkillInv'
  <1> USE DEF SkillInv, Track, End, Goto, fixed
  <1>1. PICK n \in 1..MaxTests : n = next[c] /\ <<c, n>> \in Jobs
    BY LastTestTyped, JobPair
  <1>2. sub[<<c, n>>] = "none" /\ attempts[c] # "none"
    BY <1>1 DEF CallSound
  <1>3. sub' = [sub EXCEPT ![<<c, n>>] = "submitted"]
    BY <1>1
  <1>4. /\ n = LastTest(c) => pc' = [pc EXCEPT ![c] = "end"] /\ next' = next
        /\ n # LastTest(c) => pc' = [pc EXCEPT ![c] = "post"] /\ next' = [next EXCEPT ![c] = n + 1]
    BY <1>1
  <1>5. n # LastTest(c) => n + 1 \in 1..MaxTests /\ n + 1 <= LastTest(c)
    BY <1>1, LastTestTyped DEF CallSound
  <1>6. TypeOK'
    <2>1. next' \in [Calls -> 1..MaxTests]
      BY <1>4, <1>5 DEF TypeOK
    <2>2. sub' \in [Jobs -> {"none", "submitted"} \cup Results]
      BY <1>3 DEF TypeOK
    <2> QED
      BY <1>4, <2>1, <2>2, ProcessesApart DEF TypeOK
  <1>7. \A j \in Jobs : j # <<c, n>> => sub'[j] = sub[j]
    BY <1>3 DEF TypeOK
  <1>8. sub'[<<c, n>>] = "submitted"
    BY <1>1, <1>3 DEF TypeOK
  <1>9. \A d \in Calls, i \in 1..MaxTests : d # c \/ i # n => sub'[<<d, i>>] = sub[<<d, i>>]
    BY <1>7, JobPair
  <1>10. Grows
    BY <1>7, <1>8, TrailTyped DEF Grows
  <1>11. CallSound(c)'
    <2>1. \A i \in 1..MaxTests : i > n => judge'[<<c, i>>] = "none" /\ sub'[<<c, i>>] = "none"
      BY <1>1, <1>9 DEF CallSound
    <2>2. LastTest(c)' = LastTest(c)
      BY DEF LastTest
    <2>3. CASE n = LastTest(c)
      <3>1. pc'[c] = "end" /\ next'[c] = n
        BY <1>1, <1>4, <2>3, ProcessesApart DEF TypeOK
      <3> QED
        BY <1>1, <1>2, <2>1, <2>2, <3>1 DEF CallSound
    <2>4. CASE n # LastTest(c)
      <3>1. pc'[c] = "post" /\ next'[c] = n + 1
        BY <1>1, <1>4, <2>4, ProcessesApart DEF TypeOK
      <3>2. \A i \in 1..MaxTests : i >= n + 1 => judge'[<<c, i>>] = "none" /\ sub'[<<c, i>>] = "none"
        BY <2>1
      <3> QED
        BY <1>2, <1>5, <2>2, <2>4, <3>1, <3>2 DEF CallSound
    <2> QED
      BY <2>3, <2>4
  <1>12. ResultsSound'
    BY <1>7, <1>8 DEF ResultsSound, Results
  <1>13. \A p \in Processes : p # c => pc'[p] = pc[p]
    BY <1>4 DEF TypeOK
  <1>14. \A d \in Calls : d # c => next'[d] = next[d]
    BY <1>4 DEF TypeOK
  <1>15. sub'[<<c, LastTest(c)>>] \notin Results
    <2>1. LastTest(c) \in 1..MaxTests /\ n <= LastTest(c)
      BY <1>1, LastTestTyped DEF CallSound
    <2>2. LastTest(c) # n => sub[<<c, LastTest(c)>>] = "none"
      BY <1>1, <2>1 DEF CallSound
    <2> QED
      BY <1>8, <1>9, <2>1, <2>2 DEF Results
  <1> QED
    BY <1>6, <1>9, <1>10, <1>11, <1>12, <1>13, <1>14, <1>15, CallStepFrame

LEMMA JudgeInv ==
  ASSUME SkillInv, NEW j \in Jobs, NEW result \in Results, Judge(j, result)
  PROVE  SkillInv'
  <1> USE DEF SkillInv, Judge, tables, locals, fixed
  <1>1. PICK c \in Calls, n \in 1..MaxTests : j = <<c, n>>
    BY JobPair
  <1>2. \A k \in Jobs : k # j => judge'[k] = judge[k]
    BY DEF TypeOK
  <1>3. TypeOK'
    BY DEF TypeOK
  <1>4. Grows
    BY <1>2, TrailTyped DEF Grows, Results
  <1>5. \A d \in Calls, i \in 1..MaxTests : d # c \/ i # n => judge'[<<d, i>>] = judge[<<d, i>>]
    BY <1>1, <1>2, JobPair
  <1>6. \A i \in 1..MaxTests : judge[<<c, i>>] = "none" => judge'[<<c, i>>] = "none"
    BY <1>1, <1>5
  <1>7. CallSound(c)'
    BY <1>6, CallFrame
  <1>8. ResultsSound'
    BY <1>2 DEF ResultsSound, Results
  <1> QED
    BY <1>3, <1>4, <1>5, <1>7, <1>8, CallStepFrame

LEMMA FailCallInv ==
  ASSUME SkillInv, NEW c \in Calls, FailCall(c)
  PROVE  SkillInv'
  <1> USE DEF SkillInv, FailCall, End, Goto, tables, fixed
  <1>1. TypeOK'
    BY ProcessesApart, SkillAssumption DEF TypeOK
  <1>2. Grows
    BY TrailTyped DEF Grows
  <1>3. pc'[c] = "end"
    BY ProcessesApart DEF TypeOK
  <1>4. CallSound(c)'
    BY <1>3, CallFrame
  <1>5. ResultsSound'
    BY DEF ResultsSound
  <1>6. \A p \in Processes : p # c => pc'[p] = pc[p]
    BY DEF TypeOK
  <1> QED
    BY <1>1, <1>2, <1>4, <1>5, <1>6, CallStepFrame

-----------------------------------------------------------------------------
(* The steps of a handler. *)

\* A step of handler h alone keeps the invariant if it keeps what is said of h,
\* of the results, of the decision and of who is left behind, and leaves another
\* handler that publishes alone.
LEMMA HandlerStepFrame ==
  ASSUME SkillInv, TypeOK', Grows, NEW h \in Handlers, HandlerSound(h)',
         ResultsSound', DecisionSound', NoneLeftBehind',
         UNCHANGED <<judge, next>>,
         \A p \in Processes : p # h => pc'[p] = pc[p],
         \A g \in Handlers : g # h =>
           work'[g] = work[g] /\ draft'[g] = draft[g] /\ todo'[g] = todo[g],
         \A g \in Handlers : g # h /\ pc[g] \in Publishing =>
           UNCHANGED <<decision, report, badge>> /\ pc'[h] \notin Publishing,
         \A c \in Calls : attempts[c] = "none" <=> attempts'[c] = "none",
         \A j \in Jobs : sub[j] = "none" => sub'[j] = "none"
  PROVE  SkillInv'
  <1> USE DEF SkillInv
  <1>1. \A c \in Calls : CallSound(c)'
    <2> SUFFICES ASSUME NEW c \in Calls PROVE CallSound(c)'
      OBVIOUS
    <2> QED
      BY CallFrame, ProcessesApart, JobPair DEF Grows
  <1>2. \A g \in Handlers : HandlerSound(g)'
    <2> SUFFICES ASSUME NEW g \in Handlers, g # h PROVE HandlerSound(g)'
      OBVIOUS
    <2>1. \A k \in Handlers : k # h => pc'[k] = pc[k]
      BY ProcessesApart
    <2> QED
      BY <2>1, HandlerFrame
  <1> QED
    BY <1>1, <1>2

\* The tables are not touched by what only moves a handler.
LEMMA HandlerMoveFrame ==
  ASSUME SkillInv, TypeOK', NEW h \in Handlers, HandlerSound(h)',
         UNCHANGED <<tables, judge, fixed, next>>,
         failures' = failures \/ failures' = failures + 1,
         failures' = failures => pc[h] \notin {"check", "complete"},
         pc'[h] \notin Publishing,
         \A p \in Processes : p # h => pc'[p] = pc[p],
         \A g \in Handlers : g # h =>
           work'[g] = work[g] /\ draft'[g] = draft[g] /\ todo'[g] = todo[g]
  PROVE  SkillInv'
  <1> USE DEF SkillInv, tables
  <1>1. Grows
    BY TrailTyped DEF Grows
  <1>2. ResultsSound'
    BY DEF ResultsSound
  <1>3. DecisionSound'
    BY <1>1, DecisionFrame
  <1>4. NoneLeftBehind'
    <2>1. CASE failures' = failures + 1
      BY <2>1 DEF NoneLeftBehind, TypeOK
    <2>2. CASE failures' = failures
      <3>1. \A g \in Handlers : pc[g] \in {"check", "complete"} => pc'[g] = pc[g] /\ work'[g] = work[g]
        BY <2>2, ProcessesApart
      <3> QED
        BY <2>2, <3>1, BehindFrame
    <2> QED
      BY <2>1, <2>2
  <1> QED
    BY <1>1, <1>2, <1>3, <1>4, HandlerStepFrame

LEMMA AbortIs ==
  ASSUME TypeOK, NEW h \in Handlers, Abort(h)
  PROVE  /\ pc'[h] = "idle" /\ todo'[h] = {}
         /\ pc' \in [Processes -> {"idle", "end", "expire", "snapshot", "run", "attempt", "submit",
                                 "post", "track", "poll", "record", "check", "complete", "decide",
                                 "report", "badge"}]
         /\ work' \in [Handlers -> Jobs \cup {None}]
         /\ todo' \in [Handlers -> SUBSET Jobs]
         /\ draft' \in [Handlers -> [graded : SUBSET (1..MaxTests), passed : SUBSET (1..MaxTests),
                                     label : AllowedLabels \cup {None}]]
         /\ \A p \in Processes : p # h => pc'[p] = pc[p]
         /\ \A g \in Handlers : g # h =>
              work'[g] = work[g] /\ draft'[g] = draft[g] /\ todo'[g] = todo[g]
  <1>1. NoDraft \in [graded : SUBSET (1..MaxTests), passed : SUBSET (1..MaxTests),
                     label : AllowedLabels \cup {None}]
    BY DEF NoDraft
  <1> QED
    BY <1>1, ProcessesApart DEF Abort, Goto, TypeOK

LEMMA DoneIs ==
  ASSUME TypeOK, NEW h \in Handlers, Done(h)
  PROVE  /\ pc'[h] \in {"idle", "poll"}
         /\ pc' \in [Processes -> {"idle", "end", "expire", "snapshot", "run", "attempt", "submit",
                                 "post", "track", "poll", "record", "check", "complete", "decide",
                                 "report", "badge"}]
         /\ work' \in [Handlers -> Jobs \cup {None}]
         /\ draft' \in [Handlers -> [graded : SUBSET (1..MaxTests), passed : SUBSET (1..MaxTests),
                                     label : AllowedLabels \cup {None}]]
         /\ \A p \in Processes : p # h => pc'[p] = pc[p]
         /\ \A g \in Handlers : g # h => work'[g] = work[g] /\ draft'[g] = draft[g]
  <1>1. NoDraft \in [graded : SUBSET (1..MaxTests), passed : SUBSET (1..MaxTests),
                     label : AllowedLabels \cup {None}]
    BY DEF NoDraft
  <1>2. PICK l \in {"idle", "poll"} : pc' = [pc EXCEPT ![h] = l]
    BY DEF Done, Goto
  <1> QED
    BY <1>1, <1>2, ProcessesApart DEF Done, TypeOK

LEMMA FailHandlerInv ==
  ASSUME SkillInv, NEW h \in Handlers, FailHandler(h)
  PROVE  SkillInv'
  <1> USE DEF SkillInv, FailHandler
  <1>1. TypeOK'
    BY AbortIs, SkillAssumption DEF TypeOK, tables, fixed
  <1>2. Grows
    BY TrailTyped DEF Grows, tables
  <1>3. HandlerSound(h)'
    BY <1>1, <1>2, AbortIs, HandlerFree
  <1>4. pc'[h] \notin Publishing
    BY AbortIs DEF Publishing
  <1> QED
    BY <1>1, <1>3, <1>4, AbortIs, HandlerMoveFrame

LEMMA DecidedAlreadyInv ==
  ASSUME SkillInv, NEW h \in Handlers, DecidedAlready(h)
  PROVE  SkillInv'
  <1> USE DEF SkillInv, DecidedAlready
  <1>1. TypeOK'
    BY AbortIs DEF TypeOK, tables, fixed
  <1>2. Grows
    BY TrailTyped DEF Grows, tables
  <1>3. HandlerSound(h)'
    BY <1>1, <1>2, AbortIs, HandlerFree
  <1>4. pc'[h] \notin Publishing
    BY AbortIs DEF Publishing
  <1> QED
    BY <1>1, <1>3, <1>4, AbortIs, HandlerMoveFrame

LEMMA CallbackInv ==
  ASSUME SkillInv, NEW j \in Jobs, Callback(j)
  PROVE  SkillInv'
  <1> USE ProcessesApart DEF SkillInv, Callback, Goto
  <1>1. TypeOK'
    BY DEF TypeOK, tables, fixed
  <1>2. pc'[Loop] = "record" /\ work'[Loop] = j /\ todo' = todo
    BY DEF TypeOK
  <1>3. HandlerSound(Loop)'
    BY <1>2 DEF HandlerSound, tables, TypeOK
  <1>4. \A p \in Processes : p # Loop => pc'[p] = pc[p]
    BY DEF TypeOK
  <1>5. \A g \in Handlers : g # Loop =>
          work'[g] = work[g] /\ draft'[g] = draft[g] /\ todo'[g] = todo[g]
    BY DEF TypeOK
  <1>6. pc'[Loop] \notin Publishing
    BY <1>2 DEF Publishing
  <1> QED
    BY <1>1, <1>3, <1>4, <1>5, <1>6, HandlerMoveFrame

LEMMA ScanInv ==
  ASSUME SkillInv, NEW r \in Reconcilers, Scan(r)
  PROVE  SkillInv'
  <1> USE ProcessesApart DEF SkillInv, Scan, Goto
  <1>1. Pending \subseteq Jobs
    BY DEF Pending
  <1>2. TypeOK'
    BY <1>1 DEF TypeOK, tables, fixed
  <1>3. pc'[r] = "poll" /\ todo'[r] = Pending
    BY DEF TypeOK
  <1>4. HandlerSound(r)'
    BY <1>3 DEF HandlerSound, Pending, tables
  <1>5. \A p \in Processes : p # r => pc'[p] = pc[p]
    BY DEF TypeOK
  <1>6. \A g \in Handlers : g # r =>
          work'[g] = work[g] /\ draft'[g] = draft[g] /\ todo'[g] = todo[g]
    BY DEF TypeOK
  <1>7. pc'[r] \notin Publishing
    BY <1>3 DEF Publishing
  <1> QED
    BY <1>2, <1>4, <1>5, <1>6, <1>7, HandlerMoveFrame

LEMMA PollInv ==
  ASSUME SkillInv, NEW r \in Reconcilers, NEW j \in Jobs, Poll(r, j)
  PROVE  SkillInv'
  <1> USE ProcessesApart DEF SkillInv, Poll, Goto
  <1>1. sub[j] # "none"
    BY DEF HandlerSound
  <1>2. PICK l \in {"record", "idle", "poll"} :
          /\ pc' = [pc EXCEPT ![r] = l]
          /\ l = "record" => judge[j] \in Results /\ work' = [work EXCEPT ![r] = j]
          /\ l # "record" => work' = work
    BY DEF TypeOK
  <1>3. TypeOK'
    BY <1>2 DEF TypeOK, tables, fixed
  <1>4. pc'[r] = l /\ todo'[r] = todo[r] \ {j}
    BY <1>2 DEF TypeOK
  <1>5. HandlerSound(r)'
    <2>1. CASE l = "record"
      <3>1. work'[r] = j
        BY <1>2, <2>1 DEF TypeOK
      <3> QED
        BY <1>1, <1>2, <1>4, <2>1, <3>1 DEF HandlerSound, tables
    <2>2. CASE l # "record"
      BY <1>2, <1>4, <2>2 DEF HandlerSound, tables
    <2> QED
      BY <2>1, <2>2
  <1>6. \A p \in Processes : p # r => pc'[p] = pc[p]
    BY <1>2 DEF TypeOK
  <1>7. \A g \in Handlers : g # r =>
          work'[g] = work[g] /\ draft'[g] = draft[g] /\ todo'[g] = todo[g]
    BY <1>2 DEF TypeOK
  <1>8. pc'[r] \notin Publishing
    BY <1>2, <1>4 DEF Publishing
  <1> QED
    BY <1>3, <1>5, <1>6, <1>7, <1>8, HandlerMoveFrame

\* A label is one of those allowed, and the better ones have their trail.
LEMMA LabelIs ==
  ASSUME TypeOK
  PROVE  Label \in AllowedLabels /\ Supported(Label)
  BY TrailTyped DEF Label, AllowedLabels, Supported

\* A decision to issue a badge needs all tests passed and a good label.
LEMMA VerdictIs ==
  ASSUME NEW d
  PROVE  /\ Verdict(d) \in {"issued", "manual_review", "not_issued"}
         /\ Verdict(d) = "issued" => d.passed = d.graded /\ d.label \in {"strong", "sufficient"}
  BY DEF Verdict

\* A result is recorded once and for all, and by a handler that goes on to check.
LEMMA RecordInv ==
  ASSUME SkillInv, NEW h \in Handlers, Record(h)
  PROVE  SkillInv'
  <1> USE DEF SkillInv, Record, Goto, fixed
  <1>1. PICK j \in Jobs : j = work[h] /\ judge[j] \in Results /\ sub[j] # "none"
    BY DEF HandlerSound
  <1>2. sub' = [sub EXCEPT ![j] = judge[j]]
    BY <1>1
  <1>3. sub'[j] = judge[j] /\ \A k \in Jobs : k # j => sub'[k] = sub[k]
    BY <1>2 DEF TypeOK
  <1>4. pc'[h] = "check" /\ \A p \in Processes : p # h => pc'[p] = pc[p]
    BY ProcessesApart DEF TypeOK
  <1>5. TypeOK'
    BY <1>1, <1>2, ProcessesApart DEF TypeOK
  <1>6. Grows
    BY <1>1, <1>3, TrailTyped DEF Grows, Results
  <1>7. HandlerSound(h)'
    <2>1. todo[h] \subseteq Jobs
      BY DEF TypeOK
    <2>2. \A k \in todo'[h] : sub'[k] # "none"
      BY <1>6, <2>1 DEF Grows, HandlerSound
    <2>3. work'[h] \in Jobs /\ sub'[work'[h]] # "none"
      BY <1>1, <1>6 DEF Grows
    <2> QED
      BY <1>4, <2>2, <2>3 DEF HandlerSound
  <1>8. ResultsSound'
    BY <1>1, <1>3 DEF ResultsSound
  <1>9. DecisionSound'
    BY <1>5, <1>6, DecisionFrame
  <1>10. NoneLeftBehind'
    <2> SUFFICES ASSUME failures = 0, NEW c \in Calls, attempts[c] = "pending",
                        \A i \in 1..LastTest(c) : sub'[<<c, i>>] \in Results
                 PROVE  \E g \in Handlers : pc'[g] \in {"check", "complete"} /\ Attempt(g)' = c
      BY DEF NoneLeftBehind, LastTest
    <2>1. CASE j[1] = c
      BY <1>1, <1>4, <2>1 DEF Attempt
    <2>2. CASE j[1] # c
      <3>1. \A i \in 1..LastTest(c) : <<c, i>> \in Jobs /\ <<c, i>> # j
        BY <2>2, JobPair, LastTestTyped
      <3>2. PICK g \in Handlers : pc[g] \in {"check", "complete"} /\ Attempt(g) = c
        BY <1>3, <3>1 DEF NoneLeftBehind
      <3>3. g # h
        BY <3>2
      <3> QED
        BY <1>4, <3>2, <3>3, ProcessesApart DEF Attempt
    <2> QED
      BY <2>1, <2>2
  <1>11. pc'[h] \notin Publishing
    BY <1>4 DEF Publishing
  <1> QED
    BY <1>1, <1>3, <1>4, <1>5, <1>6, <1>7, <1>8, <1>9, <1>10, <1>11, HandlerStepFrame

\* What is counted of an attempt holds; one that is passed over has a result to come.
LEMMA CheckInv ==
  ASSUME SkillInv, NEW h \in Handlers, Check(h)
  PROVE  SkillInv'
  <1> USE DEF SkillInv, Check, fixed
  <1>1. PICK c \in Calls, n \in 1..MaxTests :
          work[h] = <<c, n>> /\ Attempt(h) = c /\ sub[<<c, n>>] # "none"
    BY JobPair DEF HandlerSound, Attempt
  <1>2. \A i \in 1..MaxTests : sub[<<c, i>>] # "none" => i \in 1..LastTest(c)
    BY LastTestTyped DEF CallSound
  <1>3. Tracked(c) \subseteq 1..LastTest(c) /\ n \in Tracked(c) /\ Tracked(c) \subseteq 1..MaxTests
    BY <1>1, <1>2, LastTestTyped, SkillAssumption DEF Tracked, TypeOK
  <1>4. CASE \E i \in Tracked(c) : sub[<<c, i>>] = "submitted"
    <2>1. Done(h)
      BY <1>1, <1>4
    <2>2. TypeOK'
      BY <2>1, DoneIs DEF TypeOK
    <2>3. Grows
      BY TrailTyped DEF Grows
    <2>4. HandlerSound(h)'
      BY <2>1, <2>2, <2>3, DoneIs, HandlerFree
    <2>5. ResultsSound' /\ DecisionSound'
      BY <2>2, <2>3, DecisionFrame DEF ResultsSound
    <2>6. NoneLeftBehind'
      <3> SUFFICES ASSUME failures = 0, NEW d \in Calls, attempts[d] = "pending",
                          \A i \in 1..LastTest(d) : sub[<<d, i>>] \in Results
                   PROVE  \E g \in Handlers : pc'[g] \in {"check", "complete"} /\ Attempt(g)' = d
        BY DEF NoneLeftBehind, LastTest
      <3>1. d # c
        BY <1>3, <1>4 DEF Results
      <3>2. PICK g \in Handlers : pc[g] \in {"check", "complete"} /\ Attempt(g) = d
        BY DEF NoneLeftBehind
      <3>3. g # h
        BY <1>1, <3>1, <3>2
      <3>4. pc'[g] = pc[g] /\ work'[g] = work[g]
        BY <2>1, <3>3, DoneIs, ProcessesApart
      <3> QED
        BY <3>2, <3>4 DEF Attempt
    <2>7. pc'[h] \notin Publishing
      BY <2>1, DoneIs DEF Publishing
    <2> QED
      BY <2>1, <2>2, <2>3, <2>4, <2>5, <2>6, <2>7, DoneIs, HandlerStepFrame
  <1>5. CASE ~ \E i \in Tracked(c) : sub[<<c, i>>] = "submitted"
    <2> DEFINE new == [NoDraft EXCEPT !.graded = Tracked(c),
                                      !.passed = {i \in Tracked(c) : sub[<<c, i>>] = "passed"}]
    <2>1. /\ draft' = [draft EXCEPT ![h] = new]
          /\ pc' = [pc EXCEPT ![h] = "complete"]
          /\ work' = work
      BY <1>1, <1>5 DEF Goto
    <2>2. /\ new.graded = Tracked(c)
          /\ new.passed = {i \in Tracked(c) : sub[<<c, i>>] = "passed"}
          /\ new \in [graded : SUBSET (1..MaxTests), passed : SUBSET (1..MaxTests),
                      label : AllowedLabels \cup {None}]
      BY <1>3 DEF NoDraft
    <2> HIDE DEF new
    <2>3. TypeOK'
      BY <2>1, <2>2, ProcessesApart DEF TypeOK
    <2>4. Grows
      BY TrailTyped DEF Grows
    <2>5. pc'[h] = "complete" /\ draft'[h] = new /\ work'[h] = <<c, n>>
          /\ \A p \in Processes : p # h => pc'[p] = pc[p]
      BY <1>1, <2>1, ProcessesApart DEF TypeOK
    <2>6. HandlerSound(h)'
      <3>1. Attempt(h)' = c
        BY <2>5 DEF Attempt
      <3>2. \A i \in new.passed : judge[<<c, i>>] = "passed"
        BY <1>3, <2>2, JobPair DEF ResultsSound, Results
      <3>3. Counted(Attempt(h), draft[h])'
        BY <1>3, <2>2, <2>5, <3>1, <3>2 DEF Counted
      <3>4. work'[h] \in Jobs /\ sub'[work'[h]] # "none"
        BY <1>1, <2>5, JobPair
      <3> QED
        BY <2>5, <3>3, <3>4 DEF HandlerSound
    <2>7. ResultsSound' /\ DecisionSound'
      BY <2>3, <2>4, DecisionFrame DEF ResultsSound
    <2>8. NoneLeftBehind'
      <3>1. \A g \in Handlers : pc[g] \in {"check", "complete"}
              => pc'[g] \in {"check", "complete"} /\ work'[g] = work[g]
        BY <2>1, <2>5, ProcessesApart
      <3> QED
        BY <3>1, BehindFrame
    <2>9. pc'[h] \notin Publishing
      BY <2>5 DEF Publishing
    <2>10. \A g \in Handlers : g # h =>
             work'[g] = work[g] /\ draft'[g] = draft[g] /\ todo'[g] = todo[g]
      BY <2>1 DEF TypeOK
    <2> QED
      BY <2>3, <2>4, <2>5, <2>6, <2>7, <2>8, <2>9, <2>10, HandlerStepFrame
  <1> QED
    BY <1>4, <1>5

\* An attempt is completed on what was counted; a hidden one is labelled.
LEMMA CompleteInv ==
  ASSUME SkillInv, NEW h \in Handlers, Complete(h)
  PROVE  SkillInv'
  <1> USE DEF SkillInv, Complete, fixed
  <1>1. PICK c \in Calls : c = Attempt(h) /\ work[h] \in Jobs /\ sub[work[h]] # "none"
                         /\ Counted(c, draft[h])
    BY JobPair DEF HandlerSound, Attempt
  <1>2. attempts[c] # "none"
    <2>1. PICK n \in 1..MaxTests : work[h] = <<c, n>>
      BY <1>1, JobPair DEF Attempt
    <2>2. sub[<<c, n>>] # "none" /\ CallSound(c)
      BY <1>1, <2>1
    <2> QED
      BY <2>2 DEF CallSound
  <1>3. attempts' = [attempts EXCEPT ![c] = "completed"]
    BY <1>1
  <1>4. /\ attempts'[c] = "completed"
        /\ \A d \in Calls : d # c => attempts'[d] = attempts[d]
    BY <1>3 DEF TypeOK
  <1>5. Grows
    BY <1>4, TrailTyped DEF Grows
  <1>6. ResultsSound'
    BY DEF ResultsSound
  <1>7. \A d \in Calls : attempts[d] = "none" <=> attempts'[d] = "none"
    BY <1>2, <1>4
  <1>8. ASSUME \A p \in Processes : p # h => pc'[p] = pc[p],
               \A g \in Handlers : g # h => work'[g] = work[g]
        PROVE  NoneLeftBehind'
    <2> SUFFICES ASSUME failures = 0, NEW d \in Calls, attempts'[d] = "pending",
                        \A i \in 1..LastTest(d) : sub[<<d, i>>] \in Results
                 PROVE  \E g \in Handlers : pc'[g] \in {"check", "complete"} /\ Attempt(g)' = d
      BY DEF NoneLeftBehind, LastTest
    <2>1. d # c /\ attempts[d] = "pending"
      BY <1>4
    <2>2. PICK g \in Handlers : pc[g] \in {"check", "complete"} /\ Attempt(g) = d
      BY <2>1 DEF NoneLeftBehind
    <2>3. g # h
      BY <1>1, <2>1, <2>2
    <2>4. pc'[g] = pc[g] /\ work'[g] = work[g]
      BY <1>8, <2>3, ProcessesApart
    <2> QED
      BY <2>2, <2>4 DEF Attempt
  <1>9. CASE op[c] = "run"
    <2>1. Done(h) /\ UNCHANGED todo
      BY <1>1, <1>9
    <2>2. TypeOK'
      BY <1>3, <2>1, DoneIs DEF TypeOK
    <2>3. HandlerSound(h)'
      BY <1>5, <2>1, <2>2, DoneIs, HandlerFree
    <2>4. DecisionSound'
      BY <1>5, <2>2, DecisionFrame
    <2>5. NoneLeftBehind'
      BY <1>8, <2>1, DoneIs
    <2>6. pc'[h] \notin Publishing
      BY <2>1, DoneIs DEF Publishing
    <2> QED
      BY <1>5, <1>6, <1>7, <2>1, <2>2, <2>3, <2>4, <2>5, <2>6, DoneIs, HandlerStepFrame
  <1>10. CASE op[c] # "run"
    <2>1. PICK label : label = Label
      OBVIOUS
    <2>2. label \in AllowedLabels /\ Supported(label)
      BY <2>1, LabelIs
    <2>3. /\ draft' = [draft EXCEPT ![h].label = label]
          /\ pc' = [pc EXCEPT ![h] = "decide"]
          /\ work' = work
      BY <1>1, <1>10, <2>1 DEF Goto
    <2>4. /\ draft'[h].graded = draft[h].graded
          /\ draft'[h].passed = draft[h].passed
          /\ draft'[h].label = label
          /\ draft' \in [Handlers -> [graded : SUBSET (1..MaxTests), passed : SUBSET (1..MaxTests),
                                      label : AllowedLabels \cup {None}]]
      <3> DEFINE row == [draft[h] EXCEPT !.label = label]
      <3>1. draft \in [Handlers -> [graded : SUBSET (1..MaxTests), passed : SUBSET (1..MaxTests),
                                    label : AllowedLabels \cup {None}]]
        BY DEF TypeOK
      <3>2. /\ row \in [graded : SUBSET (1..MaxTests), passed : SUBSET (1..MaxTests),
                         label : AllowedLabels \cup {None}]
            /\ row.graded = draft[h].graded /\ row.passed = draft[h].passed /\ row.label = label
        BY <2>2, <3>1
      <3>3. draft' = [draft EXCEPT ![h] = row]
        BY <2>3, <3>1
      <3> HIDE DEF row
      <3> QED
        BY <3>1, <3>2, <3>3
    <2>5. TypeOK'
      BY <1>3, <2>3, <2>4, ProcessesApart DEF TypeOK
    <2>6. pc'[h] = "decide" /\ \A p \in Processes : p # h => pc'[p] = pc[p]
      BY <2>3, ProcessesApart DEF TypeOK
    <2>7. HandlerSound(h)'
      <3>1. Attempt(h)' = c /\ work'[h] = work[h]
        BY <1>1, <2>3 DEF Attempt
      <3>2. Counted(Attempt(h), draft[h])'
        BY <1>1, <2>4, <3>1 DEF Counted
      <3>3. Supported(draft[h].label)'
        BY <2>2, <2>4 DEF Supported
      <3>4. op[c] = "submit"
        BY <1>2, <1>10 DEF CallSound, TypeOK
      <3>5. \A j \in todo'[h] : sub'[j] # "none"
        BY DEF HandlerSound
      <3> QED
        BY <1>1, <1>4, <2>2, <2>4, <2>6, <3>1, <3>2, <3>3, <3>4, <3>5 DEF HandlerSound
    <2>8. DecisionSound'
      BY <1>5, <2>5, DecisionFrame
    <2>9. NoneLeftBehind'
      BY <1>8, <2>3, <2>6
    <2>10. pc'[h] \notin Publishing
      BY <2>6 DEF Publishing
    <2>11. \A g \in Handlers : g # h =>
             work'[g] = work[g] /\ draft'[g] = draft[g] /\ todo'[g] = todo[g]
      BY <2>3 DEF TypeOK
    <2> QED
      BY <1>5, <1>6, <1>7, <2>5, <2>6, <2>7, <2>8, <2>9, <2>10, <2>11, HandlerStepFrame
  <1> QED
    BY <1>9, <1>10

\* Whoever holds the right to publish has had its decision recorded.
LEMMA PublisherDecided ==
  ASSUME SkillInv, NEW g \in Handlers, pc[g] \in Publishing
  PROVE  decision # NoDecision
  <1>1. decision.attempt \in Calls
    BY JobPair DEF SkillInv, HandlerSound, Publishing, Decided, Attempt
  <1> QED
    BY <1>1, ProcessesApart DEF NoDecision

\* The first decision gives its handler, alone, the right to publish it.
LEMMA DecideInv ==
  ASSUME SkillInv, NEW h \in Handlers, Decide(h)
  PROVE  SkillInv'
  <1> USE DEF SkillInv, Decide, Goto, fixed
  <1>1. PICK c \in Calls : c = Attempt(h) /\ work[h] \in Jobs /\ sub[work[h]] # "none"
    BY JobPair DEF HandlerSound, Attempt
  <1>2. PICK d : d = draft[h]
    OBVIOUS
  <1>3. /\ Counted(c, d) /\ Supported(d.label)
        /\ op[c] = "submit" /\ attempts[c] = "completed" /\ d.label \in AllowedLabels
    BY <1>1, <1>2 DEF HandlerSound
  <1>4. decision' = [verdict |-> Verdict(d), attempt |-> c, graded |-> d.graded, label |-> d.label]
    BY <1>1, <1>2
  <1>5. TypeOK'
    BY ProcessesApart DEF TypeOK
  <1>6. Grows
    BY TrailTyped DEF Grows
  <1>7. pc'[h] = "report" /\ \A p \in Processes : p # h => pc'[p] = pc[p]
    BY ProcessesApart DEF TypeOK
  <1>8. \A g \in Handlers : pc[g] \notin Publishing
    BY PublisherDecided
  <1>9. ~ report /\ ~ badge
    BY DEF DecisionSound
  <1>10. HandlerSound(h)'
    <2>1. Attempt(h)' = c /\ draft'[h] = d
      BY <1>1, <1>2 DEF Attempt
    <2>2. Counted(Attempt(h), draft[h])' /\ Supported(draft[h].label)'
      BY <1>3, <2>1 DEF Counted, Supported
    <2>3. decision' = Decided(h)'
      <3>1. Verdict(d) = Verdict(draft[h])'
        BY <2>1 DEF Verdict
      <3> QED
        BY <1>4, <2>1, <3>1 DEF Decided
    <2>4. \A g \in Handlers : pc'[g] \in {"report", "badge"} => g = h
      BY <1>7, <1>8, ProcessesApart DEF Publishing
    <2>5. \A j \in todo'[h] : sub'[j] # "none"
      BY DEF HandlerSound
    <2> QED
      BY <1>1, <1>3, <1>7, <1>9, <2>1, <2>2, <2>3, <2>4, <2>5 DEF HandlerSound
  <1>11. ResultsSound'
    BY DEF ResultsSound
  <1>12. DecisionSound'
    <2>1. d.graded \subseteq 1..MaxTests /\ d.graded # {}
      BY <1>2, <1>3 DEF TypeOK, Counted
    <2>2. Verdict(d) = "issued" =>
            /\ \A i \in d.graded : judge[<<c, i>>] = "passed"
            /\ trail.snapshots >= 2 /\ trail.runs >= 1
      BY <1>3, VerdictIs DEF Counted, Supported
    <2>3. PICK v \in {"issued", "manual_review", "not_issued"} : v = Verdict(d)
      BY VerdictIs
    <2>4. decision' # NoDecision
      BY <1>4, ProcessesApart DEF NoDecision
    <2> QED
      BY <1>3, <1>4, <1>9, <2>1, <2>2, <2>3, <2>4 DEF DecisionSound
  <1>13. NoneLeftBehind'
    BY <1>7, ProcessesApart, BehindFrame
  <1> QED
    BY <1>5, <1>6, <1>7, <1>8, <1>10, <1>11, <1>12, <1>13, HandlerStepFrame

\* The report is written once, by the handler that decided.
LEMMA ReportInv ==
  ASSUME SkillInv, NEW h \in Handlers, Report(h)
  PROVE  SkillInv'
  <1> USE DEF SkillInv, Report, fixed
  <1>1. pc[h] \in Publishing /\ \A g \in Handlers : pc[g] \in Publishing => g = h
    BY DEF HandlerSound, Publishing
  <1>2. decision # NoDecision /\ ~ badge /\ decision = Decided(h)
    BY <1>1, PublisherDecided DEF HandlerSound, Publishing
  <1>3. Grows
    BY TrailTyped DEF Grows
  <1>4. ResultsSound'
    BY DEF ResultsSound
  <1>5. ASSUME TypeOK' PROVE DecisionSound'
    BY <1>2 DEF DecisionSound
  <1>6. ASSUME \A p \in Processes : p # h => pc'[p] = pc[p],
               \A g \in Handlers : g # h => work'[g] = work[g]
        PROVE  NoneLeftBehind'
    <2>1. \A g \in Handlers : pc[g] \in {"check", "complete"}
            => pc'[g] \in {"check", "complete"} /\ work'[g] = work[g]
      BY <1>6, ProcessesApart
    <2> QED
      BY <2>1, BehindFrame
  <1>7. CASE Verdict(draft[h]) = "issued"
    <2>1. pc' = [pc EXCEPT ![h] = "badge"] /\ UNCHANGED <<draft, work>>
      BY <1>7 DEF Goto
    <2>2. TypeOK'
      BY <2>1, ProcessesApart DEF TypeOK
    <2>3. pc'[h] = "badge" /\ \A p \in Processes : p # h => pc'[p] = pc[p]
      BY <2>1, ProcessesApart DEF TypeOK
    <2>4. HandlerSound(h)'
      <3>1. Attempt(h)' = Attempt(h)
        BY <2>1 DEF Attempt
      <3>2. Counted(Attempt(h), draft[h])' /\ Supported(draft[h].label)'
        BY <2>1, <3>1 DEF HandlerSound, Counted, Supported
      <3>3. Verdict(draft[h])' = Verdict(draft[h])
        BY <2>1 DEF Verdict
      <3>4. decision' = Decided(h)' /\ decision'.verdict = "issued"
        BY <1>2, <1>7, <2>1, <3>1, <3>3 DEF Decided
      <3>5. \A g \in Handlers : pc'[g] \in {"report", "badge"} => g = h
        BY <1>1, <2>3, ProcessesApart DEF Publishing
      <3> QED
        BY <1>2, <2>1, <2>3, <3>1, <3>2, <3>4, <3>5 DEF HandlerSound
    <2>5. DecisionSound' /\ NoneLeftBehind'
      BY <1>5, <1>6, <2>1, <2>2, <2>3
    <2> QED
      BY <1>1, <1>3, <1>4, <2>1, <2>2, <2>3, <2>4, <2>5, HandlerStepFrame
  <1>8. CASE Verdict(draft[h]) # "issued"
    <2>1. Done(h)
      BY <1>8
    <2>2. TypeOK'
      BY <2>1, DoneIs DEF TypeOK
    <2>3. HandlerSound(h)'
      BY <1>3, <2>1, <2>2, DoneIs, HandlerFree
    <2>4. DecisionSound' /\ NoneLeftBehind'
      BY <1>5, <1>6, <2>1, <2>2, DoneIs
    <2> QED
      BY <1>1, <1>3, <1>4, <2>1, <2>2, <2>3, <2>4, DoneIs, HandlerStepFrame
  <1> QED
    BY <1>7, <1>8

\* The badge follows a decision to issue it.
LEMMA IssueBadgeInv ==
  ASSUME SkillInv, NEW h \in Handlers, IssueBadge(h)
  PROVE  SkillInv'
  <1> USE DEF SkillInv, IssueBadge, fixed
  <1>1. pc[h] \in Publishing /\ \A g \in Handlers : pc[g] \in Publishing => g = h
    BY DEF HandlerSound, Publishing
  <1>2. decision # NoDecision /\ report /\ decision.verdict = "issued"
    BY <1>1, PublisherDecided DEF HandlerSound
  <1>3. TypeOK'
    BY DoneIs DEF TypeOK
  <1>4. Grows
    BY TrailTyped DEF Grows
  <1>5. HandlerSound(h)'
    BY <1>3, <1>4, DoneIs, HandlerFree
  <1>6. ResultsSound'
    BY DEF ResultsSound
  <1>7. DecisionSound'
    BY <1>2 DEF DecisionSound
  <1>8. NoneLeftBehind'
    <2>1. \A g \in Handlers : pc[g] \in {"check", "complete"}
            => pc'[g] \in {"check", "complete"} /\ work'[g] = work[g]
      BY DoneIs, ProcessesApart
    <2> QED
      BY <2>1, BehindFrame
  <1> QED
    BY <1>1, <1>3, <1>4, <1>5, <1>6, <1>7, <1>8, DoneIs, HandlerStepFrame

\* A restart loses what is in service, and no row.
LEMMA RestartInv ==
  ASSUME SkillInv, Restart
  PROVE  SkillInv'
  <1> USE DEF SkillInv, Restart, tables, fixed
  <1>1. /\ \A h \in Handlers : pc'[h] = "idle" /\ todo'[h] = {}
        /\ \A c \in Calls : pc'[c] = pc[c] \/ pc'[c] = "end"
    BY ProcessesApart DEF TypeOK
  <1>2. NoDraft \in [graded : SUBSET (1..MaxTests), passed : SUBSET (1..MaxTests),
                     label : AllowedLabels \cup {None}]
    BY DEF NoDraft
  <1>3. TypeOK'
    BY <1>2, SkillAssumption DEF TypeOK
  <1>4. Grows
    BY TrailTyped DEF Grows
  <1>5. \A c \in Calls : CallSound(c)'
    BY <1>1, CallFrame
  <1>6. \A h \in Handlers : HandlerSound(h)'
    BY <1>1, <1>3, <1>4, HandlerFree
  <1>7. ResultsSound' /\ DecisionSound'
    BY <1>3, <1>4, DecisionFrame DEF ResultsSound
  <1>8. NoneLeftBehind'
    BY DEF NoneLeftBehind, TypeOK
  <1> QED
    BY <1>3, <1>5, <1>6, <1>7, <1>8

LEMMA NextInv == SkillInv /\ [Next]_vars => SkillInv'
  <1> SUFFICES ASSUME SkillInv, [Next]_vars PROVE SkillInv'
    OBVIOUS
  <1>1. CASE UNCHANGED vars
    BY <1>1 DEF SkillInv, TypeOK, CallSound, ResultsSound, HandlerSound, DecisionSound,
                NoneLeftBehind, vars, tables, locals, fixed, LastTest, Counted, Supported,
                Decided, Attempt, Verdict
  <1>2. CASE Next
    <2>1. ASSUME NEW c \in Calls, Enter(c) \/ CallStep(c) \/ FailCall(c)
          PROVE  SkillInv'
      BY <2>1, EnterInv, ExpireInv, RecordSnapshotInv, CountRunsInv, AttemptInv, PostInv,
         TrackInv, FailCallInv DEF CallStep
    <2>2. ASSUME NEW j \in Jobs, (\E result \in Results : Judge(j, result)) \/ Callback(j)
          PROVE  SkillInv'
      BY <2>2, JudgeInv, CallbackInv
    <2>3. ASSUME NEW h \in Handlers, HandlerStep(h) \/ FailHandler(h)
          PROVE  SkillInv'
      BY <2>3, RecordInv, CheckInv, CompleteInv, DecideInv, DecidedAlreadyInv, ReportInv,
         IssueBadgeInv, FailHandlerInv DEF HandlerStep
    <2>4. ASSUME NEW r \in Reconcilers, Reconcile(r)
          PROVE  SkillInv'
      BY <2>4, ScanInv, PollInv DEF Reconcile
    <2> QED
      BY <1>2, <2>1, <2>2, <2>3, <2>4, RestartInv DEF Next
  <1> QED
    BY <1>1, <1>2

-----------------------------------------------------------------------------
(* The theorems. *)

\* What holds at every step of every session.
THEOREM SkillInvariant == Spec => []SkillInv
  BY InitInv, NextInv, PTL DEF Spec

\* A badge stands for a decision made on passed tests and a sufficient trail.
THEOREM SkillBadgeEarned == Spec => []BadgeEarned
  <1>1. SkillInv => BadgeEarned
    BY DEF SkillInv, DecisionSound, BadgeEarned, NoDecision
  <1> QED
    BY <1>1, SkillInvariant, PTL

\* A completed session has its decision, made on a completed attempt.
THEOREM SkillCompletedIsDecided == Spec => []CompletedIsDecided
  <1>1. SkillInv => CompletedIsDecided
    BY DEF SkillInv, DecisionSound, CompletedIsDecided
  <1> QED
    BY <1>1, SkillInvariant, PTL

\* The report and the badge are inserted once.
THEOREM SkillPublishedOnce == Spec => []PublishedOnce
  <1>1. SkillInv => PublishedOnce
    BY DEF SkillInv, HandlerSound, PublishedOnce
  <1> QED
    BY <1>1, SkillInvariant, PTL

\* Unless something failed, the last result of an attempt is in good hands.
THEOREM SkillNoneLeftBehind == Spec => []NoneLeftBehind
  BY SkillInvariant, PTL DEF SkillInv

\* A step of the session that touches the outcome is a step of the contract.
LEMMA NextRefines ==
  ASSUME SkillInv, [Next]_vars
  PROVE  [Contract!Next]_<<decision.verdict, report, badge>>
  <1>1. ASSUME NEW h \in Handlers, Decide(h)
        PROVE  Contract!Decide
    BY <1>1, VerdictIs DEF Decide, Contract!Decide, Contract!Verdicts, NoDecision
  <1>2. ASSUME NEW h \in Handlers, Report(h)
        PROVE  Contract!Report
    <2>1. decision # NoDecision
      BY <1>2, PublisherDecided DEF Report, Publishing
    <2>2. decision.verdict # None
      BY <2>1, SkillAssumption DEF SkillInv, DecisionSound
    <2> QED
      BY <1>2, <2>2 DEF Report, Contract!Report
  <1>3. ASSUME NEW h \in Handlers, IssueBadge(h)
        PROVE  Contract!Issue
    BY <1>3 DEF IssueBadge, Contract!Issue, SkillInv, HandlerSound
  <1>4. \/ UNCHANGED <<decision, report, badge>>
        \/ \E h \in Handlers : Decide(h) \/ Report(h) \/ IssueBadge(h)
    BY DEF Next, CallStep, HandlerStep, Reconcile, vars, tables, Enter, Expire, RecordSnapshot,
           CountRuns, CreateRun, SubmitFinal, Post, Track, FailCall, Judge, Callback, Record,
           Check, Complete, DecidedAlready, FailHandler, Scan, Poll, Restart
  <1> QED
    BY <1>1, <1>2, <1>3, <1>4 DEF Contract!Next

\* The outcome of a session follows its contract.
THEOREM SkillImplementsContract == Spec => ImplementsContract
  <1>1. Init => Contract!Init
    BY DEF Init, Contract!Init, NoDecision
  <1>2. SkillInv /\ [Next]_vars => [Contract!Next]_<<decision.verdict, report, badge>>
    BY NextRefines
  <1> QED
    BY <1>1, <1>2, SkillInvariant, PTL
    DEF Spec, ImplementsContract, Contract!Spec, Contract!outcome
=============================================================================
