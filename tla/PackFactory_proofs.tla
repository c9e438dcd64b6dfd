-------------------------- MODULE PackFactory_proofs --------------------------
(***************************************************************************)
(* Proofs about PackFactory, for any problems, packs, workers, activations *)
(* and seeders.  Packs are changed by Activated and Stored only, jobs by   *)
(* four steps, and each thread has its own locals: a lemma for each.       *)
(***************************************************************************)
EXTENDS PackFactory, FiniteSetTheorems, TLAPS

Packs == [Problems -> [Kinds -> {"absent", "stored", "active"}]]
JobsSound == job \in [Problems -> Jobs] /\ LeasedIffProcessing

\* OneActive, without its cardinality.
Single == \A p \in Problems, k, l \in Kinds : pack[p][k] = "active" /\ pack[p][l] = "active" => k = l

\* InHandSound and the types of its variables, of one thread.
Labels == {"idle", "select", "claim", "build", "upsert", "complete", "write",
           "generate", "compare", "store", "look", "insert"}
Holding == {"upsert", "complete", "write", "compare", "store"}
ThreadSound(t) ==
  /\ pc[t] \in Labels
  /\ todo[t] \subseteq Problems
  /\ outcome[t] \in {"none"} \cup Ended
  /\ pc[t] \notin {"idle", "select"} => todo[t] # {}
  /\ outcome[t] # "none" <=> pc[t] \in Holding
  /\ outcome[t] = "active" => InHand(t) \notin Reviewed

LocalsAreFunctions ==
  /\ pc = [t \in Threads |-> pc[t]]
  /\ todo = [t \in Threads |-> todo[t]]
  /\ outcome = [t \in Threads |-> outcome[t]]

\* PackInv, regrouped.
Parts ==
  /\ catalog \subseteq Problems
  /\ pack \in Packs /\ Single /\ FailClosed
  /\ JobsSound
  /\ LocalsAreFunctions /\ \A t \in Threads : ThreadSound(t)
  /\ lapses \in 0..MaxLapses /\ lost \in 0..MaxLost

LEMMA SingleIsOne ==
  ASSUME pack \in Packs
  PROVE Single <=> OneActive
<1>1. \A p \in Problems : Active(p) \subseteq Kinds
  BY DEF Active
<1>2. IsFiniteSet(Kinds)
  <2>1. Kinds = {"builtin"} \cup {"auto"}
    BY DEF Kinds
  <2> QED BY <2>1, FS_Singleton, FS_Union
<1>3. ASSUME NEW p \in Problems
      PROVE Cardinality(Active(p)) <= 1 <=>
              \A k, l \in Kinds : pack[p][k] = "active" /\ pack[p][l] = "active" => k = l
  <2>1. IsFiniteSet(Active(p)) /\ Cardinality(Active(p)) \in Nat
    BY <1>1, <1>2, FS_Subset, FS_CardinalityType
  <2>2. Active(p) = {} <=> Cardinality(Active(p)) = 0
    BY <2>1, FS_EmptySet
  <2>3. Cardinality(Active(p)) = 1 <=> \E x : Active(p) = {x}
    BY <2>1, FS_Singleton
  <2>4. Cardinality(Active(p)) <= 1 <=> Active(p) = {} \/ \E x : Active(p) = {x}
    BY <2>1, <2>2, <2>3
  <2>5. Active(p) = {} \/ (\E x : Active(p) = {x}) <=>
          \A k, l \in Active(p) : k = l
    OBVIOUS
  <2> QED BY <2>4, <2>5 DEF Active
<1> QED BY <1>3 DEF Single, OneActive

LEMMA PartsAreAll == Parts <=> PackInv
<1> DEFINE Typed == /\ catalog \subseteq Problems
                    /\ pack \in Packs
                    /\ job \in [Problems -> Jobs]
                    /\ lapses \in 0..MaxLapses /\ lost \in 0..MaxLost
           ThreadTyped(t) == /\ pc[t] \in Labels
                             /\ todo[t] \subseteq Problems
                             /\ outcome[t] \in {"none"} \cup Ended
           ThreadInHand(t) ==
             /\ pc[t] \notin {"idle", "select"} => todo[t] # {}
             /\ outcome[t] # "none" <=> pc[t] \in Holding
             /\ outcome[t] = "active" => InHand(t) \notin Reviewed
<1>1. TypeOK <=> Typed /\ LocalsAreFunctions /\ \A t \in Threads : ThreadTyped(t)
  BY DEF TypeOK, Packs, LocalsAreFunctions, Labels
<1>2. InHandSound <=> \A t \in Threads : ThreadInHand(t)
  BY DEF InHandSound, Holding
<1>3. \A t \in Threads : ThreadSound(t) <=> ThreadTyped(t) /\ ThreadInHand(t)
  BY DEF ThreadSound
<1>4. Parts <=> /\ Typed /\ Single /\ FailClosed /\ LeasedIffProcessing
                /\ LocalsAreFunctions /\ \A t \in Threads : ThreadSound(t)
  BY DEF Parts, JobsSound
<1>5. Typed => (Single <=> OneActive)
  BY SingleIsOne
<1> HIDE DEF Typed, ThreadTyped, ThreadInHand
<1> QED BY <1>1, <1>2, <1>3, <1>4, <1>5 DEF PackInv

-----------------------------------------------------------------------------
(* Packs. *)

\* What a pack upsert that activates makes of the table.
LEMMA ActivatedSound ==
  ASSUME pack \in Packs, Single, FailClosed, NEW p, NEW kind \in Kinds,
         kind = "auto" => p \notin Reviewed,
         pack' = Activated(p, kind)
  PROVE pack' \in Packs /\ Single' /\ FailClosed'
<1>1. ASSUME NEW q \in Problems, q # p
      PROVE pack'[q] = pack[q]
  BY <1>1 DEF Activated, Packs
<1>2. CASE p \notin Problems
  <2>1. pack' = pack
    BY <1>2 DEF Activated, Packs
  <2> QED BY <2>1 DEF Single, FailClosed
<1>3. CASE p \in Problems
  <2>1. /\ pack'[p] \in [Kinds -> {"absent", "stored", "active"}]
        /\ \A k \in Kinds : pack'[p][k] = "active" => k = kind
    BY <1>3 DEF Activated, Packs, Kinds
  <2>2. pack' \in Packs
    BY <1>1, <1>3, <2>1 DEF Activated, Packs
  <2>3. Single'
    BY <1>1, <2>1 DEF Single
  <2>4. FailClosed'
    <3> SUFFICES ASSUME NEW q \in Reviewed
                 PROVE pack'[q]["auto"] # "active"
      BY DEF FailClosed
    <3> QED BY <1>1, <2>1, PackAssumption DEF FailClosed, Kinds
  <2> QED BY <2>2, <2>3, <2>4
<1> QED BY <1>2, <1>3

\* What one that does not activate makes of it.
LEMMA StoredSound ==
  ASSUME pack \in Packs, Single, FailClosed, NEW p, NEW kind \in Kinds,
         pack' = Stored(p, kind)
  PROVE pack' \in Packs /\ Single' /\ FailClosed'
<1>1. \A q \in Problems, k \in Kinds : pack'[q][k] = "active" => pack[q][k] = "active"
  BY DEF Stored, Packs
<1>2. pack' \in Packs
  BY DEF Stored, Packs
<1> QED BY <1>1, <1>2, PackAssumption DEF Single, FailClosed, Kinds

LEMMA PackUnchanged ==
  ASSUME pack \in Packs, Single, FailClosed, UNCHANGED pack
  PROVE pack' \in Packs /\ Single' /\ FailClosed'
BY DEF Single, FailClosed

-----------------------------------------------------------------------------
(* Jobs. *)

LEMMA JobSound ==
  ASSUME JobsSound,
         job' = [p \in Problems |-> job'[p]],
         \A p \in Problems :
           \/ job'[p] = job[p]
           \/ job'[p] \in Jobs /\ job'[p].lease = "none" /\ job'[p].by = None
                /\ job'[p].status # "processing"
           \/ job'[p] \in Jobs /\ job'[p].lease # "none" /\ job'[p].by # None
                /\ job'[p].status = "processing"
  PROVE JobsSound'
<1>1. job' \in [Problems -> Jobs]
  BY DEF JobsSound
<1> QED BY <1>1 DEF JobsSound, LeasedIffProcessing

-----------------------------------------------------------------------------
(* Threads. *)

\* The locals of t are set, or not, and no other's are.
Moves(t) ==
  /\ \E label \in Labels : Goto(t, label)
  /\ todo' = [todo EXCEPT ![t] = todo'[t]]
  /\ outcome' = [outcome EXCEPT ![t] = outcome'[t]]

LEMMA MovesKeep ==
  ASSUME LocalsAreFunctions, \A s \in Threads : ThreadSound(s),
         NEW t \in Threads, Moves(t), ThreadSound(t)'
  PROVE LocalsAreFunctions' /\ \A s \in Threads : ThreadSound(s)'
<1>1. ASSUME NEW s \in Threads, s # t
      PROVE pc'[s] = pc[s] /\ todo'[s] = todo[s] /\ outcome'[s] = outcome[s]
  BY <1>1 DEF Moves, Goto, LocalsAreFunctions
<1>2. \A s \in Threads : s # t => ThreadSound(s)'
  BY <1>1 DEF ThreadSound, InHand
<1>3. LocalsAreFunctions'
  BY DEF Moves, Goto, LocalsAreFunctions
<1> QED BY <1>2, <1>3

LEMMA ThreadsUnchanged ==
  ASSUME LocalsAreFunctions, \A s \in Threads : ThreadSound(s), UNCHANGED <<pc, todo, outcome>>
  PROVE LocalsAreFunctions' /\ \A s \in Threads : ThreadSound(s)'
BY DEF LocalsAreFunctions, ThreadSound, InHand

\* A thread goes on to its next problem.
LEMMA AdvanceSound ==
  ASSUME LocalsAreFunctions, \A s \in Threads : ThreadSound(s),
         NEW t \in Threads, NEW label \in Labels \ Holding, Advance(t, label)
  PROVE LocalsAreFunctions' /\ \A s \in Threads : ThreadSound(s)'
<1>1. PICK rest : rest = todo[t] \ {InHand(t)}
  OBVIOUS
<1>2. /\ pc' = [pc EXCEPT ![t] = IF rest = {} THEN "idle" ELSE label]
      /\ todo' = [todo EXCEPT ![t] = rest]
      /\ outcome' = [outcome EXCEPT ![t] = "none"]
  BY <1>1 DEF Advance, Goto
<1>3. /\ pc'[t] = IF rest = {} THEN "idle" ELSE label
      /\ todo'[t] = rest /\ outcome'[t] = "none"
      /\ rest \subseteq Problems
  BY <1>1, <1>2 DEF LocalsAreFunctions, ThreadSound
<1>4. ThreadSound(t)'
  BY <1>3 DEF ThreadSound, Labels, Holding
<1>5. Moves(t)
  BY <1>2, <1>3 DEF Moves, Goto, Labels
<1> QED BY <1>4, <1>5, MovesKeep

\* A thread goes on with what it has: from a step that holds an outcome to another, or
\* from one that holds none.
LEMMA GotoSound ==
  ASSUME LocalsAreFunctions, \A s \in Threads : ThreadSound(s),
         NEW t \in Threads, NEW label \in Labels, Goto(t, label), UNCHANGED <<todo, outcome>>,
         pc[t] \in Holding <=> label \in Holding,
         label \in {"idle", "select"} \/ pc[t] \notin {"idle", "select"}
  PROVE LocalsAreFunctions' /\ \A s \in Threads : ThreadSound(s)'
<1>1. pc'[t] = label /\ todo'[t] = todo[t] /\ outcome'[t] = outcome[t]
  BY DEF Goto, LocalsAreFunctions
<1>2. InHand(t)' = InHand(t)
  BY DEF InHand
<1>3. ThreadSound(t)'
  BY <1>1, <1>2 DEF ThreadSound
<1>4. Moves(t)
  BY <1>1 DEF Moves, Goto, LocalsAreFunctions
<1> QED BY <1>3, <1>4, MovesKeep

\* A thread makes an outcome of the problem in hand, or changes it.
LEMMA OutcomeSound ==
  ASSUME LocalsAreFunctions, \A s \in Threads : ThreadSound(s),
         NEW t \in Threads, NEW label \in Holding, NEW result \in Ended,
         outcome' = [outcome EXCEPT ![t] = result], Goto(t, label), UNCHANGED todo,
         pc[t] \notin {"idle", "select"},
         result = "active" => InHand(t) \notin Reviewed
  PROVE LocalsAreFunctions' /\ \A s \in Threads : ThreadSound(s)'
<1>1. pc'[t] = label /\ todo'[t] = todo[t] /\ outcome'[t] = result
  BY DEF Goto, LocalsAreFunctions
<1>2. InHand(t)' = InHand(t)
  BY DEF InHand
<1>3. ThreadSound(t)'
  BY <1>1, <1>2 DEF ThreadSound, Holding, Labels, Ended
<1>4. Moves(t)
  BY <1>1 DEF Moves, Goto, LocalsAreFunctions, Holding, Labels
<1> QED BY <1>3, <1>4, MovesKeep

\* A thread that is idle, or selects, gets the problems it will handle.
LEMMA TodoSound ==
  ASSUME LocalsAreFunctions, \A s \in Threads : ThreadSound(s),
         NEW t \in Threads, NEW label \in Labels \ Holding, NEW batch \in SUBSET Problems,
         todo' = [todo EXCEPT ![t] = batch], Goto(t, label), UNCHANGED outcome,
         pc[t] \notin Holding,
         label = "idle" \/ batch # {}
  PROVE LocalsAreFunctions' /\ \A s \in Threads : ThreadSound(s)'
<1>1. pc'[t] = label /\ todo'[t] = batch /\ outcome'[t] = outcome[t]
  BY DEF Goto, LocalsAreFunctions
<1>2. outcome[t] = "none"
  BY DEF ThreadSound
<1>3. ThreadSound(t)'
  BY <1>1, <1>2 DEF ThreadSound
<1>4. Moves(t)
  BY <1>1 DEF Moves, Goto, LocalsAreFunctions
<1> QED BY <1>3, <1>4, MovesKeep

-----------------------------------------------------------------------------
(* Every step. *)

\* What a step of each kind has to show.
PacksKept == pack' \in Packs /\ Single' /\ FailClosed'
ThreadsKept == LocalsAreFunctions' /\ \A s \in Threads : ThreadSound(s)'

LEMMA WorkKeeps ==
  ASSUME Parts, NEW w \in Workers, Work(w)
  PROVE PacksKept /\ JobsSound' /\ ThreadsKept
<1>0. /\ pack \in Packs /\ Single /\ FailClosed /\ JobsSound
      /\ LocalsAreFunctions /\ \A t \in Threads : ThreadSound(t)
      /\ w \in Threads /\ ThreadSound(w)
  BY DEF Parts, Threads
<1>1. UNCHANGED pack => PacksKept
  BY <1>0, PackUnchanged DEF PacksKept
<1>2. UNCHANGED job => JobsSound'
  BY <1>0 DEF JobsSound, LeasedIffProcessing
<1>3. \A label \in Labels : Goto(w, label) /\ UNCHANGED <<todo, outcome>>
        /\ (pc[w] \in Holding <=> label \in Holding)
        /\ (label \in {"idle", "select"} \/ pc[w] \notin {"idle", "select"})
      => ThreadsKept
  BY <1>0, GotoSound DEF ThreadsKept
<1>4. Advance(w, "build") => ThreadsKept
  <2>1. "build" \in Labels \ Holding
    BY DEF Labels, Holding
  <2> QED BY <1>0, <2>1, AdvanceSound DEF ThreadsKept
<1>5. CASE Reclaim(w)
  <2>1. JobsSound'
    <3>1. \A p \in Problems : job[p] \in Jobs
      BY <1>0 DEF JobsSound
    <3>2. [NoJob EXCEPT !.status = "retrying"]
            = [status |-> "retrying", lease |-> "none", by |-> None]
      BY DEF NoJob
    <3>3. [status |-> "retrying", lease |-> "none", by |-> None] \in Jobs
      BY DEF Jobs
    <3>4. \A p \in Problems :
            job'[p] = job[p] \/ job'[p] = [status |-> "retrying", lease |-> "none", by |-> None]
      BY <1>5, <3>2 DEF Reclaim
    <3>5. job' = [p \in Problems |-> job'[p]]
      BY <1>5 DEF Reclaim
    <3> QED BY <1>0, <3>3, <3>4, <3>5, JobSound
  <2> QED BY <1>1, <1>3, <1>5, <2>1 DEF Reclaim, Labels, Holding
<1>6. CASE Select(w)
  <2>1. PICK batch \in SUBSET Due :
          /\ todo' = [todo EXCEPT ![w] = batch]
          /\ Goto(w, IF batch = {} THEN "idle" ELSE "claim")
          /\ UNCHANGED outcome
    BY <1>6 DEF Select
  <2>2. batch \in SUBSET Problems
    BY DEF Due
  <2>3. pc[w] \notin Holding
    BY <1>6 DEF Select, Holding
  <2>4. PICK label : label = IF batch = {} THEN "idle" ELSE "claim"
    OBVIOUS
  <2>5. label \in Labels \ Holding /\ (label = "idle" \/ batch # {}) /\ Goto(w, label)
    BY <2>1, <2>4 DEF Labels, Holding
  <2>6. ThreadsKept
    BY <1>0, <2>1, <2>2, <2>3, <2>5, TodoSound DEF ThreadsKept
  <2> QED BY <1>1, <1>2, <1>6, <2>6 DEF Select
<1>7. CASE Claim(w)
  <2>1. JobsSound'
    <3>1. Name[w] \in Names /\ Name[w] # None
      BY PackAssumption DEF Names
    <3>2. [status |-> "processing", lease |-> "live", by |-> Name[w]] \in Jobs
      BY <3>1 DEF Jobs
    <3>3. \A p \in Problems :
            job'[p] = job[p]
              \/ job'[p] = [status |-> "processing", lease |-> "live", by |-> Name[w]]
      BY <1>7 DEF Claim
    <3>4. job' = [p \in Problems |-> job'[p]]
      BY <1>7 DEF Claim
    <3> QED BY <1>0, <3>1, <3>2, <3>3, <3>4, JobSound
  <2> QED BY <1>1, <1>3, <1>7, <2>1 DEF Claim, Labels, Holding
<1>8. CASE Build(w)
  <2>1. PICK result \in {Recommended(InHand(w)), "rejected"} :
          /\ outcome' = [outcome EXCEPT ![w] = result]
          /\ Goto(w, IF result = "rejected" THEN "complete" ELSE "upsert")
    BY <1>8 DEF Build
  <2>2. result \in Ended /\ (result = "active" => InHand(w) \notin Reviewed)
    BY DEF Recommended, Ended
  <2>3. PICK label \in Holding : Goto(w, label)
    BY <2>1 DEF Holding
  <2>4. ThreadsKept
    BY <1>0, <1>8, <2>1, <2>2, <2>3, OutcomeSound DEF ThreadsKept, Build
  <2> QED BY <1>1, <1>2, <1>8, <2>4 DEF Build
<1>9. CASE Upsert(w)
  <2>1. outcome[w] \in Ended /\ "auto" \in Kinds
    BY <1>0, <1>9 DEF Upsert, ThreadSound, Holding, Kinds
  <2>2. PacksKept
    <3>1. CASE UNCHANGED pack
      BY <1>1, <3>1
    <3>2. CASE outcome[w] = "active" /\ pack' = Activated(InHand(w), "auto")
      BY <1>0, <2>1, <3>2, ActivatedSound DEF ThreadSound, PacksKept
    <3>3. CASE pack' = Stored(InHand(w), "auto")
      BY <1>0, <2>1, <3>3, StoredSound DEF PacksKept
    <3> QED BY <1>9, <3>1, <3>2, <3>3 DEF Upsert
  <2>3. ThreadsKept
    <3>1. CASE UNCHANGED outcome
      BY <1>3, <1>9, <3>1 DEF Upsert, Labels, Holding
    <3>2. CASE outcome' = [outcome EXCEPT ![w] = IF @ = "active" THEN "rejected" ELSE @]
      <4>1. PICK result : result = IF outcome[w] = "active" THEN "rejected" ELSE outcome[w]
        OBVIOUS
      <4>2. result \in Ended /\ result # "active"
        BY <2>1, <4>1 DEF Ended
      <4>3. outcome' = [outcome EXCEPT ![w] = result]
        BY <3>2, <4>1
      <4>4. "complete" \in Holding
        BY DEF Holding
      <4> QED BY <1>0, <1>9, <4>2, <4>3, <4>4, OutcomeSound DEF ThreadsKept, Upsert
    <3> QED BY <1>9, <3>1, <3>2 DEF Upsert
  <2> QED BY <1>2, <1>9, <2>2, <2>3 DEF Upsert
<1>10. CASE Complete(w)
  <2>1. ThreadsKept
    BY <1>3, <1>4, <1>10 DEF Complete, Labels, Holding
  <2> QED BY <1>1, <1>2, <1>10, <2>1 DEF Complete
<1>11. CASE Write(w)
  <2>1. JobsSound'
    <3>1. outcome[w] \in Ended
      BY <1>0, <1>11 DEF Write, ThreadSound, Holding
    <3>2. PICK done : done = [status |-> outcome[w], lease |-> "none", by |-> None]
      OBVIOUS
    <3>3. [NoJob EXCEPT !.status = outcome[w]] = done
      BY <3>2 DEF NoJob
    <3>4. done \in Jobs /\ done.lease = "none" /\ done.by = None /\ done.status # "processing"
      BY <3>1, <3>2 DEF Jobs, Ended
    <3>5. job' = [job EXCEPT ![InHand(w)] = done]
      BY <1>11, <3>3 DEF Write
    <3>6. \A p \in Problems : job'[p] = job[p] \/ job'[p] = done
      BY <1>0, <3>5 DEF JobsSound
    <3>7. job' = [p \in Problems |-> job'[p]]
      BY <1>0, <3>5 DEF JobsSound
    <3> QED BY <1>0, <3>4, <3>6, <3>7, JobSound
  <2> QED BY <1>1, <1>4, <1>11, <2>1 DEF Write
<1> QED BY <1>5, <1>6, <1>7, <1>8, <1>9, <1>10, <1>11 DEF Work

LEMMA ActivateKeeps ==
  ASSUME Parts, NEW a \in Activators,
         Activate(a) \/ Generate(a) \/ Compare(a) \/ Store(a)
  PROVE PacksKept /\ ThreadsKept
<1>0. /\ pack \in Packs /\ Single /\ FailClosed
      /\ LocalsAreFunctions /\ \A t \in Threads : ThreadSound(t)
      /\ a \in Threads /\ ThreadSound(a)
  BY DEF Parts, Threads
<1>1. UNCHANGED pack => PacksKept
  BY <1>0, PackUnchanged DEF PacksKept
<1>2. Advance(a, "generate") => ThreadsKept
  <2>1. "generate" \in Labels \ Holding
    BY DEF Labels, Holding
  <2> QED BY <1>0, <2>1, AdvanceSound DEF ThreadsKept
<1>3. CASE Activate(a)
  <2>1. "generate" \in Labels \ Holding /\ pc[a] \notin Holding
    BY <1>3 DEF Activate, Labels, Holding
  <2>2. ThreadsKept
    BY <1>0, <1>3, <2>1, TodoSound DEF Activate, ThreadsKept
  <2> QED BY <1>1, <1>3, <2>2 DEF Activate
<1>4. CASE Generate(a)
  <2>1. PICK result \in {Recommended(InHand(a)), "rejected"} :
          \/ Advance(a, "generate")
          \/ /\ result # "rejected"
             /\ outcome' = [outcome EXCEPT ![a] = result]
             /\ \E label \in {"store", "compare"} : Goto(a, label)
             /\ UNCHANGED todo
    <3>1. PICK result \in {Recommended(InHand(a)), "rejected"} :
            CASE result = "rejected" -> Advance(a, "generate")
              [] result = "review_required" ->
                   /\ outcome' = [outcome EXCEPT ![a] = result]
                   /\ Goto(a, "store")
                   /\ UNCHANGED todo
              [] OTHER ->
                   /\ outcome' = [outcome EXCEPT ![a] = result]
                   /\ Goto(a, "compare")
                   /\ UNCHANGED todo
      BY <1>4 DEF Generate
    <3> QED BY <3>1
  <2>2. CASE Advance(a, "generate")
    BY <1>1, <1>2, <1>4, <2>2 DEF Generate
  <2>3. CASE /\ result # "rejected"
             /\ outcome' = [outcome EXCEPT ![a] = result]
             /\ \E label \in {"store", "compare"} : Goto(a, label)
             /\ UNCHANGED todo
    <3>1. result \in Ended /\ (result = "active" => InHand(a) \notin Reviewed)
      BY DEF Recommended, Ended
    <3>2. PICK label \in Holding : Goto(a, label)
      BY <2>3 DEF Holding
    <3>3. ThreadsKept
      BY <1>0, <1>4, <2>3, <3>1, <3>2, OutcomeSound DEF Generate, ThreadsKept
    <3> QED BY <1>1, <1>4, <3>3 DEF Generate
  <2> QED BY <2>1, <2>2, <2>3
<1>5. CASE Compare(a)
  <2>1. "store" \in Labels /\ "store" \in Holding /\ "compare" \in Holding
    BY DEF Labels, Holding
  <2>2. Goto(a, "store") /\ UNCHANGED <<todo, outcome>> => ThreadsKept
    BY <1>0, <1>5, <2>1, GotoSound DEF Compare, ThreadsKept
  <2> QED BY <1>1, <1>2, <1>5, <2>2 DEF Compare
<1>6. CASE Store(a)
  <2>1. PacksKept
    <3>1. CASE UNCHANGED pack
      BY <1>1, <3>1
    <3>2. CASE outcome[a] = "active" /\ pack' = Activated(InHand(a), "auto")
      BY <1>0, <3>2, ActivatedSound DEF ThreadSound, PacksKept, Kinds
    <3>3. CASE pack' = Stored(InHand(a), "auto")
      BY <1>0, <3>3, StoredSound DEF PacksKept, Kinds
    <3> QED BY <1>6, <3>1, <3>2, <3>3 DEF Store
  <2> QED BY <1>2, <1>6, <2>1 DEF Store
<1> QED BY <1>3, <1>4, <1>5, <1>6

LEMMA SeedKeeps ==
  ASSUME Parts, NEW s \in Seeders, Seed(s) \/ Look(s) \/ InsertBuiltin(s)
  PROVE PacksKept /\ ThreadsKept
<1>0. /\ pack \in Packs /\ Single /\ FailClosed
      /\ LocalsAreFunctions /\ \A t \in Threads : ThreadSound(t)
      /\ s \in Threads /\ ThreadSound(s)
      /\ "look" \in Labels \ Holding /\ "insert" \in Labels \ Holding
  BY DEF Parts, Threads, Labels, Holding
<1>1. UNCHANGED pack => PacksKept
  BY <1>0, PackUnchanged DEF PacksKept
<1>2. Advance(s, "look") => ThreadsKept
  BY <1>0, AdvanceSound DEF ThreadsKept
<1>3. CASE Seed(s)
  <2>1. ThreadsKept
    BY <1>0, <1>3, PackAssumption, TodoSound DEF Seed, ThreadsKept, Holding
  <2> QED BY <1>1, <1>3, <2>1 DEF Seed
<1>4. CASE Look(s)
  <2>1. Goto(s, "insert") /\ UNCHANGED <<todo, outcome>> => ThreadsKept
    BY <1>0, <1>4, GotoSound DEF Look, ThreadsKept, Holding
  <2> QED BY <1>1, <1>2, <1>4, <2>1 DEF Look
<1>5. CASE InsertBuiltin(s)
  <2>1. pack' = Activated(InHand(s), "builtin") => PacksKept
    BY <1>0, ActivatedSound DEF PacksKept, Kinds
  <2> QED BY <1>1, <1>2, <1>5, <2>1 DEF InsertBuiltin
<1> QED BY <1>3, <1>4, <1>5

LEMMA EnqueueKeeps ==
  ASSUME JobsSound, NEW p \in Problems, Enqueue(p)
  PROVE JobsSound'
<1>1. job[p] \in Jobs /\ job[p].lease = "none" /\ job[p].by = None
  BY DEF JobsSound, LeasedIffProcessing, Enqueue
<1>2. /\ \A q \in Problems : q # p => job'[q] = job[q]
      /\ job'[p] = [job[p] EXCEPT !.status = "pending"]
      /\ job' = [q \in Problems |-> job'[q]]
  BY DEF JobsSound, Enqueue
<1>3. /\ job'[p] \in Jobs /\ job'[p].lease = "none" /\ job'[p].by = None
      /\ job'[p].status # "processing"
  BY <1>1, <1>2 DEF Jobs
<1> QED BY <1>2, <1>3, JobSound

LEMMA LeaseEndsKeeps ==
  ASSUME JobsSound, NEW p \in Problems, LeaseEnds(p)
  PROVE JobsSound'
<1>1. job[p] \in Jobs /\ job[p].status = "processing" /\ job[p].by # None
  BY DEF JobsSound, LeasedIffProcessing, LeaseEnds
<1>2. /\ \A q \in Problems : q # p => job'[q] = job[q]
      /\ job'[p] = [job[p] EXCEPT !.lease = "late"]
      /\ job' = [q \in Problems |-> job'[q]]
  BY DEF JobsSound, LeaseEnds
<1>3. /\ job'[p] \in Jobs /\ job'[p].lease # "none" /\ job'[p].by # None
      /\ job'[p].status = "processing"
  BY <1>1, <1>2 DEF Jobs
<1> QED BY <1>2, <1>3, JobSound

LEMMA LoseKeeps ==
  ASSUME Parts, NEW t \in Threads, Lose(t)
  PROVE ThreadsKept
<1>0. LocalsAreFunctions /\ \A s \in Threads : ThreadSound(s)
  BY DEF Parts
<1>1. pc'[t] = "idle" /\ todo'[t] = {} /\ outcome'[t] = "none"
  BY <1>0 DEF Lose, Goto, LocalsAreFunctions
<1>2. ThreadSound(t)'
  BY <1>1 DEF ThreadSound, Labels, Holding
<1>3. Moves(t)
  BY <1>1 DEF Lose, Moves, Goto, Labels
<1> QED BY <1>0, <1>2, <1>3, MovesKeep DEF ThreadsKept

LEMMA Initially == Init => Parts
<1> SUFFICES ASSUME Init PROVE Parts
  OBVIOUS
<1>1. pack \in Packs /\ Single /\ FailClosed
  BY PackAssumption DEF Init, Packs, Single, FailClosed, Kinds
<1>2. JobsSound
  BY PackAssumption DEF Init, JobsSound, LeasedIffProcessing, Jobs, NoJob
<1>3. LocalsAreFunctions /\ \A t \in Threads : ThreadSound(t)
  BY DEF Init, LocalsAreFunctions, ThreadSound, Labels, Holding
<1> QED BY <1>1, <1>2, <1>3, PackAssumption DEF Init, Parts

LEMMA Inductive == Parts /\ [Next]_vars => Parts'
<1> SUFFICES ASSUME Parts, [Next]_vars PROVE Parts'
  OBVIOUS
<1>0. /\ catalog \subseteq Problems
      /\ pack \in Packs /\ Single /\ FailClosed
      /\ JobsSound
      /\ LocalsAreFunctions /\ \A t \in Threads : ThreadSound(t)
      /\ lapses \in 0..MaxLapses /\ lost \in 0..MaxLost
  BY DEF Parts
<1>1. UNCHANGED pack => PacksKept
  BY <1>0, PackUnchanged DEF PacksKept
<1>2. UNCHANGED job => JobsSound'
  BY <1>0 DEF JobsSound, LeasedIffProcessing
<1>3. UNCHANGED <<pc, todo, outcome>> => ThreadsKept
  BY <1>0, ThreadsUnchanged DEF ThreadsKept
<1>4. ASSUME PacksKept, JobsSound', ThreadsKept, catalog' \subseteq Problems,
             lapses' \in 0..MaxLapses, lost' \in 0..MaxLost
      PROVE Parts'
  BY <1>4 DEF Parts, PacksKept, ThreadsKept
<1>5. ASSUME NEW w \in Workers, Work(w)
      PROVE Parts'
  <2>1. UNCHANGED <<catalog, lapses, lost>>
    BY <1>5 DEF Work, Reclaim, Select, Claim, Build, Upsert, Complete, Write, counters
  <2> QED BY <1>0, <1>4, <1>5, <2>1, WorkKeeps
<1>6. ASSUME NEW a \in Activators, Activate(a) \/ Generate(a) \/ Compare(a) \/ Store(a)
      PROVE Parts'
  <2>1. UNCHANGED <<catalog, job, lapses, lost>>
    BY <1>6 DEF Activate, Generate, Compare, Store, counters
  <2> QED BY <1>0, <1>2, <1>4, <1>6, <2>1, ActivateKeeps
<1>7. ASSUME NEW s \in Seeders, Seed(s) \/ Look(s) \/ InsertBuiltin(s)
      PROVE Parts'
  <2>1. UNCHANGED <<catalog, job, lapses, lost>>
    BY <1>7 DEF Seed, Look, InsertBuiltin, counters
  <2> QED BY <1>0, <1>2, <1>4, <1>7, <2>1, SeedKeeps
<1>8. ASSUME NEW p \in Problems, Enqueue(p)
      PROVE Parts'
  BY <1>0, <1>1, <1>3, <1>4, <1>8, EnqueueKeeps DEF Enqueue, counters
<1>9. ASSUME NEW p \in Problems, Import(p)
      PROVE Parts'
  BY <1>0, <1>1, <1>2, <1>3, <1>4, <1>9 DEF Import, counters
<1>10. ASSUME NEW p \in Problems, LeaseEnds(p)
       PROVE Parts'
  <2>1. lapses' \in 0..MaxLapses
    BY <1>0, <1>10, PackAssumption DEF LeaseEnds
  <2> QED BY <1>0, <1>1, <1>3, <1>4, <1>10, <2>1, LeaseEndsKeeps DEF LeaseEnds
<1>11. ASSUME NEW t \in Threads, Lose(t)
       PROVE Parts'
  <2>1. lost' \in 0..MaxLost
    BY <1>0, <1>11, PackAssumption DEF Lose
  <2> QED BY <1>0, <1>1, <1>2, <1>4, <1>11, <2>1, LoseKeeps DEF Lose
<1>12. CASE UNCHANGED vars
  BY <1>0, <1>1, <1>2, <1>3, <1>4, <1>12 DEF vars, counters
<1> QED BY <1>5, <1>6, <1>7, <1>8, <1>9, <1>10, <1>11, <1>12 DEF Next

-----------------------------------------------------------------------------
\* The invariant of the pack factory holds for any registry, workers and leases:
\* practice_packs/jobs.py, batch.py, pipeline.py and the seeding in duels.py.
THEOREM PackInvariant == Spec => []PackInv
<1>1. Spec => []Parts
  BY Initially, Inductive, PTL DEF Spec
<1> QED BY <1>1, PartsAreAll, PTL

\* A problem has one active pack at most, whoever stores and activates packs at once
\* (store upserts of practice_packs/pipeline.py and duels.py).
THEOREM PackOneActive == Spec => []OneActive
<1>1. PackInv => OneActive
  BY DEF PackInv
<1> QED BY <1>1, PackInvariant, PTL

\* A generated pack that awaits its review is never active (pipeline.py, jobs.py).
THEOREM PackFailClosed == Spec => []FailClosed
<1>1. PackInv => FailClosed
  BY DEF PackInv
<1> QED BY <1>1, PackInvariant, PTL
===============================================================================
