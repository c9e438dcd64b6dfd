---------------------------- MODULE Catalogue_proofs ----------------------------
(***************************************************************************)
(* Proofs about the two components that fill the catalogue of problems:    *)
(* ContestPipeline, for any number of contests, servers and requests, and  *)
(* StatementQueue, for any number of problems, relays and administrators.  *)
(* PipelineInv and QueueInv are inductive.                                 *)
(*                                                                         *)
(* The argument is the same for both.  A step is of one thread or actor,   *)
(* or of time and of other systems.  The others rely on what they have in  *)
(* hand and on facts that only accumulate (contests that are finished,     *)
(* published and imported), or whose loss is recorded: a statement that an *)
(* import takes away from an actor.  So those rely on them still           *)
(* (OthersKeep, OthersSound), and what is left of each step is             *)
(* what its own thread relies on and the records that it writes            *)
(* (ThreadStep, StepKeeps).                                                *)
(***************************************************************************)
EXTENDS StatementQueue, ContestPipeline, WellFoundedInduction, TLAPS

(***************************************************************************)
(* StatementQueue.  No row becomes a row in processing without a lease but *)
(* under the hands of the actor that writes it (NoneStuck), and none is    *)
(* called done without its statement, unless an import has just taken it   *)
(* away (DoneWhenStored).                                                  *)
(***************************************************************************)

RowsTyped ==
  /\ row \in [Problems -> Rows]
  /\ statement \in [Problems -> Statements]
  /\ dropped \subseteq Problems /\ withdrawn \subseteq Actors

LocalsTyped ==
  /\ pc \in [Actors -> Labels]
  /\ job \in [Actors -> 0..NumProblems]
  /\ found \in [Actors -> {"nothing", "page", "refused", "gone", "unreadable",
                           "succeeded", "partial", "retrying"}]
  /\ read \in [Actors -> [missing : SUBSET Problems, absent : BOOLEAN]]

LEMMA TypeParts == TypeOK <=> RowsTyped /\ LocalsTyped
  BY DEF TypeOK, RowsTyped, LocalsTyped

Lost(r) == r.status = "processing" /\ r.lease = "none"

\* The step is of actor a: it takes away no statement, and forgets of no other actor that
\* its statement was.
Moves(a) ==
  /\ withdrawn' \in {withdrawn, withdrawn \ {a}}
  /\ \A d \in Actors : d # a => pc'[d] = pc[d] /\ job'[d] = job[d] /\ found'[d] = found[d]
  /\ \A p \in Problems : statement[p] # "missing" => statement'[p] # "missing"
  /\ dropped \subseteq dropped'

\* A row that is in processing without a lease was so before, and a has not turned away
\* from it, or a has it in hand.
NoneStuck(a) ==
  \A p \in Problems :
    Lost(row'[p]) =>
      \/ Works(a, p)'
      \/ Lost(row[p]) /\ (Works(a, p) => p \in dropped')

\* What another actor relies on stays.
LEMMA OthersSound ==
  ASSUME TypeOK, NEW a \in Actors, NEW d \in Actors, d # a, Moves(a), ActorSound(d)
  PROVE  ActorSound(d)'
  <1>1. pc'[d] = pc[d] /\ job'[d] = job[d] /\ found'[d] = found[d]
    BY DEF Moves
  <1>2. CASE pc[d] = "finish"
    <2>1. job[d] \in Problems
      BY <1>2 DEF ActorSound
    <2> QED
      BY <1>1, <1>2, <2>1 DEF Moves, ActorSound
  <1>3. CASE pc[d] # "finish"
    BY <1>1, <1>3 DEF ActorSound
  <1> QED
    BY <1>2, <1>3

\* So a step has to be checked for its own actor and for the rows it writes.
LEMMA StepKeeps ==
  ASSUME QueueInv, NEW a \in Actors, TypeOK', Moves(a), ActorSound(a)', NoneStuck(a)
  PROVE  QueueInv'
  <1>1. \A d \in Actors : ActorSound(d)'
    BY OthersSound DEF QueueInv
  <1>2. ASSUME NEW p \in Problems, Lost(row'[p])
        PROVE  AtWork(p)' \/ p \in dropped'
    <2>1. CASE Works(a, p)'
      BY <2>1 DEF AtWork
    <2>2. CASE Lost(row[p]) /\ (Works(a, p) => p \in dropped')
      <3>1. AtWork(p) \/ p \in dropped
        BY <2>2 DEF QueueInv, StuckOnlyIfDropped, Lost
      <3>2. ASSUME NEW d \in Actors, d # a, Works(d, p)
            PROVE  Works(d, p)'
        BY <3>2 DEF Works, Moves
      <3> QED
        BY <2>2, <3>1, <3>2 DEF AtWork, Moves
    <2> QED
      BY <1>2, <2>1, <2>2 DEF NoneStuck
  <1> QED
    BY <1>1, <1>2 DEF QueueInv, StuckOnlyIfDropped, Lost

-----------------------------------------------------------------------------
(* Steps that write no row. *)

\* Such a step has to be checked for its own actor: it turns away from a problem for
\* which it was at work only if it is dropped.
LEMMA LocalStep ==
  ASSUME QueueInv, NEW a \in Actors, UNCHANGED <<row, statement>>, dropped' \subseteq Problems,
         withdrawn' \in {withdrawn, withdrawn \ {a}}, dropped \subseteq dropped', LocalsTyped',
         \A d \in Actors : d # a => pc'[d] = pc[d] /\ job'[d] = job[d] /\ found'[d] = found[d],
         ActorSound(a)',
         \A p \in Problems : Works(a, p) => Works(a, p)' \/ p \in dropped'
  PROVE  QueueInv'
  <1>1. TypeOK'
    BY DEF QueueInv, TypeOK, LocalsTyped
  <1>2. Moves(a)
    BY DEF Moves
  <1>3. NoneStuck(a)
    BY DEF NoneStuck
  <1> QED
    BY <1>1, <1>2, <1>3, StepKeeps

\* The locals of an actor that goes to a label, and nothing else.
LEMMA GotoTyped ==
  ASSUME LocalsTyped, NEW a \in Actors, NEW label \in Labels, Goto(a, label),
         UNCHANGED <<job, found, read>>
  PROVE  /\ LocalsTyped' /\ pc'[a] = label
         /\ \A d \in Actors : d # a => pc'[d] = pc[d] /\ job'[d] = job[d] /\ found'[d] = found[d]
  BY DEF LocalsTyped, Goto

\* The locals of an actor whose request is over.
LEMMA LeaveTyped ==
  ASSUME LocalsTyped, NEW a \in Actors, Leave(a)
  PROVE  /\ LocalsTyped' /\ pc'[a] = "idle" /\ ActorSound(a)' /\ \A p : ~ Works(a, p)'
         /\ \A d \in Actors : d # a => pc'[d] = pc[d] /\ job'[d] = job[d] /\ found'[d] = found[d]
  <1>1. pc'[a] = "idle" /\ pc' \in [Actors -> Labels]
    BY DEF LocalsTyped, Leave, Labels
  <1>2. NothingRead \in [missing : SUBSET Problems, absent : BOOLEAN]
    BY DEF NothingRead
  <1>3. read' \in [Actors -> [missing : SUBSET Problems, absent : BOOLEAN]]
    BY <1>2 DEF LocalsTyped, Leave
  <1>4. 0 \in 0..NumProblems
    BY QueueAssumption
  <1>5. job' \in [Actors -> 0..NumProblems]
    BY <1>4 DEF LocalsTyped, Leave
  <1>6. LocalsTyped'
    BY <1>1, <1>3, <1>5 DEF LocalsTyped, Leave
  <1>7. ActorSound(a)' /\ \A p : ~ Works(a, p)'
    BY <1>1 DEF ActorSound, Works
  <1> QED
    BY <1>1, <1>6, <1>7 DEF LocalsTyped, Leave

\* A set of numbers has a least one, and a set of problems a greatest one.
LEMMA LeastOf ==
  ASSUME NEW T \in SUBSET Nat, T # {}
  PROVE  \E m \in T : \A n \in T : m <= n
  <1> DEFINE R == OpToRel(<, Nat)
  <1>1. IsWellFoundedOn(R, Nat)
    BY NatLessThanWellFounded
  <1>2. PICK m \in T : \A n \in T : ~ (<<n, m>> \in R)
    BY <1>1, WFMin
  <1>3. \A n \in T : n < m => <<n, m>> \in R
    BY DEF OpToRel
  <1> HIDE DEF R
  <1>4. \A n \in T : ~ (n < m)
    BY <1>2, <1>3, Zenon
  <1>5. \A n \in T : n \in Nat /\ m \in Nat
    OBVIOUS
  <1> QED
    BY <1>4, <1>5

LEMMA GreatestOf ==
  ASSUME NEW T \in SUBSET Problems, T # {}
  PROVE  \E m \in T : \A n \in T : n <= m
  <1> DEFINE left == {NumProblems - n : n \in T}
  <1>1. \A n \in T : n \in 1..NumProblems /\ NumProblems - n \in Nat
    BY QueueAssumption DEF Problems
  <1>2. left \in SUBSET Nat
    BY <1>1
  <1>3. left # {}
    OBVIOUS
  <1>4. PICK d \in left : \A e \in left : d <= e
    BY <1>2, <1>3, LeastOf
  <1>5. PICK m \in T : d = NumProblems - m
    BY <1>4
  <1>6. \A n \in T : NumProblems - m <= NumProblems - n
    BY <1>4, <1>5
  <1> QED
    BY <1>1, <1>6, QueueAssumption

LEMMA FirstOf ==
  ASSUME NEW ps \in SUBSET Problems, ps # {}
  PROVE  First(ps) \in ps
  <1>1. ps \in SUBSET Nat
    BY DEF Problems
  <1>2. \E p \in ps : \A q \in ps : p <= q
    BY <1>1, LeastOf
  <1> QED
    BY <1>2 DEF First

\* Priming reads the row of one of the problems without a statement.
LEMMA PrimeKeeps ==
  ASSUME QueueInv, NEW a \in Actors, Prime(a)
  PROVE  QueueInv'
  <1>1. /\ RowsTyped /\ LocalsTyped /\ pc[a] = "idle" /\ a \notin Admins /\ ReadRows(a, Missing)
        /\ UNCHANGED <<row, statement, found, dropped, withdrawn>>
    BY TypeParts DEF QueueInv, Prime
  <1>2. dropped' \in SUBSET Problems /\ \A p \in Problems : ~ Works(a, p)
    BY <1>1 DEF RowsTyped, Works
  <1> DEFINE written == {p \in Missing : Writes(p)}
  <1>3. CASE written = {}
    <2>1. Goto(a, "expire") /\ UNCHANGED <<job, found, read>>
      BY <1>1, <1>3 DEF ReadRows
    <2>2. "expire" \in Labels
      BY DEF Labels
    <2>3. ActorSound(a)'
      BY <1>1, <2>1, <2>2, GotoTyped DEF ActorSound
    <2> QED
      BY <1>1, <1>2, <2>1, <2>2, <2>3, GotoTyped, LocalStep
  <1>4. CASE written # {}
    <2> DEFINE p == First(written)
               seen == [missing |-> Missing, absent |-> row[p].status = "absent"]
    <2>1. written \in SUBSET Problems
      BY DEF Missing
    <2>2. p \in Problems
      BY <1>4, <2>1, FirstOf
    <2>3. /\ pc' = [pc EXCEPT ![a] = "enqueue"] /\ job' = [job EXCEPT ![a] = p]
          /\ read' = [read EXCEPT ![a] = seen]
      BY <1>1, <1>4 DEF ReadRows, Goto
    <2>4. seen \in [missing : SUBSET Problems, absent : BOOLEAN] /\ p \in 0..NumProblems
      BY <1>1, <2>2 DEF Missing, RowsTyped, Problems
    <2>5. "enqueue" \in Labels
      BY DEF Labels
    <2> HIDE DEF p, seen
    <2>6. LocalsTyped'
      BY <1>1, <2>3, <2>4, <2>5 DEF LocalsTyped
    <2>7. /\ pc'[a] = "enqueue" /\ job'[a] = p
          /\ \A d \in Actors : d # a => pc'[d] = pc[d] /\ job'[d] = job[d] /\ found'[d] = found[d]
      BY <1>1, <2>3 DEF LocalsTyped
    <2>8. ActorSound(a)'
      BY <2>2, <2>7 DEF ActorSound
    <2> QED
      BY <1>1, <1>2, <2>6, <2>7, <2>8, LocalStep
  <1> QED
    BY <1>3, <1>4

\* The newest problem that may be leased is in hand, or none is.
LEMMA SelectKeeps ==
  ASSUME QueueInv, NEW a \in Actors, Select(a)
  PROVE  QueueInv'
  <1>1. /\ RowsTyped /\ LocalsTyped /\ pc[a] = "select"
        /\ UNCHANGED <<row, statement, dropped, withdrawn>>
    BY TypeParts DEF QueueInv, Select
  <1>2. dropped' \in SUBSET Problems /\ \A p \in Problems : ~ Works(a, p)
    BY <1>1 DEF RowsTyped, Works
  <1>3. CASE Leasable = {}
    BY <1>1, <1>2, <1>3, LeaveTyped, LocalStep DEF Select
  <1>4. CASE Leasable # {}
    <2> DEFINE p == CHOOSE m \in Leasable : \A n \in Leasable : n <= m
    <2>1. Leasable \in SUBSET Problems
      BY DEF Leasable
    <2>2. p \in Problems
      BY <1>4, <2>1, GreatestOf
    <2>3. /\ pc' = [pc EXCEPT ![a] = "claim"] /\ job' = [job EXCEPT ![a] = p]
          /\ UNCHANGED <<found, read>>
      BY <1>4 DEF Select, Goto
    <2> HIDE DEF p
    <2>4. p \in 0..NumProblems /\ "claim" \in Labels
      BY <2>2 DEF Problems, Labels
    <2>5. LocalsTyped'
      BY <1>1, <2>3, <2>4 DEF LocalsTyped
    <2>6. /\ pc'[a] = "claim" /\ job'[a] = p
          /\ \A d \in Actors : d # a => pc'[d] = pc[d] /\ job'[d] = job[d] /\ found'[d] = found[d]
      BY <1>1, <2>3 DEF LocalsTyped
    <2>7. ActorSound(a)'
      BY <2>2, <2>6 DEF ActorSound
    <2> QED
      BY <1>1, <1>2, <2>5, <2>6, <2>7, LocalStep
  <1> QED
    BY <1>3, <1>4

\* A page is fetched.
LEMMA FetchKeeps ==
  ASSUME QueueInv, NEW a \in Actors, Fetch(a)
  PROVE  QueueInv'
  <1>1. /\ RowsTyped /\ LocalsTyped /\ pc[a] = "fetch" /\ job[a] \in Problems
        /\ UNCHANGED <<row, statement, job, read, dropped, withdrawn>>
    BY TypeParts DEF QueueInv, Fetch, ActorSound
  <1>2. dropped' \in SUBSET Problems /\ \A p \in Problems : ~ Works(a, p)
    BY <1>1 DEF RowsTyped, Works
  <1>3. PICK outcome \in {"page", "refused", "gone"} :
          found' = [found EXCEPT ![a] = outcome] /\ pc' = [pc EXCEPT ![a] = "record"]
    BY DEF Fetch, Goto
  <1>4. "record" \in Labels
    BY DEF Labels
  <1>5. LocalsTyped'
    BY <1>1, <1>3, <1>4 DEF LocalsTyped
  <1>6. /\ pc'[a] = "record"
        /\ \A d \in Actors : d # a => pc'[d] = pc[d] /\ job'[d] = job[d] /\ found'[d] = found[d]
    BY <1>1, <1>3 DEF LocalsTyped
  <1>7. ActorSound(a)'
    BY <1>1, <1>6 DEF ActorSound
  <1> QED
    BY <1>1, <1>2, <1>5, <1>6, <1>7, LocalStep

\* Whoever reads a lease has the problem in hand, and what it finishes is gone.
LEMMA RecordReadKeeps ==
  ASSUME QueueInv, NEW a \in Actors, RecordRead(a)
  PROVE  QueueInv'
  <1>1. /\ RowsTyped /\ LocalsTyped /\ pc[a] = "record" /\ job[a] \in Problems
        /\ UNCHANGED <<row, statement, dropped, withdrawn>>
    BY TypeParts DEF QueueInv, RecordRead, ActorSound
  <1>2. dropped' \in SUBSET Problems /\ \A p \in Problems : ~ Works(a, p)
    BY <1>1 DEF RowsTyped, Works
  <1>3. CASE Leave(a)
    BY <1>1, <1>2, <1>3, LeaveTyped, LocalStep
  <1>4. ASSUME NEW label \in {"clear", "ingest", "finish", "bump"}, Goto(a, label),
               label = "finish" => found[a] = "gone", UNCHANGED <<job, found, read>>
        PROVE  QueueInv'
    <2>1. label \in Labels
      BY DEF Labels
    <2>2. ActorSound(a)'
      BY <1>1, <1>4, <2>1, GotoTyped DEF ActorSound, Done
    <2> QED
      BY <1>1, <1>2, <1>4, <2>1, <2>2, GotoTyped, LocalStep
  <1> QED
    BY <1>3, <1>4 DEF RecordRead

\* A statement that is left alone is there.
LEMMA SkipKeeps ==
  ASSUME QueueInv, NEW a \in Actors, Skip(a)
  PROVE  QueueInv'
  <1>1. /\ RowsTyped /\ LocalsTyped /\ pc[a] = "ingest" /\ job[a] \in Problems
        /\ Kept(job[a]) /\ UNCHANGED <<row, statement, job, read, dropped, withdrawn>>
        /\ found' = [found EXCEPT ![a] = "succeeded"] /\ pc' = [pc EXCEPT ![a] = "finish"]
    BY TypeParts DEF QueueInv, Skip, ActorSound, Goto
  <1>2. dropped' \in SUBSET Problems /\ "finish" \in Labels
    BY <1>1 DEF RowsTyped, Labels
  <1>3. LocalsTyped'
    BY <1>1, <1>2 DEF LocalsTyped
  <1>4. /\ pc'[a] = "finish" /\ found'[a] = "succeeded"
        /\ \A d \in Actors : d # a => pc'[d] = pc[d] /\ job'[d] = job[d] /\ found'[d] = found[d]
    BY <1>1 DEF LocalsTyped
  <1>5. ActorSound(a)' /\ \A p \in Problems : Works(a, p) => Works(a, p)'
    BY <1>1, <1>4 DEF ActorSound, Works, Done, Kept
  <1> QED
    BY <1>1, <1>2, <1>3, <1>4, <1>5, LocalStep

\* A page that does not parse: the loop of the embedded relay drops the problem.
LEMMA UnreadableKeeps ==
  ASSUME QueueInv, NEW a \in Actors, Unreadable(a)
  PROVE  QueueInv'
  <1>1. /\ RowsTyped /\ LocalsTyped /\ pc[a] = "ingest" /\ job[a] \in Problems
        /\ UNCHANGED <<row, statement, withdrawn>>
    BY TypeParts DEF QueueInv, Unreadable, ActorSound
  <1>2. CASE Leave(a) /\ dropped' = dropped \cup {job[a]}
    <2>1. dropped' \in SUBSET Problems /\ \A p \in Problems : Works(a, p) => p \in dropped'
      BY <1>1, <1>2 DEF RowsTyped, Works
    <2> QED
      BY <1>1, <1>2, <2>1, LeaveTyped, LocalStep
  <1>3. ASSUME NEW label \in {"finish", "bump"}, NEW what \in {"gone", "unreadable"},
               label = "finish" => what = "gone",
               pc' = [pc EXCEPT ![a] = label], found' = [found EXCEPT ![a] = what],
               UNCHANGED <<job, read, dropped, withdrawn>>
        PROVE  QueueInv'
    <2>1. dropped' \in SUBSET Problems /\ label \in Labels
      BY <1>1, <1>3 DEF RowsTyped, Labels
    <2>2. LocalsTyped'
      BY <1>1, <1>3, <2>1 DEF LocalsTyped
    <2>3. /\ pc'[a] = label /\ found'[a] = what
          /\ \A d \in Actors : d # a => pc'[d] = pc[d] /\ job'[d] = job[d] /\ found'[d] = found[d]
      BY <1>1, <1>3 DEF LocalsTyped
    <2>4. ActorSound(a)' /\ \A p \in Problems : Works(a, p) => Works(a, p)'
      BY <1>1, <1>3, <2>3 DEF ActorSound, Works, Done
    <2> QED
      BY <1>1, <1>3, <2>1, <2>2, <2>3, <2>4, LocalStep
  <1>4. CASE a \in Embedded
    BY <1>2, <1>4 DEF Unreadable
  <1>5. CASE a \notin Embedded /\ a \in Admins /\ found[a] = "page"
    <2>1. /\ pc' = [pc EXCEPT ![a] = "finish"] /\ found' = [found EXCEPT ![a] = "gone"]
          /\ UNCHANGED <<job, read, dropped, withdrawn>>
      BY <1>5 DEF Unreadable, Goto
    <2> QED
      BY <1>3, <2>1
  <1>6. CASE a \notin Embedded /\ ~ (a \in Admins /\ found[a] = "page")
    <2>1. /\ pc' = [pc EXCEPT ![a] = "bump"] /\ found' = [found EXCEPT ![a] = "unreadable"]
          /\ UNCHANGED <<job, read, dropped, withdrawn>>
      BY <1>6 DEF Unreadable, Goto
    <2> QED
      BY <1>3, <2>1
  <1> QED
    BY <1>4, <1>5, <1>6

\* An administrator's page: the row is read, or the problem is claimed next.
LEMMA AdminPageKeeps ==
  ASSUME QueueInv, NEW a \in Actors, NEW p \in Problems, AdminPage(a, p)
  PROVE  QueueInv'
  <1>1. /\ RowsTyped /\ LocalsTyped /\ pc[a] = "idle"
        /\ job' = [job EXCEPT ![a] = p] /\ found' = [found EXCEPT ![a] = "page"]
        /\ UNCHANGED <<row, statement, dropped, withdrawn>>
    BY TypeParts DEF QueueInv, AdminPage
  <1>2. dropped' \in SUBSET Problems /\ \A q \in Problems : ~ Works(a, q)
    BY <1>1 DEF RowsTyped, Works
  <1>3. p \in 0..NumProblems /\ {"enqueue", "reclaim"} \subseteq Labels
    BY DEF Problems, Labels
  <1> DEFINE seen == [missing |-> {p}, absent |-> row[p].status = "absent"]
  <1>4. seen \in [missing : SUBSET Problems, absent : BOOLEAN]
    BY <1>1 DEF RowsTyped
  <1>5. PICK label \in {"enqueue", "reclaim"} :
          pc' = [pc EXCEPT ![a] = label] /\ (read' = read \/ read' = [read EXCEPT ![a] = seen])
    BY DEF AdminPage, Goto
  <1> HIDE DEF seen
  <1>6. LocalsTyped'
    BY <1>1, <1>3, <1>4, <1>5 DEF LocalsTyped
  <1>7. /\ pc'[a] = label /\ job'[a] = p
        /\ \A d \in Actors : d # a => pc'[d] = pc[d] /\ job'[d] = job[d] /\ found'[d] = found[d]
    BY <1>1, <1>5 DEF LocalsTyped
  <1>8. ActorSound(a)'
    BY <1>7 DEF ActorSound
  <1> QED
    BY <1>1, <1>2, <1>6, <1>7, <1>8, LocalStep

\* An administrator's batch, and a relay that gives up, write nothing at all.
LEMMA TurnsKeep ==
  ASSUME QueueInv, NEW a \in Actors, AdminBatch(a) \/ GiveUp(a)
  PROVE  QueueInv'
  <1>1. /\ RowsTyped /\ LocalsTyped /\ pc[a] \in {"idle", "fetch", "record"}
        /\ UNCHANGED <<row, statement, dropped, withdrawn>>
    BY TypeParts DEF QueueInv, AdminBatch, GiveUp
  <1>2. dropped' \in SUBSET Problems /\ \A p \in Problems : ~ Works(a, p)
    BY <1>1 DEF RowsTyped, Works
  <1>3. CASE AdminBatch(a)
    <2>1. "select" \in Labels /\ Goto(a, "select") /\ UNCHANGED <<job, found, read>>
      BY <1>3 DEF Labels, AdminBatch
    <2>2. ActorSound(a)'
      BY <1>1, <2>1, GotoTyped DEF ActorSound
    <2> QED
      BY <1>1, <1>2, <2>1, <2>2, GotoTyped, LocalStep
  <1>4. CASE GiveUp(a)
    BY <1>1, <1>2, <1>4, LeaveTyped, LocalStep DEF GiveUp
  <1> QED
    BY <1>3, <1>4

\* A handler that is cut short drops the problem it had in hand.
LEMMA CutKeeps ==
  ASSUME QueueInv, NEW a \in Actors, Cut(a)
  PROVE  QueueInv'
  <1>1. /\ RowsTyped /\ LocalsTyped /\ job[a] \in Problems /\ Leave(a)
        /\ UNCHANGED <<row, statement>> /\ dropped' = dropped \cup {job[a]} /\ withdrawn' = withdrawn \ {a}
    BY TypeParts DEF QueueInv, Cut, ActorSound
  <1>2. dropped' \in SUBSET Problems /\ \A p \in Problems : Works(a, p) => p \in dropped'
    BY <1>1 DEF RowsTyped, Works
  <1> QED
    BY <1>1, <1>2, LeaveTyped, LocalStep

-----------------------------------------------------------------------------
(* Steps that write a row. *)

\* A step that writes one row leaves it in processing without a lease only if it has it in
\* hand.
LEMMA WriteRow ==
  ASSUME QueueInv, NEW a \in Actors, NEW p \in Problems, NEW r \in Rows,
         row' = [row EXCEPT ![p] = r], UNCHANGED <<statement, dropped>>, LocalsTyped',
         withdrawn' \in {withdrawn, withdrawn \ {a}},
         \A d \in Actors : d # a => pc'[d] = pc[d] /\ job'[d] = job[d] /\ found'[d] = found[d],
         job[a] = p, ActorSound(a)',
         Lost(r) => Works(a, p)'
  PROVE  QueueInv'
  <1>1. RowsTyped
    BY TypeParts DEF QueueInv
  <1>2. row'[p] = r /\ \A q \in Problems : q # p => row'[q] = row[q]
    BY <1>1 DEF RowsTyped
  <1>3. TypeOK'
    BY <1>1 DEF TypeOK, RowsTyped, LocalsTyped
  <1>4. Moves(a)
    BY DEF Moves
  <1>5. NoneStuck(a)
    BY <1>2 DEF NoneStuck, Works
  <1> QED
    BY <1>3, <1>4, <1>5, StepKeeps

\* The row of a claim.
LEMMA ClaimedRow ==
  ASSUME RowsTyped, NEW a \in Actors, NEW p \in Problems
  PROVE  \E r \in Rows : /\ Claimed(p, a) = [row EXCEPT ![p] = r]
                         /\ r.status = "processing"
                         /\ r.lease = "none" => a \in Admins
  <1> DEFINE tried == IF row[p].tried < MaxAttempts THEN row[p].tried + 1 ELSE row[p].tried
             lease == IF a \in Admins THEN "none" ELSE "live"
             by    == IF a \in Admins THEN None ELSE a
             r     == [row[p] EXCEPT !.status = "processing", !.tried = tried,
                                     !.lease = lease, !.by = by]
  <1>1. row[p] \in Rows
    BY DEF RowsTyped
  <1>2. tried \in 0..MaxAttempts
    BY <1>1, QueueAssumption DEF Rows
  <1>3. /\ lease \in {"none", "live", "late"} /\ by \in Actors \cup {None}
        /\ lease = "none" => a \in Admins
    OBVIOUS
  <1>4. Claimed(p, a) = [row EXCEPT ![p] = r]
    BY DEF Claimed
  <1> HIDE DEF tried, lease, by
  <1>5. r \in Rows /\ r.status = "processing" /\ r.lease = lease
    BY <1>1, <1>2, <1>3 DEF Rows, Statuses
  <1> HIDE DEF r
  <1> QED
    BY <1>3, <1>4, <1>5

\* A claim takes a lease, or is an administrator's, who goes on to ingest.
LEMMA ClaimsKeep ==
  ASSUME QueueInv, NEW a \in Actors, Claim(a) \/ Reclaim(a)
  PROVE  QueueInv'
  <1>1. /\ RowsTyped /\ LocalsTyped /\ job[a] \in Problems
        /\ row' = Claimed(job[a], a) /\ UNCHANGED <<statement, job, found, read, dropped, withdrawn>>
    BY TypeParts DEF QueueInv, Claim, Reclaim, ActorSound
  <1>2. PICK label \in {"ingest", "fetch"} : Goto(a, label) /\ (a \in Admins => label = "ingest")
    BY DEF Claim, Reclaim
  <1>3. label \in Labels
    BY DEF Labels
  <1>4. LocalsTyped' /\ pc'[a] = label
        /\ \A d \in Actors : d # a => pc'[d] = pc[d] /\ job'[d] = job[d] /\ found'[d] = found[d]
    BY <1>1, <1>2, <1>3, GotoTyped
  <1>5. ActorSound(a)'
    BY <1>1, <1>4 DEF ActorSound
  <1>6. PICK r \in Rows : /\ row' = [row EXCEPT ![job[a]] = r] /\ r.status = "processing"
                          /\ r.lease = "none" => a \in Admins
    BY <1>1, ClaimedRow
  <1>7. Lost(r) => Works(a, job[a])'
    BY <1>1, <1>2, <1>4, <1>6 DEF Lost, Works
  <1> QED
    BY <1>1, <1>4, <1>5, <1>6, <1>7, WriteRow

\* Whoever clears a lease has the row in hand, and goes on to write it.
LEMMA RecordWriteKeeps ==
  ASSUME QueueInv, NEW a \in Actors, RecordWrite(a)
  PROVE  QueueInv'
  <1>0. PICK p \in Problems : p = job[a]
    BY DEF QueueInv, RecordWrite, ActorSound
  <1> DEFINE r == [row[p] EXCEPT !.lease = "none", !.by = None]
  <1>1. /\ RowsTyped /\ LocalsTyped
        /\ UNCHANGED <<statement, job, found, read, dropped, withdrawn>>
    BY TypeParts DEF QueueInv, RecordWrite
  <1>2. PICK label \in {"reclaim", "ingest", "finish", "bump"} :
          Goto(a, label) /\ (label = "finish" => found[a] = "gone")
    BY DEF RecordWrite
  <1>3. label \in Labels
    BY DEF Labels
  <1>4. LocalsTyped' /\ pc'[a] = label
        /\ \A d \in Actors : d # a => pc'[d] = pc[d] /\ job'[d] = job[d] /\ found'[d] = found[d]
    BY <1>1, <1>2, <1>3, GotoTyped
  <1>5. ActorSound(a)' /\ Works(a, p)'
    BY <1>0, <1>1, <1>2, <1>4 DEF ActorSound, Works, Done
  <1>6. r \in Rows /\ r.status = row[p].status
    BY <1>1 DEF RowsTyped, Rows
  <1>7. row' = [row EXCEPT ![p] = r]
    BY <1>0 DEF RecordWrite
  <1> HIDE DEF r
  <1> QED
    BY <1>0, <1>1, <1>4, <1>5, <1>6, <1>7, WriteRow

\* A failure is counted: the row is retrying.
LEMMA BumpKeeps ==
  ASSUME QueueInv, NEW a \in Actors, Bump(a)
  PROVE  QueueInv'
  <1> DEFINE p == job[a]
             r == [row[p] EXCEPT !.status = "retrying", !.due = FALSE]
  <1>1. /\ RowsTyped /\ LocalsTyped /\ p \in Problems /\ UNCHANGED <<statement, dropped, withdrawn>>
    BY TypeParts DEF QueueInv, Bump, ActorSound
  <1>2. r \in Rows /\ r.status = "retrying"
    <2>1. row[p] \in Rows
      BY <1>1 DEF RowsTyped
    <2> QED
      BY <2>1 DEF Rows, Statuses
  <1>3. row' = [row EXCEPT ![p] = r]
    BY DEF Bump
  <1> DEFINE Others == \A d \in Actors : d # a =>
                         pc'[d] = pc[d] /\ job'[d] = job[d] /\ found'[d] = found[d]
  <1>4. LocalsTyped' /\ ActorSound(a)' /\ Others
    <2>1. CASE Leave(a)
      BY <1>1, <2>1, LeaveTyped
    <2>2. ASSUME NEW what \in {"retrying", "gone"}, found' = [found EXCEPT ![a] = what],
                 pc' = [pc EXCEPT ![a] = "finish"], UNCHANGED <<job, read>>
          PROVE  LocalsTyped' /\ ActorSound(a)' /\ Others
      <3>1. "finish" \in Labels
        BY DEF Labels
      <3>2. LocalsTyped'
        BY <1>1, <2>2, <3>1 DEF LocalsTyped
      <3>3. pc'[a] = "finish" /\ found'[a] = what /\ Others
        BY <1>1, <2>2 DEF LocalsTyped
      <3> QED
        BY <1>1, <2>2, <3>2, <3>3 DEF ActorSound, Done
    <2> QED
      BY <2>1, <2>2 DEF Bump, Goto
  <1>5. ~ Lost(r)
    BY <1>2 DEF Lost
  <1> HIDE DEF r
  <1> QED
    BY <1>1, <1>2, <1>3, <1>4, <1>5, WriteRow

\* The row is finished with what its actor has found.
LEMMA FinishKeeps ==
  ASSUME QueueInv, NEW a \in Actors, Finish(a)
  PROVE  QueueInv'
  <1> DEFINE p == job[a]
             told == IF found[a] = "gone" THEN "failed" ELSE found[a]
             r == [row[p] EXCEPT !.status = told, !.due = TRUE]
  <1>1. /\ RowsTyped /\ LocalsTyped /\ p \in Problems /\ Leave(a)
        /\ UNCHANGED <<statement, dropped>> /\ withdrawn' = withdrawn \ {a}
    BY TypeParts DEF QueueInv, Finish, ActorSound
  <1>2. told \in {"failed", "retrying", "succeeded", "partial"}
    BY DEF QueueInv, Finish, ActorSound, Done
  <1>3. row' = [row EXCEPT ![p] = r]
    BY DEF Finish
  <1> HIDE DEF told
  <1>4. r \in Rows /\ r.status = told
    <2>1. row[p] \in Rows
      BY <1>1 DEF RowsTyped
    <2> QED
      BY <1>2, <2>1 DEF Rows, Statuses
  <1>5. ~ Lost(r)
    BY <1>2, <1>4 DEF Lost
  <1> HIDE DEF r
  <1> QED
    BY <1>1, <1>2, <1>3, <1>4, <1>5, LeaveTyped, WriteRow

\* A row that is enqueued is pending.
LEMMA PendingRow ==
  ASSUME RowsTyped, NEW p \in Problems
  PROVE  Pending(p) \in Rows /\ Pending(p).status = "pending"
  <1>1. row[p] \in Rows
    BY DEF RowsTyped
  <1> QED
    BY <1>1 DEF Pending, Rows, Statuses

\* Nothing that is enqueued is done or in processing but what was so.
LEMMA RowsEnqueued ==
  ASSUME QueueInv, NEW a \in Actors, UNCHANGED <<statement, dropped, withdrawn>>, LocalsTyped',
         \A p \in Problems : row'[p] = row[p] \/ (row'[p] \in Rows /\ row'[p].status \in {"pending", "retrying"}),
         row' \in [Problems -> Rows], \A p \in Problems : ~ Works(a, p),
         \A d \in Actors : d # a => pc'[d] = pc[d] /\ job'[d] = job[d] /\ found'[d] = found[d],
         ActorSound(a)'
  PROVE  QueueInv'
  <1>1. TypeOK'
    BY DEF QueueInv, TypeOK, LocalsTyped
  <1>2. Moves(a)
    BY DEF Moves
  <1>3. NoneStuck(a)
    BY DEF NoneStuck, Lost
  <1> QED
    BY <1>1, <1>2, <1>3, StepKeeps

LEMMA EnqueueKeeps ==
  ASSUME QueueInv, NEW a \in Actors, Enqueue(a)
  PROVE  QueueInv'
  <1>1. /\ RowsTyped /\ LocalsTyped /\ pc[a] = "enqueue" /\ job[a] \in Problems
        /\ UNCHANGED <<statement, dropped, withdrawn>>
    BY TypeParts DEF QueueInv, Enqueue, ActorSound
  <1>2. \A p \in Problems : ~ Works(a, p)
    BY <1>1 DEF Works
  <1>3. CASE Leave(a) /\ UNCHANGED row
    <2>1. dropped' \in SUBSET Problems
      BY <1>1 DEF RowsTyped
    <2> QED
      BY <1>1, <1>2, <1>3, <2>1, LeaveTyped, LocalStep
  <1>4. CASE ~ (read[a].absent /\ row[job[a]].status # "absent")
    <2> DEFINE label == IF a \in Admins THEN "reclaim" ELSE "expire"
               next(q) == IF q = job[a] \/ (q \in read[a].missing /\ q > job[a] /\ Writes(q))
                          THEN Pending(q) ELSE row[q]
    <2>1. /\ row' = [q \in Problems |-> next(q)]
          /\ pc' = [pc EXCEPT ![a] = label]
          /\ job' = [job EXCEPT ![a] = IF a \in Admins THEN @ ELSE 0]
          /\ read' = [read EXCEPT ![a] = NothingRead]
          /\ UNCHANGED found
      BY <1>4 DEF Enqueue, Goto
    <2>2. \A q \in Problems : next(q) \in Rows /\ (next(q) = row[q] \/ next(q).status = "pending")
      <3> SUFFICES ASSUME NEW q \in Problems
                   PROVE  next(q) \in Rows /\ (next(q) = row[q] \/ next(q).status = "pending")
        OBVIOUS
      <3>1. row[q] \in Rows
        BY <1>1 DEF RowsTyped
      <3> QED
        BY <1>1, <3>1, PendingRow
    <2> HIDE DEF next
    <2>3. /\ row' \in [Problems -> Rows]
          /\ \A q \in Problems : row'[q] = row[q]
                                 \/ (row'[q] \in Rows /\ row'[q].status \in {"pending", "retrying"})
      BY <2>1, <2>2
    <2>4. NothingRead \in [missing : SUBSET Problems, absent : BOOLEAN]
      BY DEF NothingRead
    <2>5. label \in Labels /\ 0 \in 0..NumProblems
      BY QueueAssumption DEF Labels
    <2>6. pc' \in [Actors -> Labels] /\ pc'[a] = label
      BY <1>1, <2>1, <2>5 DEF LocalsTyped
    <2>7. job' \in [Actors -> 0..NumProblems] /\ (a \in Admins => job'[a] = job[a])
      BY <1>1, <2>1, <2>5 DEF LocalsTyped
    <2>8. LocalsTyped'
      BY <1>1, <2>1, <2>4, <2>6, <2>7 DEF LocalsTyped
    <2>9. \A d \in Actors : d # a => pc'[d] = pc[d] /\ job'[d] = job[d] /\ found'[d] = found[d]
      BY <1>1, <2>1 DEF LocalsTyped
    <2>10. ActorSound(a)'
      BY <1>1, <2>6, <2>7 DEF ActorSound
    <2> QED
      BY <1>1, <1>2, <2>3, <2>8, <2>9, <2>10, RowsEnqueued
  <1> QED
    BY <1>3, <1>4 DEF Enqueue

\* An abandoned lease goes back to retrying.
LEMMA ExpireKeeps ==
  ASSUME QueueInv, NEW a \in Actors, Expire(a)
  PROVE  QueueInv'
  <1>1. /\ RowsTyped /\ LocalsTyped /\ pc[a] = "expire" /\ Goto(a, "select")
        /\ UNCHANGED <<statement, job, found, read, dropped, withdrawn>>
    BY TypeParts DEF QueueInv, Expire
  <1>2. \A p \in Problems : ~ Works(a, p)
    BY <1>1 DEF Works
  <1> DEFINE next(p) == IF row[p].status = "processing" /\ row[p].lease = "late"
                        THEN [row[p] EXCEPT !.status = "retrying", !.lease = "none", !.by = None]
                        ELSE row[p]
  <1>3. row' = [p \in Problems |-> next(p)]
    BY DEF Expire
  <1>4. \A p \in Problems : next(p) \in Rows /\ (next(p) = row[p] \/ next(p).status = "retrying")
    <2> SUFFICES ASSUME NEW p \in Problems
                 PROVE  next(p) \in Rows /\ (next(p) = row[p] \/ next(p).status = "retrying")
      OBVIOUS
    <2>1. row[p] \in Rows
      BY <1>1 DEF RowsTyped
    <2>2. /\ [row[p] EXCEPT !.status = "retrying", !.lease = "none", !.by = None] \in Rows
          /\ [row[p] EXCEPT !.status = "retrying", !.lease = "none", !.by = None].status = "retrying"
      BY <2>1 DEF Rows, Statuses
    <2> QED
      BY <2>1, <2>2
  <1> HIDE DEF next
  <1>5. /\ row' \in [Problems -> Rows]
        /\ \A p \in Problems : row'[p] = row[p]
                               \/ (row'[p] \in Rows /\ row'[p].status \in {"pending", "retrying"})
    BY <1>3, <1>4
  <1>6. "select" \in Labels
    BY DEF Labels
  <1>7. ActorSound(a)'
    BY <1>1, <1>6, GotoTyped DEF ActorSound
  <1> QED
    BY <1>1, <1>2, <1>5, <1>6, <1>7, GotoTyped, RowsEnqueued

-----------------------------------------------------------------------------
(* Statements, time and other sources. *)

\* A statement that is stored is what its actor will report.
LEMMA StoreKeeps ==
  ASSUME QueueInv, NEW a \in Actors, Store(a)
  PROVE  QueueInv'
  <1>1. /\ RowsTyped /\ LocalsTyped /\ pc[a] = "ingest" /\ job[a] \in Problems
        /\ statement' = [statement EXCEPT ![job[a]] = "page"]
        /\ UNCHANGED <<row, job, read, dropped, withdrawn>>
    BY TypeParts DEF QueueInv, Store, ActorSound
  <1>2. PICK outcome \in {"succeeded", "partial"} :
          found' = [found EXCEPT ![a] = outcome] /\ pc' = [pc EXCEPT ![a] = "finish"]
    BY DEF Store, Goto
  <1>3. /\ statement' \in [Problems -> Statements]
        /\ \A p \in Problems : statement'[p] = IF p = job[a] THEN "page" ELSE statement[p]
    BY <1>1 DEF RowsTyped, Statements
  <1>4. "finish" \in Labels
    BY DEF Labels
  <1>5. LocalsTyped'
    BY <1>1, <1>2, <1>4 DEF LocalsTyped
  <1>6. TypeOK'
    BY <1>1, <1>3, <1>5 DEF TypeOK, RowsTyped, LocalsTyped
  <1>7. /\ pc'[a] = "finish" /\ found'[a] = outcome
        /\ \A d \in Actors : d # a => pc'[d] = pc[d] /\ job'[d] = job[d] /\ found'[d] = found[d]
    BY <1>1, <1>2 DEF LocalsTyped
  <1>8. Moves(a)
    BY <1>1, <1>3, <1>7 DEF Moves
  <1>9. ActorSound(a)'
    BY <1>1, <1>3, <1>7 DEF ActorSound, Done
  <1>10. NoneStuck(a)
    BY <1>1, <1>7 DEF NoneStuck, Works
  <1> QED
    BY <1>6, <1>8, <1>9, <1>10, StepKeeps

\* Time ends leases and delays, and an import overwrites statements: no actor moves, and
\* one that is about to report a statement which is taken away is said to be so.
LEMMA OutsideKeeps ==
  ASSUME QueueInv, TypeOK', UNCHANGED <<pc, job, found, dropped>>, withdrawn \subseteq withdrawn',
         \A p \in Problems, a \in Actors :
           statement[p] # "missing" /\ statement'[p] = "missing" /\ Reports(a, p) => a \in withdrawn',
         \A p \in Problems : Lost(row'[p]) => Lost(row[p])
  PROVE  QueueInv'
  <1>1. ASSUME NEW a \in Actors
        PROVE  ActorSound(a)'
    <2>1. ActorSound(a)
      BY DEF QueueInv
    <2>2. ASSUME pc[a] = "finish", found[a] \in Done
          PROVE  statement'[job[a]] # "missing" \/ a \in withdrawn'
      <3>1. Reports(a, job[a]) /\ job[a] \in Problems
        BY <2>1, <2>2 DEF ActorSound, Reports
      <3>2. statement[job[a]] # "missing" \/ a \in withdrawn
        BY <2>1, <2>2 DEF ActorSound
      <3> QED
        BY <3>1, <3>2
    <2> QED
      BY <2>1, <2>2 DEF ActorSound
  <1>2. StuckOnlyIfDropped'
    BY DEF QueueInv, StuckOnlyIfDropped, Lost, AtWork, Works
  <1> QED
    BY <1>1, <1>2 DEF QueueInv

LEMMA ImportKeeps ==
  ASSUME QueueInv, NEW p \in Problems, Import(p)
  PROVE  QueueInv'
  <1>1. RowsTyped /\ LocalsTyped /\ UNCHANGED <<row, pc, job, found, read, dropped>>
    BY TypeParts DEF QueueInv, Import
  <1>2. PICK new \in Statements :
          /\ statement' = [statement EXCEPT ![p] = new]
          /\ withdrawn' = IF new = "missing" THEN withdrawn \cup {a \in Actors : Reports(a, p)}
                          ELSE withdrawn
    BY DEF Import
  <1>3. /\ statement' \in [Problems -> Statements] /\ statement'[p] = new
        /\ \A q \in Problems : q # p => statement'[q] = statement[q]
    BY <1>1, <1>2 DEF RowsTyped
  <1>4. withdrawn' \subseteq Actors /\ withdrawn \subseteq withdrawn'
    BY <1>1, <1>2 DEF RowsTyped
  <1>5. TypeOK'
    BY <1>1, <1>3, <1>4 DEF TypeOK, RowsTyped, LocalsTyped
  <1>6. \A q \in Problems, a \in Actors :
          statement[q] # "missing" /\ statement'[q] = "missing" /\ Reports(a, q) => a \in withdrawn'
    BY <1>2, <1>3
  <1> QED
    BY <1>1, <1>4, <1>5, <1>6, OutsideKeeps

LEMMA TimeKeeps ==
  ASSUME QueueInv, NEW p \in Problems, LeaseEnds(p) \/ DelayEnds(p)
  PROVE  QueueInv'
  <1>1. /\ RowsTyped /\ LocalsTyped /\ row[p] \in Rows
        /\ UNCHANGED <<statement, pc, job, found, read, dropped, withdrawn>>
    BY TypeParts DEF QueueInv, RowsTyped, LeaseEnds, DelayEnds
  <1>2. ASSUME NEW r \in Rows, row' = [row EXCEPT ![p] = r], Lost(r) => Lost(row[p])
        PROVE  QueueInv'
    <2>1. row' \in [Problems -> Rows] /\ \A q \in Problems : Lost(row'[q]) => Lost(row[q])
      BY <1>1, <1>2 DEF RowsTyped
    <2>2. TypeOK'
      BY <1>1, <2>1 DEF TypeOK, RowsTyped, LocalsTyped
    <2> QED
      BY <1>1, <2>1, <2>2, OutsideKeeps
  <1>3. CASE LeaseEnds(p)
    <2> DEFINE r == [row[p] EXCEPT !.lease = "late", !.by = None]
    <2>1. r \in Rows /\ ~ Lost(r)
      BY <1>1 DEF Rows, Lost
    <2>2. row' = [row EXCEPT ![p] = r]
      BY <1>1, <1>3 DEF LeaseEnds, RowsTyped
    <2> QED
      BY <1>2, <2>1, <2>2
  <1>4. CASE DelayEnds(p)
    <2> DEFINE r == [row[p] EXCEPT !.due = TRUE]
    <2>1. r \in Rows /\ (Lost(r) => Lost(row[p]))
      BY <1>1 DEF Rows, Lost
    <2>2. row' = [row EXCEPT ![p] = r]
      BY <1>4 DEF DelayEnds
    <2> QED
      BY <1>2, <2>1, <2>2
  <1> QED
    BY <1>3, <1>4

-----------------------------------------------------------------------------
LEMMA InitInv == Init => QueueInv
  <1> SUFFICES ASSUME Init
               PROVE  QueueInv
    OBVIOUS
  <1>1. /\ NoRow \in Rows /\ "missing" \in Statements
        /\ NothingRead \in [missing : SUBSET Problems, absent : BOOLEAN]
    BY QueueAssumption DEF NothingRead, NoRow, Rows, Statuses, Statements
  <1>2. 0 \in 0..NumProblems /\ "idle" \in Labels
    BY QueueAssumption DEF Labels
  <1>3. TypeOK
    BY <1>1, <1>2 DEF Init, TypeOK
  <1>4. \A p \in Problems : row[p].status = "absent"
    BY DEF Init, NoRow
  <1>5. StuckOnlyIfDropped
    BY <1>4 DEF StuckOnlyIfDropped
  <1>6. \A a \in Actors : ActorSound(a)
    BY DEF Init, ActorSound
  <1> QED
    BY <1>3, <1>5, <1>6 DEF QueueInv

LEMMA StutterInv == QueueInv /\ UNCHANGED vars => QueueInv'
  BY DEF vars, QueueInv, TypeOK, StuckOnlyIfDropped, ActorSound, AtWork, Works

\* Every step keeps the invariant.
LEMMA Inductive ==
  ASSUME QueueInv, [Next]_vars
  PROVE  QueueInv'
  <1>1. ASSUME NEW a \in Actors, Handle(a)
        PROVE  QueueInv'
    BY <1>1, PrimeKeeps, EnqueueKeeps, ExpireKeeps, SelectKeeps, ClaimsKeep, FetchKeeps,
       RecordReadKeeps, RecordWriteKeeps, SkipKeeps, StoreKeeps, UnreadableKeeps, BumpKeeps,
       FinishKeeps
       DEF Handle
  <1>2. ASSUME NEW a \in Actors, Ask(a) \/ GiveUp(a) \/ Cut(a)
        PROVE  QueueInv'
    BY <1>2, AdminPageKeeps, TurnsKeep, CutKeeps DEF Ask
  <1> QED
    BY <1>1, <1>2, TimeKeeps, ImportKeeps, StutterInv DEF Next

\* QueueInv holds in every reachable state of the queue of cfdata/store.py, for any number
\* of problems, relays and administrators and any bound on the attempts.
THEOREM QueueInvariant == Spec => []QueueInv
  <1> QED
    BY InitInv, Inductive, PTL DEF Spec

\* Whoever leases, clears, claims and finishes the row of a problem at once
\* (lease_next_statement_jobs, record_statement_job_result), it stays in processing without
\* a lease only under the hands of an actor that will write it, unless its handling was cut
\* short: so "Expire abandoned leases" passes over no other row.
THEOREM QueueStuckOnlyIfDropped == Spec => []StuckOnlyIfDropped
  <1>1. QueueInv => StuckOnlyIfDropped
    BY DEF QueueInv
  <1> QED
    BY <1>1, QueueInvariant, PTL

\* No step but Finish calls a row done.
LEMMA OthersLeaveUndone ==
  ASSUME QueueInv, Next, NEW p \in Problems, row[p].status \notin Done, \A a \in Actors : ~ Finish(a)
  PROVE  row'[p].status \notin Done
  <1>1. RowsTyped /\ LocalsTyped /\ row[p] \in Rows
    BY TypeParts DEF QueueInv, RowsTyped
  <1>2. CASE UNCHANGED row
    BY <1>2
  <1>3. ASSUME NEW q \in Problems, NEW r, row' = [row EXCEPT ![q] = r],
               r.status \notin Done \/ r.status = row[q].status
        PROVE  row'[p].status \notin Done
    BY <1>1, <1>3 DEF RowsTyped
  <1>4. ASSUME NEW a \in Actors, Enqueue(a)
        PROVE  row'[p].status \notin Done
    <2>1. row'[p] = row[p] \/ row'[p] = Pending(p)
      BY <1>4 DEF Enqueue
    <2> QED
      BY <1>1, <2>1, PendingRow DEF Done
  <1>5. ASSUME NEW a \in Actors, Expire(a)
        PROVE  row'[p].status \notin Done
    <2>1. row'[p] \in {row[p], [row[p] EXCEPT !.status = "retrying", !.lease = "none", !.by = None]}
      BY <1>5 DEF Expire
    <2> QED
      BY <1>1, <2>1 DEF Done, Rows
  <1>6. ASSUME NEW a \in Actors, Claim(a) \/ Reclaim(a)
        PROVE  row'[p].status \notin Done
    <2>0. ActorSound(a) /\ pc[a] \in {"claim", "reclaim"} /\ row' = Claimed(job[a], a)
      BY <1>6 DEF QueueInv, Claim, Reclaim
    <2>1. PICK q \in Problems : q = job[a]
      BY <2>0 DEF ActorSound
    <2>2. \E r \in Rows : Claimed(q, a) = [row EXCEPT ![q] = r] /\ r.status = "processing"
      BY <1>1, ClaimedRow
    <2>3. row' = Claimed(q, a)
      BY <2>0, <2>1
    <2>4. PICK r \in Rows : row' = [row EXCEPT ![q] = r] /\ r.status = "processing"
      BY <2>2, <2>3
    <2>5. r.status \notin Done
      BY <2>4 DEF Done
    <2> QED
      BY <1>3, <2>4, <2>5
  <1>7. ASSUME NEW a \in Actors, RecordWrite(a)
        PROVE  row'[p].status \notin Done
    <2>1. PICK q \in Problems : q = job[a]
      BY <1>7 DEF QueueInv, RecordWrite, ActorSound
    <2> DEFINE r == [row[q] EXCEPT !.lease = "none", !.by = None]
    <2>2. row' = [row EXCEPT ![q] = r]
      BY <1>7, <2>1 DEF RecordWrite
    <2>3. r.status = row[q].status
      BY <1>1 DEF RowsTyped, Rows
    <2> HIDE DEF r
    <2> QED
      BY <1>3, <2>2, <2>3
  <1>8. ASSUME NEW a \in Actors, Bump(a)
        PROVE  row'[p].status \notin Done
    <2>1. PICK q \in Problems : q = job[a]
      BY <1>8 DEF QueueInv, Bump, ActorSound
    <2> DEFINE r == [row[q] EXCEPT !.status = "retrying", !.due = FALSE]
    <2>2. row' = [row EXCEPT ![q] = r]
      BY <1>8, <2>1 DEF Bump
    <2>3. r.status \notin Done
      BY <1>1 DEF RowsTyped, Rows, Done
    <2> HIDE DEF r
    <2> QED
      BY <1>3, <2>2, <2>3
  <1>9. ASSUME NEW q \in Problems, LeaseEnds(q) \/ DelayEnds(q)
        PROVE  row'[p].status \notin Done
    <2> DEFINE r == IF LeaseEnds(q) THEN [row[q] EXCEPT !.lease = "late", !.by = None]
                    ELSE [row[q] EXCEPT !.due = TRUE]
    <2>1. row[q] \in Rows
      BY <1>1 DEF RowsTyped
    <2>2. row' = [row EXCEPT ![q] = r]
      BY <1>1, <1>9 DEF LeaseEnds, DelayEnds, RowsTyped
    <2>3. r.status = row[q].status
      BY <2>1 DEF Rows
    <2> HIDE DEF r
    <2> QED
      BY <1>3, <2>2, <2>3
  <1>10. ASSUME NEW a \in Actors, Handle(a)
         PROVE  row'[p].status \notin Done
    BY <1>2, <1>4, <1>5, <1>6, <1>7, <1>8, <1>10
       DEF Handle, Prime, Select, Fetch, RecordRead, Skip, Store, Unreadable
  <1>11. ASSUME NEW a \in Actors, Ask(a) \/ GiveUp(a) \/ Cut(a)
         PROVE  row'[p].status \notin Done
    BY <1>2, <1>11 DEF Ask, AdminPage, AdminBatch, GiveUp, Cut
  <1>12. ASSUME NEW q \in Problems, Import(q)
         PROVE  row'[p].status \notin Done
    BY <1>2, <1>12 DEF Import
  <1> QED
    BY <1>9, <1>10, <1>11, <1>12 DEF Next

\* What the queue calls done has a statement to display at that moment, although two relays
\* may hold one job and finish it with different results (record_statement_job_result,
\* ingest_one), and though an import may take it away at any time: unless it has done so
\* between the ingestion and the finish of the actor that calls it done.
THEOREM QueueDoneWhenStored == Spec => DoneWhenStored
  <1> DEFINE DoneStep ==
        \A p \in Problems :
          row'[p].status \in Done /\ row[p].status \notin Done =>
            \/ statement'[p] # "missing"
            \/ \E a \in withdrawn : Reports(a, p)
  <1>1. ASSUME QueueInv, Next
        PROVE  DoneStep
    <2> SUFFICES ASSUME NEW p \in Problems, row'[p].status \in Done, row[p].status \notin Done
                 PROVE  statement'[p] # "missing" \/ \E a \in withdrawn : Reports(a, p)
      OBVIOUS
    <2>1. PICK a \in Actors : Finish(a)
      BY <1>1, OthersLeaveUndone
    <2>2. ActorSound(a) /\ RowsTyped /\ pc[a] = "finish"
      BY <1>1, <2>1, TypeParts DEF QueueInv, Finish
    <2> DEFINE told == IF found[a] = "gone" THEN "failed" ELSE found[a]
    <2>3. PICK q \in Problems : q = job[a]
      BY <2>2 DEF ActorSound
    <2>4. row' = [row EXCEPT ![q] = [row[q] EXCEPT !.status = told, !.due = TRUE]]
      BY <2>1, <2>3 DEF Finish
    <2>5. row[q] \in Rows /\ row \in [Problems -> Rows]
      BY <2>2 DEF RowsTyped
    <2>6. q = p
      BY <2>4, <2>5
    <2> HIDE DEF told
    <2>7. row'[p].status = told
      BY <2>4, <2>5, <2>6 DEF Rows
    <2>8. found[a] \in Done
      BY <2>7 DEF told, Done
    <2>9. Reports(a, p) /\ (statement[p] # "missing" \/ a \in withdrawn)
      BY <2>2, <2>3, <2>6, <2>8 DEF ActorSound, Reports
    <2>10. statement' = statement
      BY <2>1 DEF Finish
    <2> QED
      BY <2>9, <2>10
  <1>2. UNCHANGED vars => DoneStep
    BY DEF vars
  <1>3. QueueInv /\ [Next]_vars => [DoneStep]_vars
    BY <1>1, <1>2
  <1> HIDE DEF DoneStep
  <1>4. Spec => [][DoneStep]_vars
    BY <1>3, QueueInvariant, PTL DEF Spec
  <1> QED
    BY <1>4 DEF DoneStep, DoneWhenStored

-----------------------------------------------------------------------------
(***************************************************************************)
(* ContestPipeline.  What a thread has in hand, and the rest.              *)
(***************************************************************************)

HandsTyped ==
  /\ at \in [Threads -> WatchLabels \cup SyncLabels]
  /\ todo \in [Threads -> SUBSET Contests]
  /\ this \in [Threads -> Contests \cup {Nil}]
  /\ fetched \in [Threads -> SUBSET Contests]
  /\ was \in [Threads -> Phases]

RecordsTyped ==
  /\ published \subseteq finished /\ finished \subseteq Contests
  /\ cached \in {Nil} \cup SUBSET Contests
  /\ phase \in [Contests -> Phases] /\ status \in [Contests -> PipelineStatuses]
  /\ catalog \subseteq Contests /\ indexed \subseteq Contests
  /\ syncing \subseteq Threads /\ orphaned \in BOOLEAN

HistoryTyped ==
  /\ lost \in Nat /\ failed \in Nat /\ lost + failed <= MaxFaults
  /\ abandoned \subseteq Contests

LEMMA PipelineTypeParts == PipelineTypeOK <=> HandsTyped /\ RecordsTyped /\ HistoryTyped
  BY DEF PipelineTypeOK, HandsTyped, RecordsTyped, HistoryTyped

\* The other threads have in hand what they had.
Alone(t) ==
  \A d \in Threads :
    d # t => /\ at'[d] = at[d] /\ todo'[d] = todo[d]
             /\ this'[d] = this[d] /\ fetched'[d] = fetched[d]

\* Contests stay finished, published and imported.
Grows ==
  /\ finished \subseteq finished' /\ published \subseteq published' /\ catalog \subseteq catalog'
  /\ abandoned \subseteq abandoned'

\* A thread has a sync job exactly while it is at these labels.
HasJob(t) == at[t] \in {"fetch", "save", "end", "abort"}

\* The job of t is where t is, and the jobs of others stay.
JobsFollow(t) ==
  /\ \A d \in Threads : d # t => (d \in syncing' <=> d \in syncing)
  /\ t \in syncing' <=> HasJob(t)'

Handles(w, c) == w \in Watchers /\ this[w] = c /\ Processing(w)

\* A contest that is running is in the hands of t, or was running before and t has not
\* turned away from it.
RunningFollows(t) ==
  \A c \in Contests :
    status'[c] = "running" =>
      \/ Handles(t, c)'
      \/ status[c] = "running" /\ (Handles(t, c) => c \in abandoned')

\* What another thread relies on stays.
LEMMA OthersKeep ==
  ASSUME NEW t \in Threads, NEW d \in Threads, d # t, Alone(t), Grows, ThreadSound(d)
  PROVE  ThreadSound(d)'
  <1>1. at'[d] = at[d] /\ todo'[d] = todo[d] /\ this'[d] = this[d] /\ fetched'[d] = fetched[d]
    BY DEF Alone
  <1> QED
    BY <1>1 DEF Grows, ThreadSound, Processing

\* So a step has to be checked for the thread that takes it.
LEMMA ThreadStep ==
  ASSUME PipelineInv, NEW t \in Threads, Alone(t), Grows, HandsTyped', RecordsTyped',
         HistoryTyped', JobsFollow(t), orphaned' => lost' > 0, RunningFollows(t), FlowSound',
         ThreadSound(t)'
  PROVE  PipelineInv'
  <1>1. PipelineTypeOK'
    BY DEF PipelineTypeOK, HandsTyped, RecordsTyped, HistoryTyped
  <1>2. \A d \in Threads : ThreadSound(d)'
    BY OthersKeep DEF PipelineInv
  <1>3. SyncWorkedOn'
    <2>1. ASSUME NEW d \in Threads
          PROVE  d \in syncing' <=> at'[d] \in {"fetch", "save", "end", "abort"}
      BY DEF PipelineInv, SyncWorkedOn, JobsFollow, HasJob, Alone
    <2> QED
      BY <2>1 DEF SyncWorkedOn
  <1>4. ASSUME NEW c \in Contests, status'[c] = "running"
        PROVE  c \in abandoned' \/ \E w \in Watchers : Handles(w, c)'
    <2>1. CASE Handles(t, c)'
      BY <2>1 DEF Handles
    <2>2. CASE status[c] = "running" /\ (Handles(t, c) => c \in abandoned')
      <3>1. c \in abandoned \/ \E w \in Watchers : Handles(w, c)
        BY <2>2 DEF PipelineInv, RunningWorkedOn, Handles
      <3>2. ASSUME NEW w \in Watchers, w # t, Handles(w, c)
            PROVE  Handles(w, c)'
        <4>1. at'[w] = at[w] /\ this'[w] = this[w]
          BY <3>2 DEF Alone, Threads
        <4> QED
          BY <3>2, <4>1 DEF Handles, Processing
      <3> QED
        BY <2>2, <3>1, <3>2 DEF Grows
    <2> QED
      BY <1>4, <2>1, <2>2 DEF RunningFollows
  <1>5. RunningWorkedOn'
    BY <1>4 DEF RunningWorkedOn, Handles
  <1> QED
    BY <1>1, <1>2, <1>3, <1>5 DEF PipelineInv

-----------------------------------------------------------------------------
(* Where a step leaves its thread. *)

LEMMA Advanced ==
  ASSUME HandsTyped, NEW t \in Threads, NEW label \in WatchLabels \cup SyncLabels,
         Advance(t, label)
  PROVE  /\ at' \in [Threads -> WatchLabels \cup SyncLabels] /\ at'[t] = label
         /\ \A d \in Threads : d # t => at'[d] = at[d]
  BY DEF HandsTyped, Advance

LEMMA Taken ==
  ASSUME HandsTyped, NEW w \in Threads, NEW left \in SUBSET Contests,
         NEW label \in WatchLabels, NEW after \in WatchLabels, Take(w, left, label, after)
  PROVE  /\ at' \in [Threads -> WatchLabels \cup SyncLabels]
         /\ todo' \in [Threads -> SUBSET Contests]
         /\ this' \in [Threads -> Contests \cup {Nil}]
         /\ \A d \in Threads :
              d # w => at'[d] = at[d] /\ todo'[d] = todo[d] /\ this'[d] = this[d]
         /\ \/ at'[w] = after /\ todo'[w] = {} /\ this'[w] = Nil
            \/ at'[w] = label /\ todo'[w] \subseteq left /\ this'[w] \in left
  <1>1. CASE left = {}
    BY <1>1 DEF HandsTyped, Take, Advance
  <1>2. CASE left # {}
    <2>1. PICK c \in left : /\ Advance(w, label)
                            /\ todo' = [todo EXCEPT ![w] = left \ {c}]
                            /\ this' = [this EXCEPT ![w] = c]
      BY <1>2 DEF Take
    <2> QED
      BY <2>1 DEF HandsTyped, Advance
  <1> QED
    BY <1>1, <1>2

\* A step that changes neither the contests nor the catalogue nor the jobs.
LEMMA HandsStep ==
  ASSUME PipelineInv, NEW t \in Threads, Alone(t), HandsTyped', HistoryTyped',
         UNCHANGED <<codeforces, contests, library, jobs>>, abandoned \subseteq abandoned',
         lost' >= lost,
         HasJob(t)' <=> HasJob(t), \A c \in Contests : Handles(t, c) => Handles(t, c)' \/ c \in abandoned',
         ThreadSound(t)'
  PROVE  PipelineInv'
  <1>1. Grows
    BY DEF Grows, codeforces, library
  <1>2. RecordsTyped'
    BY DEF PipelineInv, PipelineTypeOK, RecordsTyped, codeforces, contests, library, jobs
  <1>3. JobsFollow(t)
    BY DEF PipelineInv, SyncWorkedOn, JobsFollow, HasJob, jobs
  <1>4. orphaned' => lost' > 0
    BY DEF PipelineInv, PipelineTypeOK, SyncWorkedOn, jobs, HistoryTyped
  <1>5. RunningFollows(t)
    BY DEF RunningFollows, contests
  <1>6. FlowSound'
    BY DEF PipelineInv, FlowSound, codeforces, contests, library
  <1> QED
    BY <1>1, <1>2, <1>3, <1>4, <1>5, <1>6, ThreadStep

\* What the invariant says of one thread.
LEMMA InHand ==
  ASSUME PipelineInv, NEW t \in Threads
  PROVE  HandsTyped /\ RecordsTyped /\ HistoryTyped /\ ThreadSound(t)
  BY PipelineTypeParts DEF PipelineInv

LEMMA IsThread == ASSUME NEW w \in Watchers PROVE w \in Threads /\ w \notin Syncers
  BY PipelineAssumption DEF Threads

\* Nothing is lost, and no call fails.
LEMMA HistoryStays ==
  ASSUME PipelineInv, UNCHANGED history
  PROVE  HistoryTyped' /\ abandoned' = abandoned /\ lost' = lost /\ lost \in Nat
  BY DEF PipelineInv, PipelineTypeOK, HistoryTyped, history

\* A thread that goes to a label with what it has in hand.
LEMMA GoesOn ==
  ASSUME PipelineInv, NEW t \in Threads, NEW label \in WatchLabels \cup SyncLabels,
         Advance(t, label), UNCHANGED <<todo, this, fetched, was>>
  PROVE  HandsTyped' /\ Alone(t) /\ at'[t] = label
  <1>1. HandsTyped
    BY InHand
  <1>2. /\ at' \in [Threads -> WatchLabels \cup SyncLabels] /\ at'[t] = label
        /\ \A d \in Threads : d # t => at'[d] = at[d]
    BY <1>1, Advanced
  <1> QED
    BY <1>1, <1>2 DEF HandsTyped, Alone

\* A watcher that handles nothing, and writes neither contests nor catalogue nor jobs.
LEMMA IdleStep ==
  ASSUME PipelineInv, NEW w \in Threads, Alone(w), HandsTyped',
         UNCHANGED <<codeforces, contests, library, jobs, history>>, ~ HasJob(w), ~ HasJob(w)',
         \A c \in Contests : ~ Handles(w, c), ThreadSound(w)'
  PROVE  PipelineInv'
  <1>1. HistoryTyped' /\ abandoned' = abandoned /\ lost' = lost /\ lost \in Nat
    BY HistoryStays
  <1> QED
    BY <1>1, HandsStep

-----------------------------------------------------------------------------
(* The poll. *)

\* A watcher that takes the next contest of its list, or goes on when none is left: it
\* processes nothing before and nothing after.
LEMMA TakeNext ==
  ASSUME PipelineInv, NEW w \in Watchers, NEW left \in SUBSET Contests,
         NEW label \in {"look", "recheck", "start"}, NEW after \in {"idle", "backfill", "tick"},
         Take(w, left, label, after), label # "look" => left \subseteq finished,
         fetched' \in [Threads -> SUBSET Contests], fetched'[w] \subseteq finished,
         \A d \in Threads : d # w => fetched'[d] = fetched[d],
         finished' = finished, published' = published, catalog' = catalog, syncing' = syncing,
         was' \in [Threads -> Phases], ~ HasJob(w)
  PROVE  /\ HandsTyped' /\ Alone(w) /\ ThreadSound(w)' /\ JobsFollow(w)
         /\ ~ Processing(w)'
  <1>1. HandsTyped /\ w \in Threads /\ w \notin Syncers
    BY InHand, IsThread
  <1>2. label \in WatchLabels /\ after \in WatchLabels
    BY DEF WatchLabels
  <1>3. /\ at' \in [Threads -> WatchLabels \cup SyncLabels]
        /\ todo' \in [Threads -> SUBSET Contests]
        /\ this' \in [Threads -> Contests \cup {Nil}]
        /\ \A d \in Threads :
             d # w => at'[d] = at[d] /\ todo'[d] = todo[d] /\ this'[d] = this[d]
        /\ \/ at'[w] = after /\ todo'[w] = {} /\ this'[w] = Nil
           \/ at'[w] = label /\ todo'[w] \subseteq left /\ this'[w] \in left
    BY <1>1, <1>2, Taken
  <1>4. HandsTyped' /\ Alone(w)
    BY <1>3 DEF HandsTyped, Alone
  <1>5. ~ Processing(w)' /\ ~ HasJob(w)'
    BY <1>3 DEF Processing, SyncLabels, HasJob
  <1>6. JobsFollow(w)
    BY <1>1, <1>5 DEF JobsFollow, PipelineInv, SyncWorkedOn, HasJob
  <1>7. ThreadSound(w)'
    BY <1>1, <1>3, <1>5 DEF ThreadSound
  <1> QED
    BY <1>4, <1>5, <1>6, <1>7

LEMMA PollKeeps == ASSUME PipelineInv, NEW w \in Watchers, Poll(w) PROVE PipelineInv'
  <1>1. HandsTyped /\ RecordsTyped /\ HistoryTyped /\ w \in Threads
    BY InHand, IsThread
  <1>2. /\ fetched' \in [Threads -> SUBSET Contests] /\ fetched'[w] = finished
        /\ \A d \in Threads : d # w => fetched'[d] = fetched[d]
    BY <1>1 DEF Poll, HandsTyped, RecordsTyped
  <1>3. was' \in [Threads -> Phases] /\ ~ HasJob(w) /\ ~ Processing(w)
    BY <1>1 DEF Poll, HandsTyped, HasJob, Processing, SyncLabels
  <1>4. UNCHANGED <<codeforces, contests, library, jobs, history>> /\ Take(w, Contests, "look", "backfill")
    BY DEF Poll
  <1>5. HandsTyped' /\ Alone(w) /\ ThreadSound(w)' /\ JobsFollow(w) /\ ~ Processing(w)'
    BY <1>2, <1>3, <1>4, TakeNext DEF codeforces, library, jobs
  <1>6. \A c \in Contests : ~ Handles(w, c)
    BY <1>3 DEF Handles
  <1>7. ~ HasJob(w)'
    BY <1>5 DEF HasJob, Processing, SyncLabels
  <1> QED
    BY <1>1, <1>3, <1>4, <1>5, <1>6, <1>7, IdleStep

LEMMA LookKeeps == ASSUME PipelineInv, NEW w \in Watchers, Look(w) PROVE PipelineInv'
  <1>1. HandsTyped /\ RecordsTyped /\ HistoryTyped /\ ThreadSound(w) /\ w \in Threads /\ w \notin Syncers
    BY InHand, IsThread
  <1>2. /\ at' \in [Threads -> WatchLabels \cup SyncLabels] /\ at'[w] = "upsert"
        /\ \A d \in Threads : d # w => at'[d] = at[d]
    BY <1>1, Advanced DEF Look, WatchLabels
  <1>3. this[w] \in Contests
    BY <1>1 DEF Look, ThreadSound
  <1>4. HandsTyped'
    BY <1>1, <1>2, <1>3 DEF Look, HandsTyped, RecordsTyped
  <1>5. ThreadSound(w)' /\ Alone(w)
    BY <1>1, <1>2, <1>3 DEF Look, ThreadSound, Alone, Processing, SyncLabels, codeforces
  <1>6. UNCHANGED <<codeforces, contests, library, jobs, history>>
    BY DEF Look
  <1>7. ~ HasJob(w) /\ ~ HasJob(w)' /\ \A c \in Contests : ~ Handles(w, c)
    BY <1>2 DEF Look, HasJob, Handles, Processing, SyncLabels
  <1> QED
    BY <1>1, <1>4, <1>5, <1>6, <1>7, IdleStep

\* The contest list does not run ahead of Codeforces.
LEMMA PhaseWritten ==
  ASSUME PipelineInv, NEW c \in Contests, NEW now \in {"FINISHED", "before"},
         phase' = [phase EXCEPT ![c] = now], now = "FINISHED" => c \in finished,
         UNCHANGED <<codeforces, status, library, jobs>>
  PROVE  RecordsTyped' /\ FlowSound'
  <1>1. phase' \in [Contests -> Phases]
    BY DEF PipelineInv, PipelineTypeOK, Phases
  <1>2. RecordsTyped'
    BY <1>1 DEF PipelineInv, PipelineTypeOK, RecordsTyped, codeforces, library, jobs
  <1>3. ASSUME NEW d \in Contests, phase'[d] = "FINISHED"
        PROVE  d \in finished
    <2>1. CASE d = c
      BY <1>3, <2>1 DEF PipelineInv, PipelineTypeOK
    <2>2. CASE d # c
      BY <1>3, <2>2 DEF PipelineInv, PipelineTypeOK, FlowSound
    <2> QED
      BY <2>1, <2>2
  <1> QED
    BY <1>2, <1>3 DEF PipelineInv, FlowSound, codeforces, library

LEMMA UpsertKeeps == ASSUME PipelineInv, NEW w \in Watchers, Upsert(w) PROVE PipelineInv'
  <1> DEFINE now == IF this[w] \in fetched[w] THEN "FINISHED" ELSE "before"
  <1>1. HandsTyped /\ RecordsTyped /\ HistoryTyped /\ ThreadSound(w) /\ w \in Threads /\ w \notin Syncers
    BY InHand, IsThread
  <1>2. this[w] \in Contests /\ fetched[w] \subseteq finished /\ at[w] = "upsert"
    BY <1>1 DEF Upsert, ThreadSound
  <1>3. UNCHANGED <<codeforces, status, library, jobs, fetched, was, history>>
    BY DEF Upsert
  <1>4. RecordsTyped' /\ FlowSound'
    BY <1>2, <1>3, PhaseWritten DEF Upsert
  <1>5. HandsTyped' /\ Alone(w) /\ ThreadSound(w)' /\ JobsFollow(w)
    <2>1. CASE now = "FINISHED" /\ was[w] # "FINISHED"
      <3>1. Advance(w, "check") /\ UNCHANGED <<todo, this, fetched, was>>
        BY <1>3, <2>1 DEF Upsert
      <3>2. HandsTyped' /\ Alone(w) /\ at'[w] = "check"
        BY <1>1, <3>1, GoesOn DEF WatchLabels
      <3>3. this[w] \in finished
        BY <1>2, <2>1
      <3>4. ThreadSound(w)'
        BY <1>1, <1>2, <1>3, <3>1, <3>2, <3>3 DEF ThreadSound, Processing, SyncLabels, codeforces
      <3>5. JobsFollow(w)
        BY <1>2, <1>3, <3>2 DEF JobsFollow, HasJob, PipelineInv, SyncWorkedOn, jobs, Threads
      <3> QED
        BY <3>2, <3>4, <3>5
    <2>2. CASE ~ (now = "FINISHED" /\ was[w] # "FINISHED")
      <3>1. Take(w, todo[w], "look", "backfill")
        BY <2>2 DEF Upsert
      <3>2. todo[w] \in SUBSET Contests /\ ~ HasJob(w)
        BY <1>1, <1>2 DEF HandsTyped, HasJob
      <3>3. /\ fetched' \in [Threads -> SUBSET Contests] /\ fetched'[w] \subseteq finished
            /\ \A d \in Threads : d # w => fetched'[d] = fetched[d]
            /\ was' \in [Threads -> Phases]
        BY <1>1, <1>2, <1>3 DEF HandsTyped
      <3> QED
        BY <1>3, <3>1, <3>2, <3>3, TakeNext DEF codeforces, library, jobs
    <2> QED
      BY <2>1, <2>2
  <1>6. HistoryTyped' /\ abandoned' = abandoned /\ lost' = lost
    BY <1>3, HistoryStays
  <1>7. RunningFollows(w)
    BY <1>2, <1>3 DEF RunningFollows, Handles, Processing, SyncLabels
  <1>8. Grows /\ (orphaned' => lost' > 0)
    BY <1>3, <1>6 DEF Grows, codeforces, library, jobs, PipelineInv, SyncWorkedOn
  <1> QED
    BY <1>1, <1>4, <1>5, <1>6, <1>7, <1>8, ThreadStep

-----------------------------------------------------------------------------
(* The queue of contests. *)

LEMMA CheckKeeps == ASSUME PipelineInv, NEW w \in Watchers, Check(w) PROVE PipelineInv'
  <1>1. HandsTyped /\ RecordsTyped /\ ThreadSound(w) /\ w \in Threads /\ w \notin Syncers
    BY InHand, IsThread
  <1>2. /\ this[w] \in finished /\ this[w] \in Contests /\ fetched[w] \subseteq finished
        /\ at[w] \in {"check", "recheck"} /\ todo[w] \in SUBSET Contests
        /\ at[w] = "recheck" => todo[w] \subseteq finished
    BY <1>1 DEF Check, ThreadSound, HandsTyped
  <1>3. UNCHANGED <<codeforces, contests, library, jobs, fetched, was, history>>
    BY DEF Check
  <1>4. ~ HasJob(w) /\ \A c \in Contests : ~ Handles(w, c)
    BY <1>2 DEF HasJob, Handles, Processing, SyncLabels
  <1>5. CASE status[this[w]] \in Begun
    <2>1. PICK label \in {"look", "recheck"}, after \in {"backfill", "tick"} :
            Take(w, todo[w], label, after) /\ (label = "recheck" => at[w] = "recheck")
      BY <1>2, <1>5 DEF Check
    <2>2. /\ fetched' \in [Threads -> SUBSET Contests] /\ fetched'[w] \subseteq finished
          /\ \A d \in Threads : d # w => fetched'[d] = fetched[d]
          /\ was' \in [Threads -> Phases]
      BY <1>1, <1>2, <1>3 DEF HandsTyped
    <2>3. HandsTyped' /\ Alone(w) /\ ThreadSound(w)' /\ JobsFollow(w) /\ ~ Processing(w)'
      BY <1>2, <1>3, <1>4, <2>1, <2>2, TakeNext DEF codeforces, library, jobs
    <2> QED
      BY <1>1, <1>3, <1>4, <2>3, IdleStep DEF HasJob, Processing, SyncLabels
  <1>6. CASE status[this[w]] \notin Begun
    <2>1. PICK label \in {"queue", "requeue"} :
            Advance(w, label) /\ (label = "requeue" => at[w] = "recheck")
      BY <1>2, <1>6 DEF Check
    <2>2. UNCHANGED <<todo, this, fetched, was>>
      BY <1>3, <1>6 DEF Check
    <2>3. HandsTyped' /\ Alone(w) /\ at'[w] = label
      BY <1>1, <2>1, <2>2, GoesOn DEF WatchLabels
    <2>4. ThreadSound(w)'
      BY <1>1, <1>2, <1>3, <2>1, <2>2, <2>3 DEF ThreadSound, Processing, SyncLabels, codeforces
    <2>5. ~ HasJob(w)'
      BY <2>3 DEF HasJob
    <2> QED
      BY <1>1, <1>3, <1>4, <2>3, <2>4, <2>5, IdleStep
  <1> QED
    BY <1>5, <1>6

\* The status of a contest that is over is written.
LEMMA StatusWritten ==
  ASSUME PipelineInv, NEW c \in Contests, NEW s \in PipelineStatuses,
         status' = [status EXCEPT ![c] = s], c \in finished,
         UNCHANGED <<codeforces, phase, library, jobs>>
  PROVE  /\ RecordsTyped' /\ FlowSound' /\ status'[c] = s
         /\ \A d \in Contests : d # c => status'[d] = status[d]
  <1>1. /\ status' \in [Contests -> PipelineStatuses] /\ status'[c] = s
        /\ \A d \in Contests : d # c => status'[d] = status[d]
    BY DEF PipelineInv, PipelineTypeOK
  <1>2. RecordsTyped'
    BY <1>1 DEF PipelineInv, PipelineTypeOK, RecordsTyped, codeforces, library, jobs
  <1> QED
    BY <1>1, <1>2 DEF PipelineInv, FlowSound, codeforces, library

\* A watcher writes a status other than running, of the contest that it has in hand, and
\* takes the next one.
LEMMA WriteAndTake ==
  ASSUME PipelineInv, NEW w \in Watchers, NEW s \in PipelineStatuses, s # "running",
         this[w] \in finished, status' = [status EXCEPT ![this[w]] = s],
         NEW label \in {"look", "recheck", "start"}, NEW after \in {"idle", "backfill", "tick"},
         Take(w, todo[w], label, after), label # "look" => todo[w] \subseteq finished,
         ~ HasJob(w), UNCHANGED <<codeforces, phase, library, jobs, fetched, was, history>>
  PROVE  PipelineInv'
  <1>1. HandsTyped /\ RecordsTyped /\ ThreadSound(w) /\ w \in Threads /\ w \notin Syncers
    BY InHand, IsThread
  <1>2. this[w] \in Contests /\ todo[w] \in SUBSET Contests
    BY <1>1 DEF HandsTyped, RecordsTyped
  <1>3. /\ RecordsTyped' /\ FlowSound' /\ status'[this[w]] = s
        /\ \A d \in Contests : d # this[w] => status'[d] = status[d]
    BY <1>2, StatusWritten
  <1>4. /\ fetched' \in [Threads -> SUBSET Contests] /\ fetched'[w] \subseteq finished
        /\ \A d \in Threads : d # w => fetched'[d] = fetched[d]
        /\ was' \in [Threads -> Phases]
    BY <1>1 DEF HandsTyped, ThreadSound
  <1>5. HandsTyped' /\ Alone(w) /\ ThreadSound(w)' /\ JobsFollow(w)
    BY <1>2, <1>4, TakeNext DEF codeforces, library, jobs
  <1>6. HistoryTyped' /\ abandoned' = abandoned /\ lost' = lost
    BY HistoryStays
  <1>7. RunningFollows(w)
    BY <1>3 DEF RunningFollows, Handles
  <1>8. Grows /\ (orphaned' => lost' > 0)
    BY <1>6 DEF Grows, codeforces, library, jobs, PipelineInv, SyncWorkedOn
  <1> QED
    BY <1>1, <1>3, <1>5, <1>6, <1>7, <1>8, ThreadStep

LEMMA QueueKeeps == ASSUME PipelineInv, NEW w \in Watchers, Queue(w) PROVE PipelineInv'
  <1>1. ThreadSound(w)
    BY InHand, IsThread
  <1>2. /\ this[w] \in finished /\ ~ HasJob(w)
        /\ at[w] = "requeue" => todo[w] \subseteq finished
    BY <1>1 DEF Queue, ThreadSound, HasJob
  <1>3. "queued" \in PipelineStatuses
    BY DEF PipelineStatuses
  <1>4. CASE at[w] = "queue"
    BY <1>2, <1>3, <1>4, WriteAndTake DEF Queue
  <1>5. CASE at[w] = "requeue"
    BY <1>2, <1>3, <1>5, WriteAndTake DEF Queue
  <1> QED
    BY <1>4, <1>5 DEF Queue

LEMMA CompleteKeeps == ASSUME PipelineInv, NEW w \in Watchers, Complete(w) PROVE PipelineInv'
  <1>1. ThreadSound(w)
    BY InHand, IsThread
  <1>2. this[w] \in finished /\ todo[w] \subseteq finished /\ ~ HasJob(w)
    BY <1>1 DEF Complete, ThreadSound, HasJob, Processing
  <1> QED
    BY <1>2, WriteAndTake DEF Complete, PipelineStatuses

LEMMA FailKeeps == ASSUME PipelineInv, NEW w \in Watchers, Fail(w) PROVE PipelineInv'
  <1>1. ThreadSound(w)
    BY InHand, IsThread
  <1>2. this[w] \in finished /\ todo[w] \subseteq finished /\ ~ HasJob(w)
    BY <1>1 DEF Fail, ThreadSound, HasJob, Processing
  <1> QED
    BY <1>2, WriteAndTake DEF Fail, PipelineStatuses

LEMMA BackfillKeeps == ASSUME PipelineInv, NEW w \in Watchers, Backfill(w) PROVE PipelineInv'
  <1> DEFINE idle == {c \in Contests : phase[c] = "FINISHED" /\ status[c] = "idle"}
  <1>1. HandsTyped /\ w \in Threads
    BY InHand, IsThread
  <1>2. idle \in SUBSET Contests /\ idle \subseteq finished
    BY DEF PipelineInv, FlowSound
  <1>3. /\ fetched' \in [Threads -> SUBSET Contests] /\ fetched'[w] \subseteq finished
        /\ \A d \in Threads : d # w => fetched'[d] = fetched[d]
    BY <1>1 DEF Backfill, HandsTyped
  <1>4. was' \in [Threads -> Phases]
    BY <1>1 DEF Backfill, HandsTyped, Phases
  <1>5. ~ HasJob(w) /\ \A c \in Contests : ~ Handles(w, c)
    BY DEF Backfill, HasJob, Handles, Processing, SyncLabels
  <1>6. /\ UNCHANGED <<codeforces, contests, library, jobs, history>>
        /\ Take(w, idle, "recheck", "tick")
    BY DEF Backfill
  <1>7. HandsTyped' /\ Alone(w) /\ ThreadSound(w)' /\ JobsFollow(w) /\ ~ Processing(w)'
    <2> HIDE DEF idle
    <2> QED
      BY <1>2, <1>3, <1>4, <1>5, <1>6, TakeNext DEF codeforces, library, jobs
  <1> QED
    BY <1>1, <1>5, <1>6, <1>7, IdleStep DEF HasJob, Processing, SyncLabels

LEMMA TickKeeps == ASSUME PipelineInv, NEW w \in Watchers, Tick(w) PROVE PipelineInv'
  <1>1. HandsTyped /\ ThreadSound(w) /\ w \in Threads /\ w \notin Syncers
    BY InHand, IsThread
  <1>2. PICK queued \in SUBSET With("queued") : todo' = [todo EXCEPT ![w] = queued]
    BY DEF Tick
  <1>3. queued \subseteq Contests /\ queued \subseteq finished
    BY <1>2 DEF With, PipelineInv, FlowSound
  <1>4. /\ at' \in [Threads -> WatchLabels \cup SyncLabels] /\ at'[w] = "retry"
        /\ \A d \in Threads : d # w => at'[d] = at[d]
    BY <1>1, Advanced DEF Tick, WatchLabels
  <1>5. /\ todo' \in [Threads -> SUBSET Contests] /\ todo'[w] = queued
        /\ \A d \in Threads : d # w => todo'[d] = todo[d]
    BY <1>1, <1>2, <1>3 DEF HandsTyped
  <1>6. HandsTyped' /\ Alone(w)
    BY <1>1, <1>4, <1>5 DEF Tick, HandsTyped, Alone
  <1>7. ThreadSound(w)'
    BY <1>1, <1>3, <1>4, <1>5 DEF Tick, ThreadSound, Processing, SyncLabels, codeforces
  <1>8. ~ HasJob(w) /\ ~ HasJob(w)' /\ \A c \in Contests : ~ Handles(w, c)
    BY <1>4 DEF Tick, HasJob, Handles, Processing, SyncLabels
  <1> QED
    BY <1>1, <1>6, <1>7, <1>8, IdleStep DEF Tick

LEMMA RetryKeeps == ASSUME PipelineInv, NEW w \in Watchers, Retry(w) PROVE PipelineInv'
  <1>1. HandsTyped /\ ThreadSound(w) /\ w \in Threads /\ w \notin Syncers
    BY InHand, IsThread
  <1>2. PICK retried \in SUBSET With("failed") : Take(w, todo[w] \cup retried, "start", "idle")
    BY DEF Retry
  <1>3. retried \subseteq Contests /\ retried \subseteq finished
    BY <1>2 DEF With, PipelineInv, FlowSound
  <1>4. todo[w] \cup retried \in SUBSET Contests /\ todo[w] \cup retried \subseteq finished
    BY <1>1, <1>3 DEF HandsTyped, ThreadSound, Retry
  <1>5. /\ fetched' \in [Threads -> SUBSET Contests] /\ fetched'[w] \subseteq finished
        /\ \A d \in Threads : d # w => fetched'[d] = fetched[d]
        /\ was' \in [Threads -> Phases]
    BY <1>1 DEF Retry, HandsTyped, ThreadSound
  <1>6. ~ HasJob(w) /\ \A c \in Contests : ~ Handles(w, c)
    BY DEF Retry, HasJob, Handles, Processing, SyncLabels
  <1>7. UNCHANGED <<codeforces, contests, library, jobs, history>>
    BY DEF Retry
  <1>8. HandsTyped' /\ Alone(w) /\ ThreadSound(w)' /\ JobsFollow(w) /\ ~ Processing(w)'
    BY <1>2, <1>4, <1>5, <1>6, <1>7, TakeNext DEF codeforces, library, jobs
  <1> QED
    BY <1>1, <1>6, <1>7, <1>8, IdleStep DEF HasJob, Processing, SyncLabels

-----------------------------------------------------------------------------
(* Processing a contest. *)

LEMMA StartKeeps == ASSUME PipelineInv, NEW w \in Watchers, Start(w) PROVE PipelineInv'
  <1>1. HandsTyped /\ ThreadSound(w) /\ w \in Threads /\ w \notin Syncers
    BY InHand, IsThread
  <1>2. this[w] \in finished /\ this[w] \in Contests
    BY <1>1 DEF Start, ThreadSound
  <1>3. HandsTyped' /\ Alone(w) /\ at'[w] = "find"
    BY <1>1, GoesOn DEF Start, SyncLabels
  <1>4. /\ RecordsTyped' /\ FlowSound'
        /\ \A d \in Contests : d # this[w] => status'[d] = status[d]
    BY <1>2, StatusWritten DEF Start, PipelineStatuses
  <1>5. ThreadSound(w)'
    BY <1>1, <1>2, <1>3 DEF Start, ThreadSound, Processing, SyncLabels, codeforces
  <1>6. Handles(w, this[w])' /\ \A c \in Contests : ~ Handles(w, c)
    BY <1>3 DEF Start, Handles, Processing, SyncLabels
  <1>7. RunningFollows(w)
    BY <1>4, <1>6 DEF RunningFollows, Start, Handles
  <1>8. JobsFollow(w)
    BY <1>1, <1>3 DEF Start, JobsFollow, HasJob, PipelineInv, SyncWorkedOn, jobs
  <1>9. HistoryTyped' /\ abandoned' = abandoned /\ lost' = lost
    BY HistoryStays DEF Start
  <1>10. Grows /\ (orphaned' => lost' > 0)
    BY <1>9 DEF Start, Grows, codeforces, library, jobs, PipelineInv, SyncWorkedOn
  <1> QED
    BY <1>1, <1>3, <1>4, <1>5, <1>7, <1>8, <1>9, <1>10, ThreadStep

\* A thread that goes from one label to another of the same contest, or has none.
LEMMA GoesOnKeeps ==
  ASSUME PipelineInv, NEW t \in Threads, NEW label \in WatchLabels \cup SyncLabels,
         Advance(t, label), UNCHANGED <<codeforces, contests, library, jobs, todo, this, fetched, was>>,
         HistoryTyped', abandoned' = abandoned, lost' = lost, HasJob(t) <=> HasJob(t)',
         t \in Syncers => label \in SyncLabels \cup {"idle"},
         t \in Watchers => Processing(t) /\ Processing(t)',
         label # "save", label = "index" => this[t] \in catalog
  PROVE  PipelineInv'
  <1>1. HandsTyped /\ HistoryTyped /\ ThreadSound(t)
    BY InHand
  <1>2. HandsTyped' /\ Alone(t) /\ at'[t] = label
    BY GoesOn
  <1>3. ThreadSound(t)'
    <2>1. t \in Watchers => /\ at[t] \notin {"idle", "look", "upsert", "backfill", "tick", "retry"}
                            /\ at'[t] \in SyncLabels \cup {"list", "index", "complete", "fail"}
      BY DEF Processing, SyncLabels
    <2>2. t \in Watchers => /\ this'[t] \in Contests /\ this'[t] \in finished'
                            /\ todo'[t] \subseteq finished'
      BY <1>1, <2>1 DEF ThreadSound, codeforces
    <2> QED
      BY <1>1, <1>2, <2>2 DEF ThreadSound, codeforces, library
  <1>4. \A c \in Contests : Handles(t, c) => Handles(t, c)'
    BY DEF Handles
  <1> QED
    BY <1>1, <1>2, <1>3, <1>4, HandsStep DEF HistoryTyped

LEMMA ListKeeps == ASSUME PipelineInv, NEW w \in Watchers, List(w) PROVE PipelineInv'
  <1>1. HandsTyped /\ w \in Threads /\ w \notin Syncers
    BY InHand, IsThread
  <1>2. PICK label \in {"index", "complete"} :
          Advance(w, label) /\ (label = "index" => this[w] \in catalog)
    BY DEF List
  <1>3. at'[w] = label
    BY <1>1, <1>2 DEF Advance, HandsTyped
  <1>4. HasJob(w) <=> HasJob(w)'
    BY <1>3 DEF List, HasJob
  <1>5. Processing(w) /\ Processing(w)'
    BY <1>3 DEF List, Processing
  <1>6. HistoryTyped' /\ abandoned' = abandoned /\ lost' = lost
    BY HistoryStays DEF List
  <1>7. label \in WatchLabels \cup SyncLabels
    BY DEF WatchLabels
  <1> QED
    BY <1>1, <1>2, <1>4, <1>5, <1>6, <1>7, GoesOnKeeps DEF List

\* A call or a step fails.
LEMMA FaultCounts ==
  ASSUME PipelineInv, Fault
  PROVE  HistoryTyped' /\ abandoned' = abandoned /\ lost' = lost /\ lost \in Nat
  BY PipelineAssumption DEF PipelineInv, PipelineTypeOK, HistoryTyped, Fault

LEMMA RaiseKeeps == ASSUME PipelineInv, NEW w \in Watchers, Raise(w) PROVE PipelineInv'
  <1>1. HandsTyped /\ w \in Threads /\ w \notin Syncers
    BY InHand, IsThread
  <1>2. at'[w] = "fail"
    BY <1>1 DEF Raise, Advance, HandsTyped
  <1>3. (HasJob(w) <=> HasJob(w)') /\ Processing(w) /\ Processing(w)'
    BY <1>2 DEF Raise, HasJob, Processing
  <1>4. HistoryTyped' /\ abandoned' = abandoned /\ lost' = lost
    BY FaultCounts DEF Raise
  <1> QED
    BY <1>1, <1>3, <1>4, GoesOnKeeps DEF Raise, WatchLabels

LEMMA IndexKeeps == ASSUME PipelineInv, NEW w \in Watchers, Index(w) PROVE PipelineInv'
  <1>1. HandsTyped /\ RecordsTyped /\ ThreadSound(w) /\ w \in Threads /\ w \notin Syncers
    BY InHand, IsThread
  <1>2. this[w] \in catalog /\ this[w] \in Contests /\ this[w] \in finished /\ todo[w] \subseteq finished
    BY <1>1 DEF Index, ThreadSound, Processing
  <1>3. HandsTyped' /\ Alone(w) /\ at'[w] = "complete"
    BY <1>1, GoesOn DEF Index, WatchLabels
  <1>4. RecordsTyped' /\ FlowSound'
    BY <1>1, <1>2 DEF Index, RecordsTyped, FlowSound, PipelineInv, codeforces, contests, jobs
  <1>5. ThreadSound(w)'
    BY <1>1, <1>2, <1>3 DEF Index, ThreadSound, codeforces
  <1>6. RunningFollows(w)
    BY <1>3 DEF Index, RunningFollows, Handles, Processing, contests
  <1>7. JobsFollow(w)
    BY <1>1, <1>3 DEF Index, JobsFollow, HasJob, PipelineInv, SyncWorkedOn, jobs
  <1>8. HistoryTyped' /\ abandoned' = abandoned /\ lost' = lost
    BY HistoryStays DEF Index
  <1>9. Grows /\ (orphaned' => lost' > 0)
    BY <1>8 DEF Index, Grows, codeforces, jobs, PipelineInv, SyncWorkedOn
  <1> QED
    BY <1>1, <1>3, <1>4, <1>5, <1>6, <1>7, <1>8, <1>9, ThreadStep

-----------------------------------------------------------------------------
(* The sync. *)

LEMMA RequestKeeps == ASSUME PipelineInv, NEW t \in Threads, Request(t) PROVE PipelineInv'
  <1>1. HandsTyped /\ t \notin Watchers
    BY InHand, PipelineAssumption DEF Request
  <1>2. at'[t] = "find"
    BY <1>1 DEF Request, Advance, HandsTyped
  <1>3. HasJob(t) <=> HasJob(t)'
    BY <1>2 DEF Request, HasJob
  <1>4. HistoryTyped' /\ abandoned' = abandoned /\ lost' = lost
    BY HistoryStays DEF Request
  <1> QED
    BY <1>1, <1>3, <1>4, GoesOnKeeps DEF Request, SyncLabels

LEMMA FindKeeps == ASSUME PipelineInv, NEW t \in Threads, Find(t) PROVE PipelineInv'
  <1>1. HandsTyped /\ (t \in Watchers => t \notin Syncers)
    BY InHand, PipelineAssumption
  <1>2. PICK label \in {"list", "idle", "create"} :
          Advance(t, label) /\ (label = "list" => t \in Watchers) /\ (label = "idle" => t \notin Watchers)
    BY DEF Find, Synced
  <1>3. at'[t] = label
    BY <1>1, <1>2 DEF Advance, HandsTyped
  <1>4. HasJob(t) <=> HasJob(t)'
    BY <1>3 DEF Find, HasJob
  <1>5. t \in Watchers => Processing(t) /\ Processing(t)'
    BY <1>2, <1>3 DEF Find, Processing, SyncLabels
  <1>6. HistoryTyped' /\ abandoned' = abandoned /\ lost' = lost
    BY HistoryStays DEF Find
  <1>7. label \in WatchLabels \cup SyncLabels
    BY DEF WatchLabels, SyncLabels
  <1>8. t \in Syncers => label \in SyncLabels \cup {"idle"}
    BY <1>1, <1>2 DEF SyncLabels
  <1> QED
    BY <1>1, <1>2, <1>4, <1>5, <1>6, <1>7, <1>8, GoesOnKeeps DEF Find

\* A step of a sync: its caller, if it is a watcher, keeps the contest that it processes.
LEMMA SyncStep ==
  ASSUME PipelineInv, NEW t \in Threads, NEW label \in WatchLabels \cup SyncLabels,
         at[t] \in SyncLabels, Advance(t, label),
         UNCHANGED <<finished, published, contests, orphaned, todo, this, was>>,
         catalog \subseteq catalog', HistoryTyped', abandoned' = abandoned, lost' = lost,
         t \in Syncers => label \in SyncLabels \cup {"idle"},
         t \in Watchers => label \in SyncLabels \cup {"list", "fail"},
         fetched' \in [Threads -> SUBSET Contests], fetched'[t] \subseteq finished,
         \A d \in Threads : d # t => fetched'[d] = fetched[d],
         label = "save" => fetched'[t] \subseteq published,
         RecordsTyped', FlowSound', JobsFollow(t)
  PROVE  PipelineInv'
  <1>1. HandsTyped /\ ThreadSound(t)
    BY InHand
  <1>2. /\ at' \in [Threads -> WatchLabels \cup SyncLabels] /\ at'[t] = label
        /\ \A d \in Threads : d # t => at'[d] = at[d]
    BY <1>1, Advanced
  <1>3. HandsTyped' /\ Alone(t)
    BY <1>1, <1>2 DEF HandsTyped, Alone
  <1>4. t \in Watchers => Processing(t) /\ Processing(t)'
    BY <1>2 DEF Processing
  <1>5. t \in Watchers => this'[t] \in Contests /\ this'[t] \in finished' /\ todo'[t] \subseteq finished'
    BY <1>1, <1>4 DEF ThreadSound, SyncLabels
  <1>6. t \in Syncers \/ t \in Watchers
    BY DEF Threads
  <1>7. label # "index"
    BY <1>6 DEF SyncLabels
  <1>8. ThreadSound(t)'
    BY <1>2, <1>5, <1>7 DEF ThreadSound
  <1>9. RunningFollows(t)
    BY <1>4 DEF RunningFollows, Handles, contests
  <1>10. Grows /\ (orphaned' => lost' > 0)
    BY DEF Grows, PipelineInv, SyncWorkedOn
  <1> QED
    BY <1>3, <1>8, <1>9, <1>10, ThreadStep

LEMMA CreateKeeps == ASSUME PipelineInv, NEW t \in Threads, Create(t) PROVE PipelineInv'
  <1>1. HandsTyped /\ RecordsTyped /\ ThreadSound(t)
    BY InHand
  <1>2. HistoryTyped' /\ abandoned' = abandoned /\ lost' = lost
    BY HistoryStays DEF Create
  <1>3. RecordsTyped' /\ FlowSound'
    BY <1>1 DEF Create, RecordsTyped, PipelineInv, FlowSound, codeforces, contests, library
  <1>4. at'[t] = "fetch"
    BY <1>1 DEF Create, Advance, HandsTyped
  <1>5. JobsFollow(t)
    BY <1>4 DEF Create, JobsFollow, HasJob
  <1>6. fetched' = fetched /\ fetched[t] \subseteq finished /\ at[t] \in SyncLabels
    BY <1>1 DEF Create, ThreadSound, SyncLabels
  <1> QED
    BY <1>1, <1>2, <1>3, <1>5, <1>6, SyncStep DEF Create, HandsTyped, codeforces, library, SyncLabels

LEMMA FetchProblemsetKeeps ==
  ASSUME PipelineInv, NEW t \in Threads, FetchProblemset(t) PROVE PipelineInv'
  <1>1. HandsTyped /\ RecordsTyped /\ ThreadSound(t)
    BY InHand
  <1>2. HistoryTyped' /\ abandoned' = abandoned /\ lost' = lost
    BY HistoryStays DEF FetchProblemset
  <1>3. published \subseteq Contests /\ published \subseteq finished
    BY <1>1 DEF RecordsTyped
  <1>4. RecordsTyped' /\ FlowSound'
    BY <1>1, <1>3 DEF FetchProblemset, RecordsTyped, PipelineInv, FlowSound, contests, library, jobs
  <1>5. /\ fetched' \in [Threads -> SUBSET Contests] /\ fetched'[t] = published
        /\ \A d \in Threads : d # t => fetched'[d] = fetched[d]
    BY <1>1, <1>3 DEF FetchProblemset, HandsTyped
  <1>6. at'[t] = "save"
    BY <1>1 DEF FetchProblemset, Advance, HandsTyped
  <1>7. JobsFollow(t)
    BY <1>6 DEF FetchProblemset, JobsFollow, HasJob, PipelineInv, SyncWorkedOn, jobs
  <1> QED
    BY <1>2, <1>3, <1>4, <1>5, <1>7, SyncStep DEF FetchProblemset, library, jobs, SyncLabels

LEMMA FetchStaleKeeps == ASSUME PipelineInv, NEW t \in Threads, FetchStale(t) PROVE PipelineInv'
  <1>1. HandsTyped /\ RecordsTyped /\ ThreadSound(t)
    BY InHand
  <1>2. HistoryTyped' /\ abandoned' = abandoned /\ lost' = lost
    BY FaultCounts DEF FetchStale
  <1>3. RecordsTyped' /\ FlowSound'
    BY <1>1 DEF FetchStale, RecordsTyped, PipelineInv, FlowSound, codeforces, contests, library, jobs
  <1>4. PICK label \in {"abort", "save"} :
          /\ Advance(t, label)
          /\ IF label = "abort" THEN UNCHANGED fetched
             ELSE cached # Nil /\ fetched' = [fetched EXCEPT ![t] = cached]
    BY DEF FetchStale
  <1>5. at'[t] = label
    BY <1>1, <1>4 DEF Advance, HandsTyped
  <1>6. /\ fetched' \in [Threads -> SUBSET Contests] /\ fetched'[t] \subseteq finished
        /\ \A d \in Threads : d # t => fetched'[d] = fetched[d]
        /\ label = "save" => fetched'[t] \subseteq published
    <2>1. CASE label = "abort"
      BY <1>1, <1>4, <2>1 DEF HandsTyped, ThreadSound
    <2>2. CASE label = "save"
      <3>1. cached \subseteq published /\ cached \subseteq finished /\ cached \subseteq Contests
        BY <1>1, <1>4, <2>2 DEF PipelineInv, FlowSound, RecordsTyped
      <3> QED
        BY <1>1, <1>4, <2>2, <3>1 DEF HandsTyped
    <2> QED
      BY <2>1, <2>2
  <1>7. JobsFollow(t)
    BY <1>5 DEF FetchStale, JobsFollow, HasJob, PipelineInv, SyncWorkedOn, jobs
  <1> QED
    BY <1>2, <1>3, <1>4, <1>6, <1>7, SyncStep DEF FetchStale, codeforces, library, jobs, SyncLabels

LEMMA SaveKeeps == ASSUME PipelineInv, NEW t \in Threads, Save(t) PROVE PipelineInv'
  <1>1. HandsTyped /\ RecordsTyped /\ ThreadSound(t)
    BY InHand
  <1>2. HistoryTyped' /\ abandoned' = abandoned /\ lost' = lost
    BY HistoryStays DEF Save
  <1>3. fetched[t] \subseteq published /\ fetched[t] \subseteq Contests
    BY <1>1 DEF Save, ThreadSound, HandsTyped
  <1>4. RecordsTyped' /\ FlowSound' /\ catalog \subseteq catalog'
    BY <1>1, <1>3 DEF Save, RecordsTyped, PipelineInv, FlowSound, codeforces, contests, jobs
  <1>5. /\ fetched' \in [Threads -> SUBSET Contests] /\ fetched'[t] = {}
        /\ \A d \in Threads : d # t => fetched'[d] = fetched[d]
    BY <1>1 DEF Save, HandsTyped
  <1>6. at'[t] = "end"
    BY <1>1 DEF Save, Advance, HandsTyped
  <1>7. JobsFollow(t)
    BY <1>6 DEF Save, JobsFollow, HasJob, PipelineInv, SyncWorkedOn, jobs
  <1> QED
    BY <1>2, <1>4, <1>5, <1>7, SyncStep DEF Save, codeforces, jobs, SyncLabels

LEMMA EndKeeps == ASSUME PipelineInv, NEW t \in Threads, End(t) PROVE PipelineInv'
  <1>1. HandsTyped /\ RecordsTyped /\ ThreadSound(t) /\ (t \in Watchers => t \notin Syncers)
    BY InHand, PipelineAssumption
  <1>2. HistoryTyped' /\ abandoned' = abandoned /\ lost' = lost
    BY HistoryStays DEF End
  <1>3. RecordsTyped' /\ FlowSound'
    BY <1>1 DEF End, RecordsTyped, PipelineInv, FlowSound, codeforces, contests, library
  <1>4. PICK label \in {"list", "fail", "idle"} :
          Advance(t, label) /\ (IF t \in Watchers THEN label # "idle" ELSE label = "idle")
    BY DEF End, Synced
  <1>5. at'[t] = label
    BY <1>1, <1>4 DEF Advance, HandsTyped
  <1>6. JobsFollow(t)
    BY <1>5 DEF End, JobsFollow, HasJob
  <1>7. fetched' = fetched /\ fetched[t] \subseteq finished /\ at[t] \in SyncLabels
    BY <1>1 DEF End, ThreadSound, SyncLabels
  <1>8. label \in WatchLabels \cup SyncLabels
    BY DEF WatchLabels
  <1> QED
    BY <1>1, <1>2, <1>3, <1>4, <1>6, <1>7, <1>8, SyncStep DEF End, HandsTyped, codeforces, library

-----------------------------------------------------------------------------
(* Threads are lost, contests end and are published. *)

LEMMA LoseKeeps == ASSUME PipelineInv, NEW t \in Threads, Lose(t) PROVE PipelineInv'
  <1>1. HandsTyped /\ RecordsTyped /\ HistoryTyped /\ ThreadSound(t)
    BY InHand
  <1>2. /\ at' \in [Threads -> WatchLabels \cup SyncLabels] /\ at'[t] = "idle"
        /\ \A d \in Threads : d # t => at'[d] = at[d]
    BY <1>1, Advanced DEF Lose, WatchLabels
  <1>3. HandsTyped'
    BY <1>1, <1>2 DEF Lose, HandsTyped, Phases
  <1>4. Alone(t)
    BY <1>1, <1>2 DEF Lose, HandsTyped, Alone
  <1>5. fetched'[t] = {}
    BY <1>1 DEF Lose, HandsTyped
  <1>6. ThreadSound(t)' /\ ~ Processing(t)'
    BY <1>2, <1>5 DEF ThreadSound, Processing, SyncLabels
  <1>7. RecordsTyped' /\ FlowSound'
    <2>1. UNCHANGED <<codeforces, contests, library>> /\ syncing' \subseteq Threads /\ orphaned' \in BOOLEAN
      BY <1>1 DEF Lose, RecordsTyped
    <2> QED
      BY <1>1, <2>1 DEF RecordsTyped, PipelineInv, FlowSound, codeforces, contests, library
  <1>8. t \in Watchers /\ Processing(t) => this[t] \in Contests
    BY <1>1 DEF ThreadSound, Processing, SyncLabels
  <1>9. HistoryTyped' /\ lost' > 0
    BY <1>1, <1>8, PipelineAssumption DEF Lose, HistoryTyped
  <1>10. abandoned \subseteq abandoned' /\ \A c \in Contests : Handles(t, c) => c \in abandoned'
    BY DEF Lose, Handles
  <1>11. RunningFollows(t)
    BY <1>10 DEF Lose, RunningFollows, contests
  <1>12. JobsFollow(t)
    BY <1>2 DEF Lose, JobsFollow, HasJob
  <1>13. Grows
    BY <1>10 DEF Lose, Grows, codeforces, library
  <1> QED
    BY <1>3, <1>4, <1>6, <1>7, <1>9, <1>11, <1>12, <1>13, ThreadStep

\* What Codeforces does leaves every thread what it relies on.
LEMMA CodeforcesStep ==
  ASSUME PipelineInv, UNCHANGED <<cached, contests, library, jobs, locals, history>>, Grows,
         published' \subseteq finished', finished' \subseteq Contests
  PROVE  PipelineInv'
  <1>1. PipelineTypeOK'
    BY DEF PipelineInv, PipelineTypeOK, contests, library, jobs, locals, history
  <1>2. SyncWorkedOn'
    BY DEF PipelineInv, SyncWorkedOn, jobs, locals, history
  <1>3. RunningWorkedOn'
    BY DEF PipelineInv, RunningWorkedOn, Processing, contests, locals, history
  <1>4. FlowSound'
    BY DEF PipelineInv, FlowSound, Grows, contests, library
  <1>5. ASSUME NEW d \in Threads
        PROVE  ThreadSound(d)'
    <2>1. ThreadSound(d)
      BY DEF PipelineInv
    <2> QED
      BY <2>1 DEF ThreadSound, Grows, Processing, locals
  <1> QED
    BY <1>1, <1>2, <1>3, <1>4, <1>5 DEF PipelineInv

LEMMA ContestEndsKeeps == ASSUME PipelineInv, NEW c \in Contests, ContestEnds(c) PROVE PipelineInv'
  <1>1. published \subseteq finished /\ finished \subseteq Contests
    BY DEF PipelineInv, PipelineTypeOK
  <1> QED
    BY <1>1, CodeforcesStep DEF ContestEnds, Grows, library, history

LEMMA PublishKeeps == ASSUME PipelineInv, NEW c \in Contests, Publish(c) PROVE PipelineInv'
  <1>1. published \subseteq finished /\ finished \subseteq Contests
    BY DEF PipelineInv, PipelineTypeOK
  <1> QED
    BY <1>1, CodeforcesStep DEF Publish, Grows, library, history

-----------------------------------------------------------------------------
LEMMA PipelineInitInv == PipelineInit => PipelineInv
  <1> SUFFICES ASSUME PipelineInit PROVE PipelineInv
    OBVIOUS
  <1>1. PipelineTypeOK
    <2>1. HandsTyped
      BY DEF PipelineInit, HandsTyped, Phases, WatchLabels
    <2>2. RecordsTyped
      BY DEF PipelineInit, RecordsTyped, Phases, PipelineStatuses
    <2>3. HistoryTyped
      BY PipelineAssumption DEF PipelineInit, HistoryTyped
    <2> QED
      BY <2>1, <2>2, <2>3, PipelineTypeParts
  <1>2. SyncWorkedOn /\ RunningWorkedOn /\ FlowSound
    BY DEF PipelineInit, SyncWorkedOn, RunningWorkedOn, FlowSound
  <1>3. ASSUME NEW t \in Threads PROVE ThreadSound(t)
    BY DEF PipelineInit, ThreadSound, Processing, SyncLabels
  <1> QED
    BY <1>1, <1>2, <1>3 DEF PipelineInv

LEMMA PipelineStutterInv == PipelineInv /\ UNCHANGED pipelineVars => PipelineInv'
  <1> SUFFICES ASSUME PipelineInv, UNCHANGED pipelineVars PROVE PipelineInv'
    OBVIOUS
  <1>1. UNCHANGED <<codeforces, contests, library, jobs, locals, history>>
    BY DEF pipelineVars
  <1>2. published \subseteq finished /\ finished \subseteq Contests
    BY DEF PipelineInv, PipelineTypeOK
  <1> QED
    BY <1>1, <1>2, CodeforcesStep DEF Grows, codeforces, library, history

LEMMA PipelineInductive == PipelineInv /\ [PipelineNext]_pipelineVars => PipelineInv'
  <1> SUFFICES ASSUME PipelineInv, PipelineNext PROVE PipelineInv'
    BY PipelineStutterInv
  <1>1. ASSUME NEW w \in Watchers, Watch(w) PROVE PipelineInv'
    BY <1>1, PollKeeps, LookKeeps, UpsertKeeps, CheckKeeps, QueueKeeps, BackfillKeeps, TickKeeps,
       RetryKeeps, StartKeeps, ListKeeps, IndexKeeps, RaiseKeeps, CompleteKeeps, FailKeeps DEF Watch
  <1>2. ASSUME NEW t \in Threads, Request(t) \/ Sync(t) \/ Lose(t) PROVE PipelineInv'
    BY <1>2, RequestKeeps, FindKeeps, CreateKeeps, FetchProblemsetKeeps, FetchStaleKeeps, SaveKeeps,
       EndKeeps, LoseKeeps DEF Sync
  <1>3. ASSUME NEW c \in Contests, ContestEnds(c) \/ Publish(c) PROVE PipelineInv'
    BY <1>3, ContestEndsKeeps, PublishKeeps
  <1> QED
    BY <1>1, <1>2, <1>3 DEF PipelineNext

\* However the polls and syncs of any number of servers and requests overlap and fail, an
\* active sync job and a running contest are in the hands of a thread, or one was lost;
\* and nothing is imported that was not published, nor processed that was not seen
\* finished (contests/watcher.py, contests/pipeline.py and cfdata/sync.py).
THEOREM PipelineInvariant == PipelineSpec => []PipelineInv
  <1>1. PipelineInit => PipelineInv
    BY PipelineInitInv
  <1>2. PipelineInv /\ [PipelineNext]_pipelineVars => PipelineInv'
    BY PipelineInductive
  <1> QED
    BY <1>1, <1>2, PTL DEF PipelineSpec

\* What the interleavings put at risk: of two servers at work on one contest, one may fail
\* or complete it, and start it again, under the other (contests/pipeline.py); of two
\* syncs one may find the job of the other (cfdata/sync.py).  No contest is left running,
\* and no job active, without a thread that has it in hand, but by the loss of a thread.
THEOREM PipelineWorkedOn == PipelineSpec => [](SyncWorkedOn /\ RunningWorkedOn)
  <1>1. PipelineInv => SyncWorkedOn /\ RunningWorkedOn
    BY DEF PipelineInv
  <1> QED
    BY <1>1, PipelineInvariant, PTL

=============================================================================
