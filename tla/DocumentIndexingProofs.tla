------------------------ MODULE DocumentIndexingProofs ------------------------
(***************************************************************************)
(* Proofs about DocumentIndexing: the jobs, their leases and their audit   *)
(* agree (JobsInv); a failover leaves no succeeded document behind         *)
(* (ServedUnlessFault); the jobs implement FencedLease (LeaseSpec), so     *)
(* that successes are in the order of their claims; and an execution comes *)
(* nearer to its end with every step.                                      *)
(***************************************************************************)
EXTENDS DocumentIndexing, SequenceTheorems, FiniteSetTheorems, TLAPS

-----------------------------------------------------------------------------
(* The inductive invariants *)

\* What a worker carries suits what it does.
WellFormed(t) ==
  /\ t.pc \in {"idle", "selected"} => t.gen = 0
  /\ t.pc = "selected" => t.batch # <<>>
  /\ t.pc \notin {"idle", "selected"} => t.doc \in Document
  /\ t.pc \in {"ingest", "chunks", "finishing", "failing"} => t.gen # 0
  /\ t.pc \in {"embedding", "embedded"} => t.providers # <<>>
  /\ t.pc = "promoting" => t.providers \in Order

TasksWellFormed == \A w \in Worker : WellFormed(task[w])

\* What was selected has a job.
BatchesQueued ==
  \A w \in Worker : \A i \in DOMAIN task[w].batch : task[w].batch[i] \in jobs

\* A document without a job was never claimed.
UnqueuedUnclaimed ==
  \A d \in Document \ jobs :
    /\ job[d].status = "pending" /\ job[d].owner = NoWorker
    /\ job[d].until = 0 /\ job[d].gen = 0 /\ job[d].failures = 0
    /\ runs[d] = <<>>

\* Each failure belongs to a claim, and the one that is held has not failed yet.
FailuresClaimed ==
  \A d \in Document :
    /\ job[d].failures <= job[d].gen /\ job[d].gen <= MaxClaims
    /\ job[d].owner # NoWorker => job[d].failures < job[d].gen

\* A claim has one worker, and no run while that worker is busy with it.
ClaimsUnaudited ==
  \A w \in Worker : task[w].gen # 0 =>
    LET d == task[w].doc
    IN  /\ task[w].gen <= job[d].gen
        /\ \A i \in DOMAIN runs[d] : runs[d][i].gen # task[w].gen
        /\ \A v \in Worker \ {w} : task[v].doc = d => task[v].gen # task[w].gen

ClaimsInv ==
  /\ UnqueuedUnclaimed
  /\ RunningIsLeased
  /\ FailuresClaimed
  /\ ClaimsUnaudited
  /\ ClaimsAuditedOnce
  /\ SuccessIsNewest
  /\ FailuresRecorded

TypeInv == TypeOK /\ TasksWellFormed

\* The active provider has vectors of d, or a requeue of d is still to come.
Served(d) ==
  \/ order[1] \in vectors[d]
  \/ \E w \in Worker : task[w].pc = "requeueing" /\ task[w].doc # d

\* A worker that could mark its document has served it, or is about to with the
\* provider that is active.
Serves(w) ==
  LET d == task[w].doc
  IN  /\ task[w].pc \in {"embedded", "promoting"} => task[w].providers[1] \in vectors[d]
      /\ task[w].gen # 0 /\ FenceHolds(w) =>
           /\ task[w].pc = "embedding" /\ ~task[w].fallback =>
                task[w].providers[1] = order[1] \/ Served(d)
           /\ task[w].pc \in {"requeueing", "finishing"} => Served(d)

WorkersServe == \A w \in Worker : Serves(w)

ServedInv == faults = 0 /\ saves = 0 => SucceededServed /\ WorkersServe

-----------------------------------------------------------------------------
(* Lemmas about orders and delays *)

LEMMA OrderFacts ==
  ASSUME NEW s \in Order
  PROVE  /\ s \in Seq(Provider) /\ s # <<>> /\ Len(s) \in Nat \ {0}
         /\ \A i \in 1..Len(s) : s[i] \in Provider
         /\ \A i, j \in 1..Len(s) : s[i] = s[j] => i = j
BY DEF Order

\* RemoveFirst of an order without duplicates leaves everything else.
LEMMA RemoveFirstFromOrder ==
  ASSUME NEW s \in Order, NEW x \in Provider
  PROVE  LET rest == RemoveFirst(s, x)
         IN  /\ rest \in Seq(Provider)
             /\ \A i \in 1..Len(rest) : rest[i] # x
             /\ \A i, j \in 1..Len(rest) : rest[i] = rest[j] => i = j
<1>0. /\ s \in Seq(Provider) /\ Len(s) \in Nat
      /\ \A i \in 1..Len(s) : s[i] \in Provider
      /\ \A i, j \in 1..Len(s) : s[i] = s[j] => i = j
  BY OrderFacts
<1>1. CASE ~ \E i \in 1..Len(s) : s[i] = x
  <2>1. RemoveFirst(s, x) = s
    BY <1>1 DEF RemoveFirst
  <2> QED
    BY <1>0, <1>1, <2>1
<1>2. ASSUME NEW k \in 1..Len(s), s[k] = x
      PROVE  LET rest == RemoveFirst(s, x)
             IN  /\ rest \in Seq(Provider)
                 /\ \A i \in 1..Len(rest) : rest[i] # x
                 /\ \A i, j \in 1..Len(rest) : rest[i] = rest[j] => i = j
  <2> DEFINE I == {i \in 1..Len(s) : s[i] = x}
             rest == [i \in 1..(Len(s) - 1) |-> IF i < k THEN s[i] ELSE s[i + 1]]
  <2>1. I = {k}
    BY <1>0, <1>2
  <2>2. Min(I) = k
    BY <2>1, <1>0 DEF Min
  <2>3. RemoveFirst(s, x) = SubSeq(s, 1, k - 1) \o SubSeq(s, k + 1, Len(s))
    BY <1>2, <2>1, <2>2 DEF RemoveFirst, SelectInSeq, RemoveAt
  <2>4. SubSeq(s, 1, k - 1) \o SubSeq(s, k + 1, Len(s)) = rest
    <3> DEFINE before == SubSeq(s, 1, k - 1)
               after == SubSeq(s, k + 1, Len(s))
    <3>1. /\ before \in Seq(Provider) /\ Len(before) = k - 1
          /\ \A i \in 1..(k - 1) : before[i] = s[i]
      BY <1>0, <1>2
    <3>2. /\ after \in Seq(Provider) /\ Len(after) = Len(s) - k
          /\ \A i \in 1..(Len(s) - k) : after[i] = s[k + i]
      BY <1>0, <1>2
    <3> HIDE DEF before, after
    <3>3. /\ before \o after \in Seq(Provider) /\ Len(before \o after) = Len(s) - 1
          /\ \A i \in 1..(Len(s) - 1) :
               (before \o after)[i] = IF i <= k - 1 THEN before[i] ELSE after[i - (k - 1)]
      <4>1. /\ before \o after \in Seq(Provider) /\ Len(before \o after) = Len(before) + Len(after)
            /\ \A i \in 1..(Len(before) + Len(after)) :
                 (before \o after)[i] = IF i <= Len(before) THEN before[i] ELSE after[i - Len(before)]
        BY <3>1, <3>2, ConcatProperties
      <4>2. Len(before) + Len(after) = Len(s) - 1
        BY <1>0, <1>2, <3>1, <3>2
      <4> QED
        BY <3>1, <4>1, <4>2
    <3>4. ASSUME NEW i \in 1..(Len(s) - 1) PROVE (before \o after)[i] = rest[i]
      BY <1>0, <1>2, <3>1, <3>2, <3>3
    <3>5. rest \in Seq(Provider) /\ Len(rest) = Len(s) - 1
      BY <1>0, <1>2
    <3> HIDE DEF rest
    <3>6. before \o after = rest
      BY <3>3, <3>4, <3>5, SeqEqual
    <3> QED
      BY <3>6 DEF before, after
  <2>5. rest \in Seq(Provider) /\ Len(rest) = Len(s) - 1
    BY <1>0, <1>2
  <2>6. \A i \in 1..(Len(s) - 1) : rest[i] # x
    BY <1>0, <1>2
  <2>7. \A i, j \in 1..(Len(s) - 1) : rest[i] = rest[j] => i = j
    BY <1>0, <1>2
  <2> HIDE DEF rest
  <2> QED
    BY <2>3, <2>4, <2>5, <2>6, <2>7
<1> QED
  BY <1>1, <1>2

\* What a promotion writes is an order whose first provider is the promoted one.
LEMMA PromotionIsOrder ==
  ASSUME NEW s \in Order, NEW x \in Provider
  PROVE  LET promoted == <<x>> \o RemoveFirst(s, x)
         IN  promoted \in Order /\ promoted[1] = x
<1> DEFINE rest == RemoveFirst(s, x)
           promoted == <<x>> \o rest
<1>1. /\ rest \in Seq(Provider)
      /\ \A i \in 1..Len(rest) : rest[i] # x
      /\ \A i, j \in 1..Len(rest) : rest[i] = rest[j] => i = j
  BY RemoveFirstFromOrder
<1> HIDE DEF rest
<1>2. /\ promoted \in Seq(Provider) /\ Len(promoted) = Len(rest) + 1 /\ Len(rest) \in Nat
      /\ promoted[1] = x
      /\ \A i \in 2..Len(promoted) : promoted[i] = rest[i - 1]
  BY <1>1
<1>3. \A i, j \in 1..Len(promoted) : promoted[i] = promoted[j] => i = j
  BY <1>1, <1>2
<1> HIDE DEF promoted
<1>4. promoted # <<>> /\ DOMAIN promoted = 1..Len(promoted)
  BY <1>2
<1>5. promoted \in Order
  BY <1>2, <1>3, <1>4 DEF Order
<1> QED
  BY <1>2, <1>5 DEF rest, promoted

\* The delay after up to MaxClaims failures is a number of seconds.
LEMMA DelayIsNat ==
  ASSUME NEW failures \in 1..MaxClaims PROVE RetryDelay(failures) \in Nat
<1>1. 2^(failures - 1) \in Nat
  BY DoublingAssumption, BoundAssumption
<1> DEFINE power == 2^(failures - 1)
<1>2. power \in Nat
  BY <1>1
<1> HIDE DEF power
<1>3. RetryBase * power \in Nat
  BY <1>2, TimeAssumption
<1> QED
  BY <1>3, TimeAssumption DEF RetryDelay, power

-----------------------------------------------------------------------------
(* Types *)

LEMMA PhaseNames ==
  /\ Phase = {"idle", "selected", "finishing", "failing", "ingest", "chunks", "embeddings",
              "embedding", "embedded", "promoting", "requeueing"}
  /\ Idle \in Task /\ WellFormed(Idle)
BY DEF Phase, Stage, Promotion, Idle, Task, WellFormed

LEMMA TaskFacts ==
  ASSUME TypeInv, NEW w \in Worker
  PROVE  /\ task[w] \in Task /\ WellFormed(task[w])
         /\ task[w].pc \in Phase /\ task[w].doc \in Document \cup {NoDocument}
         /\ task[w].gen \in Nat /\ task[w].batch \in Seq(Document)
         /\ task[w].providers \in Seq(Provider) /\ task[w].fallback \in BOOLEAN
BY DEF TypeInv, TypeOK, TasksWellFormed, Task

LEMMA NewTask ==
  ASSUME TypeInv, NEW w \in Worker, NEW t \in Task, WellFormed(t),
         task' = [task EXCEPT ![w] = t]
  PROVE  task' \in [Worker -> Task] /\ TasksWellFormed'
<1>1. task \in [Worker -> Task] /\ \A v \in Worker : WellFormed(task[v])
  BY DEF TypeInv, TypeOK, TasksWellFormed
<1>2. task' \in [Worker -> Task]
  BY <1>1
<1>3. \A v \in Worker : WellFormed(task'[v])
  BY <1>1
<1> QED
  BY <1>2, <1>3 DEF TasksWellFormed, WellFormed

LEMMA ReturnTypes ==
  ASSUME TypeInv, NEW w \in Worker, Return(w)
  PROVE  task' \in [Worker -> Task] /\ TasksWellFormed'
<1> DEFINE next == [Idle EXCEPT !.pc = "selected", !.batch = task[w].batch]
<1>1. task[w].batch # <<>> => next \in Task /\ WellFormed(next)
  BY TaskFacts, PhaseNames DEF Idle, Task, WellFormed
<1>2. CASE task[w].batch = <<>>
  BY <1>2, PhaseNames, NewTask DEF Return
<1>3. CASE task[w].batch # <<>>
  <2>1. task' = [task EXCEPT ![w] = next]
    BY <1>3 DEF Return
  <2> QED
    BY <1>1, <1>3, <2>1, NewTask
<1> QED
  BY <1>2, <1>3

LEMMA GotoTypes ==
  ASSUME TypeInv, NEW w \in Worker, NEW phase \in Phase, Goto(w, phase),
         task[w].doc \in Document,
         phase \in {"chunks", "finishing", "failing"} => task[w].gen # 0,
         phase \in {"chunks", "embeddings", "embedded", "requeueing", "finishing", "failing"},
         phase = "embedded" => task[w].providers # <<>>
  PROVE  task' \in [Worker -> Task] /\ TasksWellFormed'
<1> DEFINE next == [task[w] EXCEPT !.pc = phase]
<1>1. next \in Task /\ WellFormed(next)
  BY TaskFacts, PhaseNames DEF Task, WellFormed
<1>2. task' = [task EXCEPT ![w] = next]
  BY DEF Goto
<1> QED
  BY <1>1, <1>2, NewTask

\* A stage ends in the completion of the job, or of the request.
LEMMA EndTypes ==
  ASSUME TypeInv, NEW w \in Worker, Done(w) \/ Fail(w), task[w].doc \in Document
  PROVE  task' \in [Worker -> Task] /\ TasksWellFormed'
<1>1. task[w].gen \in Nat
  BY TaskFacts
<1>2. CASE Return(w)
  BY <1>2, ReturnTypes
<1>3. CASE Leased(w) /\ (Goto(w, "finishing") \/ Goto(w, "failing"))
  BY <1>1, <1>3, GotoTypes, PhaseNames DEF Leased
<1> QED
  BY <1>2, <1>3 DEF Done, Fail

LEMMA InitTypes == Init => TypeInv
<1> SUFFICES ASSUME Init PROVE TypeInv
  OBVIOUS
<1>1. InitialOrder \in Order
  BY OrderAssumption DEF Order
<1>2. \A d \in Document : Queued(0) \in Job
  BY DEF Queued, Job, Status
<1>3. TypeOK
  BY <1>1, <1>2, PhaseNames DEF Init, TypeOK
<1>4. TasksWellFormed
  BY PhaseNames DEF Init, TasksWellFormed
<1> QED
  BY <1>3, <1>4 DEF TypeInv

LEMMA QueueTypes ==
  ASSUME TypeInv,
         \/ \E d \in Document, queued \in BOOLEAN : AddDocument(d, queued)
         \/ \E set \in SUBSET Document : Synchronize(set)
  PROVE  TypeInv'
<1> USE DEF TypeInv, TypeOK, TasksWellFormed, WellFormed, indexVars, boundVars
<1>0. Queued(now) \in Job
  BY DEF Queued, Job, Status
<1>1. ASSUME NEW d \in Document, NEW queued \in BOOLEAN, AddDocument(d, queued) PROVE TypeInv'
  BY <1>0, <1>1 DEF AddDocument
<1>2. ASSUME NEW set \in SUBSET Document, Synchronize(set) PROVE TypeInv'
  BY <1>0, <1>2 DEF Synchronize
<1> QED
  BY <1>1, <1>2

LEMMA EnvironmentTypes ==
  ASSUME TypeInv, Crash \/ Tick \/ (\E saved \in SavedOrders : SaveOrder(saved))
  PROVE  TypeInv'
<1> USE DEF TypeInv, TypeOK, TasksWellFormed, indexVars, boundVars
<1>1. CASE Crash
  BY <1>1, PhaseNames DEF Crash, WellFormed, Order
<1>2. CASE Tick
  BY <1>2 DEF Tick, WellFormed
<1>3. ASSUME NEW saved \in SavedOrders, SaveOrder(saved) PROVE TypeInv'
  <2>1. saved \in Order
    BY OrderAssumption DEF Order
  <2> QED
    BY <1>3, <2>1 DEF SaveOrder, WellFormed
<1> QED
  BY <1>1, <1>2, <1>3

LEMMA GrantTypes ==
  ASSUME TypeInv, NEW w \in Worker, NEW d \in documents, NEW rest \in Seq(Document),
         Grant(w, d, rest)
  PROVE  /\ jobs' \subseteq documents /\ job' \in [Document -> Job]
         /\ task' \in [Worker -> Task] /\ TasksWellFormed'
<1> DEFINE row == IF d \in jobs THEN job[d] ELSE Queued(now)
           next == [Idle EXCEPT !.pc = "ingest", !.doc = d, !.gen = row.gen + 1, !.batch = rest]
<1>1. row \in Job /\ d \in Document /\ now \in Nat
  BY DEF TypeInv, TypeOK, Queued, Job, Status
<1> HIDE DEF row
<1>2. [row EXCEPT !.status = "running", !.owner = w, !.until = now + LeaseTicks,
                  !.gen = @ + 1] \in Job
  <2>1. row.gen + 1 \in Nat /\ now + LeaseTicks \in Nat
    BY <1>1, TimeAssumption DEF Job
  <2>2. [row EXCEPT !.status = "running", !.owner = w, !.until = now + LeaseTicks,
                    !.gen = row.gen + 1] \in Job
    BY <1>1, <2>1 DEF Job, Status
  <2> QED
    BY <2>2
<1>3. next \in Task /\ WellFormed(next)
  <2>1. row.gen + 1 \in Nat /\ row.gen + 1 # 0
    BY <1>1 DEF Job
  <2> QED
    BY <1>1, <2>1, PhaseNames DEF Task, Idle, WellFormed
<1>4. task' = [task EXCEPT ![w] = next] /\ jobs' = jobs \cup {d}
      /\ job' = [job EXCEPT ![d] = [row EXCEPT !.status = "running", !.owner = w,
                                               !.until = now + LeaseTicks, !.gen = @ + 1]]
  BY DEF Grant, row
<1> HIDE DEF next
<1>5. task' \in [Worker -> Task] /\ TasksWellFormed'
  BY <1>3, <1>4, NewTask
<1> QED
  BY <1>1, <1>2, <1>4, <1>5 DEF TypeInv, TypeOK

LEMMA SelectTypes ==
  ASSUME TypeInv, BatchesQueued, NEW w \in Worker,
         SelectDue(w) \/ ClaimSelected(w) \/ (\E d \in Document : RequestRun(w, d) \/ BuildEmbeddings(w, d))
  PROVE  TypeInv'
<1>1. CASE SelectDue(w)
  <2>0. task[w].pc = "idle" /\ UNCHANGED <<now, documents, jobs, job, runs, indexVars, boundVars>>
    BY <1>1 DEF SelectDue
  <2>1. PICK n \in 1..BatchSize :
          \E s \in [1..n -> {d \in Document : Due(d)}] :
            IsBatch(s) /\ task' = [task EXCEPT ![w].pc = "selected", ![w].batch = s]
    BY <1>1, Zenon DEF SelectDue
  <2>2. PICK s \in [1..n -> {d \in Document : Due(d)}] :
          task' = [task EXCEPT ![w].pc = "selected", ![w].batch = s]
    BY <2>1, Zenon
  <2>3. s \in Seq(Document) /\ s # <<>>
    BY TimeAssumption
  <2> DEFINE next == [task[w] EXCEPT !.pc = "selected", !.batch = s]
  <2>4. next \in Task /\ WellFormed(next)
    BY <2>0, <2>3, TaskFacts, PhaseNames DEF Task, WellFormed
  <2>5. task' = [task EXCEPT ![w] = next]
    BY <2>2
  <2>6. task' \in [Worker -> Task] /\ TasksWellFormed'
    BY <2>4, <2>5, NewTask
  <2> QED
    BY <2>0, <2>6 DEF TypeInv, TypeOK, indexVars, boundVars
<1>2. CASE ClaimSelected(w)
  <2> DEFINE d == Head(task[w].batch)
             rest == Tail(task[w].batch)
             next == [task[w] EXCEPT !.batch = rest, !.pc = IF rest = <<>> THEN "idle" ELSE @]
  <2>0. /\ UNCHANGED <<now, documents, runs, indexVars, boundVars>>
        /\ task[w].pc = "selected" /\ task[w].batch # <<>>
    BY <1>2, TaskFacts DEF ClaimSelected, WellFormed
  <2>1. d \in jobs /\ rest \in Seq(Document)
    <3>1. task[w].batch[1] \in jobs
      BY <2>0, TaskFacts DEF BatchesQueued
    <3> QED
      BY <2>0, <3>1, TaskFacts
  <2>2. CASE task' = [task EXCEPT ![w] = next] /\ UNCHANGED <<jobs, job>>
    <3>1. next \in Task /\ WellFormed(next)
      BY <2>0, <2>1, TaskFacts, PhaseNames DEF Task, WellFormed
    <3>2. task' \in [Worker -> Task] /\ TasksWellFormed'
      BY <2>2, <3>1, NewTask
    <3> QED
      BY <2>0, <2>2, <3>2 DEF TypeInv, TypeOK, indexVars, boundVars
  <2>3. CASE Grant(w, d, rest)
    <3>1. d \in documents
      BY <2>1 DEF TypeInv, TypeOK
    <3> QED
      BY <2>0, <2>1, <2>3, <3>1, GrantTypes DEF TypeInv, TypeOK, indexVars, boundVars
  <2> QED
    BY <1>2, <2>2, <2>3 DEF ClaimSelected
<1>3. ASSUME NEW d \in Document, RequestRun(w, d) PROVE TypeInv'
  <2>1. /\ d \in documents /\ Grant(w, d, <<>>) /\ <<>> \in Seq(Document)
        /\ UNCHANGED <<now, documents, runs, indexVars, boundVars>>
    BY <1>3 DEF RequestRun
  <2> QED
    BY <2>1, GrantTypes DEF TypeInv, TypeOK, indexVars, boundVars
<1>4. ASSUME NEW d \in Document, BuildEmbeddings(w, d) PROVE TypeInv'
  <2> DEFINE next == [task[w] EXCEPT !.pc = "embeddings", !.doc = d]
  <2>1. next \in Task /\ WellFormed(next)
    BY <1>4, TaskFacts, PhaseNames DEF BuildEmbeddings, Task, WellFormed
  <2>2. task' = [task EXCEPT ![w] = next]
    BY <1>4 DEF BuildEmbeddings
  <2>3. task' \in [Worker -> Task] /\ TasksWellFormed'
    BY <2>1, <2>2, NewTask
  <2> QED
    BY <1>4, <2>3 DEF BuildEmbeddings, TypeInv, TypeOK, indexVars, boundVars
<1> QED
  BY <1>1, <1>2, <1>3, <1>4

LEMMA StageTypes ==
  ASSUME TypeInv, NEW w \in Worker,
         \/ EnterStage(w) \/ StageFails(w) \/ ReadProviders(w)
         \/ EmbedSucceeded(w) \/ EmbedFailed(w)
  PROVE  TypeInv'
<1> SUFFICES /\ task' \in [Worker -> Task] /\ TasksWellFormed'
             /\ UNCHANGED <<now, documents, jobs, job, runs, order>>
             /\ chunked' \subseteq Document /\ vectors' \in [Document -> SUBSET Provider]
             /\ errors' \in Nat /\ UNCHANGED <<faults, saves>>
  BY DEF TypeInv, TypeOK
<1>0. /\ task[w].pc \in Stage /\ task[w].doc \in Document
      /\ task[w].providers \in Seq(Provider)
      /\ task[w].pc = "embedding" => task[w].providers # <<>>
      /\ chunked \subseteq Document /\ vectors \in [Document -> SUBSET Provider]
      /\ errors \in Nat /\ order \in Order
  BY TaskFacts DEF EnterStage, After, StageFails, ReadProviders, EmbedSucceeded, EmbedFailed,
       Stage, WellFormed, TypeInv, TypeOK
<1>1. CASE EnterStage(w)
  <2>1. /\ task[w].pc \in {"ingest", "chunks"}
        /\ Goto(w, "chunks") \/ Goto(w, "embeddings") \/ Goto(w, "failing")
    BY <1>1 DEF EnterStage, After
  <2>2. task[w].gen # 0
    BY <2>1, TaskFacts DEF WellFormed
  <2>3. task' \in [Worker -> Task] /\ TasksWellFormed'
    BY <1>0, <2>1, <2>2, GotoTypes, PhaseNames
  <2> QED
    BY <1>0, <1>1, <2>3 DEF EnterStage, boundVars
<1>2. CASE StageFails(w)
  BY <1>0, <1>2, EndTypes DEF StageFails, indexVars
<1>3. CASE ReadProviders(w)
  <2> DEFINE next == [task[w] EXCEPT !.pc = "embedding", !.providers = order]
  <2>1. next \in Task /\ WellFormed(next)
    BY <1>0, TaskFacts, PhaseNames, OrderFacts DEF Task, WellFormed
  <2>2. task' = [task EXCEPT ![w] = next]
    BY <1>3 DEF ReadProviders
  <2>3. task' \in [Worker -> Task] /\ TasksWellFormed'
    BY <2>1, <2>2, NewTask
  <2> QED
    BY <1>0, <1>3, <2>3 DEF ReadProviders, indexVars, boundVars
<1>4. CASE EmbedSucceeded(w)
  <2>1. task' \in [Worker -> Task] /\ TasksWellFormed'
    BY <1>0, <1>4, GotoTypes, EndTypes, PhaseNames DEF EmbedSucceeded
  <2>2. vectors' \in [Document -> SUBSET Provider]
    BY <1>0, <1>4 DEF EmbedSucceeded
  <2> QED
    BY <1>0, <1>4, <2>1, <2>2 DEF EmbedSucceeded, boundVars
<1>5. CASE EmbedFailed(w)
  <2> DEFINE others == Tail(task[w].providers)
             next == [task[w] EXCEPT !.providers = others, !.fallback = TRUE]
  <2>1. others \in Seq(Provider)
    BY <1>0, <1>5 DEF EmbedFailed
  <2>2. others # <<>> => next \in Task /\ WellFormed(next)
    BY <1>0, <1>5, <2>1, TaskFacts DEF EmbedFailed, Task, WellFormed
  <2>3. Fail(w) \/ (others # <<>> /\ task' = [task EXCEPT ![w] = next])
    <3>1. CASE others = <<>>
      BY <1>5, <3>1 DEF EmbedFailed
    <3>2. CASE others # <<>>
      <4>1. task' = [task EXCEPT ![w].providers = others, ![w].fallback = TRUE]
        BY <1>5, <3>2 DEF EmbedFailed
      <4> QED
        BY <3>2, <4>1
    <3> QED
      BY <3>1, <3>2
  <2>4. task' \in [Worker -> Task] /\ TasksWellFormed'
    BY <1>0, <2>2, <2>3, NewTask, EndTypes
  <2> QED
    BY <1>0, <1>5, <2>4 DEF EmbedFailed, indexVars
<1> QED
  BY <1>1, <1>2, <1>3, <1>4, <1>5

LEMMA PromotionTypes ==
  ASSUME TypeInv, NEW w \in Worker,
         ReadOrder(w) \/ WriteOrder(w) \/ Requeue(w) \/ PromotionFails(w)
  PROVE  TypeInv'
<1> SUFFICES /\ task' \in [Worker -> Task] /\ TasksWellFormed'
             /\ UNCHANGED <<now, documents, jobs, runs, chunked, vectors, errors, saves>>
             /\ job' \in [Document -> Job] /\ order' \in Order /\ faults' \in Nat
  BY DEF TypeInv, TypeOK
<1>0. /\ task[w].pc \in Promotion /\ task[w].doc \in Document
      /\ task[w].pc = "embedded" => task[w].providers # <<>>
      /\ task[w].pc = "promoting" => task[w].providers \in Order
      /\ order \in Order /\ job \in [Document -> Job] /\ faults \in Nat /\ now \in Nat
  BY TaskFacts DEF ReadOrder, WriteOrder, Requeue, PromotionFails, Promotion, WellFormed,
       TypeInv, TypeOK
<1>1. CASE ReadOrder(w)
  <2> DEFINE selected == Head(task[w].providers)
             promoted == <<selected>> \o RemoveFirst(order, selected)
             next == [task[w] EXCEPT !.pc = "promoting", !.providers = promoted]
  <2>1. selected \in Provider
    BY <1>0, <1>1, TaskFacts DEF ReadOrder
  <2>2. promoted \in Order /\ promoted \in Seq(Provider)
    BY <1>0, <2>1, PromotionIsOrder DEF Order
  <2>3. task' = [task EXCEPT ![w] = next]
    BY <1>1 DEF ReadOrder
  <2> HIDE DEF promoted
  <2>4. next \in Task /\ WellFormed(next)
    BY <1>0, <2>2, TaskFacts, PhaseNames DEF Task, WellFormed
  <2>5. task' \in [Worker -> Task] /\ TasksWellFormed'
    BY <2>3, <2>4, NewTask
  <2> QED
    BY <1>0, <1>1, <2>5 DEF ReadOrder, indexVars, boundVars
<1>2. CASE WriteOrder(w)
  <2>1. task' \in [Worker -> Task] /\ TasksWellFormed'
    BY <1>0, <1>2, GotoTypes, PhaseNames DEF WriteOrder
  <2> QED
    BY <1>0, <1>2, <2>1 DEF WriteOrder, boundVars
<1>3. CASE Requeue(w)
  <2>1. task' \in [Worker -> Task] /\ TasksWellFormed'
    BY <1>0, <1>3, EndTypes DEF Requeue
  <2>2. ASSUME NEW d \in Document
        PROVE  [Released(job[d]) EXCEPT !.status = "pending", !.next = now, !.failures = 0] \in Job
    BY <1>0 DEF Released, Job, Status
  <2>3. job' \in [Document -> Job]
    BY <1>0, <1>3, <2>2 DEF Requeue
  <2> QED
    BY <1>0, <1>3, <2>1, <2>3 DEF Requeue, indexVars, boundVars
<1>4. CASE PromotionFails(w)
  BY <1>0, <1>4, EndTypes DEF PromotionFails, indexVars
<1> QED
  BY <1>1, <1>2, <1>3, <1>4

LEMMA FinishTypes ==
  ASSUME TypeInv, FailuresClaimed, NEW w \in Worker, FinishSuccess(w) \/ FinishFailure(w)
  PROVE  TypeInv'
<1> DEFINE d == task[w].doc
           run(outcome) == [gen |-> task[w].gen, outcome |-> outcome]
<1>0. /\ d \in Document /\ task[w].gen \in Nat /\ job[d] \in Job /\ now \in Nat
      /\ job \in [Document -> Job] /\ runs \in [Document -> Seq(Run)]
      /\ UNCHANGED <<now, documents, jobs, indexVars, boundVars>>
  BY TaskFacts DEF FinishSuccess, FinishFailure, WellFormed, TypeInv, TypeOK
<1>1. /\ run("succeeded") \in Run /\ run("failed") \in Run
  BY <1>0 DEF Run
<1>2. task' \in [Worker -> Task] /\ TasksWellFormed'
  BY ReturnTypes DEF FinishSuccess, FinishFailure
<1>3. job' \in [Document -> Job]
  <2>1. CASE job' = job
    BY <1>0, <2>1
  <2>2. CASE FinishSuccess(w) /\ FenceHolds(w)
    <3>1. [Released(job[d]) EXCEPT !.status = "succeeded", !.next = 0, !.failures = 0] \in Job
      BY <1>0 DEF Released, Job, Status
    <3>2. job' = [job EXCEPT ![d] = [Released(job[d]) EXCEPT !.status = "succeeded", !.next = 0,
                                                             !.failures = 0]]
      BY <2>2 DEF FinishSuccess
    <3> QED
      BY <1>0, <3>1, <3>2
  <2>3. CASE FinishFailure(w) /\ FenceHolds(w)
    <3> DEFINE failures == job[d].failures + 1
               next == now + RetryDelay(failures)
    <3>1. job[d].owner = w /\ w # NoWorker
      BY <2>3, NamesAssumption DEF FenceHolds
    <3>2. failures \in 1..MaxClaims
      BY <1>0, <3>1, BoundAssumption DEF FailuresClaimed, Job
    <3>3. next \in Nat
      BY <1>0, <3>2, DelayIsNat
    <3>4. job' = [job EXCEPT ![d] = [Released(job[d]) EXCEPT !.status = "failed",
                                       !.failures = failures, !.next = next]]
      BY <2>3 DEF FinishFailure
    <3>5. failures \in Nat
      BY <3>2
    <3> HIDE DEF failures, next
    <3>6. [Released(job[d]) EXCEPT !.status = "failed", !.failures = failures, !.next = next] \in Job
      BY <1>0, <3>3, <3>5 DEF Released, Job, Status
    <3> QED
      BY <1>0, <3>4, <3>6
  <2> QED
    BY <2>1, <2>2, <2>3 DEF FinishSuccess, FinishFailure
<1>4. runs' \in [Document -> Seq(Run)]
  <2>1. \/ runs' = runs
        \/ runs' = [runs EXCEPT ![d] = Append(runs[d], run("succeeded"))]
        \/ runs' = [runs EXCEPT ![d] = Append(runs[d], run("failed"))]
    BY DEF FinishSuccess, FinishFailure
  <2>2. ASSUME NEW new \in Run, runs' = [runs EXCEPT ![d] = Append(runs[d], new)]
        PROVE  runs' \in [Document -> Seq(Run)]
    BY <1>0, <2>2
  <2> HIDE DEF run
  <2> QED
    BY <1>0, <1>1, <2>1, <2>2
<1> QED
  BY <1>0, <1>2, <1>3, <1>4 DEF TypeInv, TypeOK, indexVars, boundVars

LEMMA StepTypes ==
  ASSUME TypeInv, BatchesQueued, FailuresClaimed, [Next]_vars PROVE TypeInv'
<1>1. CASE UNCHANGED vars
  BY <1>1 DEF vars, TypeInv, TypeOK, TasksWellFormed, indexVars, WellFormed
<1>2. ASSUME NEW w \in Worker, Execute(w) PROVE TypeInv'
  BY <1>2, SelectTypes, StageTypes, PromotionTypes, FinishTypes DEF Execute
<1> QED
  BY <1>1, <1>2, QueueTypes, EnvironmentTypes, SelectTypes DEF Next

-----------------------------------------------------------------------------
(* What a step does to the tasks *)

LEMMA GotoFacts ==
  ASSUME TypeInv, NEW w \in Worker, NEW phase, Goto(w, phase)
  PROVE  /\ \A v \in Worker \ {w} : task'[v] = task[v]
         /\ task'[w].pc = phase /\ task'[w].doc = task[w].doc /\ task'[w].gen = task[w].gen
         /\ task'[w].batch = task[w].batch /\ task'[w].providers = task[w].providers
         /\ task'[w].fallback = task[w].fallback
BY DEF Goto, TypeInv, TypeOK, Task

LEMMA ReturnFacts ==
  ASSUME TypeInv, NEW w \in Worker, Return(w)
  PROVE  /\ \A v \in Worker \ {w} : task'[v] = task[v]
         /\ task'[w].pc \in {"idle", "selected"} /\ task'[w].gen = 0
         /\ task'[w].batch = task[w].batch
BY DEF Return, Idle, TypeInv, TypeOK

LEMMA GrantFacts ==
  ASSUME TypeInv, NEW w \in Worker, NEW d \in Document, NEW rest, Grant(w, d, rest)
  PROVE  LET row == IF d \in jobs THEN job[d] ELSE Queued(now)
         IN  /\ \A v \in Worker \ {w} : task'[v] = task[v]
             /\ task'[w].pc = "ingest" /\ task'[w].doc = d /\ task'[w].batch = rest
             /\ task'[w].gen = row.gen + 1 /\ row.gen < MaxClaims /\ jobs' = jobs \cup {d}
             /\ \A e \in Document \ {d} : job'[e] = job[e]
             /\ job'[d].status = "running" /\ job'[d].owner = w /\ job'[d].gen = row.gen + 1
             /\ job'[d].failures = row.failures /\ job'[d].until = now + LeaseTicks
<1> DEFINE row == IF d \in jobs THEN job[d] ELSE Queued(now)
<1>1. row \in Job
  BY DEF TypeInv, TypeOK, Queued, Job, Status
<1>2. /\ task' = [task EXCEPT ![w] = [Idle EXCEPT !.pc = "ingest", !.doc = d, !.gen = row.gen + 1,
                                                   !.batch = rest]]
      /\ job' = [job EXCEPT ![d] = [row EXCEPT !.status = "running", !.owner = w,
                                               !.until = now + LeaseTicks, !.gen = @ + 1]]
      /\ jobs' = jobs \cup {d} /\ row.gen < MaxClaims
  BY DEF Grant
<1> HIDE DEF row
<1>3. /\ \A v \in Worker \ {w} : task'[v] = task[v]
      /\ task'[w].pc = "ingest" /\ task'[w].doc = d /\ task'[w].batch = rest
      /\ task'[w].gen = row.gen + 1
  BY <1>2 DEF TypeInv, TypeOK, Idle
<1>4. /\ \A e \in Document \ {d} : job'[e] = job[e]
      /\ job'[d].status = "running" /\ job'[d].owner = w /\ job'[d].gen = row.gen + 1
      /\ job'[d].failures = row.failures /\ job'[d].until = now + LeaseTicks
  BY <1>1, <1>2 DEF TypeInv, TypeOK, Job
<1> QED
  BY <1>2, <1>3, <1>4 DEF row

\* The steps of an execution that write neither the jobs nor their audit move on,
\* change what the worker tries next, or give the execution up.
LEMMA WorkFacts ==
  ASSUME TypeInv, NEW w \in Worker,
         \/ EnterStage(w) \/ StageFails(w) \/ ReadProviders(w) \/ EmbedSucceeded(w)
         \/ EmbedFailed(w) \/ ReadOrder(w) \/ WriteOrder(w) \/ PromotionFails(w)
  PROVE  /\ UNCHANGED <<now, documents, jobs, job, runs>>
         /\ \A v \in Worker \ {w} : task'[v] = task[v]
         /\ task'[w].batch = task[w].batch
         /\ task'[w].gen = 0 \/ (task'[w].gen = task[w].gen /\ task'[w].doc = task[w].doc)
<1>0. UNCHANGED <<now, documents, jobs, job, runs>>
  BY DEF EnterStage, StageFails, ReadProviders, EmbedSucceeded, EmbedFailed, ReadOrder,
         WriteOrder, PromotionFails
<1>1. CASE Return(w) \/ (\E phase \in Phase : Goto(w, phase))
  BY <1>0, <1>1, ReturnFacts, GotoFacts
<1>2. CASE ReadProviders(w)
  BY <1>0, <1>2 DEF ReadProviders, TypeInv, TypeOK, Task
<1>3. CASE ReadOrder(w)
  BY <1>0, <1>3 DEF ReadOrder, TypeInv, TypeOK, Task
<1>4. CASE EmbedFailed(w)
  <2> DEFINE others == Tail(task[w].providers)
  <2>1. Fail(w) \/ task' = [task EXCEPT ![w].providers = others, ![w].fallback = TRUE]
    BY <1>4 DEF EmbedFailed
  <2>2. CASE Fail(w)
    BY <1>1, <2>2, PhaseNames DEF Fail
  <2> HIDE DEF others
  <2>3. CASE task' = [task EXCEPT ![w].providers = others, ![w].fallback = TRUE]
    BY <1>0, <2>3 DEF TypeInv, TypeOK, Task
  <2> QED
    BY <2>1, <2>2, <2>3
<1>5. CASE \/ EnterStage(w) \/ StageFails(w) \/ EmbedSucceeded(w) \/ WriteOrder(w)
           \/ PromotionFails(w)
  <2>1. Return(w) \/ (\E phase \in Phase : Goto(w, phase))
    BY <1>5, PhaseNames DEF EnterStage, After, StageFails, EmbedSucceeded, WriteOrder,
         PromotionFails, Done, Fail
  <2> QED
    BY <1>1, <2>1
<1> QED
  BY <1>2, <1>3, <1>4, <1>5

\* The completion of an execution, and the requeue before it.
LEMMA EndFacts ==
  ASSUME TypeInv, NEW w \in Worker, Requeue(w) \/ FinishSuccess(w) \/ FinishFailure(w)
  PROVE  /\ UNCHANGED <<now, documents, jobs, indexVars, boundVars>>
         /\ \A v \in Worker \ {w} : task'[v] = task[v]
         /\ task'[w].batch = task[w].batch
         /\ \/ task'[w].gen = 0 /\ task'[w].pc \in {"idle", "selected"}
            \/ /\ Requeue(w) /\ task'[w].pc = "finishing"
               /\ task'[w].gen = task[w].gen /\ task'[w].doc = task[w].doc
<1>1. UNCHANGED <<now, documents, jobs, indexVars, boundVars>>
  BY DEF Requeue, FinishSuccess, FinishFailure
<1>2. Return(w) \/ (Requeue(w) /\ Goto(w, "finishing"))
  BY DEF Requeue, Done, FinishSuccess, FinishFailure
<1> QED
  BY <1>1, <1>2, ReturnFacts, GotoFacts

\* Batches only shrink, and jobs only grow.
LEMMA StepBatches ==
  ASSUME TypeInv, BatchesQueued, [Next]_vars PROVE BatchesQueued'
<1>0. /\ task \in [Worker -> Task]
      /\ \A v \in Worker : task[v].batch \in Seq(Document)
  BY TaskFacts DEF TypeInv, TypeOK
<1>1. ASSUME jobs \subseteq jobs', NEW w \in Worker,
             \A v \in Worker \ {w} : task'[v] = task[v], task'[w].batch \in {<<>>, task[w].batch}
      PROVE  BatchesQueued'
  BY <1>0, <1>1 DEF BatchesQueued
<1>2. CASE jobs \subseteq jobs' /\ task' \in {task, [w \in Worker |-> Idle]}
  BY <1>0, <1>2 DEF BatchesQueued, Idle
<1>3. ASSUME NEW w \in Worker, ClaimSelected(w) PROVE BatchesQueued'
  <2> DEFINE d == Head(task[w].batch)
             rest == Tail(task[w].batch)
  <2>1. task[w].batch \in Seq(Document) /\ task[w].batch # <<>>
    BY <1>3, TaskFacts DEF ClaimSelected, WellFormed
  <2>2. (\A i \in DOMAIN rest : rest[i] \in jobs) /\ d \in Document
    BY <2>1 DEF BatchesQueued
  <2>3. /\ \A v \in Worker \ {w} : task'[v] = task[v]
        /\ task'[w].batch = rest /\ jobs \subseteq jobs'
    <3>1. CASE Grant(w, d, rest)
      BY <2>2, <3>1, GrantFacts
    <3>2. CASE ~ Grant(w, d, rest)
      BY <1>0, <1>3, <3>2 DEF ClaimSelected, Task
    <3> QED
      BY <3>1, <3>2
  <2> HIDE DEF rest
  <2> QED
    BY <1>0, <2>2, <2>3 DEF BatchesQueued
<1>4. ASSUME NEW w \in Worker, SelectDue(w) PROVE BatchesQueued'
  <2>1. PICK n \in 1..BatchSize :
          \E s \in [1..n -> {d \in Document : Due(d)}] :
            IsBatch(s) /\ task' = [task EXCEPT ![w].pc = "selected", ![w].batch = s]
    BY <1>4, Zenon DEF SelectDue
  <2>2. PICK s \in [1..n -> {d \in Document : Due(d)}] :
          task' = [task EXCEPT ![w].pc = "selected", ![w].batch = s]
    BY <2>1, Zenon
  <2>3. task'[w].batch = s /\ \A v \in Worker \ {w} : task'[v] = task[v]
    BY <1>0, <2>2 DEF Task
  <2>4. \A i \in DOMAIN s : s[i] \in jobs
    BY DEF Due
  <2> QED
    BY <1>4, <2>3, <2>4 DEF SelectDue, BatchesQueued
<1>5. ASSUME NEW w \in Worker, NEW d \in Document, RequestRun(w, d) PROVE BatchesQueued'
  BY <1>1, <1>5, GrantFacts DEF RequestRun
<1>6. ASSUME NEW w \in Worker, NEW d \in Document, BuildEmbeddings(w, d) PROVE BatchesQueued'
  BY <1>0, <1>1, <1>6 DEF BuildEmbeddings, Task
<1>7. ASSUME NEW w \in Worker, Execute(w) PROVE BatchesQueued'
  BY <1>1, <1>3, <1>7, WorkFacts, EndFacts DEF Execute
<1>8. CASE UNCHANGED vars \/ Crash \/ Tick \/ (\E saved \in SavedOrders : SaveOrder(saved))
  BY <1>2, <1>8 DEF vars, Crash, Tick, SaveOrder
<1>9. CASE \/ \E d \in Document, queued \in BOOLEAN : AddDocument(d, queued)
           \/ \E set \in SUBSET Document : Synchronize(set)
  BY <1>2, <1>9 DEF AddDocument, Synchronize
<1> QED
  BY <1>4, <1>5, <1>6, <1>7, <1>8, <1>9 DEF Next

-----------------------------------------------------------------------------
(* Jobs, leases and audit *)

\* The runs since the last success.
Recent(history) ==
  {i \in DOMAIN history : \A j \in i..Len(history) : history[j].outcome = "failed"}

LEMMA RecentFailures ==
  FailuresRecorded <=> \A d \in Document : job[d].failures <= Cardinality(Recent(runs[d]))
BY DEF FailuresRecorded, Recent

LEMMA RecentFinite ==
  ASSUME NEW history \in Seq(Run)
  PROVE  IsFiniteSet(Recent(history)) /\ Cardinality(Recent(history)) \in Nat
<1>1. Recent(history) \subseteq 1..Len(history) /\ Len(history) \in Nat
  BY DEF Recent
<1>2. IsFiniteSet(1..Len(history))
  BY <1>1, FS_Interval
<1> QED
  BY <1>1, <1>2, FS_Subset, FS_CardinalityType

LEMMA FailureIsRecent ==
  ASSUME NEW history \in Seq(Run), NEW run \in Run, run.outcome = "failed"
  PROVE  Cardinality(Recent(Append(history, run))) = Cardinality(Recent(history)) + 1
<1> DEFINE n == Len(history)
           longer == Append(history, run)
<1>1. /\ n \in Nat /\ DOMAIN history = 1..n
      /\ longer \in Seq(Run) /\ Len(longer) = n + 1 /\ DOMAIN longer = 1..(n + 1)
      /\ \A i \in 1..n : longer[i] = history[i]
      /\ longer[n + 1] = run
  OBVIOUS
<1> HIDE DEF longer, n
<1>2. Recent(longer) = Recent(history) \cup {n + 1}
  <2>1. ASSUME NEW i \in 1..n
        PROVE  i \in Recent(longer) <=> i \in Recent(history)
    BY <1>1 DEF Recent, n
  <2>2. n + 1 \in Recent(longer)
    BY <1>1 DEF Recent
  <2>3. Recent(longer) \subseteq 1..(n + 1) /\ Recent(history) \subseteq 1..n
    BY <1>1 DEF Recent
  <2>4. 1..(n + 1) = (1..n) \cup {n + 1}
    BY <1>1
  <2> QED
    BY <2>1, <2>2, <2>3, <2>4
<1>3. n + 1 \notin Recent(history)
  BY <1>1 DEF Recent
<1> QED
  BY <1>2, <1>3, RecentFinite, FS_AddElement DEF longer

LEMMA InitClaims == Init => ClaimsInv /\ BatchesQueued
<1> SUFFICES ASSUME Init PROVE ClaimsInv /\ BatchesQueued
  OBVIOUS
<1>1. FailuresRecorded
  <2>1. ASSUME NEW d \in Document PROVE job[d].failures <= Cardinality(Recent(runs[d]))
    <3>1. job[d].failures = 0 /\ runs[d] \in Seq(Run)
      BY DEF Init, Queued
    <3> QED
      BY <3>1, RecentFinite
  <2> QED
    BY <2>1, RecentFailures
<1>2. RunningIsLeased /\ UnqueuedUnclaimed /\ FailuresClaimed
  BY BoundAssumption DEF Init, Queued, RunningIsLeased, UnqueuedUnclaimed, FailuresClaimed
<1>3. ClaimsUnaudited /\ ClaimsAuditedOnce /\ SuccessIsNewest /\ BatchesQueued
  BY DEF Init, Queued, Idle, ClaimsUnaudited, ClaimsAuditedOnce, SuccessIsNewest, BatchesQueued
<1> QED
  BY <1>1, <1>2, <1>3 DEF ClaimsInv

LEMMA JobFacts ==
  ASSUME TypeInv, NEW d \in Document
  PROVE  /\ job[d] \in Job /\ job[d].failures \in Nat /\ job[d].gen \in Nat
         /\ runs[d] \in Seq(Run) /\ \A i \in DOMAIN runs[d] : runs[d][i].gen \in Nat
<1>1. job[d] \in Job /\ runs[d] \in Seq(Run)
  BY DEF TypeInv, TypeOK
<1>2. \A i \in DOMAIN runs[d] : runs[d][i] \in Run
  BY <1>1
<1> QED
  BY <1>1, <1>2 DEF Job, Run

\* Steps of workers that only go on or give up.
LEMMA MovesClaims ==
  ASSUME TypeInv, ClaimsInv, UNCHANGED <<jobs, job, runs>>,
         \A w \in Worker :
           task'[w].gen = 0 \/ (task'[w].gen = task[w].gen /\ task'[w].doc = task[w].doc)
  PROVE  ClaimsInv'
<1>1. ClaimsUnaudited'
  BY DEF ClaimsInv, ClaimsUnaudited
<1>2. FailuresRecorded'
  BY DEF ClaimsInv, FailuresRecorded
<1> QED
  BY <1>1, <1>2 DEF ClaimsInv, UnqueuedUnclaimed, RunningIsLeased, FailuresClaimed,
     ClaimsAuditedOnce, SuccessIsNewest

LEMMA QueueClaims ==
  ASSUME TypeInv, ClaimsInv, jobs \subseteq jobs', UNCHANGED <<runs, task>>,
         \A d \in Document :
           job'[d] = job[d] \/ (d \notin jobs /\ d \in jobs' /\ job'[d] = Queued(now))
  PROVE  ClaimsInv'
<1>1. \A d \in Document :
        /\ job'[d].status = job[d].status /\ job'[d].owner = job[d].owner
        /\ job'[d].gen = job[d].gen /\ job'[d].failures = job[d].failures
        /\ d \notin jobs' => job'[d] = job[d]
  BY DEF ClaimsInv, UnqueuedUnclaimed, Queued
<1>2. FailuresRecorded'
  BY <1>1 DEF ClaimsInv, FailuresRecorded
<1>3. UnqueuedUnclaimed' /\ RunningIsLeased' /\ FailuresClaimed'
  BY <1>1 DEF ClaimsInv, UnqueuedUnclaimed, RunningIsLeased, FailuresClaimed
<1>4. ClaimsAuditedOnce' /\ SuccessIsNewest'
  BY <1>1 DEF ClaimsInv, ClaimsAuditedOnce, SuccessIsNewest
<1>5. ClaimsUnaudited'
  <2>1. ASSUME NEW w \in Worker, task[w].gen # 0 PROVE task[w].doc \in Document
    BY <2>1, TaskFacts DEF WellFormed
  <2> QED
    BY <1>1, <2>1 DEF ClaimsInv, ClaimsUnaudited
<1> QED
  BY <1>2, <1>3, <1>4, <1>5 DEF ClaimsInv

LEMMA GrantClaims ==
  ASSUME TypeInv, ClaimsInv, NEW w \in Worker, NEW d \in Document, NEW rest,
         Grant(w, d, rest), UNCHANGED runs
  PROVE  ClaimsInv'
<1>0. w # NoWorker
  BY NamesAssumption
<1>1. /\ \A v \in Worker \ {w} : task'[v] = task[v]
      /\ task'[w].doc = d /\ task'[w].gen = job[d].gen + 1 /\ job[d].gen < MaxClaims
      /\ jobs' = jobs \cup {d}
      /\ \A e \in Document \ {d} : job'[e] = job[e]
      /\ job'[d].status = "running" /\ job'[d].owner = w /\ job'[d].gen = job[d].gen + 1
      /\ job'[d].failures = job[d].failures
  BY GrantFacts DEF ClaimsInv, UnqueuedUnclaimed, Queued
<1>2. job[d].gen \in Nat /\ job[d].failures \in Nat /\ MaxClaims \in Nat
  BY JobFacts, BoundAssumption
<1>3. UnqueuedUnclaimed' /\ RunningIsLeased' /\ FailuresClaimed'
  BY <1>0, <1>1, <1>2 DEF ClaimsInv, UnqueuedUnclaimed, RunningIsLeased, FailuresClaimed
<1>4. SuccessIsNewest'
  BY <1>1 DEF ClaimsInv, SuccessIsNewest
<1>5. FailuresRecorded'
  BY <1>1 DEF ClaimsInv, FailuresRecorded
<1>6. ClaimsAuditedOnce'
  BY <1>1, <1>2, JobFacts DEF ClaimsInv, ClaimsAuditedOnce
<1>7. ClaimsUnaudited'
  <2>1. ASSUME NEW v \in Worker, task'[v].gen # 0
        PROVE  /\ task'[v].gen <= job'[task'[v].doc].gen
               /\ \A i \in DOMAIN runs[task'[v].doc] : runs[task'[v].doc][i].gen # task'[v].gen
               /\ \A u \in Worker \ {v} : task'[u].doc = task'[v].doc => task'[u].gen # task'[v].gen
    <3>1. CASE v = w
      <4>1. \A i \in DOMAIN runs[d] : runs[d][i].gen <= job[d].gen /\ runs[d][i].gen \in Nat
        BY JobFacts DEF ClaimsInv, ClaimsAuditedOnce
      <4>2. \A u \in Worker : task[u].gen # 0 /\ task[u].doc = d => task[u].gen <= job[d].gen
        BY DEF ClaimsInv, ClaimsUnaudited
      <4>3. \A u \in Worker : task[u].gen \in Nat
        BY TaskFacts
      <4> QED
        BY <1>1, <1>2, <3>1, <4>1, <4>2, <4>3
    <3>2. CASE v # w
      <4>1. task'[v] = task[v] /\ task[v].gen # 0 /\ task[v].gen \in Nat
        BY <1>1, <2>1, <3>2, TaskFacts
      <4>2. task[v].doc \in Document
        BY <4>1, TaskFacts DEF WellFormed
      <4>3. /\ task[v].gen <= job[task[v].doc].gen
            /\ \A i \in DOMAIN runs[task[v].doc] : runs[task[v].doc][i].gen # task[v].gen
            /\ \A u \in Worker \ {v} : task[u].doc = task[v].doc => task[u].gen # task[v].gen
        BY <4>1 DEF ClaimsInv, ClaimsUnaudited
      <4> QED
        BY <1>1, <1>2, <3>2, <4>1, <4>2, <4>3
    <3> QED
      BY <3>1, <3>2
  <2> QED
    BY <2>1 DEF ClaimsUnaudited
<1> QED
  BY <1>3, <1>4, <1>5, <1>6, <1>7 DEF ClaimsInv

LEMMA RequeueFacts ==
  ASSUME TypeInv, NEW w \in Worker, Requeue(w)
  PROVE  \A d \in Document :
           IF d \in jobs /\ d # task[w].doc
           THEN /\ job'[d].status = "pending" /\ job'[d].owner = NoWorker /\ job'[d].until = 0
                /\ job'[d].gen = job[d].gen /\ job'[d].failures = 0
           ELSE job'[d] = job[d]
<1>1. ASSUME NEW d \in Document, d \in jobs, d # task[w].doc
      PROVE  /\ job'[d].status = "pending" /\ job'[d].owner = NoWorker /\ job'[d].until = 0
             /\ job'[d].gen = job[d].gen /\ job'[d].failures = 0
  <2>1. job'[d] = [Released(job[d]) EXCEPT !.status = "pending", !.next = now, !.failures = 0]
    BY <1>1 DEF Requeue
  <2> QED
    BY <2>1, JobFacts DEF Released, Job
<1>2. ASSUME NEW d \in Document, ~ (d \in jobs /\ d # task[w].doc) PROVE job'[d] = job[d]
  BY <1>2 DEF Requeue
<1> QED
  BY <1>1, <1>2

LEMMA RequeueClaims ==
  ASSUME TypeInv, ClaimsInv, NEW w \in Worker, Requeue(w)
  PROVE  ClaimsInv'
<1>1. /\ UNCHANGED <<jobs, runs>>
      /\ \A d \in Document :
           \/ job'[d] = job[d]
           \/ /\ d \in jobs /\ job'[d].status = "pending" /\ job'[d].owner = NoWorker
              /\ job'[d].gen = job[d].gen /\ job'[d].failures = 0
      /\ \A v \in Worker :
           task'[v].gen = 0 \/ (task'[v].gen = task[v].gen /\ task'[v].doc = task[v].doc)
  BY RequeueFacts, EndFacts DEF Requeue
<1>2. UnqueuedUnclaimed' /\ RunningIsLeased' /\ FailuresClaimed'
  BY <1>1, JobFacts DEF ClaimsInv, UnqueuedUnclaimed, RunningIsLeased, FailuresClaimed
<1>3. ClaimsAuditedOnce' /\ SuccessIsNewest'
  BY <1>1 DEF ClaimsInv, ClaimsAuditedOnce, SuccessIsNewest
<1>4. FailuresRecorded'
  <2>1. ASSUME NEW d \in Document PROVE job'[d].failures <= Cardinality(Recent(runs'[d]))
    <3>1. job[d].failures <= Cardinality(Recent(runs[d])) /\ runs'[d] = runs[d]
      BY <1>1, RecentFailures DEF ClaimsInv
    <3>2. Cardinality(Recent(runs[d])) \in Nat
      BY JobFacts, RecentFinite
    <3> QED
      BY <1>1, <3>1, <3>2
  <2> QED
    BY <2>1 DEF FailuresRecorded, Recent
<1>5. ClaimsUnaudited'
  <2>1. ASSUME NEW v \in Worker, task[v].gen # 0 PROVE task[v].doc \in Document
    BY <2>1, TaskFacts DEF WellFormed
  <2> QED
    BY <1>1, <2>1 DEF ClaimsInv, ClaimsUnaudited
<1> QED
  BY <1>2, <1>3, <1>4, <1>5 DEF ClaimsInv

\* A worker records the run of its claim, and forgets the claim.
LEMMA AuditClaims ==
  ASSUME TypeInv, ClaimsInv, NEW w \in Worker, task[w].gen # 0,
         NEW d \in Document, d = task[w].doc,
         NEW run \in Run, run.gen = task[w].gen,
         runs' = [runs EXCEPT ![d] = Append(@, run)],
         \A e \in Document : job'[e].gen = job[e].gen,
         task'[w].gen = 0, \A v \in Worker \ {w} : task'[v] = task[v]
  PROVE  ClaimsAuditedOnce' /\ ClaimsUnaudited'
<1> DEFINE n == Len(runs[d])
<1>0. /\ \A e \in Document \ {d} : runs'[e] = runs[e]
      /\ n \in Nat /\ DOMAIN runs[d] = 1..n /\ DOMAIN runs'[d] = 1..(n + 1)
      /\ \A i \in 1..n : runs'[d][i] = runs[d][i]
      /\ runs'[d][n + 1] = run
  BY JobFacts DEF TypeInv, TypeOK
<1> HIDE DEF n
<1>1. /\ task[w].gen <= job[d].gen
      /\ \A i \in 1..n : runs[d][i].gen # task[w].gen
      /\ \A v \in Worker \ {w} : task[v].doc = d => task[v].gen # task[w].gen
  BY <1>0 DEF ClaimsInv, ClaimsUnaudited
<1>2. ClaimsAuditedOnce'
  <2>1. ASSUME NEW i \in DOMAIN runs'[d], NEW j \in DOMAIN runs'[d]
        PROVE  /\ runs'[d][i].gen <= job'[d].gen
               /\ runs'[d][i].gen = runs'[d][j].gen => i = j
    BY <1>0, <1>1 DEF ClaimsInv, ClaimsAuditedOnce
  <2>2. ASSUME NEW e \in Document \ {d}, NEW i \in DOMAIN runs'[e], NEW j \in DOMAIN runs'[e]
        PROVE  /\ runs'[e][i].gen <= job'[e].gen
               /\ runs'[e][i].gen = runs'[e][j].gen => i = j
    BY <1>0 DEF ClaimsInv, ClaimsAuditedOnce
  <2> QED
    BY <2>1, <2>2 DEF ClaimsAuditedOnce
<1>3. ClaimsUnaudited'
  <2>1. ASSUME NEW v \in Worker, task'[v].gen # 0
        PROVE  /\ task'[v].gen <= job'[task'[v].doc].gen
               /\ \A i \in DOMAIN runs'[task'[v].doc] : runs'[task'[v].doc][i].gen # task'[v].gen
               /\ \A u \in Worker \ {v} : task'[u].doc = task'[v].doc => task'[u].gen # task'[v].gen
    <3>1. v # w /\ task'[v] = task[v] /\ task[v].gen # 0
      BY <2>1
    <3>2. task[v].doc \in Document
      BY <3>1, TaskFacts DEF WellFormed
    <3>3. /\ task[v].gen <= job[task[v].doc].gen
          /\ \A i \in DOMAIN runs[task[v].doc] : runs[task[v].doc][i].gen # task[v].gen
          /\ \A u \in Worker \ {v} : task[u].doc = task[v].doc => task[u].gen # task[v].gen
      BY <3>1 DEF ClaimsInv, ClaimsUnaudited
    <3>4. \A i \in DOMAIN runs'[task[v].doc] : runs'[task[v].doc][i].gen # task[v].gen
      <4>1. CASE task[v].doc = d
        BY <1>0, <1>1, <3>1, <3>3, <4>1
      <4>2. CASE task[v].doc # d
        BY <1>0, <3>2, <3>3, <4>2
      <4> QED
        BY <4>1, <4>2
    <3> QED
      BY <3>1, <3>2, <3>3, <3>4
  <2> QED
    BY <2>1 DEF ClaimsUnaudited
<1> QED
  BY <1>2, <1>3

\* Both ways an execution ends.
LEMMA FinishFacts ==
  ASSUME TypeInv, ClaimsInv, NEW w \in Worker, FinishSuccess(w) \/ FinishFailure(w)
  PROVE  LET d == task[w].doc
             outcome == IF FinishSuccess(w) THEN "succeeded" ELSE "failed"
         IN  /\ d \in Document /\ d \in jobs /\ task[w].gen # 0
             /\ \A e \in Document \ {d} : job'[e] = job[e]
             /\ ~ FenceHolds(w) => job' = job
             /\ FenceHolds(w) =>
                  /\ job'[d].status = outcome /\ job'[d].owner = NoWorker
                  /\ job'[d].until = 0 /\ job'[d].gen = job[d].gen
                  /\ job'[d].failures = IF FinishSuccess(w) THEN 0 ELSE job[d].failures + 1
             /\ FinishSuccess(w) /\ ~ FenceHolds(w) => runs' = runs
             /\ ~ (FinishSuccess(w) /\ ~ FenceHolds(w)) =>
                  runs' = [runs EXCEPT ![d] = Append(@, [gen |-> task[w].gen, outcome |-> outcome])]
<1> DEFINE d == task[w].doc
<1>1. d \in Document /\ task[w].gen # 0 /\ task[w].gen \in Nat
  BY TaskFacts DEF FinishSuccess, FinishFailure, WellFormed
<1>2. d \in jobs
  BY <1>1, JobFacts DEF ClaimsInv, UnqueuedUnclaimed, ClaimsUnaudited
<1>3. ~ (FinishSuccess(w) /\ FinishFailure(w))
  BY DEF FinishSuccess, FinishFailure
<1>4. job \in [Document -> Job] /\ job[d] \in Job
  BY <1>1 DEF TypeInv, TypeOK
<1> HIDE DEF d
<1>5. CASE FinishSuccess(w)
  <2>1. CASE ~ FenceHolds(w)
    BY <1>1, <1>2, <1>5, <2>1 DEF FinishSuccess, d
  <2>2. CASE FenceHolds(w)
    <3>1. /\ job' = [job EXCEPT ![d] = [Released(job[d]) EXCEPT !.status = "succeeded", !.next = 0,
                                                                !.failures = 0]]
          /\ runs' = [runs EXCEPT ![d] = Append(@, [gen |-> task[w].gen, outcome |-> "succeeded"])]
      BY <1>5, <2>2 DEF FinishSuccess, d
    <3>2. /\ \A e \in Document \ {d} : job'[e] = job[e]
          /\ job'[d].status = "succeeded" /\ job'[d].owner = NoWorker
          /\ job'[d].until = 0 /\ job'[d].gen = job[d].gen /\ job'[d].failures = 0
      BY <1>1, <1>4, <3>1 DEF Released, Job
    <3> QED
      BY <1>1, <1>2, <1>5, <2>2, <3>1, <3>2 DEF d
  <2> QED
    BY <2>1, <2>2
<1>6. CASE FinishFailure(w)
  <2> DEFINE failures == job[d].failures + 1
             next == now + RetryDelay(failures)
  <2>0. runs' = [runs EXCEPT ![d] = Append(@, [gen |-> task[w].gen, outcome |-> "failed"])]
    BY <1>6 DEF FinishFailure, d
  <2>1. CASE ~ FenceHolds(w)
    BY <1>1, <1>2, <1>3, <1>6, <2>0, <2>1 DEF FinishFailure, d
  <2>2. CASE FenceHolds(w)
    <3>1. job' = [job EXCEPT ![d] = [Released(job[d]) EXCEPT !.status = "failed",
                                       !.failures = failures, !.next = next]]
      BY <1>6, <2>2 DEF FinishFailure, d
    <3> HIDE DEF next
    <3>2. /\ \A e \in Document \ {d} : job'[e] = job[e]
          /\ job'[d].status = "failed" /\ job'[d].owner = NoWorker
          /\ job'[d].until = 0 /\ job'[d].gen = job[d].gen
          /\ job'[d].failures = job[d].failures + 1
      BY <1>1, <1>4, <3>1 DEF Released, Job
    <3> QED
      BY <1>1, <1>2, <1>3, <1>6, <2>0, <2>2, <3>2 DEF d
  <2> QED
    BY <2>1, <2>2
<1> QED
  BY <1>5, <1>6

LEMMA FinishClaims ==
  ASSUME TypeInv, ClaimsInv, NEW w \in Worker, FinishSuccess(w) \/ FinishFailure(w)
  PROVE  ClaimsInv'
<1> DEFINE d == task[w].doc
           outcome == IF FinishSuccess(w) THEN "succeeded" ELSE "failed"
           run == [gen |-> task[w].gen, outcome |-> outcome]
<1>1. /\ d \in Document /\ d \in jobs /\ task[w].gen # 0 /\ task[w].gen \in Nat
      /\ \A e \in Document \ {d} : job'[e] = job[e]
      /\ ~ FenceHolds(w) => job' = job
      /\ FenceHolds(w) =>
           /\ job'[d].status = outcome /\ job'[d].owner = NoWorker
           /\ job'[d].until = 0 /\ job'[d].gen = job[d].gen
           /\ job'[d].failures = IF FinishSuccess(w) THEN 0 ELSE job[d].failures + 1
      /\ FinishSuccess(w) /\ ~ FenceHolds(w) => runs' = runs
      /\ ~ (FinishSuccess(w) /\ ~ FenceHolds(w)) => runs' = [runs EXCEPT ![d] = Append(@, run)]
  BY FinishFacts, TaskFacts
<1>2. /\ UNCHANGED jobs /\ task'[w].gen = 0 /\ \A v \in Worker \ {w} : task'[v] = task[v]
  BY EndFacts DEF FinishSuccess, FinishFailure, Requeue
<1>3. /\ run \in Run /\ run.gen = task[w].gen /\ run.outcome = outcome
      /\ outcome \in {"succeeded", "failed"} /\ (outcome = "succeeded" <=> FinishSuccess(w))
  BY <1>1 DEF Run
<1> HIDE DEF d, outcome, run
<1>4. CASE FinishSuccess(w) /\ ~ FenceHolds(w)
  BY <1>1, <1>2, <1>4, MovesClaims
<1>5. CASE ~ (FinishSuccess(w) /\ ~ FenceHolds(w))
  <2>0. /\ runs \in [Document -> Seq(Run)]
        /\ \A e \in Document \ {d} : runs'[e] = runs[e]
        /\ runs'[d] = Append(runs[d], run) /\ runs[d] \in Seq(Run)
        /\ \A e \in Document : job'[e].gen = job[e].gen
        /\ FenceHolds(w) => job[d].owner = w /\ job[d].gen = task[w].gen /\ w # NoWorker
    BY <1>1, <1>5, NamesAssumption DEF TypeInv, TypeOK, FenceHolds, d
  <2>1. ClaimsAuditedOnce' /\ ClaimsUnaudited'
    BY <1>1, <1>2, <1>3, <1>5, <2>0, AuditClaims DEF d
  <2>2. UnqueuedUnclaimed'
    BY <1>1, <1>2, <2>0 DEF ClaimsInv, UnqueuedUnclaimed
  <2>3. RunningIsLeased'
    BY <1>1, <1>3 DEF ClaimsInv, RunningIsLeased
  <2>4. FailuresClaimed'
    BY <1>1, <2>0, JobFacts DEF ClaimsInv, FailuresClaimed
  <2>5. SuccessIsNewest'
    <3>1. \E i \in DOMAIN runs'[d] : runs'[d][i] = run
      BY <2>0, <1>3
    <3>2. \A i \in DOMAIN runs[d] : i \in DOMAIN runs'[d] /\ runs'[d][i] = runs[d][i]
      BY <2>0, <1>3
    <3>3. job'[d].status = "succeeded" =>
            \E i \in DOMAIN runs'[d] :
              runs'[d][i].gen = job'[d].gen /\ runs'[d][i].outcome = "succeeded"
      <4>1. CASE FenceHolds(w)
        BY <1>1, <1>3, <2>0, <3>1, <4>1
      <4>2. CASE ~ FenceHolds(w)
        BY <1>1, <3>2, <4>2 DEF ClaimsInv, SuccessIsNewest
      <4> QED
        BY <4>1, <4>2
    <3> QED
      BY <1>1, <2>0, <3>3 DEF ClaimsInv, SuccessIsNewest
  <2>6. FailuresRecorded'
    <3>1. ASSUME NEW e \in Document PROVE job'[e].failures <= Cardinality(Recent(runs'[e]))
      <4>1. job[e].failures <= Cardinality(Recent(runs[e])) /\ job[e].failures \in Nat
        BY RecentFailures, JobFacts DEF ClaimsInv
      <4>2. CASE e # d
        BY <1>1, <2>0, <4>1, <4>2
      <4>3. CASE e = d /\ outcome = "succeeded"
        <5>1. job'[d].failures = 0
          BY <1>1, <1>3, <1>5, <4>3
        <5>2. Append(runs[d], run) \in Seq(Run)
          BY <1>3, <2>0
        <5> QED
          BY <2>0, <4>3, <5>1, <5>2, RecentFinite
      <4>4. CASE e = d /\ outcome = "failed"
        <5>1. Cardinality(Recent(runs'[d])) = Cardinality(Recent(runs[d])) + 1
          BY <1>3, <2>0, <4>4, FailureIsRecent
        <5>2. Cardinality(Recent(runs[d])) \in Nat
          BY <2>0, RecentFinite
        <5>3. job'[d].failures \in {job[d].failures, job[d].failures + 1}
          BY <1>1, <1>3, <4>1, <4>4
        <5> QED
          BY <4>1, <4>4, <5>1, <5>2, <5>3
      <4> QED
        BY <1>3, <4>2, <4>3, <4>4
    <3> QED
      BY <3>1 DEF FailuresRecorded, Recent
  <2> QED
    BY <2>1, <2>2, <2>3, <2>4, <2>5, <2>6 DEF ClaimsInv
<1> QED
  BY <1>1, <1>4, <1>5

LEMMA StepClaims ==
  ASSUME TypeInv, BatchesQueued, ClaimsInv, [Next]_vars PROVE ClaimsInv'
<1>1. CASE \/ UNCHANGED vars \/ Crash \/ Tick
           \/ \E saved \in SavedOrders : SaveOrder(saved)
           \/ \E w \in Worker : SelectDue(w)
           \/ \E w \in Worker, d \in Document : BuildEmbeddings(w, d)
  <2>1. UNCHANGED <<jobs, job, runs>>
    BY <1>1 DEF vars, Crash, Tick, SaveOrder, SelectDue, BuildEmbeddings
  <2>2. \A w \in Worker :
          task'[w].gen = 0 \/ (task'[w].gen = task[w].gen /\ task'[w].doc = task[w].doc)
    <3>1. CASE task' = task
      BY <3>1
    <3>2. CASE Crash
      BY <3>2 DEF Crash, Idle
    <3>3. ASSUME NEW w \in Worker, SelectDue(w)
          PROVE  \E s : task' = [task EXCEPT ![w].pc = "selected", ![w].batch = s]
      BY <3>3, Zenon DEF SelectDue
    <3>4. ASSUME NEW w \in Worker, NEW s, task' = [task EXCEPT ![w].pc = "selected", ![w].batch = s]
          PROVE  \A v \in Worker : task'[v].gen = task[v].gen /\ task'[v].doc = task[v].doc
      BY <3>4 DEF TypeInv, TypeOK, Task
    <3>5. ASSUME NEW w \in Worker, NEW d \in Document, BuildEmbeddings(w, d)
          PROVE  \A v \in Worker :
                   task'[v].gen = 0 \/ (task'[v].gen = task[v].gen /\ task'[v].doc = task[v].doc)
      <4>1. /\ task' = [task EXCEPT ![w].pc = "embeddings", ![w].doc = d]
            /\ task[w].gen = 0
        BY <3>5, TaskFacts DEF BuildEmbeddings, WellFormed
      <4> QED
        BY <4>1 DEF TypeInv, TypeOK, Task
    <3> QED
      BY <1>1, <3>1, <3>2, <3>3, <3>4, <3>5 DEF vars, Tick, SaveOrder
  <2> QED
    BY <2>1, <2>2, MovesClaims
<1>2. ASSUME NEW d \in Document, NEW queued \in BOOLEAN, AddDocument(d, queued) PROVE ClaimsInv'
  <2>1. d \notin jobs
    BY <1>2 DEF AddDocument, TypeInv, TypeOK
  <2>2. \A e \in Document :
          job'[e] = job[e] \/ (e \notin jobs /\ e \in jobs' /\ job'[e] = Queued(now))
    BY <1>2, <2>1 DEF AddDocument, TypeInv, TypeOK
  <2> QED
    BY <1>2, <2>2, QueueClaims DEF AddDocument
<1>3. ASSUME NEW set \in SUBSET Document, Synchronize(set) PROVE ClaimsInv'
  BY <1>3, QueueClaims DEF Synchronize
<1>4. ASSUME NEW w \in Worker, NEW d \in Document, RequestRun(w, d) PROVE ClaimsInv'
  BY <1>4, GrantClaims DEF RequestRun
<1>5. ASSUME NEW w \in Worker, ClaimSelected(w) PROVE ClaimsInv'
  <2> DEFINE d == Head(task[w].batch)
             rest == Tail(task[w].batch)
  <2>1. task[w].batch \in Seq(Document) /\ task[w].batch # <<>> /\ task[w].gen = 0
    BY <1>5, TaskFacts DEF ClaimSelected, WellFormed
  <2>2. d \in Document
    BY <2>1
  <2>3. CASE Grant(w, d, rest)
    BY <1>5, <2>2, <2>3, GrantClaims DEF ClaimSelected
  <2>4. CASE ~ Grant(w, d, rest)
    <3>1. /\ task' = [task EXCEPT ![w].batch = rest,
                                  ![w].pc = IF rest = <<>> THEN "idle" ELSE @]
          /\ UNCHANGED <<jobs, job, runs>>
      BY <1>5, <2>4 DEF ClaimSelected
    <3>2. \A v \in Worker : task'[v].gen = task[v].gen /\ task'[v].doc = task[v].doc
      BY <3>1 DEF TypeInv, TypeOK, Task
    <3> QED
      BY <3>1, <3>2, MovesClaims
  <2> QED
    BY <2>3, <2>4
<1>6. ASSUME NEW w \in Worker, Execute(w) PROVE ClaimsInv'
  <2>1. CASE Requeue(w)
    BY <2>1, RequeueClaims
  <2>2. CASE FinishSuccess(w) \/ FinishFailure(w)
    BY <2>2, FinishClaims
  <2>3. CASE \/ EnterStage(w) \/ StageFails(w) \/ ReadProviders(w) \/ EmbedSucceeded(w)
             \/ EmbedFailed(w) \/ ReadOrder(w) \/ WriteOrder(w) \/ PromotionFails(w)
    <3>1. /\ UNCHANGED <<jobs, job, runs>>
          /\ \A v \in Worker :
               task'[v].gen = 0 \/ (task'[v].gen = task[v].gen /\ task'[v].doc = task[v].doc)
      BY <2>3, WorkFacts
    <3> QED
      BY <3>1, MovesClaims
  <2> QED
    BY <1>5, <1>6, <2>1, <2>2, <2>3 DEF Execute
<1> QED
  BY <1>1, <1>2, <1>3, <1>4, <1>6 DEF Next

\* The job, its lease and its audit agree in every reachable state, for any
\* documents, workers, providers and bounds: document_indexing.py keeps them
\* together although stages outlive their leases and failovers take leases away.
THEOREM JobsAgree == Spec => []JobsInv
<1> DEFINE IInv == TypeInv /\ BatchesQueued /\ ClaimsInv
<1>1. Init => IInv
  BY InitTypes, InitClaims
<1>2. IInv /\ [Next]_vars => IInv'
  BY StepTypes, StepBatches, StepClaims DEF ClaimsInv
<1>3. IInv => JobsInv
  BY DEF TypeInv, ClaimsInv, JobsInv
<1> QED
  BY <1>1, <1>2, <1>3, PTL DEF Spec

-----------------------------------------------------------------------------
(* Failovers *)

Serving == {"embedding", "embedded", "promoting", "requeueing", "finishing"}

\* Only the requeue itself takes away the promise of one.
LEMMA ServedStays ==
  ASSUME NEW d \in Document, Served(d), order' = order, vectors[d] \subseteq vectors'[d],
         \A v \in Worker : task[v].pc = "requeueing" => task'[v] = task[v]
  PROVE  Served(d)'
BY DEF Served

LEMMA UnchangedServes ==
  ASSUME TypeInv, NEW v \in Worker, Serves(v), task'[v] = task[v], order' = order,
         \A d \in Document : vectors[d] \subseteq vectors'[d],
         task[v].gen # 0 =>
           job'[task[v].doc] = job[task[v].doc] \/ job'[task[v].doc].owner # v,
         \A u \in Worker : task[u].pc = "requeueing" => task'[u] = task[u]
  PROVE  Serves(v)'
<1>1. CASE task[v].pc \notin Serving
  BY <1>1 DEF Serves, Serving
<1>2. CASE task[v].pc \in Serving
  <2>1. PICK d \in Document : d = task[v].doc
    BY <1>2, TaskFacts DEF WellFormed, Serving
  <2>2. Served(d) => Served(d)'
    BY ServedStays
  <2>3. task[v].gen # 0 /\ FenceHolds(v)' => FenceHolds(v)
    BY DEF FenceHolds
  <2> QED
    BY <2>1, <2>2, <2>3 DEF Serves, Served
<1> QED
  BY <1>1, <1>2

\* Steps that leave the order of the providers and the requeueing workers alone.
LEMMA StillServed ==
  ASSUME TypeInv, SucceededServed, WorkersServe, order' = order,
         \A d \in Document :
           /\ vectors[d] \subseteq vectors'[d]
           /\ job'[d].status = "succeeded" => job[d].status = "succeeded" \/ Served(d),
         \A v \in Worker :
           \/ /\ task'[v] = task[v]
              /\ task[v].gen # 0 =>
                   job'[task[v].doc] = job[task[v].doc] \/ job'[task[v].doc].owner # v
           \/ task[v].pc # "requeueing" /\ Serves(v)'
  PROVE  SucceededServed' /\ WorkersServe'
<1>1. \A v \in Worker : task[v].pc = "requeueing" => task'[v] = task[v]
  OBVIOUS
<1>2. SucceededServed'
  <2>1. ASSUME NEW d \in Document, job'[d].status = "succeeded" PROVE Served(d)'
    <3>1. Served(d)
      BY <2>1 DEF SucceededServed, Served
    <3> QED
      BY <1>1, <3>1, ServedStays
  <2> QED
    BY <2>1 DEF SucceededServed, Served
<1>3. ASSUME NEW v \in Worker PROVE Serves(v)'
  <2>1. CASE Serves(v)'
    BY <2>1
  <2>2. CASE /\ task'[v] = task[v]
             /\ task[v].gen # 0 =>
                  job'[task[v].doc] = job[task[v].doc] \/ job'[task[v].doc].owner # v
    BY <1>1, <2>2, UnchangedServes DEF WorkersServe
  <2> QED
    BY <2>1, <2>2
<1> QED
  BY <1>2, <1>3 DEF WorkersServe

\* Everything the queue, the claims and the stages do.
LEMMA QuietServed ==
  ASSUME TypeInv, SucceededServed, WorkersServe, NEW w \in Worker,
         UNCHANGED <<vectors, order>>,
         \A v \in Worker \ {w} : task'[v] = task[v],
         task'[w] = task[w] \/ (task[w].pc # "requeueing" /\ task'[w].pc \notin Serving),
         \A d \in Document :
           /\ job'[d].status = "succeeded" => job[d].status = "succeeded" \/ Served(d)
           /\ job'[d] = job[d] \/ job'[d].owner \in {NoWorker, w},
         task'[w] # task[w] \/ job' = job
  PROVE  SucceededServed' /\ WorkersServe'
<1>1. ASSUME NEW v \in Worker
      PROVE  \/ /\ task'[v] = task[v]
                /\ task[v].gen # 0 =>
                     job'[task[v].doc] = job[task[v].doc] \/ job'[task[v].doc].owner # v
             \/ task[v].pc # "requeueing" /\ Serves(v)'
  <2>1. CASE v = w /\ task'[w] # task[w]
    BY <2>1 DEF Serves, Serving
  <2>2. CASE v = w /\ task'[w] = task[w]
    BY <2>2
  <2>3. CASE v # w
    <3>1. v \notin {NoWorker, w}
      BY <2>3, NamesAssumption
    <3>2. task[v].gen # 0 => task[v].doc \in Document
      BY TaskFacts DEF WellFormed
    <3> QED
      BY <2>3, <3>1, <3>2
  <2> QED
    BY <2>1, <2>2, <2>3
<1> QED
  BY <1>1, StillServed

LEMMA EmbeddingServed ==
  ASSUME TypeInv, SucceededServed, WorkersServe, NEW w \in Worker,
         ReadProviders(w) \/ EmbedSucceeded(w) \/ EmbedFailed(w) \/ ReadOrder(w)
  PROVE  SucceededServed' /\ WorkersServe'
<1>a. PICK d \in Document : d = task[w].doc
  BY TaskFacts DEF ReadProviders, EmbedSucceeded, EmbedFailed, ReadOrder, WellFormed
<1>0. /\ d = task[w].doc /\ task[w].pc # "requeueing"
      /\ UNCHANGED <<job, order>> /\ \A v \in Worker \ {w} : task'[v] = task[v]
      /\ vectors \in [Document -> SUBSET Provider] /\ task \in [Worker -> Task]
  BY <1>a, WorkFacts DEF ReadProviders, EmbedSucceeded, EmbedFailed, ReadOrder, TypeInv, TypeOK,
     indexVars
<1>1. \A e \in Document : vectors[e] \subseteq vectors'[e]
  BY <1>0 DEF ReadProviders, EmbedSucceeded, EmbedFailed, ReadOrder, indexVars
<1>2. Serves(w)'
  <2>1. CASE ReadProviders(w)
    <3>1. task'[w].pc = "embedding" /\ task'[w].providers = order
      BY <1>0, <2>1 DEF ReadProviders, Task
    <3> QED
      BY <1>0, <3>1 DEF Serves
  <2>2. CASE EmbedSucceeded(w)
    <3> DEFINE p == task[w].providers[1]
    <3>1. /\ task[w].pc = "embedding" /\ task[w].providers \in Seq(Provider)
          /\ task[w].providers # <<>>
      BY <2>2, TaskFacts DEF EmbedSucceeded, WellFormed
    <3>2. p \in vectors'[d]
      BY <1>0, <2>2, <3>1 DEF EmbedSucceeded
    <3>3. CASE task[w].fallback
      <4>1. task'[w].pc = "embedded" /\ task'[w].doc = d /\ task'[w].providers = task[w].providers
        BY <1>0, <2>2, <3>3, GotoFacts DEF EmbedSucceeded
      <4> QED
        BY <3>2, <4>1 DEF Serves
    <3>4. CASE ~ task[w].fallback /\ Goto(w, "finishing")
      <4>1. /\ task'[w].pc = "finishing" /\ task'[w].doc = d /\ task'[w].gen = task[w].gen
        BY <1>0, <3>4, GotoFacts
      <4>2. FenceHolds(w)' => FenceHolds(w)
        BY <1>0, <4>1 DEF FenceHolds
      <4>3. task[w].gen # 0 /\ FenceHolds(w) => p = order[1] \/ Served(d)
        BY <1>0, <3>1, <3>4 DEF WorkersServe, Serves, Served
      <4>4. task[w].gen # 0 /\ FenceHolds(w) => Served(d)'
        <5>1. p = order[1] => Served(d)'
          BY <1>0, <3>2 DEF Served
        <5>2. \A v \in Worker : task[v].pc = "requeueing" => task'[v] = task[v]
          BY <1>0
        <5>3. Served(d) => Served(d)'
          BY <1>0, <1>1, <5>2, ServedStays
        <5> QED
          BY <4>3, <5>1, <5>3
      <4> QED
        BY <4>1, <4>2, <4>4 DEF Serves, Served
    <3>5. CASE ~ task[w].fallback /\ Return(w)
      BY <3>5, ReturnFacts DEF Serves
    <3> QED
      BY <2>2, <3>3, <3>4, <3>5 DEF EmbedSucceeded, Done
  <2>3. CASE EmbedFailed(w)
    <3> DEFINE others == Tail(task[w].providers)
    <3>1. CASE Fail(w)
      <4>1. Goto(w, "failing") \/ Return(w)
        BY <3>1 DEF Fail
      <4>2. task'[w].pc \in {"failing", "idle", "selected"}
        BY <4>1, GotoFacts, ReturnFacts
      <4> QED
        BY <4>2 DEF Serves
    <3>2. CASE ~ Fail(w)
      <4>1. task' = [task EXCEPT ![w].providers = others, ![w].fallback = TRUE]
        BY <2>3, <3>2 DEF EmbedFailed
      <4> HIDE DEF others
      <4>2. task'[w].pc = "embedding" /\ task'[w].fallback
        BY <1>0, <2>3, <4>1 DEF EmbedFailed, Task
      <4> QED
        BY <4>2 DEF Serves
    <3> QED
      BY <3>1, <3>2
  <2>4. CASE ReadOrder(w)
    <3> DEFINE selected == Head(task[w].providers)
               rest == RemoveFirst(order, selected)
               promoted == <<selected>> \o rest
    <3>1. /\ task[w].pc = "embedded" /\ task[w].providers \in Seq(Provider)
          /\ task[w].providers # <<>>
      BY <2>4, TaskFacts DEF ReadOrder, WellFormed
    <3>2. selected = task[w].providers[1] /\ selected \in Provider
      BY <3>1
    <3>3. selected \in vectors[d]
      BY <1>0, <3>1, <3>2 DEF WorkersServe, Serves
    <3>4. rest \in Seq(Provider)
      BY <3>2, RemoveFirstFromOrder DEF TypeInv, TypeOK
    <3> HIDE DEF rest
    <3>5. promoted[1] = selected
      BY <3>2, <3>4
    <3>6. task' = [task EXCEPT ![w].pc = "promoting", ![w].providers = promoted]
      BY <2>4 DEF ReadOrder, rest
    <3> HIDE DEF promoted
    <3>7. task'[w].pc = "promoting" /\ task'[w].doc = d /\ task'[w].providers = promoted
      BY <1>0, <3>6 DEF Task
    <3>8. vectors' = vectors
      BY <2>4 DEF ReadOrder, indexVars
    <3> QED
      BY <3>3, <3>5, <3>7, <3>8 DEF Serves
  <2> QED
    BY <2>1, <2>2, <2>3, <2>4
<1> QED
  BY <1>0, <1>1, <1>2, StillServed

\* The promoting worker has just embedded its own document, and announces the
\* requeue of every other.
LEMMA PromotionServed ==
  ASSUME TypeInv, SucceededServed, WorkersServe, NEW w \in Worker, WriteOrder(w)
  PROVE  SucceededServed' /\ WorkersServe'
<1>1. /\ UNCHANGED <<job, vectors>> /\ order' = task[w].providers
      /\ task[w].pc = "promoting" /\ task'[w].pc = "requeueing" /\ task'[w].doc = task[w].doc
      /\ \A v \in Worker \ {w} : task'[v] = task[v]
  BY GotoFacts DEF WriteOrder
<1>2. \A d \in Document : Served(d)'
  BY <1>1 DEF WorkersServe, Serves, Served
<1>3. ASSUME NEW v \in Worker PROVE Serves(v)'
  <2>1. task'[v].pc \in Serving => task'[v].doc \in Document
    BY <1>1, TaskFacts DEF WellFormed, Serving
  <2>2. CASE task'[v].pc \notin Serving
    BY <2>2 DEF Serves, Serving
  <2>3. CASE task'[v].pc \in Serving
    <3>1. PICK d \in Document : d = task'[v].doc
      BY <2>1, <2>3
    <3>2. Served(d)'
      BY <1>2
    <3>3. task'[v].pc \in {"embedded", "promoting"} => task'[v] = task[v]
      BY <1>1
    <3> QED
      BY <1>1, <3>1, <3>2, <3>3 DEF WorkersServe, Serves, Served
  <2> QED
    BY <2>2, <2>3
<1> QED
  BY <1>2, <1>3 DEF SucceededServed, WorkersServe, Served

\* The requeue leaves no other document succeeded, and breaks every other fence.
LEMMA RequeueServed ==
  ASSUME TypeInv, ClaimsInv, SucceededServed, WorkersServe, NEW w \in Worker, Requeue(w)
  PROVE  SucceededServed' /\ WorkersServe'
<1>a. PICK d \in Document : d = task[w].doc
  BY TaskFacts DEF Requeue, WellFormed
<1>1. /\ d = task[w].doc /\ task[w].pc = "requeueing" /\ UNCHANGED <<vectors, order>>
      /\ \A v \in Worker \ {w} : task'[v] = task[v]
      /\ \/ task'[w].gen = 0 /\ task'[w].pc \in {"idle", "selected"}
         \/ task'[w].pc = "finishing" /\ task'[w].gen = task[w].gen /\ task'[w].doc = d
  BY <1>a, EndFacts DEF Requeue, indexVars
<1>2. \A e \in Document \ {d} : job'[e].status = "pending" /\ job'[e].owner = NoWorker
  BY <1>1, RequeueFacts DEF ClaimsInv, UnqueuedUnclaimed
<1>3. job'[d] = job[d]
  BY <1>1, RequeueFacts
<1>4. Served(d) => Served(d)'
  BY <1>1 DEF Served
<1>5. SucceededServed'
  <2>1. ASSUME NEW e \in Document, job'[e].status = "succeeded" PROVE Served(e)'
    <3>1. e = d /\ job[d].status = "succeeded"
      BY <1>2, <1>3, <2>1
    <3> QED
      BY <1>1, <1>4, <3>1 DEF SucceededServed, Served
  <2> QED
    BY <2>1 DEF SucceededServed, Served
<1>6. ASSUME NEW v \in Worker PROVE Serves(v)'
  <2>1. ASSUME task'[v].gen # 0, FenceHolds(v)'
        PROVE  /\ task'[v].doc = d /\ task[v].doc = d /\ task[v].gen # 0 /\ FenceHolds(v)
               /\ task'[v].pc = "finishing" => task[v].pc \in {"requeueing", "finishing"}
               /\ task'[v] = task[v] \/ task'[v].pc = "finishing"
    <3>1. /\ task[v].gen # 0 /\ task'[v].gen = task[v].gen /\ task'[v].doc = task[v].doc
          /\ task'[v].pc = "finishing" => task[v].pc \in {"requeueing", "finishing"}
          /\ task'[v] = task[v] \/ task'[v].pc = "finishing"
      BY <1>1, <2>1
    <3>2. task[v].doc \in Document
      BY <3>1, TaskFacts DEF WellFormed
    <3>3. job'[task[v].doc].owner = v /\ v # NoWorker
      BY <2>1, <3>1, NamesAssumption DEF FenceHolds
    <3>4. task[v].doc = d
      BY <1>2, <3>2, <3>3
    <3> QED
      BY <1>3, <2>1, <3>1, <3>4 DEF FenceHolds
  <2>2. task'[v].pc \in {"embedded", "promoting"} => task'[v] = task[v]
    BY <1>1
  <2> QED
    BY <1>1, <1>4, <2>1, <2>2 DEF WorkersServe, Serves, Served
<1> QED
  BY <1>5, <1>6 DEF WorkersServe

\* A step without a crash or a database error, and without a saved order.
LEMMA StepServed ==
  ASSUME TypeInv, ClaimsInv, SucceededServed, WorkersServe, [Next]_vars,
         faults' = faults, saves' = saves
  PROVE  SucceededServed' /\ WorkersServe'
<1>0. faults \in Nat /\ saves \in Nat
  BY DEF TypeInv, TypeOK
<1>1. CASE \/ UNCHANGED vars \/ Tick
           \/ \E d \in Document, queued \in BOOLEAN : AddDocument(d, queued)
           \/ \E set \in SUBSET Document : Synchronize(set)
  <2>1. UNCHANGED <<vectors, order, task>>
    BY <1>1 DEF vars, Tick, AddDocument, Synchronize, indexVars
  <2>2. \A d \in Document : job'[d] = job[d] \/ job'[d] = Queued(now)
    BY <1>1 DEF vars, Tick, AddDocument, Synchronize, TypeInv, TypeOK
  <2>3. Queued(now).status = "pending" /\ Queued(now).owner = NoWorker
    BY DEF Queued
  <2>4. ASSUME NEW v \in Worker
        PROVE  /\ task'[v] = task[v]
               /\ task[v].gen # 0 =>
                    job'[task[v].doc] = job[task[v].doc] \/ job'[task[v].doc].owner # v
    <3>1. task[v].gen # 0 => task[v].doc \in Document
      BY TaskFacts DEF WellFormed
    <3>2. v # NoWorker
      BY NamesAssumption
    <3> QED
      BY <2>1, <2>2, <2>3, <3>1, <3>2
  <2> QED
    BY <2>1, <2>2, <2>3, <2>4, StillServed
<1>2. ASSUME NEW w \in Worker, NEW d \in Document, NEW rest, Grant(w, d, rest),
             UNCHANGED <<vectors, order>>, task[w].pc # "requeueing"
      PROVE  SucceededServed' /\ WorkersServe'
  <2>1. /\ \A v \in Worker \ {w} : task'[v] = task[v]
        /\ task'[w].pc = "ingest"
        /\ \A e \in Document \ {d} : job'[e] = job[e]
        /\ job'[d].status = "running" /\ job'[d].owner = w
    BY <1>2, GrantFacts
  <2>2. ASSUME NEW v \in Worker
        PROVE  \/ /\ task'[v] = task[v]
                  /\ task[v].gen # 0 =>
                       job'[task[v].doc] = job[task[v].doc] \/ job'[task[v].doc].owner # v
               \/ task[v].pc # "requeueing" /\ Serves(v)'
    <3>1. CASE v = w
      BY <1>2, <2>1, <3>1 DEF Serves
    <3>2. CASE v # w
      <4>1. task[v].gen # 0 => task[v].doc \in Document
        BY TaskFacts DEF WellFormed
      <4> QED
        BY <2>1, <3>2, <4>1
    <3> QED
      BY <3>1, <3>2
  <2> QED
    BY <1>2, <2>1, <2>2, StillServed
<1>3. ASSUME NEW w \in Worker, UNCHANGED <<vectors, order, job>>,
             \A v \in Worker \ {w} : task'[v] = task[v],
             task[w].pc # "requeueing", task'[w].pc \notin Serving
      PROVE  SucceededServed' /\ WorkersServe'
  BY <1>3, QuietServed
<1>4. ASSUME NEW w \in Worker, SelectDue(w) PROVE SucceededServed' /\ WorkersServe'
  <2>1. \E s : task' = [task EXCEPT ![w].pc = "selected", ![w].batch = s]
    BY <1>4, Zenon DEF SelectDue
  <2>2. task'[w].pc = "selected" /\ \A v \in Worker \ {w} : task'[v] = task[v]
    BY <2>1 DEF TypeInv, TypeOK, Task
  <2> QED
    BY <1>3, <1>4, <2>2 DEF SelectDue, indexVars, Serving
<1>5. ASSUME NEW w \in Worker, NEW d \in Document, RequestRun(w, d) \/ BuildEmbeddings(w, d)
      PROVE  SucceededServed' /\ WorkersServe'
  <2>1. CASE RequestRun(w, d)
    BY <1>2, <2>1 DEF RequestRun, indexVars
  <2>2. CASE BuildEmbeddings(w, d)
    <3>1. task'[w].pc = "embeddings" /\ \A v \in Worker \ {w} : task'[v] = task[v]
      BY <2>2 DEF BuildEmbeddings, TypeInv, TypeOK, Task
    <3> QED
      BY <1>3, <2>2, <3>1 DEF BuildEmbeddings, indexVars, Serving
  <2> QED
    BY <1>5, <2>1, <2>2
<1>6. ASSUME NEW w \in Worker, ClaimSelected(w) PROVE SucceededServed' /\ WorkersServe'
  <2> DEFINE d == Head(task[w].batch)
             rest == Tail(task[w].batch)
  <2>1. d \in Document
    <3>1. task[w].batch \in Seq(Document) /\ task[w].batch # <<>>
      BY <1>6, TaskFacts DEF ClaimSelected, WellFormed
    <3> QED
      BY <3>1
  <2>2. CASE Grant(w, d, rest)
    BY <1>2, <1>6, <2>1, <2>2 DEF ClaimSelected, indexVars
  <2>3. CASE ~ Grant(w, d, rest)
    <3>1. /\ task' = [task EXCEPT ![w].batch = rest,
                                  ![w].pc = IF rest = <<>> THEN "idle" ELSE @]
          /\ UNCHANGED <<job, vectors, order>> /\ task[w].pc = "selected"
      BY <1>6, <2>3 DEF ClaimSelected, indexVars
    <3> HIDE DEF rest
    <3>2. /\ \A v \in Worker \ {w} : task'[v] = task[v]
          /\ task'[w].pc \in {"idle", "selected"}
      BY <3>1 DEF TypeInv, TypeOK, Task
    <3> QED
      BY <1>3, <3>1, <3>2 DEF Serving
  <2> QED
    BY <2>2, <2>3
<1>7. ASSUME NEW w \in Worker, EnterStage(w) \/ StageFails(w)
      PROVE  SucceededServed' /\ WorkersServe'
  <2>1. /\ UNCHANGED <<vectors, order, job>> /\ \A v \in Worker \ {w} : task'[v] = task[v]
        /\ task[w].pc # "requeueing"
    BY <1>7, WorkFacts DEF EnterStage, StageFails, indexVars, Stage, After
  <2>2. \/ Return(w)
        \/ \E phase \in {"chunks", "embeddings", "failing"} : Goto(w, phase)
    BY <1>7 DEF EnterStage, StageFails, Fail, After
  <2>3. task'[w].pc \in {"chunks", "embeddings", "failing", "idle", "selected"}
    BY <2>2, GotoFacts, ReturnFacts
  <2> QED
    BY <1>3, <2>1, <2>3 DEF Serving
<1>8. ASSUME NEW w \in Worker, FinishSuccess(w) \/ FinishFailure(w)
      PROVE  SucceededServed' /\ WorkersServe'
  <2>1. PICK d \in Document : d = task[w].doc /\ task[w].gen # 0
    BY <1>8, FinishFacts
  <2>2. /\ UNCHANGED <<vectors, order>> /\ \A v \in Worker \ {w} : task'[v] = task[v]
        /\ task'[w].pc \in {"idle", "selected"} /\ task[w].pc \in {"finishing", "failing"}
        /\ FinishSuccess(w) => task[w].pc = "finishing"
    BY <1>8, EndFacts DEF indexVars, FinishSuccess, FinishFailure, Requeue
  <2>3. /\ \A e \in Document \ {d} : job'[e] = job[e]
        /\ ~ FenceHolds(w) => job' = job
        /\ FenceHolds(w) =>
             /\ job'[d].owner = NoWorker
             /\ job'[d].status = IF FinishSuccess(w) THEN "succeeded" ELSE "failed"
    BY <1>8, <2>1, FinishFacts
  <2>4. \A e \in Document : job'[e] = job[e] \/ job'[e].owner = NoWorker
    BY <2>3
  <2>5. FinishSuccess(w) /\ FenceHolds(w) => Served(d)
    BY <2>1, <2>2 DEF WorkersServe, Serves, Served
  <2>6. \A e \in Document :
          job'[e].status = "succeeded" => job[e].status = "succeeded" \/ Served(e)
    BY <2>3, <2>5
  <2>7. task[w].pc # "requeueing" /\ task'[w].pc \notin Serving /\ task'[w] # task[w]
    BY <2>2 DEF Serving
  <2> QED
    BY <2>2, <2>4, <2>6, <2>7, QuietServed
<1>9. ASSUME NEW w \in Worker, Execute(w) PROVE SucceededServed' /\ WorkersServe'
  <2>1. ~ PromotionFails(w)
    BY <1>0 DEF PromotionFails
  <2> QED
    BY <1>6, <1>7, <1>8, <1>9, <2>1, EmbeddingServed, PromotionServed, RequeueServed DEF Execute
<1>10. ~ Crash /\ ~ \E saved \in SavedOrders : SaveOrder(saved)
  BY <1>0 DEF Crash, SaveOrder
<1> QED
  BY <1>1, <1>4, <1>5, <1>9, <1>10 DEF Next

\* The counters of the environment only grow.
LEMMA CountersGrow ==
  ASSUME [Next]_vars
  PROVE  /\ faults' = faults \/ faults' = faults + 1
         /\ saves' = saves \/ saves' = saves + 1
<1>1. ASSUME NEW w \in Worker, Execute(w)
      PROVE  (faults' = faults \/ faults' = faults + 1) /\ saves' = saves
  BY <1>1 DEF Execute, ClaimSelected, EnterStage, StageFails, ReadProviders, EmbedSucceeded,
     EmbedFailed, ReadOrder, WriteOrder, Requeue, PromotionFails, FinishSuccess, FinishFailure,
     boundVars
<1>2. ASSUME NEW w \in Worker, NEW d \in Document, RequestRun(w, d) \/ BuildEmbeddings(w, d)
      PROVE  faults' = faults /\ saves' = saves
  BY <1>2 DEF RequestRun, BuildEmbeddings, boundVars
<1>3. ASSUME NEW w \in Worker, SelectDue(w) PROVE faults' = faults /\ saves' = saves
  BY <1>3 DEF SelectDue, boundVars
<1>4. CASE UNCHANGED vars \/ Crash \/ Tick \/ (\E saved \in SavedOrders : SaveOrder(saved))
  BY <1>4 DEF vars, Crash, Tick, SaveOrder, boundVars
<1>5. CASE \/ \E d \in Document, queued \in BOOLEAN : AddDocument(d, queued)
           \/ \E set \in SUBSET Document : Synchronize(set)
  BY <1>5 DEF AddDocument, Synchronize, boundVars
<1> QED
  BY <1>1, <1>2, <1>3, <1>4, <1>5 DEF Next

\* As long as no crash, no database error and no saved settings come between,
\* every document that says "succeeded" has vectors of the active provider, or its
\* requeue is still to come: whatever failovers and leases interleave.
THEOREM FailoverServes == Spec => [](saves = 0 => ServedUnlessFault)
<1> DEFINE IInv == TypeInv /\ BatchesQueued /\ ClaimsInv /\ ServedInv
<1>1. Init => IInv
  <2>1. Init => ServedInv
    BY DEF Init, Queued, Idle, ServedInv, SucceededServed, WorkersServe, Serves
  <2> QED
    BY <2>1, InitTypes, InitClaims
<1>2. IInv /\ [Next]_vars => IInv'
  <2> SUFFICES ASSUME IInv, [Next]_vars PROVE IInv'
    OBVIOUS
  <2>1. TypeInv' /\ BatchesQueued' /\ ClaimsInv'
    BY StepTypes, StepBatches, StepClaims DEF ClaimsInv
  <2>2. ServedInv'
    <3> SUFFICES ASSUME faults' = 0, saves' = 0 PROVE SucceededServed' /\ WorkersServe'
      BY DEF ServedInv
    <3>1. faults = 0 /\ saves = 0
      BY CountersGrow DEF TypeInv, TypeOK
    <3> QED
      BY <3>1, StepServed DEF ServedInv
  <2> QED
    BY <2>1, <2>2
<1>3. IInv => (saves = 0 => ServedUnlessFault)
  BY DEF ServedInv, ServedUnlessFault
<1> QED
  BY <1>1, <1>2, <1>3, PTL DEF Spec

-----------------------------------------------------------------------------
(* The audit of the completions *)

Won(history) == {i \in DOMAIN history : history[i].outcome = "succeeded"}

\* The place of a success among the successes.
Rank(history, i) == Cardinality({j \in Won(history) : j <= i})

\* Every place is taken.
Ranked(history) ==
  \A k \in 1..Cardinality(Won(history)) : \E i \in Won(history) : Rank(history, i) = k

SuccessesRanked == \A d \in Document : Ranked(runs[d])

LEMMA WonFinite ==
  ASSUME NEW history \in Seq(Run)
  PROVE  /\ Won(history) \subseteq 1..Len(history) /\ IsFiniteSet(Won(history))
         /\ Cardinality(Won(history)) \in Nat
<1>1. Won(history) \subseteq 1..Len(history) /\ Len(history) \in Nat
  BY DEF Won
<1>2. IsFiniteSet(1..Len(history))
  BY <1>1, FS_Interval
<1> QED
  BY <1>1, <1>2, FS_Subset, FS_CardinalityType

LEMMA RankRange ==
  ASSUME NEW history \in Seq(Run), NEW i \in Won(history)
  PROVE  Rank(history, i) \in 1..Cardinality(Won(history))
<1> DEFINE upTo == {j \in Won(history) : j <= i}
<1>1. /\ upTo \subseteq Won(history) /\ IsFiniteSet(Won(history)) /\ i \in upTo
      /\ Cardinality(Won(history)) \in Nat
  BY WonFinite
<1>2. /\ IsFiniteSet(upTo) /\ Cardinality(upTo) \in Nat
      /\ Cardinality(upTo) <= Cardinality(Won(history))
  BY <1>1, FS_Subset, FS_CardinalityType
<1>3. Cardinality(upTo) # 0
  BY <1>1, <1>2, FS_EmptySet
<1> QED
  BY <1>1, <1>2, <1>3 DEF Rank

LEMMA RankUnique ==
  ASSUME NEW history \in Seq(Run), NEW i \in Won(history), NEW j \in Won(history),
         Rank(history, i) = Rank(history, j)
  PROVE  i = j
<1> DEFINE upTo(k) == {m \in Won(history) : m <= k}
<1>1. i \in Int /\ j \in Int /\ IsFiniteSet(Won(history))
  BY WonFinite
<1>2. ASSUME NEW k \in Won(history), NEW l \in Won(history), k < l, k \in Int, l \in Int,
             Won(history) \subseteq Int
      PROVE  Rank(history, k) # Rank(history, l)
  <2>1. /\ IsFiniteSet(upTo(l)) /\ upTo(k) \subseteq upTo(l)
        /\ l \in upTo(l) /\ l \notin upTo(k)
    BY <1>1, <1>2, FS_Subset
  <2> QED
    BY <2>1, FS_Subset DEF Rank
<1>3. Won(history) \subseteq Int
  BY WonFinite
<1> QED
  BY <1>1, <1>2, <1>3

\* The audit that FencedLease sees, by ranks.
LEMMA SuccessesByRank ==
  ASSUME NEW history \in Seq(Run), Ranked(history)
  PROVE  /\ Successes(history) \in Seq(Nat)
         /\ Len(Successes(history)) = Cardinality(Won(history))
         /\ \A i \in Won(history) : Successes(history)[Rank(history, i)] = history[i].gen
<1> DEFINE c == Cardinality(Won(history))
           nth(k) == CHOOSE i \in Won(history) : Rank(history, i) = k
<1>1. Successes(history) = [k \in 1..c |-> history[nth(k)].gen]
  BY DEF Successes, Won, Rank
<1>2. c \in Nat /\ Won(history) \subseteq 1..Len(history)
  BY WonFinite
<1> HIDE DEF c
<1>3. ASSUME NEW k \in 1..c
      PROVE  nth(k) \in Won(history) /\ Rank(history, nth(k)) = k
  BY <1>3 DEF Ranked, c
<1>4. ASSUME NEW i \in Won(history) PROVE Rank(history, i) \in 1..c /\ nth(Rank(history, i)) = i
  BY <1>3, RankRange, RankUnique DEF c
<1> HIDE DEF nth
<1>5. ASSUME NEW k \in 1..c PROVE history[nth(k)].gen \in Nat
  <2>1. history[nth(k)] \in Run
    BY <1>2, <1>3
  <2> QED
    BY <2>1 DEF Run
<1>6. [k \in 1..c |-> history[nth(k)].gen] \in Seq(Nat)
  BY <1>2, <1>5
<1> QED
  BY <1>1, <1>2, <1>4, <1>6 DEF c

\* A success is one more success, and takes the last place; a failure is none.
LEMMA SuccessesGrow ==
  ASSUME NEW history \in Seq(Run), Ranked(history), NEW run \in Run
  PROVE  LET longer == Append(history, run)
         IN  /\ Ranked(longer)
             /\ run.outcome = "failed" => Successes(longer) = Successes(history)
             /\ run.outcome = "succeeded" =>
                  Successes(longer) = Append(Successes(history), run.gen)
<1> DEFINE n == Len(history)
           c == Cardinality(Won(history))
           longer == Append(history, run)
           last == IF run.outcome = "succeeded" THEN {n + 1} ELSE {}
<1>1. /\ n \in Nat /\ DOMAIN history = 1..n
      /\ longer \in Seq(Run) /\ Len(longer) = n + 1 /\ DOMAIN longer = 1..(n + 1)
      /\ \A i \in 1..n : longer[i] = history[i]
      /\ longer[n + 1] = run /\ run.gen \in Nat /\ run.outcome \in {"succeeded", "failed"}
  BY DEF Run
<1>2. Won(history) \subseteq 1..n /\ IsFiniteSet(Won(history)) /\ c \in Nat
  BY WonFinite
<1> HIDE DEF longer, n
<1>3. Won(longer) = Won(history) \cup last
  <2>1. 1..(n + 1) = (1..n) \cup {n + 1}
    BY <1>1
  <2> QED
    BY <1>1, <2>1 DEF Won
<1>4. n + 1 \notin Won(history)
  BY <1>1, <1>2
<1>5. Cardinality(Won(longer)) = IF run.outcome = "succeeded" THEN c + 1 ELSE c
  BY <1>2, <1>3, <1>4, FS_AddElement
<1>6. \A i \in Won(history) : Rank(longer, i) = Rank(history, i)
  <2>1. ASSUME NEW i \in Won(history)
        PROVE  {j \in Won(longer) : j <= i} = {j \in Won(history) : j <= i}
    BY <1>1, <1>2, <1>3
  <2> QED
    BY <2>1 DEF Rank
<1>7. run.outcome = "succeeded" => n + 1 \in Won(longer) /\ Rank(longer, n + 1) = c + 1
  <2>1. {j \in Won(longer) : j <= n + 1} = Won(longer)
    BY <1>1, <1>2, <1>3
  <2> QED
    BY <1>3, <1>5, <2>1 DEF Rank
<1>8. \A k \in 1..c : \E i \in Won(history) : Rank(history, i) = k
  BY DEF Ranked
<1> HIDE DEF c
<1>9. Ranked(longer)
  BY <1>2, <1>3, <1>5, <1>6, <1>7, <1>8 DEF Ranked
<1>10. /\ Successes(history) \in Seq(Nat) /\ Len(Successes(history)) = c
       /\ \A i \in Won(history) : Successes(history)[Rank(history, i)] = history[i].gen
  BY SuccessesByRank DEF c
<1>11. /\ Successes(longer) \in Seq(Nat) /\ Len(Successes(longer)) = Cardinality(Won(longer))
       /\ \A i \in Won(longer) : Successes(longer)[Rank(longer, i)] = longer[i].gen
  BY <1>1, <1>9, SuccessesByRank
<1>12. \A k \in 1..c : Successes(longer)[k] = Successes(history)[k]
  <2>1. ASSUME NEW k \in 1..c PROVE Successes(longer)[k] = Successes(history)[k]
    <3>1. PICK i \in Won(history) : Rank(history, i) = k
      BY <1>8
    <3>2. i \in 1..n /\ i \in Won(longer) /\ Rank(longer, i) = k
      BY <1>2, <1>3, <1>6, <3>1
    <3> QED
      BY <1>1, <1>10, <1>11, <3>1, <3>2
  <2> QED
    BY <2>1
<1> DEFINE old == Successes(history)
           new == Successes(longer)
<1> HIDE DEF old, new
<1>13. CASE run.outcome = "failed"
  <2>1. /\ old \in Seq(Nat) /\ new \in Seq(Nat) /\ Len(old) = c /\ Len(new) = c
        /\ \A k \in 1..c : new[k] = old[k]
    BY <1>1, <1>5, <1>10, <1>11, <1>12, <1>13 DEF old, new
  <2>2. new = old
    BY <2>1, SeqEqual
  <2> QED
    BY <1>9, <1>13, <2>2 DEF old, new, longer
<1>14. CASE run.outcome = "succeeded"
  <2>1. /\ old \in Seq(Nat) /\ new \in Seq(Nat) /\ Len(old) = c /\ Len(new) = c + 1
        /\ \A k \in 1..c : new[k] = old[k]
        /\ new[c + 1] = run.gen
    BY <1>1, <1>5, <1>7, <1>10, <1>11, <1>12, <1>14 DEF old, new
  <2>2. /\ Append(old, run.gen) \in Seq(Nat) /\ Len(Append(old, run.gen)) = c + 1
        /\ \A k \in 1..(c + 1) : Append(old, run.gen)[k] = new[k]
    BY <1>1, <1>2, <2>1 DEF c
  <2>3. new = Append(old, run.gen)
    BY <2>1, <2>2, SeqEqual
  <2> QED
    BY <1>9, <1>14, <2>3 DEF old, new, longer
<1> QED
  BY <1>1, <1>13, <1>14

LEMMA FinishAudit ==
  ASSUME TypeInv, ClaimsInv, SuccessesRanked, NEW w \in Worker,
         FinishSuccess(w) \/ FinishFailure(w)
  PROVE  /\ SuccessesRanked'
         /\ \A d \in Document :
              Successes(runs'[d]) =
                IF d = task[w].doc /\ FinishSuccess(w) /\ FenceHolds(w)
                THEN Append(Successes(runs[d]), task[w].gen)
                ELSE Successes(runs[d])
<1> DEFINE outcome == IF FinishSuccess(w) THEN "succeeded" ELSE "failed"
           run == [gen |-> task[w].gen, outcome |-> outcome]
<1>1. PICK d \in Document : d = task[w].doc
  BY FinishFacts
<1>2. /\ FinishSuccess(w) /\ ~ FenceHolds(w) => runs' = runs
      /\ ~ (FinishSuccess(w) /\ ~ FenceHolds(w)) => runs' = [runs EXCEPT ![d] = Append(@, run)]
  BY <1>1, FinishFacts
<1>3. /\ run \in Run /\ run.outcome = outcome /\ run.gen = task[w].gen
      /\ outcome = "succeeded" <=> FinishSuccess(w)
      /\ outcome = "failed" <=> ~ FinishSuccess(w)
  BY TaskFacts DEF Run
<1> HIDE DEF run, outcome
<1>4. CASE FinishSuccess(w) /\ ~ FenceHolds(w)
  BY <1>2, <1>4 DEF SuccessesRanked
<1>5. CASE ~ (FinishSuccess(w) /\ ~ FenceHolds(w))
  <2>1. /\ runs[d] \in Seq(Run) /\ Ranked(runs[d])
        /\ runs'[d] = Append(runs[d], run)
        /\ \A e \in Document \ {d} : runs'[e] = runs[e]
    BY <1>2, <1>5 DEF TypeInv, TypeOK, SuccessesRanked
  <2>2. /\ Ranked(runs'[d])
        /\ Successes(runs'[d]) = IF FinishSuccess(w) THEN Append(Successes(runs[d]), task[w].gen)
                                 ELSE Successes(runs[d])
    BY <1>3, <2>1, SuccessesGrow
  <2> QED
    BY <1>1, <1>5, <2>1, <2>2 DEF SuccessesRanked
<1> QED
  BY <1>4, <1>5

-----------------------------------------------------------------------------
(* The jobs implement FencedLease: each kind of step is one of its steps *)

\* The lease columns and the audit are as they were.
LeaseStill ==
  /\ now' = now
  /\ \A d \in Document :
       /\ job'[d].owner = job[d].owner /\ job'[d].until = job[d].until
       /\ job'[d].gen = job[d].gen
       /\ Successes(runs'[d]) = Successes(runs[d])

LEMMA StillStutters == LeaseStill => UNCHANGED Lease!vars
BY DEF LeaseStill, Lease!vars

LEMMA GrantAcquires ==
  ASSUME TypeInv, ClaimsInv, NEW w \in Worker, NEW d \in Document, NEW rest, Grant(w, d, rest),
         job[d].until <= now, UNCHANGED <<now, runs>>
  PROVE  Lease!Next
<1>1. /\ job[d].gen < MaxClaims
      /\ job'[d].owner = w /\ job'[d].until = now + LeaseTicks /\ job'[d].gen = job[d].gen + 1
      /\ \A e \in Document \ {d} : job'[e] = job[e]
  BY GrantFacts DEF ClaimsInv, UnqueuedUnclaimed, Queued
<1>2. now \in 0..now
  BY DEF TypeInv, TypeOK
<1>3. [e \in Document |-> job'[e].until]
        = [[e \in Document |-> job[e].until] EXCEPT ![d] = now + LeaseTicks]
  BY <1>1
<1>4. [e \in Document |-> job[e].until][d] <= now
  OBVIOUS
<1>5. Lease!Acquire(d, w)
  BY <1>1, <1>2, <1>3, <1>4 DEF Lease!Acquire
<1> QED
  BY <1>5 DEF Lease!Next

\* Leases are lost without a completion.
LEMMA LossRevokes ==
  ASSUME NEW set \in SUBSET Document, now' = now,
         \A d \in Document :
           /\ job'[d].gen = job[d].gen /\ Successes(runs'[d]) = Successes(runs[d])
           /\ IF d \in set THEN job'[d].owner = NoWorker /\ job'[d].until = 0
              ELSE job'[d].owner = job[d].owner /\ job'[d].until = job[d].until
  PROVE  Lease!Next
<1>1. Lease!Revoke(set)
  BY DEF Lease!Revoke
<1> QED
  BY <1>1 DEF Lease!Next

LEMMA FinishLease ==
  ASSUME TypeInv, ClaimsInv, SuccessesRanked, NEW w \in Worker,
         FinishSuccess(w) \/ FinishFailure(w)
  PROVE  Lease!Next \/ UNCHANGED Lease!vars
<1>1. PICK d \in Document : d = task[w].doc
  BY FinishFacts
<1>2. /\ \A e \in Document \ {d} : job'[e] = job[e]
      /\ ~ FenceHolds(w) => job' = job
      /\ FenceHolds(w) =>
           job'[d].owner = NoWorker /\ job'[d].until = 0 /\ job'[d].gen = job[d].gen
  BY <1>1, FinishFacts
<1>3. now' = now
  BY DEF FinishSuccess, FinishFailure
<1>4. CASE ~ FenceHolds(w)
  <2>1. LeaseStill
    BY <1>2, <1>3, <1>4, FinishAudit DEF LeaseStill
  <2> QED
    BY <2>1, StillStutters
<1>5. CASE FenceHolds(w) /\ FinishSuccess(w)
  <2>1. job[d].owner # NoWorker /\ job[d].gen = task[w].gen
    BY <1>1, <1>5, NamesAssumption DEF FenceHolds
  <2>2. \A e \in Document :
          Successes(runs'[e]) = IF e = d THEN Append(Successes(runs[e]), job[d].gen)
                                ELSE Successes(runs[e])
    BY <1>1, <1>5, <2>1, FinishAudit
  <2>3. Lease!Complete(d)
    BY <1>2, <1>3, <1>5, <2>1, <2>2 DEF Lease!Complete
  <2> QED
    BY <2>3 DEF Lease!Next
<1>6. CASE FenceHolds(w) /\ ~ FinishSuccess(w)
  <2>1. \A e \in Document :
          /\ job'[e].gen = job[e].gen /\ Successes(runs'[e]) = Successes(runs[e])
          /\ IF e \in {d} THEN job'[e].owner = NoWorker /\ job'[e].until = 0
             ELSE job'[e].owner = job[e].owner /\ job'[e].until = job[e].until
    BY <1>2, <1>6, FinishAudit
  <2> QED
    BY <1>3, <2>1, LossRevokes
<1> QED
  BY <1>4, <1>5, <1>6

LEMMA StepLease ==
  ASSUME TypeInv, ClaimsInv, SuccessesRanked, [Next]_vars
  PROVE  SuccessesRanked' /\ [Lease!Next]_(Lease!vars)
<1>1. ASSUME runs' = runs, now' = now, \A d \in Document : job'[d] = job[d]
      PROVE  SuccessesRanked' /\ [Lease!Next]_(Lease!vars)
  BY <1>1, StillStutters DEF SuccessesRanked, LeaseStill
<1>2. CASE UNCHANGED vars \/ Crash \/ (\E saved \in SavedOrders : SaveOrder(saved))
  BY <1>1, <1>2 DEF vars, Crash, SaveOrder
<1>3. CASE Tick
  <2>1. Lease!Elapse
    BY <1>3, BoundAssumption DEF Tick, Lease!Elapse, TypeInv, TypeOK
  <2> QED
    BY <1>3, <2>1 DEF Tick, SuccessesRanked, Lease!Next
<1>4. CASE \/ \E d \in Document, queued \in BOOLEAN : AddDocument(d, queued)
           \/ \E set \in SUBSET Document : Synchronize(set)
  <2>1. runs' = runs /\ now' = now
    BY <1>4 DEF AddDocument, Synchronize
  <2>2. \A d \in Document : job'[d] = job[d] \/ (d \notin jobs /\ job'[d] = Queued(now))
    BY <1>4 DEF AddDocument, Synchronize, TypeInv, TypeOK
  <2>3. LeaseStill
    BY <2>1, <2>2 DEF ClaimsInv, UnqueuedUnclaimed, Queued, LeaseStill
  <2> QED
    BY <2>1, <2>3, StillStutters DEF SuccessesRanked
<1>5. ASSUME NEW w \in Worker, NEW d \in Document, RequestRun(w, d)
      PROVE  SuccessesRanked' /\ [Lease!Next]_(Lease!vars)
  BY <1>5, GrantAcquires DEF RequestRun, SuccessesRanked
<1>6. ASSUME NEW w \in Worker, NEW d \in Document, BuildEmbeddings(w, d)
      PROVE  SuccessesRanked' /\ [Lease!Next]_(Lease!vars)
  BY <1>1, <1>6 DEF BuildEmbeddings
<1>7. ASSUME NEW w \in Worker, SelectDue(w)
      PROVE  SuccessesRanked' /\ [Lease!Next]_(Lease!vars)
  BY <1>1, <1>7 DEF SelectDue
<1>8. ASSUME NEW w \in Worker, ClaimSelected(w)
      PROVE  SuccessesRanked' /\ [Lease!Next]_(Lease!vars)
  <2> DEFINE d == Head(task[w].batch)
             rest == Tail(task[w].batch)
             busy == job[d].until > now \/ job[d].status = "succeeded" \/ job[d].next > now
  <2>1. d \in Document
    <3>1. task[w].batch \in Seq(Document) /\ task[w].batch # <<>>
      BY <1>8, TaskFacts DEF ClaimSelected, WellFormed
    <3> QED
      BY <3>1
  <2>2. runs' = runs /\ now' = now
    BY <1>8 DEF ClaimSelected
  <2>3. CASE busy
    BY <1>1, <1>8, <2>2, <2>3 DEF ClaimSelected
  <2>4. CASE ~ busy
    <3>1. Grant(w, d, rest)
      BY <1>8, <2>4 DEF ClaimSelected
    <3>2. job[d].until <= now
      BY <2>1, <2>4, JobFacts DEF Job, TypeInv, TypeOK
    <3> QED
      BY <2>1, <2>2, <3>1, <3>2, GrantAcquires DEF SuccessesRanked
  <2> QED
    BY <2>3, <2>4
<1>9. ASSUME NEW w \in Worker, Requeue(w)
      PROVE  SuccessesRanked' /\ [Lease!Next]_(Lease!vars)
  <2>1. runs' = runs /\ now' = now
    BY <1>9 DEF Requeue
  <2> DEFINE others == {d \in jobs : d # task[w].doc}
  <2>2. others \in SUBSET Document
    BY DEF TypeInv, TypeOK
  <2>3. \A d \in Document :
          /\ job'[d].gen = job[d].gen /\ Successes(runs'[d]) = Successes(runs[d])
          /\ IF d \in others THEN job'[d].owner = NoWorker /\ job'[d].until = 0
             ELSE job'[d].owner = job[d].owner /\ job'[d].until = job[d].until
    BY <1>9, <2>1, RequeueFacts
  <2> QED
    BY <2>1, <2>2, <2>3, LossRevokes DEF SuccessesRanked
<1>10. ASSUME NEW w \in Worker, FinishSuccess(w) \/ FinishFailure(w)
       PROVE  SuccessesRanked' /\ [Lease!Next]_(Lease!vars)
  BY <1>10, FinishAudit, FinishLease
<1>11. ASSUME NEW w \in Worker, Execute(w)
       PROVE  SuccessesRanked' /\ [Lease!Next]_(Lease!vars)
  <2>1. CASE ClaimSelected(w) \/ Requeue(w) \/ FinishSuccess(w) \/ FinishFailure(w)
    BY <1>8, <1>9, <1>10, <2>1
  <2>2. CASE \/ EnterStage(w) \/ StageFails(w) \/ ReadProviders(w) \/ EmbedSucceeded(w)
             \/ EmbedFailed(w) \/ ReadOrder(w) \/ WriteOrder(w) \/ PromotionFails(w)
    BY <1>1, <2>2, WorkFacts
  <2> QED
    BY <1>11, <2>1, <2>2 DEF Execute
<1> QED
  BY <1>2, <1>3, <1>4, <1>5, <1>6, <1>7, <1>11 DEF Next

LEMMA InitLease == Init => SuccessesRanked /\ Lease!Init
<1> SUFFICES ASSUME Init PROVE SuccessesRanked /\ Lease!Init
  OBVIOUS
<1>1. ASSUME NEW d \in Document PROVE Ranked(runs[d]) /\ Successes(runs[d]) = <<>>
  <2>1. runs[d] = <<>> /\ runs[d] \in Seq(Run)
    BY DEF Init
  <2>2. Won(runs[d]) = {}
    BY <2>1 DEF Won
  <2>3. Cardinality(Won(runs[d])) = 0
    BY <2>2, FS_EmptySet
  <2>4. Ranked(runs[d])
    BY <2>3 DEF Ranked
  <2>5. Successes(runs[d]) \in Seq(Nat) /\ Len(Successes(runs[d])) = 0
    BY <2>1, <2>3, <2>4, SuccessesByRank
  <2> QED
    BY <2>4, <2>5
<1> QED
  BY <1>1 DEF Init, Queued, Lease!Init, SuccessesRanked

\* The job of a document is a fenced lease, for any documents, workers and bounds:
\* whoever claims, requeues or fails it, successes are audited in the order of the
\* claims that earned them.
THEOREM JobsImplementFencedLease == Spec => LeaseSpec
<1> DEFINE IInv == TypeInv /\ BatchesQueued /\ ClaimsInv /\ SuccessesRanked
<1>1. Init => IInv /\ Lease!Init
  BY InitTypes, InitClaims, InitLease
<1>2. IInv /\ [Next]_vars => IInv' /\ [Lease!Next]_(Lease!vars)
  BY StepTypes, StepBatches, StepClaims, StepLease DEF ClaimsInv
<1> QED
  BY <1>1, <1>2, PTL DEF Spec, LeaseSpec, Lease!Spec

-----------------------------------------------------------------------------
(* What the promise of a fenced lease says of the jobs *)

LeasePromise == INSTANCE FencedLeaseProofs WITH
  Resource <- Document,
  owner <- [d \in Document |-> job[d].owner],
  until <- [d \in Document |-> job[d].until],
  gen <- [d \in Document |-> job[d].gen],
  audit <- [d \in Document |-> Successes(runs[d])]

\* The successes of a document are recorded in the order of their claims; the claim
\* that is running has recorded none yet.
SuccessesAudited ==
  \A d \in Document :
    /\ \A i, j \in Won(runs[d]) : i < j => runs[d][i].gen < runs[d][j].gen
    /\ \A i \in Won(runs[d]) :
         IF job[d].owner = NoWorker THEN runs[d][i].gen <= job[d].gen
         ELSE runs[d][i].gen < job[d].gen

LEMMA RankGrows ==
  ASSUME NEW history \in Seq(Run), NEW i \in Won(history), NEW j \in Won(history), i < j
  PROVE  Rank(history, i) < Rank(history, j)
<1> DEFINE upTo(k) == {m \in Won(history) : m <= k}
<1>1. i \in Int /\ j \in Int /\ IsFiniteSet(Won(history)) /\ Won(history) \subseteq Int
  BY WonFinite
<1>2. IsFiniteSet(upTo(j)) /\ upTo(i) \subseteq upTo(j)
  BY <1>1, FS_Subset
<1>3. Cardinality(upTo(i)) <= Cardinality(upTo(j))
  BY <1>2, FS_Subset
<1>4. Rank(history, i) # Rank(history, j)
  BY <1>1, RankUnique
<1>5. Rank(history, i) \in Int /\ Rank(history, j) \in Int
  BY RankRange
<1> QED
  BY <1>3, <1>4, <1>5 DEF Rank

LEMMA PromiseAudited ==
  ASSUME TypeInv, SuccessesRanked, LeasePromise!Ordered, LeasePromise!HolderUnaudited
  PROVE  SuccessesAudited
<1>1. ASSUME NEW d \in Document
      PROVE  /\ \A i, j \in Won(runs[d]) : i < j => runs[d][i].gen < runs[d][j].gen
             /\ \A i \in Won(runs[d]) :
                  /\ runs[d][i].gen <= job[d].gen
                  /\ job[d].owner # NoWorker => runs[d][i].gen < job[d].gen
  <2>1. runs[d] \in Seq(Run) /\ Ranked(runs[d])
    BY DEF TypeInv, TypeOK, SuccessesRanked
  <2>2. /\ Successes(runs[d]) \in Seq(Nat)
        /\ Len(Successes(runs[d])) = Cardinality(Won(runs[d]))
        /\ \A i \in Won(runs[d]) : Successes(runs[d])[Rank(runs[d], i)] = runs[d][i].gen
    BY <2>1, SuccessesByRank
  <2>3. \A i \in Won(runs[d]) : Rank(runs[d], i) \in DOMAIN Successes(runs[d])
    BY <2>1, <2>2, RankRange
  <2>4. /\ \A k, l \in DOMAIN Successes(runs[d]) :
             k < l => Successes(runs[d])[k] < Successes(runs[d])[l]
        /\ \A k \in DOMAIN Successes(runs[d]) :
             /\ Successes(runs[d])[k] <= job[d].gen
             /\ job[d].owner # NoWorker => Successes(runs[d])[k] < job[d].gen
    BY DEF LeasePromise!Ordered, LeasePromise!HolderUnaudited
  <2>5. \A i, j \in Won(runs[d]) : i < j => runs[d][i].gen < runs[d][j].gen
    BY <2>1, <2>2, <2>3, <2>4, RankGrows
  <2> QED
    BY <2>2, <2>3, <2>4, <2>5
<1> QED
  BY <1>1 DEF SuccessesAudited

\* What FencedLease promises (AuditOrder) holds of the jobs because they implement it:
\* the successes of a document are recorded in the order of the claims that earned
\* them, however often the job was requeued under its worker.
THEOREM SuccessesInOrder == Spec => []SuccessesAudited
<1> DEFINE IInv == TypeInv /\ BatchesQueued /\ ClaimsInv /\ SuccessesRanked
<1>1. LeasePromise!Spec => [](LeasePromise!Ordered /\ LeasePromise!HolderUnaudited)
  BY LeasePromise!AuditOrder
<1>2. LeaseSpec => LeasePromise!Spec
  BY DEF LeaseSpec, Lease!Spec, Lease!Init, Lease!Next, Lease!vars, Lease!Acquire, Lease!Renew,
         Lease!Complete, Lease!Revoke, Lease!Elapse, LeasePromise!Spec, LeasePromise!Init,
         LeasePromise!Next, LeasePromise!vars, LeasePromise!Acquire, LeasePromise!Renew,
         LeasePromise!Complete, LeasePromise!Revoke, LeasePromise!Elapse
<1>3. Init => IInv
  BY InitTypes, InitClaims, InitLease
<1>4. IInv /\ [Next]_vars => IInv'
  BY StepTypes, StepBatches, StepClaims, StepLease DEF ClaimsInv
<1>5. IInv /\ LeasePromise!Ordered /\ LeasePromise!HolderUnaudited => SuccessesAudited
  BY PromiseAudited
<1> QED
  BY <1>1, <1>2, <1>3, <1>4, <1>5, JobsImplementFencedLease, PTL DEF Spec

-----------------------------------------------------------------------------
(* An execution ends: a measure that every step of a worker lowers *)

\* The jobs a worker still has, with the one it is at.
JobsLeft(t) == Len(t.batch) + (IF t.pc \in {"idle", "selected"} THEN 0 ELSE 1)

\* How far a phase is from the end of its job.
PhaseLeft(phase) ==
  CASE phase = "selected"   -> 9
    [] phase = "ingest"     -> 8
    [] phase = "chunks"     -> 7
    [] phase = "embeddings" -> 6
    [] phase = "embedding"  -> 5
    [] phase = "embedded"   -> 4
    [] phase = "promoting"  -> 3
    [] phase = "requeueing" -> 2
    [] OTHER                -> 1

\* A worker loses a job, or its job comes to a later phase, or it tries the next of the
\* providers it has left.
Nearer(s, t) ==
  \/ JobsLeft(t) < JobsLeft(s)
  \/ /\ JobsLeft(t) = JobsLeft(s)
     /\ \/ PhaseLeft(t.pc) < PhaseLeft(s.pc)
        \/ t.pc = s.pc /\ Len(t.providers) < Len(s.providers)

ExecutionAdvances ==
  \A w \in Worker : task[w].pc # "idle" => task'[w] = task[w] \/ Nearer(task[w], task'[w])

LEMMA ReturnNearer ==
  ASSUME TypeInv, NEW w \in Worker, task[w].pc \notin {"idle", "selected"}, Return(w)
  PROVE  Nearer(task[w], task'[w])
<1>1. task'[w].pc \in {"idle", "selected"} /\ task'[w].batch = task[w].batch
  BY ReturnFacts
<1>2. Len(task[w].batch) \in Nat
  BY TaskFacts
<1>3. JobsLeft(task'[w]) = Len(task[w].batch) /\ JobsLeft(task[w]) = Len(task[w].batch) + 1
  BY <1>1, <1>2 DEF JobsLeft
<1>4. JobsLeft(task'[w]) < JobsLeft(task[w])
  BY <1>2, <1>3
<1> QED
  BY <1>4 DEF Nearer

LEMMA GotoNearer ==
  ASSUME TypeInv, NEW w \in Worker, task[w].pc \notin {"idle", "selected"},
         NEW phase, phase \notin {"idle", "selected"}, PhaseLeft(phase) < PhaseLeft(task[w].pc),
         Goto(w, phase)
  PROVE  Nearer(task[w], task'[w])
<1>1. task'[w].pc = phase /\ task'[w].batch = task[w].batch
  BY GotoFacts
<1>2. JobsLeft(task'[w]) = JobsLeft(task[w])
  BY <1>1 DEF JobsLeft
<1>3. PhaseLeft(task'[w].pc) < PhaseLeft(task[w].pc)
  BY <1>1
<1> QED
  BY <1>2, <1>3 DEF Nearer

\* Done and Fail either lead to the completion of the job or leave it.
LEMMA DoneNearer ==
  ASSUME TypeInv, NEW w \in Worker, task[w].pc \in Stage \cup Promotion, Done(w) \/ Fail(w)
  PROVE  Nearer(task[w], task'[w])
<1>1. task[w].pc \notin {"idle", "selected"}
  BY DEF Stage, Promotion
<1>2. /\ PhaseLeft("finishing") < PhaseLeft(task[w].pc)
      /\ PhaseLeft("failing") < PhaseLeft(task[w].pc)
  BY DEF PhaseLeft, Stage, Promotion
<1> QED
  BY <1>1, <1>2, ReturnNearer, GotoNearer DEF Done, Fail

LEMMA ClaimNearer ==
  ASSUME TypeInv, BatchesQueued, NEW w \in Worker, ClaimSelected(w)
  PROVE  /\ Nearer(task[w], task'[w])
         /\ \A v \in Worker \ {w} : task'[v] = task[v]
<1> DEFINE d == Head(task[w].batch)
           rest == Tail(task[w].batch)
<1>1. /\ task[w].pc = "selected" /\ task[w].batch \in Seq(Document) /\ task[w].batch # <<>>
      /\ task \in [Worker -> Task]
  BY TaskFacts DEF ClaimSelected, WellFormed, TypeInv, TypeOK
<1>2. d \in Document /\ Len(rest) = Len(task[w].batch) - 1 /\ Len(task[w].batch) \in Nat \ {0}
  BY <1>1
<1>3. JobsLeft(task[w]) = Len(task[w].batch)
  BY <1>1, <1>2 DEF JobsLeft
<1>4. \/ task' = [task EXCEPT ![w].batch = rest, ![w].pc = IF rest = <<>> THEN "idle" ELSE @]
      \/ Grant(w, d, rest)
  BY DEF ClaimSelected
<1>5. CASE task' = [task EXCEPT ![w].batch = rest, ![w].pc = IF rest = <<>> THEN "idle" ELSE @]
  <2> HIDE DEF rest
  <2>1. /\ task'[w].batch = rest /\ task'[w].pc \in {"idle", "selected"}
        /\ \A v \in Worker \ {w} : task'[v] = task[v]
    BY <1>1, <1>5 DEF Task
  <2>2. JobsLeft(task'[w]) = Len(rest)
    BY <1>2, <2>1 DEF JobsLeft
  <2>3. JobsLeft(task'[w]) < JobsLeft(task[w])
    BY <1>2, <1>3, <2>2
  <2> QED
    BY <2>1, <2>3 DEF Nearer
<1>6. CASE Grant(w, d, rest)
  <2> HIDE DEF rest, d
  <2>1. /\ task'[w].batch = rest /\ task'[w].pc = "ingest"
        /\ \A v \in Worker \ {w} : task'[v] = task[v]
    BY <1>2, <1>6, GrantFacts
  <2>2. JobsLeft(task'[w]) = Len(rest) + 1
    BY <2>1 DEF JobsLeft
  <2>3. JobsLeft(task'[w]) = JobsLeft(task[w])
    BY <1>2, <1>3, <2>2
  <2>4. PhaseLeft(task'[w].pc) < PhaseLeft(task[w].pc)
    BY <1>1, <2>1 DEF PhaseLeft
  <2> QED
    BY <2>1, <2>3, <2>4 DEF Nearer
<1> QED
  BY <1>4, <1>5, <1>6

\* The stages: one after the other, with one provider less after each that failed.
LEMMA StageNearer ==
  ASSUME TypeInv, NEW w \in Worker,
         EnterStage(w) \/ StageFails(w) \/ ReadProviders(w) \/ EmbedSucceeded(w) \/ EmbedFailed(w)
  PROVE  Nearer(task[w], task'[w])
<1>0. task \in [Worker -> Task] /\ task[w] \in Task
  BY DEF TypeInv, TypeOK
<1>1. CASE EnterStage(w)
  <2>1. task[w].pc \in {"ingest", "chunks"}
    BY <1>1 DEF EnterStage, After
  <2>2. PICK phase \in {"chunks", "embeddings", "failing"} :
          /\ Goto(w, phase) /\ PhaseLeft(phase) < PhaseLeft(task[w].pc)
    <3>1. CASE ~ FenceHolds(w)
      <4>1. Goto(w, "failing")
        BY <1>1, <3>1 DEF EnterStage
      <4> QED
        BY <2>1, <4>1 DEF PhaseLeft
    <3>2. CASE FenceHolds(w) /\ task[w].pc = "ingest"
      <4>1. Goto(w, "chunks")
        BY <1>1, <3>2 DEF EnterStage, After
      <4> QED
        BY <3>2, <4>1 DEF PhaseLeft
    <3>3. CASE FenceHolds(w) /\ task[w].pc = "chunks"
      <4>1. Goto(w, "embeddings")
        BY <1>1, <3>3 DEF EnterStage, After
      <4> QED
        BY <3>3, <4>1 DEF PhaseLeft
    <3> QED
      BY <2>1, <3>1, <3>2, <3>3
  <2> QED
    BY <2>1, <2>2, GotoNearer
<1>2. CASE StageFails(w)
  BY <1>2, DoneNearer DEF StageFails
<1>3. CASE ReadProviders(w)
  <2>1. /\ task[w].pc = "embeddings" /\ task'[w].pc = "embedding"
        /\ task'[w].batch = task[w].batch
    BY <1>0, <1>3 DEF ReadProviders, Task
  <2>2. JobsLeft(task'[w]) = JobsLeft(task[w])
    BY <2>1 DEF JobsLeft
  <2>3. PhaseLeft(task'[w].pc) < PhaseLeft(task[w].pc)
    BY <2>1 DEF PhaseLeft
  <2> QED
    BY <2>2, <2>3 DEF Nearer
<1>4. CASE EmbedSucceeded(w)
  <2>1. task[w].pc = "embedding" /\ (Goto(w, "embedded") \/ Done(w))
    BY <1>4 DEF EmbedSucceeded
  <2>2. PhaseLeft("embedded") < PhaseLeft(task[w].pc) /\ task[w].pc \in Stage
    BY <2>1 DEF PhaseLeft, Stage
  <2> QED
    BY <2>1, <2>2, GotoNearer, DoneNearer
<1>5. CASE EmbedFailed(w)
  <2> DEFINE others == Tail(task[w].providers)
  <2>1. /\ task[w].pc = "embedding"
        /\ Fail(w) \/ task' = [task EXCEPT ![w].providers = others, ![w].fallback = TRUE]
    BY <1>5 DEF EmbedFailed
  <2>2. CASE Fail(w)
    BY <2>1, <2>2, DoneNearer DEF Stage
  <2>3. CASE task' = [task EXCEPT ![w].providers = others, ![w].fallback = TRUE]
    <3>1. task[w].providers \in Seq(Provider) /\ task[w].providers # <<>>
      BY <2>1, TaskFacts DEF WellFormed
    <3>2. Len(others) < Len(task[w].providers)
      BY <3>1
    <3> HIDE DEF others
    <3>3. /\ task'[w].pc = task[w].pc /\ task'[w].batch = task[w].batch
          /\ task'[w].providers = others
      BY <1>0, <2>3 DEF Task
    <3>4. JobsLeft(task'[w]) = JobsLeft(task[w])
      BY <3>3 DEF JobsLeft
    <3>5. Len(task'[w].providers) < Len(task[w].providers)
      BY <3>2, <3>3
    <3> QED
      BY <3>3, <3>4, <3>5 DEF Nearer
  <2> QED
    BY <2>1, <2>2, <2>3
<1> QED
  BY <1>1, <1>2, <1>3, <1>4, <1>5

\* The promotion and the completion.
LEMMA EndNearer ==
  ASSUME TypeInv, NEW w \in Worker,
         \/ ReadOrder(w) \/ WriteOrder(w) \/ Requeue(w) \/ PromotionFails(w)
         \/ FinishSuccess(w) \/ FinishFailure(w)
  PROVE  Nearer(task[w], task'[w])
<1>0. task \in [Worker -> Task] /\ task[w] \in Task
  BY DEF TypeInv, TypeOK
<1>1. CASE ReadOrder(w)
  <2>1. /\ task[w].pc = "embedded" /\ task'[w].pc = "promoting"
        /\ task'[w].batch = task[w].batch
    BY <1>0, <1>1 DEF ReadOrder, Task
  <2>2. JobsLeft(task'[w]) = JobsLeft(task[w])
    BY <2>1 DEF JobsLeft
  <2>3. PhaseLeft(task'[w].pc) < PhaseLeft(task[w].pc)
    BY <2>1 DEF PhaseLeft
  <2> QED
    BY <2>2, <2>3 DEF Nearer
<1>2. CASE WriteOrder(w)
  <2>1. task[w].pc = "promoting" /\ Goto(w, "requeueing")
    BY <1>2 DEF WriteOrder
  <2>2. PhaseLeft("requeueing") < PhaseLeft(task[w].pc)
    BY <2>1 DEF PhaseLeft
  <2> QED
    BY <2>1, <2>2, GotoNearer
<1>3. CASE Requeue(w)
  BY <1>3, DoneNearer DEF Requeue, Promotion
<1>4. CASE PromotionFails(w)
  BY <1>4, DoneNearer DEF PromotionFails
<1>5. CASE FinishSuccess(w) \/ FinishFailure(w)
  <2>1. task[w].pc \in {"finishing", "failing"} /\ Return(w)
    BY <1>5 DEF FinishSuccess, FinishFailure
  <2> QED
    BY <2>1, ReturnNearer
<1> QED
  BY <1>1, <1>2, <1>3, <1>4, <1>5

LEMMA StepAdvances ==
  TypeInv /\ BatchesQueued /\ [Next]_vars => [ExecutionAdvances]_vars
<1> SUFFICES ASSUME TypeInv, BatchesQueued, [Next]_vars PROVE ExecutionAdvances
  OBVIOUS
<1>0. task \in [Worker -> Task]
  BY DEF TypeInv, TypeOK
<1>1. CASE UNCHANGED task
  BY <1>1 DEF ExecutionAdvances
<1>2. ASSUME NEW w \in Worker, Execute(w) PROVE ExecutionAdvances
  <2>1. \A v \in Worker \ {w} : task'[v] = task[v]
    BY <1>2, ClaimNearer, WorkFacts, EndFacts DEF Execute
  <2>2. Nearer(task[w], task'[w])
    BY <1>2, ClaimNearer, StageNearer, EndNearer DEF Execute
  <2> QED
    BY <2>1, <2>2 DEF ExecutionAdvances
<1>3. ASSUME NEW w \in Worker, task[w].pc = "idle", \A v \in Worker \ {w} : task'[v] = task[v]
      PROVE  ExecutionAdvances
  BY <1>3 DEF ExecutionAdvances
<1>4. ASSUME NEW w \in Worker, SelectDue(w) PROVE ExecutionAdvances
  BY <1>0, <1>3, <1>4 DEF SelectDue
<1>5. ASSUME NEW w \in Worker, NEW d \in Document, RequestRun(w, d) PROVE ExecutionAdvances
  <2>1. \A v \in Worker \ {w} : task'[v] = task[v]
    BY <1>5, GrantFacts DEF RequestRun
  <2> QED
    BY <1>3, <1>5, <2>1 DEF RequestRun
<1>6. ASSUME NEW w \in Worker, NEW d \in Document, BuildEmbeddings(w, d) PROVE ExecutionAdvances
  BY <1>0, <1>3, <1>6 DEF BuildEmbeddings
<1>7. CASE Crash
  <2>1. task' = [w \in Worker |-> Idle]
    BY <1>7 DEF Crash
  <2>2. ASSUME NEW w \in Worker, task[w].pc # "idle" PROVE Nearer(task[w], task'[w])
    <3>1. JobsLeft(task'[w]) = 0
      BY <2>1 DEF JobsLeft, Idle
    <3>2. Len(task[w].batch) \in Nat /\ (task[w].pc = "selected" => Len(task[w].batch) # 0)
      BY TaskFacts DEF WellFormed
    <3> DEFINE n == Len(task[w].batch)
    <3>3. JobsLeft(task[w]) > 0
      <4>1. JobsLeft(task[w]) = n + (IF task[w].pc = "selected" THEN 0 ELSE 1)
        BY <2>2 DEF JobsLeft
      <4>2. n \in Nat /\ (task[w].pc = "selected" => n # 0)
        BY <3>2
      <4> HIDE DEF n
      <4> QED
        BY <4>1, <4>2
    <3>4. JobsLeft(task'[w]) < JobsLeft(task[w])
      BY <3>1, <3>3
    <3> QED
      BY <3>4 DEF Nearer
  <2> QED
    BY <2>2 DEF ExecutionAdvances
<1>8. CASE \/ \E d \in Document, queued \in BOOLEAN : AddDocument(d, queued)
           \/ \E set \in SUBSET Document : Synchronize(set)
           \/ \E saved \in SavedOrders : SaveOrder(saved)
           \/ Tick
  BY <1>1, <1>8 DEF AddDocument, Synchronize, SaveOrder, Tick
<1>9. CASE UNCHANGED vars
  BY <1>1, <1>9 DEF vars
<1> QED
  BY <1>2, <1>4, <1>5, <1>6, <1>7, <1>8, <1>9 DEF Next

\* An execution cannot go on for ever, whichever stages and providers fail, and
\* whoever takes its lease: every step of a worker loses a job of its batch, brings
\* its job to a later phase, or leaves it one provider less to try (run_due, run,
\* build_document_embeddings_with_failover).  (That it does take its steps is fairness,
\* and left to the run: DocumentsAttempted.)
THEOREM ExecutionsAdvance == Spec => [][ExecutionAdvances]_vars
<1> DEFINE IInv == TypeInv /\ BatchesQueued /\ ClaimsInv
<1>1. Init => IInv
  BY InitTypes, InitClaims
<1>2. IInv /\ [Next]_vars => IInv' /\ [ExecutionAdvances]_vars
  BY StepTypes, StepBatches, StepClaims, StepAdvances DEF ClaimsInv
<1> QED
  BY <1>1, <1>2, PTL DEF Spec

=============================================================================
