--------------------------- MODULE DocumentIndexing ---------------------------
(***************************************************************************)
(* Automatic indexing of archived documents (document_indexing.py) with    *)
(* the failover of embedding providers (main.py) that runs inside its last *)
(* stage and requeues every other document.                                *)
(*                                                                         *)
(* A document has one job with lease columns.  The worker loop selects due *)
(* jobs and claims them one by one; a request claims one document at once. *)
(* Ingest, chunks and embeddings run without a transaction and without a   *)
(* heartbeat: the lease may expire under a worker that is still running.   *)
(*                                                                         *)
(* A claim reads the clock just before its transaction (lines 90 and 92);  *)
(* the model reads it inside.  An older reading only shortens the lease or *)
(* delays the claim, and no property here compares the clocks of two steps.*)
(***************************************************************************)
EXTENDS Integers, Sequences, FiniteSets, SequencesExt

CONSTANTS
  Document,     \* documents that may be archived
  Loop,         \* the worker loop of the process
  Manual,       \* workers that serve a request
  NoWorker,     \* lease_owner IS NULL
  NoDocument,   \* an idle worker has no document
  Provider,     \* embedding providers
  InitialOrder, \* rag_embedding_provider_order at the start
  SavedOrders,  \* orders an operator may save
  BatchSize,    \* document_index_batch_size
  LeaseTicks,   \* lease_seconds
  RetryBase,    \* retry_base_seconds
  RetryMax,     \* retry_max_seconds
  MaxClock,     \* bound: the clock
  MaxClaims,    \* bound: the lease generation of one job
  MaxErrors,    \* bound: errors of the stages and providers
  MaxFaults,    \* bound: crashes, and SQLite errors during a promotion
  MaxSaves      \* bound: settings saved by an operator

Worker == Loop \cup Manual
Order == {s \in Seq(Provider) : s # <<>> /\ \A i, j \in DOMAIN s : s[i] = s[j] => i = j}

ASSUME NamesAssumption ==
  /\ NoWorker \notin Worker
  /\ NoDocument \notin Document
ASSUME OrderAssumption ==
  \A s \in {InitialOrder} \cup SavedOrders :
    /\ s \in Seq(Provider) /\ s # <<>>
    /\ \A i, j \in DOMAIN s : s[i] = s[j] => i = j
ASSUME TimeAssumption ==
  /\ BatchSize \in Nat \ {0} /\ LeaseTicks \in Nat \ {0}
  /\ RetryBase \in Nat \ {0} /\ RetryMax \in Nat \ {0}
ASSUME DoublingAssumption == \A failures \in 0..MaxClaims : 2^failures \in Nat
ASSUME BoundAssumption ==
  /\ MaxClock \in Nat /\ MaxClaims \in Nat /\ MaxErrors \in Nat
  /\ MaxFaults \in Nat /\ MaxSaves \in Nat

VARIABLES
  now,        \* the wall clock
  documents,  \* game_documents
  jobs,       \* documents with a row in document_index_jobs
  job,        \* the columns of that row
  runs,       \* document_index_runs of a document, oldest first
  chunked,    \* documents with a current chunk run
  vectors,    \* providers with a current embedding run, by document
  order,      \* rag_embedding_provider_order; its head is the active provider
  task,       \* what each worker is doing
  errors, faults, saves

indexVars == <<chunked, vectors, order>>
boundVars == <<errors, faults, saves>>
vars == <<now, documents, jobs, job, runs, chunked, vectors, order, task,
          errors, faults, saves>>

Status == {"pending", "running", "succeeded", "failed"}
Job ==
  [status : Status, next : Nat, failures : Nat, owner : Worker \cup {NoWorker},
   until : Nat, gen : Nat]
Run == [gen : Nat, outcome : {"succeeded", "failed"}]
Stage == {"ingest", "chunks", "embeddings", "embedding"}
Promotion == {"embedded", "promoting", "requeueing"}
Phase == {"idle", "selected", "finishing", "failing"} \cup Stage \cup Promotion
Task ==
  [pc : Phase, doc : Document \cup {NoDocument}, gen : Nat, batch : Seq(Document),
   providers : Seq(Provider), fallback : BOOLEAN]

Queued(at) ==
  [status |-> "pending", next |-> at, failures |-> 0, owner |-> NoWorker,
   until |-> 0, gen |-> 0]
Idle ==
  [pc |-> "idle", doc |-> NoDocument, gen |-> 0, batch |-> <<>>,
   providers |-> <<>>, fallback |-> FALSE]

Init ==
  /\ now = 0
  /\ documents = {} /\ jobs = {}
  /\ job = [d \in Document |-> Queued(0)]
  /\ runs = [d \in Document |-> <<>>]
  /\ chunked = {}
  /\ vectors = [d \in Document |-> {}]
  /\ order = InitialOrder
  /\ task = [w \in Worker |-> Idle]
  /\ errors = 0 /\ faults = 0 /\ saves = 0

-----------------------------------------------------------------------------
(* Helpers *)

\* min(retry_base_seconds * 2 ** (failures - 1), retry_max_seconds)
RetryDelay(failures) ==
  LET delay == RetryBase * 2^(failures - 1)
  IN  IF delay < RetryMax THEN delay ELSE RetryMax

\* Mutant of FenceHolds: any unexpired lease will do.
FenceIfRunning(w) == job[task[w].doc].status = "running"

\* WHERE document_id=? AND lease_owner=? AND lease_generation=?
FenceHolds(w) ==
  LET row == job[task[w].doc]
  IN  row.owner = w /\ row.gen = task[w].gen

Goto(w, phase) == task' = [task EXCEPT ![w].pc = phase]

\* The loop goes on with the rest of its batch, everybody else is done.
Return(w) ==
  task' = [task EXCEPT ![w] =
             IF task[w].batch = <<>> THEN Idle
             ELSE [Idle EXCEPT !.pc = "selected", !.batch = task[w].batch]]

\* An embedding build outside a job (generation 0) has no job to complete.
Leased(w) == task[w].gen > 0
Done(w) == IF Leased(w) THEN Goto(w, "finishing") ELSE Return(w)
Fail(w) == IF Leased(w) THEN Goto(w, "failing") ELSE Return(w)

Released(row) == [row EXCEPT !.owner = NoWorker, !.until = 0]

-----------------------------------------------------------------------------
(* Jobs *)

\* A scheduled archive inserts the document and its job in one transaction; an
\* upload inserts the document first.
AddDocument(d, queued) ==
  /\ d \notin documents
  /\ documents' = documents \cup {d}
  /\ jobs' = IF queued THEN jobs \cup {d} ELSE jobs
  /\ job' = IF queued THEN [job EXCEPT ![d] = Queued(now)] ELSE job
  /\ UNCHANGED <<now, runs, indexVars, task, boundVars>>

\* Mutant of Synchronize: forgets the documents without a job.
SynchronizeNothing(set) == FALSE /\ UNCHANGED vars

\* synchronize_documents inserts every missing job; the enqueue that follows
\* an upload inserts one, unless the process stops before it.
Synchronize(set) ==
  /\ set # {} /\ set \subseteq documents \ jobs
  /\ jobs' = jobs \cup set
  /\ job' = [d \in Document |-> IF d \in set THEN Queued(now) ELSE job[d]]
  /\ UNCHANGED <<now, documents, runs, indexVars, task, boundVars>>

\* Mutant of Due: jobs whose worker died are not selected.
DueNotRunning(d) ==
  /\ d \in jobs
  /\ job[d].until <= now
  /\ job[d].status \in {"pending", "failed"} /\ job[d].next <= now

\* The rows run_due selects.
Due(d) ==
  /\ d \in jobs
  /\ job[d].until <= now
  /\ job[d].status \in {"pending", "failed"} => job[d].next <= now
  /\ job[d].status # "succeeded"

\* ORDER BY next_attempt_at LIMIT batch_size; ties are free.
IsBatch(s) ==
  /\ \A i, j \in DOMAIN s : i < j => s[i] # s[j] /\ job[s[i]].next <= job[s[j]].next
  /\ LET rest == {d \in Document : Due(d)} \ Range(s)
     IN  /\ Len(s) = BatchSize \/ rest = {}
         /\ \A d \in rest, i \in DOMAIN s : job[s[i]].next <= job[d].next

SelectDue(w) ==
  /\ w \in Loop /\ task[w].pc = "idle"
  /\ \E n \in 1..BatchSize :
       \E s \in [1..n -> {d \in Document : Due(d)}] :
         /\ IsBatch(s)
         /\ task' = [task EXCEPT ![w].pc = "selected", ![w].batch = s]
  /\ UNCHANGED <<now, documents, jobs, job, runs, indexVars, boundVars>>

\* Mutant of Grant: reclaims without a new generation.
GrantSameGeneration(w, d, rest) ==
  LET row == IF d \in jobs THEN job[d] ELSE Queued(now)
      gen == IF row.gen = 0 THEN 1 ELSE row.gen
  IN  /\ row.gen < MaxClaims
      /\ jobs' = jobs \cup {d}
      /\ job' = [job EXCEPT ![d] =
                   [row EXCEPT !.status = "running", !.owner = w,
                               !.until = now + LeaseTicks, !.gen = gen]]
      /\ task' = [task EXCEPT ![w] = [Idle EXCEPT !.pc = "ingest", !.doc = d,
                                                  !.gen = gen, !.batch = rest]]

\* _claim of a free job, which it creates if it is missing.
Grant(w, d, rest) ==
  LET row == IF d \in jobs THEN job[d] ELSE Queued(now)
  IN  /\ row.gen < MaxClaims
      /\ jobs' = jobs \cup {d}
      /\ job' = [job EXCEPT ![d] =
                   [row EXCEPT !.status = "running", !.owner = w,
                               !.until = now + LeaseTicks, !.gen = @ + 1]]
      /\ task' = [task EXCEPT ![w] = [Idle EXCEPT !.pc = "ingest", !.doc = d,
                                                  !.gen = row.gen + 1, !.batch = rest]]

\* The loop claims the next selected job if it is still due, and skips it if
\* another worker was faster.
ClaimSelected(w) ==
  LET d == Head(task[w].batch)
      rest == Tail(task[w].batch)
      busy == \/ job[d].until > now
              \/ job[d].status = "succeeded"
              \/ job[d].next > now
  IN  /\ task[w].pc = "selected"
      /\ IF busy
         THEN /\ task' = [task EXCEPT ![w].batch = rest,
                                      ![w].pc = IF rest = <<>> THEN "idle" ELSE @]
              /\ UNCHANGED <<jobs, job>>
         ELSE Grant(w, d, rest)
      /\ UNCHANGED <<now, documents, runs, indexVars, boundVars>>

\* A forced run ignores the schedule but not a live lease.
RequestRun(w, d) ==
  /\ w \in Manual /\ task[w].pc = "idle"
  /\ d \in documents
  /\ job[d].until <= now
  /\ Grant(w, d, <<>>)
  /\ UNCHANGED <<now, documents, runs, indexVars, boundVars>>

-----------------------------------------------------------------------------
(* The stages *)

After == [ingest |-> "chunks", chunks |-> "embeddings"]

\* A stage returned and _set_stage enters the next one under the fence; a lost
\* lease is an error of the execution.
EnterStage(w) ==
  /\ task[w].pc \in DOMAIN After
  /\ chunked' = IF task[w].pc = "chunks" THEN chunked \cup {task[w].doc} ELSE chunked
  /\ Goto(w, IF FenceHolds(w) THEN After[task[w].pc] ELSE "failing")
  /\ UNCHANGED <<now, documents, jobs, job, runs, vectors, order, boundVars>>

\* A stage raises an error that no other provider can repair.
StageFails(w) ==
  /\ task[w].pc \in Stage
  /\ errors < MaxErrors
  /\ errors' = errors + 1
  /\ Fail(w)
  /\ UNCHANGED <<now, documents, jobs, job, runs, indexVars, faults, saves>>

\* A request builds the embeddings of a chunked document without a lease.
BuildEmbeddings(w, d) ==
  /\ w \in Manual /\ task[w].pc = "idle"
  /\ d \in chunked
  /\ task' = [task EXCEPT ![w].pc = "embeddings", ![w].doc = d]
  /\ UNCHANGED <<now, documents, jobs, job, runs, indexVars, boundVars>>

ReadProviders(w) ==
  /\ task[w].pc = "embeddings"
  /\ task' = [task EXCEPT ![w].pc = "embedding", ![w].providers = order]
  /\ UNCHANGED <<now, documents, jobs, job, runs, indexVars, boundVars>>

\* The next provider embeds all chunks.
EmbedSucceeded(w) ==
  LET d == task[w].doc
  IN  /\ task[w].pc = "embedding"
      /\ vectors' = [vectors EXCEPT ![d] = @ \cup {Head(task[w].providers)}]
      /\ IF task[w].fallback THEN Goto(w, "embedded") ELSE Done(w)
      /\ UNCHANGED <<now, documents, jobs, job, runs, chunked, order, boundVars>>

\* EmbeddingProviderError: the next provider is tried, if there is one.
EmbedFailed(w) ==
  LET others == Tail(task[w].providers)
  IN  /\ task[w].pc = "embedding"
      /\ errors < MaxErrors
      /\ errors' = errors + 1
      /\ IF others = <<>> THEN Fail(w)
         ELSE task' = [task EXCEPT ![w].providers = others, ![w].fallback = TRUE]
      /\ UNCHANGED <<now, documents, jobs, job, runs, indexVars, faults, saves>>

-----------------------------------------------------------------------------
(* The promotion of a fallback that worked *)

\* activate_embedding_provider reads the order ...
ReadOrder(w) ==
  LET selected == Head(task[w].providers)
  IN  /\ task[w].pc = "embedded"
      /\ task' = [task EXCEPT ![w].pc = "promoting",
           ![w].providers = <<selected>> \o RemoveFirst(order, selected)]
      /\ UNCHANGED <<now, documents, jobs, job, runs, indexVars, boundVars>>

\* ... and writes it in another transaction.
WriteOrder(w) ==
  /\ task[w].pc = "promoting"
  /\ order' = task[w].providers
  /\ Goto(w, "requeueing")
  /\ UNCHANGED <<now, documents, jobs, job, runs, chunked, vectors, boundVars>>

\* Mutant of Requeue: leaves the leases alone.
RequeueKeepsLeases(w) ==
  /\ task[w].pc = "requeueing"
  /\ job' = [d \in Document |->
               IF d \in jobs \ {task[w].doc} /\ job[d].owner = NoWorker
               THEN [Released(job[d]) EXCEPT !.status = "pending", !.next = now,
                                             !.failures = 0]
               ELSE job[d]]
  /\ Done(w)
  /\ UNCHANGED <<now, documents, jobs, runs, indexVars, boundVars>>

\* requeue_document_indexes_for_provider_change: every other job, running or
\* not; the generation stays.
Requeue(w) ==
  /\ task[w].pc = "requeueing"
  /\ job' = [d \in Document |->
               IF d \in jobs \ {task[w].doc}
               THEN [Released(job[d]) EXCEPT !.status = "pending", !.next = now,
                                             !.failures = 0]
               ELSE job[d]]
  /\ Done(w)
  /\ UNCHANGED <<now, documents, jobs, runs, indexVars, boundVars>>

\* SQLite refuses one of these transactions.
PromotionFails(w) ==
  /\ task[w].pc \in Promotion
  /\ faults < MaxFaults
  /\ faults' = faults + 1
  /\ Fail(w)
  /\ UNCHANGED <<now, documents, jobs, job, runs, indexVars, errors, saves>>

-----------------------------------------------------------------------------
(* Completion *)

\* Under the fence, or nothing at all.
FinishSuccess(w) ==
  LET d == task[w].doc
  IN  /\ task[w].pc = "finishing"
      /\ IF FenceHolds(w)
         THEN /\ job' = [job EXCEPT ![d] =
                           [Released(@) EXCEPT !.status = "succeeded", !.next = 0,
                                               !.failures = 0]]
              /\ runs' = [runs EXCEPT ![d] =
                            Append(@, [gen |-> task[w].gen, outcome |-> "succeeded"])]
         ELSE UNCHANGED <<job, runs>>
      /\ Return(w)
      /\ UNCHANGED <<now, documents, jobs, indexVars, boundVars>>

\* The job is written under the fence, the run in any case.
FinishFailure(w) ==
  LET d == task[w].doc
      failures == job[d].failures + 1
  IN  /\ task[w].pc = "failing"
      /\ job' = IF FenceHolds(w)
                THEN [job EXCEPT ![d] =
                        [Released(@) EXCEPT !.status = "failed", !.failures = failures,
                                            !.next = now + RetryDelay(failures)]]
                ELSE job
      /\ runs' = [runs EXCEPT ![d] =
                    Append(@, [gen |-> task[w].gen, outcome |-> "failed"])]
      /\ Return(w)
      /\ UNCHANGED <<now, documents, jobs, indexVars, boundVars>>

-----------------------------------------------------------------------------
(* The environment *)

\* The settings page saves an order; it requeues nothing.
SaveOrder(saved) ==
  /\ saves < MaxSaves
  /\ saves' = saves + 1
  /\ order' = saved
  /\ UNCHANGED <<now, documents, jobs, job, runs, chunked, vectors, task,
                 errors, faults>>

\* With a bounded clock, a crash comes early enough for a lease to expire.
Crash ==
  /\ faults < MaxFaults /\ now + LeaseTicks <= MaxClock
  /\ \E w \in Worker : task[w].pc # "idle"
  /\ task' = [w \in Worker |-> Idle]
  /\ faults' = faults + 1
  /\ UNCHANGED <<now, documents, jobs, job, runs, indexVars, errors, saves>>

Tick ==
  /\ now < MaxClock
  /\ now' = now + 1
  /\ UNCHANGED <<documents, jobs, job, runs, indexVars, task, boundVars>>

-----------------------------------------------------------------------------
Execute(w) ==
  \/ ClaimSelected(w)
  \/ EnterStage(w)
  \/ StageFails(w)
  \/ ReadProviders(w)
  \/ EmbedSucceeded(w)
  \/ EmbedFailed(w)
  \/ ReadOrder(w)
  \/ WriteOrder(w)
  \/ Requeue(w)
  \/ PromotionFails(w)
  \/ FinishSuccess(w)
  \/ FinishFailure(w)

Next ==
  \/ \E d \in Document, queued \in BOOLEAN : AddDocument(d, queued)
  \/ \E set \in SUBSET Document : Synchronize(set)
  \/ \E w \in Worker :
       \/ SelectDue(w)
       \/ \E d \in Document : RequestRun(w, d) \/ BuildEmbeddings(w, d)
       \/ Execute(w)
  \/ \E saved \in SavedOrders : SaveOrder(saved)
  \/ Crash
  \/ Tick

Spec == Init /\ [][Next]_vars

\* Each cycle of the loop synchronises, selects and runs what it selected; the
\* stages return, because their HTTP calls have timeouts; time passes.
Fairness ==
  /\ WF_vars(Synchronize(documents \ jobs))
  /\ \A w \in Loop : WF_vars(SelectDue(w))
  /\ \A w \in Worker : WF_vars(Execute(w))
  /\ WF_vars(Tick)

FairSpec == Spec /\ Fairness

-----------------------------------------------------------------------------
TypeOK ==
  /\ now \in Nat
  /\ jobs \subseteq documents /\ documents \subseteq Document
  /\ job \in [Document -> Job]
  /\ runs \in [Document -> Seq(Run)]
  /\ chunked \subseteq Document
  /\ vectors \in [Document -> SUBSET Provider]
  /\ order \in Order
  /\ task \in [Worker -> Task]
  /\ errors \in Nat /\ faults \in Nat /\ saves \in Nat

-----------------------------------------------------------------------------
(* Properties *)

\* run_due trusts both columns: a job is running exactly while somebody owns
\* its lease, whoever requeued, reclaimed or failed it.
RunningIsLeased ==
  \A d \in Document : job[d].status = "running" <=> job[d].owner # NoWorker

\* One claim leaves at most one run, failed or succeeded, although the failed
\* run of a superseded worker is written without the fence.
ClaimsAuditedOnce ==
  \A d \in Document : \A i, j \in DOMAIN runs[d] :
    /\ runs[d][i].gen <= job[d].gen
    /\ runs[d][i].gen = runs[d][j].gen => i = j

\* A job that says "succeeded" was completed by its newest claim: a worker
\* whose lease was reclaimed or requeued cannot mark it.
SuccessIsNewest ==
  \A d \in Document : job[d].status = "succeeded" =>
    \E i \in DOMAIN runs[d] :
      runs[d][i].gen = job[d].gen /\ runs[d][i].outcome = "succeeded"

\* The backoff counts recorded failures since the last success only, although
\* a superseded worker reads and increments the same counter.
FailuresRecorded ==
  \A d \in Document :
    LET Failed(i) == runs[d][i].outcome = "failed"
        recent == {i \in DOMAIN runs[d] : \A j \in i..Len(runs[d]) : Failed(j)}
    IN  job[d].failures <= Cardinality(recent)

\* The job, its lease and its audit agree whoever requeued, reclaimed, failed or
\* finished it.
JobsInv ==
  /\ TypeOK
  /\ RunningIsLeased
  /\ ClaimsAuditedOnce
  /\ SuccessIsNewest
  /\ FailuresRecorded

\* After a failover no document is left behind: one that says "succeeded" has
\* vectors of the active provider, or the requeue is still to come.
SucceededServed ==
  \A d \in Document : job[d].status = "succeeded" =>
    \/ order[1] \in vectors[d]
    \/ \E w \in Worker : task[w].pc = "requeueing" /\ task[w].doc # d

\* It holds of any interleaving of failovers, live or expired leases alike, as
\* long as no crash or database error separates activation and requeue.
ServedUnlessFault == faults = 0 => SucceededServed

\* Every archived document is attempted, although its enqueue may be lost.
DocumentsAttempted == \A d \in Document : d \in documents ~> runs[d] # <<>>

\* A job that was requeued by a failover does not stay queued.
RequeuedFinish ==
  \A d \in Document :
    d \in jobs /\ job[d].status = "pending" ~> job[d].status \in {"succeeded", "failed"}

\* The generations of the runs that succeeded, oldest first.
Successes(history) ==
  LET won == {i \in DOMAIN history : history[i].outcome = "succeeded"}
      nth(k) == CHOOSE i \in won : Cardinality({j \in won : j <= i}) = k
  IN  [k \in 1..Cardinality(won) |-> history[nth(k)].gen]

\* The lease of a job as FencedLease sees it.  A failure or a requeue gives the
\* lease up without a completion.
Lease == INSTANCE FencedLease WITH
  Resource <- Document,
  owner <- [d \in Document |-> job[d].owner],
  until <- [d \in Document |-> job[d].until],
  gen <- [d \in Document |-> job[d].gen],
  audit <- [d \in Document |-> Successes(runs[d])]

\* The job is a fenced lease: successes are audited in the order of the claims
\* that earned them, and nobody completes under the fence of another.
LeaseSpec == Lease!Spec

=============================================================================
