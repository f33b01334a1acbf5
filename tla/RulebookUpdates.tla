--------------------------- MODULE RulebookUpdates ---------------------------
(***************************************************************************)
(* The rulebook update scheduler (rulebook_updates.py), with the part of   *)
(* the review queue and of the document archive it drives.                 *)
(*                                                                         *)
(* A review item that is approved becomes an update target.  Scheduler     *)
(* cycles (run_due) claim targets that are due, manual requests            *)
(* (run_review_now) claim one target at once; both take a lease with a     *)
(* fencing generation, fetch the PDF without holding any transaction and   *)
(* then publish the result in a transaction that checks the fence again.   *)
(*                                                                         *)
(* One action is one SQLite transaction, or one step on the file system or *)
(* the network between two transactions: BEGIN IMMEDIATE makes the former  *)
(* atomic, everything else interleaves.  The clock is read before a        *)
(* transaction waits for the write lock: what it decides and stores is as  *)
(* old as that reading, which no earlier step of its worker can precede.   *)
(***************************************************************************)
EXTENDS Integers, Sequences, FiniteSets

CONSTANTS
  Review,        \* review items; the update target of an item has its name
  Scheduler,     \* workers that run run_due cycles
  Manual,        \* workers that serve a "check now" request
  NoWorker,      \* lease_owner IS NULL
  NoReview,      \* an idle worker has no target
  Game,          \* board games
  Sha,           \* contents a publisher may serve
  NoSha,         \* no content fetched
  NoFile,        \* the file of an uploaded document is not modelled here
  GameOf,        \* [Review -> Game]
  LangOf,        \* [Review -> Language], the candidate's language
  Official,      \* candidates with official = 1
  Trusted,       \* official candidates with confidence >= 95
  Corruptible,   \* review items whose stored snapshot may get corrupted
  Uploads,       \* [game, sha, lang, official] records a user may upload
  Intervals,     \* check intervals an operator may choose
  DefaultInterval,
  LeaseTicks,    \* lease_seconds
  RetryBase,     \* retry_base_seconds
  RetryMax,      \* retry_max_seconds
  MaxClock,      \* bound: the clock
  MaxClaims,     \* bound: the lease generation of one target
  MaxCrashes,    \* bound: process crashes
  MaxEscapes     \* bound: exceptions that leave _execute_leased unhandled

Worker == Scheduler \cup Manual
Language == {"it", "en", "other"}
FileId == Review \X Nat
Upload == [game : Game, sha : Sha, lang : Language, official : BOOLEAN]

ASSUME NamesAssumption ==
  /\ NoWorker \notin Worker
  /\ NoReview \notin Review
  /\ NoSha \notin Sha
  /\ NoFile \notin FileId
ASSUME CandidateAssumption ==
  /\ GameOf \in [Review -> Game]
  /\ LangOf \in [Review -> Language]
  /\ Trusted \subseteq Official
  /\ Official \subseteq Review
  /\ Corruptible \subseteq Review
  /\ Uploads \subseteq Upload
ASSUME TimeAssumption ==
  /\ LeaseTicks \in Nat \ {0}
  /\ RetryBase \in Nat \ {0}
  /\ RetryMax \in Nat \ {0}
  /\ Intervals \subseteq Nat \ {0}
  /\ DefaultInterval \in Intervals
\* Arithmetic of the capped exponent of _retry_delay.
ASSUME DoublingAssumption == \A exponent \in 0..20 : 2^exponent \in Nat
ASSUME BoundAssumption ==
  MaxClock \in Nat /\ MaxClaims \in Nat /\ MaxCrashes \in Nat /\ MaxEscapes \in Nat

VARIABLES
  now,        \* the wall clock
  review,     \* rulebook_review_items.status
  corrupt,    \* review items whose snapshot no longer validates
  targets,    \* review items that have a row in rulebook_update_targets
  row,        \* the columns of that row
  runs,       \* rulebook_update_runs of a target, oldest first
  documents,  \* game_documents
  files,      \* published PDFs of scheduled archives in the manuals directory
  jobs,       \* document_index_jobs, by the file of the document
  task,       \* what each worker is doing
  crashes,
  escapes

reviewVars == <<review, corrupt>>
archiveVars == <<documents, files, jobs>>
faultVars == <<crashes, escapes>>
vars == <<now, review, corrupt, targets, row, runs, documents, files, jobs,
          task, crashes, escapes>>

ReviewStatus == {"absent", "pending", "approved", "rejected"}
TargetRow ==
  [enabled : BOOLEAN, interval : Nat, nextCheck : Nat, owner : Worker \cup {NoWorker},
   until : Nat, gen : Nat, failures : Nat]
Outcome == {"created", "unchanged", "failed"}
Run == [gen : Nat, outcome : Outcome]
Document ==
  [game : Game, sha : Sha, lang : Language, official : BOOLEAN,
   file : FileId \cup {NoFile}]
Phase ==
  {"idle", "requested", "claimed", "validating", "invalid", "fetching",
   "fetched", "staged", "failing", "unchanged"}
Task ==
  [pc : Phase, review : Review \cup {NoReview}, grant : Nat, gen : Nat,
   failures : Nat, sha : Sha \cup {NoSha}, at : Nat, lost : BOOLEAN]

NewRow ==
  [enabled |-> TRUE, interval |-> DefaultInterval, nextCheck |-> 0,
   owner |-> NoWorker, until |-> 0, gen |-> 0, failures |-> 0]
\* An idle worker has no step behind it that is later than at.
Idle(at) ==
  [pc |-> "idle", review |-> NoReview, grant |-> 0, gen |-> 0, failures |-> 0,
   sha |-> NoSha, at |-> at, lost |-> FALSE]

Init ==
  /\ now = 0
  /\ review = [r \in Review |-> "absent"]
  /\ corrupt = {}
  /\ targets = {}
  /\ row = [r \in Review |-> NewRow]
  /\ runs = [r \in Review |-> <<>>]
  /\ documents = {}
  /\ files = {}
  /\ jobs = {}
  /\ task = [w \in Worker |-> Idle(0)]
  /\ crashes = 0
  /\ escapes = 0

-----------------------------------------------------------------------------
(* Helpers *)

\* Mutant of Free: an expired lease is not reclaimed, only a released one.
FreeIfReleased(r, at) == row[r].until = 0

\* lease_until IS NULL OR lease_until <= the clock that was read; NULL is 0 here.
Free(r, at) == row[r].until <= at

\* The bounded exponential backoff of _retry_delay.
RetryDelay(failureCount) ==
  LET exponent == IF failureCount - 1 < 20 THEN failureCount - 1 ELSE 20
      delay == RetryBase * 2^exponent
  IN  IF delay < RetryMax THEN delay ELSE RetryMax

\* _assert_fence: the exact owner and generation, never the expiry.
FenceHolds(w) ==
  LET r == task[w].review
  IN  row[r].owner = w /\ row[r].gen = task[w].gen

Duplicate(game, sha) == \E d \in documents : d.game = game /\ d.sha = sha

Return(w) == task' = [task EXCEPT ![w] = Idle(now)]
Goto(w, phase) == task' = [task EXCEPT ![w].pc = phase, ![w].at = now]

\* What the clock may have shown when w read it for its next transaction.
Read(w) == task[w].at..now

\* Mutant of Leased: the duration is subtracted.
LeasedBackwards(r, w, at) ==
  [row EXCEPT ![r].owner = w, ![r].until = at - LeaseTicks, ![r].gen = @ + 1]

\* The lease columns a claim writes.
Leased(r, w, at) ==
  [row EXCEPT ![r].owner = w, ![r].until = at + LeaseTicks, ![r].gen = @ + 1]

\* _persist_completion_in_connection and _persist_preflight_failure: the
\* audit row of the attempt and the target columns, written under the fence.
Complete(w, outcome, failures, nextCheck) ==
  LET r == task[w].review
      run == [gen |-> task[w].gen, outcome |-> outcome]
  IN  /\ runs' = [runs EXCEPT ![r] = Append(@, run)]
      /\ row' = [row EXCEPT ![r].nextCheck = nextCheck, ![r].failures = failures,
                            ![r].owner = NoWorker, ![r].until = 0]

-----------------------------------------------------------------------------
(* The review queue *)

\* evaluate_candidate: official, confident, in a known language.  Whether the
\* candidate names the exact game as well is open here.
Unattended(r) == r \in Trusted /\ LangOf[r] \in {"it", "en"}

\* Discovery submits a candidate; an unattended one is approved by policy.
\* Submitting it again changes nothing.
Submit(r) ==
  /\ review[r] = "absent"
  /\ \E status \in {"pending"} \cup {s \in {"approved"} : Unattended(r)} :
       review' = [review EXCEPT ![r] = status]
  /\ UNCHANGED <<now, corrupt, targets, row, runs, archiveVars, task, faultVars>>

\* A human decision; repeating it changes nothing and reversing it is refused.
Decide(r, decision) ==
  /\ review[r] = "pending"
  /\ r \notin corrupt
  /\ review' = [review EXCEPT ![r] = decision]
  /\ UNCHANGED <<now, corrupt, targets, row, runs, archiveVars, task, faultVars>>

\* The stored snapshot of an item stops validating (environment).
Corrupt(r) ==
  /\ r \in Corruptible \ corrupt
  /\ review[r] # "absent"
  /\ corrupt' = corrupt \cup {r}
  /\ UNCHANGED <<now, review, targets, row, runs, archiveVars, task, faultVars>>

-----------------------------------------------------------------------------
(* Targets *)

ValidApproval(r) == review[r] = "approved" /\ r \notin corrupt

\* The insert of ensure_target, a no-op when the target exists.
Ensured(r, at) ==
  /\ targets' = targets \cup {r}
  /\ row' = IF r \in targets THEN row
            ELSE [row EXCEPT ![r] = [NewRow EXCEPT !.nextCheck = at]]

\* After an approval, in synchronize_approved_targets or in the list endpoint.
EnsureTarget(r) ==
  /\ ValidApproval(r) /\ r \notin targets
  /\ \E at \in 0..now : Ensured(r, at)
  /\ UNCHANGED <<now, reviewVars, runs, archiveVars, task, faultVars>>

\* An operator pauses, resumes or reschedules a target, whoever leases it; the
\* ensure_target that configure_target starts with is EnsureTarget.
ConfigureTarget(r, enabled, interval) ==
  /\ r \in targets /\ ValidApproval(r)
  /\ row' = [row EXCEPT ![r].enabled = enabled, ![r].interval = interval]
  /\ UNCHANGED <<now, reviewVars, targets, runs, archiveVars, task, faultVars>>

-----------------------------------------------------------------------------
(* Claims *)

Due(r, at) ==
  /\ r \in targets
  /\ row[r].enabled
  /\ review[r] = "approved"
  /\ row[r].nextCheck <= at
  /\ Free(r, at)

ItalianArchived(game) ==
  \E d \in documents : d.game = game /\ d.official /\ d.lang = "it"

\* Mutant of Suppressed: forgets the Italian target that is due itself.
SuppressedByDocument(r, at) == LangOf[r] = "en" /\ ItalianArchived(GameOf[r])

\* English waits for an official Italian document and for a due Italian target.
Suppressed(r, at) ==
  /\ LangOf[r] = "en"
  /\ \/ ItalianArchived(GameOf[r])
     \/ \E q \in Trusted :
          GameOf[q] = GameOf[r] /\ LangOf[q] = "it" /\ Due(q, at)

Rank(r) == CASE LangOf[r] = "it" -> 0 [] LangOf[r] = "en" -> 1 [] OTHER -> 2

Before(q, r) ==
  \/ row[q].nextCheck < row[r].nextCheck
  \/ row[q].nextCheck = row[r].nextCheck /\ Rank(q) < Rank(r)

Claimable(at) == {r \in Review : Due(r, at) /\ ~Suppressed(r, at)}

Grant(w, r, at) ==
  /\ row[r].gen < MaxClaims
  /\ row' = Leased(r, w, at)
  /\ task' = [task EXCEPT ![w] = [Idle(now) EXCEPT !.pc = "claimed", !.review = r,
                                                   !.grant = row[r].gen + 1]]

\* claim_due with the limit 1 run_due gives it; ties on the random id are free.
\* What is due, and what English waits for, is judged by the clock that was read.
ClaimDue(w, r, at) ==
  /\ w \in Scheduler /\ task[w].pc = "idle" /\ at \in Read(w)
  /\ r \in Claimable(at)
  /\ \A q \in Claimable(at) : ~Before(q, r)
  /\ Grant(w, r, at)
  /\ UNCHANGED <<now, reviewVars, targets, runs, archiveVars, faultVars>>

\* run_review_now starts by making sure the target exists.
RequestRun(w, r) ==
  /\ w \in Manual /\ task[w].pc = "idle"
  /\ ValidApproval(r)
  /\ \E at \in Read(w) : Ensured(r, at)
  /\ task' = [task EXCEPT ![w] = [Idle(now) EXCEPT !.pc = "requested", !.review = r]]
  /\ UNCHANGED <<now, reviewVars, runs, archiveVars, faultVars>>

\* Mutant of ClaimReviewTarget: a manual check takes over a live lease.
ForceClaim(w) ==
  /\ task[w].pc = "requested"
  /\ Grant(w, task[w].review, now)
  /\ UNCHANGED <<now, reviewVars, targets, runs, archiveVars, faultVars>>

\* Then it claims it, due or not, enabled or not.
ClaimReviewTarget(w) ==
  LET r == task[w].review
  IN  /\ task[w].pc = "requested"
      /\ \E at \in Read(w) : Free(r, at) /\ Grant(w, r, at)
      /\ UNCHANGED <<now, reviewVars, targets, runs, archiveVars, faultVars>>

\* A live lease refuses the request.
RunBusy(w) ==
  /\ task[w].pc = "requested"
  /\ \E at \in Read(w) : ~Free(task[w].review, at)
  /\ Return(w)
  /\ UNCHANGED <<now, reviewVars, targets, row, runs, archiveVars, faultVars>>

-----------------------------------------------------------------------------
(* One leased execution *)

\* Mutant of BeginExecute: takes the token without checking the owner.
BeginUnchecked(w) ==
  LET r == task[w].review
  IN  /\ task[w].pc = "claimed"
      /\ task' = [task EXCEPT ![w].pc = "validating", ![w].gen = row[r].gen,
                              ![w].failures = row[r].failures, ![w].at = now]
      /\ UNCHANGED <<now, reviewVars, targets, row, runs, archiveVars, faultVars>>

\* _execute_leased reads the row again and takes the fencing token from it.
BeginExecute(w) ==
  LET r == task[w].review
  IN  /\ task[w].pc = "claimed"
      /\ IF row[r].owner = w
         THEN task' = [task EXCEPT ![w].pc = "validating", ![w].gen = row[r].gen,
                                   ![w].failures = row[r].failures, ![w].at = now]
         ELSE Return(w)
      /\ UNCHANGED <<now, reviewVars, targets, row, runs, archiveVars, faultVars>>

ValidateReview(w) ==
  /\ task[w].pc = "validating"
  /\ Goto(w, IF ValidApproval(task[w].review) THEN "fetching" ELSE "invalid")
  /\ UNCHANGED <<now, reviewVars, targets, row, runs, archiveVars, faultVars>>

\* A review that no longer validates: audited and released under the fence.
PersistPreflightFailure(w) ==
  LET r == task[w].review
      failures == row[r].failures + 1
  IN  /\ task[w].pc = "invalid"
      /\ IF FenceHolds(w)
         THEN \E at \in Read(w) : Complete(w, "failed", failures, at + RetryDelay(failures))
         ELSE UNCHANGED <<row, runs>>
      /\ Return(w)
      /\ UNCHANGED <<now, reviewVars, targets, archiveVars, faultVars>>

\* The heartbeat thread renews the lease from the fetch to the completion; it reads
\* the clock after it has stored what it read before.
Beating == {"fetching", "fetched", "staged", "failing", "unchanged"}

RenewLease(w) ==
  /\ task[w].pc \in Beating /\ ~task[w].lost
  /\ IF FenceHolds(w)
     THEN \E until \in row[task[w].review].until..(now + LeaseTicks) :
            row' = [row EXCEPT ![task[w].review].until = until] /\ UNCHANGED task
     ELSE task' = [task EXCEPT ![w].lost = TRUE] /\ UNCHANGED row
  /\ UNCHANGED <<now, reviewVars, targets, runs, archiveVars, faultVars>>

\* The heartbeat has seen another generation: the result is dropped.
FetchSuperseded(w) ==
  /\ task[w].pc = "fetching" /\ task[w].lost
  /\ Return(w)
  /\ UNCHANGED <<now, reviewVars, targets, row, runs, archiveVars, faultVars>>

FetchFailed(w) ==
  /\ task[w].pc = "fetching" /\ ~task[w].lost
  /\ Goto(w, "failing")
  /\ UNCHANGED <<now, reviewVars, targets, row, runs, archiveVars, faultVars>>

FetchSucceeded(w, sha) ==
  /\ task[w].pc = "fetching" /\ ~task[w].lost
  /\ task' = [task EXCEPT ![w].pc = "fetched", ![w].sha = sha, ![w].at = now]
  /\ UNCHANGED <<now, reviewVars, targets, row, runs, archiveVars, faultVars>>

FileOf(w) == <<task[w].review, task[w].gen>>

\* archive_fetched_pdf up to the rename that publishes the file.
StageArchive(w) ==
  /\ task[w].pc = "fetched"
  /\ IF Duplicate(GameOf[task[w].review], task[w].sha)
     THEN Goto(w, "unchanged") /\ UNCHANGED files
     ELSE Goto(w, "staged") /\ files' = files \cup {FileOf(w)}
  /\ UNCHANGED <<now, reviewVars, targets, row, runs, documents, jobs, faultVars>>

\* The archive transaction: fence, document, index job, audit and completion, whose
\* time is read inside.
CommitArchive(w) ==
  LET r == task[w].review
      document == [game |-> GameOf[r], sha |-> task[w].sha, lang |-> LangOf[r],
                   official |-> r \in Official, file |-> FileOf(w)]
  IN  /\ task[w].pc = "staged"
      /\ FenceHolds(w)
      /\ ~Duplicate(GameOf[r], task[w].sha)
      /\ documents' = documents \cup {document}
      /\ jobs' = jobs \cup {FileOf(w)}
      /\ Complete(w, "created", 0, now + row[r].interval)
      /\ Return(w)
      /\ UNCHANGED <<now, reviewVars, targets, files, faultVars>>

\* The same content was archived meanwhile: the new file is removed.
ArchiveDuplicate(w) ==
  /\ task[w].pc = "staged"
  /\ FenceHolds(w)
  /\ Duplicate(GameOf[task[w].review], task[w].sha)
  /\ files' = files \ {FileOf(w)}
  /\ Goto(w, "unchanged")
  /\ UNCHANGED <<now, reviewVars, targets, row, runs, documents, jobs, faultVars>>

\* Mutant of ArchiveSuperseded: a conflict is not a failure to clean up after.
SupersededLeavesFile(w) ==
  /\ task[w].pc = "staged"
  /\ ~FenceHolds(w)
  /\ Return(w)
  /\ UNCHANGED <<now, reviewVars, targets, row, runs, archiveVars, faultVars>>

\* The fence refuses the transaction: rolled back, the new file is removed.
ArchiveSuperseded(w) ==
  /\ task[w].pc = "staged"
  /\ ~FenceHolds(w)
  /\ files' = files \ {FileOf(w)}
  /\ Return(w)
  /\ UNCHANGED <<now, reviewVars, targets, row, runs, documents, jobs, faultVars>>

\* A document, file or SQLite error before or inside the archive transaction.
ArchiveFailed(w) ==
  /\ task[w].pc \in {"fetched", "staged"}
  /\ files' = files \ {FileOf(w)}
  /\ Goto(w, "failing")
  /\ UNCHANGED <<now, reviewVars, targets, row, runs, documents, jobs, faultVars>>

\* _finalize_failure counts from the failures read at the start.
FinalizeFailure(w) ==
  LET failures == task[w].failures + 1
  IN  /\ task[w].pc = "failing"
      /\ IF FenceHolds(w)
         THEN \E at \in Read(w) : Complete(w, "failed", failures, at + RetryDelay(failures))
         ELSE UNCHANGED <<row, runs>>
      /\ Return(w)
      /\ UNCHANGED <<now, reviewVars, targets, archiveVars, faultVars>>

\* Mutant of FinalizeUnchanged: finding the known content resets no failures.
UnchangedKeepsFailures(w) ==
  LET r == task[w].review
  IN  /\ task[w].pc = "unchanged"
      /\ IF FenceHolds(w)
         THEN \E at \in Read(w) : Complete(w, "unchanged", row[r].failures, at + row[r].interval)
         ELSE UNCHANGED <<row, runs>>
      /\ Return(w)
      /\ UNCHANGED <<now, reviewVars, targets, archiveVars, faultVars>>

\* _finalize_success for content that is already archived.
FinalizeUnchanged(w) ==
  LET r == task[w].review
  IN  /\ task[w].pc = "unchanged"
      /\ IF FenceHolds(w)
         THEN \E at \in Read(w) : Complete(w, "unchanged", 0, at + row[r].interval)
         ELSE UNCHANGED <<row, runs>>
      /\ Return(w)
      /\ UNCHANGED <<now, reviewVars, targets, archiveVars, faultVars>>

-----------------------------------------------------------------------------
(* Faults and the environment *)

\* With a bounded clock, faults come early enough for a lease to expire.
TimeToRecover == now + LeaseTicks <= MaxClock

\* An exception no handler of _execute_leased or run_due names: the staged
\* file is removed, the lease stays until it expires.
Escape(w) ==
  /\ escapes < MaxEscapes /\ TimeToRecover
  /\ task[w].pc \notin {"idle", "requested"}
  /\ files' = IF task[w].pc = "staged" THEN files \ {FileOf(w)} ELSE files
  /\ escapes' = escapes + 1
  /\ Return(w)
  /\ UNCHANGED <<now, reviewVars, targets, row, runs, documents, jobs, crashes>>

\* The process dies between two transactions and is started again.
Crash ==
  /\ crashes < MaxCrashes /\ TimeToRecover
  /\ \E w \in Worker : task[w].pc # "idle"
  /\ task' = [w \in Worker |-> Idle(now)]
  /\ crashes' = crashes + 1
  /\ UNCHANGED <<now, reviewVars, targets, row, runs, archiveVars, escapes>>

\* import_pdf: the unique (game, sha256) key refuses a second copy.
UploadDocument(u) ==
  /\ u \in Uploads
  /\ ~Duplicate(u.game, u.sha)
  /\ documents' = documents \cup
       {[game |-> u.game, sha |-> u.sha, lang |-> u.lang,
         official |-> u.official, file |-> NoFile]}
  /\ UNCHANGED <<now, reviewVars, targets, row, runs, files, jobs, task, faultVars>>

Tick ==
  /\ now < MaxClock
  /\ now' = now + 1
  /\ UNCHANGED <<reviewVars, targets, row, runs, archiveVars, task, faultVars>>

-----------------------------------------------------------------------------
Execute(w) ==
  \/ BeginExecute(w)
  \/ ValidateReview(w)
  \/ PersistPreflightFailure(w)
  \/ FetchSuperseded(w)
  \/ FetchFailed(w)
  \/ \E sha \in Sha : FetchSucceeded(w, sha)
  \/ StageArchive(w)
  \/ CommitArchive(w)
  \/ ArchiveDuplicate(w)
  \/ ArchiveSuperseded(w)
  \/ ArchiveFailed(w)
  \/ FinalizeFailure(w)
  \/ FinalizeUnchanged(w)

Next ==
  \/ \E r \in Review :
       \/ Submit(r)
       \/ \E decision \in {"approved", "rejected"} : Decide(r, decision)
       \/ Corrupt(r)
       \/ EnsureTarget(r)
       \/ \E enabled \in BOOLEAN, interval \in Intervals :
            ConfigureTarget(r, enabled, interval)
  \/ \E w \in Worker :
       \/ \E r \in Review : (\E at \in Read(w) : ClaimDue(w, r, at)) \/ RequestRun(w, r)
       \/ ClaimReviewTarget(w)
       \/ RunBusy(w)
       \/ Execute(w)
       \/ RenewLease(w)
       \/ Escape(w)
  \/ Crash
  \/ \E u \in Uploads : UploadDocument(u)
  \/ Tick

Spec == Init /\ [][Next]_vars

\* The poll loop claims, an execution is bounded by the fetch deadline, the
\* cycle synchronises targets first, and time passes.
Fairness ==
  /\ \A r \in Review : WF_vars(EnsureTarget(r))
  /\ \A w \in Scheduler : WF_vars(\E r \in Review, at \in Read(w) : ClaimDue(w, r, at))
  /\ \A w \in Worker : WF_vars(ClaimReviewTarget(w) \/ RunBusy(w) \/ Execute(w))
  /\ WF_vars(Tick)

FairSpec == Spec /\ Fairness

-----------------------------------------------------------------------------
(* Types *)

TypeOK ==
  /\ now \in Nat
  /\ review \in [Review -> ReviewStatus]
  /\ corrupt \subseteq Review
  /\ targets \subseteq Review
  /\ row \in [Review -> TargetRow]
  /\ runs \in [Review -> Seq(Run)]
  /\ documents \subseteq Document
  /\ files \subseteq FileId
  /\ jobs \subseteq FileId
  /\ task \in [Worker -> Task]
  /\ crashes \in Nat
  /\ escapes \in Nat

-----------------------------------------------------------------------------
(* Properties *)

Executing == Phase \ {"idle", "requested", "claimed"}
Leasing == Executing \cup {"claimed"}

\* The audit of a target lists claims in the order they were granted, each at
\* most once: a worker that lost its lease never completes after a newer
\* claim has (the fence of _persist_completion and _persist_preflight_failure).
AuditOrdered ==
  \A r \in Review : \A i, j \in DOMAIN runs[r] :
    i < j => runs[r][i].gen < runs[r][j].gen

\* The token _execute_leased reads in its own transaction is the one the
\* claim granted, and no two workers hold the same grant of one target.
TokensExclusive ==
  \A w \in Worker :
    /\ task[w].pc \in Executing => task[w].gen = task[w].grant
    /\ \A v \in Worker :
         /\ task[w].pc \in Leasing /\ task[v].pc \in Leasing
         /\ task[w].review = task[v].review
         /\ task[w].grant = task[v].grant
         => w = v

\* A review without a target row has an empty history.
RowsOnlyForTargets ==
  \A r \in Review \ targets : row[r] = NewRow /\ runs[r] = <<>>

\* A worker past its first transaction works on a target that exists, and
\* archives only what it fetched.
TasksOnTargets ==
  \A w \in Worker :
    /\ task[w].pc # "idle" => task[w].review \in targets
    /\ task[w].pc \in {"fetched", "staged"} => task[w].sha \in Sha

\* A held generation is not audited yet.
HolderUnaudited ==
  \A r \in Review : \A i \in DOMAIN runs[r] :
    /\ runs[r][i].gen <= row[r].gen
    /\ row[r].owner # NoWorker => runs[r][i].gen < row[r].gen

\* The newest grant is the lease, and the lease is the newest grant.
GrantsCurrent ==
  \A w \in Worker : task[w].pc \in Leasing =>
    LET r == task[w].review
    IN  /\ task[w].grant <= row[r].gen
        /\ row[r].owner = w <=> task[w].grant = row[r].gen

\* While the fence of a worker holds, the failure count it read is current.
FailuresFresh ==
  \A w \in Worker :
    task[w].pc \in Executing /\ FenceHolds(w)
      => task[w].failures = row[task[w].review].failures

\* The inductive invariant behind AuditOrdered, TokensExclusive and the
\* refinement of FencedLease: what the fence and the generations guarantee
\* between any two transactions of any workers.
LeaseInv ==
  /\ RowsOnlyForTargets
  /\ TasksOnTargets
  /\ HolderUnaudited
  /\ GrantsCurrent
  /\ TokensExclusive
  /\ FailuresFresh

\* consecutive_failures, which _finalize_failure computes from a value read
\* before the fetch, is the number of failed runs since the last success.
FailuresMatchAudit ==
  \A r \in Review :
    LET failures == row[r].failures
        first == Len(runs[r]) - failures + 1
    IN  /\ first >= 1
        /\ \A i \in first..Len(runs[r]) : runs[r][i].outcome = "failed"
        /\ first > 1 => runs[r][first - 1].outcome # "failed"

\* A scheduled document, its "created" run at the granting generation, its
\* index job and its file exist together or not at all.
ArchiveAtomic ==
  LET archived == {d.file : d \in {e \in documents : e.file # NoFile}}
      CreatedBy(r) == {i \in DOMAIN runs[r] : runs[r][i].outcome = "created"}
      created == UNION {{<<r, runs[r][i].gen>> : i \in CreatedBy(r)} : r \in Review}
  IN  /\ archived = created
      /\ archived = jobs
      /\ archived \subseteq files

\* One game never holds two documents with the same content, whether fetched
\* by two workers or uploaded while one of them was archiving.
ContentArchivedOnce ==
  \A d, e \in documents : d.game = e.game /\ d.sha = e.sha => d = e

\* A published file no document refers to belongs to an archive in progress,
\* unless a crash fell between its rename and its commit.
StrayFilesNeedACrash ==
  LET staged == {FileOf(w) : w \in {v \in Worker : task[v].pc = "staged"}}
      archived == {d.file : d \in documents}
  IN  crashes = 0 => files \ archived = staged \ archived

\* Only approved items are ever fetched into the archive.
OnlyApprovedArchived ==
  \A d \in documents : d.file # NoFile => review[d.file[1]] = "approved"

\* The archive: content, rows, jobs and files agree whatever failed, crashed or
\* was superseded between the steps, and all of it was approved.
ArchiveInv ==
  /\ ArchiveAtomic
  /\ ContentArchivedOnce
  /\ StrayFilesNeedACrash
  /\ OnlyApprovedArchived

\* The scheduler takes an English target only after each enabled trusted Italian
\* target of the game, unless that one became a target between the moment the
\* clock was read that the claim judges by and the claim.
EnglishAfterItalian ==
  [][\A w \in Scheduler, r \in Review, at \in 0..now :
       ClaimDue(w, r, at) /\ LangOf[r] = "en" =>
         \A q \in Trusted \cap targets :
           GameOf[q] = GameOf[r] /\ LangOf[q] = "it" /\ row[q].enabled
             => row[q].gen > 0 \/ row[q].nextCheck \in (at + 1)..now]_vars

\* Every approved item is checked, in spite of crashes and escaped exceptions,
\* unless it is paused, corrupt before it became a target, or English with an
\* official Italian document in the archive.
EventuallyChecked ==
  \A r \in Review :
    review[r] = "approved" ~>
      \/ runs[r] # <<>>
      \/ r \in targets /\ ~row[r].enabled
      \/ r \in corrupt \ targets
      \/ LangOf[r] = "en" /\ ItalianArchived(GameOf[r])

\* The lease of a target as FencedLease sees it.
Lease == INSTANCE FencedLease WITH
  Resource <- Review,
  owner <- [r \in Review |-> row[r].owner],
  until <- [r \in Review |-> row[r].until],
  gen <- [r \in Review |-> row[r].gen],
  audit <- [r \in Review |-> [i \in DOMAIN runs[r] |-> runs[r][i].gen]]

\* Every step of the scheduler is a step of the fenced lease or leaves it
\* alone: no claim of a live lease, no completion under another's fence.
LeaseSpec == Lease!Spec

=============================================================================
