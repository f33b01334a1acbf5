------------------------ MODULE RulebookUpdatesProofs ------------------------
(***************************************************************************)
(* Theorems of RulebookUpdates for all reviews, workers, contents and      *)
(* clock settings.  The types come first, then the lease invariant, then   *)
(* what follows from it, then that the scheduler is a FencedLease, the     *)
(* archive, and that a check comes nearer to its end with every step.      *)
(***************************************************************************)
EXTENDS RulebookUpdates, SequenceTheorems, TLAPS

-----------------------------------------------------------------------------
(* Types *)

\* The backoff is a number of ticks whatever the number of failures.
LEMMA RetryDelayNat ==
  ASSUME NEW n \in Nat \ {0} PROVE RetryDelay(n) \in Nat
<1> DEFINE exponent == IF n - 1 < 20 THEN n - 1 ELSE 20
<1>1. exponent \in 0..20
  OBVIOUS
<1>2. 2^exponent \in Nat
  BY <1>1, DoublingAssumption
<1>3. RetryBase * 2^exponent \in Nat
  BY <1>2, TimeAssumption
<1> QED
  BY <1>3, TimeAssumption DEF RetryDelay

\* A completion writes well-typed columns and a well-typed audit row.
LEMMA CompleteTypes ==
  ASSUME TypeOK, NEW w \in Worker, task[w].review \in Review,
         NEW outcome \in Outcome, NEW failures \in Nat, NEW nextCheck \in Nat,
         Complete(w, outcome, failures, nextCheck)
  PROVE  row' \in [Review -> TargetRow] /\ runs' \in [Review -> Seq(Run)]
<1> DEFINE r == task[w].review
<1>1. row[r] \in TargetRow /\ runs[r] \in Seq(Run)
  BY DEF TypeOK
<1>2. [gen |-> task[w].gen, outcome |-> outcome] \in Run
  BY DEF TypeOK, Task, Run
<1>3. Append(runs[r], [gen |-> task[w].gen, outcome |-> outcome]) \in Seq(Run)
  BY <1>1, <1>2
<1>4. runs' \in [Review -> Seq(Run)]
  BY <1>3 DEF Complete, TypeOK
<1>5. row' \in [Review -> TargetRow]
  BY <1>1 DEF Complete, TypeOK, TargetRow
<1> QED
  BY <1>4, <1>5

LEMMA IdleTask == ASSUME NEW t \in Nat PROVE Idle(t) \in Task
BY NamesAssumption DEF Idle, Task, Phase

\* What a worker reads from the clock is a time.
LEMMA ReadNat == ASSUME TypeOK, NEW w \in Worker PROVE Read(w) \subseteq Nat
<1>1. task[w].at \in Nat /\ now \in Nat
  BY DEF TypeOK, Task
<1> QED
  BY <1>1 DEF Read

LEMMA NewRowTypes == ASSUME NEW t \in Nat PROVE [NewRow EXCEPT !.nextCheck = t] \in TargetRow
BY TimeAssumption DEF NewRow, TargetRow

LEMMA InitTypes == Init => TypeOK
BY IdleTask, NewRowTypes, TimeAssumption
   DEF Init, TypeOK, ReviewStatus, NewRow, TargetRow

\* Going idle, or to another phase, keeps the type of the tasks.
LEMMA ReturnTypes ==
  ASSUME TypeOK, NEW w \in Worker, Return(w) PROVE task' \in [Worker -> Task]
BY IdleTask DEF Return, TypeOK

LEMMA GotoTypes ==
  ASSUME TypeOK, NEW w \in Worker, NEW phase \in Phase, Goto(w, phase)
  PROVE  task' \in [Worker -> Task]
BY DEF Goto, TypeOK, Task

LEMMA GrantTypes ==
  ASSUME TypeOK, NEW w \in Worker, NEW r \in Review, NEW at \in Nat, Grant(w, r, at)
  PROVE  row' \in [Review -> TargetRow] /\ task' \in [Worker -> Task]
<1>1. row[r] \in TargetRow /\ row[r].gen + 1 \in Nat /\ at + LeaseTicks \in Nat
  BY TimeAssumption DEF TypeOK, TargetRow
<1>2. [row[r] EXCEPT !.owner = w, !.until = at + LeaseTicks, !.gen = @ + 1] \in TargetRow
  BY <1>1 DEF TargetRow
<1>3. row' \in [Review -> TargetRow]
  BY <1>2 DEF Grant, Leased, TypeOK
<1>4. [Idle(now) EXCEPT !.pc = "claimed", !.review = r, !.grant = row[r].gen + 1] \in Task
  BY <1>1, NamesAssumption DEF Idle, Task, Phase, TypeOK
<1> QED
  BY <1>3, <1>4 DEF Grant, TypeOK

LEMMA QueueTypes ==
  ASSUME TypeOK, NEW r \in Review,
         \/ Submit(r) \/ Corrupt(r) \/ EnsureTarget(r)
         \/ \E decision \in {"approved", "rejected"} : Decide(r, decision)
         \/ \E enabled \in BOOLEAN, interval \in Intervals :
              ConfigureTarget(r, enabled, interval)
  PROVE  TypeOK'
<1>1. CASE Submit(r)
  BY <1>1 DEF Submit, TypeOK, ReviewStatus, archiveVars, faultVars
<1>2. CASE \E decision \in {"approved", "rejected"} : Decide(r, decision)
  BY <1>2 DEF Decide, TypeOK, ReviewStatus, archiveVars, faultVars
<1>3. CASE Corrupt(r)
  BY <1>3, CandidateAssumption DEF Corrupt, TypeOK, archiveVars, faultVars
<1>4. CASE EnsureTarget(r)
  <2>1. PICK at \in 0..now : Ensured(r, at)
    BY <1>4 DEF EnsureTarget
  <2>2. at \in Nat
    BY DEF TypeOK
  <2> QED
    BY <1>4, <2>1, <2>2, NewRowTypes
       DEF EnsureTarget, Ensured, TypeOK, reviewVars, archiveVars, faultVars
<1>5. ASSUME NEW e \in BOOLEAN, NEW i \in Intervals, ConfigureTarget(r, e, i)
      PROVE  TypeOK'
  <2>1. row[r] \in TargetRow /\ i \in Nat
    BY TimeAssumption DEF TypeOK
  <2>2. [row[r] EXCEPT !.enabled = e, !.interval = i] \in TargetRow
    BY <2>1 DEF TargetRow
  <2>3. row' \in [Review -> TargetRow]
    BY <1>5, <2>2 DEF ConfigureTarget, TypeOK
  <2> QED
    BY <1>5, <2>3 DEF ConfigureTarget, TypeOK, reviewVars, archiveVars, faultVars
<1> QED
  BY <1>1, <1>2, <1>3, <1>4, <1>5

LEMMA ClaimTypes ==
  ASSUME TypeOK, TasksOnTargets, NEW w \in Worker,
         \/ \E r \in Review : (\E at \in Read(w) : ClaimDue(w, r, at)) \/ RequestRun(w, r)
         \/ ClaimReviewTarget(w) \/ RunBusy(w)
  PROVE  TypeOK'
<1>1. ASSUME NEW r \in Review, NEW at \in Read(w), ClaimDue(w, r, at) PROVE TypeOK'
  <2>1. at \in Nat
    BY ReadNat
  <2> QED
    BY <1>1, <2>1, GrantTypes DEF ClaimDue, TypeOK, reviewVars, archiveVars, faultVars
<1>2. ASSUME NEW r \in Review, RequestRun(w, r) PROVE TypeOK'
  <2>1. [Idle(now) EXCEPT !.pc = "requested", !.review = r] \in Task
    BY NamesAssumption DEF Idle, Task, Phase, TypeOK
  <2>2. task' \in [Worker -> Task]
    BY <1>2, <2>1 DEF RequestRun, TypeOK
  <2>3. PICK at \in Read(w) : Ensured(r, at)
    BY <1>2 DEF RequestRun
  <2>4. at \in Nat
    BY ReadNat
  <2> QED
    BY <1>2, <2>2, <2>3, <2>4, NewRowTypes
       DEF RequestRun, Ensured, TypeOK, reviewVars, archiveVars, faultVars
<1>3. CASE ClaimReviewTarget(w)
  <2>1. task[w].review \in Review
    BY <1>3 DEF ClaimReviewTarget, TasksOnTargets, TypeOK
  <2>2. PICK at \in Read(w) : Grant(w, task[w].review, at)
    BY <1>3 DEF ClaimReviewTarget
  <2>3. at \in Nat
    BY ReadNat
  <2> QED
    BY <1>3, <2>1, <2>2, <2>3, GrantTypes
       DEF ClaimReviewTarget, TypeOK, reviewVars, archiveVars, faultVars
<1>4. CASE RunBusy(w)
  BY <1>4, ReturnTypes DEF RunBusy, TypeOK, reviewVars, archiveVars, faultVars
<1> QED
  BY <1>1, <1>2, <1>3, <1>4

LEMMA ExecuteTypes ==
  ASSUME TypeOK, TasksOnTargets, NEW w \in Worker, Execute(w)
  PROVE  TypeOK'
<1> DEFINE r == task[w].review
<1> USE DEF reviewVars, archiveVars, faultVars
<1>1. r \in Review
  BY DEF Execute, BeginExecute, ValidateReview, PersistPreflightFailure,
         FetchSuperseded, FetchFailed, FetchSucceeded, StageArchive,
         CommitArchive, ArchiveDuplicate, ArchiveSuperseded, ArchiveFailed,
         FinalizeFailure, FinalizeUnchanged, TasksOnTargets, TypeOK
<1>2. task[w] \in Task /\ row[r] \in TargetRow
  BY <1>1 DEF TypeOK
<1>3. row[r].failures + 1 \in Nat \ {0} /\ task[w].failures + 1 \in Nat \ {0}
  BY <1>2 DEF Task, TargetRow
<1>4. CASE BeginExecute(w)
  <2>1. [task[w] EXCEPT !.pc = "validating", !.gen = row[r].gen,
                        !.failures = row[r].failures, !.at = now] \in Task
    BY <1>2 DEF Task, TargetRow, Phase, TypeOK
  <2>2. task' \in [Worker -> Task]
    BY <1>4, <2>1, ReturnTypes DEF BeginExecute, TypeOK
  <2> QED
    BY <1>4, <2>2 DEF BeginExecute, TypeOK
<1>5. CASE ValidateReview(w)
  BY <1>5, GotoTypes DEF ValidateReview, TypeOK, Phase
<1>6. CASE PersistPreflightFailure(w)
  <2>1. RetryDelay(row[r].failures + 1) \in Nat
    BY <1>3, RetryDelayNat
  <2>2. \A at \in Read(w) : at + RetryDelay(row[r].failures + 1) \in Nat
    BY <2>1, ReadNat
  <2>3. row' \in [Review -> TargetRow] /\ runs' \in [Review -> Seq(Run)]
    <3>1. CASE UNCHANGED <<row, runs>>
      BY <3>1 DEF TypeOK
    <3>2. ASSUME NEW at \in Read(w),
                 Complete(w, "failed", row[r].failures + 1, at + RetryDelay(row[r].failures + 1))
          PROVE  row' \in [Review -> TargetRow] /\ runs' \in [Review -> Seq(Run)]
      BY <1>1, <1>3, <2>2, <3>2, CompleteTypes DEF Outcome
    <3> QED
      BY <1>6, <3>1, <3>2 DEF PersistPreflightFailure
  <2> QED
    BY <1>6, <2>3, ReturnTypes DEF PersistPreflightFailure, TypeOK
<1>7. CASE FetchSuperseded(w)
  BY <1>7, ReturnTypes DEF FetchSuperseded, TypeOK
<1>8. CASE FetchFailed(w)
  <2>1. task' \in [Worker -> Task]
    BY <1>8, GotoTypes DEF FetchFailed, Phase
  <2> QED
    BY <1>8, <2>1 DEF FetchFailed, TypeOK
<1>9. ASSUME NEW sha \in Sha, FetchSucceeded(w, sha) PROVE TypeOK'
  <2>1. task' \in [Worker -> Task]
    BY <1>2, <1>9 DEF FetchSucceeded, TypeOK, Task, Phase
  <2> QED
    BY <1>9, <2>1 DEF FetchSucceeded, TypeOK
<1>10. FileOf(w) \in FileId
  BY <1>1, <1>2 DEF FileOf, FileId, Task
<1>11. CASE StageArchive(w)
  <2>1. task' \in [Worker -> Task]
    BY <1>11, GotoTypes DEF StageArchive, Phase
  <2> QED
    BY <1>10, <1>11, <2>1 DEF StageArchive, TypeOK
<1>12. CASE CommitArchive(w)
  <2> DEFINE document == [game |-> GameOf[r], sha |-> task[w].sha, lang |-> LangOf[r],
                          official |-> r \in Official, file |-> FileOf(w)]
  <2>1. task[w].sha \in Sha
    BY <1>12 DEF CommitArchive, TasksOnTargets
  <2>2. now + row[r].interval \in Nat
    BY <1>2 DEF TargetRow, TypeOK
  <2>3. row' \in [Review -> TargetRow] /\ runs' \in [Review -> Seq(Run)]
    BY <1>1, <1>12, <2>2, CompleteTypes DEF CommitArchive, Outcome
  <2>4. document \in Document
    BY <1>1, <1>10, <2>1, CandidateAssumption DEF Document
  <2> QED
    BY <1>10, <1>12, <2>3, <2>4, ReturnTypes DEF CommitArchive, TypeOK
<1>13. CASE ArchiveDuplicate(w)
  BY <1>13, GotoTypes DEF ArchiveDuplicate, TypeOK, Phase
<1>14. CASE ArchiveSuperseded(w)
  BY <1>14, ReturnTypes DEF ArchiveSuperseded, TypeOK
<1>15. CASE ArchiveFailed(w)
  <2>1. task' \in [Worker -> Task]
    BY <1>15, GotoTypes DEF ArchiveFailed, Phase
  <2> QED
    BY <1>15, <2>1 DEF ArchiveFailed, TypeOK
<1>16. CASE FinalizeFailure(w)
  <2>1. \A at \in Read(w) : at + RetryDelay(task[w].failures + 1) \in Nat
    <3>1. RetryDelay(task[w].failures + 1) \in Nat
      BY <1>3, RetryDelayNat
    <3> QED
      BY <3>1, ReadNat
  <2>2. row' \in [Review -> TargetRow] /\ runs' \in [Review -> Seq(Run)]
    <3>1. CASE UNCHANGED <<row, runs>>
      BY <3>1 DEF TypeOK
    <3>2. ASSUME NEW at \in Read(w),
                 Complete(w, "failed", task[w].failures + 1, at + RetryDelay(task[w].failures + 1))
          PROVE  row' \in [Review -> TargetRow] /\ runs' \in [Review -> Seq(Run)]
      BY <1>1, <1>3, <2>1, <3>2, CompleteTypes DEF Outcome
    <3> QED
      BY <1>16, <3>1, <3>2 DEF FinalizeFailure
  <2> QED
    BY <1>16, <2>2, ReturnTypes DEF FinalizeFailure, TypeOK
<1>17. CASE FinalizeUnchanged(w)
  <2>1. \A at \in Read(w) : at + row[r].interval \in Nat
    <3>1. row[r].interval \in Nat
      BY <1>2 DEF TargetRow
    <3> QED
      BY <3>1, ReadNat
  <2>2. row' \in [Review -> TargetRow] /\ runs' \in [Review -> Seq(Run)]
    <3>1. CASE UNCHANGED <<row, runs>>
      BY <3>1 DEF TypeOK
    <3>2. ASSUME NEW at \in Read(w), Complete(w, "unchanged", 0, at + row[r].interval)
          PROVE  row' \in [Review -> TargetRow] /\ runs' \in [Review -> Seq(Run)]
      BY <1>1, <2>1, <3>2, CompleteTypes DEF Outcome
    <3> QED
      BY <1>17, <3>1, <3>2 DEF FinalizeUnchanged
  <2> QED
    BY <1>17, <2>2, ReturnTypes DEF FinalizeUnchanged, TypeOK
<1> QED
  BY <1>4, <1>5, <1>6, <1>7, <1>8, <1>9, <1>11, <1>12, <1>13, <1>14, <1>15,
     <1>16, <1>17 DEF Execute

LEMMA HeartbeatTypes ==
  ASSUME TypeOK, TasksOnTargets, NEW w \in Worker, RenewLease(w) PROVE TypeOK'
<1> DEFINE r == task[w].review
<1>1. r \in Review /\ row[r] \in TargetRow /\ task[w] \in Task
  BY DEF RenewLease, Beating, TasksOnTargets, TypeOK
<1>2. row[r].until..(now + LeaseTicks) \subseteq Nat
  <2>1. now + LeaseTicks \in Nat
    BY TimeAssumption DEF TypeOK
  <2>2. row[r].until \in Nat
    BY <1>1 DEF TargetRow
  <2> QED
    BY <2>1, <2>2
<1>3. \A until \in row[r].until..(now + LeaseTicks) :
        [row[r] EXCEPT !.until = until] \in TargetRow
  BY <1>1, <1>2 DEF TargetRow
<1>4. [task[w] EXCEPT !.lost = TRUE] \in Task
  BY <1>1 DEF Task
<1>5. row' \in [Review -> TargetRow]
  <2>1. CASE UNCHANGED row
    BY <2>1 DEF TypeOK
  <2>2. ASSUME NEW until \in row[r].until..(now + LeaseTicks),
               row' = [row EXCEPT ![r].until = until]
        PROVE  row' \in [Review -> TargetRow]
    BY <1>1, <1>3, <2>2 DEF TypeOK
  <2> QED
    BY <2>1, <2>2 DEF RenewLease
<1> QED
  BY <1>1, <1>4, <1>5
     DEF RenewLease, TypeOK, reviewVars, archiveVars, faultVars

LEMMA FaultTypes ==
  ASSUME TypeOK, TasksOnTargets,
         \/ \E w \in Worker : Escape(w)
         \/ Crash \/ Tick \/ \E u \in Uploads : UploadDocument(u)
  PROVE  TypeOK'
<1> USE DEF reviewVars, archiveVars, faultVars
<1>1. ASSUME NEW w \in Worker, Escape(w) PROVE TypeOK'
  BY <1>1, ReturnTypes DEF Escape, TypeOK
<1>2. CASE Crash
  <2>1. Idle(now) \in Task
    BY IdleTask DEF TypeOK
  <2> QED
    BY <1>2, <2>1 DEF Crash, TypeOK
<1>3. CASE Tick
  BY <1>3 DEF Tick, TypeOK
<1>4. ASSUME NEW u \in Uploads, UploadDocument(u) PROVE TypeOK'
  <2>1. u \in Upload
    BY CandidateAssumption
  <2>2. [game |-> u.game, sha |-> u.sha, lang |-> u.lang,
         official |-> u.official, file |-> NoFile] \in Document
    BY <2>1 DEF Upload, Document
  <2> QED
    BY <1>4, <2>2 DEF UploadDocument, TypeOK
<1> QED
  BY <1>1, <1>2, <1>3, <1>4

LEMMA StepTypes == TypeOK /\ TasksOnTargets /\ [Next]_vars => TypeOK'
<1> SUFFICES ASSUME TypeOK, TasksOnTargets, [Next]_vars PROVE TypeOK'
  OBVIOUS
<1>1. CASE UNCHANGED vars
  BY <1>1 DEF vars, TypeOK
<1>2. CASE Next
  BY <1>2, QueueTypes, ClaimTypes, ExecuteTypes, HeartbeatTypes, FaultTypes DEF Next
<1> QED
  BY <1>1, <1>2

\* The task of one worker changes at a time, except in a crash.
LEMMA StepTasks == TypeOK /\ TasksOnTargets /\ [Next]_vars => TasksOnTargets'
<1> SUFFICES ASSUME TypeOK, TasksOnTargets, [Next]_vars PROVE TasksOnTargets'
  OBVIOUS
<1> USE DEF TypeOK
<1>1. ASSUME UNCHANGED <<task, targets>> PROVE TasksOnTargets'
  BY <1>1 DEF TasksOnTargets
<1>2. ASSUME UNCHANGED task, targets \subseteq targets' PROVE TasksOnTargets'
  BY <1>2 DEF TasksOnTargets
<1>3. ASSUME NEW w \in Worker, Return(w), UNCHANGED targets PROVE TasksOnTargets'
  BY <1>3 DEF TasksOnTargets, Return, Idle
<1>4. ASSUME NEW w \in Worker, NEW r \in targets, NEW at \in Nat, Grant(w, r, at),
             UNCHANGED targets
      PROVE  TasksOnTargets'
  BY <1>4 DEF TasksOnTargets, Grant, Idle
<1>5. ASSUME NEW r \in Review,
             \/ Submit(r) \/ Corrupt(r) \/ EnsureTarget(r)
             \/ \E decision \in {"approved", "rejected"} : Decide(r, decision)
             \/ \E enabled \in BOOLEAN, interval \in Intervals :
                  ConfigureTarget(r, enabled, interval)
      PROVE  TasksOnTargets'
  BY <1>2, <1>5 DEF Submit, Corrupt, EnsureTarget, Ensured, Decide, ConfigureTarget
<1>6. ASSUME NEW w \in Worker, NEW r \in Review, NEW at \in Read(w), ClaimDue(w, r, at)
      PROVE  TasksOnTargets'
  <2>1. at \in Nat
    BY ReadNat
  <2> QED
    BY <1>4, <1>6, <2>1 DEF ClaimDue, Claimable, Due
<1>7. ASSUME NEW w \in Worker, NEW r \in Review, RequestRun(w, r) PROVE TasksOnTargets'
  BY <1>7 DEF RequestRun, Ensured, TasksOnTargets, Idle
<1>8. ASSUME NEW w \in Worker, ClaimReviewTarget(w) PROVE TasksOnTargets'
  <2>1. PICK at \in Read(w) : Grant(w, task[w].review, at)
    BY <1>8 DEF ClaimReviewTarget
  <2>2. at \in Nat
    BY ReadNat
  <2> QED
    BY <1>4, <1>8, <2>1, <2>2 DEF ClaimReviewTarget, TasksOnTargets
<1>9. ASSUME NEW w \in Worker, RunBusy(w) \/ Escape(w) PROVE TasksOnTargets'
  BY <1>3, <1>9 DEF RunBusy, Escape
<1>10. ASSUME NEW w \in Worker, RenewLease(w) PROVE TasksOnTargets'
  <2>1. CASE FenceHolds(w)
    BY <1>1, <1>10, <2>1 DEF RenewLease
  <2>2. CASE ~FenceHolds(w)
    <3>1. task' = [task EXCEPT ![w].lost = TRUE] /\ targets' = targets
      BY <1>10, <2>2 DEF RenewLease
    <3>2. task'[w].pc = task[w].pc /\ task'[w].review = task[w].review
          /\ task'[w].sha = task[w].sha
      BY <3>1 DEF Task
    <3> QED
      BY <3>1, <3>2 DEF TasksOnTargets
  <2> QED
    BY <2>1, <2>2
<1>11. ASSUME NEW w \in Worker, Execute(w) PROVE TasksOnTargets'
  <2>1. CASE BeginExecute(w)
    <3>1. CASE row[task[w].review].owner = w
      <4>1. /\ task[w].pc = "claimed" /\ targets' = targets
            /\ task' = [task EXCEPT ![w].pc = "validating",
                            ![w].gen = row[task[w].review].gen,
                            ![w].failures = row[task[w].review].failures,
                            ![w].at = now]
        BY <2>1, <3>1 DEF BeginExecute
      <4>2. task'[w].pc = "validating" /\ task'[w].review = task[w].review
        BY <4>1 DEF Task
      <4>3. \A v \in Worker \ {w} : task'[v] = task[v]
        BY <4>1
      <4> QED
        BY <4>1, <4>2, <4>3 DEF TasksOnTargets
    <3>2. CASE row[task[w].review].owner # w
      BY <1>3, <2>1, <3>2 DEF BeginExecute
    <3> QED
      BY <3>1, <3>2
  <2>2. CASE ValidateReview(w)
    BY <2>2 DEF ValidateReview, Goto, TasksOnTargets, Task
  <2>3. CASE \/ PersistPreflightFailure(w) \/ FetchSuperseded(w) \/ CommitArchive(w)
             \/ ArchiveSuperseded(w) \/ FinalizeFailure(w) \/ FinalizeUnchanged(w)
    BY <1>3, <2>3 DEF PersistPreflightFailure, FetchSuperseded, CommitArchive,
                      ArchiveSuperseded, FinalizeFailure, FinalizeUnchanged
  <2>4. CASE FetchFailed(w) \/ ArchiveFailed(w)
    BY <2>4, ZenonT(40) DEF FetchFailed, ArchiveFailed, Goto, TasksOnTargets, Task
  <2>5. CASE \E sha \in Sha : FetchSucceeded(w, sha)
    BY <2>5 DEF FetchSucceeded, TasksOnTargets, Task
  <2>6. CASE StageArchive(w) \/ ArchiveDuplicate(w)
    <3>1. PICK phase \in {"unchanged", "staged"} : Goto(w, phase)
      BY <2>6 DEF StageArchive, ArchiveDuplicate
    <3>2. /\ task[w].pc \in {"fetched", "staged"} /\ targets' = targets
          /\ task' = [task EXCEPT ![w].pc = phase, ![w].at = now]
      BY <2>6, <3>1 DEF StageArchive, ArchiveDuplicate, Goto
    <3>3. task'[w].review = task[w].review /\ task'[w].sha = task[w].sha
      BY <3>2 DEF Task
    <3>4. \A v \in Worker \ {w} : task'[v] = task[v]
      BY <3>2
    <3> QED
      BY <3>2, <3>3, <3>4 DEF TasksOnTargets
  <2> QED
    BY <1>11, <2>1, <2>2, <2>3, <2>4, <2>5, <2>6 DEF Execute
<1>12. CASE Crash
  BY <1>12 DEF Crash, TasksOnTargets, Idle
<1>13. CASE Tick \/ (\E u \in Uploads : UploadDocument(u)) \/ UNCHANGED vars
  BY <1>1, <1>13 DEF Tick, UploadDocument, vars
<1> QED
  BY <1>5, <1>6, <1>7, <1>8, <1>9, <1>10, <1>11, <1>12, <1>13 DEF Next

LEMMA InitTasks == Init => TasksOnTargets
BY DEF Init, TasksOnTargets, Idle

\* Every column, audit row and worker keeps its type, and a worker past its
\* first transaction always has a target row to write to (RulebookUpdates!TypeOK).
THEOREM TypeCorrect == Spec => [](TypeOK /\ TasksOnTargets)
<1>1. Init => TypeOK /\ TasksOnTargets
  BY InitTypes, InitTasks
<1>2. TypeOK /\ TasksOnTargets /\ [Next]_vars => (TypeOK /\ TasksOnTargets)'
  BY StepTypes, StepTasks
<1> QED
  BY <1>1, <1>2, PTL DEF Spec

-----------------------------------------------------------------------------
(* The lease invariant *)

\* A step that takes no lease and completes none: it may renew, configure,
\* fetch, archive files or drop a task, but leaves every fence as it was.
Quiet ==
  /\ runs' = runs
  /\ \A r \in Review :
       /\ row'[r].owner = row[r].owner
       /\ row'[r].gen = row[r].gen
       /\ row'[r].failures = row[r].failures
  /\ \A w \in Worker : task'[w].pc \in Leasing =>
       /\ task[w].pc \in Leasing
       /\ task'[w].review = task[w].review
       /\ task'[w].grant = task[w].grant
  /\ \A w \in Worker : task'[w].pc \in Executing =>
       /\ task[w].pc \in Executing
       /\ task'[w].gen = task[w].gen
       /\ task'[w].failures = task[w].failures

\* A claim by a worker without a lease.
Granting ==
  \E w \in Worker, r \in targets, at \in Nat :
    /\ task[w].pc \notin Leasing
    /\ Grant(w, r, at)
    /\ UNCHANGED <<runs, targets>>

\* A completion by the worker whose fence holds.
Completing ==
  \E w \in Worker, outcome \in Outcome, failures \in Nat, nextCheck \in Nat :
    /\ task[w].pc \in Executing
    /\ FenceHolds(w)
    /\ failures = (IF outcome = "failed" THEN row[task[w].review].failures + 1 ELSE 0)
    /\ Complete(w, outcome, failures, nextCheck)
    /\ Return(w)
    /\ UNCHANGED targets

Beginning ==
  \E w \in Worker :
    /\ task[w].pc = "claimed"
    /\ row[task[w].review].owner = w
    /\ task' = [task EXCEPT ![w].pc = "validating",
                   ![w].gen = row[task[w].review].gen,
                   ![w].failures = row[task[w].review].failures,
                   ![w].at = now]
    /\ UNCHANGED <<row, runs, targets>>

\* Targets are never dropped, and only their rows and histories change.
Local ==
  /\ targets \subseteq targets'
  /\ \A r \in Review \ targets' : row'[r] = row[r] /\ runs'[r] = runs[r]

LEMMA PhaseFacts ==
  /\ Executing = {"validating", "invalid", "fetching", "fetched", "staged",
                  "failing", "unchanged"}
  /\ Leasing = Executing \cup {"claimed"}
  /\ \A at : Idle(at).pc = "idle"
BY DEF Executing, Leasing, Phase, Idle

\* Dropping a task, or moving it between two phases of an execution, is quiet
\* when the rows keep their fences.
LEMMA QuietReturn ==
  ASSUME TypeOK, NEW w \in Worker, Return(w), UNCHANGED <<row, runs, targets>>
  PROVE  Quiet /\ Local
BY PhaseFacts DEF Quiet, Local, Return, TypeOK

LEMMA QuietMove ==
  ASSUME TypeOK, NEW w \in Worker, UNCHANGED <<row, runs, targets>>,
         task[w].pc \in Executing, NEW t \in Task, t.pc \in Executing,
         task' = [task EXCEPT ![w] = t],
         t.review = task[w].review, t.grant = task[w].grant,
         t.gen = task[w].gen, t.failures = task[w].failures
  PROVE  Quiet /\ Local
BY PhaseFacts DEF Quiet, Local, TypeOK

LEMMA QueueStep ==
  ASSUME TypeOK, LeaseInv, NEW r \in Review,
         \/ Submit(r) \/ Corrupt(r) \/ EnsureTarget(r)
         \/ \E decision \in {"approved", "rejected"} : Decide(r, decision)
         \/ \E enabled \in BOOLEAN, interval \in Intervals :
              ConfigureTarget(r, enabled, interval)
  PROVE  Quiet /\ Local
<1>1. CASE UNCHANGED <<row, runs, targets, task>>
  BY <1>1 DEF Quiet, Local
<1>2. CASE EnsureTarget(r)
  <2>0. PICK at \in 0..now : Ensured(r, at)
    BY <1>2 DEF EnsureTarget
  <2>1. row[r] = NewRow /\ row' = [row EXCEPT ![r] = [NewRow EXCEPT !.nextCheck = at]]
    BY <1>2, <2>0 DEF EnsureTarget, Ensured, LeaseInv, RowsOnlyForTargets
  <2>2. \A q \in Review : /\ row'[q].owner = row[q].owner
                          /\ row'[q].gen = row[q].gen
                          /\ row'[q].failures = row[q].failures
    BY <2>1 DEF TypeOK, NewRow
  <2> QED
    BY <1>2, <2>0, <2>1, <2>2 DEF EnsureTarget, Ensured, Quiet, Local, TypeOK
<1>3. ASSUME NEW e \in BOOLEAN, NEW i \in Intervals, ConfigureTarget(r, e, i)
      PROVE  Quiet /\ Local
  <2>1. row' = [row EXCEPT ![r].enabled = e, ![r].interval = i] /\ r \in targets
    BY <1>3 DEF ConfigureTarget
  <2>2. \A q \in Review : /\ row'[q].owner = row[q].owner
                          /\ row'[q].gen = row[q].gen
                          /\ row'[q].failures = row[q].failures
    BY <2>1 DEF TypeOK, TargetRow
  <2> QED
    BY <1>3, <2>1, <2>2 DEF ConfigureTarget, Quiet, Local, TypeOK
<1> QED
  BY <1>1, <1>2, <1>3 DEF Submit, Corrupt, Decide

LEMMA ClaimStep ==
  ASSUME TypeOK, LeaseInv, NEW w \in Worker,
         \/ \E r \in Review : (\E at \in Read(w) : ClaimDue(w, r, at)) \/ RequestRun(w, r)
         \/ ClaimReviewTarget(w) \/ RunBusy(w)
  PROVE  (Quiet \/ Granting) /\ Local
<1>1. ASSUME NEW r \in targets, NEW at \in Read(w), Grant(w, r, at),
             task[w].pc \notin Leasing, UNCHANGED <<runs, targets>>
      PROVE  Granting /\ Local
  <2>1. at \in Nat
    BY ReadNat
  <2>2. Granting
    BY <1>1, <2>1 DEF Granting
  <2> QED
    BY <1>1, <2>2 DEF Local, Grant, Leased, TypeOK
<1>2. ASSUME NEW r \in Review, NEW at \in Read(w), ClaimDue(w, r, at) PROVE Granting /\ Local
  BY <1>1, <1>2, PhaseFacts DEF ClaimDue, Claimable, Due
<1>3. CASE ClaimReviewTarget(w)
  <2>1. PICK at \in Read(w) : Grant(w, task[w].review, at)
    BY <1>3 DEF ClaimReviewTarget
  <2> QED
    BY <1>1, <1>3, <2>1, PhaseFacts DEF ClaimReviewTarget, LeaseInv, TasksOnTargets
<1>4. CASE RunBusy(w)
  BY <1>4, QuietReturn DEF RunBusy
<1>5. ASSUME NEW r \in Review, RequestRun(w, r) PROVE Quiet /\ Local
  <2>0. PICK at \in Read(w) : Ensured(r, at)
    BY <1>5 DEF RequestRun
  <2>1. \A q \in Review : /\ row'[q].owner = row[q].owner
                          /\ row'[q].gen = row[q].gen
                          /\ row'[q].failures = row[q].failures
    BY <2>0 DEF Ensured, LeaseInv, RowsOnlyForTargets, TypeOK, NewRow
  <2>2. \A v \in Worker : task'[v].pc \in Leasing => v # w /\ task'[v] = task[v]
    BY <1>5, PhaseFacts DEF RequestRun, TypeOK, Idle
  <2>3. Local
    BY <1>5, <2>0 DEF RequestRun, Ensured, Local, TypeOK
  <2> QED
    BY <1>5, <2>1, <2>2, <2>3 DEF RequestRun, Quiet, Leasing
<1> QED
  BY <1>2, <1>3, <1>4, <1>5

LEMMA CompletingLocal ==
  ASSUME TypeOK, LeaseInv, Completing PROVE Local
<1> PICK w \in Worker, outcome \in Outcome, failures \in Nat, nextCheck \in Nat :
      /\ task[w].pc \in Executing
      /\ Complete(w, outcome, failures, nextCheck)
      /\ UNCHANGED targets
  BY DEF Completing
<1>1. task[w].review \in targets
  BY PhaseFacts DEF LeaseInv, TasksOnTargets
<1> QED
  BY <1>1 DEF Complete, Local, TypeOK

LEMMA ExecuteStep ==
  ASSUME TypeOK, LeaseInv, NEW w \in Worker, Execute(w)
  PROVE  (Quiet \/ Beginning \/ Completing) /\ Local
<1> DEFINE r == task[w].review
<1>1. task[w] \in Task /\ task[w].pc \in Leasing /\ r \in Review
  BY PhaseFacts
     DEF Execute, BeginExecute, ValidateReview, PersistPreflightFailure,
         FetchSuperseded, FetchFailed, FetchSucceeded, StageArchive,
         CommitArchive, ArchiveDuplicate, ArchiveSuperseded, ArchiveFailed,
         FinalizeFailure, FinalizeUnchanged, LeaseInv, TasksOnTargets, TypeOK
<1>2. row[r] \in TargetRow
  BY <1>1 DEF TypeOK
<1>3. CASE BeginExecute(w)
  <2>1. CASE row[r].owner = w
    BY <1>3, <2>1 DEF BeginExecute, Beginning, Local
  <2>2. CASE row[r].owner # w
    BY <1>3, <2>2, QuietReturn DEF BeginExecute
  <2> QED
    BY <2>1, <2>2
<1>4. ASSUME NEW phase \in {"fetching", "invalid", "unchanged", "staged", "failing"},
             task[w].pc \in Executing, Goto(w, phase), UNCHANGED <<row, runs, targets>>
      PROVE  Quiet /\ Local
  <2> DEFINE t == [task[w] EXCEPT !.pc = phase, !.at = now]
  <2>1. /\ t \in Task /\ t.pc = phase /\ t.review = r /\ t.grant = task[w].grant
        /\ t.gen = task[w].gen /\ t.failures = task[w].failures
    BY <1>1 DEF Task, Phase, TypeOK
  <2>2. task' = [task EXCEPT ![w] = t]
    BY <1>4 DEF Goto
  <2>3. t.pc \in Executing
    BY <2>1, PhaseFacts
  <2> QED
    BY <1>4, <2>1, <2>2, <2>3, QuietMove
<1>5. CASE ValidateReview(w) \/ StageArchive(w) \/ ArchiveDuplicate(w)
  BY <1>4, <1>5, PhaseFacts DEF ValidateReview, StageArchive, ArchiveDuplicate
<1>6. CASE FetchSuperseded(w) \/ ArchiveSuperseded(w)
  BY <1>6, QuietReturn DEF FetchSuperseded, ArchiveSuperseded
<1>7. CASE FetchFailed(w) \/ ArchiveFailed(w)
  BY <1>4, <1>7, PhaseFacts DEF FetchFailed, ArchiveFailed
<1>8. ASSUME NEW sha \in Sha, FetchSucceeded(w, sha) PROVE Quiet /\ Local
  <2> DEFINE t == [task[w] EXCEPT !.pc = "fetched", !.sha = sha, !.at = now]
  <2>1. /\ t \in Task /\ t.pc = "fetched" /\ t.review = r /\ t.grant = task[w].grant
        /\ t.gen = task[w].gen /\ t.failures = task[w].failures
    BY <1>1 DEF Task, Phase, TypeOK
  <2>2. task' = [task EXCEPT ![w] = t]
    BY <1>8 DEF FetchSucceeded
  <2>3. t.pc \in Executing /\ task[w].pc \in Executing /\ UNCHANGED <<row, runs, targets>>
    BY <1>8, <2>1, PhaseFacts DEF FetchSucceeded
  <2> QED
    BY <2>1, <2>2, <2>3, QuietMove
<1>9. ASSUME NEW outcome \in Outcome, NEW failures \in Nat, NEW delay \in Nat, NEW at \in Nat,
             task[w].pc \in Executing, FenceHolds(w),
             failures = (IF outcome = "failed" THEN row[r].failures + 1 ELSE 0),
             Complete(w, outcome, failures, at + delay), Return(w), UNCHANGED targets
      PROVE  Completing /\ Local
  <2> DEFINE nextCheck == at + delay
  <2>1. nextCheck \in Nat /\ Complete(w, outcome, failures, nextCheck)
    BY <1>9
  <2> HIDE DEF nextCheck
  <2>2. Completing
    BY <1>9, <2>1 DEF Completing
  <2> QED
    BY <2>2, CompletingLocal
<1>10. row[r].failures + 1 \in Nat \ {0} /\ row[r].interval \in Nat /\ now \in Nat
  BY <1>2 DEF TargetRow, TypeOK
<1>11. CASE PersistPreflightFailure(w)
  <2>1. CASE FenceHolds(w)
    <3> DEFINE failures == row[r].failures + 1
    <3>1. failures \in Nat /\ RetryDelay(failures) \in Nat
      BY <1>10, RetryDelayNat
    <3>2. PICK at \in Read(w) : Complete(w, "failed", failures, at + RetryDelay(failures))
      BY <1>11, <2>1 DEF PersistPreflightFailure
    <3>3. at \in Nat
      BY ReadNat
    <3>4. Return(w) /\ UNCHANGED targets /\ task[w].pc \in Executing
      BY <1>11, PhaseFacts DEF PersistPreflightFailure
    <3> QED
      BY <1>9, <2>1, <3>1, <3>2, <3>3, <3>4 DEF Outcome
  <2>2. CASE ~FenceHolds(w)
    BY <1>11, <2>2, QuietReturn DEF PersistPreflightFailure
  <2> QED
    BY <2>1, <2>2
<1>12. CASE FinalizeFailure(w)
  <2>1. CASE FenceHolds(w)
    <3> DEFINE failures == task[w].failures + 1
    <3>1. Return(w) /\ UNCHANGED targets /\ task[w].pc \in Executing
      BY <1>12, PhaseFacts DEF FinalizeFailure
    <3>2. failures = row[r].failures + 1
      BY <2>1, <3>1 DEF LeaseInv, FailuresFresh
    <3>3. failures \in Nat /\ RetryDelay(failures) \in Nat
      BY <1>10, <3>2, RetryDelayNat
    <3>4. PICK at \in Read(w) : Complete(w, "failed", failures, at + RetryDelay(failures))
      BY <1>12, <2>1 DEF FinalizeFailure
    <3>5. at \in Nat
      BY ReadNat
    <3> QED
      BY <1>9, <2>1, <3>1, <3>2, <3>3, <3>4, <3>5 DEF Outcome
  <2>2. CASE ~FenceHolds(w)
    BY <1>12, <2>2, QuietReturn DEF FinalizeFailure
  <2> QED
    BY <2>1, <2>2
<1>13. CASE FinalizeUnchanged(w)
  <2>1. CASE FenceHolds(w)
    <3>1. PICK at \in Read(w) : Complete(w, "unchanged", 0, at + row[r].interval)
      BY <1>13, <2>1 DEF FinalizeUnchanged
    <3>2. at \in Nat
      BY ReadNat
    <3>3. Return(w) /\ UNCHANGED targets /\ task[w].pc \in Executing
      BY <1>13, PhaseFacts DEF FinalizeUnchanged
    <3> QED
      BY <1>9, <1>10, <2>1, <3>1, <3>2, <3>3 DEF Outcome
  <2>2. CASE ~FenceHolds(w)
    BY <1>13, <2>2, QuietReturn DEF FinalizeUnchanged
  <2> QED
    BY <2>1, <2>2
<1>14. CASE CommitArchive(w)
  BY <1>9, <1>10, <1>14, PhaseFacts DEF CommitArchive, Outcome
<1> QED
  BY <1>3, <1>5, <1>6, <1>7, <1>8, <1>11, <1>12, <1>13, <1>14 DEF Execute

LEMMA OtherStep ==
  ASSUME TypeOK, LeaseInv,
         \/ \E w \in Worker : RenewLease(w) \/ Escape(w)
         \/ Crash \/ Tick \/ (\E u \in Uploads : UploadDocument(u))
         \/ UNCHANGED vars
  PROVE  Quiet /\ Local
<1>1. ASSUME NEW w \in Worker, RenewLease(w) PROVE Quiet /\ Local
  <2>1. task[w].review \in targets /\ task[w].review \in Review
    BY <1>1 DEF RenewLease, Beating, LeaseInv, TasksOnTargets, TypeOK
  <2>2. CASE FenceHolds(w)
    <3>1. PICK until \in row[task[w].review].until..(now + LeaseTicks) :
            /\ row' = [row EXCEPT ![task[w].review].until = until]
            /\ UNCHANGED <<task, runs, targets>>
      BY <1>1, <2>2 DEF RenewLease
    <3>2. \A q \in Review : /\ row'[q].owner = row[q].owner
                            /\ row'[q].gen = row[q].gen
                            /\ row'[q].failures = row[q].failures
      BY <3>1 DEF TypeOK, TargetRow
    <3> QED
      BY <2>1, <3>1, <3>2 DEF Quiet, Local, TypeOK
  <2>3. CASE ~FenceHolds(w)
    <3> DEFINE t == [task[w] EXCEPT !.lost = TRUE]
    <3>1. /\ t \in Task /\ t.pc = task[w].pc /\ t.review = task[w].review
          /\ t.grant = task[w].grant /\ t.gen = task[w].gen
          /\ t.failures = task[w].failures
      BY DEF TypeOK, Task
    <3>2. task' = [task EXCEPT ![w] = t] /\ UNCHANGED <<row, runs, targets>>
      BY <1>1, <2>3 DEF RenewLease
    <3>3. task[w].pc \in Executing
      BY <1>1, PhaseFacts DEF RenewLease, Beating
    <3> QED
      BY <3>1, <3>2, <3>3, QuietMove
  <2> QED
    BY <2>2, <2>3
<1>2. ASSUME NEW w \in Worker, Escape(w) PROVE Quiet /\ Local
  BY <1>2, QuietReturn DEF Escape
<1>3. CASE Crash
  BY <1>3, PhaseFacts DEF Crash, Quiet, Local
<1>4. CASE Tick \/ (\E u \in Uploads : UploadDocument(u)) \/ UNCHANGED vars
  BY <1>4 DEF Tick, UploadDocument, vars, Quiet, Local
<1> QED
  BY <1>1, <1>2, <1>3, <1>4

\* Whatever a step does, it does one of four things to the leases.
LEMMA StepKinds ==
  ASSUME TypeOK, LeaseInv, [Next]_vars
  PROVE  (Quiet \/ Granting \/ Beginning \/ Completing) /\ Local
BY QueueStep, ClaimStep, ExecuteStep, OtherStep DEF Next

\* The parts of the invariant that speak of fences only.
FenceInv ==
  /\ HolderUnaudited
  /\ GrantsCurrent
  /\ TokensExclusive
  /\ FailuresFresh

LEMMA RowTypes ==
  ASSUME TypeOK, NEW r \in Review
  PROVE  /\ row[r].gen \in Nat /\ row[r].failures \in Nat
         /\ row[r].owner \in Worker \cup {NoWorker}
         /\ DOMAIN runs[r] = 1..Len(runs[r]) /\ Len(runs[r]) \in Nat
         /\ \A i \in DOMAIN runs[r] : runs[r][i].gen \in Nat
<1>1. row[r] \in TargetRow /\ runs[r] \in Seq(Run)
  BY DEF TypeOK
<1>2. DOMAIN runs[r] = 1..Len(runs[r]) /\ Len(runs[r]) \in Nat
  BY <1>1
<1>3. \A i \in DOMAIN runs[r] : runs[r][i] \in Run
  BY <1>1
<1> QED
  BY <1>1, <1>2, <1>3 DEF TargetRow, Run

\* A leasing worker works on a review, with natural tokens.
LEMMA TaskTypes ==
  ASSUME TypeOK, LeaseInv, NEW w \in Worker, task[w].pc \in Leasing
  PROVE  /\ task[w].review \in Review /\ task[w].review \in targets
         /\ task[w].grant \in Nat /\ task[w].gen \in Nat
BY PhaseFacts DEF LeaseInv, TasksOnTargets, TypeOK, Task

LEMMA QuietKeeps == ASSUME TypeOK, LeaseInv, Quiet PROVE FenceInv'
<1> USE DEF Quiet
<1>1. HolderUnaudited'
  BY DEF LeaseInv, HolderUnaudited
<1>2. GrantsCurrent'
  BY TaskTypes DEF LeaseInv, GrantsCurrent
<1>3. TokensExclusive'
  BY PhaseFacts DEF LeaseInv, TokensExclusive
<1>4. FailuresFresh'
  <2> SUFFICES ASSUME NEW w \in Worker, task'[w].pc \in Executing, FenceHolds(w)'
               PROVE  task'[w].failures = row'[task'[w].review].failures
    BY DEF FailuresFresh
  <2>1. task[w].review \in Review /\ task'[w].review = task[w].review
    BY TaskTypes, PhaseFacts
  <2> QED
    BY <2>1 DEF FenceHolds, LeaseInv, FailuresFresh
<1> QED
  BY <1>1, <1>2, <1>3, <1>4 DEF FenceInv

LEMMA GrantingKeeps == ASSUME TypeOK, LeaseInv, Granting PROVE FenceInv'
<1> PICK w \in Worker, r \in targets :
      /\ task[w].pc \notin Leasing
      /\ \E at \in Nat : Grant(w, r, at)
      /\ UNCHANGED <<runs, targets>>
  BY DEF Granting
<1>1. r \in Review
  BY DEF TypeOK
<1>2. /\ row'[r].owner = w /\ row'[r].gen = row[r].gen + 1
      /\ row'[r].failures = row[r].failures
      /\ \A q \in Review \ {r} : row'[q] = row[q]
  BY <1>1 DEF Grant, Leased, TypeOK, TargetRow
<1>3. /\ task'[w].pc = "claimed" /\ task'[w].review = r
      /\ task'[w].grant = row[r].gen + 1
      /\ \A v \in Worker \ {w} : task'[v] = task[v]
  BY DEF Grant, TypeOK, Idle
<1>4. HolderUnaudited'
  BY <1>1, <1>2, RowTypes DEF LeaseInv, HolderUnaudited
<1>5. \A v \in Worker \ {w} : task[v].pc \in Leasing /\ task[v].review = r
        => task[v].grant < row'[r].gen /\ row'[r].owner # v
  BY <1>1, <1>2, RowTypes, TaskTypes DEF LeaseInv, GrantsCurrent
<1>6. GrantsCurrent'
  <2> SUFFICES ASSUME NEW v \in Worker, task'[v].pc \in Leasing
               PROVE  /\ task'[v].grant <= row'[task'[v].review].gen
                      /\ row'[task'[v].review].owner = v
                           <=> task'[v].grant = row'[task'[v].review].gen
    BY DEF GrantsCurrent
  <2>1. CASE v = w
    BY <1>1, <1>2, <1>3, <2>1, RowTypes
  <2>2. CASE v # w /\ task[v].review = r
    BY <1>1, <1>2, <1>3, <1>5, <2>2, RowTypes, TaskTypes, SMTT(30)
  <2>3. CASE v # w /\ task[v].review # r
    BY <1>2, <1>3, <2>3, TaskTypes DEF LeaseInv, GrantsCurrent
  <2> QED
    BY <2>1, <2>2, <2>3
<1>7. TokensExclusive'
  BY <1>1, <1>2, <1>3, <1>5, RowTypes, TaskTypes, PhaseFacts DEF LeaseInv, TokensExclusive
<1>8. FailuresFresh'
  <2> SUFFICES ASSUME NEW v \in Worker, task'[v].pc \in Executing, FenceHolds(v)'
               PROVE  task'[v].failures = row'[task'[v].review].failures
    BY DEF FailuresFresh
  <2>1. v # w /\ task'[v] = task[v] /\ task[v].review \in Review
    BY <1>3, PhaseFacts, TaskTypes
  <2>2. task[v].review # r
    BY <1>2, <2>1 DEF FenceHolds
  <2> QED
    BY <1>2, <2>1, <2>2 DEF FenceHolds, LeaseInv, FailuresFresh
<1> QED
  BY <1>4, <1>6, <1>7, <1>8 DEF FenceInv

LEMMA BeginningKeeps == ASSUME TypeOK, LeaseInv, Beginning PROVE FenceInv'
<1>0. PICK w \in Worker :
      /\ task[w].pc = "claimed"
      /\ row[task[w].review].owner = w
      /\ task' = [task EXCEPT ![w].pc = "validating",
                     ![w].gen = row[task[w].review].gen,
                     ![w].failures = row[task[w].review].failures,
                     ![w].at = now]
      /\ UNCHANGED <<row, runs, targets>>
  BY DEF Beginning
<1>1. /\ task'[w].pc = "validating" /\ task'[w].review = task[w].review
      /\ task'[w].grant = task[w].grant
      /\ task'[w].gen = row[task[w].review].gen
      /\ task'[w].failures = row[task[w].review].failures
      /\ \A v \in Worker \ {w} : task'[v] = task[v]
  BY <1>0 DEF TypeOK, Task
<1>2. task[w].grant = row[task[w].review].gen /\ task[w].pc \in Leasing
  BY <1>0, PhaseFacts DEF LeaseInv, GrantsCurrent
<1>3. HolderUnaudited'
  BY <1>0 DEF LeaseInv, HolderUnaudited
<1>4. row' = row
  BY <1>0
<1>5. ASSUME NEW v \in Worker
      PROVE  /\ task'[v].review = task[v].review
             /\ task'[v].grant = task[v].grant
             /\ (task'[v].pc \in Leasing) <=> (task[v].pc \in Leasing)
  <2>1. CASE v = w
    <3>1. task'[w].pc \in Leasing
      BY <1>1, PhaseFacts
    <3> QED
      BY <1>1, <1>2, <2>1, <3>1
  <2>2. CASE v # w
    BY <1>1, <2>2
  <2> QED
    BY <2>1, <2>2
<1>6. GrantsCurrent'
  <2> SUFFICES ASSUME NEW v \in Worker, task'[v].pc \in Leasing
               PROVE  /\ task'[v].grant <= row'[task'[v].review].gen
                      /\ row'[task'[v].review].owner = v
                           <=> task'[v].grant = row'[task'[v].review].gen
    BY DEF GrantsCurrent
  <2>1. task[v].pc \in Leasing
    BY <1>5
  <2> QED
    BY <1>4, <1>5, <2>1 DEF LeaseInv, GrantsCurrent
<1>7. TokensExclusive'
  BY <1>1, <1>2, <1>5 DEF LeaseInv, TokensExclusive
<1>8. FailuresFresh'
  BY <1>1, <1>4 DEF FenceHolds, LeaseInv, FailuresFresh
<1> QED
  BY <1>3, <1>6, <1>7, <1>8 DEF FenceInv

\* The history of a target after one more run.
LEMMA OneMoreRun ==
  ASSUME TypeOK, NEW r \in Review, NEW run \in Run,
         runs' = [runs EXCEPT ![r] = Append(@, run)]
  PROVE  /\ \A q \in Review \ {r} : runs'[q] = runs[q]
         /\ DOMAIN runs[r] = 1..Len(runs[r]) /\ Len(runs[r]) \in Nat
         /\ DOMAIN runs'[r] = 1..(Len(runs[r]) + 1)
         /\ \A i \in DOMAIN runs[r] : runs'[r][i] = runs[r][i]
         /\ runs'[r][Len(runs[r]) + 1] = run
BY DEF TypeOK

LEMMA CompletingKeeps == ASSUME TypeOK, LeaseInv, Completing PROVE FenceInv'
<1> PICK w \in Worker, outcome \in Outcome, failures \in Nat, nextCheck \in Nat :
      /\ task[w].pc \in Executing
      /\ FenceHolds(w)
      /\ Complete(w, outcome, failures, nextCheck)
      /\ Return(w)
      /\ UNCHANGED targets
  BY DEF Completing
<1> DEFINE r == task[w].review
           run == [gen |-> task[w].gen, outcome |-> outcome]
<1>1. /\ r \in Review /\ task[w].pc \in Leasing
      /\ row[r].owner = w /\ row[r].gen = task[w].gen
  BY TaskTypes, PhaseFacts DEF FenceHolds
<1>2. /\ row'[r].owner = NoWorker /\ row'[r].gen = row[r].gen
      /\ \A q \in Review \ {r} : row'[q] = row[q]
  BY <1>1 DEF Complete, TypeOK, TargetRow
<1>3. task'[w] = Idle(now) /\ \A v \in Worker \ {w} : task'[v] = task[v]
  BY DEF Return, TypeOK
<1>4. run \in Run /\ runs' = [runs EXCEPT ![r] = Append(@, run)]
  BY <1>1, RowTypes DEF Complete, Run
<1>5. HolderUnaudited'
  <2> SUFFICES ASSUME NEW q \in Review, NEW i \in DOMAIN runs'[q]
               PROVE  /\ runs'[q][i].gen <= row'[q].gen
                      /\ row'[q].owner # NoWorker => runs'[q][i].gen < row'[q].gen
    BY DEF HolderUnaudited
  <2>1. CASE q # r
    BY <1>1, <1>2, <1>4, <2>1, OneMoreRun DEF LeaseInv, HolderUnaudited
  <2>2. CASE q = r
    <3>1. runs'[r][i].gen <= row[r].gen
      <4>1. CASE i \in DOMAIN runs[r]
        BY <1>1, <1>4, <4>1, OneMoreRun DEF LeaseInv, HolderUnaudited
      <4>2. CASE i = Len(runs[r]) + 1
        <5>1. runs'[r][Len(runs[r]) + 1] = run
          <6> HIDE DEF r, run
          <6> QED
            BY <1>1, <1>4, OneMoreRun
        <5>2. run.gen = row[r].gen /\ row[r].gen \in Nat
          BY <1>1, RowTypes
        <5> QED
          BY <4>2, <5>1, <5>2
      <4> QED
        BY <1>1, <1>4, <2>2, <4>1, <4>2, OneMoreRun
    <3> QED
      BY <1>2, <2>2, <3>1
  <2> QED
    BY <2>1, <2>2
<1>6. \A v \in Worker \ {w} : task[v].pc \in Leasing /\ task[v].review = r
        => task[v].grant < row[r].gen
  BY <1>1, RowTypes, TaskTypes DEF LeaseInv, GrantsCurrent
<1>7. \A v \in Worker : task'[v].pc \in Leasing => v # w /\ task'[v] = task[v]
  BY <1>3, PhaseFacts
<1>8. GrantsCurrent'
  <2> SUFFICES ASSUME NEW v \in Worker, task'[v].pc \in Leasing
               PROVE  /\ task'[v].grant <= row'[task'[v].review].gen
                      /\ row'[task'[v].review].owner = v
                           <=> task'[v].grant = row'[task'[v].review].gen
    BY DEF GrantsCurrent
  <2>1. v # w /\ task'[v] = task[v] /\ task[v].review \in Review
        /\ task[v].grant \in Nat
    BY <1>7, TaskTypes
  <2>2. CASE task[v].review = r
    BY <1>1, <1>2, <1>6, <2>1, <2>2, NamesAssumption, RowTypes
  <2>3. CASE task[v].review # r
    BY <1>2, <2>1, <2>3 DEF LeaseInv, GrantsCurrent
  <2> QED
    BY <2>2, <2>3
<1>9. TokensExclusive'
  BY <1>7, PhaseFacts DEF LeaseInv, TokensExclusive
<1>10. FailuresFresh'
  <2> SUFFICES ASSUME NEW v \in Worker, task'[v].pc \in Executing, FenceHolds(v)'
               PROVE  task'[v].failures = row'[task'[v].review].failures
    BY DEF FailuresFresh
  <2>1. v # w /\ task'[v] = task[v] /\ task[v].review \in Review
    BY <1>7, PhaseFacts, TaskTypes
  <2>2. task[v].review # r
    BY <1>1, <1>2, <2>1, NamesAssumption DEF FenceHolds
  <2> QED
    BY <1>2, <2>1, <2>2 DEF FenceHolds, LeaseInv, FailuresFresh
<1> QED
  BY <1>5, <1>8, <1>9, <1>10 DEF FenceInv

LEMMA LocalKeeps ==
  ASSUME TypeOK, LeaseInv, Local PROVE RowsOnlyForTargets'
BY DEF Local, LeaseInv, RowsOnlyForTargets

LEMMA InitLease == Init => LeaseInv
BY PhaseFacts
   DEF Init, LeaseInv, RowsOnlyForTargets, TasksOnTargets, HolderUnaudited,
       GrantsCurrent, TokensExclusive, FailuresFresh, Idle

\* Between any two transactions of any number of workers: the newest grant is
\* the lease, no two workers share a grant, a held generation is unaudited,
\* and a failure count read before a fetch is current while the fence holds
\* (RulebookUpdates!LeaseInv).
THEOREM LeaseInvariant == Spec => []LeaseInv
<1>1. Init => LeaseInv
  BY InitLease
<1>2. TypeOK /\ TasksOnTargets /\ LeaseInv /\ [Next]_vars => LeaseInv'
  <2> SUFFICES ASSUME TypeOK, LeaseInv, [Next]_vars PROVE LeaseInv'
    OBVIOUS
  <2>1. FenceInv'
    BY StepKinds, QuietKeeps, GrantingKeeps, BeginningKeeps, CompletingKeeps
  <2>2. RowsOnlyForTargets'
    BY StepKinds, LocalKeeps
  <2>3. TasksOnTargets'
    BY StepTasks DEF LeaseInv
  <2> QED
    BY <2>1, <2>2, <2>3 DEF FenceInv, LeaseInv
<1> QED
  BY <1>1, <1>2, TypeCorrect, PTL DEF Spec

-----------------------------------------------------------------------------
(* What the lease invariant gives *)

\* An execution that completes is audited behind every earlier one.
LEMMA CompletingOrders ==
  ASSUME TypeOK, LeaseInv, AuditOrdered, Completing PROVE AuditOrdered'
<1>0. PICK w \in Worker, outcome \in Outcome, failures \in Nat, nextCheck \in Nat :
      /\ task[w].pc \in Executing
      /\ FenceHolds(w)
      /\ Complete(w, outcome, failures, nextCheck)
  BY DEF Completing
<1> DEFINE r == task[w].review
           run == [gen |-> task[w].gen, outcome |-> outcome]
<1>1. /\ r \in Review /\ row[r].owner \in Worker
      /\ row[r].gen = task[w].gen /\ row[r].gen \in Nat
  BY <1>0, TaskTypes, PhaseFacts, RowTypes DEF FenceHolds
<1>2. run \in Run /\ runs' = [runs EXCEPT ![r] = Append(@, run)]
  BY <1>0, <1>1 DEF Complete, Run
<1>3. \A i \in DOMAIN runs[r] : runs[r][i].gen < run.gen
  BY <1>1, NamesAssumption DEF LeaseInv, HolderUnaudited
<1> HIDE DEF r, run
<1>4. SUFFICES ASSUME NEW q \in Review, NEW i \in DOMAIN runs'[q],
                      NEW j \in DOMAIN runs'[q], i < j
               PROVE  runs'[q][i].gen < runs'[q][j].gen
  BY DEF AuditOrdered
<1>5. CASE q # r
  <2>1. runs'[q] = runs[q]
    BY <1>1, <1>2, <1>5, OneMoreRun
  <2> QED
    BY <1>4, <2>1 DEF AuditOrdered
<1>6. CASE q = r
  <2>1. i \in DOMAIN runs[r] /\ runs'[r][i] = runs[r][i]
    BY <1>1, <1>2, <1>4, <1>6, OneMoreRun
  <2>2. CASE j \in DOMAIN runs[r]
    <3>1. runs'[r][j] = runs[r][j]
      BY <1>1, <1>2, <2>2, OneMoreRun
    <3> QED
      BY <1>1, <1>4, <1>6, <2>1, <2>2, <3>1 DEF AuditOrdered
  <2>3. CASE j = Len(runs[r]) + 1
    <3>1. runs'[r][Len(runs[r]) + 1] = run
      BY <1>1, <1>2, OneMoreRun
    <3> QED
      BY <1>3, <1>6, <2>1, <2>3, <3>1
  <2> QED
    BY <1>1, <1>2, <1>6, <2>2, <2>3, OneMoreRun
<1> QED
  BY <1>5, <1>6

\* Completions are audited in the order of their claims, each at most once,
\* whatever workers were superseded in between (RulebookUpdates!AuditOrdered).
THEOREM AuditOrder == Spec => []AuditOrdered
<1>1. Init => AuditOrdered
  BY DEF Init, AuditOrdered
<1>2. TypeOK /\ LeaseInv /\ AuditOrdered /\ [Next]_vars => AuditOrdered'
  <2> SUFFICES ASSUME TypeOK, LeaseInv, AuditOrdered, [Next]_vars PROVE AuditOrdered'
    OBVIOUS
  <2>1. CASE runs' = runs
    BY <2>1 DEF AuditOrdered
  <2>2. CASE Completing
    BY <2>2, CompletingOrders
  <2> QED
    BY <2>1, <2>2, StepKinds DEF Quiet, Granting, Beginning
<1> QED
  BY <1>1, <1>2, TypeCorrect, LeaseInvariant, PTL DEF Spec

\* One more run resets the trailing failures or extends them by itself.
LEMMA CompletingCounts ==
  ASSUME TypeOK, LeaseInv, FailuresMatchAudit, Completing PROVE FailuresMatchAudit'
<1>0. PICK w \in Worker, outcome \in Outcome, failures \in Nat, nextCheck \in Nat :
      /\ task[w].pc \in Executing
      /\ failures = (IF outcome = "failed" THEN row[task[w].review].failures + 1 ELSE 0)
      /\ Complete(w, outcome, failures, nextCheck)
  BY DEF Completing
<1> DEFINE r == task[w].review
           run == [gen |-> task[w].gen, outcome |-> outcome]
<1>1. r \in Review /\ row[r].failures \in Nat /\ task[w].gen \in Nat
  BY <1>0, TaskTypes, PhaseFacts, RowTypes
<1>2. run \in Run /\ runs' = [runs EXCEPT ![r] = Append(@, run)]
  BY <1>0, <1>1 DEF Complete, Run
<1>3. row'[r].failures = failures /\ \A q \in Review \ {r} : row'[q] = row[q]
  BY <1>0, <1>1 DEF Complete, TypeOK, TargetRow
<1>4. run.outcome = outcome
  OBVIOUS
<1>5. failures = IF outcome = "failed" THEN row[r].failures + 1 ELSE 0
  BY <1>0
<1> HIDE DEF r, run
<1>6. /\ Len(runs[r]) \in Nat /\ Len(runs'[r]) = Len(runs[r]) + 1
      /\ \A i \in 1..Len(runs[r]) : runs'[r][i] = runs[r][i]
      /\ runs'[r][Len(runs[r]) + 1] = run
  BY <1>1, <1>2, OneMoreRun DEF TypeOK
<1> SUFFICES ASSUME NEW q \in Review
             PROVE  LET first == Len(runs'[q]) - row'[q].failures + 1
                    IN  /\ first >= 1
                        /\ \A i \in first..Len(runs'[q]) : runs'[q][i].outcome = "failed"
                        /\ first > 1 => runs'[q][first - 1].outcome # "failed"
  BY DEF FailuresMatchAudit
<1>7. CASE q # r
  BY <1>1, <1>2, <1>3, <1>7, OneMoreRun DEF FailuresMatchAudit
<1>8. CASE q = r
  <2> DEFINE first == Len(runs[r]) - row[r].failures + 1
  <2>1. /\ first >= 1
        /\ \A i \in first..Len(runs[r]) : runs[r][i].outcome = "failed"
        /\ first > 1 => runs[r][first - 1].outcome # "failed"
    BY <1>1 DEF FailuresMatchAudit
  <2>2. CASE outcome = "failed"
    <3>0. row'[r].failures = row[r].failures + 1
      BY <1>3, <1>5, <2>2
    <3>1. Len(runs'[r]) - row'[r].failures + 1 = first
      <4>1. \A m, n \in Nat : (m + 1) - (n + 1) + 1 = m - n + 1
        OBVIOUS
      <4> QED
        BY <1>1, <1>6, <3>0, <4>1
    <3>2. \A i \in first..Len(runs'[r]) : runs'[r][i].outcome = "failed"
      <4> TAKE i \in first..Len(runs'[r])
      <4>1. CASE i = Len(runs[r]) + 1
        BY <1>4, <1>6, <2>2, <4>1
      <4>2. CASE i # Len(runs[r]) + 1
        <5>1. i \in first..Len(runs[r]) /\ i \in 1..Len(runs[r])
          BY <1>1, <1>6, <2>1, <4>2
        <5> QED
          BY <1>6, <2>1, <5>1
      <4> QED
        BY <4>1, <4>2
    <3>3. first > 1 => first - 1 \in 1..Len(runs[r])
      BY <1>1, <1>6
    <3> HIDE DEF first
    <3> QED
      BY <1>6, <1>8, <2>1, <3>1, <3>2, <3>3
  <2>3. CASE outcome # "failed"
    BY <1>3, <1>4, <1>5, <1>6, <1>8, <2>3
  <2> QED
    BY <2>2, <2>3
<1> QED
  BY <1>7, <1>8

\* consecutive_failures is the length of the failed tail of the history, even
\* though _finalize_failure computes it from a value read before the fetch
\* (RulebookUpdates!FailuresMatchAudit).
THEOREM FailuresAudited == Spec => []FailuresMatchAudit
<1>1. Init => FailuresMatchAudit
  BY DEF Init, FailuresMatchAudit, NewRow
<1>2. TypeOK /\ LeaseInv /\ FailuresMatchAudit /\ [Next]_vars => FailuresMatchAudit'
  <2> SUFFICES ASSUME TypeOK, LeaseInv, FailuresMatchAudit, [Next]_vars
               PROVE  FailuresMatchAudit'
    OBVIOUS
  <2>1. CASE runs' = runs /\ \A r \in Review : row'[r].failures = row[r].failures
    BY <2>1 DEF FailuresMatchAudit
  <2>2. CASE Granting
    <3>1. \A r \in Review : row'[r].failures = row[r].failures
      BY <2>2 DEF Granting, Grant, Leased, TypeOK, TargetRow
    <3> QED
      BY <2>1, <2>2, <3>1 DEF Granting
  <2>3. CASE Completing
    BY <2>3, CompletingCounts
  <2> QED
    BY <2>1, <2>2, <2>3, StepKinds DEF Quiet, Beginning
<1> QED
  BY <1>1, <1>2, TypeCorrect, LeaseInvariant, PTL DEF Spec

-----------------------------------------------------------------------------
(* The scheduler implements FencedLease: the kinds of its steps *)

\* The columns of the leases and the audit are as they were.
Still ==
  /\ now' = now
  /\ runs' = runs
  /\ \A r \in Review : /\ row'[r].owner = row[r].owner
                       /\ row'[r].until = row[r].until
                       /\ row'[r].gen = row[r].gen

\* A claim of a target whose lease was free at the time that was read.
Claiming ==
  \E w \in Worker, r \in Review, at \in 0..now :
    Free(r, at) /\ Grant(w, r, at) /\ UNCHANGED <<now, runs>>

\* The heartbeat of a worker whose fence holds.
Renewing ==
  \E w \in Worker, r \in Review :
    /\ row[r].owner = w
    /\ \E until \in row[r].until..(now + LeaseTicks) :
         row' = [row EXCEPT ![r].until = until]
    /\ UNCHANGED <<now, runs>>

\* A completion by the worker whose fence holds.
Publishing ==
  \E w \in Worker, r \in Review, outcome \in Outcome :
    /\ task[w].review = r
    /\ FenceHolds(w)
    /\ \E failures, nextCheck : Complete(w, outcome, failures, nextCheck)
    /\ UNCHANGED now

-----------------------------------------------------------------------------
(* Each kind of step is a step of the abstract lease *)

LEMMA StillStutters == ASSUME TypeOK, Still PROVE UNCHANGED Lease!vars
BY DEF Still, Lease!vars

LEMMA TickElapses == ASSUME TypeOK, Tick PROVE Lease!Next
BY BoundAssumption DEF Tick, archiveVars, Lease!Next, Lease!Elapse, TypeOK

LEMMA RenewingRenews == ASSUME TypeOK, Renewing PROVE Lease!Next
<1>a. PICK w \in Worker, r \in Review :
      /\ row[r].owner = w
      /\ \E until \in row[r].until..(now + LeaseTicks) :
           row' = [row EXCEPT ![r].until = until]
      /\ UNCHANGED <<now, runs>>
  BY DEF Renewing
<1>b. PICK until \in row[r].until..(now + LeaseTicks) : row' = [row EXCEPT ![r].until = until]
  BY <1>a
<1>0. row[r].owner = w /\ row' = [row EXCEPT ![r].until = until] /\ UNCHANGED <<now, runs>>
  BY <1>a, <1>b
<1>1. /\ row'[r].until = until
      /\ \A q \in Review : /\ row'[q].owner = row[q].owner
                           /\ row'[q].gen = row[q].gen
                           /\ q # r => row'[q].until = row[q].until
  BY <1>0 DEF TypeOK, TargetRow
<1>2. row[r].owner # NoWorker
  BY <1>0, NamesAssumption
<1>3. [q \in Review |-> row'[q].until] = [[q \in Review |-> row[q].until] EXCEPT ![r] = until]
  BY <1>1
<1>4. [q \in Review |-> row[q].until][r] = row[r].until
  OBVIOUS
<1>5. Lease!Renew(r)
  BY <1>0, <1>1, <1>2, <1>3, <1>4 DEF Lease!Renew
<1> QED
  BY <1>5 DEF Lease!Next

LEMMA ClaimingAcquires == ASSUME TypeOK, Claiming PROVE Lease!Next
<1>0. PICK w \in Worker, r \in Review, at \in 0..now :
      Free(r, at) /\ Grant(w, r, at) /\ UNCHANGED <<now, runs>>
  BY DEF Claiming
<1>1. /\ row'[r].owner = w /\ row'[r].until = at + LeaseTicks
      /\ row'[r].gen = row[r].gen + 1
      /\ \A q \in Review \ {r} : row'[q] = row[q]
  BY <1>0 DEF Grant, Leased, TypeOK, TargetRow
<1>2. Lease!Acquire(r, w)
  BY <1>0, <1>1 DEF Grant, Lease!Acquire, Free
<1> QED
  BY <1>0, <1>2 DEF Lease!Next

\* The generations of a longer history.
LEMMA OneMoreGeneration ==
  ASSUME NEW history \in Seq(Run), NEW run \in Run
  PROVE  LET longer == Append(history, run)
         IN  [i \in DOMAIN longer |-> longer[i].gen]
               = Append([i \in DOMAIN history |-> history[i].gen], run.gen)
<1> DEFINE longer == Append(history, run)
           gens == [i \in DOMAIN history |-> history[i].gen]
<1>0. gens = [i \in 1..Len(history) |-> history[i].gen] /\ Len(history) \in Nat
  OBVIOUS
<1>1. gens \in Seq(Nat) /\ Len(gens) = Len(history)
  <2>1. ASSUME NEW i \in 1..Len(history) PROVE history[i].gen \in Nat
    <3>1. history[i] \in Run
      OBVIOUS
    <3> QED
      BY <3>1 DEF Run
  <2>2. [i \in 1..Len(history) |-> history[i].gen] \in Seq(Nat)
    BY <1>0, <2>1
  <2>3. DOMAIN gens = 1..Len(history)
    BY <1>0
  <2> HIDE DEF gens
  <2> QED
    BY <1>0, <2>2, <2>3
<1>2. run.gen \in Nat
  BY DEF Run
<1>3. DOMAIN longer = 1..(Len(history) + 1) /\ DOMAIN history = 1..Len(history)
      /\ Len(history) \in Nat
  OBVIOUS
<1>4. ASSUME NEW i \in DOMAIN longer PROVE longer[i].gen = Append(gens, run.gen)[i]
  BY <1>1, <1>2, <1>3
<1>5. Append(gens, run.gen) = [i \in DOMAIN longer |-> Append(gens, run.gen)[i]]
  BY <1>1, <1>2, <1>3
<1> QED
  BY <1>4, <1>5

LEMMA PublishingCompletes == ASSUME TypeOK, Publishing PROVE Lease!Next
<1>a. PICK w \in Worker, r \in Review, outcome \in Outcome :
      /\ task[w].review = r
      /\ FenceHolds(w)
      /\ \E failures, nextCheck : Complete(w, outcome, failures, nextCheck)
      /\ UNCHANGED now
  BY DEF Publishing
<1>b. PICK failures, nextCheck : Complete(w, outcome, failures, nextCheck)
  BY <1>a
<1>0. /\ task[w].review = r
      /\ FenceHolds(w)
      /\ Complete(w, outcome, failures, nextCheck)
      /\ UNCHANGED now
  BY <1>a, <1>b
<1> DEFINE run == [gen |-> task[w].gen, outcome |-> outcome]
           gens(history) == [i \in DOMAIN history |-> history[i].gen]
<1>1. row[r].owner # NoWorker /\ task[w].gen = row[r].gen /\ task[w].gen \in Nat
  BY <1>0, NamesAssumption DEF FenceHolds, TypeOK, Task
<1>2. run \in Run /\ runs[r] \in Seq(Run)
  BY <1>0, <1>1 DEF Run, TypeOK
<1>3. /\ row'[r].owner = NoWorker /\ row'[r].until = 0 /\ row'[r].gen = row[r].gen
      /\ \A q \in Review \ {r} : row'[q] = row[q]
  BY <1>0 DEF Complete, TypeOK, TargetRow
<1>4. runs'[r] = Append(runs[r], run) /\ \A q \in Review \ {r} : runs'[q] = runs[q]
  BY <1>0 DEF Complete, TypeOK
<1>5. gens(runs'[r]) = Append(gens(runs[r]), row[r].gen)
  BY <1>1, <1>2, <1>4, OneMoreGeneration
<1>6. Lease!Complete(r)
  <2>1. [q \in Review |-> gens(runs'[q])]
          = [[q \in Review |-> gens(runs[q])] EXCEPT
               ![r] = Append(gens(runs[r]), row[r].gen)]
    BY <1>0, <1>4, <1>5
  <2>2. [q \in Review |-> row'[q].owner]
          = [[q \in Review |-> row[q].owner] EXCEPT ![r] = NoWorker]
    BY <1>0, <1>3
  <2>3. [q \in Review |-> row'[q].until]
          = [[q \in Review |-> row[q].until] EXCEPT ![r] = 0]
    BY <1>0, <1>3
  <2>4. [q \in Review |-> row'[q].gen] = [q \in Review |-> row[q].gen]
    BY <1>0, <1>3
  <2> QED
    BY <1>0, <1>1, <2>1, <2>2, <2>3, <2>4 DEF Lease!Complete
<1> QED
  BY <1>6 DEF Lease!Next

-----------------------------------------------------------------------------
(* Every action is of one of these kinds *)

LEMMA QueueKind ==
  ASSUME TypeOK, LeaseInv, NEW r \in Review,
         \/ Submit(r) \/ Corrupt(r) \/ EnsureTarget(r)
         \/ \E decision \in {"approved", "rejected"} : Decide(r, decision)
         \/ \E enabled \in BOOLEAN, interval \in Intervals :
              ConfigureTarget(r, enabled, interval)
  PROVE  Still
<1>1. CASE UNCHANGED <<now, row, runs>>
  BY <1>1 DEF Still
<1>2. CASE EnsureTarget(r)
  BY <1>2 DEF EnsureTarget, Ensured, LeaseInv, RowsOnlyForTargets, TypeOK, NewRow, Still
<1>3. ASSUME NEW e \in BOOLEAN, NEW i \in Intervals, ConfigureTarget(r, e, i)
      PROVE  Still
  <2>1. row' = [row EXCEPT ![r].enabled = e, ![r].interval = i] /\ UNCHANGED <<now, runs>>
    BY <1>3 DEF ConfigureTarget
  <2> QED
    BY <2>1 DEF TypeOK, TargetRow, Still
<1> QED
  BY <1>1, <1>2, <1>3 DEF Submit, Corrupt, Decide

LEMMA ClaimKind ==
  ASSUME TypeOK, LeaseInv, NEW w \in Worker,
         \/ \E r \in Review : (\E at \in Read(w) : ClaimDue(w, r, at)) \/ RequestRun(w, r)
         \/ ClaimReviewTarget(w) \/ RunBusy(w)
  PROVE  Still \/ Claiming
<1>0. Read(w) \subseteq 0..now
  <2>1. task[w].at \in Nat /\ now \in Nat
    BY DEF TypeOK, Task
  <2> QED
    BY <2>1 DEF Read
<1>1. ASSUME NEW r \in Review, NEW at \in Read(w), ClaimDue(w, r, at) PROVE Claiming
  BY <1>0, <1>1 DEF ClaimDue, Claimable, Due, Claiming
<1>2. CASE ClaimReviewTarget(w)
  <2>1. task[w].review \in Review
    BY <1>2 DEF ClaimReviewTarget, LeaseInv, TasksOnTargets, TypeOK
  <2> QED
    BY <1>0, <1>2, <2>1 DEF ClaimReviewTarget, Claiming
<1>3. CASE RunBusy(w)
  BY <1>3 DEF RunBusy, Still
<1>4. ASSUME NEW r \in Review, RequestRun(w, r) PROVE Still
  <2>1. PICK at \in Read(w) : Ensured(r, at)
    BY <1>4 DEF RequestRun
  <2>2. UNCHANGED <<now, runs>>
    BY <1>4 DEF RequestRun
  <2> QED
    BY <2>1, <2>2 DEF Ensured, LeaseInv, RowsOnlyForTargets, TypeOK, NewRow, Still
<1> QED
  BY <1>1, <1>2, <1>3, <1>4

LEMMA ExecuteKind ==
  ASSUME TypeOK, LeaseInv, NEW w \in Worker, Execute(w) \/ RenewLease(w)
  PROVE  Still \/ Renewing \/ Publishing
<1>1. task[w].review \in Review
  BY DEF Execute, BeginExecute, ValidateReview, PersistPreflightFailure,
         FetchSuperseded, FetchFailed, FetchSucceeded, StageArchive,
         CommitArchive, ArchiveDuplicate, ArchiveSuperseded, ArchiveFailed,
         FinalizeFailure, FinalizeUnchanged, RenewLease, Beating,
         LeaseInv, TasksOnTargets, TypeOK
<1>2. CASE UNCHANGED <<now, row, runs>>
  BY <1>2 DEF Still
<1>3. CASE RenewLease(w)
  BY <1>1, <1>2, <1>3 DEF RenewLease, FenceHolds, Renewing
<1>4. ASSUME NEW outcome \in Outcome, NEW failures, NEW nextCheck,
             FenceHolds(w), Complete(w, outcome, failures, nextCheck), UNCHANGED now
      PROVE  Publishing
  BY <1>1, <1>4 DEF Publishing
<1>5. CASE PersistPreflightFailure(w)
  BY <1>2, <1>4, <1>5 DEF PersistPreflightFailure, Outcome
<1>6. CASE FinalizeFailure(w)
  BY <1>2, <1>4, <1>6 DEF FinalizeFailure, Outcome
<1>7. CASE FinalizeUnchanged(w)
  BY <1>2, <1>4, <1>7 DEF FinalizeUnchanged, Outcome
<1>8. CASE CommitArchive(w)
  BY <1>4, <1>8 DEF CommitArchive, Outcome
<1> QED
  BY <1>2, <1>3, <1>5, <1>6, <1>7, <1>8
     DEF Execute, BeginExecute, ValidateReview, FetchSuperseded, FetchFailed,
         FetchSucceeded, StageArchive, ArchiveDuplicate, ArchiveSuperseded,
         ArchiveFailed

LEMMA StepLease ==
  TypeOK /\ LeaseInv /\ [Next]_vars => [Lease!Next]_(Lease!vars)
<1> SUFFICES ASSUME TypeOK, LeaseInv, [Next]_vars PROVE [Lease!Next]_(Lease!vars)
  OBVIOUS
<1>1. CASE Still
  BY <1>1, StillStutters
<1>2. CASE Tick
  BY <1>2, TickElapses
<1>3. CASE Claiming \/ Renewing \/ Publishing
  BY <1>3, ClaimingAcquires, RenewingRenews, PublishingCompletes
<1>4. CASE \/ Crash \/ (\E w \in Worker : Escape(w))
           \/ (\E u \in Uploads : UploadDocument(u)) \/ UNCHANGED vars
  <2>1. Still
    BY <1>4 DEF Crash, Escape, UploadDocument, vars, Still
  <2> QED
    BY <1>1, <2>1
<1> QED
  BY <1>1, <1>2, <1>3, <1>4, QueueKind, ClaimKind, ExecuteKind DEF Next

LEMMA InitImplementsLease == Init => Lease!Init
<1> SUFFICES ASSUME Init PROVE Lease!Init
  OBVIOUS
<1>1. \A r \in Review : [i \in DOMAIN runs[r] |-> runs[r][i].gen] = <<>>
  BY DEF Init
<1> QED
  BY <1>1 DEF Init, NewRow, Lease!Init

\* Every behaviour of the scheduler is one of the fenced lease: a claim takes a
\* free or expired lease only, and nobody renews, completes or audits under
\* the fence of another (RulebookUpdates!LeaseSpec).
THEOREM ImplementsFencedLease == Spec => LeaseSpec
<1>1. Init => Lease!Init
  BY InitImplementsLease
<1>2. TypeOK /\ LeaseInv /\ [Next]_vars => [Lease!Next]_(Lease!vars)
  BY StepLease
<1> QED
  BY <1>1, <1>2, TypeCorrect, LeaseInvariant, PTL DEF Spec, LeaseSpec, Lease!Spec

-----------------------------------------------------------------------------
(* Approvals, claims and the order of the languages *)

\* The generation a worker was granted is not audited before it completes.
GrantsFresh ==
  \A w \in Worker : task[w].pc \in Leasing =>
    /\ task[w].grant > 0
    /\ \A i \in DOMAIN runs[task[w].review] : runs[task[w].review][i].gen # task[w].grant

LEMMA CompletingFresh ==
  ASSUME TypeOK, LeaseInv, GrantsFresh, Completing PROVE GrantsFresh'
<1>0. PICK w \in Worker, outcome \in Outcome, failures \in Nat, nextCheck \in Nat :
      /\ task[w].pc \in Executing
      /\ FenceHolds(w)
      /\ Complete(w, outcome, failures, nextCheck)
      /\ Return(w)
  BY DEF Completing
<1> DEFINE r == task[w].review
           run == [gen |-> task[w].gen, outcome |-> outcome]
<1>1. r \in Review /\ task[w].pc \in Leasing /\ task[w].gen = task[w].grant /\ task[w].gen \in Nat
  BY <1>0, TaskTypes, PhaseFacts DEF LeaseInv, TokensExclusive
<1>2. run \in Run /\ runs' = [runs EXCEPT ![r] = Append(@, run)] /\ run.gen = task[w].grant
  BY <1>0, <1>1 DEF Complete, Run
<1>3. \A v \in Worker : task'[v].pc \in Leasing => v # w /\ task'[v] = task[v]
  BY <1>0, PhaseFacts DEF Return, TypeOK
<1> SUFFICES ASSUME NEW v \in Worker, task'[v].pc \in Leasing
             PROVE  /\ task'[v].grant > 0
                    /\ \A i \in DOMAIN runs'[task'[v].review] :
                         runs'[task'[v].review][i].gen # task'[v].grant
  BY DEF GrantsFresh
<1>4. /\ v # w /\ task'[v] = task[v] /\ task[v].pc \in Leasing /\ task[v].review \in Review
      /\ task[v].grant > 0
      /\ \A i \in DOMAIN runs[task[v].review] : runs[task[v].review][i].gen # task[v].grant
  BY <1>3, TaskTypes DEF GrantsFresh
<1> HIDE DEF run, r
<1>5. CASE task[v].review # r
  BY <1>1, <1>2, <1>4, <1>5, OneMoreRun
<1>6. CASE task[v].review = r
  <2>1. task[v].grant # task[w].grant
    BY <1>1, <1>4, <1>6 DEF r, LeaseInv, TokensExclusive
  <2>2. \A i \in DOMAIN runs'[r] : i \in DOMAIN runs[r] \/ i = Len(runs[r]) + 1
    BY <1>1, <1>2, OneMoreRun
  <2>3. \A i \in DOMAIN runs[r] : runs'[r][i] = runs[r][i]
    BY <1>1, <1>2, OneMoreRun
  <2>4. runs'[r][Len(runs[r]) + 1] = run
    BY <1>1, <1>2, OneMoreRun
  <2> QED
    BY <1>2, <1>4, <1>6, <2>1, <2>2, <2>3, <2>4
<1> QED
  BY <1>5, <1>6

LEMMA StepFresh ==
  ASSUME TypeOK, LeaseInv, GrantsFresh, [Next]_vars PROVE GrantsFresh'
<1>1. CASE Quiet
  BY <1>1 DEF Quiet, GrantsFresh
<1>2. CASE Granting
  <2> PICK w \in Worker, r \in targets :
        /\ task[w].pc \notin Leasing
        /\ \E at \in Nat : Grant(w, r, at)
        /\ UNCHANGED <<runs, targets>>
    BY <1>2 DEF Granting
  <2>1. r \in Review
    BY DEF TypeOK
  <2>2. /\ task'[w].review = r /\ task'[w].grant = row[r].gen + 1
        /\ \A v \in Worker \ {w} : task'[v] = task[v]
    BY DEF Grant, TypeOK, Idle
  <2>3. \A i \in DOMAIN runs[r] : runs[r][i].gen <= row[r].gen /\ runs[r][i].gen \in Nat
    BY <2>1, RowTypes DEF LeaseInv, HolderUnaudited
  <2>4. row[r].gen \in Nat
    BY <2>1, RowTypes
  <2>5. task'[w].grant > 0 /\ \A i \in DOMAIN runs[r] : runs[r][i].gen # task'[w].grant
    BY <2>2, <2>3, <2>4
  <2>6. ASSUME NEW v \in Worker, task'[v].pc \in Leasing
        PROVE  /\ task'[v].grant > 0
               /\ \A i \in DOMAIN runs[task'[v].review] : runs[task'[v].review][i].gen # task'[v].grant
    <3>1. CASE v = w
      BY <2>2, <2>5, <3>1
    <3>2. CASE v # w
      BY <2>2, <2>6, <3>2 DEF GrantsFresh
    <3> QED
      BY <3>1, <3>2
  <2> QED
    BY <2>6 DEF GrantsFresh
<1>3. CASE Beginning
  <2> PICK w \in Worker :
        /\ task[w].pc = "claimed"
        /\ task' = [task EXCEPT ![w].pc = "validating",
                       ![w].gen = row[task[w].review].gen,
                       ![w].failures = row[task[w].review].failures,
                       ![w].at = now]
        /\ UNCHANGED runs
    BY <1>3 DEF Beginning
  <2>1. /\ task'[w].review = task[w].review /\ task'[w].grant = task[w].grant
        /\ task[w].pc \in Leasing /\ \A v \in Worker \ {w} : task'[v] = task[v]
    BY PhaseFacts DEF TypeOK, Task
  <2>2. \A v \in Worker : task'[v].pc \in Leasing =>
          /\ task[v].pc \in Leasing
          /\ task'[v].review = task[v].review /\ task'[v].grant = task[v].grant
    BY <2>1
  <2> QED
    BY <2>2, ZenonT(40) DEF GrantsFresh
<1>4. CASE Completing
  BY <1>4, CompletingFresh
<1> QED
  BY <1>1, <1>2, <1>3, <1>4, StepKinds

\* Targets are approved, and one that was never claimed is free and due.
TargetsApproved ==
  \A r \in targets :
    /\ review[r] = "approved"
    /\ row[r].gen = 0 => row[r].nextCheck <= now /\ row[r].until = 0

\* What no step does to a target: revoke it, or schedule it before its claim.
TargetsKept ==
  /\ now <= now' /\ now' \in Nat
  /\ \A r \in Review : review[r] = "approved" => review'[r] = "approved"
  /\ \A r \in targets : row'[r].gen = 0 =>
       row[r].gen = 0 /\ row'[r].nextCheck = row[r].nextCheck /\ row'[r].until = row[r].until
  /\ \A r \in targets' \ targets :
       review[r] = "approved" /\ row'[r].nextCheck <= now /\ row'[r].until = 0

LEMMA KeptApproved ==
  ASSUME TypeOK, TypeOK', TargetsApproved, TargetsKept PROVE TargetsApproved'
<1> SUFFICES ASSUME NEW r \in targets'
             PROVE  /\ review'[r] = "approved"
                    /\ row'[r].gen = 0 => row'[r].nextCheck <= now' /\ row'[r].until = 0
  BY DEF TargetsApproved
<1>1. r \in Review /\ now \in Nat /\ now' \in Nat /\ now <= now' /\ row'[r].nextCheck \in Nat
  BY DEF TypeOK, TargetsKept, TargetRow
<1>2. CASE r \in targets
  <2>1. row[r].nextCheck \in Nat
    BY <1>1 DEF TypeOK, TargetRow
  <2> QED
    BY <1>1, <1>2, <2>1 DEF TargetsApproved, TargetsKept
<1>3. CASE r \notin targets
  BY <1>1, <1>3 DEF TargetsKept
<1> QED
  BY <1>2, <1>3

LEMMA QueueKept ==
  ASSUME TypeOK, LeaseInv, NEW r \in Review,
         \/ Submit(r) \/ Corrupt(r) \/ EnsureTarget(r)
         \/ \E decision \in {"approved", "rejected"} : Decide(r, decision)
         \/ \E enabled \in BOOLEAN, interval \in Intervals :
              ConfigureTarget(r, enabled, interval)
  PROVE  TargetsKept
<1>1. now \in Nat /\ now' = now
  BY DEF TypeOK, Submit, Corrupt, EnsureTarget, Decide, ConfigureTarget
<1>2. CASE Submit(r) \/ Corrupt(r) \/ \E decision \in {"approved", "rejected"} : Decide(r, decision)
  <2>1. UNCHANGED <<targets, row>>
    BY <1>2 DEF Submit, Corrupt, Decide
  <2>2. \A q \in Review : review[q] = "approved" => review'[q] = "approved"
    BY <1>2 DEF Submit, Corrupt, Decide, TypeOK
  <2> QED
    BY <1>1, <2>1, <2>2 DEF TargetsKept
<1>3. CASE EnsureTarget(r)
  <2>0. PICK at \in 0..now : Ensured(r, at)
    BY <1>3 DEF EnsureTarget
  <2>1. PICK new : new = [NewRow EXCEPT !.nextCheck = at]
    OBVIOUS
  <2>2. new.nextCheck <= now /\ new.until = 0
    BY <1>1, <2>1 DEF NewRow
  <2>3. /\ row' = [row EXCEPT ![r] = new] /\ targets' = targets \cup {r} /\ review' = review
        /\ review[r] = "approved" /\ r \notin targets
    BY <1>3, <2>0, <2>1 DEF EnsureTarget, Ensured, ValidApproval, reviewVars
  <2>4. row'[r] = new /\ \A q \in Review \ {r} : row'[q] = row[q]
    BY <2>3 DEF TypeOK
  <2>5. targets \subseteq Review
    BY DEF TypeOK
  <2> QED
    BY <1>1, <2>2, <2>3, <2>4, <2>5 DEF TargetsKept
<1>4. ASSUME NEW e \in BOOLEAN, NEW i \in Intervals, ConfigureTarget(r, e, i)
      PROVE  TargetsKept
  <2>1. row' = [row EXCEPT ![r].enabled = e, ![r].interval = i] /\ UNCHANGED <<review, targets>>
    BY <1>4 DEF ConfigureTarget, reviewVars
  <2>2. \A q \in Review : /\ row'[q].gen = row[q].gen
                          /\ row'[q].nextCheck = row[q].nextCheck
                          /\ row'[q].until = row[q].until
    BY <2>1 DEF TypeOK, TargetRow
  <2>3. \A q \in targets : row'[q].gen = 0 =>
          row[q].gen = 0 /\ row'[q].nextCheck = row[q].nextCheck /\ row'[q].until = row[q].until
    BY <2>2 DEF TypeOK
  <2>4. targets' = targets /\ review' = review
    BY <2>1
  <2> QED
    BY <1>1, <2>3, <2>4 DEF TargetsKept
<1> QED
  BY <1>2, <1>3, <1>4

LEMMA ClaimKept ==
  ASSUME TypeOK, LeaseInv, NEW w \in Worker,
         \/ \E r \in Review : (\E at \in Read(w) : ClaimDue(w, r, at)) \/ RequestRun(w, r)
         \/ ClaimReviewTarget(w) \/ RunBusy(w)
  PROVE  TargetsKept
<1>1. now \in Nat /\ now' = now /\ review' = review /\ targets \subseteq Review
  BY DEF TypeOK, ClaimDue, RequestRun, ClaimReviewTarget, RunBusy, reviewVars
<1>2. ASSUME NEW r \in Review, NEW at \in Read(w), Grant(w, r, at), UNCHANGED targets
      PROVE  TargetsKept
  <2>1. row[r].gen \in Nat
    BY RowTypes
  <2>2. row'[r].gen = row[r].gen + 1 /\ \A q \in Review \ {r} : row'[q] = row[q]
    BY <1>2 DEF Grant, Leased, TypeOK, TargetRow
  <2>3. row'[r].gen # 0
    BY <2>1, <2>2
  <2>4. \A q \in targets : row'[q].gen = 0 => row'[q] = row[q]
    BY <1>1, <2>2, <2>3
  <2>5. targets' = targets
    BY <1>2
  <2> QED
    BY <1>1, <2>4, <2>5 DEF TargetsKept
<1>3. ASSUME NEW r \in Review, NEW at \in Read(w), ClaimDue(w, r, at) PROVE TargetsKept
  BY <1>2, <1>3 DEF ClaimDue
<1>4. CASE ClaimReviewTarget(w)
  <2>1. task[w].review \in Review
    BY <1>4 DEF ClaimReviewTarget, LeaseInv, TasksOnTargets, TypeOK
  <2> QED
    BY <1>2, <1>4, <2>1 DEF ClaimReviewTarget
<1>5. CASE RunBusy(w)
  BY <1>1, <1>5 DEF RunBusy, TargetsKept
<1>6. ASSUME NEW r \in Review, RequestRun(w, r) PROVE TargetsKept
  <2>0. PICK at \in Read(w) : Ensured(r, at)
    BY <1>6 DEF RequestRun
  <2>1. review[r] = "approved" /\ targets' = targets \cup {r}
    BY <1>6, <2>0 DEF RequestRun, ValidApproval, Ensured
  <2>2. CASE r \in targets
    <3>1. row' = row /\ targets' = targets
      BY <2>0, <2>1, <2>2 DEF Ensured
    <3> QED
      BY <1>1, <3>1 DEF TargetsKept
  <2>3. CASE r \notin targets
    <3>1. PICK new : new = [NewRow EXCEPT !.nextCheck = at]
      OBVIOUS
    <3>2. new.nextCheck <= now /\ new.until = 0
      <4>1. at \in Nat /\ at <= now
        BY <1>1, ReadNat DEF Read
      <4> QED
        BY <3>1, <4>1 DEF NewRow
    <3>3. row' = [row EXCEPT ![r] = new]
      BY <2>0, <2>3, <3>1 DEF Ensured
    <3>4. row'[r] = new /\ \A q \in Review \ {r} : row'[q] = row[q]
      BY <3>3 DEF TypeOK
    <3> QED
      BY <1>1, <2>1, <2>3, <3>2, <3>4 DEF TargetsKept
  <2> QED
    BY <2>2, <2>3
<1> QED
  BY <1>3, <1>4, <1>5, <1>6

LEMMA ExecuteKept ==
  ASSUME TypeOK, LeaseInv, GrantsFresh, NEW w \in Worker, Execute(w) \/ RenewLease(w)
  PROVE  TargetsKept
<1>1. now \in Nat /\ UNCHANGED <<now, review, targets>> /\ targets \subseteq Review
  BY DEF TypeOK, reviewVars, Execute, BeginExecute, ValidateReview, PersistPreflightFailure,
         FetchSuperseded, FetchFailed, FetchSucceeded, StageArchive, CommitArchive,
         ArchiveDuplicate, ArchiveSuperseded, ArchiveFailed, FinalizeFailure,
         FinalizeUnchanged, RenewLease
<1>2. CASE row' = row
  BY <1>1, <1>2 DEF TargetsKept
<1>3. ASSUME FenceHolds(w), task[w].pc \in Executing,
             \A q \in Review : q # task[w].review => row'[q] = row[q],
             row'[task[w].review].gen = row[task[w].review].gen
      PROVE  TargetsKept
  <2>1. row[task[w].review].gen # 0
    BY <1>3, PhaseFacts DEF FenceHolds, GrantsFresh, LeaseInv, TokensExclusive
  <2> QED
    BY <1>1, <1>3, <2>1 DEF TargetsKept
<1>4. ASSUME FenceHolds(w), task[w].pc \in Executing,
             \E outcome, failures, nextCheck : Complete(w, outcome, failures, nextCheck)
      PROVE  TargetsKept
  <2>1. PICK failures, nextCheck :
          row' = [row EXCEPT ![task[w].review].nextCheck = nextCheck,
                             ![task[w].review].failures = failures,
                             ![task[w].review].owner = NoWorker, ![task[w].review].until = 0]
    BY <1>4 DEF Complete
  <2>2. row \in [Review -> TargetRow] /\ task[w].review \in Review
    BY <1>4, TaskTypes, PhaseFacts DEF TypeOK
  <2>3. /\ row'[task[w].review].gen = row[task[w].review].gen
        /\ \A q \in Review : q # task[w].review => row'[q] = row[q]
    BY <2>1, <2>2 DEF TargetRow
  <2> QED
    BY <1>3, <1>4, <2>3
<1>5. CASE RenewLease(w)
  <2>1. task[w].pc \in Executing
    BY <1>5, PhaseFacts DEF RenewLease, Beating
  <2>2. row \in [Review -> TargetRow] /\ task[w].review \in Review
    BY <2>1, TaskTypes, PhaseFacts DEF TypeOK
  <2>3. CASE ~FenceHolds(w)
    BY <1>2, <1>5, <2>3 DEF RenewLease
  <2>4. CASE FenceHolds(w)
    <3>1. PICK until : row' = [row EXCEPT ![task[w].review].until = until]
      BY <1>5, <2>4 DEF RenewLease
    <3>2. /\ row'[task[w].review].gen = row[task[w].review].gen
          /\ \A q \in Review : q # task[w].review => row'[q] = row[q]
      BY <2>2, <3>1 DEF TargetRow
    <3> QED
      BY <1>3, <2>1, <2>4, <3>2
  <2> QED
    BY <2>3, <2>4
<1> QED
  BY <1>2, <1>4, <1>5, PhaseFacts
     DEF Execute, BeginExecute, ValidateReview, PersistPreflightFailure,
         FetchSuperseded, FetchFailed, FetchSucceeded, StageArchive, CommitArchive,
         ArchiveDuplicate, ArchiveSuperseded, ArchiveFailed, FinalizeFailure, FinalizeUnchanged

LEMMA StepKept ==
  ASSUME TypeOK, LeaseInv, GrantsFresh, [Next]_vars PROVE TargetsKept
<1>1. CASE \/ Crash \/ (\E w \in Worker : Escape(w))
           \/ (\E u \in Uploads : UploadDocument(u)) \/ UNCHANGED vars
  BY <1>1 DEF Crash, Escape, UploadDocument, vars, reviewVars, TypeOK, TargetsKept
<1>2. CASE Tick
  BY <1>2 DEF Tick, reviewVars, TypeOK, TargetsKept
<1> QED
  BY <1>1, <1>2, QueueKept, ClaimKept, ExecuteKept DEF Next

LEMMA ApprovedInvariant == Spec => [](GrantsFresh /\ TargetsApproved)
<1>1. Init => GrantsFresh /\ TargetsApproved
  BY PhaseFacts DEF Init, GrantsFresh, TargetsApproved
<1>2. /\ TypeOK /\ TypeOK' /\ LeaseInv /\ [Next]_vars
      /\ GrantsFresh /\ TargetsApproved
      => (GrantsFresh /\ TargetsApproved)'
  BY StepFresh, StepKept, KeptApproved
<1> QED
  BY <1>1, <1>2, TypeCorrect, LeaseInvariant, PTL DEF Spec

\* The scheduler leaves an English target alone as long as an enabled trusted
\* Italian one of the game was never claimed, except for one that became a target
\* after the claim had read the clock (RulebookUpdates!EnglishAfterItalian).
THEOREM EnglishWaits == Spec => EnglishAfterItalian
<1> DEFINE Waits ==
      \A w \in Scheduler, r \in Review, at \in 0..now :
        ClaimDue(w, r, at) /\ LangOf[r] = "en" =>
          \A q \in Trusted \cap targets :
            GameOf[q] = GameOf[r] /\ LangOf[q] = "it" /\ row[q].enabled
              => row[q].gen > 0 \/ row[q].nextCheck \in (at + 1)..now
<1>1. TypeOK /\ TargetsApproved => Waits
  <2> SUFFICES ASSUME TypeOK, TargetsApproved, NEW w \in Scheduler, NEW r \in Review,
                      NEW at \in 0..now, ClaimDue(w, r, at),
                      LangOf[r] = "en", NEW q \in Trusted \cap targets,
                      GameOf[q] = GameOf[r], LangOf[q] = "it", row[q].enabled
               PROVE  row[q].gen > 0 \/ row[q].nextCheck \in (at + 1)..now
    OBVIOUS
  <2>1. row[q].gen \in Nat /\ row[q].nextCheck \in Nat /\ now \in Nat /\ at \in Nat /\ q \in targets
    BY DEF TypeOK, TargetRow
  <2>2. ~Due(q, at)
    BY DEF ClaimDue, Claimable, Suppressed
  <2>3. row[q].gen = 0 => row[q].nextCheck <= now /\ ~(row[q].nextCheck <= at)
    BY <2>1, <2>2 DEF TargetsApproved, Due, Free
  <2> QED
    BY <2>1, <2>3
<1> QED
  BY <1>1, TypeCorrect, ApprovedInvariant, PTL DEF EnglishAfterItalian

-----------------------------------------------------------------------------
(* The archive *)

Archived(f) == \E d \in documents : d.file = f
Created(f) ==
  \E r \in Review : \E i \in DOMAIN runs[r] :
    runs[r][i].outcome = "created" /\ f = <<r, runs[r][i].gen>>

\* What ArchiveInv says of each file, and where the others come from.
ArchiveFacts ==
  /\ \A f \in FileId : /\ Archived(f) <=> Created(f)
                       /\ Archived(f) <=> f \in jobs
                       /\ Archived(f) => f \in files
  /\ \A w \in Worker : task[w].pc = "staged" => FileOf(w) \in files
  /\ crashes = 0 => \A f \in files :
       Archived(f) \/ \E w \in Worker : task[w].pc = "staged" /\ f = FileOf(w)
  /\ ContentArchivedOnce
  /\ OnlyApprovedArchived

LEMMA FactsGiveArchive ==
  ASSUME TypeOK, ArchiveFacts PROVE ArchiveInv
<1> DEFINE archived == {d.file : d \in {e \in documents : e.file # NoFile}}
           CreatedBy(r) == {i \in DOMAIN runs[r] : runs[r][i].outcome = "created"}
           created == UNION {{<<r, runs[r][i].gen>> : i \in CreatedBy(r)} : r \in Review}
<1>1. /\ \A d \in documents : d.file \in FileId \cup {NoFile}
      /\ files \subseteq FileId /\ jobs \subseteq FileId
      /\ \A r \in Review : \A i \in DOMAIN runs[r] : runs[r][i].gen \in Nat
  BY RowTypes DEF TypeOK, Document
<1>2. \A f : f \in archived <=> f \in FileId /\ Archived(f)
  BY <1>1, NamesAssumption DEF Archived
<1>3. \A f : Created(f) => f \in FileId
  BY <1>1 DEF Created, FileId
<1>4. \A f : f \in created <=> Created(f)
  BY DEF Created
<1> HIDE DEF archived, CreatedBy, created
<1>5. archived = created /\ archived = jobs /\ archived \subseteq files
  BY <1>1, <1>2, <1>3, <1>4 DEF ArchiveFacts
<1>6. ArchiveAtomic
  BY <1>5 DEF ArchiveAtomic, archived, created, CreatedBy
<1>7. StrayFilesNeedACrash
  <2> DEFINE staged == {FileOf(w) : w \in {v \in Worker : task[v].pc = "staged"}}
             known == {d.file : d \in documents}
  <2>1. \A f : f \in known <=> Archived(f)
    BY DEF Archived
  <2>2. \A f : f \in staged <=> \E w \in Worker : task[w].pc = "staged" /\ f = FileOf(w)
    OBVIOUS
  <2> HIDE DEF staged, known
  <2>3. crashes = 0 => files \ known = staged \ known
    BY <2>1, <2>2 DEF ArchiveFacts
  <2> QED
    BY <2>3 DEF StrayFilesNeedACrash, staged, known
<1> QED
  BY <1>6, <1>7 DEF ArchiveInv, ArchiveFacts

\* The file of an execution is its own, and not in the archive before it ends.
LEMMA OwnFile ==
  ASSUME TypeOK, LeaseInv, GrantsFresh, NEW w \in Worker, task[w].pc \in Executing
  PROVE  /\ FileOf(w) \in FileId /\ ~Created(FileOf(w))
         /\ \A v \in Worker : v # w /\ task[v].pc = "staged" => FileOf(v) # FileOf(w)
<1>1. /\ task[w].pc \in Leasing /\ task[w].review \in Review /\ task[w].gen \in Nat
      /\ task[w].gen = task[w].grant
  BY TaskTypes, PhaseFacts DEF LeaseInv, TokensExclusive
<1>2. FileOf(w) \in FileId
  BY <1>1 DEF FileOf, FileId
<1>3. ~Created(FileOf(w))
  <2> SUFFICES ASSUME NEW r \in Review, NEW i \in DOMAIN runs[r], FileOf(w) = <<r, runs[r][i].gen>>
               PROVE  FALSE
    BY DEF Created
  <2>1. r = task[w].review /\ runs[r][i].gen = task[w].grant
    BY <1>1 DEF FileOf
  <2> QED
    BY <1>1, <2>1 DEF GrantsFresh
<1>4. ASSUME NEW v \in Worker, v # w, task[v].pc = "staged", FileOf(v) = FileOf(w)
      PROVE  FALSE
  <2>1. task[v].review = task[w].review /\ task[v].gen = task[w].gen
    BY <1>4 DEF FileOf
  <2>2. task[v].pc \in Leasing /\ task[v].gen = task[v].grant
    BY <1>4, PhaseFacts DEF LeaseInv, TokensExclusive
  <2> QED
    BY <1>1, <1>4, <2>1, <2>2 DEF LeaseInv, TokensExclusive
<1> QED
  BY <1>2, <1>3, <1>4

ApprovalsKept == \A r \in Review : review[r] = "approved" => review'[r] = "approved"

\* Steps that leave the archive alone; only a crash forgets what was staged.
ArchiveRests ==
  /\ UNCHANGED <<documents, files, jobs>>
  /\ \A f : Created(f)' <=> Created(f)
  /\ \A w \in Worker : task'[w].pc = "staged" =>
       task[w].pc = "staged" /\ task'[w].review = task[w].review /\ task'[w].gen = task[w].gen
  /\ crashes' = 0 => crashes = 0 /\ \A w \in Worker : task[w].pc = "staged" =>
       task'[w].pc = "staged" /\ task'[w].review = task[w].review /\ task'[w].gen = task[w].gen

LEMMA RestKeepsArchive ==
  ASSUME TypeOK, ArchiveFacts, ApprovalsKept, ArchiveRests PROVE ArchiveFacts'
<1>1. \A f : Archived(f)' <=> Archived(f)
  BY DEF Archived, ArchiveRests
<1>2. \A w \in Worker : task'[w].pc = "staged" => task[w].pc = "staged" /\ FileOf(w)' = FileOf(w)
  BY DEF ArchiveRests, FileOf
<1>3. crashes' = 0 => crashes = 0 /\ \A w \in Worker : task[w].pc = "staged" =>
        task'[w].pc = "staged" /\ FileOf(w)' = FileOf(w)
  BY DEF ArchiveRests, FileOf
<1>4. ContentArchivedOnce'
  BY DEF ArchiveFacts, ArchiveRests, ContentArchivedOnce
<1>5. OnlyApprovedArchived'
  <2> SUFFICES ASSUME NEW d \in documents, d.file # NoFile
               PROVE  review'[d.file[1]] = "approved"
    BY DEF OnlyApprovedArchived, ArchiveRests
  <2>1. d.file[1] \in Review
    BY DEF TypeOK, Document, FileId
  <2> QED
    BY <2>1 DEF ArchiveFacts, OnlyApprovedArchived, ApprovalsKept
<1> QED
  BY <1>1, <1>2, <1>3, <1>4, <1>5 DEF ArchiveFacts, ArchiveRests

\* A worker's file is removed with its task, or published with it.
LEMMA RemovalKeepsArchive ==
  ASSUME TypeOK, LeaseInv, GrantsFresh, ArchiveFacts, ApprovalsKept,
         NEW w \in Worker, task[w].pc \in Executing, files' = files \ {FileOf(w)},
         UNCHANGED <<documents, jobs, runs, crashes>>,
         task'[w].pc # "staged", \A v \in Worker \ {w} : task'[v] = task[v]
  PROVE  ArchiveFacts'
<1>1. \A f : (Archived(f)' <=> Archived(f)) /\ (Created(f)' <=> Created(f))
  BY DEF Archived, Created
<1>2. FileOf(w) \in FileId /\ ~Created(FileOf(w))
  BY OwnFile
<1>3. \A v \in Worker : v # w => (task'[v].pc = "staged" <=> task[v].pc = "staged") /\ FileOf(v)' = FileOf(v)
  BY DEF FileOf
<1>4. \A v \in Worker : v # w /\ task[v].pc = "staged" => FileOf(v) # FileOf(w)
  BY OwnFile
<1>5. ContentArchivedOnce'
  BY DEF ArchiveFacts, ContentArchivedOnce
<1>6. OnlyApprovedArchived'
  <2> SUFFICES ASSUME NEW d \in documents, d.file # NoFile
               PROVE  review'[d.file[1]] = "approved"
    BY DEF OnlyApprovedArchived
  <2>1. d.file[1] \in Review
    BY DEF TypeOK, Document, FileId
  <2> QED
    BY <2>1 DEF ArchiveFacts, OnlyApprovedArchived, ApprovalsKept
<1>7. \A f \in FileId : /\ Archived(f)' <=> Created(f)'
                        /\ Archived(f)' <=> f \in jobs'
                        /\ Archived(f)' => f \in files'
  BY <1>1, <1>2 DEF ArchiveFacts
<1>8. \A v \in Worker : task'[v].pc = "staged" => FileOf(v)' \in files'
  BY <1>3, <1>4 DEF ArchiveFacts
<1>9. crashes' = 0 => \A f \in files' :
        Archived(f)' \/ \E v \in Worker : task'[v].pc = "staged" /\ f = FileOf(v)'
  <2> SUFFICES ASSUME crashes' = 0, NEW f \in files, f # FileOf(w), ~Archived(f)
               PROVE  \E v \in Worker : task'[v].pc = "staged" /\ f = FileOf(v)'
    BY <1>1
  <2>1. PICK v \in Worker : task[v].pc = "staged" /\ f = FileOf(v)
    BY DEF ArchiveFacts
  <2> QED
    BY <1>3, <2>1
<1> QED
  BY <1>5, <1>6, <1>7, <1>8, <1>9 DEF ArchiveFacts

LEMMA StagingKeepsArchive ==
  ASSUME TypeOK, LeaseInv, GrantsFresh, ArchiveFacts, ApprovalsKept,
         NEW w \in Worker, task[w].pc = "fetched", Goto(w, "staged"), files' = files \cup {FileOf(w)},
         UNCHANGED <<documents, jobs, runs, crashes>>
  PROVE  ArchiveFacts'
<1>1. \A f : (Archived(f)' <=> Archived(f)) /\ (Created(f)' <=> Created(f))
  BY DEF Archived, Created
<1>2. /\ task'[w].pc = "staged" /\ task'[w].review = task[w].review /\ task'[w].gen = task[w].gen
      /\ \A v \in Worker \ {w} : task'[v] = task[v]
  BY DEF Goto, TypeOK, Task
<1>3. FileOf(w)' = FileOf(w) /\ \A v \in Worker \ {w} : FileOf(v)' = FileOf(v)
  BY <1>2 DEF FileOf
<1>4. ContentArchivedOnce'
  BY DEF ArchiveFacts, ContentArchivedOnce
<1>5. OnlyApprovedArchived'
  <2> SUFFICES ASSUME NEW d \in documents, d.file # NoFile
               PROVE  review'[d.file[1]] = "approved"
    BY DEF OnlyApprovedArchived
  <2>1. d.file[1] \in Review
    BY DEF TypeOK, Document, FileId
  <2> QED
    BY <2>1 DEF ArchiveFacts, OnlyApprovedArchived, ApprovalsKept
<1>6. \A f \in FileId : /\ Archived(f)' <=> Created(f)'
                        /\ Archived(f)' <=> f \in jobs'
                        /\ Archived(f)' => f \in files'
  BY <1>1 DEF ArchiveFacts
<1>7. \A v \in Worker : task'[v].pc = "staged" => FileOf(v)' \in files'
  <2> SUFFICES ASSUME NEW v \in Worker, task'[v].pc = "staged" PROVE FileOf(v)' \in files'
    OBVIOUS
  <2>1. CASE v = w
    BY <1>3, <2>1
  <2>2. CASE v # w
    BY <1>2, <1>3, <2>2 DEF ArchiveFacts
  <2> QED
    BY <2>1, <2>2
<1>8. crashes' = 0 => \A f \in files' :
        Archived(f)' \/ \E v \in Worker : task'[v].pc = "staged" /\ f = FileOf(v)'
  <2> SUFFICES ASSUME crashes' = 0, NEW f \in files', ~Archived(f)
               PROVE  \E v \in Worker : task'[v].pc = "staged" /\ f = FileOf(v)'
    BY <1>1
  <2>1. CASE f = FileOf(w)
    BY <1>2, <1>3, <2>1
  <2>2. CASE f # FileOf(w)
    <3>1. PICK v \in Worker : task[v].pc = "staged" /\ f = FileOf(v)
      BY <2>2 DEF ArchiveFacts
    <3>2. v # w
      BY <3>1
    <3> QED
      BY <1>2, <1>3, <3>1, <3>2
  <2> QED
    BY <2>1, <2>2
<1> QED
  BY <1>4, <1>5, <1>6, <1>7, <1>8 DEF ArchiveFacts
\* A completion adds its run to those that created a document, if it created one.
LEMMA CompletionCreates ==
  ASSUME TypeOK, LeaseInv, NEW w \in Worker, task[w].pc \in Executing, NEW outcome \in Outcome,
         \E failures, nextCheck : Complete(w, outcome, failures, nextCheck)
  PROVE  \A f : Created(f)' <=> Created(f) \/ (outcome = "created" /\ f = FileOf(w))
<1>1. PICK r \in Review : r = task[w].review /\ task[w].gen \in Nat
  BY TaskTypes, PhaseFacts
<1>2. PICK run \in Run : run = [gen |-> task[w].gen, outcome |-> outcome]
  BY <1>1 DEF Run
<1>3. runs' = [runs EXCEPT ![r] = Append(@, run)]
  BY <1>1, <1>2 DEF Complete
<1>9. /\ \A q \in Review \ {r} : runs'[q] = runs[q]
      /\ DOMAIN runs[r] = 1..Len(runs[r]) /\ Len(runs[r]) \in Nat
      /\ DOMAIN runs'[r] = 1..(Len(runs[r]) + 1)
      /\ \A i \in DOMAIN runs[r] : runs'[r][i] = runs[r][i]
      /\ runs'[r][Len(runs[r]) + 1] = run
  BY <1>3, OneMoreRun
<1>4. /\ \A q \in Review \ {r} : runs'[q] = runs[q]
      /\ \A i \in DOMAIN runs'[r] : i \in DOMAIN runs[r] \/ i = Len(runs[r]) + 1
      /\ Len(runs[r]) + 1 \in DOMAIN runs'[r]
      /\ \A i \in DOMAIN runs[r] : i \in DOMAIN runs'[r] /\ runs'[r][i] = runs[r][i]
      /\ runs'[r][Len(runs[r]) + 1] = run
  BY <1>9
<1>5. run.gen = task[w].gen /\ run.outcome = outcome /\ FileOf(w) = <<r, run.gen>>
  BY <1>1, <1>2 DEF FileOf
<1> SUFFICES ASSUME NEW f
             PROVE  Created(f)' <=> Created(f) \/ (outcome = "created" /\ f = FileOf(w))
  OBVIOUS
<1>6. ASSUME Created(f)' PROVE Created(f) \/ (outcome = "created" /\ f = FileOf(w))
  <2>1. PICK p \in Review : \E j \in DOMAIN runs'[p] :
          runs'[p][j].outcome = "created" /\ f = <<p, runs'[p][j].gen>>
    BY <1>6 DEF Created
  <2>2. PICK j \in DOMAIN runs'[p] : runs'[p][j].outcome = "created" /\ f = <<p, runs'[p][j].gen>>
    BY <2>1
  <2>3. CASE p # r
    BY <1>4, <2>2, <2>3 DEF Created
  <2>4. CASE p = r /\ j \in DOMAIN runs[r]
    BY <1>4, <2>2, <2>4 DEF Created
  <2>5. CASE p = r /\ j = Len(runs[r]) + 1
    BY <1>4, <1>5, <2>2, <2>5
  <2> QED
    BY <1>4, <2>2, <2>3, <2>4, <2>5
<1>7. ASSUME Created(f) PROVE Created(f)'
  <2>1. PICK p \in Review : \E j \in DOMAIN runs[p] :
          runs[p][j].outcome = "created" /\ f = <<p, runs[p][j].gen>>
    BY <1>7 DEF Created
  <2>2. PICK j \in DOMAIN runs[p] : runs[p][j].outcome = "created" /\ f = <<p, runs[p][j].gen>>
    BY <2>1
  <2>3. j \in DOMAIN runs'[p] /\ runs'[p][j] = runs[p][j]
    BY <1>4, <2>2
  <2> QED
    BY <2>2, <2>3 DEF Created
<1>8. ASSUME outcome = "created", f = FileOf(w) PROVE Created(f)'
  BY <1>4, <1>5, <1>8 DEF Created
<1> QED
  BY <1>6, <1>7, <1>8

LEMMA CommitKeepsArchive ==
  ASSUME TypeOK, LeaseInv, GrantsFresh, TargetsApproved, ArchiveFacts, ApprovalsKept,
         NEW w \in Worker, CommitArchive(w)
  PROVE  ArchiveFacts'
<1>1. PICK d : d = [game |-> GameOf[task[w].review], sha |-> task[w].sha, lang |-> LangOf[task[w].review],
                    official |-> task[w].review \in Official, file |-> FileOf(w)]
  OBVIOUS
<1>2. d.game = GameOf[task[w].review] /\ d.sha = task[w].sha /\ d.file = FileOf(w)
  BY <1>1
<1>3. /\ documents' = documents \cup {d} /\ jobs' = jobs \cup {FileOf(w)} /\ UNCHANGED <<files, crashes>>
      /\ task[w].pc = "staged" /\ ~Duplicate(GameOf[task[w].review], task[w].sha) /\ Return(w)
      /\ \E failures, nextCheck : Complete(w, "created", failures, nextCheck)
  BY <1>1 DEF CommitArchive, faultVars
<1>4. task[w].pc \in Executing /\ FileOf(w) \in files /\ FileOf(w) \in FileId /\ ~Created(FileOf(w))
  BY <1>3, PhaseFacts, OwnFile DEF ArchiveFacts
<1>5. \A f : Created(f)' <=> Created(f) \/ f = FileOf(w)
  BY <1>3, <1>4, CompletionCreates DEF Outcome
<1>6. \A f : Archived(f)' <=> Archived(f) \/ f = FileOf(w)
  BY <1>2, <1>3 DEF Archived
<1>7. \A v \in Worker : task'[v].pc = "staged" => v # w /\ task'[v] = task[v] /\ FileOf(v)' = FileOf(v)
  BY <1>3, PhaseFacts DEF Return, TypeOK, FileOf
<1>8. \A v \in Worker : v # w /\ task[v].pc = "staged" => task'[v].pc = "staged" /\ FileOf(v)' = FileOf(v)
  BY <1>3 DEF Return, TypeOK, FileOf
<1>9. ContentArchivedOnce'
  <2>1. \A e \in documents : e.game = d.game => e.sha # d.sha
    BY <1>2, <1>3 DEF Duplicate
  <2> QED
    BY <1>3, <2>1 DEF ArchiveFacts, ContentArchivedOnce
<1>10. OnlyApprovedArchived'
  <2> SUFFICES ASSUME NEW e \in documents', e.file # NoFile
               PROVE  review'[e.file[1]] = "approved"
    BY DEF OnlyApprovedArchived
  <2>1. CASE e \in documents
    <3>1. e.file[1] \in Review
      BY <2>1 DEF TypeOK, Document, FileId
    <3> QED
      BY <2>1, <3>1 DEF ArchiveFacts, OnlyApprovedArchived, ApprovalsKept
  <2>2. CASE e = d
    <3>1. task[w].review \in Review /\ task[w].review \in targets /\ e.file[1] = task[w].review
      BY <1>2, <1>4, <2>2, TaskTypes, PhaseFacts DEF FileOf
    <3> QED
      BY <3>1 DEF TargetsApproved, ApprovalsKept
  <2> QED
    BY <1>3, <2>1, <2>2
<1>11. \A f \in FileId : /\ Archived(f)' <=> Created(f)'
                         /\ Archived(f)' <=> f \in jobs'
                         /\ Archived(f)' => f \in files'
  BY <1>3, <1>4, <1>5, <1>6 DEF ArchiveFacts
<1>12. \A v \in Worker : task'[v].pc = "staged" => FileOf(v)' \in files'
  BY <1>3, <1>7 DEF ArchiveFacts
<1>13. crashes' = 0 => \A f \in files' :
         Archived(f)' \/ \E v \in Worker : task'[v].pc = "staged" /\ f = FileOf(v)'
  <2> SUFFICES ASSUME crashes' = 0, NEW f \in files, ~Archived(f), f # FileOf(w)
               PROVE  \E v \in Worker : task'[v].pc = "staged" /\ f = FileOf(v)'
    BY <1>3, <1>6
  <2>1. PICK v \in Worker : task[v].pc = "staged" /\ f = FileOf(v)
    BY <1>3 DEF ArchiveFacts
  <2> QED
    BY <1>8, <2>1
<1> QED
  BY <1>9, <1>10, <1>11, <1>12, <1>13 DEF ArchiveFacts

\* An upload brings a document, but no file of a scheduled archive.
LEMMA UploadKeepsArchive ==
  ASSUME TypeOK, ArchiveFacts, ApprovalsKept, NEW u \in Uploads, UploadDocument(u)
  PROVE  ArchiveFacts'
<1>1. PICK d : d = [game |-> u.game, sha |-> u.sha, lang |-> u.lang, official |-> u.official, file |-> NoFile]
  OBVIOUS
<1>2. /\ d.game = u.game /\ d.sha = u.sha /\ d.file = NoFile
      /\ documents' = documents \cup {d} /\ UNCHANGED <<files, jobs, runs, task, crashes>>
      /\ ~Duplicate(u.game, u.sha)
  BY <1>1 DEF UploadDocument, faultVars
<1>3. \A f \in FileId : Archived(f)' <=> Archived(f)
  BY <1>2, NamesAssumption DEF Archived
<1>4. \A f : Created(f)' <=> Created(f)
  BY <1>2 DEF Created
<1>5. \A w \in Worker : FileOf(w)' = FileOf(w)
  BY <1>2 DEF FileOf
<1>6. ContentArchivedOnce'
  <2>1. \A e \in documents : e.game = d.game => e.sha # d.sha
    BY <1>2 DEF Duplicate
  <2> QED
    BY <1>2, <2>1 DEF ArchiveFacts, ContentArchivedOnce
<1>7. OnlyApprovedArchived'
  <2> SUFFICES ASSUME NEW e \in documents', e.file # NoFile
               PROVE  review'[e.file[1]] = "approved"
    BY DEF OnlyApprovedArchived
  <2>1. e \in documents /\ e.file[1] \in Review
    BY <1>2 DEF TypeOK, Document, FileId
  <2> QED
    BY <2>1 DEF ArchiveFacts, OnlyApprovedArchived, ApprovalsKept
<1>8. files \subseteq FileId
  BY DEF TypeOK
<1> QED
  BY <1>2, <1>3, <1>4, <1>5, <1>6, <1>7, <1>8 DEF ArchiveFacts

LEMMA QueueRests ==
  ASSUME TypeOK, NEW r \in Review,
         \/ Submit(r) \/ Corrupt(r) \/ EnsureTarget(r)
         \/ \E decision \in {"approved", "rejected"} : Decide(r, decision)
         \/ \E enabled \in BOOLEAN, interval \in Intervals :
              ConfigureTarget(r, enabled, interval)
  PROVE  ArchiveRests
<1>1. UNCHANGED <<documents, files, jobs, runs, task, crashes>>
  BY DEF Submit, Corrupt, EnsureTarget, Decide, ConfigureTarget, archiveVars, faultVars
<1> QED
  BY <1>1 DEF ArchiveRests, Created

\* A worker that neither was nor becomes staged.
LEMMA OtherRests ==
  ASSUME TypeOK, NEW w \in Worker, UNCHANGED <<documents, files, jobs, crashes>>,
         \A f : Created(f)' <=> Created(f),
         task[w].pc # "staged", task'[w].pc # "staged", \A v \in Worker \ {w} : task'[v] = task[v]
  PROVE  ArchiveRests
<1>1. \A v \in Worker : (task'[v].pc = "staged" \/ task[v].pc = "staged") => task'[v] = task[v]
  OBVIOUS
<1> QED
  BY <1>1 DEF ArchiveRests

LEMMA ClaimRests ==
  ASSUME TypeOK, NEW w \in Worker,
         \/ \E r \in Review : (\E at \in Read(w) : ClaimDue(w, r, at)) \/ RequestRun(w, r)
         \/ ClaimReviewTarget(w) \/ RunBusy(w)
  PROVE  ArchiveRests
<1>1. UNCHANGED <<documents, files, jobs, runs, crashes>>
  BY DEF ClaimDue, RequestRun, ClaimReviewTarget, RunBusy, archiveVars, faultVars
<1>2. task[w].pc # "staged"
  BY DEF ClaimDue, RequestRun, ClaimReviewTarget, RunBusy
<1>3. task'[w].pc # "staged" /\ \A v \in Worker \ {w} : task'[v] = task[v]
  <2>1. ASSUME NEW t, t.pc # "staged", task' = [task EXCEPT ![w] = t]
        PROVE  task'[w].pc # "staged" /\ \A v \in Worker \ {w} : task'[v] = task[v]
    BY <2>1 DEF TypeOK
  <2>2. ASSUME NEW r, NEW at, Grant(w, r, at)
        PROVE  task'[w].pc # "staged" /\ \A v \in Worker \ {w} : task'[v] = task[v]
    <3>1. PICK t : t = [Idle(now) EXCEPT !.pc = "claimed", !.review = r, !.grant = row[r].gen + 1]
      OBVIOUS
    <3>2. t.pc # "staged" /\ task' = [task EXCEPT ![w] = t]
      BY <2>2, <3>1 DEF Grant, Idle
    <3> QED
      BY <2>1, <3>2
  <2>3. ASSUME NEW r \in Review, RequestRun(w, r)
        PROVE  task'[w].pc # "staged" /\ \A v \in Worker \ {w} : task'[v] = task[v]
    <3>1. PICK t : t = [Idle(now) EXCEPT !.pc = "requested", !.review = r]
      OBVIOUS
    <3>2. t.pc # "staged" /\ task' = [task EXCEPT ![w] = t]
      BY <2>3, <3>1 DEF RequestRun, Idle
    <3> QED
      BY <2>1, <3>2
  <2>4. CASE RunBusy(w)
    BY <2>1, <2>4, PhaseFacts DEF RunBusy, Return
  <2> QED
    BY <2>2, <2>3, <2>4 DEF ClaimDue, ClaimReviewTarget
<1>4. \A f : Created(f)' <=> Created(f)
  BY <1>1 DEF Created
<1> QED
  BY <1>1, <1>2, <1>3, <1>4, OtherRests

LEMMA ExecuteArchive ==
  ASSUME TypeOK, LeaseInv, GrantsFresh, TargetsApproved, ArchiveFacts, ApprovalsKept,
         NEW w \in Worker, Execute(w)
  PROVE  ArchiveFacts'
<1>1. ASSUME \/ Return(w)
             \/ \E phase \in {"fetching", "invalid", "unchanged", "failing"} : Goto(w, phase)
             \/ \E sha : task' = [task EXCEPT ![w].pc = "fetched", ![w].sha = sha, ![w].at = now]
             \/ \E gen, failures :
                  task' = [task EXCEPT ![w].pc = "validating", ![w].gen = gen,
                                       ![w].failures = failures, ![w].at = now]
      PROVE  task'[w].pc # "staged" /\ \A v \in Worker \ {w} : task'[v] = task[v]
  <2>1. task \in [Worker -> Task]
    BY DEF TypeOK
  <2>2. CASE Return(w)
    BY <2>1, <2>2, PhaseFacts DEF Return
  <2>3. CASE \E phase \in {"fetching", "invalid", "unchanged", "failing"} : Goto(w, phase)
    BY <2>1, <2>3 DEF Goto, Task
  <2>4. CASE \E sha : task' = [task EXCEPT ![w].pc = "fetched", ![w].sha = sha, ![w].at = now]
    BY <2>1, <2>4 DEF Task
  <2>5. CASE \E gen, failures :
               task' = [task EXCEPT ![w].pc = "validating", ![w].gen = gen,
                                    ![w].failures = failures, ![w].at = now]
    BY <2>1, <2>5 DEF Task
  <2> QED
    BY <1>1, <2>2, <2>3, <2>4, <2>5
<1>2. CASE runs' = runs /\ UNCHANGED <<documents, files, jobs, crashes>> /\ task[w].pc # "staged"
           /\ task'[w].pc # "staged" /\ \A v \in Worker \ {w} : task'[v] = task[v]
  <2>1. \A f : Created(f)' <=> Created(f)
    BY <1>2 DEF Created
  <2> QED
    BY <1>2, <2>1, OtherRests, RestKeepsArchive
<1>3. CASE BeginExecute(w) \/ ValidateReview(w) \/ FetchSuperseded(w) \/ FetchFailed(w)
           \/ \E sha \in Sha : FetchSucceeded(w, sha)
  <2>1. UNCHANGED <<runs, documents, files, jobs, crashes>> /\ task[w].pc # "staged"
    BY <1>3 DEF BeginExecute, ValidateReview, FetchSuperseded, FetchFailed, FetchSucceeded, archiveVars, faultVars
  <2>2. \/ Return(w)
        \/ \E phase \in {"fetching", "invalid", "unchanged", "failing"} : Goto(w, phase)
        \/ \E sha : task' = [task EXCEPT ![w].pc = "fetched", ![w].sha = sha, ![w].at = now]
        \/ \E gen, failures :
             task' = [task EXCEPT ![w].pc = "validating", ![w].gen = gen,
                                  ![w].failures = failures, ![w].at = now]
    BY <1>3 DEF BeginExecute, ValidateReview, FetchSuperseded, FetchFailed, FetchSucceeded
  <2> QED
    BY <1>1, <1>2, <2>1, <2>2
<1>4. CASE PersistPreflightFailure(w) \/ FinalizeFailure(w) \/ FinalizeUnchanged(w)
  <2>1. /\ UNCHANGED <<documents, files, jobs, crashes>> /\ Return(w)
        /\ task[w].pc \in {"invalid", "failing", "unchanged"}
        /\ \/ runs' = runs
           \/ \E outcome \in {"failed", "unchanged"} :
                \E failures, nextCheck : Complete(w, outcome, failures, nextCheck)
    BY <1>4 DEF PersistPreflightFailure, FinalizeFailure, FinalizeUnchanged, archiveVars, faultVars
  <2>2. \A f : Created(f)' <=> Created(f)
    <3>1. CASE runs' = runs
      BY <3>1 DEF Created
    <3>2. ASSUME NEW outcome \in {"failed", "unchanged"},
                 \E failures, nextCheck : Complete(w, outcome, failures, nextCheck)
          PROVE  \A f : Created(f)' <=> Created(f)
      <4>1. outcome \in Outcome /\ outcome # "created" /\ task[w].pc \in Executing
        BY <2>1, PhaseFacts DEF Outcome
      <4> QED
        BY <3>2, <4>1, CompletionCreates
    <3> QED
      BY <2>1, <3>1, <3>2
  <2> QED
    BY <1>1, <2>1, <2>2, OtherRests, RestKeepsArchive
<1>5. CASE StageArchive(w)
  <2>1. CASE Goto(w, "unchanged") /\ UNCHANGED files
    <3>1. task'[w].pc # "staged" /\ \A v \in Worker \ {w} : task'[v] = task[v]
      BY <1>1, <2>1
    <3> QED
      BY <1>2, <1>5, <2>1, <3>1 DEF StageArchive, faultVars
  <2>2. CASE Goto(w, "staged") /\ files' = files \cup {FileOf(w)}
    BY <1>5, <2>2, StagingKeepsArchive DEF StageArchive, faultVars
  <2> QED
    BY <1>5, <2>1, <2>2 DEF StageArchive
<1>6. CASE ArchiveDuplicate(w) \/ ArchiveSuperseded(w) \/ ArchiveFailed(w)
  <2>1. /\ task[w].pc \in Executing /\ files' = files \ {FileOf(w)}
        /\ UNCHANGED <<documents, jobs, runs, crashes>>
    BY <1>6, PhaseFacts DEF ArchiveDuplicate, ArchiveSuperseded, ArchiveFailed, faultVars
  <2>2. task'[w].pc # "staged" /\ \A v \in Worker \ {w} : task'[v] = task[v]
    <3>1. Goto(w, "unchanged") \/ Return(w) \/ Goto(w, "failing")
      BY <1>6 DEF ArchiveDuplicate, ArchiveSuperseded, ArchiveFailed
    <3> QED
      BY <1>1, <3>1
  <2> QED
    BY <2>1, <2>2, RemovalKeepsArchive
<1>7. CASE CommitArchive(w)
  BY <1>7, CommitKeepsArchive
<1> QED
  BY <1>3, <1>4, <1>5, <1>6, <1>7 DEF Execute

LEMMA OtherArchive ==
  ASSUME TypeOK, LeaseInv, GrantsFresh, ArchiveFacts, ApprovalsKept,
         \/ \E w \in Worker : RenewLease(w) \/ Escape(w)
         \/ Crash \/ Tick \/ UNCHANGED vars
  PROVE  ArchiveFacts'
<1>1. CASE Tick \/ UNCHANGED vars
  <2>1. ArchiveRests
    BY <1>1 DEF Tick, vars, archiveVars, faultVars, ArchiveRests, Created
  <2> QED
    BY <2>1, RestKeepsArchive
<1>2. CASE Crash
  <2>1. crashes \in Nat
    BY DEF TypeOK
  <2>2. /\ crashes' # 0 /\ UNCHANGED <<documents, files, jobs, runs>>
        /\ \A w \in Worker : task'[w].pc # "staged"
    BY <1>2, <2>1, PhaseFacts DEF Crash, archiveVars
  <2>3. ArchiveRests
    BY <2>2 DEF ArchiveRests, Created
  <2> QED
    BY <2>3, RestKeepsArchive
<1>3. ASSUME NEW w \in Worker, RenewLease(w) PROVE ArchiveFacts'
  <2>1. UNCHANGED <<documents, files, jobs, runs, crashes>>
    BY <1>3 DEF RenewLease, archiveVars, faultVars
  <2>2. \A v \in Worker : /\ task'[v].pc = task[v].pc /\ task'[v].review = task[v].review
                          /\ task'[v].gen = task[v].gen
    <3>1. CASE task' = task
      BY <3>1
    <3>2. CASE task' = [task EXCEPT ![w].lost = TRUE]
      BY <3>2 DEF TypeOK, Task
    <3> QED
      BY <1>3, <3>1, <3>2 DEF RenewLease
  <2>3. ArchiveRests
    BY <2>1, <2>2 DEF ArchiveRests, Created
  <2> QED
    BY <2>3, RestKeepsArchive
<1>4. ASSUME NEW w \in Worker, Escape(w) PROVE ArchiveFacts'
  <2>1. /\ UNCHANGED <<documents, jobs, runs, crashes>> /\ Return(w)
        /\ files' = IF task[w].pc = "staged" THEN files \ {FileOf(w)} ELSE files
    BY <1>4 DEF Escape
  <2>2. task'[w].pc # "staged" /\ \A v \in Worker \ {w} : task'[v] = task[v]
    BY <2>1, PhaseFacts DEF Return, TypeOK
  <2>3. CASE task[w].pc = "staged"
    BY <2>1, <2>2, <2>3, PhaseFacts, RemovalKeepsArchive
  <2>4. CASE task[w].pc # "staged"
    <3>1. \A f : Created(f)' <=> Created(f)
      BY <2>1 DEF Created
    <3> QED
      BY <2>1, <2>2, <2>4, <3>1, OtherRests, RestKeepsArchive
  <2> QED
    BY <2>3, <2>4
<1> QED
  BY <1>1, <1>2, <1>3, <1>4

LEMMA StepArchive ==
  ASSUME TypeOK, LeaseInv, GrantsFresh, TargetsApproved, ArchiveFacts, [Next]_vars
  PROVE  ArchiveFacts'
<1>1. ApprovalsKept
  BY StepKept DEF TargetsKept, ApprovalsKept
<1> QED
  BY <1>1, QueueRests, ClaimRests, RestKeepsArchive, ExecuteArchive, OtherArchive, UploadKeepsArchive DEF Next

\* Document, "created" run, index job and file of a scheduled archive exist
\* together or not at all; a game has no content twice; a file nobody refers to
\* is being archived or was left by a crash; and only approved items are
\* archived (RulebookUpdates!ArchiveInv).
THEOREM ArchiveConsistent == Spec => []ArchiveInv
<1>1. Init => ArchiveFacts
  BY PhaseFacts
     DEF Init, ArchiveFacts, Archived, Created, ContentArchivedOnce, OnlyApprovedArchived
<1>2. TypeOK /\ LeaseInv /\ GrantsFresh /\ TargetsApproved /\ ArchiveFacts /\ [Next]_vars => ArchiveFacts'
  BY StepArchive
<1>3. TypeOK /\ ArchiveFacts => ArchiveInv
  BY FactsGiveArchive
<1> QED
  BY <1>1, <1>2, <1>3, TypeCorrect, LeaseInvariant, ApprovedInvariant, PTL DEF Spec

-----------------------------------------------------------------------------
(* A check ends: a measure that every step of a worker lowers *)

PhaseLeft(phase) ==
  CASE phase = "idle"       -> 0
    [] phase = "requested"  -> 9
    [] phase = "claimed"    -> 7
    [] phase = "validating" -> 6
    [] phase = "fetching"   -> 5
    [] phase = "fetched"    -> 4
    [] phase = "staged"     -> 3
    [] phase = "unchanged"  -> 2
    [] phase \in {"invalid", "failing"} -> 1

\* The steps a check may still take; the heartbeat finds the lease lost at most once.
StepsLeft(t) ==
  IF t.pc = "idle" THEN 0 ELSE PhaseLeft(t.pc) + (IF t.lost THEN 0 ELSE 1)

CheckAdvances ==
  \A w \in Worker : task[w].pc # "idle" =>
    task'[w] = task[w] \/ StepsLeft(task'[w]) < StepsLeft(task[w])

LEMMA StepsLeftBound == ASSUME NEW t \in Task PROVE StepsLeft(t) \in 0..10
<1>1. t.pc \in Phase /\ t.lost \in BOOLEAN
  BY DEF Task
<1>2. PhaseLeft(t.pc) \in 0..9
  BY <1>1 DEF PhaseLeft, Phase
<1> QED
  BY <1>1, <1>2 DEF StepsLeft

\* A worker that moves on to a later phase, or stops, is nearer to the end.
LEMMA MovedOn ==
  ASSUME NEW s \in Task, NEW t \in Task, s.pc # "idle",
         t.pc = "idle" \/ (PhaseLeft(t.pc) < PhaseLeft(s.pc) /\ t.lost = s.lost)
  PROVE  StepsLeft(t) < StepsLeft(s)
<1>1. s.pc \in Phase /\ t.pc \in Phase /\ s.lost \in BOOLEAN
  BY DEF Task
<1>2. PhaseLeft(s.pc) \in 1..9 /\ PhaseLeft(t.pc) \in 0..9
  BY <1>1 DEF PhaseLeft, Phase
<1>3. CASE t.pc = "idle"
  BY <1>1, <1>2, <1>3 DEF StepsLeft
<1>4. CASE t.pc # "idle"
  BY <1>1, <1>2, <1>4 DEF StepsLeft
<1> QED
  BY <1>3, <1>4

LEMMA ExecuteAdvances ==
  ASSUME TypeOK, TasksOnTargets, NEW w \in Worker, Execute(w)
  PROVE  /\ task[w].pc # "idle"
         /\ task'[w].pc = "idle"
              \/ (PhaseLeft(task'[w].pc) < PhaseLeft(task[w].pc) /\ task'[w].lost = task[w].lost)
         /\ \A v \in Worker \ {w} : task'[v] = task[v]
<1>0. task \in [Worker -> Task] /\ task[w] \in Task
  BY DEF TypeOK
<1>1. CASE \/ PersistPreflightFailure(w) \/ FetchSuperseded(w) \/ CommitArchive(w)
           \/ ArchiveSuperseded(w) \/ FinalizeFailure(w) \/ FinalizeUnchanged(w)
  BY <1>0, <1>1 DEF PersistPreflightFailure, FetchSuperseded, CommitArchive, ArchiveSuperseded,
                    FinalizeFailure, FinalizeUnchanged, Return, Idle
<1>2. ASSUME NEW phase, PhaseLeft(phase) < PhaseLeft(task[w].pc), task[w].pc # "idle",
             \/ Goto(w, phase)
             \/ \E sha : task' = [task EXCEPT ![w].pc = phase, ![w].sha = sha, ![w].at = now]
             \/ \E gen, failures :
                  task' = [task EXCEPT ![w].pc = phase, ![w].gen = gen,
                                       ![w].failures = failures, ![w].at = now]
      PROVE  /\ task[w].pc # "idle"
             /\ PhaseLeft(task'[w].pc) < PhaseLeft(task[w].pc) /\ task'[w].lost = task[w].lost
             /\ \A v \in Worker \ {w} : task'[v] = task[v]
  <2>1. CASE Goto(w, phase)
    BY <1>0, <1>2, <2>1 DEF Goto, Task
  <2>2. CASE \E sha : task' = [task EXCEPT ![w].pc = phase, ![w].sha = sha, ![w].at = now]
    <3>1. PICK sha : task' = [task EXCEPT ![w].pc = phase, ![w].sha = sha, ![w].at = now]
      BY <2>2
    <3>2. task'[w].pc = phase /\ task'[w].lost = task[w].lost
      BY <1>0, <3>1 DEF Task
    <3>3. \A v \in Worker \ {w} : task'[v] = task[v]
      BY <1>0, <3>1
    <3> QED
      BY <1>2, <3>2, <3>3
  <2>3. CASE \E gen, failures :
               task' = [task EXCEPT ![w].pc = phase, ![w].gen = gen,
                                    ![w].failures = failures, ![w].at = now]
    <3>1. PICK gen, failures :
            task' = [task EXCEPT ![w].pc = phase, ![w].gen = gen,
                                 ![w].failures = failures, ![w].at = now]
      BY <2>3
    <3>2. task'[w].pc = phase /\ task'[w].lost = task[w].lost
      BY <1>0, <3>1 DEF Task
    <3>3. \A v \in Worker \ {w} : task'[v] = task[v]
      BY <1>0, <3>1
    <3> QED
      BY <1>2, <3>2, <3>3
  <2> QED
    BY <1>2, <2>1, <2>2, <2>3
<1>3. CASE BeginExecute(w)
  <2>1. task[w].pc = "claimed" /\ PhaseLeft("validating") < PhaseLeft(task[w].pc)
    BY <1>3 DEF BeginExecute, PhaseLeft
  <2>2. CASE Return(w)
    BY <1>0, <2>1, <2>2 DEF Return, Idle
  <2>3. CASE ~ Return(w)
    BY <1>2, <1>3, <2>1, <2>3 DEF BeginExecute
  <2> QED
    BY <2>2, <2>3
<1>4. CASE ValidateReview(w)
  <2>1. /\ task[w].pc = "validating" /\ PhaseLeft("fetching") < PhaseLeft(task[w].pc)
        /\ PhaseLeft("invalid") < PhaseLeft(task[w].pc)
    BY <1>4 DEF ValidateReview, PhaseLeft
  <2>2. Goto(w, "fetching") \/ Goto(w, "invalid")
    BY <1>4 DEF ValidateReview
  <2> QED
    BY <1>2, <2>1, <2>2
<1>5. CASE FetchFailed(w) \/ ArchiveFailed(w)
  <2>1. task[w].pc \in {"fetching", "fetched", "staged"} /\ Goto(w, "failing")
    BY <1>5 DEF FetchFailed, ArchiveFailed
  <2>2. PhaseLeft("failing") < PhaseLeft(task[w].pc)
    BY <2>1 DEF PhaseLeft
  <2> QED
    BY <1>2, <2>1, <2>2
<1>6. ASSUME NEW sha \in Sha, FetchSucceeded(w, sha)
      PROVE  /\ task[w].pc # "idle"
             /\ PhaseLeft(task'[w].pc) < PhaseLeft(task[w].pc) /\ task'[w].lost = task[w].lost
             /\ \A v \in Worker \ {w} : task'[v] = task[v]
  <2>1. /\ task[w].pc = "fetching"
        /\ task' = [task EXCEPT ![w].pc = "fetched", ![w].sha = sha, ![w].at = now]
    BY <1>6 DEF FetchSucceeded
  <2>2. PhaseLeft("fetched") < PhaseLeft(task[w].pc)
    BY <2>1 DEF PhaseLeft
  <2> QED
    BY <1>2, <2>1, <2>2
<1>7. CASE StageArchive(w)
  <2>1. task[w].pc = "fetched" /\ (Goto(w, "unchanged") \/ Goto(w, "staged"))
    BY <1>7 DEF StageArchive
  <2>2. /\ PhaseLeft("unchanged") < PhaseLeft(task[w].pc)
        /\ PhaseLeft("staged") < PhaseLeft(task[w].pc)
    BY <2>1 DEF PhaseLeft
  <2> QED
    BY <1>2, <2>1, <2>2
<1>8. CASE ArchiveDuplicate(w)
  <2>1. task[w].pc = "staged" /\ Goto(w, "unchanged")
    BY <1>8 DEF ArchiveDuplicate
  <2>2. PhaseLeft("unchanged") < PhaseLeft(task[w].pc)
    BY <2>1 DEF PhaseLeft
  <2> QED
    BY <1>2, <2>1, <2>2
<1> QED
  BY <1>1, <1>3, <1>4, <1>5, <1>6, <1>7, <1>8 DEF Execute

LEMMA StepAdvances ==
  TypeOK /\ TasksOnTargets /\ TypeOK' /\ [Next]_vars => [CheckAdvances]_vars
<1> SUFFICES ASSUME TypeOK, TasksOnTargets, TypeOK', [Next]_vars PROVE CheckAdvances
  OBVIOUS
<1>0. task \in [Worker -> Task] /\ task' \in [Worker -> Task]
  BY DEF TypeOK
<1>1. CASE UNCHANGED task
  BY <1>1 DEF CheckAdvances
<1>2. ASSUME NEW w \in Worker, \A v \in Worker \ {w} : task'[v] = task[v],
             task[w].pc = "idle" \/ StepsLeft(task'[w]) < StepsLeft(task[w])
      PROVE  CheckAdvances
  BY <1>2 DEF CheckAdvances
<1>3. ASSUME NEW w \in Worker, Execute(w) PROVE CheckAdvances
  <2>1. StepsLeft(task'[w]) < StepsLeft(task[w])
    BY <1>0, <1>3, ExecuteAdvances, MovedOn
  <2> QED
    BY <1>2, <1>3, <2>1, ExecuteAdvances
<1>4. ASSUME NEW w \in Worker, NEW r \in Review,
             (\E at \in Read(w) : ClaimDue(w, r, at)) \/ RequestRun(w, r)
      PROVE  CheckAdvances
  <2>1. task[w].pc = "idle" /\ \A v \in Worker \ {w} : task'[v] = task[v]
    BY <1>0, <1>4 DEF ClaimDue, RequestRun, Grant
  <2> QED
    BY <1>2, <2>1
<1>5. ASSUME NEW w \in Worker, ClaimReviewTarget(w) PROVE CheckAdvances
  <2>1. /\ task[w].pc = "requested" /\ task'[w].pc = "claimed"
        /\ \A v \in Worker \ {w} : task'[v] = task[v]
    BY <1>0, <1>5 DEF ClaimReviewTarget, Grant, Idle
  <2>2. StepsLeft(task[w]) >= 9 /\ StepsLeft(task'[w]) <= 8
    BY <1>0, <2>1 DEF StepsLeft, PhaseLeft
  <2>3. StepsLeft(task[w]) \in Int /\ StepsLeft(task'[w]) \in Int
    BY <1>0, StepsLeftBound
  <2>4. StepsLeft(task'[w]) < StepsLeft(task[w])
    BY <2>2, <2>3
  <2> QED
    BY <1>2, <2>1, <2>4
<1>6. ASSUME NEW w \in Worker, RunBusy(w) \/ Escape(w) PROVE CheckAdvances
  <2>1. /\ task[w].pc # "idle" /\ task'[w].pc = "idle"
        /\ \A v \in Worker \ {w} : task'[v] = task[v]
    BY <1>0, <1>6 DEF RunBusy, Escape, Return, Idle
  <2> QED
    BY <1>0, <1>2, <2>1, MovedOn
<1>7. ASSUME NEW w \in Worker, RenewLease(w) PROVE CheckAdvances
  <2>1. task[w].pc \in Beating /\ ~task[w].lost
    BY <1>7 DEF RenewLease
  <2>2. CASE task' = [task EXCEPT ![w].lost = TRUE]
    <3>1. /\ task'[w].pc = task[w].pc /\ task'[w].lost
          /\ \A v \in Worker \ {w} : task'[v] = task[v]
      BY <1>0, <2>2 DEF Task
    <3>2. PhaseLeft(task[w].pc) \in 0..9 /\ task[w].pc # "idle"
      BY <2>1 DEF Beating, PhaseLeft
    <3>3. StepsLeft(task'[w]) < StepsLeft(task[w])
      BY <2>1, <3>1, <3>2 DEF StepsLeft
    <3> QED
      BY <1>2, <3>1, <3>3
  <2> QED
    BY <1>1, <1>7, <2>2 DEF RenewLease
<1>8. CASE Crash
  <2>1. \A w \in Worker : task'[w].pc = "idle"
    BY <1>8 DEF Crash, Idle
  <2> QED
    BY <1>0, <2>1, MovedOn DEF CheckAdvances
<1>9. CASE \/ \E r \in Review :
                \/ Submit(r)
                \/ \E decision \in {"approved", "rejected"} : Decide(r, decision)
                \/ Corrupt(r)
                \/ EnsureTarget(r)
                \/ \E enabled \in BOOLEAN, interval \in Intervals :
                     ConfigureTarget(r, enabled, interval)
           \/ \E u \in Uploads : UploadDocument(u)
           \/ Tick
  BY <1>1, <1>9 DEF Submit, Decide, Corrupt, EnsureTarget, ConfigureTarget, UploadDocument, Tick
<1>10. CASE UNCHANGED vars
  BY <1>1, <1>10 DEF vars
<1> QED
  BY <1>3, <1>4, <1>5, <1>6, <1>7, <1>8, <1>9, <1>10 DEF Next

\* A check cannot go on for ever, whatever is fetched, archived or lost under it: every
\* step that changes a worker lowers the number of steps it has left, at most ten
\* (run_due, run_review_now, _execute_leased and the heartbeat).  (That it does take
\* its steps is fairness, and left to the run: ScheduledChecked.)
THEOREM ChecksAdvance ==
  Spec => [](\A w \in Worker : StepsLeft(task[w]) \in 0..10) /\ [][CheckAdvances]_vars
<1> DEFINE IInv == TypeOK /\ TasksOnTargets
<1>1. Init => IInv
  BY InitTypes, InitTasks
<1>2. IInv /\ [Next]_vars => IInv' /\ [CheckAdvances]_vars
  BY StepTypes, StepTasks, StepAdvances
<1>3. IInv => \A w \in Worker : StepsLeft(task[w]) \in 0..10
  BY StepsLeftBound DEF TypeOK
<1> QED
  BY <1>1, <1>2, <1>3, PTL DEF Spec

=============================================================================
