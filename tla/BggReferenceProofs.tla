-------------------------- MODULE BggReferenceProofs --------------------------
(***************************************************************************)
(* Theorems of BggReference for every catalog, batch, budget and length of *)
(* a day: what one run after the other keeps, wherever it is interrupted.  *)
(***************************************************************************)
EXTENDS BggReference, WellFoundedInduction, TLAPS

-----------------------------------------------------------------------------
(* Types *)

\* A check that lets a request through has found something of the budget.
SpendWithin == worker.pc = "spend" => budgetUsed < Budget

TypeInv == TypeOK /\ SpendWithin

\* A bounded set of numbers that is not empty has a largest element.
LEMMA LargestIn ==
  ASSUME NEW n \in Nat, NEW S \in SUBSET (0..n), S # {}
  PROVE  Largest(S) \in S /\ \A y \in S : y <= Largest(S)
<1> DEFINE R == {ss \in Nat \X Nat : ss[1] < ss[2]}
           T == {n - x : x \in S}
<1>1. IsWellFoundedOn(R, Nat)
  BY NatLessThanWellFounded DEF OpToRel
<1>2. T \subseteq Nat
  OBVIOUS
<1>3. T # {}
  <2>1. PICK x \in S : TRUE
    OBVIOUS
  <2>2. n - x \in T
    BY <2>1
  <2> QED
    BY <2>2
<1>4. \E t \in T : \A u \in T : ~ (<<u, t>> \in R)
  <2> HIDE DEF R, T
  <2> QED
    BY <1>1, <1>2, <1>3, WFMin
<1>5. PICK t \in T : \A u \in T : ~ (<<u, t>> \in R)
  BY <1>4
<1>6. \A u \in T : ~(u < t)
  BY <1>2, <1>5
<1>7. \A y \in S : y <= n - t
  <2> TAKE y \in S
  <2>1. n - y \in T /\ ~(n - y < t)
    BY <1>6
  <2> QED
    BY <2>1, <1>2
<1>8. n - t \in S
  BY <1>2
<1> QED
  BY <1>7, <1>8 DEF Largest

\* The cursor together with IDs.
LEMMA LargestCursor ==
  ASSUME NEW c \in Nat, NEW S \in SUBSET Ids
  PROVE  /\ Largest({c} \cup S) \in {c} \cup S
         /\ Largest({c} \cup S) \in Nat
         /\ \A y \in {c} \cup S : y <= Largest({c} \cup S)
<1>1. c + LastId \in Nat /\ {c} \cup S \in SUBSET (0..(c + LastId)) /\ {c} \cup S # {}
  BY SizeAssumption DEF Ids
<1>2. /\ Largest({c} \cup S) \in {c} \cup S
      /\ \A y \in {c} \cup S : y <= Largest({c} \cup S)
  BY <1>1, LargestIn
<1>3. {c} \cup S \subseteq Nat
  BY SizeAssumption DEF Ids
<1> QED
  BY <1>2, <1>3

LEMMA TodayNat == ASSUME now \in Nat PROVE Today \in Nat
BY TimeAssumption DEF Today

LEMMA TitleTypes == NewTitle \in Title /\ NoTitle \in Title
BY DEF NewTitle, NoTitle, Title

LEMMA AdmittedTypes ==
  ASSUME NEW t \in Title, NEW until \in Nat PROVE Admitted(t, until) \in Title
BY DEF Admitted, Title

LEMMA IdleTypes == Idle \in Worker
BY DEF Idle, Worker, Pc, Phase, Queues

\* The next check is a day of the cycle after today.
LEMMA NextCheckTypes ==
  ASSUME now \in Nat, NEW id \in Ids, NEW days \in Nat \ {0}
  PROVE  NextCheck(id, days) \in Nat /\ NextCheck(id, days) > now
<1> DEFINE rest == (Today + days + id) % days
<1>1. Today + days + id \in Nat
  BY TodayNat, SizeAssumption DEF Ids
<1>2. rest \in 0..(days - 1)
  BY <1>1
<1>3. days - rest \in Nat \ {0}
  BY <1>2
<1>4. \A n \in Nat \ {0} : n * DayTicks \in Nat \ {0}
  BY TimeAssumption
<1> HIDE DEF rest
<1>5. (days - rest) * DayTicks \in Nat \ {0}
  BY <1>3, <1>4
<1> QED
  BY <1>5 DEF NextCheck, rest

LEMMA AnswerTypes ==
  ASSUME TypeOK, NEW result \in Answers
  PROVE  /\ result.answer \subseteq worker.todo \cap listed
         /\ result.skipped \subseteq worker.todo \cap listed \cap Unreadable
         /\ result.answer \subseteq Ids /\ result.skipped \subseteq Ids
         /\ result.answer \cap result.skipped = {}
         /\ Seen(result.answer) \in [Ids -> Nat]
         /\ result.answer # {} =>
              worker.todo \cap listed = result.answer \cup result.skipped
<1>1. /\ result.answer \subseteq worker.todo \cap listed
      /\ result.skipped \subseteq worker.todo \cap listed \cap Unreadable
      /\ result.answer \cap result.skipped = {}
      /\ result.answer # {} =>
           worker.todo \cap listed = result.answer \cup result.skipped
  BY DEF Answers
<1> QED
  BY <1>1 DEF TypeOK, Worker, Seen

LEMMA InitTypes == Init => TypeInv
BY TitleTypes, IdleTypes, SizeAssumption, TitleAssumption
   DEF Init, TypeInv, TypeOK, SpendWithin, Idle

\* What a worker record may be changed to.
LEMMA WorkerTypes ==
  ASSUME NEW w \in Worker, NEW pc \in Pc, NEW phase \in Phase, NEW set \in SUBSET Ids,
         NEW day \in Nat
  PROVE  /\ [w EXCEPT !.pc = pc] \in Worker
         /\ [w EXCEPT !.pc = pc, !.todo = set] \in Worker
         /\ [w EXCEPT !.pc = pc, !.phase = phase] \in Worker
         /\ [w EXCEPT !.pc = pc, !.phase = phase, !.day = day] \in Worker
         /\ [w EXCEPT !.pc = pc, !.phase = phase, !.todo = set] \in Worker
BY DEF Worker

LEMMA ScanWorkerTypes ==
  ASSUME NEW w \in Worker, NEW pc \in Pc, NEW set \in SUBSET Ids, NEW answer \in SUBSET Ids,
         NEW seen \in [Ids -> Nat], NEW day \in Nat, NEW last \in Nat, NEW next \in Nat
  PROVE  /\ [w EXCEPT !.pc = pc, !.day = day, !.cursor = last,
                      !.next = next, !.todo = set] \in Worker
         /\ [w EXCEPT !.pc = pc, !.todo = set, !.cursor = last,
                      !.answer = answer, !.seen = seen] \in Worker
BY DEF Worker

LEMMA GotoTypes ==
  ASSUME TypeOK, NEW pc \in Pc, Goto(pc) PROVE worker' \in Worker /\ worker'.pc = pc
BY WorkerTypes DEF Goto, TypeOK, Worker

LEMMA CampaignTypes ==
  ASSUME TypeInv, NEW id \in DOMAIN CampaignEnd, MatchCampaign(id) PROVE TypeInv'
<1> USE DEF TypeInv, TypeOK, SpendWithin, Environment, budgetVars, bggVars, dayVars
<1>1. id \in Ids /\ CampaignEnd[id] \in Nat
  BY TitleAssumption
<1>2. worker' \in Worker /\ worker'.pc = "match"
  BY DEF MatchCampaign, Worker
<1>3. \A end \in Nat : Admitted(title[id], end + GraceTicks) \in Title
  BY <1>1, TimeAssumption, AdmittedTypes
<1>4. (IF CampaignEnd[id] > now THEN CampaignEnd[id] ELSE now) \in Nat
  BY <1>1
<1>5. title' \in [Ids -> Title]
  BY <1>1, <1>3, <1>4 DEF MatchCampaign
<1> QED
  BY <1>2, <1>5 DEF MatchCampaign

LEMMA BeginTypes == ASSUME TypeInv, RunOnce \/ BeginHot PROVE TypeInv'
<1> USE DEF TypeInv, TypeOK, SpendWithin, Environment, Catalog, bggVars, budgetVars, dayVars
<1>1. Idle.pc = "idle" /\ Today \in Nat
  BY TodayNat DEF Idle
<1>2. DOMAIN CampaignEnd \subseteq Ids
  BY TitleAssumption
<1>3. CASE RunOnce
  <2>1. worker' \in Worker
    BY <1>2, <1>3, IdleTypes DEF RunOnce, Worker, Pc
  <2>2. worker'.pc = "match"
    BY <1>3, IdleTypes DEF RunOnce, Worker
  <2> QED
    BY <1>3, <2>1, <2>2 DEF RunOnce
<1>5. CASE BeginHot
  <2>1. \/ worker' = Idle
        \/ worker' = [Idle EXCEPT !.pc = "begin", !.phase = "scan"]
        \/ worker' = [Idle EXCEPT !.pc = "check", !.phase = "hot", !.day = Today]
    BY <1>5 DEF BeginHot
  <2>2. worker' \in Worker
    <3>1. /\ [Idle EXCEPT !.pc = "begin", !.phase = "scan"] \in Worker
          /\ [Idle EXCEPT !.pc = "check", !.phase = "hot", !.day = Today] \in Worker
      BY <1>1, IdleTypes, WorkerTypes DEF Pc, Phase
    <3> QED
      BY <2>1, <3>1, IdleTypes
  <2>3. worker'.pc # "spend"
    BY <1>1, <2>1, IdleTypes DEF Worker
  <2> QED
    BY <1>5, <2>2, <2>3 DEF BeginHot
<1> QED
  BY <1>3, <1>5

LEMMA BudgetTypes ==
  ASSUME TypeInv, CheckBudget \/ ResetBudget \/ Spend PROVE TypeInv'
<1> USE DEF TypeInv, TypeOK, SpendWithin, Environment, Catalog, bggVars, budgetVars, dayVars
<1>1. Idle.pc = "idle" /\ Today \in Int
  BY TodayNat DEF Idle
<1>2. CASE CheckBudget
  <2>1. CASE budgetDay # Today /\ budgetDay' = Today /\ Goto("reset")
    BY <1>1, <1>2, <2>1, GotoTypes DEF CheckBudget, Pc
  <2>2. CASE budgetDay = Today /\ budgetUsed >= Budget /\ worker' = Idle /\ UNCHANGED budgetDay
    BY <1>1, <1>2, <2>2, IdleTypes DEF CheckBudget
  <2>3. CASE budgetDay = Today /\ budgetUsed < Budget /\ Goto("spend") /\ UNCHANGED budgetDay
    BY <1>2, <2>3, GotoTypes DEF CheckBudget, Pc
  <2> QED
    BY <1>2, <2>1, <2>2, <2>3 DEF CheckBudget
<1>3. CASE ResetBudget
  BY <1>3, GotoTypes, SizeAssumption DEF ResetBudget, Pc
<1>4. CASE Spend
  BY <1>4, GotoTypes, SizeAssumption DEF Spend, Pc
<1> QED
  BY <1>2, <1>3, <1>4

LEMMA CountTypes ==
  ASSUME NEW days, NEW count \in [days -> Nat], NEW day, NEW n \in Nat
  PROVE  [count EXCEPT ![day] = @ + n] \in [days -> Nat]
<1>1. \A d \in days : count[d] \in Nat /\ count[d] + n \in Nat
  OBVIOUS
<1>2. [count EXCEPT ![day] = @ + n]
        = [d \in days |-> IF d = day THEN count[d] + n ELSE count[d]]
  OBVIOUS
<1> QED
  BY <1>1, <1>2

\* A request changes the count of its day and the worker.
LEMMA SendTypes ==
  ASSUME TypeInv, Send, worker' \in Worker, worker'.pc # "spend" PROVE TypeInv'
<1> USE DEF TypeInv, TypeOK, SpendWithin, Catalog, bggVars, budgetVars, dayVars
<1>1. PICK sent \in 1..Attempts : requests' = [requests EXCEPT ![Today] = @ + sent]
  BY DEF Send
<1>2. sent \in Nat
  BY SizeAssumption
<1>3. requests' \in [0..(MaxClock \div DayTicks) -> Nat]
  BY <1>1, <1>2, CountTypes, Zenon
<1> QED
  BY <1>3 DEF Send

LEMMA FetchTypes ==
  ASSUME TypeInv, FetchFails \/ ReceiveHot \/ ReceiveMissing PROVE TypeInv'
<1> USE DEF TypeInv, TypeOK
<1>1. CASE FetchFails
  <2>1. worker' \in Worker /\ worker'.pc # "spend"
    BY <1>1, IdleTypes DEF FetchFails, Idle
  <2> QED
    BY <1>1, <2>1, SendTypes DEF FetchFails
<1>2. CASE ReceiveHot
  <2>1. PICK hot \in SUBSET (HotPool \cap listed) :
          LET missing == hot \ Known
          IN  worker' = IF missing = {} THEN [worker EXCEPT !.pc = "admit", !.hot = hot]
                        ELSE [worker EXCEPT !.pc = "check", !.phase = "missing",
                                            !.hot = hot, !.todo = missing]
    BY <1>2 DEF ReceiveHot
  <2>2. hot \subseteq Ids /\ hot \ Known \subseteq Ids
    OBVIOUS
  <2>3. worker' \in Worker /\ worker'.pc # "spend"
    BY <2>1, <2>2 DEF Worker, Pc, Phase
  <2> QED
    BY <1>2, <2>3, SendTypes DEF ReceiveHot
<1>3. CASE ReceiveMissing
  <2>1. PICK result \in Answers :
          worker' = [worker EXCEPT !.pc = "item", !.todo = result.answer \cap Accepted,
                                   !.seen = Seen(result.answer)]
    BY <1>3 DEF ReceiveMissing
  <2>2. worker' \in Worker /\ worker'.pc # "spend"
    BY <2>1, AnswerTypes DEF Worker, Pc
  <2> QED
    BY <1>3, <2>2, SendTypes DEF ReceiveMissing
<1> QED
  BY <1>1, <1>2, <1>3

LEMMA HotTypes == ASSUME TypeInv, AdmitHot \/ FinishHot PROVE TypeInv'
<1> USE DEF TypeInv, TypeOK, SpendWithin, Environment, Catalog, bggVars, budgetVars, dayVars
<1>1. CASE AdmitHot
  <2>1. worker' = [Idle EXCEPT !.pc = "done", !.phase = "hot", !.day = worker.day]
    BY <1>1 DEF AdmitHot
  <2>2. worker.day \in Nat
    BY DEF Worker
  <2>3. worker' \in Worker /\ worker'.pc = "done"
    BY <2>1, <2>2, IdleTypes DEF Worker, Pc, Phase
  <2>4. \A id \in Ids : Admitted(title[id], now + HotTicks) \in Title
    BY AdmittedTypes, TimeAssumption
  <2>5. title' \in [Ids -> Title]
    BY <1>1, <2>4 DEF AdmitHot
  <2> QED
    BY <1>1, <2>3, <2>5 DEF AdmitHot
<1>2. CASE FinishHot
  <2>1. worker' = [Idle EXCEPT !.pc = "begin", !.phase = "scan"] /\ worker.day \in Int
    BY <1>2 DEF FinishHot, Worker
  <2>2. worker' \in Worker
    BY <2>1, IdleTypes, WorkerTypes DEF Pc, Phase
  <2>3. worker'.pc = "begin"
    BY <2>1, IdleTypes DEF Worker
  <2> QED
    BY <1>2, <2>1, <2>2, <2>3 DEF FinishHot
<1> QED
  BY <1>1, <1>2

LEMMA NewBatchTypes == ASSUME NEW next PROVE NewBatch(next) \subseteq Ids
BY DEF NewBatch

LEMMA ScanTypes ==
  ASSUME TypeInv, BeginScan \/ PassUnreadable \/ EndNewBatch \/ FinishScan
  PROVE  TypeInv'
<1> USE DEF TypeInv, TypeOK, SpendWithin, Environment, Catalog, bggVars, budgetVars, dayVars
<1>1. Idle \in Worker /\ Idle.pc = "idle" /\ Today \in Nat
  BY IdleTypes, TodayNat DEF Idle
<1>2. CASE BeginScan
  <2> DEFINE start == Largest({cursor} \cup Known)
  <2>1. start \in Nat
    BY LargestCursor DEF Known
  <2> HIDE DEF start
  <2>2. \/ worker' = [Idle EXCEPT !.pc = "begin", !.phase = "candidates"]
        \/ worker' = [worker EXCEPT !.pc = "check", !.day = Today, !.cursor = start,
                                    !.next = start + 1, !.todo = NewBatch(start + 1)]
    BY <1>2 DEF BeginScan, start
  <2>3. [Idle EXCEPT !.pc = "begin", !.phase = "candidates"] \in Worker
    BY <1>1, WorkerTypes DEF Pc, Phase, Queues
  <2>4. [worker EXCEPT !.pc = "check", !.day = Today, !.cursor = start,
                       !.next = start + 1, !.todo = NewBatch(start + 1)] \in Worker
    <3>1. start + 1 \in Nat /\ NewBatch(start + 1) \in SUBSET Ids /\ "check" \in Pc
      BY <2>1, NewBatchTypes DEF Pc
    <3>2. Idle.seen \in [Ids -> Nat]
      BY DEF Idle
    <3> QED
      BY <1>1, <2>1, <3>1, <3>2, ScanWorkerTypes, Zenon
  <2>5. worker' \in Worker
    BY <2>2, <2>3, <2>4
  <2>6. worker'.pc # "spend"
    BY <1>1, <2>2 DEF Worker
  <2> QED
    BY <1>2, <2>5, <2>6 DEF BeginScan
<1>3. CASE PassUnreadable
  <2>1. worker' \in Worker /\ worker'.pc = "item" /\ worker.cursor \in Nat
    BY <1>3, GotoTypes DEF PassUnreadable, Pc, Worker
  <2> QED
    BY <1>3, <2>1 DEF PassUnreadable
<1>4. CASE EndNewBatch
  <2> DEFINE last == Largest({worker.cursor} \cup worker.answer)
  <2>1. last \in Nat
    BY LargestCursor DEF Worker
  <2> HIDE DEF last
  <2>2. /\ cursor' = IF worker.empty = 0 THEN last ELSE cursor
        /\ \/ worker' = [worker EXCEPT !.pc = "done"]
           \/ worker' = [worker EXCEPT !.pc = "check", !.todo = NewBatch(worker.next),
                                       !.cursor = last, !.answer = {}, !.seen = Idle.seen]
    BY <1>4 DEF EndNewBatch, last
  <2>3. [worker EXCEPT !.pc = "done"] \in Worker
    BY DEF Worker, Pc
  <2>4. [worker EXCEPT !.pc = "check", !.todo = NewBatch(worker.next),
                       !.cursor = last, !.answer = {}, !.seen = Idle.seen] \in Worker
    <3>1. /\ NewBatch(worker.next) \in SUBSET Ids /\ "check" \in Pc
          /\ Idle.seen \in [Ids -> Nat]
      BY NewBatchTypes DEF Pc, Idle
    <3> QED
      BY <2>1, <3>1, ScanWorkerTypes, SizeAssumption, Zenon
  <2>5. worker' \in Worker
    BY <2>2, <2>3, <2>4
  <2>6. worker'.pc # "spend"
    BY <2>2 DEF Worker
  <2>7. cursor' \in Nat
    BY <2>1, <2>2
  <2> QED
    BY <1>4, <2>5, <2>6, <2>7 DEF EndNewBatch
<1>5. CASE FinishScan
  <2>1. /\ worker' = [Idle EXCEPT !.pc = "begin", !.phase = "candidates"]
        /\ worker.day \in Int
    BY <1>5 DEF FinishScan, Worker
  <2>2. worker' \in Worker
    BY <1>1, <2>1, WorkerTypes DEF Pc, Phase, Queues
  <2>3. worker'.pc = "begin"
    BY <1>1, <2>1 DEF Worker
  <2> QED
    BY <1>5, <2>1, <2>2, <2>3 DEF FinishScan
<1> QED
  BY <1>2, <1>3, <1>4, <1>5

LEMMA ReceiveTypes ==
  ASSUME TypeInv, ReceiveNew \/ ReceiveQueue PROVE TypeInv'
<1> USE DEF TypeInv, TypeOK
<1>1. CASE ReceiveNew
  <2>1. PICK result \in Answers :
       worker' = [worker EXCEPT
         !.pc = IF result.skipped = {} THEN "item" ELSE "passing",
         !.todo = result.answer \cap Accepted,
         !.answer = result.answer, !.seen = Seen(result.answer),
         !.cursor = Largest({@} \cup result.skipped), !.next = @ + Batch,
         !.empty = IF result.answer \cup result.skipped = {} THEN @ + 1 ELSE 0]
    BY <1>1 DEF ReceiveNew
  <2>2. Largest({worker.cursor} \cup result.skipped) \in Nat
    BY AnswerTypes, LargestCursor DEF Worker
  <2> DEFINE pc == IF result.skipped = {} THEN "item" ELSE "passing"
             empty == IF result.answer \cup result.skipped = {} THEN worker.empty + 1 ELSE 0
  <2>3. /\ pc \in Pc /\ pc # "spend" /\ empty \in Nat /\ worker.next + Batch \in Nat
        /\ result.answer \cap Accepted \in SUBSET Ids
    BY AnswerTypes, SizeAssumption DEF Worker, Pc
  <2>4. worker' = [worker EXCEPT
         !.pc = pc, !.todo = result.answer \cap Accepted,
         !.answer = result.answer, !.seen = Seen(result.answer),
         !.cursor = Largest({worker.cursor} \cup result.skipped),
         !.next = worker.next + Batch, !.empty = empty]
    BY <2>1
  <2> HIDE DEF pc, empty
  <2>5. worker' \in Worker
    <3> DEFINE answer == result.answer
               todo == result.answer \cap Accepted
               seen == Seen(result.answer)
               last == Largest({worker.cursor} \cup result.skipped)
               next == worker.next + Batch
    <3>1. /\ answer \in SUBSET Ids /\ todo \in SUBSET Ids /\ seen \in [Ids -> Nat]
          /\ last \in Nat /\ next \in Nat
      BY <2>2, <2>3, AnswerTypes
    <3>2. worker' = [worker EXCEPT !.pc = pc, !.todo = todo, !.answer = answer,
                                   !.seen = seen, !.cursor = last, !.next = next,
                                   !.empty = empty]
      BY <2>4
    <3> HIDE DEF answer, todo, seen, last, next
    <3> QED
      BY <2>3, <3>1, <3>2 DEF Worker
  <2>6. worker'.pc # "spend"
    BY <2>3, <2>4 DEF Worker
  <2> QED
    BY <1>1, <2>5, <2>6, SendTypes DEF ReceiveNew
<1>2. CASE ReceiveQueue
  <2>1. PICK result \in Answers :
       worker' = [worker EXCEPT !.pc = "item", !.answer = result.answer,
                                !.skipped = result.skipped, !.seen = Seen(result.answer)]
    BY <1>2 DEF ReceiveQueue
  <2>2. worker' \in Worker /\ worker'.pc # "spend"
    BY <2>1, AnswerTypes DEF Worker, Pc
  <2> QED
    BY <1>2, <2>2, SendTypes DEF ReceiveQueue
<1> QED
  BY <1>1, <1>2

LEMMA SelectTypes == ASSUME TypeInv, EmptyQueue \/ SelectBatch PROVE TypeInv'
<1> USE DEF TypeInv, TypeOK, SpendWithin, Environment, Catalog, bggVars, budgetVars, dayVars
<1>1. Idle \in Worker /\ Idle.pc = "idle"
  BY IdleTypes DEF Idle
<1>2. CASE EmptyQueue
  <2>1. \/ worker' = Idle
        \/ worker' = [Idle EXCEPT !.pc = "begin", !.phase = "admitted"]
    BY <1>2 DEF EmptyQueue
  <2>2. [Idle EXCEPT !.pc = "begin", !.phase = "admitted"] \in Worker
    BY <1>1, WorkerTypes DEF Pc, Phase, Queues
  <2>3. worker' \in Worker
    BY <1>1, <2>1, <2>2
  <2>4. worker'.pc # "spend"
    BY <1>1, <2>1 DEF Worker
  <2> QED
    BY <1>2, <2>3, <2>4 DEF EmptyQueue
<1>3. CASE SelectBatch
  <2>1. PICK batch \in SUBSET Due(worker.phase) :
          worker' = [Idle EXCEPT !.pc = "check", !.phase = worker.phase, !.todo = batch]
    BY <1>3 DEF SelectBatch
  <2>2. batch \in SUBSET Ids /\ worker.phase \in Phase
    BY DEF Due, Worker
  <2>3. worker' \in Worker
    BY <1>1, <2>1, <2>2, WorkerTypes DEF Pc
  <2>4. worker'.pc = "check"
    BY <1>1, <2>1 DEF Worker
  <2> QED
    BY <1>3, <2>3, <2>4 DEF SelectBatch
<1> QED
  BY <1>2, <1>3

LEMMA HandledTypes ==
  ASSUME TypeOK, NEW id, Handled(id) PROVE worker' \in Worker /\ worker'.pc = "item"
BY DEF Handled, TypeOK, Worker, Pc

LEMMA StoreTypes ==
  ASSUME TypeInv, NEW id \in Ids,
         PostponeTitle(id) \/ MarkRemoved(id) \/ InsertNew(id) \/ StoreDetail(id)
  PROVE  TypeInv'
<1> USE DEF TypeInv, TypeOK, SpendWithin, Environment, bggVars, budgetVars, dayVars
<1>1. CASE PostponeTitle(id)
  <2>1. now + PostponeTicks \in Nat
    BY TimeAssumption
  <2>2. title' \in [Ids -> Title]
    BY <1>1, <2>1 DEF PostponeTitle, Title
  <2> QED
    BY <1>1, <2>2, HandledTypes DEF PostponeTitle
<1>2. CASE MarkRemoved(id)
  <2>1. title' \in [Ids -> Title]
    BY <1>2 DEF MarkRemoved, Title
  <2> QED
    BY <1>2, <2>1, HandledTypes DEF MarkRemoved
<1>3. CASE InsertNew(id)
  <2>1. title' \in [Ids -> Title]
    BY <1>3, TitleTypes DEF InsertNew
  <2>2. worker' \in Worker /\ worker'.pc = "detail"
    BY <1>3 DEF InsertNew, Worker, Pc
  <2> QED
    BY <1>3, <2>1, <2>2 DEF InsertNew
<1>4. CASE StoreDetail(id)
  <2>1. worker.seen[id] \in Nat
    BY DEF Worker
  <2>2. title' \in [Ids -> Title]
    BY <1>4, <2>1, ZenonT(40) DEF StoreDetail, Title
  <2>3. worker' \in Worker /\ worker'.pc = "admission"
    BY <1>4 DEF StoreDetail, Worker, Pc
  <2> QED
    BY <1>4, <2>2, <2>3 DEF StoreDetail
<1> QED
  BY <1>1, <1>2, <1>3, <1>4

LEMMA AdmissionTypes == ASSUME TypeInv, StoreAdmission PROVE TypeInv'
<1> USE DEF TypeInv, TypeOK, SpendWithin, Environment, bggVars, budgetVars, dayVars
<1> DEFINE id == worker.item
           t == title[id]
           admitted == IF worker.seen[id] >= MinVotes THEN [t EXCEPT !.until = 0]
                       ELSE IF id \in Wished THEN Admitted(t, now + UpcomingTicks) ELSE t
           days == IF worker.phase = "admitted" THEN AdmittedDays ELSE CandidateDays
           new == [admitted EXCEPT !.next = NextCheck(id, days)]
<1>1. title' = [title EXCEPT ![id] = new]
  BY DEF StoreAdmission
<1>2. ASSUME id \in Ids PROVE new \in Title
  <2>1. t \in Title /\ now + UpcomingTicks \in Nat
    BY <1>2, TimeAssumption
  <2>2. Admitted(t, now + UpcomingTicks) \in Title /\ [t EXCEPT !.until = 0] \in Title
    BY <2>1, AdmittedTypes DEF Title
  <2>3. admitted \in Title
    BY <2>1, <2>2
  <2>4. days \in Nat \ {0}
    BY TimeAssumption
  <2>5. NextCheck(id, days) \in Nat
    BY <1>2, <2>4, NextCheckTypes
  <2> HIDE DEF admitted, days
  <2> QED
    BY <2>3, <2>5 DEF Title
<1> HIDE DEF new
<1>3. title' \in [Ids -> Title]
  BY <1>1, <1>2
<1> QED
  BY <1>3, HandledTypes DEF StoreAdmission

LEMMA WorldTypes == ASSUME TypeInv, Interrupt \/ ChangeBgg \/ Tick PROVE TypeInv'
<1> USE DEF TypeInv, TypeOK, SpendWithin, Catalog, bggVars, budgetVars, dayVars
<1>1. CASE Interrupt
  <2>1. worker' \in Worker /\ worker'.pc = "idle"
    BY <1>1, IdleTypes DEF Interrupt, Idle
  <2> QED
    BY <1>1, <2>1 DEF Interrupt
<1>2. CASE ChangeBgg
  <2>1. votes' \in [Ids -> Nat]
    BY <1>2 DEF ChangeBgg
  <2>2. newest < LastId => newest + 1 \in Ids
    BY SizeAssumption DEF Ids
  <2>3. listed' \subseteq Ids /\ newest' \in Ids
    BY <1>2, <2>2 DEF ChangeBgg
  <2> QED
    BY <1>2, <2>1, <2>3 DEF ChangeBgg
<1>3. CASE Tick
  BY <1>3 DEF Tick
<1> QED
  BY <1>1, <1>2, <1>3

LEMMA StepTypes == TypeInv /\ [Next]_vars => TypeInv'
<1> SUFFICES ASSUME TypeInv, [Next]_vars PROVE TypeInv'
  OBVIOUS
<1>1. CASE UNCHANGED vars
  BY <1>1 DEF vars, bggVars, budgetVars, dayVars, TypeInv, TypeOK, SpendWithin
<1>2. CASE Next
  BY <1>2, BeginTypes, CampaignTypes, BudgetTypes, FetchTypes, HotTypes, ScanTypes, ReceiveTypes,
     SelectTypes, StoreTypes, AdmissionTypes, WorldTypes DEF Next
<1> QED
  BY <1>1, <1>2

LEMMA TypeInvariance == Spec => []TypeInv
BY InitTypes, StepTypes, PTL DEF Spec

\* TypeOK holds in every state: the counter of the budget never exceeds the
\* budget, however the days and the interruptions fall.
THEOREM TypeCorrect == Spec => []TypeOK
<1>1. TypeInv => TypeOK
  BY DEF TypeInv
<1> QED
  BY <1>1, TypeInvariance, PTL

-----------------------------------------------------------------------------
(* Titles in hand *)

\* A row that does not exist has no columns, and what a worker handles or
\* has taken from a queue is a row.
InHand ==
  /\ \A id \in Ids \ Known : title[id].until = 0 /\ ~title[id].removed
  /\ worker.phase \in Queues => worker.todo \subseteq Known
  /\ worker.pc \in {"detail", "admission"} => worker.item \in Known

\* Steps that leave the rows alone and put no title in hand.
Calm ==
  /\ title' = title
  /\ \/ worker' = worker
     \/ /\ worker'.pc \notin {"detail", "admission"}
        /\ worker'.phase \in Queues =>
             \/ worker'.todo \subseteq Known
             \/ worker'.todo \subseteq worker.todo /\ worker.phase \in Queues
        /\ worker.phase \in Queues /\ worker'.pc = "item" => worker'.todo = worker.todo

LEMMA IdleFields ==
  /\ Idle \in Worker
  /\ Idle.pc = "idle" /\ Idle.phase = "campaigns" /\ Idle.todo = {} /\ Idle.answer = {}
BY IdleTypes DEF Idle

LEMMA CalmBudget ==
  ASSUME TypeInv,
         \/ RunOnce \/ BeginHot \/ CheckBudget \/ ResetBudget \/ Spend \/ FetchFails
         \/ Interrupt \/ ChangeBgg \/ Tick \/ UNCHANGED vars
  PROVE  Calm
<1> USE IdleFields DEF Catalog, Calm
<1>1. worker \in Worker
  BY DEF TypeInv, TypeOK
<1>2. CASE RunOnce
  BY <1>2 DEF RunOnce, Worker, Queues
<1>3. CASE BeginHot
  <2>1. \/ worker' = Idle
        \/ worker' = [Idle EXCEPT !.pc = "begin", !.phase = "scan"]
        \/ worker' = [Idle EXCEPT !.pc = "check", !.phase = "hot", !.day = Today]
    BY <1>3 DEF BeginHot
  <2>2. worker'.pc \notin {"detail", "admission", "item"} /\ worker'.phase \notin Queues
    BY <2>1 DEF Worker, Queues
  <2> QED
    BY <1>3, <2>2 DEF BeginHot
<1>4. CASE CheckBudget
  <2>1. worker' = Idle \/ Goto("reset") \/ Goto("spend")
    BY <1>4 DEF CheckBudget
  <2>2. /\ worker'.pc \notin {"detail", "admission", "item"}
        /\ worker'.phase \in Queues => worker'.todo = worker.todo /\ worker.phase \in Queues
    BY <1>1, <2>1 DEF Goto, Worker, Queues
  <2> QED
    BY <1>4, <2>2 DEF CheckBudget
<1>5. CASE ResetBudget
  BY <1>1, <1>5 DEF ResetBudget, Goto, Worker
<1>6. CASE Spend
  BY <1>1, <1>6 DEF Spend, Goto, Worker
<1>7. CASE FetchFails
  BY <1>7 DEF FetchFails, Send, Queues
<1>8. CASE Interrupt
  BY <1>8 DEF Interrupt, Queues
<1>9. CASE ChangeBgg \/ Tick \/ UNCHANGED vars
  BY <1>9 DEF ChangeBgg, Tick, vars
<1> QED
  BY <1>2, <1>3, <1>4, <1>5, <1>6, <1>7, <1>8, <1>9

LEMMA CalmRequests ==
  ASSUME TypeInv,
         \/ ReceiveHot \/ ReceiveMissing \/ FinishHot \/ BeginScan \/ ReceiveNew
         \/ PassUnreadable \/ EndNewBatch \/ FinishScan \/ EmptyQueue \/ SelectBatch
         \/ ReceiveQueue
  PROVE  Calm
<1> USE IdleFields DEF Catalog, Calm
<1>1. worker \in Worker
  BY DEF TypeInv, TypeOK
<1>2. CASE ReceiveHot
  <2>1. worker'.pc \in {"admit", "check"} /\ worker'.phase \in {"hot", "missing"}
    BY <1>1, <1>2 DEF ReceiveHot, Worker
  <2> QED
    BY <1>2, <2>1 DEF ReceiveHot, Send, Queues
<1>3. CASE ReceiveMissing
  <2>1. worker'.pc = "item" /\ worker'.phase = "missing"
    BY <1>1, <1>3 DEF ReceiveMissing, Worker
  <2> QED
    BY <1>3, <2>1 DEF ReceiveMissing, Send, Queues
<1>4. CASE FinishHot
  BY <1>4 DEF FinishHot, Worker, Queues
<1>5. CASE BeginScan
  <2>1. \/ worker'.pc = "begin" /\ worker'.todo = {}
        \/ worker'.pc = "check" /\ worker'.phase = "scan"
    BY <1>1, <1>5 DEF BeginScan, Worker
  <2> QED
    BY <1>5, <2>1 DEF BeginScan, Queues
<1>6. CASE ReceiveNew
  <2>1. worker'.pc \in {"item", "passing"} /\ worker'.phase = "scan"
    BY <1>1, <1>6 DEF ReceiveNew, Worker
  <2> QED
    BY <1>6, <2>1 DEF ReceiveNew, Send, Queues
<1>7. CASE PassUnreadable
  BY <1>1, <1>7 DEF PassUnreadable, Goto, Worker
<1>8. CASE EndNewBatch
  <2>1. worker'.pc \in {"done", "check"} /\ worker'.phase = "scan"
    BY <1>1, <1>8 DEF EndNewBatch, Worker
  <2> QED
    BY <1>8, <2>1 DEF EndNewBatch, Queues
<1>9. CASE FinishScan
  BY <1>9 DEF FinishScan, Worker
<1>10. CASE EmptyQueue
  <2>1. worker'.pc \in {"idle", "begin"} /\ worker'.todo = {}
    BY <1>10 DEF EmptyQueue, Worker
  <2> QED
    BY <1>10, <2>1 DEF EmptyQueue
<1>11. CASE SelectBatch
  <2>1. worker'.pc = "check" /\ worker'.todo \subseteq Due(worker.phase)
    BY <1>11 DEF SelectBatch, Worker
  <2>2. Due(worker.phase) \subseteq Known
    BY DEF Due, InQueue, Known
  <2> QED
    BY <1>11, <2>1, <2>2 DEF SelectBatch
<1>12. CASE ReceiveQueue
  <2>1. worker'.pc = "item" /\ worker'.phase = worker.phase /\ worker'.todo = worker.todo
    BY <1>1, <1>12 DEF ReceiveQueue, Worker
  <2> QED
    BY <1>12, <2>1 DEF ReceiveQueue, Send
<1> QED
  BY <1>2, <1>3, <1>4, <1>5, <1>6, <1>7, <1>8, <1>9, <1>10, <1>11, <1>12

\* The other steps: admissions and the steps of one title.
LEMMA StepCalm ==
  ASSUME TypeInv, [Next]_vars
  PROVE  \/ Calm
         \/ \E id \in DOMAIN CampaignEnd : MatchCampaign(id)
         \/ AdmitHot
         \/ \E id \in Ids :
              PostponeTitle(id) \/ MarkRemoved(id) \/ InsertNew(id) \/ StoreDetail(id)
         \/ StoreAdmission
BY CalmBudget, CalmRequests DEF Next

LEMMA AdmittedKeeps ==
  ASSUME NEW t \in Title, NEW until \in Nat
  PROVE  /\ Admitted(t, until).known = t.known /\ Admitted(t, until).removed = t.removed
         /\ Admitted(t, until).until >= t.until
BY DEF Admitted, Title

LEMMA InitHand == Init => InHand
BY IdleFields DEF Init, InHand, Known, NewTitle, NoTitle, Queues

\* The rows after the steps of one title.
LEMMA RowsOfTitle ==
  ASSUME TypeInv, InHand, NEW id \in Ids,
         PostponeTitle(id) \/ MarkRemoved(id) \/ StoreDetail(id)
  PROVE  /\ id \in Known /\ Known' = Known
         /\ \A other \in Ids : title'[other].until = title[other].until
         /\ \A other \in Ids \ {id} : title'[other] = title[other]
<1>1. id \in Known
  BY DEF InHand, Queued, PostponeTitle, MarkRemoved, StoreDetail
<1>2. title[id] \in Title
  BY DEF TypeInv, TypeOK
<1>3. PICK row \in Title :
        /\ title' = [title EXCEPT ![id] = row]
        /\ row.known = title[id].known /\ row.until = title[id].until
  <2>1. CASE PostponeTitle(id)
    <3> DEFINE row == [title[id] EXCEPT !.next = now + PostponeTicks]
    <3>1. title' = [title EXCEPT ![id] = row]
      BY <2>1 DEF PostponeTitle
    <3>2. now + PostponeTicks \in Nat
      BY TimeAssumption DEF TypeInv, TypeOK
    <3>3. row \in Title /\ row.known = title[id].known /\ row.until = title[id].until
      BY <1>2, <3>2 DEF Title
    <3> QED
      BY <3>1, <3>3
  <2>2. CASE MarkRemoved(id)
    <3> DEFINE row == [title[id] EXCEPT !.removed = TRUE]
    <3>1. title' = [title EXCEPT ![id] = row]
      BY <2>2 DEF MarkRemoved
    <3>2. row \in Title /\ row.known = title[id].known /\ row.until = title[id].until
      BY <1>2 DEF Title
    <3> QED
      BY <3>1, <3>2
  <2>3. CASE StoreDetail(id)
    <3> DEFINE row == [title[id] EXCEPT !.votes = worker.seen[id], !.checked = TRUE,
                                        !.removed = FALSE]
    <3>1. title' = [title EXCEPT ![id] = row]
      BY <2>3 DEF StoreDetail, TypeInv, TypeOK
    <3>2. worker.seen[id] \in Nat
      BY DEF TypeInv, TypeOK, Worker
    <3>3. row \in Title /\ row.known = title[id].known /\ row.until = title[id].until
      BY <1>2, <3>2 DEF Title
    <3> QED
      BY <3>1, <3>3
  <2> QED
    BY <2>1, <2>2, <2>3
<1>4. title \in [Ids -> Title]
  BY DEF TypeInv, TypeOK
<1> QED
  BY <1>1, <1>3, <1>4 DEF Known

LEMMA AdmissionRows ==
  ASSUME TypeInv, InHand, StoreAdmission
  PROVE  /\ worker.item \in Known /\ Known' = Known
         /\ \A other \in Ids \ {worker.item} : title'[other] = title[other]
         /\ title'[worker.item].removed = title[worker.item].removed
         /\ title'[worker.item].next > now
         /\ \/ worker.seen[worker.item] >= MinVotes
            \/ title'[worker.item].until >= title[worker.item].until
<1> DEFINE id == worker.item
           t == title[id]
           days == IF worker.phase = "admitted" THEN AdmittedDays ELSE CandidateDays
           admitted == IF worker.seen[id] >= MinVotes THEN [t EXCEPT !.until = 0]
                       ELSE IF id \in Wished THEN Admitted(t, now + UpcomingTicks) ELSE t
           new == [admitted EXCEPT !.next = NextCheck(id, days)]
<1>1. id \in Known /\ id \in Ids /\ t \in Title /\ now \in Nat
  BY DEF StoreAdmission, InHand, Known, TypeInv, TypeOK
<1>2. title' = [title EXCEPT ![id] = new]
  BY DEF StoreAdmission
<1>3. /\ admitted \in Title
      /\ admitted.known = t.known /\ admitted.removed = t.removed
      /\ worker.seen[id] >= MinVotes \/ admitted.until >= t.until
  <2>1. now + UpcomingTicks \in Nat
    BY <1>1, TimeAssumption
  <2>2. CASE worker.seen[id] >= MinVotes
    BY <1>1, <2>2 DEF Title
  <2>3. CASE ~(worker.seen[id] >= MinVotes) /\ id \in Wished
    <3>1. admitted = Admitted(t, now + UpcomingTicks)
      BY <2>3
    <3> HIDE DEF admitted, t
    <3> QED
      BY <1>1, <2>1, <3>1, AdmittedTypes, AdmittedKeeps
  <2>4. CASE ~(worker.seen[id] >= MinVotes) /\ id \notin Wished
    BY <1>1, <2>4 DEF Title
  <2> QED
    BY <2>2, <2>3, <2>4
<1>4. NextCheck(id, days) \in Nat /\ NextCheck(id, days) > now
  <2>1. days \in Nat \ {0}
    BY TimeAssumption
  <2> HIDE DEF id, days
  <2> QED
    BY <1>1, <2>1, NextCheckTypes
<1> HIDE DEF admitted, days
<1>5. /\ new.known = t.known /\ new.removed = t.removed /\ new.next > now
      /\ worker.seen[id] >= MinVotes \/ new.until >= t.until
  BY <1>3, <1>4 DEF Title
<1>6. title \in [Ids -> Title]
  BY DEF TypeInv, TypeOK
<1> HIDE DEF new
<1> QED
  BY <1>1, <1>2, <1>5, <1>6 DEF Known

\* The rows after a campaign or the hot list.
LEMMA SignalRows ==
  ASSUME TypeInv, AdmitHot \/ \E id \in DOMAIN CampaignEnd : MatchCampaign(id)
  PROVE  /\ Known' = Known
         /\ \A id \in Ids \ Known : title'[id] = title[id]
         /\ \A id \in Ids : /\ title'[id].until >= title[id].until
                            /\ title'[id].removed = title[id].removed
<1>1. title \in [Ids -> Title] /\ now \in Nat
  BY DEF TypeInv, TypeOK
<1>2. CASE AdmitHot
  <2>1. now + HotTicks \in Nat
    BY <1>1, TimeAssumption
  <2>2. \A id \in Ids : title[id] \in Title
    BY <1>1
  <2>3. \A id \in Ids :
          /\ Admitted(title[id], now + HotTicks).known = title[id].known
          /\ Admitted(title[id], now + HotTicks).removed = title[id].removed
          /\ Admitted(title[id], now + HotTicks).until >= title[id].until
    BY <2>1, <2>2, AdmittedKeeps
  <2>4. \A id \in Ids : title[id].until >= title[id].until
    BY <2>2 DEF Title
  <2> QED
    BY <1>2, <2>3, <2>4 DEF AdmitHot, Known
<1>3. ASSUME NEW id \in DOMAIN CampaignEnd, MatchCampaign(id)
      PROVE  \/ title' = title
             \/ \E until \in Nat :
                  title' = [title EXCEPT ![id] = Admitted(@, until)] /\ title[id].known
  <2>1. (IF CampaignEnd[id] > now THEN CampaignEnd[id] ELSE now) + GraceTicks \in Nat
    BY <1>1, TimeAssumption, TitleAssumption
  <2> QED
    BY <1>3, <2>1 DEF MatchCampaign
<1>4. ASSUME NEW id \in DOMAIN CampaignEnd, MatchCampaign(id)
      PROVE  /\ Known' = Known
             /\ \A other \in Ids \ Known : title'[other] = title[other]
             /\ \A other \in Ids : /\ title'[other].until >= title[other].until
                                   /\ title'[other].removed = title[other].removed
  <2>1. \A other \in Ids : title[other].until >= title[other].until
    BY <1>1 DEF Title
  <2>2. CASE title' = title
    BY <2>1, <2>2 DEF Known
  <2>3. ASSUME NEW until \in Nat,
               title' = [title EXCEPT ![id] = Admitted(@, until)], title[id].known
        PROVE  /\ Known' = Known
               /\ \A other \in Ids \ Known : title'[other] = title[other]
               /\ \A other \in Ids : /\ title'[other].until >= title[other].until
                                     /\ title'[other].removed = title[other].removed
    <3>1. id \in Ids /\ title[id] \in Title
      BY <1>1, TitleAssumption
    <3>2. PICK row :
            /\ title' = [title EXCEPT ![id] = row]
            /\ row.known = title[id].known /\ row.removed = title[id].removed
            /\ row.until >= title[id].until
      BY <2>3, <3>1, AdmittedKeeps
    <3> QED
      BY <1>1, <2>1, <2>3, <3>1, <3>2 DEF Known
  <2> QED
    BY <1>3, <1>4, <2>2, <2>3
<1> QED
  BY <1>2, <1>4

LEMMA InsertRows ==
  ASSUME TypeInv, InHand, NEW id \in Ids, InsertNew(id)
  PROVE  /\ Known' = Known \cup {id}
         /\ \A other \in Ids : /\ title'[other].until = title[other].until
                               /\ title'[other].removed = title[other].removed
         /\ \A other \in Ids \ {id} : title'[other] = title[other]
         /\ worker' = [worker EXCEPT !.pc = "detail", !.item = id]
         /\ worker.phase \notin Queues
<1>1. title \in [Ids -> Title]
  BY DEF TypeInv, TypeOK
<1>2. ~title[id].known => title[id].until = 0 /\ ~title[id].removed
  BY DEF InHand, Known
<1>3. title[id].removed \in BOOLEAN
  BY <1>1 DEF Title
<1>4. title' = IF title[id].known THEN title ELSE [title EXCEPT ![id] = NewTitle]
  BY DEF InsertNew
<1>5. CASE title[id].known
  BY <1>4, <1>5 DEF InsertNew, Known, Queues
<1>6. CASE ~title[id].known
  <2>1. NewTitle.known /\ NewTitle.until = 0 /\ NewTitle.removed = FALSE
    BY DEF NewTitle
  <2>2. title[id].removed = FALSE
    BY <1>2, <1>3, <1>6
  <2> QED
    BY <1>1, <1>2, <1>4, <1>6, <2>1, <2>2 DEF InsertNew, Known, Queues
<1> QED
  BY <1>5, <1>6

LEMMA StepHand == TypeInv /\ InHand /\ [Next]_vars => InHand'
<1> SUFFICES ASSUME TypeInv, InHand, [Next]_vars PROVE InHand'
  OBVIOUS
<1> USE DEF InHand
<1>1. worker \in Worker
  BY DEF TypeInv, TypeOK
<1>2. CASE Calm
  <2>1. Known' = Known
    BY <1>2 DEF Calm, Known
  <2> QED
    BY <1>2, <2>1 DEF Calm
<1>3. ASSUME NEW id \in DOMAIN CampaignEnd, MatchCampaign(id) PROVE InHand'
  <2>1. /\ worker'.phase = worker.phase /\ worker'.todo \subseteq worker.todo
        /\ worker'.pc = "match"
    BY <1>1, <1>3 DEF MatchCampaign, Worker
  <2> QED
    BY <1>3, <2>1, SignalRows
<1>4. CASE AdmitHot
  <2>1. worker' = [Idle EXCEPT !.pc = "done", !.phase = "hot", !.day = worker.day]
    BY <1>4 DEF AdmitHot
  <2>2. worker'.pc = "done" /\ worker'.phase = "hot"
    BY <2>1, IdleTypes DEF Worker
  <2> QED
    BY <1>4, <2>2, SignalRows DEF Queues
<1>5. ASSUME NEW id \in Ids, PostponeTitle(id) \/ MarkRemoved(id) \/ StoreDetail(id)
      PROVE  InHand'
  <2>1. /\ worker'.phase = worker.phase /\ worker'.todo \subseteq worker.todo
        /\ worker'.pc = "item" \/ (worker'.pc = "admission" /\ worker'.item = id)
    <3>1. CASE PostponeTitle(id) \/ MarkRemoved(id)
      <4>1. worker' = [worker EXCEPT !.pc = "item", !.item = NoId, !.todo = @ \ {id}]
        BY <3>1 DEF PostponeTitle, MarkRemoved, Handled
      <4> QED
        BY <1>1, <4>1 DEF Worker
    <3>2. CASE StoreDetail(id)
      BY <1>1, <3>2 DEF StoreDetail, Worker
    <3> QED
      BY <1>5, <3>1, <3>2
  <2> QED
    BY <1>5, <2>1, RowsOfTitle
<1>6. ASSUME NEW id \in Ids, InsertNew(id) PROVE InHand'
  <2>1. worker'.phase = worker.phase /\ worker'.item = id
    BY <1>1, <1>6, InsertRows DEF Worker
  <2> QED
    BY <1>6, <2>1, InsertRows
<1>7. CASE StoreAdmission
  <2>1. /\ worker'.phase = worker.phase /\ worker'.todo \subseteq worker.todo
        /\ worker'.pc = "item"
    BY <1>1, <1>7 DEF StoreAdmission, Handled, Worker
  <2> QED
    BY <1>7, <2>1, AdmissionRows
<1> QED
  BY <1>2, <1>3, <1>4, <1>5, <1>6, <1>7, StepCalm

LEMMA HandInvariance == Spec => [](TypeInv /\ InHand)
<1>1. Init => TypeInv /\ InHand
  BY InitTypes, InitHand
<1>2. TypeInv /\ InHand /\ [Next]_vars => (TypeInv /\ InHand)'
  BY StepTypes, StepHand
<1> QED
  BY <1>1, <1>2, PTL DEF Spec

-----------------------------------------------------------------------------
(* Action properties *)

NeverCut ==
  \A id \in Ids :
    title'[id].until < title[id].until
      => /\ worker.pc = "admission" /\ worker.item = id
         /\ worker.seen[id] >= MinVotes

MovesOn ==
  \A id \in worker.todo \ worker'.todo :
    worker.phase \in Queues /\ worker'.pc = "item"
      => title'[id].removed \/ title'[id].next > now

LEMMA StepNeverCut == TypeInv /\ InHand /\ [Next]_vars => NeverCut
<1> SUFFICES ASSUME TypeInv, InHand, [Next]_vars PROVE NeverCut
  OBVIOUS
<1>1. \A id \in Ids : title[id].until \in Nat /\ title'[id].until \in Nat
  BY StepTypes DEF TypeInv, TypeOK, Title
<1>2. CASE \A id \in Ids : title'[id].until >= title[id].until
  BY <1>1, <1>2 DEF NeverCut
<1>3. CASE Calm
  BY <1>1, <1>2, <1>3 DEF Calm
<1>4. CASE AdmitHot \/ \E id \in DOMAIN CampaignEnd : MatchCampaign(id)
  BY <1>2, <1>4, SignalRows
<1>5. ASSUME NEW id \in Ids,
             PostponeTitle(id) \/ MarkRemoved(id) \/ InsertNew(id) \/ StoreDetail(id)
      PROVE  NeverCut
  <2>1. \A other \in Ids : title'[other].until = title[other].until
    BY <1>5, RowsOfTitle, InsertRows
  <2> QED
    BY <1>1, <1>2, <2>1
<1>6. CASE StoreAdmission
  BY <1>1, <1>6, AdmissionRows DEF NeverCut, StoreAdmission
<1> QED
  BY <1>3, <1>4, <1>5, <1>6, StepCalm

\* Whatever the order of campaigns, hot list and checks, and wherever a run is
\* interrupted, a signal never shortens an admission: _admit keeps the longer
\* one, and only a check that has seen enough votes ends it early.
THEOREM AdmissionsNeverCut == Spec => AdmissionNeverCut
<1>1. TypeInv /\ InHand /\ [Next]_vars => [NeverCut]_vars
  BY StepNeverCut
<1> QED
  BY <1>1, HandInvariance, PTL DEF Spec, AdmissionNeverCut, NeverCut

LEMMA StepMovesOn == TypeInv /\ InHand /\ [Next]_vars => MovesOn
<1> SUFFICES ASSUME TypeInv, InHand, [Next]_vars,
                    NEW id \in worker.todo, id \notin worker'.todo,
                    worker.phase \in Queues, worker'.pc = "item"
             PROVE  title'[id].removed \/ title'[id].next > now
  BY DEF MovesOn
<1>1. worker \in Worker /\ title \in [Ids -> Title] /\ id \in Ids /\ now \in Nat
  BY DEF TypeInv, TypeOK, Worker
<1>2. ~Calm
  BY DEF Calm
<1>3. ~AdmitHot
  <2>1. CASE AdmitHot
    <3>1. worker' = [Idle EXCEPT !.pc = "done", !.phase = "hot", !.day = worker.day]
      BY <2>1 DEF AdmitHot
    <3>2. worker'.pc = "done"
      BY <3>1, IdleTypes DEF Worker
    <3> QED
      BY <3>2
  <2> QED
    BY <2>1
<1>4. ASSUME NEW other \in Ids, PostponeTitle(other)
      PROVE  title'[id].removed \/ title'[id].next > now
  <2>1. other = id
    BY <1>1, <1>4 DEF PostponeTitle, Handled, Worker
  <2>2. title'[id].next = now + PostponeTicks
    BY <1>1, <1>4, <2>1 DEF PostponeTitle, Title
  <2> QED
    BY <1>1, <2>2, TimeAssumption
<1>5. ASSUME NEW other \in Ids, MarkRemoved(other)
      PROVE  title'[id].removed
  <2>1. other = id
    BY <1>1, <1>5 DEF MarkRemoved, Handled, Worker
  <2> QED
    BY <1>1, <1>5, <2>1 DEF MarkRemoved, Title
<1>6. ASSUME NEW other \in Ids, InsertNew(other) \/ StoreDetail(other) PROVE FALSE
  BY <1>1, <1>6 DEF InsertNew, StoreDetail, Worker
<1>7. ASSUME NEW other \in DOMAIN CampaignEnd, MatchCampaign(other) PROVE FALSE
  BY <1>1, <1>7 DEF MatchCampaign, Worker
<1>8. CASE StoreAdmission
  <2>1. worker.item = id
    BY <1>1, <1>8 DEF StoreAdmission, Handled, Worker
  <2> QED
    BY <1>8, <2>1, AdmissionRows
<1> QED
  BY <1>2, <1>3, <1>4, <1>5, <1>6, <1>7, <1>8, StepCalm

\* A title handled by a queue is removed or due in the future, for every size
\* of a batch and every length of a day: no pass of the loop selects it again
\* at once.
THEOREM QueuesMoveOn == Spec => QueueMovesOn
<1>1. TypeInv /\ InHand /\ [Next]_vars => [MovesOn]_vars
  BY StepMovesOn
<1> QED
  BY <1>1, HandInvariance, PTL DEF Spec, QueueMovesOn, MovesOn

-----------------------------------------------------------------------------
(* Answers being stored *)

Storing == {"passing", "item", "detail", "admission"}

\* The steps that leave the run with an answer to store.
LEMMA StepStoring ==
  ASSUME TypeInv, [Next]_vars
  PROVE  \/ ChangeBgg \/ Tick \/ UNCHANGED vars
         \/ worker'.pc \notin Storing
         \/ ReceiveMissing \/ ReceiveNew \/ ReceiveQueue \/ PassUnreadable
         \/ \E id \in Ids :
              PostponeTitle(id) \/ MarkRemoved(id) \/ InsertNew(id) \/ StoreDetail(id)
         \/ StoreAdmission
<1> USE IdleFields DEF Storing
<1>1. worker \in Worker
  BY DEF TypeInv, TypeOK
<1>2. CASE RunOnce \/ FetchFails \/ Interrupt \/ FinishHot \/ FinishScan \/ AdmitHot
  BY <1>2 DEF RunOnce, FetchFails, Interrupt, FinishHot, FinishScan, AdmitHot, Worker
<1>3. CASE BeginHot
  <2>1. \/ worker' = Idle
        \/ worker' = [Idle EXCEPT !.pc = "begin", !.phase = "scan"]
        \/ worker' = [Idle EXCEPT !.pc = "check", !.phase = "hot", !.day = Today]
    BY <1>3 DEF BeginHot
  <2> QED
    BY <2>1 DEF Worker
<1>4. CASE CheckBudget \/ ResetBudget \/ Spend
  BY <1>1, <1>4 DEF CheckBudget, ResetBudget, Spend, Goto, Worker
<1>5. CASE ReceiveHot
  BY <1>1, <1>5 DEF ReceiveHot, Worker
<1>6. CASE BeginScan
  BY <1>1, <1>6 DEF BeginScan, Worker
<1>7. CASE EndNewBatch
  BY <1>1, <1>7 DEF EndNewBatch, Worker
<1>8. CASE EmptyQueue \/ SelectBatch
  BY <1>8 DEF EmptyQueue, SelectBatch, Worker
<1>9. ASSUME NEW id \in DOMAIN CampaignEnd, MatchCampaign(id)
      PROVE  worker'.pc \notin Storing
  BY <1>1, <1>9 DEF MatchCampaign, Worker
<1> QED
  BY <1>2, <1>3, <1>4, <1>5, <1>6, <1>7, <1>8, <1>9 DEF Next

\* What the worker keeps while it stores an answer.
LEMMA StoreSteps ==
  ASSUME TypeInv, NEW id \in Ids,
         \/ PostponeTitle(id) \/ MarkRemoved(id) \/ InsertNew(id) \/ StoreDetail(id)
         \/ StoreAdmission
  PROVE  /\ worker'.phase = worker.phase /\ worker'.todo \subseteq worker.todo
         /\ worker'.answer = worker.answer /\ worker'.skipped = worker.skipped
         /\ worker'.cursor = worker.cursor /\ worker'.next = worker.next
         /\ worker.pc \in Storing \ {"passing"} /\ worker'.pc \in Storing \ {"passing"}
         /\ UNCHANGED <<listed, newest, cursor, requests, now, budgetDay, budgetUsed>>
<1>1. worker \in Worker
  BY DEF TypeInv, TypeOK
<1> USE DEF Environment, bggVars, budgetVars, Storing
<1>2. CASE PostponeTitle(id)
  BY <1>1, <1>2 DEF PostponeTitle, Queued, Handled, Worker
<1>3. CASE MarkRemoved(id)
  BY <1>1, <1>3 DEF MarkRemoved, Queued, Handled, Worker
<1>4. CASE InsertNew(id)
  BY <1>1, <1>4 DEF InsertNew, Worker
<1>5. CASE StoreDetail(id)
  BY <1>1, <1>5 DEF StoreDetail, Queued, Worker
<1>6. CASE StoreAdmission
  BY <1>1, <1>6 DEF StoreAdmission, Handled, Worker
<1> QED
  BY <1>2, <1>3, <1>4, <1>5, <1>6

-----------------------------------------------------------------------------
(* Removed titles *)

\* BGG has assigned every ID that is listed or a row; the part of a queue that
\* an answer with other IDs leaves out is not listed any more.
Assigned ==
  /\ listed \cup Known \subseteq 1..newest
  /\ worker.pc \in Storing /\ worker.phase \in {"missing", "scan"}
       => worker.todo \subseteq 1..newest

Absent ==
  worker.pc \in Storing /\ worker.phase \in Queues /\ worker.answer # {}
    => \A id \in worker.todo \cap listed : id \in worker.answer \cup worker.skipped

RemovedInv == TypeInv /\ InHand /\ Assigned /\ Absent /\ RemovedWereWithdrawn

LEMMA InitRemoved == Init => RemovedInv
<1> SUFFICES ASSUME Init PROVE RemovedInv
  OBVIOUS
<1>1. worker.pc \notin Storing
  BY IdleFields DEF Init, Storing
<1>2. Known = Imported /\ \A id \in Ids : ~title[id].removed
  BY TitleAssumption DEF Init, Known, NewTitle, NoTitle
<1> QED
  BY <1>1, <1>2, InitTypes, InitHand DEF Init, RemovedInv, Assigned, Absent,
     RemovedWereWithdrawn

\* Steps of the run leave BGG alone.
LEMMA SameWorld ==
  ASSUME [Next]_vars PROVE ChangeBgg \/ (listed' = listed /\ newest' = newest)
BY DEF Next, RunOnce, MatchCampaign, BeginHot, CheckBudget, ResetBudget, Spend, FetchFails,
   ReceiveHot, ReceiveMissing, AdmitHot, FinishHot, BeginScan, ReceiveNew, PassUnreadable,
   EndNewBatch, FinishScan, EmptyQueue, SelectBatch, ReceiveQueue, PostponeTitle,
   MarkRemoved, InsertNew, StoreDetail, StoreAdmission, Interrupt, Tick, Send,
   Environment, bggVars, vars

LEMMA ChangeAssigned ==
  ASSUME RemovedInv, ChangeBgg PROVE Assigned' /\ Absent' /\ RemovedWereWithdrawn'
<1> USE DEF RemovedInv
<1>1. title' = title /\ worker' = worker /\ Known' = Known
  BY DEF ChangeBgg, Catalog, Known
<1>2. newest \in Nat /\ newest' \in Nat /\ newest <= newest' /\ newest + 1 \notin Known
  BY SizeAssumption DEF ChangeBgg, TypeInv, TypeOK, Ids, Assigned
<1>3. \/ listed' \subseteq listed
      \/ newest' = newest + 1 /\ listed' \subseteq listed \cup {newest + 1}
  BY DEF ChangeBgg
<1>4. \A id \in Known : id \in listed' => id \in listed
  BY <1>2, <1>3
<1>5. Assigned'
  BY <1>1, <1>2, <1>3 DEF Assigned
<1>6. Absent'
  <2>1. worker.phase \in Queues => worker.todo \subseteq Known
    BY DEF InHand
  <2> QED
    BY <1>1, <1>4, <2>1 DEF Absent
<1>7. RemovedWereWithdrawn'
  <2>1. \A id \in Ids : title[id].removed => id \in Known
    BY DEF InHand
  <2> QED
    BY <1>1, <1>4, <2>1 DEF RemovedWereWithdrawn
<1> QED
  BY <1>5, <1>6, <1>7

LEMMA ReceiveAssigned ==
  ASSUME RemovedInv, ReceiveMissing \/ ReceiveNew \/ ReceiveQueue \/ PassUnreadable,
         listed' = listed, newest' = newest
  PROVE  Assigned' /\ Absent' /\ RemovedWereWithdrawn'
<1> USE DEF RemovedInv
<1>1. worker \in Worker
  BY DEF TypeInv, TypeOK
<1>2. title' = title /\ Known' = Known
  BY DEF ReceiveMissing, ReceiveNew, ReceiveQueue, PassUnreadable, Send, Environment,
     Catalog, Known
<1>3. CASE ReceiveMissing \/ ReceiveNew
  <2>1. /\ worker'.phase = worker.phase /\ worker.phase \in {"missing", "scan"}
        /\ \E result \in Answers : worker'.todo = result.answer \cap Accepted
    BY <1>1, <1>3 DEF ReceiveMissing, ReceiveNew, Worker
  <2>2. worker'.todo \subseteq listed /\ worker'.phase \notin Queues
    BY <2>1, AnswerTypes DEF TypeInv, Queues
  <2> QED
    BY <1>2, <2>2 DEF Assigned, Absent, RemovedWereWithdrawn
<1>4. CASE ReceiveQueue
  <2>1. PICK result \in Answers :
       worker' = [worker EXCEPT !.pc = "item", !.answer = result.answer,
                                !.skipped = result.skipped, !.seen = Seen(result.answer)]
    BY <1>4 DEF ReceiveQueue
  <2>2. /\ worker'.phase = worker.phase /\ worker.phase \in Queues
        /\ worker'.todo = worker.todo
        /\ worker'.answer = result.answer /\ worker'.skipped = result.skipped
    BY <1>1, <1>4, <2>1 DEF ReceiveQueue, Worker
  <2>3. result.answer # {} => worker.todo \cap listed = result.answer \cup result.skipped
    BY AnswerTypes DEF TypeInv
  <2> QED
    BY <1>2, <2>2, <2>3 DEF Assigned, Absent, RemovedWereWithdrawn, Queues
<1>5. CASE PassUnreadable
  <2>1. /\ worker'.phase = worker.phase /\ worker'.todo = worker.todo
        /\ worker'.answer = worker.answer /\ worker'.skipped = worker.skipped
        /\ worker.pc \in Storing
    BY <1>1, <1>5 DEF PassUnreadable, Goto, Worker, Storing
  <2> QED
    BY <1>2, <2>1 DEF Assigned, Absent, RemovedWereWithdrawn
<1> QED
  BY <1>3, <1>4, <1>5

LEMMA StoreAssigned ==
  ASSUME RemovedInv, NEW id \in Ids,
         \/ PostponeTitle(id) \/ MarkRemoved(id) \/ InsertNew(id) \/ StoreDetail(id)
         \/ StoreAdmission
  PROVE  Assigned' /\ Absent' /\ RemovedWereWithdrawn'
<1> USE DEF RemovedInv
<1>1. /\ worker'.phase = worker.phase /\ worker'.todo \subseteq worker.todo
      /\ worker'.answer = worker.answer /\ worker'.skipped = worker.skipped
      /\ worker.pc \in Storing
      /\ listed' = listed /\ newest' = newest
  BY StoreSteps
<1>2. title \in [Ids -> Title] /\ worker \in Worker
  BY DEF TypeInv, TypeOK
<1>3. Known' \subseteq 1..newest
  <2>1. CASE PostponeTitle(id) \/ MarkRemoved(id) \/ StoreDetail(id)
    BY <2>1, RowsOfTitle DEF Assigned
  <2>2. CASE InsertNew(id)
    <3>1. id \in worker.todo /\ worker.phase \in {"missing", "scan"}
      BY <2>2 DEF InsertNew
    <3>2. id \in 1..newest /\ Known \subseteq 1..newest
      BY <1>1, <3>1 DEF Assigned
    <3>3. Known' = Known \cup {id}
      BY <2>2, InsertRows
    <3> QED
      BY <3>2, <3>3
  <2>3. CASE StoreAdmission
    BY <2>3, AdmissionRows DEF Assigned
  <2> QED
    BY <2>1, <2>2, <2>3
<1>4. \A other \in Ids : title'[other].removed => title[other].removed \/ other \notin listed
  <2>1. CASE PostponeTitle(id)
    BY <1>2, <2>1 DEF PostponeTitle, Title
  <2>2. CASE MarkRemoved(id)
    <3>1. id \notin listed
      BY <1>1, <2>2 DEF MarkRemoved, Queued, Absent
    <3> QED
      BY <1>2, <2>2, <3>1 DEF MarkRemoved, Title
  <2>3. CASE StoreDetail(id)
    <3>1. \A other \in Ids \ {id} : title'[other] = title[other]
      BY <2>3, RowsOfTitle
    <3>2. title'[id].removed = FALSE
      BY <1>2, <2>3 DEF StoreDetail, Title
    <3> QED
      BY <3>1, <3>2
  <2>4. CASE InsertNew(id)
    BY <2>4, InsertRows
  <2>5. CASE StoreAdmission
    <3>1. \A other \in Ids : title'[other].removed = title[other].removed
      BY <2>5, AdmissionRows
    <3> QED
      BY <3>1
  <2> QED
    BY <2>1, <2>2, <2>3, <2>4, <2>5
<1>5. Assigned'
  BY <1>1, <1>3 DEF Assigned
<1>6. Absent'
  BY <1>1 DEF Absent
<1>7. RemovedWereWithdrawn'
  BY <1>1, <1>4 DEF RemovedWereWithdrawn
<1> QED
  BY <1>5, <1>6, <1>7

LEMMA StepRemoved == RemovedInv /\ [Next]_vars => RemovedInv'
<1> SUFFICES ASSUME RemovedInv, [Next]_vars PROVE RemovedInv'
  OBVIOUS
<1> USE DEF RemovedInv
<1>1. TypeInv' /\ InHand'
  BY StepTypes, StepHand
<1>2. CASE ChangeBgg
  BY <1>1, <1>2, ChangeAssigned
<1>3. CASE listed' = listed /\ newest' = newest
  <2>1. ASSUME Known' = Known, \A id \in Ids : title'[id].removed = title[id].removed,
               \/ worker'.pc \notin Storing
               \/ worker' = worker
        PROVE  RemovedInv'
    BY <1>1, <1>3, <2>1 DEF Assigned, Absent, RemovedWereWithdrawn
  <2>2. CASE Tick \/ UNCHANGED vars
    BY <2>1, <2>2 DEF Tick, Catalog, vars, Known
  <2>3. CASE ReceiveMissing \/ ReceiveNew \/ ReceiveQueue \/ PassUnreadable
    BY <1>1, <1>3, <2>3, ReceiveAssigned
  <2>4. ASSUME NEW id \in Ids,
               \/ PostponeTitle(id) \/ MarkRemoved(id) \/ InsertNew(id) \/ StoreDetail(id)
        PROVE  RemovedInv'
    BY <1>1, <2>4, StoreAssigned
  <2>5. CASE StoreAdmission
    <3>1. worker.item \in Ids
      BY <2>5, AdmissionRows DEF Known
    <3> QED
      BY <1>1, <2>5, <3>1, StoreAssigned
  <2>6. CASE worker'.pc \notin Storing /\ Calm
    BY <2>1, <2>6 DEF Calm, Known
  <2>7. CASE AdmitHot \/ \E id \in DOMAIN CampaignEnd : MatchCampaign(id)
    <3>1. CASE worker'.pc \notin Storing
      BY <2>1, <2>7, <3>1, SignalRows
    <3>2. CASE AdmitHot /\ worker'.pc \in Storing
      BY <3>2, IdleFields DEF AdmitHot, Storing, Worker
    <3>3. CASE (\E id \in DOMAIN CampaignEnd : MatchCampaign(id)) /\ worker'.pc \in Storing
      BY <3>3 DEF MatchCampaign, Storing, Worker, TypeInv, TypeOK
    <3> QED
      BY <2>7, <3>1, <3>2, <3>3
  <2> QED
    BY <1>2, <2>2, <2>3, <2>4, <2>5, <2>6, <2>7, StepStoring, StepCalm
<1> QED
  BY <1>2, <1>3, SameWorld

\* A title is marked as removed only if BGG has withdrawn it, for every size of
\* a batch: only an answer that has some of the requested IDs is taken to say
\* that the others are gone, and it stays true while the batch is stored.
THEOREM RemovedOnlyIfWithdrawn == Spec => []RemovedWereWithdrawn
<1>1. RemovedInv => RemovedWereWithdrawn
  BY DEF RemovedInv
<1> QED
  BY <1>1, InitRemoved, StepRemoved, PTL DEF Spec

-----------------------------------------------------------------------------
(* The scan for new IDs *)

Scanning == worker.phase = "scan" /\ worker.pc \in {"check", "reset", "spend", "fetch"}
StoringNew == worker.phase = "scan" /\ worker.pc \in Storing

\* The next batch lies after both cursors and after every row.
NextIsNew ==
  /\ cursor < worker.next /\ worker.cursor < worker.next
  /\ \A row \in Known : row < worker.next

\* The next scan still meets id when the stored cursor is last, or an
\* unreadable entry has passed it.
StillAhead(id, last) ==
  \/ id \in Known
  \/ id > last /\ \A row \in Known : row < id
  \/ \E passed \in Unreadable : id < passed /\ passed <= last

ScanInv ==
  /\ Scanning => NextIsNew /\ worker.todo \subseteq NewBatch(worker.next)
  /\ StoringNew =>
       /\ NextIsNew
       /\ \A id \in worker.todo \cup worker.answer : id < worker.next
       /\ \A id \in worker.todo :
            /\ StillAhead(id, cursor)
            /\ worker.pc = "passing" => StillAhead(id, worker.cursor)

\* Steps of other phases, and those that end the scan.
LEMMA OtherSteps ==
  ASSUME TypeInv, [Next]_vars
  PROVE  \/ BeginScan \/ CheckBudget \/ ResetBudget \/ Spend \/ ReceiveNew
         \/ PassUnreadable \/ EndNewBatch
         \/ \E id \in Ids : InsertNew(id) \/ StoreDetail(id)
         \/ StoreAdmission
         \/ ChangeBgg \/ Tick \/ UNCHANGED vars
         \/ ~Scanning' /\ ~StoringNew'
<1> USE IdleFields DEF Scanning, StoringNew, Storing
<1>1. worker \in Worker
  BY DEF TypeInv, TypeOK
<1>2. CASE RunOnce \/ FetchFails \/ Interrupt \/ FinishHot \/ FinishScan \/ AdmitHot
  BY <1>2 DEF RunOnce, FetchFails, Interrupt, FinishHot, FinishScan, AdmitHot, Worker
<1>3. CASE BeginHot
  <2>1. \/ worker' = Idle
        \/ worker' = [Idle EXCEPT !.pc = "begin", !.phase = "scan"]
        \/ worker' = [Idle EXCEPT !.pc = "check", !.phase = "hot", !.day = Today]
    BY <1>3 DEF BeginHot
  <2> QED
    BY <2>1 DEF Worker
<1>4. CASE ReceiveHot \/ ReceiveMissing
  <2>1. worker'.phase \in {"hot", "missing"}
    BY <1>1, <1>4 DEF ReceiveHot, ReceiveMissing, Worker
  <2> QED
    BY <2>1
<1>5. CASE EmptyQueue \/ SelectBatch \/ ReceiveQueue
  <2>1. worker'.phase \in {"campaigns", "candidates", "admitted"}
    BY <1>1, <1>5 DEF EmptyQueue, SelectBatch, ReceiveQueue, Selecting, Queues, Worker
  <2> QED
    BY <2>1
<1>6. ASSUME NEW id \in DOMAIN CampaignEnd, MatchCampaign(id)
      PROVE  worker'.pc = "match"
  BY <1>1, <1>6 DEF MatchCampaign, Worker
<1>7. ASSUME NEW id \in Ids, PostponeTitle(id) \/ MarkRemoved(id)
      PROVE  worker'.phase # "scan"
  BY <1>1, <1>7 DEF PostponeTitle, MarkRemoved, Queued, Queues, Handled, Worker
<1> QED
  BY <1>2, <1>3, <1>4, <1>5, <1>6, <1>7 DEF Next

LEMMA BatchAhead ==
  ASSUME NEW next \in Nat PROVE \A id \in NewBatch(next) : id >= next /\ id < next + Batch
BY SizeAssumption DEF NewBatch, Ids

LEMMA ScanBegins ==
  ASSUME TypeInv, ScanInv, BeginScan \/ CheckBudget \/ ResetBudget \/ Spend
  PROVE  ScanInv'
<1> USE DEF Catalog
<1>1. worker \in Worker /\ cursor \in Nat /\ now \in Nat
  BY DEF TypeInv, TypeOK
<1>2. CASE BeginScan
  <2> DEFINE start == Largest({cursor} \cup Known)
  <2>1. start \in Nat /\ cursor <= start /\ \A row \in Known : row <= start
    BY <1>1, LargestCursor DEF Known
  <2> HIDE DEF start
  <2>2. \/ worker' = [Idle EXCEPT !.pc = "begin", !.phase = "candidates"]
        \/ worker' = [worker EXCEPT !.pc = "check", !.day = Today, !.cursor = start,
                                    !.next = start + 1, !.todo = NewBatch(start + 1)]
    BY <1>2 DEF BeginScan, start
  <2>3. CASE worker' = [Idle EXCEPT !.pc = "begin", !.phase = "candidates"]
    <3>1. worker'.phase = "candidates"
      BY <2>3, IdleTypes DEF Worker
    <3> QED
      BY <3>1 DEF ScanInv, Scanning, StoringNew
  <2>4. CASE worker' = [worker EXCEPT !.pc = "check", !.day = Today, !.cursor = start,
                                      !.next = start + 1, !.todo = NewBatch(start + 1)]
    <3>1. /\ worker'.pc = "check" /\ worker'.cursor = start /\ worker'.next = start + 1
          /\ worker'.todo = NewBatch(start + 1)
      BY <1>1, <2>4 DEF Worker
    <3>2. cursor' = cursor /\ Known' = Known
      BY <1>2 DEF BeginScan, Known
    <3>3. NextIsNew'
      <4>1. \A row \in Known : row \in Nat
        BY SizeAssumption DEF Known, Ids
      <4> QED
        BY <1>1, <2>1, <3>1, <3>2, <4>1 DEF NextIsNew
    <3>4. worker'.todo \subseteq NewBatch(worker'.next)
      BY <3>1
    <3> QED
      BY <3>1, <3>3, <3>4 DEF ScanInv, Scanning, StoringNew, Storing
  <2> QED
    BY <2>2, <2>3, <2>4
<1>3. CASE CheckBudget \/ ResetBudget \/ Spend
  <2>1. cursor' = cursor /\ Known' = Known
    BY <1>3 DEF CheckBudget, ResetBudget, Spend, Known
  <2>2. CASE worker' = Idle
    BY <2>2, IdleFields DEF ScanInv, Scanning, StoringNew
  <2>3. CASE worker' # Idle
    <3>1. PICK pc \in {"reset", "spend", "fetch"} : Goto(pc)
      BY <1>3, <2>3 DEF CheckBudget, ResetBudget, Spend
    <3>2. worker.pc \in {"check", "reset", "spend"}
      BY <1>3 DEF CheckBudget, ResetBudget, Spend
    <3>3. /\ worker'.pc = pc /\ worker'.phase = worker.phase /\ worker'.todo = worker.todo
          /\ worker'.cursor = worker.cursor /\ worker'.next = worker.next
      BY <1>1, <3>1 DEF Goto, Worker
    <3> QED
      BY <2>1, <3>2, <3>3 DEF ScanInv, Scanning, StoringNew, Storing, NextIsNew
  <2> QED
    BY <2>2, <2>3
<1> QED
  BY <1>2, <1>3

LEMMA ScanReceives == ASSUME TypeInv, ScanInv, ReceiveNew PROVE ScanInv'
<1>1. /\ worker \in Worker /\ cursor \in Nat
      /\ worker.cursor \in Nat /\ worker.next \in Nat /\ worker.todo \subseteq Ids
  BY DEF TypeInv, TypeOK, Worker
<1>2. PICK result \in Answers :
       worker' = [worker EXCEPT
         !.pc = IF result.skipped = {} THEN "item" ELSE "passing",
         !.todo = result.answer \cap Accepted,
         !.answer = result.answer, !.seen = Seen(result.answer),
         !.cursor = Largest({@} \cup result.skipped), !.next = @ + Batch,
         !.empty = IF result.answer \cup result.skipped = {} THEN @ + 1 ELSE 0]
  BY DEF ReceiveNew
<1> DEFINE last == Largest({worker.cursor} \cup result.skipped)
<1>3. /\ worker'.pc = IF result.skipped = {} THEN "item" ELSE "passing"
      /\ worker'.todo = result.answer \cap Accepted /\ worker'.answer = result.answer
      /\ worker'.cursor = last /\ worker'.next = worker.next + Batch
      /\ worker'.phase = "scan"
  BY <1>1, <1>2 DEF ReceiveNew, Worker
<1>4. /\ result.answer \subseteq worker.todo
      /\ result.skipped \subseteq worker.todo \cap Unreadable
      /\ result.answer \cap result.skipped = {}
  BY AnswerTypes DEF TypeInv
<1>5. last \in {worker.cursor} \cup result.skipped /\ last \in Nat
  BY <1>1, <1>4, LargestCursor
<1> HIDE DEF last
<1>6. cursor' = cursor /\ Known' = Known
  BY DEF ReceiveNew, Send, Catalog, Known
<1>7. /\ NextIsNew
      /\ \A id \in worker.todo : id >= worker.next /\ id < worker.next + Batch
  <2>1. NextIsNew /\ worker.todo \subseteq NewBatch(worker.next)
    BY DEF ScanInv, Scanning, ReceiveNew, Send
  <2> QED
    BY <1>1, <2>1, BatchAhead
<1>8. worker.todo \subseteq Nat /\ Known \subseteq Nat
  BY <1>1, SizeAssumption DEF Known, Ids
<1>9. NextIsNew'
  <2>1. last < worker.next + Batch
    BY <1>1, <1>4, <1>5, <1>7, SizeAssumption DEF NextIsNew
  <2> QED
    BY <1>1, <1>3, <1>6, <1>7, <1>8, <2>1, SizeAssumption DEF NextIsNew
<1>10. \A id \in worker'.todo \cup worker'.answer : id < worker'.next
  BY <1>3, <1>4, <1>7
<1>11. ASSUME NEW id \in worker'.todo
       PROVE  StillAhead(id, cursor)' /\ StillAhead(id, worker.cursor)'
  <2>1. id \in worker.todo /\ id \in Nat /\ id \notin result.skipped
    BY <1>3, <1>4, <1>8
  <2>2. id > cursor /\ id > worker.cursor /\ \A row \in Known : row < id
    <3>1. id >= worker.next
      BY <1>7, <2>1
    <3>2. /\ cursor < worker.next /\ worker.cursor < worker.next
          /\ \A row \in Known : row < worker.next
      BY <1>7 DEF NextIsNew
    <3> QED
      BY <1>1, <1>8, <2>1, <3>1, <3>2
  <2>3. CASE last < id
    BY <1>3, <1>6, <2>2, <2>3 DEF StillAhead
  <2>4. CASE ~(last < id)
    <3>1. last \in Unreadable /\ id < last
      BY <1>1, <1>4, <1>5, <2>1, <2>2, <2>4
    <3> QED
      BY <1>3, <1>5, <1>6, <2>2, <3>1 DEF StillAhead
  <2> QED
    BY <2>3, <2>4
<1> QED
  BY <1>3, <1>9, <1>10, <1>11 DEF ScanInv, Scanning, StoringNew

LEMMA ScanPasses == ASSUME TypeInv, ScanInv, PassUnreadable PROVE ScanInv'
<1>1. worker \in Worker
  BY DEF TypeInv, TypeOK
<1>2. worker' = [worker EXCEPT !.pc = "item"]
  BY DEF PassUnreadable, Goto
<1>3. /\ worker'.pc = "item" /\ worker'.phase = worker.phase /\ worker'.todo = worker.todo
      /\ worker'.answer = worker.answer
      /\ worker'.cursor = worker.cursor /\ worker'.next = worker.next
  BY <1>1, <1>2 DEF Worker
<1>4. worker.pc = "passing" /\ cursor' = worker.cursor /\ Known' = Known
  BY DEF PassUnreadable, Known
<1>5. CASE worker.phase # "scan"
  BY <1>3, <1>5 DEF ScanInv, Scanning, StoringNew
<1>6. CASE worker.phase = "scan"
  <2>1. /\ NextIsNew
        /\ \A id \in worker.todo \cup worker.answer : id < worker.next
        /\ \A id \in worker.todo : StillAhead(id, worker.cursor)
    BY <1>4, <1>6 DEF ScanInv, StoringNew, Storing
  <2>2. NextIsNew' /\ \A id \in worker'.todo : StillAhead(id, cursor)'
    BY <1>3, <1>4, <2>1 DEF NextIsNew, StillAhead
  <2> QED
    BY <1>3, <2>1, <2>2 DEF ScanInv, Scanning
<1> QED
  BY <1>5, <1>6

LEMMA ScanEnds == ASSUME TypeInv, ScanInv, EndNewBatch PROVE ScanInv'
<1> DEFINE last == Largest({worker.cursor} \cup worker.answer)
<1>1. /\ worker \in Worker /\ cursor \in Nat
      /\ worker.cursor \in Nat /\ worker.next \in Nat
  BY DEF TypeInv, TypeOK, Worker
<1>2. last \in {worker.cursor} \cup worker.answer
  BY LargestCursor DEF TypeInv, TypeOK, Worker
<1>3. NextIsNew /\ \A id \in worker.answer : id < worker.next
  BY DEF EndNewBatch, ScanInv, StoringNew, Storing
<1>4. last < worker.next
  BY <1>2, <1>3 DEF NextIsNew
<1> HIDE DEF last
<1>5. /\ cursor' = last \/ cursor' = cursor
      /\ \/ worker' = [worker EXCEPT !.pc = "done"]
         \/ worker' = [worker EXCEPT !.pc = "check", !.todo = NewBatch(worker.next),
                                     !.cursor = last, !.answer = {}, !.seen = Idle.seen]
      /\ Known' = Known
  BY DEF EndNewBatch, last, Known
<1>6. CASE worker' = [worker EXCEPT !.pc = "done"]
  <2>1. worker'.pc = "done"
    BY <1>1, <1>6 DEF Worker
  <2> QED
    BY <2>1 DEF ScanInv, Scanning, StoringNew, Storing
<1>7. CASE worker' = [worker EXCEPT !.pc = "check", !.todo = NewBatch(worker.next),
                                    !.cursor = last, !.answer = {}, !.seen = Idle.seen]
  <2>1. /\ worker'.pc = "check" /\ worker'.todo = NewBatch(worker.next)
        /\ worker'.cursor = last /\ worker'.next = worker.next
    BY <1>1, <1>7 DEF Worker
  <2>2. NextIsNew'
    BY <1>3, <1>4, <1>5, <2>1 DEF NextIsNew
  <2> QED
    BY <2>1, <2>2 DEF ScanInv, StoringNew, Storing
<1> QED
  BY <1>5, <1>6, <1>7

LEMMA ScanStores ==
  ASSUME TypeInv, InHand, ScanInv, NEW id \in Ids,
         InsertNew(id) \/ StoreDetail(id) \/ StoreAdmission
  PROVE  ScanInv'
<1>1. /\ worker'.phase = worker.phase /\ worker'.todo \subseteq worker.todo
      /\ worker'.answer = worker.answer
      /\ worker'.cursor = worker.cursor /\ worker'.next = worker.next
      /\ worker.pc \in Storing \ {"passing"} /\ worker'.pc \in Storing \ {"passing"}
      /\ cursor' = cursor
  BY StoreSteps
<1>2. CASE worker.phase # "scan"
  BY <1>1, <1>2 DEF ScanInv, Scanning, StoringNew
<1>3. CASE worker.phase = "scan"
  <2>1. /\ NextIsNew
        /\ \A other \in worker.todo \cup worker.answer : other < worker.next
        /\ \A other \in worker.todo : StillAhead(other, cursor)
    BY <1>1, <1>3 DEF ScanInv, StoringNew
  <2>2. worker.todo \subseteq Nat
    BY SizeAssumption DEF TypeInv, TypeOK, Worker, Ids
  <2>3. \/ Known' = Known
        \/ /\ Known' = Known \cup {id} /\ id \in worker.todo
           /\ \A other \in worker.todo : id <= other
    <3>1. CASE InsertNew(id)
      BY <3>1, InsertRows DEF InsertNew
    <3>2. CASE StoreDetail(id)
      BY <3>2, RowsOfTitle
    <3>3. CASE StoreAdmission
      BY <3>3, AdmissionRows
    <3> QED
      BY <3>1, <3>2, <3>3
  <2>4. NextIsNew'
    BY <1>1, <2>1, <2>3 DEF NextIsNew
  <2>5. ASSUME NEW other \in worker.todo PROVE StillAhead(other, cursor)'
    <3>1. StillAhead(other, cursor)
      BY <2>1
    <3>2. CASE Known' = Known
      BY <1>1, <3>1, <3>2 DEF StillAhead
    <3>3. CASE Known' = Known \cup {id} /\ id \in worker.todo /\ id <= other
      <4>1. other = id \/ id < other
        BY <2>2, <3>3
      <4> QED
        BY <1>1, <3>1, <3>3, <4>1 DEF StillAhead
    <3> QED
      BY <2>3, <3>2, <3>3
  <2> QED
    BY <1>1, <2>1, <2>4, <2>5 DEF ScanInv, Scanning, Storing
<1> QED
  BY <1>2, <1>3

LEMMA StepScan == TypeInv /\ InHand /\ ScanInv /\ [Next]_vars => ScanInv'
<1> SUFFICES ASSUME TypeInv, InHand, ScanInv, [Next]_vars PROVE ScanInv'
  OBVIOUS
<1>1. CASE ChangeBgg \/ Tick \/ UNCHANGED vars
  <2>1. worker' = worker /\ cursor' = cursor /\ Known' = Known
    BY <1>1 DEF ChangeBgg, Tick, Catalog, vars, Known
  <2> QED
    BY <2>1 DEF ScanInv, Scanning, StoringNew, NextIsNew, StillAhead
<1>2. CASE ~Scanning' /\ ~StoringNew'
  BY <1>2 DEF ScanInv
<1>3. CASE StoreAdmission
  <2>1. worker.item \in Ids
    BY <1>3, AdmissionRows DEF Known
  <2> QED
    BY <1>3, <2>1, ScanStores
<1>4. CASE \E id \in Ids : InsertNew(id) \/ StoreDetail(id)
  BY <1>4, ScanStores
<1> QED
  BY <1>1, <1>2, <1>3, <1>4, OtherSteps, ScanBegins, ScanReceives, ScanPasses, ScanEnds

\* A run stopped anywhere in a scan leaves the unstored part of the batch ahead
\* of the next scan, for every size of a batch, unless an unreadable entry has
\* moved the cursor past it.
THEOREM StoppedScanResumes == Spec => []ScanResumes
<1>1. Init => TypeInv /\ InHand /\ ScanInv
  BY InitTypes, InitHand, IdleFields DEF Init, ScanInv, Scanning, StoringNew, Storing
<1>2. TypeInv /\ InHand /\ ScanInv /\ [Next]_vars => (TypeInv /\ InHand /\ ScanInv)'
  BY StepTypes, StepHand, StepScan
<1>3. TypeInv /\ ScanInv => ScanResumes
  <2> SUFFICES ASSUME TypeInv, ScanInv, StoringNew, NEW id \in worker.todo
               PROVE  \/ id \in Known
                      \/ id > Largest({cursor} \cup Known)
                      \/ \E passed \in Unreadable : id < passed /\ passed <= cursor
    BY DEF ScanResumes, StoringNew, Storing
  <2>1. StillAhead(id, cursor)
    BY DEF ScanInv
  <2>2. Largest({cursor} \cup Known) \in {cursor} \cup Known
    BY LargestCursor DEF TypeInv, TypeOK, Known
  <2> QED
    BY <2>1, <2>2 DEF StillAhead
<1> QED
  BY <1>1, <1>2, <1>3, PTL DEF Spec

-----------------------------------------------------------------------------
(* The budget *)

Calls(n) == n * Attempts

\* The check of the budget has passed, the request is not sent.
Passed == {"reset", "spend", "fetch"}

\* The requests there may be today: the counter is one short after a request
\* that midnight has overtaken.
Limit ==
  IF budgetDay # Today THEN (IF worker.pc \in Passed THEN 0 ELSE Attempts)
  ELSE IF worker.pc = "reset" THEN Attempts
  ELSE IF worker.pc = "fetch" THEN Calls(budgetUsed)
  ELSE Calls(budgetUsed + 1)

BudgetInv ==
  /\ budgetDay <= Today
  /\ \A day \in DOMAIN requests :
       /\ day > Today => requests[day] = 0
       /\ day = Today => requests[day] <= Limit
       /\ day < Today => requests[day] <= Calls(Budget + 1)

LEMMA CallsNat == \A n \in Nat : Calls(n) \in Nat /\ Calls(n + 1) = Calls(n) + Attempts
BY SizeAssumption DEF Calls

LEMMA CallsOrder == ASSUME NEW n \in Nat, NEW m \in Nat, n <= m PROVE Calls(n) <= Calls(m)
<1>1. PICK k \in Nat : m = n + k
  <2>1. m - n \in Nat /\ m = n + (m - n)
    OBVIOUS
  <2> QED
    BY <2>1
<1>2. Calls(m) = Calls(n) + k * Attempts
  BY <1>1, SizeAssumption DEF Calls
<1>3. k * Attempts \in Nat /\ Calls(n) \in Nat
  BY SizeAssumption, CallsNat
<1> HIDE DEF Calls
<1> QED
  BY <1>2, <1>3

LEMMA LimitTypes ==
  ASSUME TypeInv
  PROVE  Limit \in Nat /\ Limit <= Calls(Budget + 1)
<1>1. budgetUsed \in Nat /\ Budget \in Nat /\ budgetUsed <= Budget /\ Attempts \in Nat
  BY SizeAssumption DEF TypeInv, TypeOK
<1>2. /\ Calls(budgetUsed) \in Nat /\ Calls(budgetUsed + 1) \in Nat /\ Calls(Budget + 1) \in Nat
      /\ Calls(budgetUsed + 1) = Calls(budgetUsed) + Attempts
  BY <1>1, CallsNat
<1>3. Calls(budgetUsed + 1) <= Calls(Budget + 1)
  BY <1>1, CallsOrder
<1> QED
  BY <1>1, <1>2, <1>3 DEF Limit

LEMMA LaterLimitTypes == ASSUME TypeInv' PROVE Limit' \in Nat
<1>1. budgetUsed' \in Nat /\ Attempts \in Nat
  BY SizeAssumption DEF TypeInv, TypeOK
<1>2. Calls(budgetUsed') \in Nat /\ Calls(budgetUsed' + 1) \in Nat
  BY <1>1, CallsNat
<1> QED
  BY <1>1, <1>2 DEF Limit

LEMMA Days ==
  ASSUME NEW n \in Nat, NEW m \in Nat, n <= m PROVE n \div DayTicks <= m \div DayTicks
BY TimeAssumption

\* Requests of the day within a limit that only grows.
LEMMA SameDay ==
  ASSUME BudgetInv, now' = now, requests' = requests, budgetDay' <= Today,
         Limit \in Nat, Limit' \in Nat, Limit <= Limit', TypeOK
  PROVE  BudgetInv'
<1>1. Today' = Today
  BY DEF Today
<1>2. requests \in [0..(MaxClock \div DayTicks) -> Nat]
  BY DEF TypeOK
<1>3. \A day \in DOMAIN requests : requests[day] \in Nat
  BY <1>2
<1>4. ASSUME NEW day \in DOMAIN requests
      PROVE  /\ day > Today => requests[day] = 0
             /\ day = Today => requests[day] <= Limit'
             /\ day < Today => requests[day] <= Calls(Budget + 1)
  <2>1. requests[day] <= Limit /\ requests[day] \in Nat => requests[day] <= Limit'
    OBVIOUS
  <2> QED
    BY <1>3, <2>1 DEF BudgetInv
<1> QED
  BY <1>1, <1>4 DEF BudgetInv, Calls

LEMMA BudgetSteps ==
  ASSUME TypeInv, BudgetInv, CheckBudget \/ ResetBudget \/ Spend PROVE BudgetInv'
<1>1. /\ now' = now /\ requests' = requests /\ Today' = Today
      /\ worker \in Worker /\ budgetUsed \in Nat /\ Today \in Nat /\ budgetDay \in Int
  BY SizeAssumption, TodayNat DEF CheckBudget, ResetBudget, Spend, Environment, TypeInv,
     TypeOK, Today
<1>2. /\ Attempts \in Nat /\ Calls(budgetUsed) \in Nat /\ Calls(budgetUsed + 1) \in Nat
      /\ Calls(1) = Attempts
  BY <1>1, CallsNat, SizeAssumption DEF Calls
<1>3. Limit \in Nat /\ Limit' \in Nat
  <2>1. TypeInv'
    BY BudgetTypes
  <2> QED
    BY <2>1, LimitTypes, LaterLimitTypes
<1>4. budgetDay' <= Today /\ Limit <= Limit'
  <2>1. CASE CheckBudget
    <3>1. worker.pc = "check" /\ budgetUsed' = budgetUsed
      BY <2>1 DEF CheckBudget
    <3>2. CASE budgetDay # Today /\ budgetDay' = Today /\ Goto("reset")
      <4>1. worker'.pc = "reset"
        BY <3>2, GotoTypes DEF TypeInv, Pc
      <4> QED
        BY <1>1, <1>2, <3>1, <3>2, <4>1 DEF Limit, Passed
    <3>3. CASE budgetDay = Today /\ worker' = Idle /\ UNCHANGED budgetDay
      <4>1. worker'.pc = "idle"
        BY <3>3, IdleFields
      <4> QED
        BY <1>1, <1>2, <3>1, <3>3, <4>1 DEF Limit
    <3>4. CASE budgetDay = Today /\ Goto("spend") /\ UNCHANGED budgetDay
      <4>1. worker'.pc = "spend"
        BY <3>4, GotoTypes DEF TypeInv, Pc
      <4> QED
        BY <1>1, <1>2, <3>1, <3>4, <4>1 DEF Limit
    <3> QED
      BY <2>1, <3>2, <3>3, <3>4 DEF CheckBudget
  <2>2. CASE ResetBudget
    <3>1. /\ worker.pc = "reset" /\ worker'.pc = "spend"
          /\ budgetUsed' = 0 /\ budgetDay' = budgetDay
      BY <2>2, GotoTypes DEF ResetBudget, TypeInv, Pc
    <3> QED
      BY <1>1, <1>2, <3>1 DEF Limit, Passed, BudgetInv
  <2>3. CASE Spend
    <3>1. /\ worker.pc = "spend" /\ worker'.pc = "fetch"
          /\ budgetUsed' = budgetUsed + 1 /\ budgetDay' = budgetDay
      BY <2>3, GotoTypes DEF Spend, TypeInv, Pc
    <3> QED
      BY <1>1, <1>2, <3>1 DEF Limit, Passed, BudgetInv
  <2> QED
    BY <2>1, <2>2, <2>3
<1> QED
  BY <1>1, <1>3, <1>4, SameDay DEF TypeInv

\* A request adds what the client repeats to the day it is sent on.
LEMMA BudgetSends ==
  ASSUME TypeInv, BudgetInv, Send, worker'.pc \notin Passed, TypeInv' PROVE BudgetInv'
<1>1. PICK sent \in 1..Attempts : requests' = [requests EXCEPT ![Today] = @ + sent]
  BY DEF Send
<1>2. /\ now' = now /\ budgetDay' = budgetDay /\ budgetUsed' = budgetUsed
      /\ worker.pc = "fetch" /\ Today' = Today
  BY DEF Send, budgetVars, Today
<1>3. /\ budgetUsed \in Nat /\ Today \in Nat /\ budgetDay \in Int /\ Attempts \in Nat
      /\ requests \in [0..(MaxClock \div DayTicks) -> Nat] /\ sent \in Nat
  BY SizeAssumption, TodayNat DEF TypeInv, TypeOK
<1>4. /\ Calls(budgetUsed) \in Nat /\ Calls(budgetUsed + 1) = Calls(budgetUsed) + Attempts
  BY <1>3, CallsNat
<1>5. Limit' = Limit + Attempts /\ Limit \in Nat
  BY <1>2, <1>3, <1>4 DEF Limit, Passed
<1>6. \A day \in DOMAIN requests :
        /\ day = Today => requests'[day] = requests[day] + sent
        /\ day # Today => requests'[day] = requests[day]
        /\ requests[day] \in Nat
  BY <1>1, <1>3
<1>7. DOMAIN requests' = DOMAIN requests /\ DOMAIN requests \subseteq Int
  BY <1>1, <1>3
<1>8. ASSUME NEW day \in DOMAIN requests'
      PROVE  /\ day > Today => requests'[day] = 0
             /\ day = Today => requests'[day] <= Limit'
             /\ day < Today => requests'[day] <= Calls(Budget + 1)
  <2>1. day \in DOMAIN requests /\ day \in Int
    BY <1>7
  <2>2. CASE day = Today
    <3>1. requests[day] <= Limit /\ requests[day] \in Nat /\ requests'[day] = requests[day] + sent
      BY <1>6, <2>1, <2>2 DEF BudgetInv
    <3>2. sent <= Attempts
      BY <1>1
    <3> HIDE DEF Today
    <3> QED
      BY <1>3, <1>5, <2>2, <3>1, <3>2
  <2>3. CASE day # Today
    <3>1. requests'[day] = requests[day]
      BY <1>6, <2>1, <2>3
    <3> QED
      BY <2>1, <2>3, <3>1 DEF BudgetInv
  <2> QED
    BY <2>2, <2>3
<1> QED
  BY <1>2, <1>8 DEF BudgetInv, Calls

\* A tick may reach the next day, which has no requests yet.
LEMMA BudgetTicks == ASSUME TypeInv, BudgetInv, Tick PROVE BudgetInv'
<1>1. /\ requests' = requests /\ budgetDay' = budgetDay /\ budgetUsed' = budgetUsed
      /\ worker' = worker /\ now' = now + 1 /\ now \in Nat
  BY DEF Tick, budgetVars, TypeInv, TypeOK
<1>2. Today \in Nat /\ Today' \in Nat /\ Today <= Today' /\ budgetDay \in Int
  <2>1. now \div DayTicks <= (now + 1) \div DayTicks /\ now + 1 \in Nat
    BY <1>1, Days
  <2>2. now \div DayTicks \in Nat /\ (now + 1) \div DayTicks \in Nat
    BY <1>1, TimeAssumption
  <2> QED
    BY <1>1, <2>1, <2>2 DEF Today, TypeInv, TypeOK
<1>3. requests \in [0..(MaxClock \div DayTicks) -> Nat]
  BY DEF TypeInv, TypeOK
<1>4. Limit <= Calls(Budget + 1) /\ Limit \in Nat /\ Calls(Budget + 1) \in Nat
  BY LimitTypes, CallsNat, SizeAssumption
<1>5. Limit' \in Nat /\ (Today' = Today => Limit' = Limit)
  <2>1. TypeInv'
    BY WorldTypes
  <2> QED
    BY <1>1, <2>1, LaterLimitTypes DEF Limit
<1>6. ASSUME NEW day \in DOMAIN requests
      PROVE  /\ day > Today' => requests[day] = 0
             /\ day = Today' => requests[day] <= Limit'
             /\ day < Today' => requests[day] <= Calls(Budget + 1)
  <2>1. day \in Int /\ requests[day] \in Nat
    BY <1>3
  <2>2. /\ day > Today => requests[day] = 0
        /\ day = Today => requests[day] <= Limit
        /\ day < Today => requests[day] <= Calls(Budget + 1)
    BY DEF BudgetInv
  <2> HIDE DEF Today, Limit
  <2> QED
    BY <1>2, <1>4, <1>5, <2>1, <2>2
<1> QED
  BY <1>1, <1>2, <1>6 DEF BudgetInv, Calls

\* Steps that neither send a request nor touch the counter.
LEMMA BudgetStays ==
  ASSUME TypeInv, BudgetInv, TypeInv', UNCHANGED <<now, requests, budgetDay, budgetUsed>>,
         worker' = worker \/ worker'.pc \notin Passed
  PROVE  BudgetInv'
<1>1. Today' = Today
  BY DEF Today
<1>2. /\ budgetUsed \in Nat /\ Attempts \in Nat
      /\ Calls(budgetUsed) \in Nat
      /\ Calls(budgetUsed + 1) = Calls(budgetUsed) + Attempts
  <2>1. budgetUsed \in Nat /\ Attempts \in Nat
    BY SizeAssumption DEF TypeInv, TypeOK
  <2> QED
    BY <2>1, CallsNat
<1>3. Limit <= Limit'
  BY <1>1, <1>2 DEF Limit, Passed
<1>4. Limit \in Nat /\ Limit' \in Nat
  BY LimitTypes, LaterLimitTypes
<1>5. TypeOK /\ budgetDay' <= Today /\ now' = now /\ requests' = requests
  BY DEF BudgetInv, TypeInv
<1> QED
  BY <1>3, <1>4, <1>5, SameDay

LEMMA StepBudget == TypeInv /\ BudgetInv /\ [Next]_vars => BudgetInv'
<1> SUFFICES ASSUME TypeInv, BudgetInv, [Next]_vars PROVE BudgetInv'
  OBVIOUS
<1> USE DEF Passed
<1>1. TypeInv'
  BY StepTypes
<1>2. worker \in Worker
  BY DEF TypeInv, TypeOK
<1>3. CASE CheckBudget \/ ResetBudget \/ Spend
  BY <1>3, BudgetSteps
<1>4. CASE FetchFails \/ ReceiveHot \/ ReceiveMissing \/ ReceiveNew \/ ReceiveQueue
  <2>1. worker'.pc \notin Passed
    BY <1>2, <1>4, IdleFields, ZenonT(40) DEF FetchFails, ReceiveHot, ReceiveMissing, ReceiveNew,
       ReceiveQueue, Worker
  <2> QED
    BY <1>1, <1>4, <2>1, BudgetSends DEF FetchFails, ReceiveHot, ReceiveMissing,
       ReceiveNew, ReceiveQueue
<1>5. CASE Tick
  BY <1>5, BudgetTicks
<1>6. CASE ChangeBgg \/ UNCHANGED vars
  BY <1>1, <1>6, BudgetStays DEF ChangeBgg, vars, budgetVars
<1> USE DEF Environment, Catalog, budgetVars
<1>7. CASE RunOnce \/ BeginHot \/ FinishHot \/ BeginScan \/ FinishScan \/ Interrupt
  <2>1. worker'.pc \notin Passed
    <3>1. CASE BeginHot
      <4>1. \/ worker' = Idle
            \/ worker' = [Idle EXCEPT !.pc = "begin", !.phase = "scan"]
            \/ worker' = [Idle EXCEPT !.pc = "check", !.phase = "hot", !.day = Today]
        BY <3>1 DEF BeginHot
      <4> QED
        BY <4>1, IdleFields DEF Worker
    <3>2. CASE BeginScan
      BY <1>2, <3>2, IdleFields DEF BeginScan, Worker
    <3> QED
      BY <1>7, <3>1, <3>2, IdleFields DEF RunOnce, FinishHot, FinishScan, Interrupt, Worker
  <2>2. UNCHANGED <<now, requests, budgetDay, budgetUsed>>
    BY <1>7 DEF RunOnce, BeginHot, FinishHot, BeginScan, FinishScan, Interrupt
  <2> QED
    BY <1>1, <2>1, <2>2, BudgetStays
<1>8. CASE AdmitHot \/ PassUnreadable \/ EndNewBatch \/ EmptyQueue \/ SelectBatch
  <2>1. worker'.pc \notin Passed
    BY <1>2, <1>8, IdleFields DEF AdmitHot, PassUnreadable, EndNewBatch, EmptyQueue,
       SelectBatch, Goto, Worker
  <2>2. UNCHANGED <<now, requests, budgetDay, budgetUsed>>
    BY <1>8 DEF AdmitHot, PassUnreadable, EndNewBatch, EmptyQueue, SelectBatch
  <2> QED
    BY <1>1, <2>1, <2>2, BudgetStays
<1>9. ASSUME NEW id \in DOMAIN CampaignEnd, MatchCampaign(id) PROVE BudgetInv'
  <2>1. worker'.pc \notin Passed
    BY <1>2, <1>9 DEF MatchCampaign, Worker
  <2> QED
    BY <1>1, <1>9, <2>1, BudgetStays DEF MatchCampaign
<1>10. ASSUME NEW id \in Ids,
              \/ PostponeTitle(id) \/ MarkRemoved(id) \/ InsertNew(id) \/ StoreDetail(id)
       PROVE  BudgetInv'
  BY <1>1, <1>10, StoreSteps, BudgetStays DEF Storing
<1>11. CASE StoreAdmission
  <2>1. worker'.pc \notin Passed
    BY <1>2, <1>11 DEF StoreAdmission, Handled, Worker
  <2> QED
    BY <1>1, <1>11, <2>1, BudgetStays DEF StoreAdmission
<1> QED
  BY <1>3, <1>4, <1>5, <1>6, <1>7, <1>8, <1>9, <1>10, <1>11 DEF Next

\* No calendar day has more requests than the budget allows and one that
\* midnight has overtaken, each repeated by the client, for every budget,
\* however often runs are interrupted between the check and the request.
THEOREM BudgetIsRespected == Spec => []BudgetRespected
<1>1. Init => TypeInv /\ BudgetInv
  <2> SUFFICES ASSUME Init PROVE TypeInv /\ BudgetInv
    OBVIOUS
  <2>1. Today \in Nat /\ Limit \in Nat /\ Calls(Budget + 1) \in Nat
    <3>1. TypeInv /\ now \in Nat /\ Budget + 1 \in Nat
      BY InitTypes, SizeAssumption DEF TypeInv, TypeOK
    <3> QED
      BY <3>1, TodayNat, LimitTypes, CallsNat
  <2>2. budgetDay <= Today /\ \A day \in DOMAIN requests : requests[day] = 0
    BY <2>1 DEF Init
  <2> HIDE DEF Today, Limit
  <2> QED
    BY <2>1, <2>2, InitTypes DEF BudgetInv
<1>2. TypeInv /\ BudgetInv /\ [Next]_vars => (TypeInv /\ BudgetInv)'
  BY StepTypes, StepBudget
<1>3. TypeInv /\ BudgetInv => BudgetRespected
  <2> SUFFICES ASSUME TypeInv, BudgetInv, NEW day \in DOMAIN requests
               PROVE  requests[day] <= Calls(Budget + 1)
    BY DEF BudgetRespected, Calls
  <2>1. /\ Limit <= Calls(Budget + 1) /\ Limit \in Nat /\ Calls(Budget + 1) \in Nat
        /\ Today \in Nat
    <3>1. now \in Nat /\ Budget + 1 \in Nat
      BY SizeAssumption DEF TypeInv, TypeOK
    <3> QED
      BY <3>1, TodayNat, LimitTypes, CallsNat
  <2>2. day \in Int /\ requests[day] \in Nat
    BY DEF TypeInv, TypeOK
  <2>3. /\ day > Today => requests[day] = 0
        /\ day = Today => requests[day] <= Limit
        /\ day < Today => requests[day] <= Calls(Budget + 1)
    BY DEF BudgetInv
  <2> HIDE DEF Today, Limit
  <2> QED
    BY <2>1, <2>2, <2>3
<1> QED
  BY <1>1, <1>2, <1>3, PTL DEF Spec

=============================================================================
