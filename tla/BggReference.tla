----------------------------- MODULE BggReference -----------------------------
(***************************************************************************)
(* The API worker of the BGG reference catalog (bgg_reference_worker.py)   *)
(* with the row updates of bgg_reference.py.                               *)
(*                                                                         *)
(* One run matches campaigns, admits the hot list, scans for new IDs and   *)
(* rechecks two queues of titles, with one request of a few IDs after the  *)
(* other under a daily budget.  Each row it stores and each cursor it      *)
(* moves is a transaction of its own, and the run may stop between any two *)
(* of them.  The dump was imported before; its rows are the first titles.  *)
(***************************************************************************)
EXTENDS Integers, FiniteSets

CONSTANTS
  LastId,         \* BGG IDs are 1..LastId
  Batch,          \* MAX_THING_IDS
  EmptyStop,      \* EMPTY_BATCHES_BEFORE_STOP
  DayTicks,       \* ticks of the clock in a day
  CandidateDays,  \* CANDIDATE_RECHECK_DAYS
  AdmittedDays,   \* ADMITTED_RECHECK_DAYS
  UpcomingTicks,  \* UPCOMING_ADMISSION_DAYS
  HotTicks,       \* HOT_ADMISSION_DAYS
  GraceTicks,     \* crowdfunding_grace_days
  PostponeTicks,  \* the six hours of _postpone
  Budget,         \* daily_budget
  Attempts,       \* max_attempts of the BGG client
  MinVotes,       \* min_votes
  Imported,       \* titles of the dump
  Listed,         \* IDs BGG lists at the start
  Recent,         \* titles of this or the last year, or unpublished
  Accepted,       \* IDs of board games and expansions
  Wished,         \* titles with wishing >= min_wishing
  Unreadable,     \* entries BGG may return in an unusable shape
  HotPool,        \* IDs that may be on the hot list
  CampaignEnd,    \* end of the campaign that matches a title
  MaxClock,       \* bound: the clock
  MaxVotes,       \* bound: votes of a title
  MaxEvents,      \* bound: publications, votes and withdrawals on BGG
  MaxFaults       \* bound: crashes and SQLite errors

Ids == 1..LastId
NoId == 0
Queues == {"candidates", "admitted"}

ASSUME SizeAssumption ==
  /\ LastId \in Nat \ {0} /\ Batch \in Nat \ {0} /\ EmptyStop \in Nat \ {0}
  /\ Budget \in Nat \ {0} /\ Attempts \in Nat \ {0} /\ MinVotes \in Nat
ASSUME TimeAssumption ==
  /\ DayTicks \in Nat \ {0} /\ CandidateDays \in Nat \ {0} /\ AdmittedDays \in Nat \ {0}
  /\ UpcomingTicks \in Nat \ {0} /\ HotTicks \in Nat \ {0} /\ GraceTicks \in Nat
  /\ PostponeTicks \in Nat \ {0}
ASSUME TitleAssumption ==
  /\ Imported \subseteq Ids /\ Listed \subseteq Ids /\ Recent \subseteq Ids
  /\ Accepted \subseteq Ids /\ Wished \subseteq Recent /\ Unreadable \subseteq Ids
  /\ CampaignEnd \in [DOMAIN CampaignEnd -> Nat] /\ DOMAIN CampaignEnd \subseteq Recent
\* The unknown IDs of a hot list fit one request.
ASSUME HotAssumption == HotPool \subseteq Ids /\ Cardinality(HotPool) <= Batch
ASSUME BoundAssumption ==
  MaxClock \in Nat /\ MaxVotes \in Nat /\ MaxEvents \in Nat /\ MaxFaults \in Nat

VARIABLES
  now,        \* the wall clock
  listed,     \* IDs BGG returns
  votes,      \* their users_rated on BGG
  newest,     \* the last ID BGG has assigned
  events,
  title,      \* bgg_reference_games
  budgetDay, budgetUsed, hotDay, newIdsDay, cursor,  \* bgg_reference_sync_state
  worker,     \* what the run is doing
  requests,   \* HTTP requests sent on each calendar day
  faults

bggVars == <<listed, votes, newest, events>>
dayVars == <<hotDay, newIdsDay>>
budgetVars == <<budgetDay, budgetUsed>>
vars == <<now, bggVars, title, budgetVars, dayVars, cursor, worker, requests, faults>>

Title ==
  [known : BOOLEAN, votes : Nat, checked : BOOLEAN, until : Nat, next : Nat,
   removed : BOOLEAN]
\* In a row, until = 0 and next = 0 are NULL.
NewTitle ==
  [known |-> TRUE, votes |-> 0, checked |-> FALSE, until |-> 0, next |-> 0,
   removed |-> FALSE]
NoTitle == [NewTitle EXCEPT !.known = FALSE]

Phase == {"campaigns", "hot", "missing", "scan"} \cup Queues
Pc ==
  {"idle", "match", "check", "reset", "spend", "fetch", "passing", "item", "detail",
   "admission", "admit", "done", "begin"}
Worker ==
  [pc : Pc, phase : Phase, day : Nat, todo : SUBSET Ids, answer : SUBSET Ids,
   skipped : SUBSET Ids, seen : [Ids -> Nat], item : Ids \cup {NoId}, hot : SUBSET Ids,
   cursor : Nat, next : Nat, empty : Nat]
Idle ==
  [pc |-> "idle", phase |-> "campaigns", day |-> 0, todo |-> {}, answer |-> {},
   skipped |-> {}, seen |-> [id \in Ids |-> 0], item |-> NoId, hot |-> {},
   cursor |-> 0, next |-> 0, empty |-> 0]

Init ==
  /\ now = 0
  /\ listed = Listed /\ votes = [id \in Ids |-> 0] /\ events = 0
  /\ newest \in Listed /\ Imported \cup Listed \subseteq 1..newest
  /\ title = [id \in Ids |-> IF id \in Imported THEN NewTitle ELSE NoTitle]
  /\ budgetDay = -1 /\ budgetUsed = 0 /\ hotDay = -1 /\ newIdsDay = -1 /\ cursor = 0
  /\ worker = Idle
  /\ requests = [day \in 0..(MaxClock \div DayTicks) |-> 0]
  /\ faults = 0

-----------------------------------------------------------------------------
(* Helpers *)

Today == now \div DayTicks
Known == {id \in Ids : title[id].known}
Largest(set) == CHOOSE x \in set : \A y \in set : y <= x

\* Mutant of Admitted: the last signal wins.
AdmittedLast(t, until) ==
  IF ~t.removed /\ t.votes < MinVotes THEN [t EXCEPT !.until = until] ELSE t

\* _admit: the admission lasting longest wins, enough votes need none.
Admitted(t, until) ==
  IF ~t.removed /\ t.votes < MinVotes /\ t.until < until
  THEN [t EXCEPT !.until = until] ELSE t

\* Mutant of NextCheck: today may be the day.
NextCheckToday(id, days) ==
  now + (days - 1 - ((Today + days + id) % days)) * DayTicks

\* _next_check: the last of the ID's own days that is at most days away.
NextCheck(id, days) ==
  now + (days - ((Today + days + id) % days)) * DayTicks

\* The conditions of _candidate_ids and _admitted_ids, but for next_check_at.
InQueue(queue, id) ==
  LET t == title[id]
  IN  /\ t.known /\ ~t.removed
      /\ IF queue = "candidates" THEN t.votes < MinVotes /\ id \in Recent
         ELSE t.votes >= MinVotes

Due(queue) == {id \in Ids : InQueue(queue, id) /\ title[id].next <= now}

\* The ORDER BY of the queues.
Before(queue, p, q) ==
  LET s == title[p]
      t == title[q]
      byVotes == queue = "admitted" /\ s.votes # t.votes
  IN  \/ s.next < t.next
      \/ s.next = t.next /\ (IF byVotes THEN s.votes > t.votes ELSE p < q)

Goto(pc) == worker' = [worker EXCEPT !.pc = pc]

\* What most steps leave alone.
Environment == <<now, bggVars, requests, faults>>
Catalog == <<title, dayVars, cursor>>

-----------------------------------------------------------------------------
(* Campaigns *)

RunOnce ==
  /\ worker.pc = "idle"
  /\ worker' = [Idle EXCEPT !.pc = "match", !.todo = DOMAIN CampaignEnd]
  /\ UNCHANGED <<Environment, Catalog, budgetVars>>

\* A campaign of one recent title admits it until the campaign's end and the
\* grace; it may as well match no title or several, or the matching has failed.
MatchCampaign(id) ==
  LET end == IF CampaignEnd[id] > now THEN CampaignEnd[id] ELSE now
      found == title[id].known /\ ~title[id].removed
  IN  /\ worker.pc = "match" /\ id \in worker.todo
      /\ \E match \in {FALSE, found} :
           title' = IF match THEN [title EXCEPT ![id] = Admitted(@, end + GraceTicks)]
                    ELSE title
      /\ worker' = [worker EXCEPT !.todo = @ \ {id}]
      /\ UNCHANGED <<Environment, dayVars, cursor, budgetVars>>

\* Without a token the run ends here; the hot list is read once a day.
BeginHot ==
  /\ worker.pc = "match" /\ worker.todo = {}
  /\ \/ worker' = Idle
     \/ worker' = IF hotDay = Today THEN [Idle EXCEPT !.pc = "begin", !.phase = "scan"]
                  ELSE [Idle EXCEPT !.pc = "check", !.phase = "hot", !.day = Today]
  /\ UNCHANGED <<Environment, Catalog, budgetVars>>

-----------------------------------------------------------------------------
(* Requests within the budget *)

\* Mutant of CheckBudget: an off-by-one.
CheckBudgetLate ==
  /\ worker.pc = "check"
  /\ \/ budgetDay # Today /\ budgetDay' = Today /\ Goto("reset")
     \/ budgetDay = Today /\ budgetUsed > Budget /\ worker' = Idle /\ UNCHANGED budgetDay
     \/ budgetDay = Today /\ budgetUsed <= Budget /\ Goto("spend") /\ UNCHANGED budgetDay
  /\ UNCHANGED <<Environment, Catalog, budgetUsed>>

\* _remaining_budget; an exhausted budget ends the run.
CheckBudget ==
  /\ worker.pc = "check"
  /\ \/ budgetDay # Today /\ budgetDay' = Today /\ Goto("reset")
     \/ budgetDay = Today /\ budgetUsed >= Budget /\ worker' = Idle /\ UNCHANGED budgetDay
     \/ budgetDay = Today /\ budgetUsed < Budget /\ Goto("spend") /\ UNCHANGED budgetDay
  /\ UNCHANGED <<Environment, Catalog, budgetUsed>>

ResetBudget ==
  /\ worker.pc = "reset"
  /\ budgetUsed' = 0 /\ Goto("spend")
  /\ UNCHANGED <<Environment, Catalog, budgetDay>>

\* Mutant of Spend: the request for the hot list is free.
SpendForThings ==
  /\ worker.pc = "spend"
  /\ budgetUsed' = IF worker.phase = "hot" THEN budgetUsed ELSE budgetUsed + 1
  /\ Goto("fetch")
  /\ UNCHANGED <<Environment, Catalog, budgetDay>>

Spend ==
  /\ worker.pc = "spend"
  /\ budgetUsed' = budgetUsed + 1 /\ Goto("fetch")
  /\ UNCHANGED <<Environment, Catalog, budgetDay>>

\* The client repeats a request that fails or that BGG asks to repeat.
Send ==
  /\ worker.pc = "fetch"
  /\ \E sent \in 1..Attempts : requests' = [requests EXCEPT ![Today] = @ + sent]
  /\ UNCHANGED <<now, bggVars, Catalog, budgetVars, faults>>

\* A network or parse error or the limiter: the run ends.
FetchFails == Send /\ worker' = Idle

\* What BGG may answer to a request for the IDs in todo: unreadable entries
\* are skipped, IDs it does not list are absent, and a hiccup leaves out all.
Answers ==
  LET found == worker.todo \cap listed
      Answer(skipped) == [answer |-> found \ skipped, skipped |-> skipped]
  IN  {Answer(skipped) : skipped \in SUBSET (found \cap Unreadable)}
        \cup {[answer |-> {}, skipped |-> {}]}

Seen(answer) == [id \in Ids |-> IF id \in answer THEN votes[id] ELSE 0]

-----------------------------------------------------------------------------
(* The hot list *)

\* Unknown IDs of the list are requested before it is admitted.
ReceiveHot ==
  /\ Send /\ worker.phase = "hot"
  /\ \E hot \in SUBSET (HotPool \cap listed) :
       LET missing == hot \ Known
       IN  worker' = IF missing = {} THEN [worker EXCEPT !.pc = "admit", !.hot = hot]
                     ELSE [worker EXCEPT !.pc = "check", !.phase = "missing",
                                         !.hot = hot, !.todo = missing]

ReceiveMissing ==
  /\ Send /\ worker.phase = "missing"
  /\ \E result \in Answers :
       worker' = [worker EXCEPT !.pc = "item", !.todo = result.answer \cap Accepted,
                                !.seen = Seen(result.answer)]

\* One transaction for the whole list.
AdmitHot ==
  /\ \/ worker.pc = "admit"
     \/ worker.pc = "item" /\ worker.phase = "missing" /\ worker.todo = {}
  /\ title' = [id \in Ids |-> IF id \in worker.hot \cap Known
                              THEN Admitted(title[id], now + HotTicks) ELSE title[id]]
  /\ worker' = [Idle EXCEPT !.pc = "done", !.phase = "hot", !.day = worker.day]
  /\ UNCHANGED <<Environment, dayVars, cursor, budgetVars>>

FinishHot ==
  /\ worker.pc = "done" /\ worker.phase = "hot"
  /\ hotDay' = worker.day
  /\ worker' = [Idle EXCEPT !.pc = "begin", !.phase = "scan"]
  /\ UNCHANGED <<Environment, title, newIdsDay, cursor, budgetVars>>

-----------------------------------------------------------------------------
(* New IDs *)

NewBatch(next) == (next..(next + Batch - 1)) \cap Ids

\* The scan starts after the cursor and after the highest ID of the table.
BeginScan ==
  LET start == Largest({cursor} \cup Known)
  IN  /\ worker.pc = "begin" /\ worker.phase = "scan"
      /\ worker' = IF newIdsDay = Today
                   THEN [Idle EXCEPT !.pc = "begin", !.phase = "candidates"]
                   ELSE [worker EXCEPT !.pc = "check", !.day = Today, !.cursor = start,
                                       !.next = start + 1, !.todo = NewBatch(start + 1)]
      /\ UNCHANGED <<Environment, Catalog, budgetVars>>

\* Mutant of ReceiveNew: the cursor is stored before the batch.
ReceiveNewCursorFirst ==
  /\ Send /\ worker.phase = "scan"
  /\ \E result \in Answers :
       worker' = [worker EXCEPT
         !.pc = "passing", !.todo = result.answer \cap Accepted,
         !.answer = result.answer, !.seen = Seen(result.answer),
         !.cursor = Largest({@} \cup result.skipped \cup result.answer),
         !.next = @ + Batch,
         !.empty = IF result.answer \cup result.skipped = {} THEN @ + 1 ELSE 0]

\* Unreadable entries move the cursor, and before their batch is stored.
ReceiveNew ==
  /\ Send /\ worker.phase = "scan"
  /\ \E result \in Answers :
       worker' = [worker EXCEPT
         !.pc = IF result.skipped = {} THEN "item" ELSE "passing",
         !.todo = result.answer \cap Accepted,
         !.answer = result.answer, !.seen = Seen(result.answer),
         !.cursor = Largest({@} \cup result.skipped), !.next = @ + Batch,
         !.empty = IF result.answer \cup result.skipped = {} THEN @ + 1 ELSE 0]

PassUnreadable ==
  /\ worker.pc = "passing"
  /\ cursor' = worker.cursor /\ Goto("item")
  /\ UNCHANGED <<Environment, title, dayVars, budgetVars>>

\* The cursor stays on the last real ID; empty batches in a row end the scan.
EndNewBatch ==
  LET last == Largest({worker.cursor} \cup worker.answer)
  IN  /\ worker.pc = "item" /\ worker.phase = "scan" /\ worker.todo = {}
      /\ cursor' = IF worker.empty = 0 THEN last ELSE cursor
      /\ worker' = IF worker.empty = EmptyStop THEN [worker EXCEPT !.pc = "done"]
                   ELSE [worker EXCEPT !.pc = "check", !.todo = NewBatch(worker.next),
                                       !.cursor = last, !.answer = {}, !.seen = Idle.seen]
      /\ UNCHANGED <<Environment, title, dayVars, budgetVars>>

FinishScan ==
  /\ worker.pc = "done" /\ worker.phase = "scan"
  /\ newIdsDay' = worker.day
  /\ worker' = [Idle EXCEPT !.pc = "begin", !.phase = "candidates"]
  /\ UNCHANGED <<Environment, title, hotDay, cursor, budgetVars>>

-----------------------------------------------------------------------------
(* Queues *)

\* The batch before is handled, the queue is read again.
Selecting ==
  /\ worker.phase \in Queues
  /\ worker.pc = "begin" \/ (worker.pc = "item" /\ worker.todo = {})

EmptyQueue ==
  /\ Selecting /\ Due(worker.phase) = {}
  /\ worker' = IF worker.phase = "admitted" THEN Idle
               ELSE [Idle EXCEPT !.pc = "begin", !.phase = "admitted"]
  /\ UNCHANGED <<Environment, Catalog, budgetVars>>

SelectBatch ==
  LET due == Due(worker.phase)
      Ahead(id) == {p \in due : Before(worker.phase, p, id)}
  IN  /\ Selecting /\ due # {}
      /\ worker' = [Idle EXCEPT !.pc = "check", !.phase = worker.phase,
                                !.todo = {id \in due : Cardinality(Ahead(id)) < Batch}]
      /\ UNCHANGED <<Environment, Catalog, budgetVars>>

ReceiveQueue ==
  /\ Send /\ worker.phase \in Queues
  /\ \E result \in Answers :
       worker' = [worker EXCEPT !.pc = "item", !.answer = result.answer,
                                !.skipped = result.skipped, !.seen = Seen(result.answer)]

\* The titles of a batch are independent and taken in any order.
Queued(id) == worker.pc = "item" /\ worker.phase \in Queues /\ id \in worker.todo

Handled(id) == worker' = [worker EXCEPT !.pc = "item", !.item = NoId, !.todo = @ \ {id}]

\* Unreadable now, or an empty answer: pushed back, never removed.
PostponeTitle(id) ==
  /\ Queued(id)
  /\ id \in worker.skipped \/ worker.answer = {}
  /\ title' = [title EXCEPT ![id].next = now + PostponeTicks]
  /\ Handled(id)
  /\ UNCHANGED <<Environment, dayVars, cursor, budgetVars>>

\* Mutant of MarkRemoved: an answer without any ID is believed.
MarkRemovedAlways(id) ==
  /\ Queued(id)
  /\ id \notin worker.answer \cup worker.skipped
  /\ title' = [title EXCEPT ![id].removed = TRUE]
  /\ Handled(id)
  /\ UNCHANGED <<Environment, dayVars, cursor, budgetVars>>

\* Absent from an answer that has other IDs.
MarkRemoved(id) ==
  /\ Queued(id)
  /\ id \notin worker.answer \cup worker.skipped /\ worker.answer # {}
  /\ title' = [title EXCEPT ![id].removed = TRUE]
  /\ Handled(id)
  /\ UNCHANGED <<Environment, dayVars, cursor, budgetVars>>

-----------------------------------------------------------------------------
(* Storing one answer *)

\* INSERT OR IGNORE of what the hot list or the scan found, in order.
InsertNew(id) ==
  /\ worker.pc = "item" /\ worker.phase \in {"missing", "scan"}
  /\ id \in worker.todo /\ \A other \in worker.todo : id <= other
  /\ title' = IF title[id].known THEN title ELSE [title EXCEPT ![id] = NewTitle]
  /\ worker' = [worker EXCEPT !.pc = "detail", !.item = id]
  /\ UNCHANGED <<Environment, dayVars, cursor, budgetVars>>

\* store_api_detail, which brings a removed title back.
StoreDetail(id) ==
  /\ \/ worker.pc = "detail" /\ id = worker.item
     \/ Queued(id) /\ id \in worker.answer
  /\ title' = [title EXCEPT ![id].votes = worker.seen[id], ![id].checked = TRUE,
                            ![id].removed = FALSE]
  /\ worker' = [worker EXCEPT !.pc = "admission", !.item = id]
  /\ UNCHANGED <<Environment, dayVars, cursor, budgetVars>>

\* The second transaction of _store: admission and next check.
StoreAdmission ==
  LET id == worker.item
      t == title[id]
      days == IF worker.phase = "admitted" THEN AdmittedDays ELSE CandidateDays
      admitted == IF worker.seen[id] >= MinVotes THEN [t EXCEPT !.until = 0]
                  ELSE IF id \in Wished THEN Admitted(t, now + UpcomingTicks) ELSE t
  IN  /\ worker.pc = "admission"
      /\ title' = [title EXCEPT ![id] = [admitted EXCEPT !.next = NextCheck(id, days)]]
      /\ Handled(id)
      /\ UNCHANGED <<Environment, dayVars, cursor, budgetVars>>

-----------------------------------------------------------------------------
(* Faults and the environment *)

\* The process dies or SQLite refuses a transaction: the run ends.
Interrupt ==
  /\ faults < MaxFaults /\ worker.pc # "idle"
  /\ faults' = faults + 1
  /\ worker' = Idle
  /\ UNCHANGED <<now, bggVars, requests, Catalog, budgetVars>>

\* BGG assigns IDs in order, some of them to nothing a client ever sees; users
\* rate, and entries are withdrawn for good.
ChangeBgg ==
  /\ events < MaxEvents /\ events' = events + 1
  /\ \/ /\ newest < LastId
        /\ newest' = newest + 1
        /\ listed' \in {listed, listed \cup {newest + 1}}
        /\ UNCHANGED votes
     \/ \E id \in listed :
          /\ votes[id] < MaxVotes
          /\ votes' = [votes EXCEPT ![id] = @ + 1]
          /\ UNCHANGED <<listed, newest>>
     \/ \E id \in listed : listed' = listed \ {id} /\ UNCHANGED <<votes, newest>>
  /\ UNCHANGED <<now, requests, faults, Catalog, budgetVars, worker>>

Tick ==
  /\ now < MaxClock
  /\ now' = now + 1
  /\ UNCHANGED <<bggVars, requests, faults, Catalog, budgetVars, worker>>

-----------------------------------------------------------------------------
Next ==
  \/ RunOnce
  \/ \E id \in DOMAIN CampaignEnd : MatchCampaign(id)
  \/ BeginHot
  \/ CheckBudget \/ ResetBudget \/ Spend \/ FetchFails
  \/ ReceiveHot \/ ReceiveMissing \/ AdmitHot \/ FinishHot
  \/ BeginScan \/ ReceiveNew \/ PassUnreadable \/ EndNewBatch \/ FinishScan
  \/ EmptyQueue \/ SelectBatch \/ ReceiveQueue
  \/ \E id \in Ids :
       PostponeTitle(id) \/ MarkRemoved(id) \/ InsertNew(id) \/ StoreDetail(id)
  \/ StoreAdmission
  \/ Interrupt
  \/ ChangeBgg
  \/ Tick

Spec == Init /\ [][Next]_vars

-----------------------------------------------------------------------------
(* Types *)

TypeOK ==
  /\ now \in Nat
  /\ listed \subseteq Ids /\ votes \in [Ids -> Nat] /\ newest \in Ids
  /\ title \in [Ids -> Title]
  /\ budgetDay \in Int /\ hotDay \in Int /\ newIdsDay \in Int
  /\ budgetUsed \in 0..Budget /\ cursor \in Nat
  /\ worker \in Worker
  /\ requests \in [0..(MaxClock \div DayTicks) -> Nat]
  /\ events \in Nat /\ faults \in Nat

-----------------------------------------------------------------------------
(* Properties *)

\* The calls of a calendar day stay within the budget, but for one when midnight
\* falls between the check of the budget and the call.
BudgetRespected ==
  \A day \in DOMAIN requests : requests[day] <= (Budget + 1) * Attempts

\* The contract gives the worker a daily budget of requests (budget giornaliero
\* di richieste).
BudgetKept ==
  \A day \in DOMAIN requests : requests[day] <= Budget

\* No signal cuts a longer admission, whatever the order of campaigns, hot
\* list and checks: it ends early only when a check has seen enough votes.
AdmissionNeverCut ==
  [][\A id \in Ids :
       title'[id].until < title[id].until
         => /\ worker.pc = "admission" /\ worker.item = id
            /\ worker.seen[id] >= MinVotes]_vars

\* A stop during the scan loses nothing: what a batch has not stored yet lies
\* behind the point where the next scan starts, unless an unreadable entry of
\* the batch has moved the cursor past it.
ScanResumes ==
  worker.phase = "scan" /\ worker.pc \in {"passing", "item", "detail", "admission"} =>
    \A id \in worker.todo :
      \/ id \in Known
      \/ id > Largest({cursor} \cup Known)
      \/ \E passed \in Unreadable : id < passed /\ passed <= cursor

\* A title is marked as removed only if BGG has withdrawn it.
RemovedWereWithdrawn ==
  \A id \in Ids : title[id].removed => id \notin listed

\* A title that a queue has handled leaves it: otherwise the loop would spend
\* the budget of the day on one batch.
QueueMovesOn ==
  [][\A id \in worker.todo \ worker'.todo :
       worker.phase \in Queues /\ worker'.pc = "item"
         => title'[id].removed \/ title'[id].next > now]_vars

=============================================================================
