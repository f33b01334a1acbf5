--------------------------- MODULE RulebookDiscovery ---------------------------
(***************************************************************************)
(* The search for the rulebooks of the games (RulebookDiscoveryService):   *)
(* a scheduler claims due games one by one under a lease without a         *)
(* heartbeat, asks the official providers, then the fallback providers     *)
(* when no official Italian candidate was found, submits what it found to  *)
(* the review queue and records the run.  Users force a run, and may       *)
(* acquire the best candidate at once.  Candidates are abstracted to what  *)
(* discovery tells apart; their resolution is RulebookResolver.            *)
(*                                                                         *)
(* A run reads the clock before the transaction of its claim (lines 163 and*)
(* 326; 141); the model reads it inside.  An older reading only shortens   *)
(* the lease or delays the claim.                                          *)
(***************************************************************************)
EXTENDS Integers, Sequences, FiniteSets, FiniteSetsExt

CONSTANTS Game,           \* numbers: the order of bgg_id breaks ties
          Classified,     \* games known to have no rulebook of their own
          Searcher,       \* the worker: it runs the batches
          Forcer,         \* requests that force the run of one game
          NoSearcher,
          Official, Fallback,      \* numbers of providers
          Candidate,      \* [lang, official]: what providers may offer
          Batch, LeaseTime, Refresh, EmptyRefresh, RetryBase, RetryMax,
          MaxTime, MaxSearches, MaxEscapes   \* bounds

Someone == Searcher \cup Forcer

ASSUME SearchConstants ==
  /\ Game \subseteq Nat /\ IsFiniteSet(Game) /\ Classified \subseteq Game
  /\ NoSearcher \notin Someone
  /\ IsFiniteSet(Candidate)
  /\ Official \in Nat \ {0} /\ Fallback \in Nat
  /\ {Batch, LeaseTime, Refresh, EmptyRefresh, RetryBase, RetryMax} \subseteq Nat \ {0}
ASSUME SearchBounds == {MaxTime, MaxSearches, MaxEscapes} \subseteq Nat
ASSUME SearchDoubling == \A failures \in 0..MaxSearches : 2^failures \in Nat

VARIABLES catalog, time, row, searches, reviews, documents, search, escapes
discoveryVars == <<catalog, time, row, searches, reviews, documents, search, escapes>>

NoRow == [status |-> "absent"]
Free == [step |-> "free", games |-> <<>>]

NewRow == [status |-> "pending", enabled |-> TRUE, next |-> time, owner |-> NoSearcher,
           until |-> 0, gen |-> 0, failures |-> 0]

DiscoveryTypeOK ==
  /\ time \in 0..MaxTime
  /\ {g \in Game : row[g] # NoRow} \cup documents \subseteq catalog
  /\ \A g \in Game : row[g] = NoRow \/ row[g] \in
       [status : {"pending", "running", "succeeded", "partial", "failed"}, enabled : BOOLEAN,
        next : Nat, owner : Someone \cup {NoSearcher}, until : Nat, gen : 0..MaxSearches, failures : 0..MaxSearches]
  /\ \A g \in Game : searches[g] \in
       Seq([gen : 1..MaxSearches, status : {"succeeded", "partial", "failed"}, found : SUBSET Candidate])
  /\ reviews \subseteq catalog \X Candidate
  /\ \A w \in Someone : search[w].step \in {"free", "claim", "official", "fallback", "submit", "record", "acquire"}

DiscoveryInit ==
  /\ catalog \in SUBSET Game \ {{}}
  /\ time = 0 /\ row = [g \in Game |-> NoRow] /\ searches = [g \in Game |-> <<>>]
  /\ reviews = {} /\ documents = {} /\ search = [w \in Someone |-> Free] /\ escapes = 0

-----------------------------------------------------------------------------
(* Selecting and claiming *)

Synchronized == [g \in Game |-> IF g \in catalog /\ row[g] = NoRow THEN NewRow ELSE row[g]]

\* run_due and every forced run first insert the rows that are missing; until
\* is 0 where lease_until is NULL.
SearchDue ==
  {g \in Game \ (Classified \cup documents) :
     row[g] # NoRow /\ row[g].enabled /\ row[g].next <= time /\ row[g].until <= time}

Sooner(g, h) == row[g].next < row[h].next \/ (row[g].next = row[h].next /\ g < h)

Earliest(set, n) ==
  LET rank(g) == Cardinality({h \in set : Sooner(h, g)}) + 1
      size == Min({n, Cardinality(set)})
  IN [i \in 1..size |-> CHOOSE g \in set : rank(g) = i]

SynchronizeCatalog ==
  /\ \E g \in catalog : row[g] = NoRow
  /\ row' = Synchronized
  /\ UNCHANGED <<catalog, time, searches, reviews, documents, search, escapes>>

SelectDueGames(w) ==
  /\ search[w] = Free /\ SearchDue # {}
  /\ search' = [search EXCEPT ![w] = [step |-> "claim", games |-> Earliest(SearchDue, Batch), force |-> FALSE]]
  /\ UNCHANGED <<catalog, time, row, searches, reviews, documents, escapes>>

ForceGame(w, g, acquire) ==
  /\ search[w] = Free /\ row[g] # NoRow /\ row[g].gen < MaxSearches
  /\ search' = [search EXCEPT ![w] = [step |-> "claim", games |-> <<g>>, force |-> TRUE, acquire |-> acquire]]
  /\ UNCHANGED <<catalog, time, row, searches, reviews, documents, escapes>>

\* The rest of a batch goes on.
RestOfBatch(w) ==
  IF Len(search[w].games) = 1 THEN Free
  ELSE [step |-> "claim", games |-> Tail(search[w].games), force |-> FALSE]

Claimed(w) == Head(search[w].games)

\* Mutant: a lease that was not given back never ends.
BusyWhileOwned(w) ==
  LET r == row[Claimed(w)]
  IN r.owner # NoSearcher \/ (~search[w].force /\ (~r.enabled \/ r.next > time))

Busy(w) ==
  LET r == row[Claimed(w)]
  IN r.until > time \/ (~search[w].force /\ (~r.enabled \/ r.next > time))

ClaimBusy(w) ==
  /\ search[w].step = "claim" /\ Busy(w)
  /\ search' = [search EXCEPT ![w] = RestOfBatch(w)]
  /\ UNCHANGED <<catalog, time, row, searches, reviews, documents, escapes>>

ClaimGame(w) ==
  LET g == Claimed(w)
  IN /\ search[w].step = "claim" /\ ~Busy(w) /\ row[g].gen < MaxSearches
     /\ row' = [row EXCEPT ![g].status = "running", ![g].owner = w,
                           ![g].until = time + LeaseTime, ![g].gen = @ + 1]
     /\ search' = [search EXCEPT ![w] =
          [step |-> "official", games |-> @.games, gen |-> row[g].gen + 1, found |-> {}, left |-> {},
           failed |-> 0, asked |-> Official, acquire |-> @.force /\ @.acquire]]
     /\ UNCHANGED <<catalog, time, searches, reviews, documents, escapes>>

-----------------------------------------------------------------------------
(* Asking the providers *)

Of(found, lang, official) == \E c \in found : c.lang = lang /\ c.official = official

\* A provider that fails may have offered something before.
AskOfficial(w, found, failed) ==
  /\ search[w].step = "official"
  /\ \A c \in found : c.official
  /\ LET asks == Fallback > 0 /\ ~Of(found, "it", TRUE)
     IN search' = [search EXCEPT ![w].found = found, ![w].left = found, ![w].failed = failed,
                                 ![w].step = IF asks THEN "fallback" ELSE "submit"]
  /\ UNCHANGED <<catalog, time, row, searches, reviews, documents, escapes>>

\* Beside an official English candidate only Italian ones are kept.
AskFallback(w, found, failed) ==
  /\ search[w].step = "fallback"
  /\ \A c \in found : ~c.official
  /\ LET kept == IF Of(search[w].found, "en", TRUE) THEN {c \in found : c.lang = "it"} ELSE found
         all == search[w].found \cup kept
     IN search' = [search EXCEPT ![w].found = all, ![w].left = all, ![w].failed = @ + failed,
                                 ![w].asked = Official + Fallback, ![w].step = "submit"]
  /\ UNCHANGED <<catalog, time, row, searches, reviews, documents, escapes>>

-----------------------------------------------------------------------------
(* Submitting and recording *)

\* A candidate is one review item, whoever submits it and how often; nothing
\* asks whether the lease is still held.
SubmitCandidate(w, c) ==
  /\ search[w].step = "submit" /\ c \in search[w].left
  /\ reviews' = reviews \cup {<<Claimed(w), c>>}
  /\ search' = [search EXCEPT ![w].left = @ \ {c}]
  /\ UNCHANGED <<catalog, time, row, searches, documents, escapes>>

Outcome(s) ==
  CASE s.failed = s.asked /\ s.found = {} -> "failed"
    [] s.failed > 0 /\ ~(s.failed = s.asked /\ s.found = {}) -> "partial"
    [] OTHER -> "succeeded"

\* Mutant: the run is recorded before its candidates are submitted.
PrepareRecordAtOnce(w) ==
  LET s == search[w]
  IN /\ s.step = "submit"
     /\ search' = [search EXCEPT ![w] =
          [step |-> "record", games |-> s.games, gen |-> s.gen, found |-> s.found, acquire |-> s.acquire,
           status |-> Outcome(s), failures |-> 0, next |-> time + Refresh]]
     /\ UNCHANGED <<catalog, time, row, searches, reviews, documents, escapes>>

\* The failures are counted before the transaction that checks the fence.
PrepareRecord(w) ==
  LET s == search[w]
      failures == IF Outcome(s) = "failed" THEN row[Claimed(w)].failures + 1 ELSE 0
      delay == CASE Outcome(s) = "failed" -> Min({RetryBase * 2^(failures - 1), RetryMax})
                 [] Outcome(s) # "failed" /\ s.found # {} -> Refresh
                 [] OTHER -> EmptyRefresh
  IN /\ s.step = "submit" /\ s.left = {}
     /\ search' = [search EXCEPT ![w] =
          [step |-> "record", games |-> s.games, gen |-> s.gen, found |-> s.found, acquire |-> s.acquire,
           status |-> Outcome(s), failures |-> failures, next |-> time + delay]]
     /\ UNCHANGED <<catalog, time, row, searches, reviews, documents, escapes>>

\* Mutant: the generation is not part of the fence.
FencedByLease(w) == row[Claimed(w)].owner # NoSearcher

Fenced(w) == row[Claimed(w)].owner = w /\ row[Claimed(w)].gen = search[w].gen

RecordSearch(w) ==
  LET s == search[w]
      g == Claimed(w)
  IN /\ s.step = "record" /\ Fenced(w)
     /\ row' = [row EXCEPT ![g].status = s.status, ![g].next = s.next, ![g].failures = s.failures,
                           ![g].owner = NoSearcher, ![g].until = 0]
     /\ searches' = [searches EXCEPT ![g] = Append(@, [gen |-> s.gen, status |-> s.status, found |-> s.found])]
     /\ search' = [search EXCEPT ![w] =
          IF s.acquire THEN [step |-> "acquire", games |-> s.games, found |-> s.found] ELSE RestOfBatch(w)]
     /\ UNCHANGED <<catalog, time, reviews, documents, escapes>>

\* The lease was taken over: the run ends as one that was busy.
RecordSuperseded(w) ==
  /\ search[w].step = "record" /\ ~Fenced(w)
  /\ search' = [search EXCEPT ![w] = RestOfBatch(w)]
  /\ UNCHANGED <<catalog, time, row, searches, reviews, documents, escapes>>

\* The acquisition fetches the first official candidate of the best language,
\* if there is one; the update service may fail to.
AcquireBest(w, stored) ==
  /\ search[w].step = "acquire"
  /\ stored => \E c \in search[w].found : c.official
  /\ documents' = IF stored THEN documents \cup {Claimed(w)} ELSE documents
  /\ search' = [search EXCEPT ![w] = Free]
  /\ UNCHANGED <<catalog, time, row, searches, reviews, escapes>>

-----------------------------------------------------------------------------
(* Environment *)

\* An exception that is not "busy" ends the batch; the process may also die.
\* Bound: early enough for the lease to expire before the last tick.
EscapeSearch(w) ==
  /\ escapes < MaxEscapes /\ search[w] # Free /\ time + LeaseTime <= MaxTime
  /\ search' = [search EXCEPT ![w] = Free]
  /\ escapes' = escapes + 1
  /\ UNCHANGED <<catalog, time, row, searches, reviews, documents>>

TickSearch ==
  /\ time < MaxTime
  /\ time' = time + 1
  /\ UNCHANGED <<catalog, row, searches, reviews, documents, search, escapes>>

RunGame(w) ==
  \/ ClaimBusy(w) \/ ClaimGame(w)
  \/ \E found \in SUBSET Candidate :
       \/ \E failed \in 0..Official : AskOfficial(w, found, failed)
       \/ \E failed \in 0..Fallback : AskFallback(w, found, failed)
  \/ \E c \in Candidate : SubmitCandidate(w, c)
  \/ PrepareRecord(w) \/ RecordSearch(w) \/ RecordSuperseded(w)
  \/ \E stored \in BOOLEAN : AcquireBest(w, stored)

DiscoveryNext ==
  \/ SynchronizeCatalog
  \/ \E w \in Searcher : SelectDueGames(w)
  \/ \E w \in Forcer, g \in Game, acquire \in BOOLEAN : ForceGame(w, g, acquire)
  \/ \E w \in Someone : RunGame(w) \/ EscapeSearch(w)
  \/ TickSearch

DiscoverySpec == DiscoveryInit /\ [][DiscoveryNext]_discoveryVars

\* The worker polls for ever, providers have timeouts, and time passes.
DiscoveryFairness ==
  /\ WF_discoveryVars(SynchronizeCatalog)
  /\ \A w \in Searcher : WF_discoveryVars(SelectDueGames(w))
  /\ \A w \in Someone : WF_discoveryVars(RunGame(w))
  /\ WF_discoveryVars(TickSearch)

-----------------------------------------------------------------------------
(* Properties *)

Trailing(runs) == {i \in DOMAIN runs : \A j \in i..Len(runs) : runs[j].status = "failed"}

(* What a row says is what was recorded: its failures are the failed runs  *)
(* since the last other one, although they are counted outside the fence;  *)
(* a row that is not running shows its newest run; and every candidate of a*)
(* recorded run reached the review queue, wherever other runs stopped.     *)
SearchesRecorded ==
  \A g \in Game : row[g] # NoRow =>
    /\ row[g].failures = Cardinality(Trailing(searches[g]))
    /\ row[g].status \notin {"pending", "running"} =>
         searches[g] # <<>> /\ LET last == searches[g][Len(searches[g])]
                               IN last.gen = row[g].gen /\ last.status = row[g].status
    /\ \A i \in DOMAIN searches[g] : {g} \X searches[g][i].found \subseteq reviews

(* Every game that needs a rulebook is searched in the end, although runs  *)
(* die with their lease and an exception ends the batch of the others.     *)
Searched == \A g \in catalog \ Classified : searches[g] # <<>> \/ g \in documents
GamesSearched == <>[]Searched

\* The lease columns as FencedLease sees them.
SearchLease == INSTANCE FencedLease WITH
  Resource <- Game, Worker <- Someone, NoWorker <- NoSearcher, LeaseTicks <- LeaseTime,
  MaxClock <- MaxTime, MaxClaims <- MaxSearches, now <- time,
  owner <- [g \in Game |-> IF row[g] = NoRow THEN NoSearcher ELSE row[g].owner],
  until <- [g \in Game |-> IF row[g] = NoRow THEN 0 ELSE row[g].until],
  gen <- [g \in Game |-> IF row[g] = NoRow THEN 0 ELSE row[g].gen],
  audit <- [g \in Game |-> [i \in DOMAIN searches[g] |-> searches[g][i].gen]]

(* Discovery is a fenced lease: runs are recorded in the order of the      *)
(* claims that earned them, each at most once.                             *)
SearchLeaseSpec == SearchLease!Spec

=============================================================================
