----------------------- MODULE RulebookDiscoveryProofs -----------------------
(***************************************************************************)
(* Proofs about RulebookDiscovery: its types (DiscoveryTypeOK), what a row *)
(* says is what was recorded (SearchesRecorded), the searches are a fenced *)
(* lease (SearchLeaseSpec), recorded in the order of their claims, and a   *)
(* run comes nearer to its end with every step.                            *)
(***************************************************************************)
EXTENDS RulebookDiscovery, SequenceTheorems, FiniteSetTheorems, TLAPS

-----------------------------------------------------------------------------
(* The inductive invariant *)

SearchRow ==
  [status : {"pending", "running", "succeeded", "partial", "failed"}, enabled : BOOLEAN,
   next : Nat, owner : Someone \cup {NoSearcher}, until : Nat, gen : 0..MaxSearches,
   failures : 0..MaxSearches]
SearchRun ==
  [gen : 1..MaxSearches, status : {"succeeded", "partial", "failed"}, found : SUBSET Candidate]

\* What a run knows at each of its steps.
ClaimTask ==
  [step : {"claim"}, games : Seq(Game), force : {FALSE}]
    \cup [step : {"claim"}, games : Seq(Game), force : {TRUE}, acquire : BOOLEAN]
AskTask ==
  [step : {"official", "fallback", "submit"}, games : Seq(Game), gen : 1..MaxSearches,
   found : SUBSET Candidate, left : SUBSET Candidate, failed : Nat, asked : Nat,
   acquire : BOOLEAN]
RecordTask ==
  [step : {"record"}, games : Seq(Game), gen : 1..MaxSearches, found : SUBSET Candidate,
   acquire : BOOLEAN, status : {"succeeded", "partial", "failed"}, failures : Nat, next : Nat]
AcquireTask == [step : {"acquire"}, games : Seq(Game), found : SUBSET Candidate]
SearchTask == {Free} \cup ClaimTask \cup AskTask \cup RecordTask \cup AcquireTask

DiscoveryTypes ==
  /\ time \in 0..MaxTime
  /\ catalog \subseteq Game /\ documents \subseteq catalog
  /\ row \in [Game -> {NoRow} \cup SearchRow]
  /\ \A g \in Game : row[g] # NoRow => g \in catalog
  /\ searches \in [Game -> Seq(SearchRun)]
  /\ reviews \subseteq catalog \X Candidate
  /\ search \in [Someone -> SearchTask]

\* A game without a row was never searched; each failure belongs to a claim, and
\* the one that is held has not failed yet.
FailuresHeld ==
  \A g \in Game :
    /\ row[g] = NoRow => searches[g] = <<>>
    /\ row[g] # NoRow =>
         /\ row[g].failures <= row[g].gen
         /\ row[g].owner # NoSearcher => row[g].failures < row[g].gen

\* The run t of w: its games have rows, what it no longer has to submit was
\* submitted, and under its fence it counts on from the failures of the row.
TaskSound(w, t) ==
  /\ t.step # "free" => t.games # <<>>
  /\ \A i \in DOMAIN t.games : row[t.games[i]] # NoRow
  /\ t.step = "submit" => {Head(t.games)} \X (t.found \ t.left) \subseteq reviews
  /\ t.step = "record" =>
       /\ {Head(t.games)} \X t.found \subseteq reviews
       /\ row[Head(t.games)].owner = w /\ row[Head(t.games)].gen = t.gen =>
            t.failures = IF t.status = "failed" THEN row[Head(t.games)].failures + 1 ELSE 0

SearchersSound == \A w \in Someone : TaskSound(w, search[w])

DiscoveryInv == DiscoveryTypes /\ FailuresHeld /\ SearchersSound /\ SearchesRecorded

\* SearchesRecorded for one game.
Recorded(g, r, history, queue) ==
  r # NoRow =>
    /\ r.failures = Cardinality(Trailing(history))
    /\ r.status \notin {"pending", "running"} =>
         /\ history # <<>>
         /\ history[Len(history)].gen = r.gen /\ history[Len(history)].status = r.status
    /\ \A i \in DOMAIN history : {g} \X history[i].found \subseteq queue

LEMMA RecordedOfAll ==
  /\ SearchesRecorded <=> \A g \in Game : Recorded(g, row[g], searches[g], reviews)
  /\ SearchesRecorded' <=> \A g \in Game : Recorded(g, row'[g], searches'[g], reviews')
<1>1. SearchesRecorded <=> \A g \in Game : Recorded(g, row[g], searches[g], reviews)
  BY DEF SearchesRecorded, Recorded
<1>2. SearchesRecorded' <=> \A g \in Game : Recorded(g, row'[g], searches'[g], reviews')
  BY DEF SearchesRecorded, Recorded, Trailing
<1> QED
  BY <1>1, <1>2

-----------------------------------------------------------------------------
(* Lemmas about the order and the delays of the searches *)

LEMMA MinOfTwo ==
  ASSUME NEW a \in Int, NEW b \in Int
  PROVE  Min({a, b}) \in {a, b} /\ Min({a, b}) <= a /\ Min({a, b}) <= b
<1>1. \E x \in {a, b} : \A y \in {a, b} : x =< y
  OBVIOUS
<1> QED
  BY <1>1 DEF Min

\* Of the games that are due, the earliest ones are selected.
LEMMA EarliestAreDue ==
  ASSUME NEW set \in SUBSET Game, set # {}, \A g \in set : row[g].next \in Nat
  PROVE  Earliest(set, Batch) \in Seq(set) /\ Earliest(set, Batch) # <<>>
<1> DEFINE before(g) == {h \in set : Sooner(h, g)}
           rank(g) == Cardinality(before(g)) + 1
           n == Cardinality(set)
           size == Min({Batch, n})
<1>0. set \subseteq Nat /\ IsFiniteSet(set) /\ n \in Nat /\ n # 0 /\ Batch \in Nat \ {0}
  BY SearchConstants, FS_Subset, FS_CardinalityType, FS_EmptySet
<1> HIDE DEF n
<1>0a. \A g \in set : g \in Int /\ row[g].next \in Int
  BY <1>0
<1>1. ASSUME NEW g \in set
      PROVE  /\ before(g) \subseteq set \ {g} /\ IsFiniteSet(before(g))
             /\ rank(g) \in 1..n
  <2>1. ~ Sooner(g, g)
    BY <1>0 DEF Sooner
  <2>2. before(g) \subseteq set \ {g}
    BY <2>1
  <2>3. IsFiniteSet(set \ {g}) /\ Cardinality(set \ {g}) = n - 1
    BY <1>0, FS_RemoveElement DEF n
  <2>4. /\ IsFiniteSet(before(g)) /\ Cardinality(before(g)) <= n - 1
        /\ Cardinality(before(g)) \in Nat
    BY <2>2, <2>3, FS_Subset, FS_CardinalityType
  <2> QED
    BY <1>0, <2>2, <2>4
<1>2. ASSUME NEW g \in set, NEW h \in set, Sooner(g, h) PROVE rank(g) # rank(h)
  <2>1. before(g) \subseteq before(h)
    <3>1. ASSUME NEW e \in set, Sooner(e, g) PROVE Sooner(e, h)
      BY <1>0a, <1>2, <3>1 DEF Sooner
    <3> QED
      BY <3>1
  <2>2. g \in before(h) /\ g \notin before(g)
    BY <1>1, <1>2
  <2>3. IsFiniteSet(before(g)) /\ IsFiniteSet(before(h))
    BY <1>1
  <2> HIDE DEF before
  <2>4. Cardinality(before(g)) # Cardinality(before(h))
    BY <2>1, <2>2, <2>3, FS_Subset
  <2>5. Cardinality(before(g)) \in Nat /\ Cardinality(before(h)) \in Nat
    BY <2>3, FS_CardinalityType
  <2> QED
    BY <2>4, <2>5
<1>3. \A g, h \in set : g # h => Sooner(g, h) \/ Sooner(h, g)
  BY <1>0 DEF Sooner
<1> HIDE DEF rank
<1>4. \A g, h \in set : rank(g) = rank(h) => g = h
  BY <1>2, <1>3
<1> DEFINE f == [g \in set |-> rank(g)]
<1>5a. \A g \in set : rank(g) \in 1..n
  BY <1>1
<1>5b. f \in [set -> 1..n]
  BY <1>5a
<1>5c. \A g, h \in set : f[g] = f[h] => g = h
  BY <1>4
<1> HIDE DEF f
<1>5. f \in Injection(set, 1..n)
  BY <1>5b, <1>5c DEF Injection, IsInjective
<1>6. IsFiniteSet(1..n) /\ Cardinality(1..n) = n
  BY <1>0, FS_Interval
<1>7. f \in Surjection(set, 1..n)
  BY <1>5, <1>6, FS_Injection DEF n
<1>8a. \A i \in 1..n : \E g \in set : f[g] = i
  BY <1>7 DEF Surjection
<1>8. \A i \in 1..n : \E g \in set : rank(g) = i
  BY <1>8a DEF f
<1>9. size \in 1..n
  BY <1>0, MinOfTwo
<1>10. Earliest(set, Batch) = [i \in 1..size |-> CHOOSE g \in set : rank(g) = i]
  BY DEF Earliest, rank, n
<1> HIDE DEF size
<1>11. \A i \in 1..size : (CHOOSE g \in set : rank(g) = i) \in set
  BY <1>0, <1>8, <1>9
<1>12. Earliest(set, Batch) \in [1..size -> set]
  BY <1>10, <1>11
<1>13. size \in Nat \ {0}
  BY <1>0, <1>9
<1>14. Earliest(set, Batch) \in Seq(set) /\ Len(Earliest(set, Batch)) = size
  BY <1>12, <1>13
<1> HIDE DEF rank, size
<1> QED
  BY <1>13, <1>14

LEMMA RetryIsNat ==
  ASSUME NEW failures \in 1..(MaxSearches + 1)
  PROVE  Min({RetryBase * 2^(failures - 1), RetryMax}) \in Nat
<1>1. failures - 1 \in 0..MaxSearches
  BY SearchBounds
<1> DEFINE power == 2^(failures - 1)
<1>2. power \in Nat
  BY <1>1, SearchDoubling
<1> HIDE DEF power
<1>3. RetryBase \in Nat /\ RetryMax \in Nat
  BY SearchConstants
<1>4. RetryBase * power \in Nat
  BY <1>2, <1>3
<1>5. ASSUME NEW delay \in Nat PROVE Min({delay, RetryMax}) \in Nat
  <2>1. delay \in Int /\ RetryMax \in Int
    BY <1>3
  <2>2. Min({delay, RetryMax}) \in {delay, RetryMax}
    BY <2>1, MinOfTwo, Zenon
  <2> QED
    BY <1>3, <2>2
<1>6. Min({RetryBase * power, RetryMax}) \in Nat
  BY <1>4, <1>5
<1> QED
  BY <1>6 DEF power

-----------------------------------------------------------------------------
(* What holds of the runs *)

LEMMA RowFacts ==
  ASSUME DiscoveryTypes, NEW g \in Game, row[g] # NoRow
  PROVE  row[g] \in SearchRow /\ g \in catalog
BY DEF DiscoveryTypes

\* Which record a step belongs to.
LEMMA StepTask ==
  ASSUME NEW t \in SearchTask
  PROVE  /\ t.step = "free" => t = Free
         /\ t.step = "claim" => t \in ClaimTask
         /\ t.step \in {"official", "fallback", "submit"} => t \in AskTask
         /\ t.step = "record" => t \in RecordTask
         /\ t.step = "acquire" => t \in AcquireTask
         /\ t.games \in Seq(Game)
<1>1. \/ t = Free \/ t \in ClaimTask \/ t \in AskTask \/ t \in RecordTask \/ t \in AcquireTask
  BY DEF SearchTask
<1>2. CASE t = Free
  BY <1>2 DEF Free
<1>3. CASE t \in ClaimTask
  <2>1. t.step = "claim" /\ t.games \in Seq(Game)
    BY <1>3 DEF ClaimTask
  <2> QED
    BY <1>3, <2>1
<1>4. CASE t \in AskTask
  <2>1. t.step \in {"official", "fallback", "submit"} /\ t.games \in Seq(Game)
    BY <1>4 DEF AskTask
  <2> QED
    BY <1>4, <2>1
<1>5. CASE t \in RecordTask
  <2>1. t.step = "record" /\ t.games \in Seq(Game)
    BY <1>5 DEF RecordTask
  <2> QED
    BY <1>5, <2>1
<1>6. CASE t \in AcquireTask
  <2>1. t.step = "acquire" /\ t.games \in Seq(Game)
    BY <1>6 DEF AcquireTask
  <2> QED
    BY <1>6, <2>1
<1> QED
  BY <1>1, <1>2, <1>3, <1>4, <1>5, <1>6

LEMMA TaskGames ==
  ASSUME DiscoveryInv, NEW w \in Someone, search[w].step # "free"
  PROVE  /\ search[w].games \in Seq(Game) /\ search[w].games # <<>>
         /\ Claimed(w) \in Game /\ Claimed(w) \in catalog
         /\ row[Claimed(w)] # NoRow /\ row[Claimed(w)] \in SearchRow
         /\ Claimed(w) = search[w].games[1]
<1>1. search[w] \in SearchTask /\ TaskSound(w, search[w])
  BY DEF DiscoveryInv, DiscoveryTypes, SearchersSound
<1>2. search[w].games \in Seq(Game) /\ search[w].games # <<>>
  BY <1>1, StepTask DEF TaskSound
<1>3. Claimed(w) \in Game /\ Claimed(w) = search[w].games[1] /\ 1 \in DOMAIN search[w].games
  BY <1>2 DEF Claimed
<1>4. row[Claimed(w)] # NoRow
  BY <1>1, <1>3 DEF TaskSound
<1> QED
  BY <1>2, <1>3, <1>4, RowFacts DEF DiscoveryInv

\* The rest of a batch is a claim of games that have rows, or nothing.
LEMMA RestSound ==
  ASSUME DiscoveryInv, NEW w \in Someone, search[w].step # "free"
  PROVE  RestOfBatch(w) \in SearchTask /\ TaskSound(w, RestOfBatch(w))
<1> DEFINE games == search[w].games
<1>1. games \in Seq(Game) /\ games # <<>>
  BY TaskGames
<1>2. CASE Len(games) = 1
  <2>1. RestOfBatch(w) = Free
    BY <1>2 DEF RestOfBatch
  <2> QED
    BY <2>1 DEF SearchTask, TaskSound, Free
<1>3. CASE Len(games) # 1
  <2>1. RestOfBatch(w) = [step |-> "claim", games |-> Tail(games), force |-> FALSE]
    BY <1>3 DEF RestOfBatch
  <2>3. \A i \in DOMAIN games : row[games[i]] # NoRow
    BY DEF DiscoveryInv, SearchersSound, TaskSound
  <2> DEFINE rest == Tail(games)
  <2> HIDE DEF games
  <2>2a. Tail(games) \in Seq(Game) /\ Len(Tail(games)) = Len(games) - 1
    BY <1>1
  <2>2b. Len(games) \in Nat /\ Len(games) # 0
    BY <1>1
  <2>2c0. Len(games) # 1 /\ Len(games) - 1 # 0
    BY <1>3, <2>2b DEF games
  <2>2c. Tail(games) # <<>>
    BY <2>2a, <2>2c0
  <2>2d. ASSUME NEW i \in DOMAIN Tail(games)
         PROVE  i + 1 \in DOMAIN games /\ Tail(games)[i] = games[i + 1]
    BY <1>1, <2>2a, <2>2b
  <2>2. /\ Tail(games) \in Seq(Game) /\ Tail(games) # <<>>
        /\ \A i \in DOMAIN Tail(games) : i + 1 \in DOMAIN games /\ Tail(games)[i] = games[i + 1]
    BY <2>2a, <2>2c, <2>2d
  <2>4. rest \in Seq(Game) /\ rest # <<>> /\ \A i \in DOMAIN rest : row[rest[i]] # NoRow
    BY <2>2, <2>3
  <2> HIDE DEF rest, games
  <2>5. RestOfBatch(w) = [step |-> "claim", games |-> rest, force |-> FALSE]
    BY <2>1 DEF rest, games
  <2>6a. RestOfBatch(w) \in [step : {"claim"}, games : Seq(Game), force : {FALSE}]
    BY <2>4, <2>5
  <2>6. RestOfBatch(w) \in ClaimTask
    BY <2>6a DEF ClaimTask
  <2> QED
    BY <2>4, <2>5, <2>6 DEF SearchTask, TaskSound
<1> QED
  BY <1>2, <1>3

\* A run stays sound while rows stay, the queue grows and no row of its fence
\* changes.
LEMMA StaysSound ==
  ASSUME NEW v \in Someone, NEW t \in SearchTask, TaskSound(v, t), reviews \subseteq reviews',
         \A g \in Game :
           /\ row[g] # NoRow => row'[g] # NoRow
           /\ row[g] # NoRow /\ row'[g].owner = v =>
                /\ row[g].owner = v /\ row'[g].gen = row[g].gen
                /\ row'[g].failures = row[g].failures
  PROVE  TaskSound(v, t)'
<1>1. \A i \in DOMAIN t.games : t.games[i] \in Game
  BY StepTask
<1>2. \A i \in DOMAIN t.games : row'[t.games[i]] # NoRow
  BY <1>1 DEF TaskSound
<1>3. CASE t.step # "record"
  BY <1>2, <1>3 DEF TaskSound
<1>4. CASE t.step = "record"
  <2>1. t.games \in Seq(Game) /\ t.games # <<>>
    BY <1>4, StepTask DEF RecordTask, TaskSound
  <2>2. Head(t.games) \in Game /\ row[Head(t.games)] # NoRow
    BY <2>1 DEF TaskSound
  <2> QED
    BY <1>2, <1>4, <2>1, <2>2 DEF TaskSound
<1> QED
  BY <1>3, <1>4
LEMMA SearchersStaySound ==
  ASSUME DiscoveryInv, NEW w \in Someone, NEW next \in SearchTask,
         search' = [search EXCEPT ![w] = next], TaskSound(w, next)', reviews \subseteq reviews',
         \A g \in Game, v \in Someone \ {w} :
           /\ row[g] # NoRow => row'[g] # NoRow
           /\ row[g] # NoRow /\ row'[g].owner = v =>
                /\ row[g].owner = v /\ row'[g].gen = row[g].gen
                /\ row'[g].failures = row[g].failures
  PROVE  search' \in [Someone -> SearchTask] /\ SearchersSound'
<1>1. search \in [Someone -> SearchTask] /\ \A v \in Someone : TaskSound(v, search[v])
  BY DEF DiscoveryInv, DiscoveryTypes, SearchersSound
<1>2. search' \in [Someone -> SearchTask]
  BY <1>1
<1>3. search'[w] = next /\ \A v \in Someone \ {w} : search'[v] = search[v]
  BY <1>1
<1>4. ASSUME NEW v \in Someone PROVE TaskSound(v, search[v])' 
  <2>1. CASE v = w
    BY <1>3, <2>1 DEF TaskSound
  <2>2. CASE v # w
    <3>1. PICK t \in SearchTask : t = search[v]
      BY <1>1
    <3>2. TaskSound(v, t)
      BY <1>1, <3>1
    <3>3. TaskSound(v, t)'
      BY <2>2, <3>2, StaysSound
    <3>4. search'[v] = t
      BY <1>3, <2>2, <3>1
    <3> QED
      BY <3>3, <3>4 DEF TaskSound
  <2> QED
    BY <2>1, <2>2
<1> QED
  BY <1>2, <1>4 DEF SearchersSound

\* Most steps move one run only.
LEMMA SearchMoves ==
  ASSUME DiscoveryInv, NEW w \in Someone, NEW next \in SearchTask, TaskSound(w, next),
         search' = [search EXCEPT ![w] = next],
         UNCHANGED <<catalog, time, row, searches, reviews, documents>>
  PROVE  DiscoveryInv'
<1>1. TaskSound(w, next)'
  BY DEF TaskSound
<1>2. search' \in [Someone -> SearchTask] /\ SearchersSound'
  BY <1>1, SearchersStaySound
<1>3. DiscoveryTypes'
  BY <1>2 DEF DiscoveryInv, DiscoveryTypes
<1>4. FailuresHeld'
  BY DEF DiscoveryInv, FailuresHeld
<1>5. SearchesRecorded'
  BY RecordedOfAll DEF DiscoveryInv
<1> QED
  BY <1>2, <1>3, <1>4, <1>5 DEF DiscoveryInv

LEMMA FreeSound ==
  ASSUME NEW w \in Someone
  PROVE  Free \in SearchTask /\ TaskSound(w, Free)
BY DEF SearchTask, TaskSound, Free

-----------------------------------------------------------------------------
(* Every step keeps the invariant *)

LEMMA InitSound == DiscoveryInit => DiscoveryInv
<1> SUFFICES ASSUME DiscoveryInit PROVE DiscoveryInv
  OBVIOUS
<1>1. /\ catalog \subseteq Game /\ time = 0 /\ row = [g \in Game |-> NoRow]
      /\ searches = [g \in Game |-> <<>>] /\ reviews = {} /\ documents = {}
      /\ search = [w \in Someone |-> Free]
  BY DEF DiscoveryInit
<1>2. DiscoveryTypes
  <2>1. 0 \in 0..MaxTime
    BY SearchBounds
  <2>2. search \in [Someone -> SearchTask]
    BY <1>1, FreeSound
  <2>3. searches \in [Game -> Seq(SearchRun)]
    BY <1>1
  <2> QED
    BY <1>1, <2>1, <2>2, <2>3 DEF DiscoveryTypes
<1>3. FailuresHeld /\ SearchesRecorded
  BY <1>1 DEF FailuresHeld, SearchesRecorded
<1>4. SearchersSound
  BY <1>1, FreeSound DEF SearchersSound
<1> QED
  BY <1>2, <1>3, <1>4 DEF DiscoveryInv

LEMMA SelectKeeps ==
  ASSUME DiscoveryInv, NEW w \in Someone, SelectDueGames(w)
  PROVE  DiscoveryInv'
<1> DEFINE games == Earliest(SearchDue, Batch)
<1>1. /\ SearchDue \subseteq Game /\ SearchDue # {}
      /\ \A g \in SearchDue : row[g] # NoRow
  BY DEF SelectDueGames, SearchDue
<1>2. \A g \in SearchDue : row[g].next \in Nat
  BY <1>1, RowFacts DEF DiscoveryInv, SearchRow
<1>3. games \in Seq(SearchDue) /\ games # <<>>
  BY <1>1, <1>2, EarliestAreDue
<1>4. search' = [search EXCEPT ![w] = [step |-> "claim", games |-> games, force |-> FALSE]]
  BY DEF SelectDueGames
<1> HIDE DEF games
<1>5. PICK next : next = [step |-> "claim", games |-> games, force |-> FALSE]
  OBVIOUS
<1>6. games \in Seq(Game) /\ \A i \in DOMAIN games : row[games[i]] # NoRow
  BY <1>1, <1>3
<1>7. next \in [step : {"claim"}, games : Seq(Game), force : {FALSE}]
  BY <1>5, <1>6
<1>8. next \in SearchTask
  BY <1>7 DEF SearchTask, ClaimTask
<1>9. TaskSound(w, next)
  BY <1>3, <1>5, <1>6 DEF TaskSound
<1>10. search' = [search EXCEPT ![w] = next]
  BY <1>4, <1>5
<1> QED
  BY <1>8, <1>9, <1>10, SearchMoves DEF SelectDueGames

LEMMA ForceKeeps ==
  ASSUME DiscoveryInv, NEW w \in Someone, NEW g \in Game, NEW acquire \in BOOLEAN,
         ForceGame(w, g, acquire)
  PROVE  DiscoveryInv'
<1>1. PICK next : next = [step |-> "claim", games |-> <<g>>, force |-> TRUE, acquire |-> acquire]
  OBVIOUS
<1>2. search' = [search EXCEPT ![w] = next] /\ row[g] # NoRow
  BY <1>1 DEF ForceGame
<1>3. <<g>> \in Seq(Game)
  OBVIOUS
<1>4. next \in [step : {"claim"}, games : Seq(Game), force : {TRUE}, acquire : BOOLEAN]
  BY <1>1, <1>3
<1>5. next \in SearchTask
  BY <1>4 DEF SearchTask, ClaimTask
<1>6. TaskSound(w, next)
  BY <1>1, <1>2 DEF TaskSound
<1> QED
  BY <1>2, <1>5, <1>6, SearchMoves DEF ForceGame

\* A run that was busy or superseded leaves the rest of its batch.
LEMMA RestKeeps ==
  ASSUME DiscoveryInv, NEW w \in Someone, ClaimBusy(w) \/ RecordSuperseded(w)
  PROVE  DiscoveryInv'
<1>1. /\ search[w].step # "free" /\ search' = [search EXCEPT ![w] = RestOfBatch(w)]
      /\ UNCHANGED <<catalog, time, row, searches, reviews, documents>>
  BY DEF ClaimBusy, RecordSuperseded
<1>2. PICK next : next = RestOfBatch(w)
  OBVIOUS
<1>3. next \in SearchTask /\ TaskSound(w, next)
  BY <1>1, <1>2, RestSound
<1> QED
  BY <1>1, <1>2, <1>3, SearchMoves

LEMMA EscapeKeeps ==
  ASSUME DiscoveryInv, NEW w \in Someone, EscapeSearch(w)
  PROVE  DiscoveryInv'
<1>1. PICK next : next = Free
  OBVIOUS
<1>2. next \in SearchTask /\ TaskSound(w, next) /\ search' = [search EXCEPT ![w] = next]
  BY <1>1, FreeSound DEF EscapeSearch
<1> QED
  BY <1>2, SearchMoves DEF EscapeSearch

\* What a run that asks or submits holds.
LEMMA AskFacts ==
  ASSUME DiscoveryInv, NEW w \in Someone,
         search[w].step \in {"official", "fallback", "submit"}
  PROVE  /\ search[w] \in AskTask /\ TaskSound(w, search[w])
         /\ search[w].games \in Seq(Game) /\ search[w].games # <<>>
         /\ search[w].gen \in 1..MaxSearches /\ search[w].found \in SUBSET Candidate
         /\ search[w].left \in SUBSET Candidate /\ search[w].failed \in Nat
         /\ search[w].asked \in Nat /\ search[w].acquire \in BOOLEAN
         /\ \A i \in DOMAIN search[w].games : row[search[w].games[i]] # NoRow
<1>1. search[w] \in SearchTask /\ TaskSound(w, search[w])
  BY DEF DiscoveryInv, DiscoveryTypes, SearchersSound
<1>2. search[w] \in AskTask
  BY <1>1, StepTask
<1> QED
  BY <1>1, <1>2 DEF AskTask, TaskSound

LEMMA AskKeeps ==
  ASSUME DiscoveryInv, NEW w \in Someone, NEW found \in SUBSET Candidate, NEW failed \in Nat,
         AskOfficial(w, found, failed) \/ AskFallback(w, found, failed)
  PROVE  DiscoveryInv'
<1>1. search[w].step \in {"official", "fallback"}
  BY DEF AskOfficial, AskFallback
<1>2. Official \in Nat /\ Official + Fallback \in Nat
  BY SearchConstants
<1>3. PICK t : t = search[w]
  OBVIOUS
<1>4. /\ t \in AskTask /\ t.games \in Seq(Game) /\ t.games # <<>> /\ t.failed \in Nat
      /\ t.found \in SUBSET Candidate /\ t.step \in {"official", "fallback"}
      /\ \A i \in DOMAIN t.games : row[t.games[i]] # NoRow
  BY <1>1, <1>3, AskFacts
<1>5. \E all \in SUBSET Candidate, count \in Nat, asked \in Nat, to \in {"fallback", "submit"} :
        search' = [search EXCEPT ![w] = [t EXCEPT !.found = all, !.left = all, !.failed = count,
                                                  !.asked = asked, !.step = to]]
  <2>1. CASE AskOfficial(w, found, failed)
    <3>1. PICK to \in {"fallback", "submit"} :
            search' = [search EXCEPT ![w].found = found, ![w].left = found, ![w].failed = failed,
                                     ![w].step = to]
      BY <2>1 DEF AskOfficial
    <3>2. t.asked \in Nat
      BY <1>4 DEF AskTask
    <3>3. search \in [Someone -> SearchTask]
      BY DEF DiscoveryInv, DiscoveryTypes
    <3>4. [t EXCEPT !.found = found, !.left = found, !.failed = failed, !.step = to]
            = [t EXCEPT !.found = found, !.left = found, !.failed = failed, !.asked = t.asked, !.step = to]
      BY <1>4 DEF AskTask
    <3>5. search' = [search EXCEPT ![w] =
            [t EXCEPT !.found = found, !.left = found, !.failed = failed, !.step = to]]
      BY <1>3, <3>1, <3>3
    <3>6. search' = [search EXCEPT ![w] =
            [t EXCEPT !.found = found, !.left = found, !.failed = failed, !.asked = t.asked, !.step = to]]
      BY <3>4, <3>5
    <3> QED
      BY <3>2, <3>6
  <2>2. CASE AskFallback(w, found, failed)
    <3>1. PICK all \in SUBSET Candidate :
            search' = [search EXCEPT ![w].found = all, ![w].left = all, ![w].failed = @ + failed,
                                     ![w].asked = Official + Fallback, ![w].step = "submit"]
      BY <1>3, <1>4, <2>2 DEF AskFallback
    <3>2. t.failed + failed \in Nat
      BY <1>4
    <3>3. search \in [Someone -> SearchTask]
      BY DEF DiscoveryInv, DiscoveryTypes
    <3>4. search' = [search EXCEPT ![w] =
            [t EXCEPT !.found = all, !.left = all, !.failed = t.failed + failed,
                      !.asked = Official + Fallback, !.step = "submit"]]
      BY <1>3, <3>1, <3>3
    <3> QED
      BY <1>2, <3>2, <3>4
  <2> QED
    BY <2>1, <2>2
<1>6. PICK all \in SUBSET Candidate, count \in Nat, asked \in Nat, to \in {"fallback", "submit"} :
        search' = [search EXCEPT ![w] = [t EXCEPT !.found = all, !.left = all, !.failed = count,
                                                  !.asked = asked, !.step = to]]
  BY <1>5
<1>7. PICK next : next = [t EXCEPT !.found = all, !.left = all, !.failed = count,
                                   !.asked = asked, !.step = to]
  OBVIOUS
<1>8. next \in AskTask /\ next.games = t.games /\ next.step = to /\ next.found = all /\ next.left = all
  BY <1>4, <1>7 DEF AskTask
<1>9. next \in SearchTask
  BY <1>8 DEF SearchTask
<1>10. TaskSound(w, next)
  BY <1>4, <1>8 DEF TaskSound
<1>11. search' = [search EXCEPT ![w] = next]
  BY <1>6, <1>7
<1> QED
  BY <1>9, <1>10, <1>11, SearchMoves DEF AskOfficial, AskFallback

LEMMA SubmitKeeps ==
  ASSUME DiscoveryInv, NEW w \in Someone, NEW c \in Candidate, SubmitCandidate(w, c)
  PROVE  DiscoveryInv'
<1>0. search[w].step = "submit"
  BY DEF SubmitCandidate
<1>1. PICK t : t = search[w]
  OBVIOUS
<1>2. /\ t \in AskTask /\ TaskSound(w, t) /\ t.games \in Seq(Game) /\ t.games # <<>>
      /\ t.left \in SUBSET Candidate /\ t.step = "submit" /\ Claimed(w) = Head(t.games)
      /\ Claimed(w) \in catalog
  BY <1>0, <1>1, AskFacts, TaskGames DEF Claimed
<1>3. PICK next : next = [t EXCEPT !.left = @ \ {c}]
  OBVIOUS
<1>4. search' = [search EXCEPT ![w] = next]
  <2>1. search \in [Someone -> SearchTask]
    BY DEF DiscoveryInv, DiscoveryTypes
  <2> QED
    BY <1>1, <1>3, <2>1 DEF SubmitCandidate
<1>5. /\ next \in AskTask /\ next.games = t.games /\ next.step = "submit"
      /\ next.found = t.found /\ next.left = t.left \ {c}
  BY <1>2, <1>3 DEF AskTask
<1>6. next \in SearchTask
  BY <1>5 DEF SearchTask
<1>7. /\ reviews' = reviews \cup {<<Head(t.games), c>>}
      /\ UNCHANGED <<catalog, time, row, searches, documents>>
  BY <1>2 DEF SubmitCandidate
<1>8. TaskSound(w, next)'
  <2>1. {Head(t.games)} \X (t.found \ t.left) \subseteq reviews
    BY <1>2 DEF TaskSound
  <2>2. {Head(next.games)} \X (next.found \ next.left) \subseteq reviews'
    BY <1>5, <1>7, <2>1
  <2>3. next.games # <<>> /\ \A i \in DOMAIN next.games : row[next.games[i]] # NoRow
    BY <1>2, <1>5 DEF TaskSound
  <2> QED
    BY <1>5, <1>7, <2>2, <2>3 DEF TaskSound
<1>9. search' \in [Someone -> SearchTask] /\ SearchersSound'
  BY <1>4, <1>6, <1>7, <1>8, SearchersStaySound
<1>10. DiscoveryTypes'
  BY <1>2, <1>7, <1>9 DEF DiscoveryInv, DiscoveryTypes
<1>11. FailuresHeld'
  BY <1>7 DEF DiscoveryInv, FailuresHeld
<1>12. SearchesRecorded'
  <2>1. \A g \in Game : Recorded(g, row[g], searches[g], reviews)
    BY RecordedOfAll DEF DiscoveryInv
  <2>2. \A g \in Game : Recorded(g, row[g], searches[g], reviews')
    BY <1>7, <2>1 DEF Recorded
  <2> QED
    BY <1>7, <2>2, RecordedOfAll
<1> QED
  BY <1>9, <1>10, <1>11, <1>12 DEF DiscoveryInv

LEMMA PrepareKeeps ==
  ASSUME DiscoveryInv, NEW w \in Someone, PrepareRecord(w)
  PROVE  DiscoveryInv'
<1>0. search[w].step = "submit" /\ search[w].left = {}
  BY DEF PrepareRecord
<1>1. PICK t : t = search[w]
  OBVIOUS
<1>2. /\ t \in AskTask /\ TaskSound(w, t) /\ t.games \in Seq(Game) /\ t.games # <<>>
      /\ t.gen \in 1..MaxSearches /\ t.found \in SUBSET Candidate /\ t.acquire \in BOOLEAN
      /\ t.step = "submit" /\ t.left = {} /\ Claimed(w) = Head(t.games)
      /\ row[Head(t.games)] \in SearchRow
      /\ \A i \in DOMAIN t.games : row[t.games[i]] # NoRow
  BY <1>0, <1>1, AskFacts, TaskGames DEF Claimed
<1> DEFINE failures == IF Outcome(t) = "failed" THEN row[Head(t.games)].failures + 1 ELSE 0
           delay == CASE Outcome(t) = "failed" -> Min({RetryBase * 2^(failures - 1), RetryMax})
                      [] Outcome(t) # "failed" /\ t.found # {} -> Refresh
                      [] OTHER -> EmptyRefresh
<1>3. Outcome(t) \in {"succeeded", "partial", "failed"}
  BY DEF Outcome
<1>4. row[Head(t.games)].failures \in 0..MaxSearches
  BY <1>2 DEF SearchRow
<1>5. failures \in Nat /\ (Outcome(t) = "failed" => failures \in 1..(MaxSearches + 1))
  BY <1>4, SearchBounds
<1>6. time + delay \in Nat
  <2>1. time \in Nat
    BY SearchBounds DEF DiscoveryInv, DiscoveryTypes
  <2>2. Refresh \in Nat /\ EmptyRefresh \in Nat
    BY SearchConstants
  <2> HIDE DEF failures
  <2>3. Outcome(t) = "failed" => Min({RetryBase * 2^(failures - 1), RetryMax}) \in Nat
    BY <1>5, RetryIsNat
  <2>4. delay \in Nat
    BY <2>2, <2>3
  <2> QED
    BY <2>1, <2>4
<1>7. search' = [search EXCEPT ![w] =
        [step |-> "record", games |-> t.games, gen |-> t.gen, found |-> t.found,
         acquire |-> t.acquire, status |-> Outcome(t), failures |-> failures,
         next |-> time + delay]]
  BY <1>1, <1>2 DEF PrepareRecord
<1>8. failures = IF Outcome(t) = "failed" THEN row[Head(t.games)].failures + 1 ELSE 0
  OBVIOUS
<1> HIDE DEF failures, delay
<1>9. PICK next : next = [step |-> "record", games |-> t.games, gen |-> t.gen, found |-> t.found,
                          acquire |-> t.acquire, status |-> Outcome(t), failures |-> failures,
                          next |-> time + delay]
  OBVIOUS
<1>10. search' = [search EXCEPT ![w] = next]
  BY <1>7, <1>9
<1>11. next \in RecordTask
  BY <1>2, <1>3, <1>5, <1>6, <1>9 DEF RecordTask
<1>12. next \in SearchTask
  BY <1>11 DEF SearchTask
<1>13. {Head(t.games)} \X t.found \subseteq reviews
  <2>1. {Head(t.games)} \X (t.found \ t.left) \subseteq reviews
    BY <1>2 DEF TaskSound
  <2>2. t.found \ t.left = t.found
    BY <1>2
  <2> QED
    BY <2>1, <2>2
<1>14. TaskSound(w, next)
  BY <1>2, <1>8, <1>9, <1>13 DEF TaskSound
<1> QED
  BY <1>10, <1>12, <1>14, SearchMoves DEF PrepareRecord

LEMMA AcquireKeeps ==
  ASSUME DiscoveryInv, NEW w \in Someone, NEW stored \in BOOLEAN, AcquireBest(w, stored)
  PROVE  DiscoveryInv'
<1>1. PICK next : next = Free
  OBVIOUS
<1>2. /\ search' = [search EXCEPT ![w] = next]
      /\ UNCHANGED <<catalog, time, row, searches, reviews>>
  BY <1>1 DEF AcquireBest
<1>3. next \in SearchTask /\ TaskSound(w, next)'
  BY <1>1, FreeSound DEF TaskSound, Free
<1>4. search' \in [Someone -> SearchTask] /\ SearchersSound'
  BY <1>2, <1>3, SearchersStaySound
<1>5. Claimed(w) \in catalog
  BY TaskGames DEF AcquireBest
<1>6. documents' \subseteq catalog
  BY <1>5 DEF AcquireBest, DiscoveryInv, DiscoveryTypes
<1>7. DiscoveryTypes'
  BY <1>2, <1>4, <1>6 DEF DiscoveryInv, DiscoveryTypes
<1>8. FailuresHeld'
  BY <1>2 DEF DiscoveryInv, FailuresHeld
<1>9. SearchesRecorded'
  BY <1>2, RecordedOfAll DEF DiscoveryInv
<1> QED
  BY <1>4, <1>7, <1>8, <1>9 DEF DiscoveryInv

LEMMA TickKeeps ==
  ASSUME DiscoveryInv, TickSearch
  PROVE  DiscoveryInv'
<1>1. UNCHANGED <<catalog, row, searches, reviews, documents, search>>
  BY DEF TickSearch
<1>2. time' \in 0..MaxTime
  BY SearchBounds DEF TickSearch, DiscoveryInv, DiscoveryTypes
<1>3. DiscoveryTypes'
  BY <1>1, <1>2 DEF DiscoveryInv, DiscoveryTypes
<1>4. FailuresHeld'
  BY <1>1 DEF DiscoveryInv, FailuresHeld
<1>5. SearchersSound'
  BY <1>1 DEF DiscoveryInv, SearchersSound, TaskSound
<1>6. SearchesRecorded'
  BY <1>1, RecordedOfAll DEF DiscoveryInv
<1> QED
  BY <1>3, <1>4, <1>5, <1>6 DEF DiscoveryInv

LEMMA NoTrailing == Cardinality(Trailing(<<>>)) = 0
<1>1. Trailing(<<>>) = {}
  BY DEF Trailing
<1> QED
  BY <1>1, FS_EmptySet

LEMMA SynchronizeKeeps ==
  ASSUME DiscoveryInv, SynchronizeCatalog
  PROVE  DiscoveryInv'
<1>1. /\ row' = Synchronized
      /\ UNCHANGED <<catalog, time, searches, reviews, documents, search>>
  BY DEF SynchronizeCatalog
<1>2. NewRow \in SearchRow /\ NewRow # NoRow
  <2>1. time \in Nat /\ 0 \in 0..MaxSearches
    BY SearchBounds DEF DiscoveryInv, DiscoveryTypes
  <2>2. NewRow \in SearchRow
    BY <2>1 DEF NewRow, SearchRow
  <2>3. NewRow.status # NoRow.status
    BY DEF NewRow, NoRow
  <2> QED
    BY <2>2, <2>3
<1>3. ASSUME NEW g \in Game
      PROVE  \/ row'[g] = row[g]
             \/ row[g] = NoRow /\ g \in catalog /\ row'[g] = NewRow /\ searches[g] = <<>>
  BY <1>1 DEF Synchronized, DiscoveryInv, FailuresHeld
<1>4. row' \in [Game -> {NoRow} \cup SearchRow] /\ \A g \in Game : row'[g] # NoRow => g \in catalog
  <2>1. DOMAIN row' = Game /\ row' = [g \in Game |-> row'[g]]
    BY <1>1 DEF Synchronized
  <2>2. \A g \in Game : row'[g] \in {NoRow} \cup SearchRow /\ (row'[g] # NoRow => g \in catalog)
    BY <1>2, <1>3 DEF DiscoveryInv, DiscoveryTypes
  <2> QED
    BY <2>1, <2>2
<1>5. DiscoveryTypes'
  BY <1>1, <1>4 DEF DiscoveryInv, DiscoveryTypes
<1>6. FailuresHeld'
  <2>1. NewRow.failures = 0 /\ NewRow.gen = 0 /\ NewRow.owner = NoSearcher
    BY DEF NewRow
  <2>2. ASSUME NEW g \in Game
        PROVE  /\ row'[g] = NoRow => searches'[g] = <<>>
               /\ row'[g] # NoRow =>
                    /\ row'[g].failures <= row'[g].gen
                    /\ row'[g].owner # NoSearcher => row'[g].failures < row'[g].gen
    BY <1>1, <1>2, <1>3, <2>1 DEF DiscoveryInv, FailuresHeld
  <2> QED
    BY <2>2 DEF FailuresHeld
<1>7. SearchersSound'
  <2>1. ASSUME NEW v \in Someone PROVE TaskSound(v, search[v])'
    <3>1. PICK t \in SearchTask : t = search[v]
      BY DEF DiscoveryInv, DiscoveryTypes
    <3>2. TaskSound(v, t)
      BY <3>1 DEF DiscoveryInv, SearchersSound
    <3>3. \A g \in Game :
            /\ row[g] # NoRow => row'[g] # NoRow
            /\ row[g] # NoRow /\ row'[g].owner = v =>
                 /\ row[g].owner = v /\ row'[g].gen = row[g].gen
                 /\ row'[g].failures = row[g].failures
      BY <1>3
    <3>4. TaskSound(v, t)'
      BY <1>1, <3>2, <3>3, StaysSound
    <3>5. search'[v] = t
      BY <1>1, <3>1
    <3> QED
      BY <3>4, <3>5 DEF TaskSound
  <2> QED
    BY <2>1 DEF SearchersSound
<1>8. SearchesRecorded'
  <2>1. ASSUME NEW g \in Game PROVE Recorded(g, row'[g], searches'[g], reviews')
    <3>1. CASE row'[g] = row[g]
      BY <1>1, <3>1, RecordedOfAll DEF DiscoveryInv
    <3>2. CASE row'[g] = NewRow /\ searches[g] = <<>>
      <4>1. NewRow.failures = 0 /\ NewRow.status = "pending"
        BY DEF NewRow
      <4>2. Recorded(g, NewRow, <<>>, reviews)
        BY <4>1, NoTrailing DEF Recorded
      <4> QED
        BY <1>1, <3>2, <4>2
    <3> QED
      BY <1>3, <3>1, <3>2
  <2> QED
    BY <2>1, RecordedOfAll
<1> QED
  BY <1>5, <1>6, <1>7, <1>8 DEF DiscoveryInv

\* A claim takes the row of the game and starts to ask.
LEMMA ClaimFacts ==
  ASSUME DiscoveryInv, NEW w \in Someone, ClaimGame(w)
  PROVE  \E g \in Game, new \in SearchRow, next \in AskTask :
           /\ Claimed(w) = g /\ row[g] # NoRow /\ row[g] \in SearchRow /\ row[g].until <= time
           /\ row' = [row EXCEPT ![g] = new] /\ search' = [search EXCEPT ![w] = next]
           /\ new.owner = w /\ new.until = time + LeaseTime /\ new.gen = row[g].gen + 1
           /\ new.failures = row[g].failures /\ new.status = "running"
           /\ next.step = "official" /\ next.games = search[w].games
           /\ UNCHANGED <<catalog, time, searches, reviews, documents>>
<1>1. search[w].step = "claim" /\ ~ Busy(w) /\ row[Claimed(w)].gen < MaxSearches
  BY DEF ClaimGame
<1>2. PICK t : t = search[w]
  OBVIOUS
<1>3. PICK g \in Game : g = Claimed(w)
  BY <1>1, TaskGames
<1>4. /\ t \in ClaimTask /\ t.games \in Seq(Game) /\ row[g] # NoRow /\ row[g] \in SearchRow
  <2>1. search[w] \in SearchTask
    BY DEF DiscoveryInv, DiscoveryTypes
  <2> QED
    BY <1>1, <1>2, <1>3, <2>1, StepTask, TaskGames
<1>5. PICK r \in SearchRow : r = row[g]
  BY <1>4
<1>6. r.gen \in Nat /\ r.gen < MaxSearches /\ MaxSearches \in Nat
  BY <1>1, <1>3, <1>5, SearchBounds DEF SearchRow
<1>7. r.gen + 1 \in 1..MaxSearches /\ r.gen + 1 \in 0..MaxSearches
  BY <1>6
<1>8. time \in Nat /\ LeaseTime \in Nat /\ Official \in Nat
  BY SearchConstants, SearchBounds DEF DiscoveryInv, DiscoveryTypes
<1>9. time + LeaseTime \in Nat
  BY <1>8
<1>10. r.until <= time
  <2>1. r.until \in Nat
    BY DEF SearchRow
  <2> QED
    BY <1>1, <1>3, <1>5, <1>8, <2>1 DEF Busy
<1>11. PICK acquire \in BOOLEAN : acquire = (t.force /\ t.acquire)
  <2>1. (t.force /\ t.acquire) \in BOOLEAN
    BY Zenon
  <2> QED
    BY <2>1, Zenon
<1>12. PICK new : new = [r EXCEPT !.status = "running", !.owner = w, !.until = time + LeaseTime,
                                  !.gen = r.gen + 1]
  OBVIOUS
<1>13. /\ new \in SearchRow /\ new.owner = w /\ new.until = time + LeaseTime /\ new.gen = r.gen + 1
       /\ new.failures = r.failures /\ new.status = "running"
  BY <1>7, <1>9, <1>12 DEF SearchRow
<1>14. row' = [row EXCEPT ![g] = new]
  <2>1. row \in [Game -> {NoRow} \cup SearchRow]
    BY DEF DiscoveryInv, DiscoveryTypes
  <2>2. row' = [row EXCEPT ![g].status = "running", ![g].owner = w,
                           ![g].until = time + LeaseTime, ![g].gen = @ + 1]
    BY <1>3 DEF ClaimGame
  <2> QED
    BY <1>5, <1>12, <2>1, <2>2
<1>15. PICK next : next = [step |-> "official", games |-> t.games, gen |-> r.gen + 1, found |-> {},
                           left |-> {}, failed |-> 0, asked |-> Official, acquire |-> acquire]
  OBVIOUS
<1>16. next \in AskTask /\ next.step = "official" /\ next.games = t.games
  BY <1>4, <1>7, <1>8, <1>15 DEF AskTask
<1>17. search' = [search EXCEPT ![w] = next]
  <2>1. search' = [search EXCEPT ![w] =
          [step |-> "official", games |-> search[w].games, gen |-> row[g].gen + 1, found |-> {},
           left |-> {}, failed |-> 0, asked |-> Official,
           acquire |-> search[w].force /\ search[w].acquire]]
    <3>1. search \in [Someone -> SearchTask]
      BY DEF DiscoveryInv, DiscoveryTypes
    <3> QED
      BY <1>3, <3>1 DEF ClaimGame
  <2>2. acquire = (search[w].force /\ search[w].acquire)
    BY <1>2, <1>11
  <2> QED
    BY <1>2, <1>5, <1>15, <2>1, <2>2
<1>18. UNCHANGED <<catalog, time, searches, reviews, documents>>
  BY DEF ClaimGame
<1> QED
  BY <1>2, <1>3, <1>4, <1>5, <1>10, <1>13, <1>14, <1>16, <1>17, <1>18

LEMMA ClaimKeeps ==
  ASSUME DiscoveryInv, NEW w \in Someone, ClaimGame(w)
  PROVE  DiscoveryInv'
<1>1. PICK g \in Game, new \in SearchRow, next \in AskTask :
        /\ Claimed(w) = g /\ row[g] # NoRow /\ row[g] \in SearchRow /\ row[g].until <= time
        /\ row' = [row EXCEPT ![g] = new] /\ search' = [search EXCEPT ![w] = next]
        /\ new.owner = w /\ new.until = time + LeaseTime /\ new.gen = row[g].gen + 1
        /\ new.failures = row[g].failures /\ new.status = "running"
        /\ next.step = "official" /\ next.games = search[w].games
        /\ UNCHANGED <<catalog, time, searches, reviews, documents>>
  BY ClaimFacts
<1>2. new # NoRow
  BY <1>1 DEF NoRow
<1>3. /\ row \in [Game -> {NoRow} \cup SearchRow] /\ search \in [Someone -> SearchTask]
      /\ g \in catalog
  BY <1>1, RowFacts DEF DiscoveryInv, DiscoveryTypes
<1>4. row'[g] = new /\ \A h \in Game \ {g} : row'[h] = row[h]
  BY <1>1, <1>3
<1>5. next \in SearchTask
  BY DEF SearchTask
<1>6. TaskSound(w, next)'
  <2>1. search[w].games # <<>> /\ \A i \in DOMAIN search[w].games : row[search[w].games[i]] # NoRow
    <3>1. search[w].step = "claim"
      BY DEF ClaimGame
    <3> QED
      BY <3>1 DEF DiscoveryInv, SearchersSound, TaskSound
  <2>2. search[w].games \in Seq(Game)
    BY <1>3, StepTask
  <2>3. \A h \in Game : row[h] # NoRow => row'[h] # NoRow
    BY <1>2, <1>4
  <2>4. \A i \in DOMAIN next.games : row'[next.games[i]] # NoRow
    BY <1>1, <2>1, <2>2, <2>3
  <2> QED
    BY <1>1, <2>1, <2>4 DEF TaskSound
<1>7. \A h \in Game, v \in Someone \ {w} :
        /\ row[h] # NoRow => row'[h] # NoRow
        /\ row[h] # NoRow /\ row'[h].owner = v =>
             /\ row[h].owner = v /\ row'[h].gen = row[h].gen
             /\ row'[h].failures = row[h].failures
  BY <1>1, <1>2, <1>4
<1>8. search' \in [Someone -> SearchTask] /\ SearchersSound'
  <2>1. reviews \subseteq reviews'
    BY <1>1
  <2> QED
    BY <1>1, <1>5, <1>6, <1>7, <2>1, SearchersStaySound
<1>9. DiscoveryTypes'
  <2>1. row' \in [Game -> {NoRow} \cup SearchRow] /\ \A h \in Game : row'[h] # NoRow => h \in catalog
    BY <1>1, <1>3, <1>4 DEF DiscoveryInv, DiscoveryTypes
  <2> QED
    BY <1>1, <1>8, <2>1 DEF DiscoveryInv, DiscoveryTypes
<1>10. FailuresHeld'
  <2>1. /\ row[g].failures \in Nat /\ row[g].gen \in Nat /\ row[g].failures <= row[g].gen
    BY <1>1, SearchBounds DEF DiscoveryInv, FailuresHeld, SearchRow
  <2>2. new.failures < new.gen /\ new.failures <= new.gen
    BY <1>1, <2>1
  <2> QED
    BY <1>1, <1>2, <1>4, <2>2 DEF DiscoveryInv, FailuresHeld
<1>11. SearchesRecorded'
  <2>1. ASSUME NEW h \in Game PROVE Recorded(h, row'[h], searches'[h], reviews')
    <3>1. Recorded(h, row[h], searches[h], reviews)
      BY RecordedOfAll DEF DiscoveryInv
    <3>2. CASE h # g
      BY <1>1, <1>4, <3>1, <3>2
    <3>3. CASE h = g
      BY <1>1, <1>4, <3>1, <3>3 DEF Recorded
    <3> QED
      BY <3>2, <3>3
  <2> QED
    BY <2>1, RecordedOfAll
<1> QED
  BY <1>8, <1>9, <1>10, <1>11 DEF DiscoveryInv

\* One more failed run at the end is one more of them; any other run ends them.
LEMMA TrailingFinite ==
  ASSUME NEW history \in Seq(SearchRun)
  PROVE  IsFiniteSet(Trailing(history)) /\ Cardinality(Trailing(history)) \in Nat
<1>1. Trailing(history) \subseteq 1..Len(history) /\ Len(history) \in Nat
  BY DEF Trailing
<1>2. IsFiniteSet(1..Len(history))
  BY <1>1, FS_Interval
<1> QED
  BY <1>1, <1>2, FS_Subset, FS_CardinalityType

LEMMA TrailingOfAppend ==
  ASSUME NEW history \in Seq(SearchRun), NEW run \in SearchRun
  PROVE  Cardinality(Trailing(Append(history, run)))
           = IF run.status = "failed" THEN Cardinality(Trailing(history)) + 1 ELSE 0
<1> DEFINE n == Len(history)
           longer == Append(history, run)
<1>1. /\ n \in Nat /\ DOMAIN history = 1..n
      /\ longer \in Seq(SearchRun) /\ Len(longer) = n + 1 /\ DOMAIN longer = 1..(n + 1)
      /\ \A i \in 1..n : longer[i] = history[i]
      /\ longer[n + 1] = run
  OBVIOUS
<1> HIDE DEF longer, n
<1>2. \A i \in Trailing(longer) : i \in 1..(n + 1) /\ run.status = "failed"
  <2>1. ASSUME NEW i \in Trailing(longer) PROVE i \in 1..(n + 1) /\ longer[n + 1].status = "failed"
    <3>1. i \in 1..(n + 1) /\ \A j \in i..(n + 1) : longer[j].status = "failed"
      BY <1>1 DEF Trailing
    <3>2. n + 1 \in i..(n + 1)
      BY <1>1, <3>1
    <3> QED
      BY <3>1, <3>2
  <2> QED
    BY <1>1, <2>1
<1>3. CASE run.status # "failed"
  <2>1. Trailing(longer) = {}
    BY <1>2, <1>3
  <2> QED
    BY <1>3, <2>1, FS_EmptySet DEF longer
<1>4. CASE run.status = "failed"
  <2>1. ASSUME NEW i \in 1..n PROVE i \in Trailing(longer) <=> i \in Trailing(history)
    <3>1. i..(n + 1) = (i..n) \cup {n + 1}
      BY <1>1
    <3>2. (\A j \in i..(n + 1) : longer[j].status = "failed")
            <=> (\A j \in i..n : longer[j].status = "failed")
      BY <1>1, <1>4, <3>1
    <3>3. \A j \in i..n : longer[j] = history[j]
      BY <1>1
    <3>4. i \in DOMAIN longer /\ i \in DOMAIN history
      BY <1>1
    <3> QED
      BY <1>1, <3>2, <3>3, <3>4 DEF Trailing, n
  <2>2. n + 1 \in Trailing(longer)
    <3>1. n + 1 \in DOMAIN longer /\ (n + 1)..(n + 1) = {n + 1}
      BY <1>1
    <3> QED
      BY <1>1, <1>4, <3>1 DEF Trailing
  <2>3. Trailing(history) \subseteq 1..n
    BY <1>1 DEF Trailing
  <2>4. 1..(n + 1) = (1..n) \cup {n + 1}
    BY <1>1
  <2>5. Trailing(longer) = Trailing(history) \cup {n + 1} /\ n + 1 \notin Trailing(history)
    <3>1. n + 1 \notin 1..n
      BY <1>1
    <3> QED
      BY <1>2, <2>1, <2>2, <2>3, <2>4, <3>1
  <2> QED
    BY <1>4, <2>5, TrailingFinite, FS_AddElement DEF longer
<1> QED
  BY <1>3, <1>4

\* A run that holds the lease records what it found and gives the lease back.
LEMMA RecordFacts ==
  ASSUME DiscoveryInv, NEW w \in Someone, RecordSearch(w)
  PROVE  \E g \in Game, new \in SearchRow, run \in SearchRun, next \in SearchTask :
           /\ row[g] # NoRow /\ row[g] \in SearchRow /\ row[g].owner = w /\ g \in catalog
           /\ row' = [row EXCEPT ![g] = new] /\ search' = [search EXCEPT ![w] = next]
           /\ searches' = [searches EXCEPT ![g] = Append(@, run)]
           /\ new.owner = NoSearcher /\ new.until = 0 /\ new.gen = row[g].gen
           /\ new.failures = IF run.status = "failed" THEN row[g].failures + 1 ELSE 0
           /\ new.status = run.status /\ run.gen = row[g].gen
           /\ {g} \X run.found \subseteq reviews
           /\ next.step # "record" /\ TaskSound(w, next)
           /\ UNCHANGED <<catalog, time, reviews, documents>>
<1>1. search[w].step = "record" /\ Fenced(w)
  BY DEF RecordSearch
<1>2. PICK t : t = search[w]
  OBVIOUS
<1>3. PICK g \in Game : g = Claimed(w)
  BY <1>1, TaskGames
<1>4. /\ t \in RecordTask /\ TaskSound(w, t) /\ t.games \in Seq(Game) /\ t.games # <<>>
      /\ g = Head(t.games) /\ g \in catalog /\ row[g] # NoRow /\ row[g] \in SearchRow
      /\ search[w] \in SearchTask /\ search \in [Someone -> SearchTask]
  <2>1. search[w] \in SearchTask /\ TaskSound(w, search[w]) /\ search \in [Someone -> SearchTask]
    BY DEF DiscoveryInv, DiscoveryTypes, SearchersSound
  <2> QED
    BY <1>1, <1>2, <1>3, <2>1, StepTask, TaskGames DEF Claimed
<1>5. PICK r \in SearchRow : r = row[g]
  BY <1>4
<1>6. /\ t.gen \in 1..MaxSearches /\ t.found \in SUBSET Candidate /\ t.acquire \in BOOLEAN
      /\ t.status \in {"succeeded", "partial", "failed"} /\ t.failures \in Nat /\ t.next \in Nat
      /\ t.step = "record"
  BY <1>4 DEF RecordTask
<1>7. r.owner = w /\ r.gen = t.gen /\ w # NoSearcher
  BY <1>1, <1>2, <1>3, <1>5, SearchConstants DEF Fenced
<1>8. /\ {g} \X t.found \subseteq reviews
      /\ t.failures = IF t.status = "failed" THEN r.failures + 1 ELSE 0
  BY <1>4, <1>5, <1>6, <1>7 DEF TaskSound
<1>9. t.failures \in 0..MaxSearches
  <2>1. r.failures < r.gen
    BY <1>4, <1>5, <1>7 DEF DiscoveryInv, FailuresHeld
  <2>2. r.failures \in Nat /\ r.gen \in Nat /\ r.gen <= MaxSearches /\ MaxSearches \in Nat
    BY SearchBounds DEF SearchRow
  <2>3. r.failures + 1 \in 0..MaxSearches /\ 0 \in 0..MaxSearches
    BY <2>1, <2>2
  <2> QED
    BY <1>8, <2>3
<1>10. PICK new : new = [r EXCEPT !.status = t.status, !.next = t.next, !.failures = t.failures,
                                  !.owner = NoSearcher, !.until = 0]
  OBVIOUS
<1>11. /\ new \in SearchRow /\ new.owner = NoSearcher /\ new.until = 0 /\ new.gen = r.gen
       /\ new.failures = t.failures /\ new.status = t.status
  BY <1>6, <1>9, <1>10 DEF SearchRow
<1>12. row' = [row EXCEPT ![g] = new]
  <2>1. row \in [Game -> {NoRow} \cup SearchRow]
    BY DEF DiscoveryInv, DiscoveryTypes
  <2>2. row' = [row EXCEPT ![g].status = t.status, ![g].next = t.next, ![g].failures = t.failures,
                           ![g].owner = NoSearcher, ![g].until = 0]
    BY <1>2, <1>3 DEF RecordSearch
  <2> QED
    BY <1>5, <1>10, <2>1, <2>2
<1>13. PICK run : run = [gen |-> t.gen, status |-> t.status, found |-> t.found]
  OBVIOUS
<1>14. /\ run \in SearchRun /\ run.gen = r.gen /\ run.status = t.status /\ run.found = t.found
  BY <1>6, <1>7, <1>13 DEF SearchRun
<1>15. searches' = [searches EXCEPT ![g] = Append(@, run)]
  BY <1>2, <1>3, <1>13 DEF RecordSearch
<1>16. PICK next : next = IF t.acquire THEN [step |-> "acquire", games |-> t.games, found |-> t.found]
                          ELSE RestOfBatch(w)
  OBVIOUS
<1>17. search' = [search EXCEPT ![w] = next]
  BY <1>2, <1>16 DEF RecordSearch
<1>18. next \in SearchTask /\ TaskSound(w, next) /\ next.step # "record"
  <2>1. CASE t.acquire
    <3>1. next = [step |-> "acquire", games |-> t.games, found |-> t.found]
      BY <1>16, <2>1
    <3>2. next \in AcquireTask
      BY <1>4, <1>6, <3>1 DEF AcquireTask
    <3>3. next \in SearchTask
      BY <3>2 DEF SearchTask
    <3>4. \A i \in DOMAIN t.games : row[t.games[i]] # NoRow
      BY <1>4 DEF TaskSound
    <3> QED
      BY <1>4, <3>1, <3>3, <3>4 DEF TaskSound
  <2>2. CASE ~ t.acquire
    <3>1. next = RestOfBatch(w)
      BY <1>16, <2>2
    <3>2. next.step # "record"
      BY <3>1 DEF RestOfBatch, Free
    <3> QED
      BY <1>1, <3>1, <3>2, RestSound
  <2> QED
    BY <2>1, <2>2
<1>19. UNCHANGED <<catalog, time, reviews, documents>>
  BY DEF RecordSearch
<1>20. /\ row[g].owner = w /\ new.gen = row[g].gen /\ run.gen = row[g].gen /\ new.status = run.status
       /\ {g} \X run.found \subseteq reviews
       /\ new.failures = IF run.status = "failed" THEN row[g].failures + 1 ELSE 0
  BY <1>5, <1>7, <1>8, <1>11, <1>14
<1> QED
  BY <1>4, <1>11, <1>12, <1>14, <1>15, <1>17, <1>18, <1>19, <1>20

LEMMA RecordKeeps ==
  ASSUME DiscoveryInv, NEW w \in Someone, RecordSearch(w)
  PROVE  DiscoveryInv'
<1>1. PICK g \in Game, new \in SearchRow, run \in SearchRun, next \in SearchTask :
        /\ row[g] # NoRow /\ row[g] \in SearchRow /\ row[g].owner = w /\ g \in catalog
        /\ row' = [row EXCEPT ![g] = new] /\ search' = [search EXCEPT ![w] = next]
        /\ searches' = [searches EXCEPT ![g] = Append(@, run)]
        /\ new.owner = NoSearcher /\ new.until = 0 /\ new.gen = row[g].gen
        /\ new.failures = IF run.status = "failed" THEN row[g].failures + 1 ELSE 0
        /\ new.status = run.status /\ run.gen = row[g].gen
        /\ {g} \X run.found \subseteq reviews
        /\ next.step # "record" /\ TaskSound(w, next)
        /\ UNCHANGED <<catalog, time, reviews, documents>>
  BY RecordFacts
<1>2. new # NoRow /\ NoSearcher \notin Someone /\ w # NoSearcher
  <2>1. NoSearcher \notin Someone /\ w # NoSearcher
    BY SearchConstants
  <2>2. new.status # "absent"
    BY DEF SearchRow
  <2>3. new # NoRow
    BY <2>2 DEF NoRow
  <2> QED
    BY <2>1, <2>3
<1>3. row \in [Game -> {NoRow} \cup SearchRow] /\ searches \in [Game -> Seq(SearchRun)]
  BY DEF DiscoveryInv, DiscoveryTypes
<1>4. /\ row'[g] = new /\ \A h \in Game \ {g} : row'[h] = row[h]
      /\ searches'[g] = Append(searches[g], run)
      /\ \A h \in Game \ {g} : searches'[h] = searches[h]
  BY <1>1, <1>3
<1>5. \A h \in Game : row[h] # NoRow => row'[h] # NoRow
  BY <1>2, <1>4
<1>6. TaskSound(w, next)'
  <2>1. \A i \in DOMAIN next.games : next.games[i] \in Game
    BY StepTask
  <2>2. \A i \in DOMAIN next.games : row'[next.games[i]] # NoRow
    BY <1>1, <1>5, <2>1 DEF TaskSound
  <2> QED
    BY <1>1, <2>2 DEF TaskSound
<1>7. \A h \in Game, v \in Someone \ {w} :
        /\ row[h] # NoRow => row'[h] # NoRow
        /\ row[h] # NoRow /\ row'[h].owner = v =>
             /\ row[h].owner = v /\ row'[h].gen = row[h].gen
             /\ row'[h].failures = row[h].failures
  BY <1>1, <1>2, <1>4, <1>5
<1>8. search' \in [Someone -> SearchTask] /\ SearchersSound'
  <2>1. reviews \subseteq reviews'
    BY <1>1
  <2> QED
    BY <1>1, <1>6, <1>7, <2>1, SearchersStaySound
<1>9. DiscoveryTypes'
  <2>1. row' \in [Game -> {NoRow} \cup SearchRow] /\ \A h \in Game : row'[h] # NoRow => h \in catalog
    BY <1>1, <1>3, <1>4 DEF DiscoveryInv, DiscoveryTypes
  <2>2. searches' \in [Game -> Seq(SearchRun)]
    BY <1>1, <1>3
  <2> QED
    BY <1>1, <1>8, <2>1, <2>2 DEF DiscoveryInv, DiscoveryTypes
<1>10. FailuresHeld'
  <2>1. /\ row[g].failures \in Nat /\ row[g].gen \in Nat /\ row[g].failures < row[g].gen
    BY <1>1, <1>2, SearchBounds DEF DiscoveryInv, FailuresHeld, SearchRow
  <2>2. new.failures <= new.gen
    BY <1>1, <2>1
  <2> QED
    BY <1>1, <1>2, <1>4, <2>2 DEF DiscoveryInv, FailuresHeld
<1>11. SearchesRecorded'
  <2>1. ASSUME NEW h \in Game PROVE Recorded(h, row'[h], searches'[h], reviews')
    <3>1. Recorded(h, row[h], searches[h], reviews)
      BY RecordedOfAll DEF DiscoveryInv
    <3>2. CASE h # g
      BY <1>1, <1>4, <3>1, <3>2
    <3>3. CASE h = g
      <4> DEFINE history == searches[g]
                 longer == Append(history, run)
      <4>1. history \in Seq(SearchRun)
        BY <1>3
      <4>2. /\ Len(history) \in Nat /\ Len(longer) = Len(history) + 1 /\ longer # <<>>
            /\ DOMAIN longer = 1..(Len(history) + 1) /\ DOMAIN history = 1..Len(history)
            /\ longer[Len(history) + 1] = run /\ \A i \in DOMAIN history : longer[i] = history[i]
        BY <4>1
      <4>3. new.failures = Cardinality(Trailing(longer))
        <5>1. row[g].failures = Cardinality(Trailing(history))
          BY <1>1, <3>1, <3>3 DEF Recorded
        <5> QED
          BY <1>1, <4>1, <5>1, TrailingOfAppend
      <4>4. longer[Len(longer)].gen = new.gen /\ longer[Len(longer)].status = new.status
        BY <1>1, <4>2
      <4>5. \A i \in DOMAIN longer : {g} \X longer[i].found \subseteq reviews
        <5>1. \A i \in DOMAIN history : {g} \X history[i].found \subseteq reviews
          BY <1>1, <3>1, <3>3 DEF Recorded
        <5>2. \A i \in DOMAIN longer : i \in DOMAIN history \/ i = Len(history) + 1
          BY <4>2
        <5> HIDE DEF longer, history
        <5> QED
          BY <1>1, <4>2, <5>1, <5>2
      <4> HIDE DEF longer
      <4>6. Recorded(g, new, longer, reviews)
        BY <4>2, <4>3, <4>4, <4>5 DEF Recorded
      <4> QED
        BY <1>1, <1>4, <3>3, <4>6 DEF longer
    <3> QED
      BY <3>2, <3>3
  <2> QED
    BY <2>1, RecordedOfAll
<1> QED
  BY <1>8, <1>9, <1>10, <1>11 DEF DiscoveryInv

LEMMA StepSound == DiscoveryInv /\ [DiscoveryNext]_discoveryVars => DiscoveryInv'
<1> SUFFICES ASSUME DiscoveryInv, [DiscoveryNext]_discoveryVars PROVE DiscoveryInv'
  OBVIOUS
<1>1. CASE UNCHANGED discoveryVars
  <2>1. UNCHANGED <<catalog, time, row, searches, reviews, documents, search>>
    BY <1>1 DEF discoveryVars
  <2>2. SearchesRecorded'
    BY <2>1, RecordedOfAll DEF DiscoveryInv
  <2> QED
    BY <2>1, <2>2 DEF DiscoveryInv, DiscoveryTypes, FailuresHeld, SearchersSound, TaskSound
<1>2. ASSUME NEW w \in Someone, RunGame(w) PROVE DiscoveryInv'
  <2>1. ASSUME NEW found \in SUBSET Candidate, NEW failed \in 0..Official, AskOfficial(w, found, failed)
        PROVE  DiscoveryInv'
    <3>1. failed \in Nat
      BY SearchConstants
    <3> QED
      BY <2>1, <3>1, AskKeeps
  <2>2. ASSUME NEW found \in SUBSET Candidate, NEW failed \in 0..Fallback, AskFallback(w, found, failed)
        PROVE  DiscoveryInv'
    <3>1. failed \in Nat
      BY SearchConstants
    <3> QED
      BY <2>2, <3>1, AskKeeps
  <2> QED
    BY <1>2, <2>1, <2>2, RestKeeps, ClaimKeeps, SubmitKeeps, PrepareKeeps, RecordKeeps, AcquireKeeps
       DEF RunGame
<1>3. ASSUME NEW w \in Searcher, SelectDueGames(w) PROVE DiscoveryInv'
  BY <1>3, SelectKeeps DEF Someone
<1>4. ASSUME NEW w \in Forcer, NEW g \in Game, NEW acquire \in BOOLEAN, ForceGame(w, g, acquire)
      PROVE  DiscoveryInv'
  BY <1>4, ForceKeeps DEF Someone
<1> QED
  BY <1>1, <1>2, <1>3, <1>4, SynchronizeKeeps, EscapeKeeps, TickKeeps DEF DiscoveryNext

\* What the row of a game says is what was recorded of its searches, for any games,
\* workers, providers, candidates and bounds (RulebookDiscovery!SearchesRecorded).
THEOREM SearchesAreRecorded == DiscoverySpec => []SearchesRecorded
<1>1. DiscoveryInit => DiscoveryInv
  BY InitSound
<1>2. DiscoveryInv /\ [DiscoveryNext]_discoveryVars => DiscoveryInv'
  BY StepSound
<1>3. DiscoveryInv => SearchesRecorded
  BY DEF DiscoveryInv
<1> QED
  BY <1>1, <1>2, <1>3, PTL DEF DiscoverySpec

-----------------------------------------------------------------------------
(* The searches are a fenced lease *)

Owner(r) == IF r = NoRow THEN NoSearcher ELSE r.owner
Until(r) == IF r = NoRow THEN 0 ELSE r.until
Generation(r) == IF r = NoRow THEN 0 ELSE r.gen
Generations(history) == [i \in DOMAIN history |-> history[i].gen]

LEMMA OneMoreSearch ==
  ASSUME NEW history \in Seq(SearchRun), NEW run \in SearchRun
  PROVE  Generations(Append(history, run)) = Append(Generations(history), run.gen)
<1> DEFINE longer == Append(history, run)
           gens == Generations(history)
           n == Len(history)
<1>1. /\ n \in Nat /\ DOMAIN history = 1..n /\ DOMAIN longer = 1..(n + 1)
      /\ \A i \in 1..n : longer[i] = history[i] /\ history[i] \in SearchRun
      /\ longer[n + 1] = run
  OBVIOUS
<1> HIDE DEF n, longer
<1>2. gens = [i \in 1..n |-> history[i].gen]
  BY <1>1 DEF Generations
<1>3. gens \in [1..n -> Int]
  BY <1>1, <1>2, SearchBounds DEF SearchRun
<1>4. gens \in Seq(Int) /\ Len(gens) = n
  BY <1>1, <1>3
<1>5. run.gen \in Int
  BY SearchBounds DEF SearchRun
<1> DEFINE more == Append(gens, run.gen)
<1> HIDE DEF gens
<1>6. /\ more \in Seq(Int) /\ Len(more) = n + 1
      /\ \A i \in 1..n : more[i] = gens[i]
      /\ more[n + 1] = run.gen
  BY <1>1, <1>4, <1>5
<1>7. more = [i \in 1..(n + 1) |-> more[i]]
  BY <1>1, <1>6
<1> HIDE DEF more
<1>8. ASSUME NEW i \in 1..(n + 1) PROVE longer[i].gen = more[i]
  <2>1. i \in 1..n \/ i = n + 1
    BY <1>1
  <2>2. CASE i \in 1..n
    BY <1>1, <1>2, <1>6, <2>2
  <2>3. CASE i = n + 1
    BY <1>1, <1>6, <2>3
  <2> QED
    BY <2>1, <2>2, <2>3
<1>9. Generations(longer) = [i \in 1..(n + 1) |-> longer[i].gen]
  BY <1>1 DEF Generations
<1>10. Generations(longer) = more
  BY <1>7, <1>8, <1>9
<1> QED
  BY <1>10 DEF more, gens, longer

\* The columns of the lease, one game at a time.
SameColumns(g) ==
  /\ Owner(row'[g]) = Owner(row[g]) /\ Until(row'[g]) = Until(row[g])
  /\ Generation(row'[g]) = Generation(row[g])

LEMMA SearchStill ==
  ASSUME time' = time, searches' = searches, \A g \in Game : SameColumns(g)
  PROVE  UNCHANGED SearchLease!vars
BY DEF SameColumns, Owner, Until, Generation, SearchLease!vars

LEMMA ClaimAcquires ==
  ASSUME DiscoveryInv, NEW w \in Someone, ClaimGame(w)
  PROVE  SearchLease!Next
<1>1. PICK g \in Game, new \in SearchRow, next \in AskTask :
        /\ Claimed(w) = g /\ row[g] # NoRow /\ row[g] \in SearchRow /\ row[g].until <= time
        /\ row' = [row EXCEPT ![g] = new] /\ search' = [search EXCEPT ![w] = next]
        /\ new.owner = w /\ new.until = time + LeaseTime /\ new.gen = row[g].gen + 1
        /\ new.failures = row[g].failures /\ new.status = "running"
        /\ next.step = "official" /\ next.games = search[w].games
        /\ UNCHANGED <<catalog, time, searches, reviews, documents>>
  BY ClaimFacts
<1>2. new # NoRow /\ row[g].gen < MaxSearches
  BY <1>1 DEF NoRow, ClaimGame
<1>3. row'[g] = new /\ \A h \in Game \ {g} : row'[h] = row[h]
  BY <1>1 DEF DiscoveryInv, DiscoveryTypes
<1>4. [h \in Game |-> IF row'[h] = NoRow THEN NoSearcher ELSE row'[h].owner]
        = [[h \in Game |-> IF row[h] = NoRow THEN NoSearcher ELSE row[h].owner] EXCEPT ![g] = w]
  <2>1. ASSUME NEW h \in Game
        PROVE  (IF row'[h] = NoRow THEN NoSearcher ELSE row'[h].owner)
                 = (IF h = g THEN w ELSE IF row[h] = NoRow THEN NoSearcher ELSE row[h].owner)
    BY <1>1, <1>2, <1>3
  <2> QED
    BY <1>1, <1>2, <2>1
<1>5. [h \in Game |-> IF row'[h] = NoRow THEN 0 ELSE row'[h].until]
        = [[h \in Game |-> IF row[h] = NoRow THEN 0 ELSE row[h].until] EXCEPT ![g] = time + LeaseTime]
  <2>1. ASSUME NEW h \in Game
        PROVE  (IF row'[h] = NoRow THEN 0 ELSE row'[h].until)
                 = (IF h = g THEN time + LeaseTime ELSE IF row[h] = NoRow THEN 0 ELSE row[h].until)
    BY <1>1, <1>2, <1>3
  <2> QED
    BY <1>1, <1>2, <2>1
<1>6. [h \in Game |-> IF row'[h] = NoRow THEN 0 ELSE row'[h].gen]
        = [[h \in Game |-> IF row[h] = NoRow THEN 0 ELSE row[h].gen] EXCEPT ![g] = @ + 1]
  <2>1. ASSUME NEW h \in Game
        PROVE  (IF row'[h] = NoRow THEN 0 ELSE row'[h].gen)
                 = (IF h = g THEN row[g].gen + 1 ELSE IF row[h] = NoRow THEN 0 ELSE row[h].gen)
    BY <1>1, <1>2, <1>3
  <2> QED
    BY <1>1, <1>2, <2>1
<1>7. time' = time /\ searches' = searches
  BY <1>1
<1>8. time \in 0..time
  BY DEF DiscoveryInv, DiscoveryTypes
<1>9. [h \in Game |-> IF row[h] = NoRow THEN 0 ELSE row[h].until][g] <= time
  BY <1>1
<1>10. SearchLease!Acquire(g, w)
  BY <1>1, <1>2, <1>4, <1>5, <1>6, <1>7, <1>8, <1>9 DEF SearchLease!Acquire
<1> QED
  BY <1>10 DEF SearchLease!Next

LEMMA RecordCompletes ==
  ASSUME DiscoveryInv, NEW w \in Someone, RecordSearch(w)
  PROVE  SearchLease!Next
<1>1. PICK g \in Game, new \in SearchRow, run \in SearchRun, next \in SearchTask :
        /\ row[g] # NoRow /\ row[g] \in SearchRow /\ row[g].owner = w /\ g \in catalog
        /\ row' = [row EXCEPT ![g] = new] /\ search' = [search EXCEPT ![w] = next]
        /\ searches' = [searches EXCEPT ![g] = Append(@, run)]
        /\ new.owner = NoSearcher /\ new.until = 0 /\ new.gen = row[g].gen
        /\ new.failures = IF run.status = "failed" THEN row[g].failures + 1 ELSE 0
        /\ new.status = run.status /\ run.gen = row[g].gen
        /\ {g} \X run.found \subseteq reviews
        /\ next.step # "record" /\ TaskSound(w, next)
        /\ UNCHANGED <<catalog, time, reviews, documents>>
  BY RecordFacts
<1>2. new # NoRow /\ w # NoSearcher
  <2>1. new.status # "absent"
    BY DEF SearchRow
  <2>2. new # NoRow
    BY <2>1 DEF NoRow
  <2> QED
    BY <2>2, SearchConstants
<1>3. /\ row'[g] = new /\ \A h \in Game \ {g} : row'[h] = row[h]
      /\ searches'[g] = Append(searches[g], run)
      /\ \A h \in Game \ {g} : searches'[h] = searches[h]
      /\ searches[g] \in Seq(SearchRun)
  BY <1>1 DEF DiscoveryInv, DiscoveryTypes
<1>4. [h \in Game |-> IF row'[h] = NoRow THEN NoSearcher ELSE row'[h].owner]
        = [[h \in Game |-> IF row[h] = NoRow THEN NoSearcher ELSE row[h].owner] EXCEPT ![g] = NoSearcher]
  <2>1. ASSUME NEW h \in Game
        PROVE  (IF row'[h] = NoRow THEN NoSearcher ELSE row'[h].owner)
                 = (IF h = g THEN NoSearcher ELSE IF row[h] = NoRow THEN NoSearcher ELSE row[h].owner)
    BY <1>1, <1>2, <1>3
  <2> QED
    BY <1>1, <1>2, <2>1
<1>5. [h \in Game |-> IF row'[h] = NoRow THEN 0 ELSE row'[h].until]
        = [[h \in Game |-> IF row[h] = NoRow THEN 0 ELSE row[h].until] EXCEPT ![g] = 0]
  <2>1. ASSUME NEW h \in Game
        PROVE  (IF row'[h] = NoRow THEN 0 ELSE row'[h].until)
                 = (IF h = g THEN 0 ELSE IF row[h] = NoRow THEN 0 ELSE row[h].until)
    BY <1>1, <1>2, <1>3
  <2> QED
    BY <1>1, <1>2, <2>1
<1>6. [h \in Game |-> IF row'[h] = NoRow THEN 0 ELSE row'[h].gen]
        = [h \in Game |-> IF row[h] = NoRow THEN 0 ELSE row[h].gen]
  BY <1>1, <1>2, <1>3
<1>7. Generations(searches'[g]) = Append(Generations(searches[g]), row[g].gen)
  BY <1>1, <1>3, OneMoreSearch
<1>8. [h \in Game |-> Generations(searches'[h])]
        = [[h \in Game |-> Generations(searches[h])] EXCEPT ![g] = Append(@, row[g].gen)]
  BY <1>3, <1>7
<1>9. [h \in Game |-> [i \in DOMAIN searches'[h] |-> searches'[h][i].gen]]
        = [[h \in Game |-> [i \in DOMAIN searches[h] |-> searches[h][i].gen]]
             EXCEPT ![g] = Append(@, row[g].gen)]
  BY <1>8 DEF Generations
<1>10. time' = time /\ (IF row[g] = NoRow THEN NoSearcher ELSE row[g].owner) # NoSearcher
       /\ (IF row[g] = NoRow THEN 0 ELSE row[g].gen) = row[g].gen
  BY <1>1, <1>2
<1>11. SearchLease!Complete(g)
  BY <1>4, <1>5, <1>6, <1>9, <1>10 DEF SearchLease!Complete
<1> QED
  BY <1>11 DEF SearchLease!Next

LEMMA StepSearchLease ==
  DiscoveryInv /\ [DiscoveryNext]_discoveryVars => [SearchLease!Next]_(SearchLease!vars)
<1> SUFFICES ASSUME DiscoveryInv, [DiscoveryNext]_discoveryVars
             PROVE  [SearchLease!Next]_(SearchLease!vars)
  OBVIOUS
<1>1. CASE UNCHANGED <<time, row, searches>>
  BY <1>1, SearchStill DEF SameColumns
<1>2. CASE SynchronizeCatalog
  <2>1. time' = time /\ searches' = searches
    BY <1>2 DEF SynchronizeCatalog
  <2>2. ASSUME NEW g \in Game PROVE SameColumns(g)
    <3>1. row'[g] = row[g] \/ (row[g] = NoRow /\ row'[g] = NewRow)
      BY <1>2 DEF SynchronizeCatalog, Synchronized
    <3>2. Owner(NewRow) = NoSearcher /\ Until(NewRow) = 0 /\ Generation(NewRow) = 0
      BY DEF Owner, Until, Generation, NewRow
    <3>3. Owner(NoRow) = NoSearcher /\ Until(NoRow) = 0 /\ Generation(NoRow) = 0
      BY DEF Owner, Until, Generation
    <3> QED
      BY <3>1, <3>2, <3>3 DEF SameColumns
  <2> QED
    BY <2>1, <2>2, SearchStill
<1>3. CASE TickSearch
  <2>1. time' \in (time + 1)..MaxTime
    BY <1>3, SearchBounds DEF TickSearch, DiscoveryInv, DiscoveryTypes
  <2>2. SearchLease!Elapse
    BY <1>3, <2>1 DEF TickSearch, SearchLease!Elapse
  <2> QED
    BY <2>2 DEF SearchLease!Next
<1>4. ASSUME NEW w \in Someone, RunGame(w) PROVE [SearchLease!Next]_(SearchLease!vars)
  <2>1. CASE ClaimGame(w)
    BY <2>1, ClaimAcquires
  <2>2. CASE RecordSearch(w)
    BY <2>2, RecordCompletes
  <2> QED
    BY <1>1, <1>4, <2>1, <2>2
       DEF RunGame, ClaimBusy, AskOfficial, AskFallback, SubmitCandidate, PrepareRecord,
           RecordSuperseded, AcquireBest
<1> QED
  BY <1>1, <1>2, <1>3, <1>4
     DEF DiscoveryNext, SelectDueGames, ForceGame, EscapeSearch, discoveryVars

LEMMA InitSearchLease == DiscoveryInit => SearchLease!Init
<1> SUFFICES ASSUME DiscoveryInit PROVE SearchLease!Init
  OBVIOUS
<1>1. \A g \in Game : row[g] = NoRow /\ searches[g] = <<>> /\ [i \in DOMAIN searches[g] |-> searches[g][i].gen] = <<>>
  BY DEF DiscoveryInit
<1> QED
  BY <1>1 DEF DiscoveryInit, SearchLease!Init

\* The lease of the searches needs no heartbeat to be fenced: for any games, workers
\* and lease time, runs are recorded in the order of the claims that earned them
\* (RulebookDiscovery!SearchLeaseSpec).
THEOREM SearchesImplementFencedLease == DiscoverySpec => SearchLeaseSpec
<1>1. DiscoveryInit => DiscoveryInv /\ SearchLease!Init
  BY InitSound, InitSearchLease
<1>2. DiscoveryInv /\ [DiscoveryNext]_discoveryVars => DiscoveryInv' /\ [SearchLease!Next]_(SearchLease!vars)
  BY StepSound, StepSearchLease
<1> QED
  BY <1>1, <1>2, PTL DEF DiscoverySpec, SearchLeaseSpec, SearchLease!Spec

\* Rows, recorded searches and the review queue keep their types for any constants
\* (RulebookDiscovery!DiscoveryTypeOK).
THEOREM DiscoveryTypeCorrect == DiscoverySpec => []DiscoveryTypeOK
<1>1. DiscoveryInit => DiscoveryInv
  BY InitSound
<1>2. DiscoveryInv /\ [DiscoveryNext]_discoveryVars => DiscoveryInv'
  BY StepSound
<1>3. ASSUME DiscoveryInv PROVE DiscoveryTypeOK
  <2>1. \A w \in Someone :
          search[w].step \in {"free", "claim", "official", "fallback", "submit", "record", "acquire"}
    <3>1. ASSUME NEW w \in Someone
          PROVE  \/ search[w] = Free \/ search[w] \in ClaimTask \/ search[w] \in AskTask
                 \/ search[w] \in RecordTask \/ search[w] \in AcquireTask
      BY <1>3 DEF DiscoveryInv, DiscoveryTypes, SearchTask
    <3>2. Free.step = "free"
      BY DEF Free
    <3>3. \A t \in ClaimTask : t.step = "claim"
      BY DEF ClaimTask
    <3>4. \A t \in AskTask : t.step \in {"official", "fallback", "submit"}
      BY DEF AskTask
    <3>5. \A t \in RecordTask : t.step = "record"
      BY DEF RecordTask
    <3>6. \A t \in AcquireTask : t.step = "acquire"
      BY DEF AcquireTask
    <3> QED
      BY <3>1, <3>2, <3>3, <3>4, <3>5, <3>6
  <2>2. \A g \in Game : row[g] = NoRow \/ row[g] \in SearchRow
    BY <1>3 DEF DiscoveryInv, DiscoveryTypes
  <2>3. \A g \in Game : searches[g] \in Seq(SearchRun)
    BY <1>3 DEF DiscoveryInv, DiscoveryTypes
  <2>4. /\ time \in 0..MaxTime /\ reviews \subseteq catalog \X Candidate
        /\ {g \in Game : row[g] # NoRow} \cup documents \subseteq catalog
    BY <1>3 DEF DiscoveryInv, DiscoveryTypes
  <2> QED
    BY <2>1, <2>2, <2>3, <2>4 DEF DiscoveryTypeOK, SearchRow, SearchRun
<1> QED
  BY <1>1, <1>2, <1>3, PTL DEF DiscoverySpec

-----------------------------------------------------------------------------
(* What the promise of a fenced lease says of the searches *)

SearchPromise == INSTANCE FencedLeaseProofs WITH
  Resource <- Game, Worker <- Someone, NoWorker <- NoSearcher, LeaseTicks <- LeaseTime,
  MaxClock <- MaxTime, MaxClaims <- MaxSearches, now <- time,
  owner <- [g \in Game |-> IF row[g] = NoRow THEN NoSearcher ELSE row[g].owner],
  until <- [g \in Game |-> IF row[g] = NoRow THEN 0 ELSE row[g].until],
  gen <- [g \in Game |-> IF row[g] = NoRow THEN 0 ELSE row[g].gen],
  audit <- [g \in Game |-> [i \in DOMAIN searches[g] |-> searches[g][i].gen]]

\* The runs of a game are recorded in the order of their claims; the claim that is
\* running has recorded nothing yet.
SearchesAudited ==
  \A g \in Game :
    /\ \A i, j \in DOMAIN searches[g] : i < j => searches[g][i].gen < searches[g][j].gen
    /\ row[g] # NoRow => \A i \in DOMAIN searches[g] :
         IF row[g].owner = NoSearcher THEN searches[g][i].gen <= row[g].gen
         ELSE searches[g][i].gen < row[g].gen

\* What FencedLease promises (AuditOrder) holds of the searches because they implement
\* it: _record writes the runs of a game in the order of their claims, each at most
\* once, whatever batches and forced runs overlap.
THEOREM SearchesInOrder == DiscoverySpec => []SearchesAudited
<1>1. SearchPromise!Spec => [](SearchPromise!Ordered /\ SearchPromise!HolderUnaudited)
  BY SearchPromise!AuditOrder
<1>2. SearchLeaseSpec => SearchPromise!Spec
  BY DEF SearchLeaseSpec, SearchLease!Spec, SearchLease!Init, SearchLease!Next, SearchLease!vars,
         SearchLease!Acquire, SearchLease!Renew, SearchLease!Complete, SearchLease!Revoke,
         SearchLease!Elapse, SearchPromise!Spec, SearchPromise!Init, SearchPromise!Next,
         SearchPromise!vars, SearchPromise!Acquire, SearchPromise!Renew,
         SearchPromise!Complete, SearchPromise!Revoke, SearchPromise!Elapse
<1>3. SearchPromise!Ordered /\ SearchPromise!HolderUnaudited => SearchesAudited
  BY DEF SearchPromise!Ordered, SearchPromise!HolderUnaudited, SearchesAudited
<1> QED
  BY <1>1, <1>2, <1>3, SearchesImplementFencedLease, PTL

-----------------------------------------------------------------------------
(* A search ends: a measure that every step of a run lowers *)

\* The steps a run may still take for the game it is at: its claim, the official and
\* the fallback providers, each candidate, the preparation, the record and the
\* acquisition.
GameLeft(t) ==
  CASE t.step = "claim"    -> Cardinality(Candidate) + 5
    [] t.step = "official" -> Cardinality(Candidate) + 4
    [] t.step = "fallback" -> Cardinality(Candidate) + 3
    [] t.step = "submit"   -> Cardinality(t.left) + 2
    [] t.step = "record"   -> 1
    [] OTHER               -> 0

\* A run that changes loses games, or keeps them and comes nearer to the end of the
\* first one.
Nearer(s, t) ==
  \/ Len(t.games) < Len(s.games)
  \/ t.games = s.games /\ GameLeft(t) < GameLeft(s)

SearchAdvances ==
  \A w \in Someone : search[w] # Free =>
    search'[w] = search[w] \/ Nearer(search[w], search'[w])

LEMMA Candidates ==
  ASSUME NEW left \in SUBSET Candidate
  PROVE  /\ IsFiniteSet(left) /\ Cardinality(left) \in Nat /\ Cardinality(Candidate) \in Nat
         /\ Cardinality(left) <= Cardinality(Candidate)
BY SearchConstants, FS_Subset, FS_CardinalityType

LEMMA GameLeftBound ==
  ASSUME NEW t \in SearchTask
  PROVE  GameLeft(t) \in 0..(Cardinality(Candidate) + 5)
<1>1. Cardinality(Candidate) \in Nat
  BY Candidates
<1>2. CASE t.step = "submit"
  <2>1. t.left \in SUBSET Candidate
    BY <1>2, StepTask DEF AskTask
  <2>2. Cardinality(t.left) \in 0..Cardinality(Candidate)
    BY <2>1, Candidates
  <2>3. GameLeft(t) = Cardinality(t.left) + 2
    BY <1>2 DEF GameLeft
  <2> QED
    BY <1>1, <2>2, <2>3
<1>3. CASE t.step # "submit"
  BY <1>1, <1>3 DEF GameLeft
<1> QED
  BY <1>2, <1>3

\* A game that is over, or the whole run, is left.
LEMMA RestNearer ==
  ASSUME DiscoveryInv, NEW w \in Someone, search[w].step # "free"
  PROVE  /\ Nearer(search[w], Free)
         /\ Nearer(search[w], RestOfBatch(w))
<1>1. search[w].games \in Seq(Game) /\ search[w].games # <<>>
  BY TaskGames
<1>2. Len(search[w].games) \in Nat \ {0}
  BY <1>1
<1>3. Len(Free.games) = 0
  BY DEF Free
<1>4. Nearer(search[w], Free)
  BY <1>2, <1>3 DEF Nearer
<1>5. CASE Len(search[w].games) = 1
  BY <1>4, <1>5 DEF RestOfBatch
<1>6. CASE Len(search[w].games) # 1
  <2>1. RestOfBatch(w).games = Tail(search[w].games)
    BY <1>6 DEF RestOfBatch
  <2>2. Len(Tail(search[w].games)) = Len(search[w].games) - 1
    BY <1>1
  <2>3. Len(Tail(search[w].games)) < Len(search[w].games)
    BY <1>2, <2>2
  <2>4. Len(RestOfBatch(w).games) < Len(search[w].games)
    BY <2>1, <2>3
  <2> QED
    BY <1>4, <2>4 DEF Nearer
<1> QED
  BY <1>4, <1>5, <1>6

\* Within a game the steps come in their order.
LEMMA GameNearer ==
  ASSUME DiscoveryInv, NEW w \in Someone, RunGame(w)
  PROVE  /\ search[w].step # "free"
         /\ Nearer(search[w], search'[w])
         /\ \A v \in Someone \ {w} : search'[v] = search[v]
<1>0. search \in [Someone -> SearchTask] /\ search[w] \in SearchTask
  BY DEF DiscoveryInv, DiscoveryTypes
<1>a. Cardinality(Candidate) \in Nat
  BY Candidates
<1> DEFINE moved(t) == search' = [search EXCEPT ![w] = t]
<1>b. ASSUME NEW t, moved(t)
      PROVE  search'[w] = t /\ \A v \in Someone \ {w} : search'[v] = search[v]
  BY <1>0, <1>b
<1>1. CASE ClaimBusy(w) \/ RecordSuperseded(w)
  <2>1. search[w].step # "free" /\ moved(RestOfBatch(w))
    BY <1>1 DEF ClaimBusy, RecordSuperseded
  <2> QED
    BY <1>b, <2>1, RestNearer
<1>2. CASE ClaimGame(w)
  <2>1. PICK t : /\ t.step = "official" /\ t.games = search[w].games
                 /\ search[w].step = "claim" /\ search' = [search EXCEPT ![w] = t]
    <3>1. \E g, a : search' = [search EXCEPT ![w] =
             [step |-> "official", games |-> search[w].games, gen |-> g, found |-> {}, left |-> {},
              failed |-> 0, asked |-> Official, acquire |-> a]]
      BY <1>0, <1>2 DEF ClaimGame
    <3> QED
      BY <1>2, <3>1 DEF ClaimGame
  <2>2. GameLeft(t) < GameLeft(search[w])
    BY <1>a, <2>1 DEF GameLeft
  <2> QED
    BY <1>b, <2>1, <2>2 DEF Nearer
<1>3. ASSUME NEW found \in SUBSET Candidate, NEW failed \in 0..Official, AskOfficial(w, found, failed)
      PROVE  /\ search[w].step # "free" /\ Nearer(search[w], search'[w])
             /\ \A v \in Someone \ {w} : search'[v] = search[v]
  <2>1. search[w].step = "official" /\ search[w] \in AskTask
    BY <1>3, AskFacts DEF AskOfficial
  <2>2. /\ search'[w].step \in {"fallback", "submit"} /\ search'[w].games = search[w].games
        /\ search'[w].left = found /\ \A v \in Someone \ {w} : search'[v] = search[v]
    BY <1>0, <1>3, <2>1 DEF AskOfficial, AskTask
  <2>3. GameLeft(search[w]) = Cardinality(Candidate) + 4
    BY <2>1 DEF GameLeft
  <2>4. GameLeft(search'[w]) <= Cardinality(Candidate) + 3
    <3>1. Cardinality(found) \in Nat /\ Cardinality(found) <= Cardinality(Candidate)
      BY Candidates
    <3>2. \/ GameLeft(search'[w]) = Cardinality(Candidate) + 3
          \/ GameLeft(search'[w]) = Cardinality(found) + 2
      BY <2>2 DEF GameLeft
    <3> QED
      BY <1>a, <3>1, <3>2
  <2>5. GameLeft(search'[w]) < GameLeft(search[w])
    <3>1. GameLeft(search'[w]) \in Int
      <4>1. Cardinality(found) \in Nat
        BY Candidates
      <4> QED
        BY <1>a, <2>2, <4>1 DEF GameLeft
    <3> QED
      BY <1>a, <2>3, <2>4, <3>1
  <2> QED
    BY <2>1, <2>2, <2>5 DEF Nearer
<1>4. ASSUME NEW found \in SUBSET Candidate, NEW failed \in 0..Fallback, AskFallback(w, found, failed)
      PROVE  /\ search[w].step # "free" /\ Nearer(search[w], search'[w])
             /\ \A v \in Someone \ {w} : search'[v] = search[v]
  <2>1. /\ search[w].step = "fallback" /\ search[w] \in AskTask
        /\ search[w].found \in SUBSET Candidate
    BY <1>4, AskFacts DEF AskFallback
  <2>2. PICK all \in SUBSET Candidate :
          /\ search'[w].step = "submit" /\ search'[w].games = search[w].games
          /\ search'[w].left = all /\ \A v \in Someone \ {w} : search'[v] = search[v]
    <3> DEFINE kept == IF Of(search[w].found, "en", TRUE) THEN {c \in found : c.lang = "it"} ELSE found
               all == search[w].found \cup kept
    <3>1. all \in SUBSET Candidate
      BY <2>1
    <3>2. search' = [search EXCEPT ![w].found = all, ![w].left = all, ![w].failed = @ + failed,
                                   ![w].asked = Official + Fallback, ![w].step = "submit"]
      BY <1>4 DEF AskFallback
    <3> HIDE DEF all
    <3>3. /\ search'[w].step = "submit" /\ search'[w].games = search[w].games
          /\ search'[w].left = all /\ \A v \in Someone \ {w} : search'[v] = search[v]
      BY <1>0, <2>1, <3>2 DEF AskTask
    <3> QED
      BY <3>1, <3>3
  <2>3. GameLeft(search[w]) = Cardinality(Candidate) + 3
    BY <2>1 DEF GameLeft
  <2>4. GameLeft(search'[w]) = Cardinality(all) + 2
    BY <2>2 DEF GameLeft
  <2>5. Cardinality(all) \in Nat /\ Cardinality(all) <= Cardinality(Candidate)
    BY <2>2, Candidates
  <2>6. GameLeft(search'[w]) < GameLeft(search[w])
    BY <1>a, <2>3, <2>4, <2>5
  <2> QED
    BY <2>1, <2>2, <2>6 DEF Nearer
<1>5. ASSUME NEW c \in Candidate, SubmitCandidate(w, c)
      PROVE  /\ search[w].step # "free" /\ Nearer(search[w], search'[w])
             /\ \A v \in Someone \ {w} : search'[v] = search[v]
  <2>1. /\ search[w].step = "submit" /\ search[w] \in AskTask
        /\ search[w].left \in SUBSET Candidate /\ c \in search[w].left
    BY <1>5, AskFacts DEF SubmitCandidate
  <2>2. /\ search'[w].step = "submit" /\ search'[w].games = search[w].games
        /\ search'[w].left = search[w].left \ {c} /\ \A v \in Someone \ {w} : search'[v] = search[v]
    BY <1>0, <1>5, <2>1 DEF SubmitCandidate, AskTask
  <2>3. IsFiniteSet(search[w].left) /\ Cardinality(search[w].left) \in Nat
    BY <2>1, Candidates
  <2>4. Cardinality(search[w].left \ {c}) = Cardinality(search[w].left) - 1
    BY <2>1, <2>3, FS_RemoveElement
  <2>5. GameLeft(search[w]) = Cardinality(search[w].left) + 2
    BY <2>1 DEF GameLeft
  <2>6. GameLeft(search'[w]) = Cardinality(search[w].left \ {c}) + 2
    BY <2>2 DEF GameLeft
  <2>7. GameLeft(search'[w]) < GameLeft(search[w])
    BY <2>3, <2>4, <2>5, <2>6
  <2> QED
    BY <2>1, <2>2, <2>7 DEF Nearer
<1>6. CASE PrepareRecord(w)
  <2>1. search[w].step = "submit" /\ search[w].left \in SUBSET Candidate
    BY <1>6, AskFacts DEF PrepareRecord
  <2>2. PICK t : t.step = "record" /\ t.games = search[w].games /\ moved(t)
    <3>1. \E failures, next : search' = [search EXCEPT ![w] =
            [step |-> "record", games |-> search[w].games, gen |-> search[w].gen,
             found |-> search[w].found, acquire |-> search[w].acquire,
             status |-> Outcome(search[w]), failures |-> failures, next |-> next]]
      BY <1>6 DEF PrepareRecord
    <3> QED
      BY <3>1
  <2>3. GameLeft(t) = 1
    BY <2>2 DEF GameLeft
  <2>4. GameLeft(search[w]) = Cardinality(search[w].left) + 2 /\ Cardinality(search[w].left) \in Nat
    BY <2>1, Candidates DEF GameLeft
  <2>5. GameLeft(t) < GameLeft(search[w])
    BY <2>3, <2>4
  <2> QED
    BY <1>b, <2>1, <2>2, <2>5 DEF Nearer
<1>7. CASE RecordSearch(w)
  <2>1. search[w].step = "record"
    BY <1>7 DEF RecordSearch
  <2>2. CASE search[w].acquire
    <3>1. PICK t : t.step = "acquire" /\ t.games = search[w].games /\ moved(t)
      BY <1>7, <2>2 DEF RecordSearch
    <3>2. GameLeft(t) < GameLeft(search[w])
      BY <2>1, <3>1 DEF GameLeft
    <3> QED
      BY <1>b, <2>1, <3>1, <3>2 DEF Nearer
  <2>3. CASE ~ search[w].acquire
    <3>1. moved(RestOfBatch(w))
      BY <1>7, <2>3 DEF RecordSearch
    <3> QED
      BY <1>b, <2>1, <3>1, RestNearer
  <2> QED
    BY <2>2, <2>3
<1>8. ASSUME NEW stored \in BOOLEAN, AcquireBest(w, stored)
      PROVE  /\ search[w].step # "free" /\ Nearer(search[w], search'[w])
             /\ \A v \in Someone \ {w} : search'[v] = search[v]
  <2>1. search[w].step # "free" /\ moved(Free)
    BY <1>8 DEF AcquireBest
  <2> QED
    BY <1>b, <2>1, RestNearer
<1> QED
  BY <1>1, <1>2, <1>3, <1>4, <1>5, <1>6, <1>7, <1>8 DEF RunGame

LEMMA StepAdvances == DiscoveryInv /\ [DiscoveryNext]_discoveryVars => [SearchAdvances]_discoveryVars
<1> SUFFICES ASSUME DiscoveryInv, [DiscoveryNext]_discoveryVars PROVE SearchAdvances
  OBVIOUS
<1>0. search \in [Someone -> SearchTask]
  BY DEF DiscoveryInv, DiscoveryTypes
<1>1. CASE UNCHANGED search
  BY <1>1 DEF SearchAdvances
<1>2. ASSUME NEW w \in Someone, RunGame(w) PROVE SearchAdvances
  BY <1>2, GameNearer DEF SearchAdvances
<1>3. ASSUME NEW w \in Someone, EscapeSearch(w) PROVE SearchAdvances
  <2>1. search[w] # Free /\ search' = [search EXCEPT ![w] = Free]
    BY <1>3 DEF EscapeSearch
  <2>2. search[w].step # "free"
    BY <1>0, <2>1, StepTask
  <2> QED
    BY <1>0, <2>1, <2>2, RestNearer DEF SearchAdvances
<1>4. ASSUME NEW w \in Someone, NEW t, search[w] = Free, search' = [search EXCEPT ![w] = t]
      PROVE  SearchAdvances
  BY <1>0, <1>4 DEF SearchAdvances
<1>5. ASSUME NEW w \in Searcher, SelectDueGames(w) PROVE SearchAdvances
  BY <1>4, <1>5 DEF SelectDueGames, Someone
<1>6. ASSUME NEW w \in Forcer, NEW g \in Game, NEW acquire \in BOOLEAN, ForceGame(w, g, acquire)
      PROVE  SearchAdvances
  BY <1>4, <1>6 DEF ForceGame, Someone
<1> QED
  BY <1>1, <1>2, <1>3, <1>5, <1>6 DEF DiscoveryNext, SynchronizeCatalog, TickSearch, discoveryVars

\* A run cannot go on for ever, whatever its providers offer and whichever batches and
\* forced runs take its leases: each of its steps loses a game or lowers the number of
\* steps left for the first one, which the candidates bound (run_due, _run_game).
\* (That it does take its steps is fairness, and left to the run: GamesSearched.)
THEOREM SearchesAdvance ==
  DiscoverySpec => /\ [](\A w \in Someone : GameLeft(search[w]) \in 0..(Cardinality(Candidate) + 5))
                   /\ [][SearchAdvances]_discoveryVars
<1>1. DiscoveryInit => DiscoveryInv
  BY InitSound
<1>2. DiscoveryInv /\ [DiscoveryNext]_discoveryVars => DiscoveryInv' /\ [SearchAdvances]_discoveryVars
  BY StepSound, StepAdvances
<1>3. DiscoveryInv => \A w \in Someone : GameLeft(search[w]) \in 0..(Cardinality(Candidate) + 5)
  BY GameLeftBound DEF DiscoveryInv, DiscoveryTypes
<1> QED
  BY <1>1, <1>2, <1>3, PTL DEF DiscoverySpec

=============================================================================
