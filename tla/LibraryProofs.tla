----------------------------- MODULE LibraryProofs -----------------------------
(***************************************************************************)
(* Proofs about what the user keeps in the library: the progress of a game *)
(* and its plays (PlayProgress), lists and wishes (SavedLists), the owned  *)
(* collection (LibraryCollection) and its synchronisation (CollectionSync);*)
(* about the notices of new expansions and campaigns (NoticeProducers) and *)
(* about what the page of a game shows (GamePages); and about the library  *)
(* they make up (MCLibrary).                                               *)
(***************************************************************************)
EXTENDS PlayProgress, SavedLists, CollectionSync, LibraryCollection, NoticeProducers,
        GamePages, MCLibrary, FiniteSetTheorems, WellFoundedInduction, TLAPS

-----------------------------------------------------------------------------
(* Least and greatest *)

\* A set of naturals that is not empty has a least element, a bounded one also a
\* greatest.
LEMMA MinIn ==
  ASSUME NEW S \in SUBSET Nat, S # {}
  PROVE  Min(S) \in S /\ \A y \in S : Min(S) <= y
<1> DEFINE R == {ss \in Nat \X Nat : ss[1] < ss[2]}
<1>1. IsWellFoundedOn(R, Nat)
  BY NatLessThanWellFounded DEF OpToRel
<1>2. \E t \in S : \A u \in S : ~ (<<u, t>> \in R)
  <2> HIDE DEF R
  <2> QED
    BY <1>1, WFMin
<1>3. PICK t \in S : \A u \in S : ~ (<<u, t>> \in R)
  BY <1>2
<1>4. \A u \in S : t <= u
  <2> TAKE u \in S
  <2>1. ~(u < t) /\ u \in Nat /\ t \in Nat
    BY <1>3
  <2> QED
    BY <2>1
<1> QED
  BY <1>4 DEF Min

LEMMA MaxIn ==
  ASSUME NEW n \in Nat, NEW S \in SUBSET (0..n), S # {}
  PROVE  Max(S) \in S /\ \A y \in S : y <= Max(S)
<1> DEFINE T == {n - x : x \in S}
<1>1. T \subseteq Nat
  OBVIOUS
<1>2. T # {}
  <2>1. PICK x \in S : TRUE
    OBVIOUS
  <2>2. n - x \in T
    BY <2>1
  <2> QED
    BY <2>2
<1>3. PICK t \in T : t \in Nat /\ \A u \in T : t <= u
  <2> HIDE DEF T
  <2> QED
    BY <1>1, <1>2, MinIn
<1>4. n - t \in S
  BY <1>1, <1>3
<1>5. \A y \in S : y <= n - t
  <2> TAKE y \in S
  <2>1. n - y \in T /\ t <= n - y
    BY <1>3
  <2> QED
    BY <1>3, <2>1
<1> QED
  BY <1>4, <1>5 DEF Max

-----------------------------------------------------------------------------
(* The progress of a game *)

Played(row) == row.completed # None => row.played # None

ProgressInv ==
  /\ ProgressTypeOK
  /\ CompletedIsPlayed
  /\ \A e \in Editor : edits[e] # NoEdit => Played(edits[e].next)

\* The action of MarkerFollowsPlays.
MarkerStep ==
  \A p \in PlayId : plays'[p] # plays[p] /\ (Covered \/ plays'[p] # NoEdit) => Covered'

LEMMA InitProgress == ProgressInit => ProgressInv
BY ProgressConstants DEF ProgressInit, ProgressInv, ProgressTypeOK, Days, Progress, CompletedIsPlayed, None

LEMMA PlayDaysAreDays ==
  ASSUME plays \in [PlayId -> {NoEdit} \cup [on : Days, completes : BOOLEAN]]
  PROVE  PlayDays \subseteq Days /\ CompletingDays \subseteq PlayDays
<1>1. \A p \in LoggedPlays : plays[p] \in [on : Days, completes : BOOLEAN]
  BY DEF LoggedPlays
<1>2. PlayDays \subseteq Days
  BY <1>1 DEF PlayDays
<1> QED
  BY <1>2 DEF PlayDays, CompletingDays

\* Whatever row a request makes, a completed game was played.
LEMMA RequestedProgress ==
  ASSUME NEW r \in Request, NEW current \in Progress, day \in Days
  PROVE  NextProgress(current, r) \in Progress /\ Played(NextProgress(current, r))
<1>1. /\ r.rating \in Ratings \cup {None, Unset} /\ r.playedAt \in Days \cup {None, Unset}
      /\ r.completedAt \in Days \cup {None, Unset}
  BY DEF Request
<1>2. /\ current.rating \in Ratings \cup {None} /\ current.played \in Days \cup {None}
      /\ current.completed \in Days \cup {None}
  BY DEF Progress
<1>3. PICK rating, played, completed : /\ rating = Given(r.rating, current.rating)
                                       /\ played = Given(r.playedAt, current.played)
                                       /\ completed = Given(r.completedAt, current.completed)
  OBVIOUS
<1>4. rating \in Ratings \cup {None} /\ played \in Days \cup {None} /\ completed \in Days \cup {None}
  BY <1>1, <1>2, <1>3 DEF Given
<1>5. PICK playedAt : playedAt = CASE r.played = "yes" /\ played = None -> day
                                   [] r.played = "no" -> None
                                   [] OTHER -> played
  OBVIOUS
<1>6. PICK milestone : milestone = IF r.played = "no" THEN None ELSE completed
  OBVIOUS
<1>7. PICK done : done = CASE r.completed = "yes" /\ milestone = None -> day
                           [] r.completed = "no" -> None
                           [] OTHER -> milestone
  OBVIOUS
<1>8. playedAt \in Days \cup {None}
  BY <1>4, <1>5
<1>9. done \in Days \cup {None}
  <2>1. milestone \in Days \cup {None}
    BY <1>4, <1>6
  <2> QED
    BY <1>7, <2>1
<1>10. NextProgress(current, r) =
         [rating |-> rating, played |-> IF playedAt = None THEN done ELSE playedAt, completed |-> done]
  BY <1>3, <1>5, <1>6, <1>7 DEF NextProgress
<1>11. NextProgress(current, r) \in Progress
  BY <1>4, <1>8, <1>9, <1>10 DEF Progress
<1> QED
  BY <1>10, <1>11 DEF Played

LEMMA ReadProgressKeeps ==
  ASSUME ProgressInv, NEW e \in Editor, NEW r \in Request, ReadProgress(e, r)
  PROVE  ProgressInv' /\ MarkerStep
<1>1. PICK next : next = NextProgress(progress, r)
  OBVIOUS
<1>2. next \in Progress /\ Played(next)
  BY <1>1, RequestedProgress DEF ProgressInv, ProgressTypeOK
<1>3. PICK edit : edit = [state |-> "read", clears |-> Clears(r), next |-> next]
  OBVIOUS
<1>4. edit \in [state : {"read"}, next : Progress, clears : BOOLEAN] /\ edit.next = next
  BY <1>2, <1>3 DEF Clears
<1>5. edits' = [edits EXCEPT ![e] = edit] /\ UNCHANGED <<day, plays, progress>>
  BY <1>1, <1>3 DEF ReadProgress
<1>6. ProgressTypeOK'
  BY <1>4, <1>5 DEF ProgressInv, ProgressTypeOK
<1>7. \A d \in Editor : edits'[d] # NoEdit => Played(edits'[d].next)
  BY <1>2, <1>4, <1>5 DEF ProgressInv, ProgressTypeOK
<1>8. CompletedIsPlayed'
  BY <1>5 DEF ProgressInv, CompletedIsPlayed
<1> QED
  BY <1>5, <1>6, <1>7, <1>8 DEF ProgressInv, MarkerStep

LEMMA WriteProgressKeeps ==
  ASSUME ProgressInv, NEW e \in Editor, WriteProgress(e)
  PROVE  ProgressInv' /\ MarkerStep
<1>1. /\ edits[e] # NoEdit /\ progress' = edits[e].next
      /\ edits' = [edits EXCEPT ![e] = NoEdit] /\ UNCHANGED <<day, plays>>
  BY DEF WriteProgress
<1>2. edits[e] \in [state : {"read"}, next : Progress, clears : BOOLEAN] /\ Played(edits[e].next)
  BY <1>1 DEF ProgressInv, ProgressTypeOK
<1>3. progress' \in Progress /\ Played(progress')
  BY <1>1, <1>2
<1>4. ProgressTypeOK'
  BY <1>1, <1>3 DEF ProgressInv, ProgressTypeOK
<1>5. \A d \in Editor : edits'[d] # NoEdit => Played(edits'[d].next)
  BY <1>1 DEF ProgressInv, ProgressTypeOK
<1>6. CompletedIsPlayed'
  BY <1>3 DEF CompletedIsPlayed, Played
<1> QED
  BY <1>1, <1>4, <1>5, <1>6 DEF ProgressInv, MarkerStep

\* A play that is stored makes the game played, at or after every play.
LEMMA StorePlayKeeps ==
  ASSUME ProgressInv, NEW p \in PlayId, NEW on \in Days, NEW completes \in BOOLEAN,
         StorePlay(p, on, completes)
  PROVE  ProgressInv' /\ MarkerStep
<1>1. PICK play : play = [on |-> on, completes |-> completes]
  OBVIOUS
<1>2. /\ plays' = [plays EXCEPT ![p] = play] /\ UNCHANGED <<day, edits>>
      /\ progress' = SyncProgress(progress, PlayDays', CompletingDays')
  BY <1>1 DEF StorePlay
<1>3. plays \in [PlayId -> {NoEdit} \cup [on : Days, completes : BOOLEAN]] /\ progress \in Progress
  BY DEF ProgressInv, ProgressTypeOK
<1>4. plays' \in [PlayId -> {NoEdit} \cup [on : Days, completes : BOOLEAN]]
  BY <1>1, <1>2, <1>3
<1>5. PICK all, done : all = PlayDays' /\ done = CompletingDays'
  OBVIOUS
<1>6. all \subseteq Days /\ done \subseteq all
  <2>1. PlayDays' \subseteq Days /\ CompletingDays' \subseteq PlayDays'
    <3>1. \A q \in LoggedPlays' : plays'[q] \in [on : Days, completes : BOOLEAN]
      BY <1>4 DEF LoggedPlays
    <3>2. PlayDays' \subseteq Days
      BY <3>1 DEF PlayDays
    <3> QED
      BY <3>2 DEF PlayDays, CompletingDays
  <2> QED
    BY <1>5, <2>1
<1>7. PICK played, latest : played = progress.played /\ latest = Max({played} \cup all)
  OBVIOUS
<1>8. played \in 0..LastDay /\ progress.completed \in 0..LastDay /\ LastDay \in Nat /\ all \subseteq 1..LastDay
  BY <1>3, <1>6, <1>7, ProgressConstants DEF Progress, Days, None
<1>9. latest \in {played} \cup all /\ \A y \in {played} \cup all : y <= latest
  <2>1. {played} \cup all \in SUBSET (0..LastDay)
    BY <1>8
  <2> QED
    BY <1>7, <1>8, <2>1, MaxIn
<1>10. latest \in Days \cup {None}
  BY <1>8, <1>9 DEF Days, None
<1>11. PICK completed : completed = IF progress.completed = None /\ done # {} THEN Min(done) ELSE progress.completed
  OBVIOUS
<1>12. completed \in Days \cup {None} /\ (completed # None => progress.completed # None \/ done # {})
  <2>1. CASE progress.completed = None /\ done # {}
    <3>1. done \in SUBSET Nat
      BY <1>6, <1>8
    <3>2. Min(done) \in done
      BY <2>1, <3>1, MinIn
    <3> QED
      BY <1>6, <1>11, <2>1, <3>2
  <2>2. CASE ~(progress.completed = None /\ done # {})
    BY <1>3, <1>11, <2>2 DEF Progress
  <2> QED
    BY <2>1, <2>2
<1>13. progress' = [progress EXCEPT !.played = latest, !.completed = completed]
  BY <1>2, <1>5, <1>7, <1>11 DEF SyncProgress
<1>14. progress' \in Progress /\ progress'.played = latest /\ progress'.completed = completed
  BY <1>3, <1>10, <1>12, <1>13 DEF Progress
<1>15. completed # None => latest # None
  <2>1. CASE done # {}
    <3>1. PICK d \in done : d \in all /\ d \in 1..LastDay /\ d <= latest
      BY <1>6, <1>8, <1>9, <2>1
    <3> QED
      BY <1>8, <3>1 DEF None
  <2>2. CASE progress.completed # None
    <3>1. played # None
      BY <1>7, <2>2 DEF ProgressInv, CompletedIsPlayed
    <3> QED
      BY <1>8, <1>9, <3>1 DEF None
  <2> QED
    BY <1>12, <2>1, <2>2
<1>16. ProgressTypeOK'
  BY <1>2, <1>4, <1>14 DEF ProgressInv, ProgressTypeOK
<1>17. CompletedIsPlayed'
  BY <1>14, <1>15 DEF CompletedIsPlayed
<1>18. Covered'
  BY <1>5, <1>9, <1>14 DEF Covered
<1> QED
  BY <1>2, <1>16, <1>17, <1>18 DEF ProgressInv, MarkerStep

LEMMA DeletePlayKeeps ==
  ASSUME ProgressInv, NEW p \in PlayId, DeletePlay(p)
  PROVE  ProgressInv' /\ MarkerStep
<1>1. plays' = [plays EXCEPT ![p] = NoEdit] /\ UNCHANGED <<day, edits>>
  BY DEF DeletePlay
<1>2. plays \in [PlayId -> {NoEdit} \cup [on : Days, completes : BOOLEAN]] /\ progress \in Progress
  BY DEF ProgressInv, ProgressTypeOK
<1>3. plays' \in [PlayId -> {NoEdit} \cup [on : Days, completes : BOOLEAN]]
  BY <1>1, <1>2
<1>4. PICK all : all = PlayDays'
  OBVIOUS
<1>5. all \subseteq PlayDays /\ PlayDays \subseteq Days
  <2>1. LoggedPlays' \subseteq LoggedPlays /\ \A q \in LoggedPlays' : plays'[q] = plays[q]
    BY <1>1, <1>2 DEF LoggedPlays
  <2>2. PlayDays' \subseteq PlayDays
    BY <2>1 DEF PlayDays
  <2> QED
    BY <1>2, <1>4, <2>2, PlayDaysAreDays
<1>6. ASSUME NEW q \in PlayId, plays'[q] # plays[q], plays'[q] # NoEdit PROVE FALSE
  BY <1>1, <1>2, <1>6
<1>7. CASE progress.played = plays[p].on /\ all # {}
  <2>1. PICK latest : latest = Max(all)
    OBVIOUS
  <2>2. latest \in all /\ (\A d \in all : d <= latest)
    <3>1. all \in SUBSET (0..LastDay) /\ LastDay \in Nat
      BY <1>5, ProgressConstants DEF Days
    <3> QED
      BY <1>7, <2>1, <3>1, MaxIn
  <2>3. progress' = [progress EXCEPT !.played = latest]
    BY <1>4, <1>7, <2>1 DEF DeletePlay
  <2>4. latest \in Days /\ latest # None
    BY <1>5, <2>2, ProgressConstants DEF Days, None
  <2>5. progress' \in Progress /\ progress'.played = latest
    BY <1>2, <2>3, <2>4 DEF Progress
  <2>6. ProgressTypeOK'
    BY <1>1, <1>3, <2>5 DEF ProgressInv, ProgressTypeOK
  <2>7. CompletedIsPlayed' /\ Covered'
    BY <1>4, <2>2, <2>4, <2>5 DEF CompletedIsPlayed, Covered
  <2> QED
    BY <1>1, <2>6, <2>7 DEF ProgressInv, MarkerStep
<1>8. CASE ~(progress.played = plays[p].on /\ all # {})
  <2>1. progress' = progress
    BY <1>4, <1>8 DEF DeletePlay
  <2>2. ProgressTypeOK'
    BY <1>1, <1>3, <2>1 DEF ProgressInv, ProgressTypeOK
  <2>3. CompletedIsPlayed'
    BY <2>1 DEF ProgressInv, CompletedIsPlayed
  <2>4. Covered => Covered'
    BY <1>4, <1>5, <2>1 DEF Covered
  <2> QED
    BY <1>1, <1>6, <2>2, <2>3, <2>4 DEF ProgressInv, MarkerStep
<1> QED
  BY <1>7, <1>8

LEMMA ProgressKeeps ==
  ASSUME ProgressInv, [ProgressNext]_progressVars
  PROVE  ProgressInv' /\ MarkerStep
<1>1. CASE NextDay \/ UNCHANGED progressVars
  <2>1. UNCHANGED <<plays, progress, edits>> /\ day' \in Days
    BY <1>1, ProgressConstants DEF NextDay, progressVars, ProgressInv, ProgressTypeOK, Days
  <2>2. ProgressTypeOK' /\ CompletedIsPlayed'
    BY <2>1 DEF ProgressInv, ProgressTypeOK, CompletedIsPlayed
  <2> QED
    BY <2>1, <2>2 DEF ProgressInv, MarkerStep
<1>2. CASE \E p \in PlayId : LogStep(p)
  BY <1>2, StorePlayKeeps, DeletePlayKeeps DEF LogStep, CreatePlay, UpdatePlay
<1>3. CASE \E e \in Editor : WriteProgress(e) \/ \E r \in Request : ReadProgress(e, r)
  BY <1>3, ReadProgressKeeps, WriteProgressKeeps
<1> QED
  BY <1>1, <1>2, <1>3 DEF ProgressNext

\* A completed game has been played, whatever edits and plays interleave and however
\* many there are (PlayProgress!CompletedIsPlayed).
THEOREM CompletionImpliesPlayed == ProgressSpec => []CompletedIsPlayed
<1>1. ProgressInv => CompletedIsPlayed
  BY DEF ProgressInv
<1> QED
  BY <1>1, InitProgress, ProgressKeeps, PTL DEF ProgressSpec

\* Logging, moving or deleting a play leaves the marker at or after every play
\* (PlayProgress!MarkerFollowsPlays).
THEOREM MarkersFollow == ProgressSpec => MarkerFollowsPlays
<1>1. ProgressInv /\ [ProgressNext]_progressVars => ProgressInv' /\ [MarkerStep]_progressVars
  BY ProgressKeeps
<1>2. [][MarkerStep]_progressVars => MarkerFollowsPlays
  BY PTL DEF MarkerStep, MarkerFollowsPlays
<1> QED
  BY <1>1, <1>2, InitProgress, PTL DEF ProgressSpec

-----------------------------------------------------------------------------
(* Lists and wishes *)

ListRow == [kind : {"smart", "manual"}, renamed : BOOLEAN, filters : Filters]
WishRow == [kind : {"wish"}, title : WishTitle, prices : {NoPrices} \cup [title : WishTitle]]
Renaming == [op : {"update"}, list : ListId, renamed : BOOLEAN, filters : Filters]
Filing == [op : {"item"}, list : ListId, game : ListGame, present : BOOLEAN]

RowSound(row) ==
  /\ row.kind = "manual" => row.filters = NoFilters
  /\ row.kind \in {"smart", "manual"} => Normal(row.filters)

\* What was read of a list still fits it, unless the list is gone: a list does not
\* change its kind, and its identifier is not given again.
EditSound(edit) ==
  /\ edit.op = "update" =>
       /\ lists[edit.list].kind # "unborn" /\ Normal(edit.filters)
       /\ lists[edit.list].kind = "manual" => edit.filters = NoFilters
  /\ edit.op = "item" => lists[edit.list].kind \in {"manual", "gone"}

ListInv ==
  /\ ListTypeOK
  /\ listEdit \in [ListEditor -> {Ready} \cup Renaming \cup Filing]
  /\ pricing \subseteq [key : WishKey, title : WishTitle]
  /\ \A m \in members : lists[m[1]].kind = "manual"
  /\ \A l \in ListId : RowSound(lists[l])
  /\ \A e \in ListEditor : EditSound(listEdit[e])

LEMMA ListTypes ==
  ASSUME ListInv
  PROVE  /\ lists \in [ListId -> {Gone, Unborn} \cup ListRow]
         /\ wishes \in [WishKey -> {Gone} \cup WishRow]
         /\ members \subseteq ListId \X ListGame /\ owned \subseteq ListGame
BY DEF ListInv, ListTypeOK, ListRow, WishRow

LEMMA InvListsWellFormed == ListInv => ListsWellFormed
BY DEF ListInv, ListsWellFormed, RowSound, Exists

LEMMA InitLists == ListInit => ListInv
<1> SUFFICES ASSUME ListInit PROVE ListInv
  OBVIOUS
<1>1. /\ lists = [l \in ListId |-> Unborn] /\ members = {} /\ owned = {}
      /\ listEdit = [e \in ListEditor |-> Ready]
      /\ wishes = [k \in WishKey |-> Gone] /\ pricing = {}
  BY DEF ListInit
<1>2. ListTypeOK
  BY <1>1 DEF ListTypeOK
<1>3. \A l \in ListId : RowSound(lists[l])
  BY <1>1 DEF RowSound, Unborn
<1>4. \A e \in ListEditor : EditSound(listEdit[e])
  BY <1>1 DEF EditSound, Ready
<1> QED
  BY <1>1, <1>2, <1>3, <1>4 DEF ListInv

\* A step that changes neither lists nor what was read of them, and files no game.
LEMMA ListsKept ==
  ASSUME ListInv, UNCHANGED lists, members' \subseteq members,
         listEdit' \in [ListEditor -> {Ready} \cup Renaming \cup Filing],
         \A e \in ListEditor : listEdit'[e] \in {Ready, listEdit[e]},
         owned' \subseteq ListGame, wishes' \in [WishKey -> {Gone} \cup WishRow],
         pricing' \subseteq [key : WishKey, title : WishTitle]
  PROVE  ListInv'
<1>1. ListTypeOK'
  BY ListTypes DEF ListTypeOK, ListRow, WishRow
<1>2. \A e \in ListEditor : EditSound(listEdit[e])'
  BY DEF ListInv, EditSound, Ready
<1> QED
  BY <1>1, <1>2 DEF ListInv

LEMMA CreateListKeeps ==
  ASSUME ListInv, NEW l \in ListId, NEW kind \in {"smart", "manual"}, NEW f \in Filters,
         CreateList(l, kind, f)
  PROVE  ListInv'
<1>1. PICK row : row = [kind |-> kind, renamed |-> FALSE, filters |-> f]
  OBVIOUS
<1>2. /\ lists' = [lists EXCEPT ![l] = row] /\ lists[l] = Unborn
      /\ (kind = "manual" => f = NoFilters) /\ Normal(f)
      /\ UNCHANGED <<members, owned, listEdit, wishes, pricing>>
  BY <1>1 DEF CreateList
<1>3. row \in ListRow /\ row.kind = kind /\ row.filters = f
  BY <1>1 DEF ListRow
<1>4. lists' \in [ListId -> {Gone, Unborn} \cup ListRow]
  BY <1>2, <1>3, ListTypes
<1>5. ListTypeOK'
  BY <1>2, <1>4 DEF ListInv, ListTypeOK, ListRow
<1>6. /\ lists'[l] = row /\ \A o \in ListId \ {l} : lists'[o] = lists[o]
  BY <1>2, ListTypes
<1>7. \A o \in ListId : RowSound(lists'[o])
  BY <1>2, <1>3, <1>6 DEF ListInv, RowSound
<1>8. lists[l].kind = "unborn"
  BY <1>2 DEF Unborn
<1>9. \A m \in members : lists'[m[1]].kind = "manual"
  <2> TAKE m \in members
  <2>1. m[1] \in ListId /\ lists[m[1]].kind = "manual" /\ m[1] # l
    BY <1>8, ListTypes DEF ListInv
  <2> QED
    BY <1>6, <2>1
<1>10. \A e \in ListEditor : EditSound(listEdit[e])'
  <2> TAKE e \in ListEditor
  <2>1. PICK edit : edit = listEdit[e] /\ edit = listEdit'[e]
    BY <1>2
  <2>2. EditSound(edit) /\ edit \in {Ready} \cup Renaming \cup Filing
    BY <2>1 DEF ListInv
  <2>3. edit.op \in {"update", "item"} => edit.list \in ListId \ {l}
    BY <1>8, <2>2 DEF EditSound, Ready, Renaming, Filing
  <2>4. edit.op \in {"update", "item"} => lists'[edit.list] = lists[edit.list]
    BY <1>6, <2>3
  <2>5. EditSound(edit)'
    BY <2>2, <2>4 DEF EditSound
  <2> QED
    BY <2>1, <2>5
<1> QED
  BY <1>2, <1>5, <1>7, <1>9, <1>10 DEF ListInv

LEMMA DeleteListKeeps ==
  ASSUME ListInv, NEW l \in ListId, DeleteList(l)
  PROVE  ListInv'
<1>1. /\ lists' = [lists EXCEPT ![l] = Gone] /\ members' = {m \in members : m[1] # l} /\ Exists(l)
      /\ UNCHANGED <<owned, listEdit, wishes, pricing>>
  BY DEF DeleteList
<1>2. /\ lists'[l] = Gone /\ \A o \in ListId \ {l} : lists'[o] = lists[o]
  BY <1>1, ListTypes
<1>3. ListTypeOK'
  <2>1. lists' \in [ListId -> {Gone, Unborn} \cup ListRow]
    BY <1>1, ListTypes
  <2> QED
    BY <1>1, <2>1 DEF ListInv, ListTypeOK, ListRow
<1>4. \A o \in ListId : RowSound(lists'[o])
  BY <1>2 DEF ListInv, RowSound, Gone
<1>5. \A m \in members' : lists'[m[1]].kind = "manual"
  <2> TAKE m \in members'
  <2>1. m[1] \in ListId \ {l} /\ lists[m[1]].kind = "manual"
    BY <1>1, ListTypes DEF ListInv
  <2> QED
    BY <1>2, <2>1
<1>6. \A e \in ListEditor : EditSound(listEdit[e])'
  <2> TAKE e \in ListEditor
  <2>1. PICK edit : edit = listEdit[e] /\ edit = listEdit'[e]
    BY <1>1
  <2>2. EditSound(edit) /\ edit \in {Ready} \cup Renaming \cup Filing
    BY <2>1 DEF ListInv
  <2>3. edit.op \in {"update", "item"} => edit.list \in ListId
    BY <2>2 DEF Ready, Renaming, Filing
  <2>4. edit.op \in {"update", "item"} => lists'[edit.list] \in {Gone, lists[edit.list]}
    BY <1>2, <2>3
  <2>5. EditSound(edit)'
    BY <2>2, <2>4 DEF EditSound, Gone
  <2> QED
    BY <2>1, <2>5
<1> QED
  BY <1>1, <1>3, <1>4, <1>5, <1>6 DEF ListInv

\* What an update reads: a new filter for a smart list, or the one the list has.
LEMMA ReadUpdateKeeps ==
  ASSUME ListInv, NEW e \in ListEditor, NEW l \in ListId, NEW rename \in BOOLEAN,
         NEW fs \in {{}} \cup {{f} : f \in Filters}, ReadForUpdate(e, l, rename, fs)
  PROVE  ListInv'
<1>1. PICK row : row = lists[l]
  OBVIOUS
<1>2. row \in ListRow /\ RowSound(row)
  <2>1. row.kind \in {"smart", "manual"} /\ row \in {Gone, Unborn} \cup ListRow
    BY <1>1, ListTypes DEF ReadForUpdate, Exists
  <2> QED
    BY <1>1, <2>1 DEF Gone, Unborn, ListInv
<1>3. PICK filters : filters = CHOOSE f \in fs \cup {row.filters} : fs = {} \/ f \in fs
  OBVIOUS
<1>4. filters \in Filters /\ Normal(filters) /\ (row.kind = "manual" => filters = NoFilters)
  <2>1. \A f \in fs : row.kind = "smart" /\ Normal(f) /\ f \in Filters
    BY <1>1 DEF ReadForUpdate
  <2>2. row.filters \in Filters /\ Normal(row.filters) /\ (row.kind = "manual" => row.filters = NoFilters)
    BY <1>2 DEF ListRow, RowSound
  <2>3. \E f \in fs \cup {row.filters} : fs = {} \/ f \in fs
    OBVIOUS
  <2>4. filters \in fs \cup {row.filters} /\ (fs = {} \/ filters \in fs)
    BY <1>3, <2>3
  <2> QED
    BY <2>1, <2>2, <2>4
<1>5. PICK renamed \in BOOLEAN : renamed = (rename \/ row.renamed)
  OBVIOUS
<1>6. PICK edit : edit = [op |-> "update", list |-> l, renamed |-> renamed, filters |-> filters]
  OBVIOUS
<1>7. edit \in Renaming /\ edit.op = "update" /\ edit.list = l /\ edit.filters = filters
  BY <1>4, <1>6 DEF Renaming
<1>8. listEdit' = [listEdit EXCEPT ![e] = edit] /\ UNCHANGED <<lists, members, owned, wishes, pricing>>
  BY <1>1, <1>3, <1>5, <1>6 DEF ReadForUpdate
<1>9. EditSound(edit)'
  <2>1. row.kind # "unborn"
    BY <1>2 DEF ListRow
  <2> QED
    BY <1>1, <1>4, <1>7, <1>8, <2>1 DEF EditSound
<1>10. \A d \in ListEditor : EditSound(listEdit[d])'
  BY <1>8, <1>9 DEF ListInv, EditSound
<1> QED
  BY <1>7, <1>8, <1>10 DEF ListInv, ListTypeOK

LEMMA ReadItemKeeps ==
  ASSUME ListInv, NEW e \in ListEditor, NEW l \in ListId, NEW g \in ListGame, NEW present \in BOOLEAN,
         ReadForItem(e, l, g, present)
  PROVE  ListInv'
<1>1. PICK edit : edit = [op |-> "item", list |-> l, game |-> g, present |-> present]
  OBVIOUS
<1>2. edit \in Filing /\ edit.op = "item" /\ edit.list = l
  BY <1>1 DEF Filing
<1>3. /\ listEdit' = [listEdit EXCEPT ![e] = edit] /\ lists[l].kind = "manual"
      /\ UNCHANGED <<lists, members, owned, wishes, pricing>>
  BY <1>1 DEF ReadForItem
<1>4. \A d \in ListEditor : EditSound(listEdit[d])'
  BY <1>2, <1>3 DEF ListInv, EditSound
<1> QED
  BY <1>2, <1>3, <1>4 DEF ListInv, ListTypeOK

\* The row that an update finds is still of the kind it read.
LEMMA WriteUpdateKeeps ==
  ASSUME ListInv, NEW e \in ListEditor, WriteUpdate(e)
  PROVE  ListInv'
<1>1. PICK edit : edit = listEdit[e]
  OBVIOUS
<1>2. edit \in Renaming /\ EditSound(edit) /\ edit.op = "update"
  BY <1>1 DEF WriteUpdate, ListInv, Ready, Filing
<1>3. PICK l \in ListId, renamed \in BOOLEAN, filters \in Filters :
        l = edit.list /\ renamed = edit.renamed /\ filters = edit.filters
  BY <1>2 DEF Renaming
<1>4. listEdit' = [listEdit EXCEPT ![e] = Ready] /\ UNCHANGED <<members, owned, wishes, pricing>>
  BY DEF WriteUpdate
<1>5. /\ listEdit' \in [ListEditor -> {Ready} \cup Renaming \cup Filing]
      /\ \A d \in ListEditor : listEdit'[d] \in {Ready, listEdit[d]}
  BY <1>4 DEF ListInv
<1>6. CASE ~Exists(l)
  <2>1. lists' = lists
    BY <1>1, <1>3, <1>6 DEF WriteUpdate
  <2> QED
    BY <1>4, <1>5, <2>1, ListsKept, ListTypes DEF ListInv
<1>7. CASE Exists(l)
  <2>1. PICK row : row = lists[l]
    OBVIOUS
  <2>2. row \in ListRow
    <3>1. row \in {Gone, Unborn} \cup ListRow /\ row.kind \in {"smart", "manual"}
      BY <1>7, <2>1, ListTypes DEF Exists
    <3> QED
      BY <3>1 DEF Gone, Unborn
  <2>3. PICK next : next = [row EXCEPT !.renamed = renamed, !.filters = filters]
    OBVIOUS
  <2>4. next \in ListRow /\ next.kind = row.kind /\ next.filters = filters
    BY <1>3, <2>2, <2>3 DEF ListRow
  <2>5. lists' = [lists EXCEPT ![l] = next]
    <3>1. lists' = [lists EXCEPT ![l].renamed = renamed, ![l].filters = filters]
      BY <1>1, <1>3, <1>7 DEF WriteUpdate
    <3> QED
      BY <2>1, <2>2, <2>3, <3>1, ListTypes DEF ListRow
  <2>6. /\ lists' \in [ListId -> {Gone, Unborn} \cup ListRow] /\ lists'[l] = next
        /\ \A o \in ListId \ {l} : lists'[o] = lists[o]
    BY <2>4, <2>5, ListTypes
  <2>7. \A o \in ListId : lists'[o].kind = lists[o].kind
    BY <2>1, <2>4, <2>6
  <2>8. RowSound(next)
    BY <1>2, <1>3, <2>1, <2>4 DEF EditSound, RowSound
  <2>9. \A o \in ListId : RowSound(lists'[o])
    BY <2>6, <2>8 DEF ListInv
  <2>10. \A m \in members' : lists'[m[1]].kind = "manual"
    <3> TAKE m \in members'
    <3>1. m[1] \in ListId /\ lists[m[1]].kind = "manual"
      BY <1>4, ListTypes DEF ListInv
    <3> QED
      BY <2>7, <3>1
  <2>11. \A d \in ListEditor : EditSound(listEdit[d])'
    <3> TAKE d \in ListEditor
    <3>1. PICK other : other = listEdit'[d]
      OBVIOUS
    <3>2. EditSound(other) /\ other \in {Ready} \cup Renaming \cup Filing
      BY <1>5, <3>1 DEF ListInv, EditSound, Ready
    <3>3. other.op \in {"update", "item"} => lists'[other.list].kind = lists[other.list].kind
      BY <2>7, <3>2 DEF Ready, Renaming, Filing
    <3>4. EditSound(other)'
      BY <3>2, <3>3 DEF EditSound
    <3> QED
      BY <3>1, <3>4
  <2>12. ListTypeOK'
    BY <1>4, <2>6 DEF ListInv, ListTypeOK, ListRow
  <2> QED
    BY <1>4, <1>5, <2>9, <2>10, <2>11, <2>12 DEF ListInv
<1> QED
  BY <1>6, <1>7

\* A list that is gone refuses the game; a list that is there is a manual one.
LEMMA SetItemKeeps ==
  ASSUME ListInv, NEW e \in ListEditor, SetItem(e)
  PROVE  ListInv'
<1>1. PICK edit : edit = listEdit[e]
  OBVIOUS
<1>2. edit \in Filing /\ EditSound(edit) /\ edit.op = "item"
  BY <1>1 DEF SetItem, ListInv, Ready, Renaming
<1>3. PICK l \in ListId, g \in ListGame : l = edit.list /\ g = edit.game
  BY <1>2 DEF Filing
<1>4. PICK item : item = <<l, g>>
  OBVIOUS
<1>5. listEdit' = [listEdit EXCEPT ![e] = Ready] /\ UNCHANGED <<lists, owned, wishes, pricing>>
  BY DEF SetItem
<1>6. /\ listEdit' \in [ListEditor -> {Ready} \cup Renaming \cup Filing]
      /\ \A d \in ListEditor : listEdit'[d] \in {Ready, listEdit[d]}
  BY <1>5 DEF ListInv
<1>7. CASE edit.present /\ Exists(l) /\ g \in owned
  <2>1. members' = members \cup {item}
    BY <1>1, <1>3, <1>4, <1>7 DEF SetItem
  <2>2. lists[l].kind = "manual"
    BY <1>2, <1>3, <1>7 DEF EditSound, Exists
  <2>3. item \in ListId \X ListGame /\ item[1] = l
    BY <1>4
  <2>4. \A m \in members' : lists'[m[1]].kind = "manual"
    BY <1>5, <2>1, <2>2, <2>3 DEF ListInv
  <2>5. ListTypeOK'
    BY <1>5, <2>1, <2>3 DEF ListInv, ListTypeOK
  <2>6. \A d \in ListEditor : EditSound(listEdit[d])'
    BY <1>5, <1>6 DEF ListInv, EditSound, Ready
  <2> QED
    BY <1>5, <1>6, <2>4, <2>5, <2>6 DEF ListInv
<1>8. CASE ~(edit.present /\ Exists(l) /\ g \in owned)
  <2>1. members' \subseteq members
    <3>1. members' \in {members \ {item}, members}
      BY <1>1, <1>3, <1>4, <1>8 DEF SetItem
    <3> QED
      BY <3>1
  <2> QED
    BY <1>5, <1>6, <2>1, ListsKept, ListTypes DEF ListInv
<1> QED
  BY <1>7, <1>8

LEMMA WishKeeps ==
  ASSUME ListInv, (\E k \in WishKey : WishStep(k)) \/ (\E p \in pricing : SetPrices(p) \/ SearchFails(p))
  PROVE  ListInv'
<1>1. wishes \in [WishKey -> {Gone} \cup WishRow] /\ pricing \subseteq [key : WishKey, title : WishTitle]
  BY ListTypes DEF ListInv
<1>2. ASSUME wishes' \in [WishKey -> {Gone} \cup WishRow], pricing' \subseteq [key : WishKey, title : WishTitle],
             UNCHANGED <<lists, members, owned, listEdit>>
      PROVE  ListInv'
  BY <1>2, ListsKept, ListTypes DEF ListInv
<1>3. ASSUME NEW k \in WishKey, NEW title \in WishTitle, UpsertWish(k, title) PROVE ListInv'
  <2>1. [kind |-> "wish", title |-> title, prices |-> NoPrices] \in WishRow
    BY DEF WishRow
  <2> QED
    BY <1>1, <1>2, <1>3, <2>1 DEF UpsertWish
<1>4. ASSUME NEW k \in WishKey, SearchPrices(k) PROVE ListInv'
  <2>1. wishes[k] \in WishRow
    BY <1>1, <1>4 DEF SearchPrices
  <2>2. PICK title \in WishTitle : title = wishes[k].title
    BY <2>1 DEF WishRow
  <2>3. pricing' = pricing \cup {[key |-> k, title |-> title]} /\ UNCHANGED <<lists, members, owned, listEdit, wishes>>
    BY <1>4, <2>2 DEF SearchPrices
  <2> QED
    BY <1>1, <1>2, <2>3
<1>5. ASSUME NEW k \in WishKey, DeleteWish(k) PROVE ListInv'
  BY <1>1, <1>2, <1>5 DEF DeleteWish
<1>6. ASSUME NEW p \in pricing, SetPrices(p) PROVE ListInv'
  <2>1. PICK k \in WishKey, title \in WishTitle : p.key = k /\ p.title = title
    BY <1>1
  <2>2. pricing' = pricing \ {p} /\ UNCHANGED <<lists, members, owned, listEdit>>
    BY <1>6 DEF SetPrices
  <2>3. CASE wishes[k] = Gone
    BY <1>1, <1>2, <1>6, <2>1, <2>2, <2>3 DEF SetPrices
  <2>4. CASE wishes[k] # Gone
    <3>1. PICK row \in WishRow : row = wishes[k]
      BY <1>1, <2>4
    <3>2. PICK prices : prices = [title |-> title]
      OBVIOUS
    <3>3. [row EXCEPT !.prices = prices] \in WishRow
      BY <2>1, <3>2 DEF WishRow
    <3>4. wishes' = [wishes EXCEPT ![k] = [row EXCEPT !.prices = prices]]
      BY <1>1, <1>6, <2>1, <2>4, <3>1, <3>2 DEF SetPrices
    <3> QED
      BY <1>1, <1>2, <2>2, <3>3, <3>4
  <2> QED
    BY <2>3, <2>4
<1>7. ASSUME NEW p \in pricing, SearchFails(p) PROVE ListInv'
  BY <1>1, <1>2, <1>7 DEF SearchFails
<1> QED
  BY <1>3, <1>4, <1>5, <1>6, <1>7 DEF WishStep

LEMMA ListKeeps ==
  ASSUME ListInv, [ListNext]_listVars
  PROVE  ListInv'
<1>1. ASSUME NEW l \in ListId, ListStep(l) PROVE ListInv'
  BY <1>1, CreateListKeeps, DeleteListKeeps, ReadUpdateKeeps, ReadItemKeeps DEF ListStep
<1>2. ASSUME NEW g \in ListGame, ChangeOwnership(g) PROVE ListInv'
  <2>1. owned' \subseteq ListGame /\ UNCHANGED <<lists, members, listEdit, wishes, pricing>>
    BY <1>2, ListTypes DEF ChangeOwnership
  <2> QED
    BY <2>1, ListsKept, ListTypes DEF ListInv
<1>3. CASE UNCHANGED listVars
  BY <1>3, ListsKept, ListTypes DEF listVars, ListInv
<1> QED
  BY <1>1, <1>2, <1>3, WriteUpdateKeeps, SetItemKeeps, WishKeeps DEF ListNext

\* Members belong to manual lists that exist and stored filters are valid, although
\* lists are read and changed in different transactions, for any number of editors
\* (SavedLists!ListsWellFormed).
THEOREM ListsStayWellFormed == ListSpec => []ListsWellFormed
BY InitLists, ListKeeps, InvListsWellFormed, PTL DEF ListSpec

-----------------------------------------------------------------------------
(* The synchronisation with BGG *)

SyncPhase == {"base", "expansions", "import", "success", "error", "enrich"}
SyncTask == [phase : SyncPhase, attempt : 0..(RequestAttempts - 1), at : 0..MaxSyncClock,
             created : SUBSET SyncedGame]

\* A call that holds the lock is the last attempt; what it created is known, and in
\* the library, from the import on.
TaskSound(task) ==
  /\ task.phase # "enrich" => task.at = syncState.attempt
  /\ task.phase = "success" => task.at \in runs
  /\ task.phase \in {"base", "expansions", "import", "error"} => task.created = {}
  /\ task.created \subseteq library

StateSound ==
  /\ syncState.success # Never => syncState.success \in runs /\ syncState.success <= syncState.attempt
  /\ syncState.attempt <= syncClock

SyncTypes ==
  /\ library \subseteq SyncedGame
  /\ metadata \in [SyncedGame -> {"absent", "failed", "stored"}]
  /\ syncing \in [Caller -> {Idle} \cup SyncTask]
  /\ syncState \in [attempt : Never..MaxSyncClock, success : Never..MaxSyncClock, error : BOOLEAN]
  /\ runs \subseteq 0..MaxSyncClock
  /\ backfill \in 0..BackfillRounds /\ syncClock \in 0..MaxSyncClock

SyncInv ==
  /\ SyncTypes /\ StateSound
  /\ \A c \in Caller : syncing[c] # Idle => TaskSound(syncing[c])
  /\ \A c, d \in Caller : c # d /\ Holds(c) => ~Holds(d)
  /\ \A c, d \in Caller :
       c # d /\ syncing[c] # Idle /\ syncing[d] # Idle => syncing[c].created \cap syncing[d].created = {}

LEMMA SyncBounds ==
  /\ RequestAttempts \in Nat /\ RequestAttempts - 1 \in Nat /\ MaxSyncClock \in Nat /\ BackfillRounds \in Nat
BY SyncConstants

LEMMA TaskOrIdle ==
  ASSUME NEW t \in {Idle} \cup SyncTask
  PROVE  t # Idle <=> t \in SyncTask
BY DEF Idle, SyncTask, SyncPhase

LEMMA InvSyncsSeparate == SyncInv => SyncsSeparate
BY DEF SyncInv, StateSound, SyncsSeparate

LEMMA InitSync == SyncInit => SyncInv
<1> SUFFICES ASSUME SyncInit PROVE SyncInv
  OBVIOUS
<1>1. \A c \in Caller : syncing[c] = Idle /\ ~Holds(c)
  BY DEF SyncInit, Holds
<1>2. SyncTypes
  BY SyncBounds DEF SyncInit, SyncTypes, Never
<1>3. StateSound
  BY DEF SyncInit, StateSound, Never
<1> QED
  BY <1>1, <1>2, <1>3 DEF SyncInv

\* A call moves on, or returns: what it created does not grow, and it does not take
\* the lock.
LEMMA SyncMoves ==
  ASSUME SyncInv, NEW c \in Caller, NEW task \in SyncTask, task = syncing[c],
         NEW next \in {Idle} \cup SyncTask,
         syncing' = [syncing EXCEPT ![c] = next],
         next # Idle =>
           /\ next.phase # "enrich" => task.phase # "enrich" /\ next.at = task.at
           /\ next.phase = "success" => next.at \in runs'
           /\ next.phase \in {"base", "expansions", "import", "error"} => next.created = {}
           /\ next.created \subseteq task.created \cup (library' \ library),
         library \subseteq library', library' \subseteq SyncedGame,
         runs \subseteq runs', runs' \subseteq 0..MaxSyncClock,
         metadata' \in [SyncedGame -> {"absent", "failed", "stored"}],
         syncState' \in [attempt : Never..MaxSyncClock, success : Never..MaxSyncClock, error : BOOLEAN],
         syncState'.attempt = syncState.attempt,
         syncState'.success \in {syncState.success, task.at},
         syncState'.success # syncState.success => task.phase = "success",
         UNCHANGED <<backfill, syncClock>>
  PROVE  SyncInv'
<1>1. /\ SyncTypes /\ StateSound /\ task # Idle /\ TaskSound(task)
      /\ \A d, e \in Caller : d # e /\ Holds(d) => ~Holds(e)
      /\ \A d, e \in Caller :
           d # e /\ syncing[d] # Idle /\ syncing[e] # Idle => syncing[d].created \cap syncing[e].created = {}
  BY TaskOrIdle DEF SyncInv
<1>2. syncing'[c] = next /\ \A d \in Caller \ {c} : syncing'[d] = syncing[d]
  BY <1>1 DEF SyncTypes
<1>3. SyncTypes'
  BY <1>1 DEF SyncTypes
<1>4. StateSound'
  <2>1. syncState'.attempt <= syncClock'
    BY <1>1 DEF StateSound
  <2>2. CASE syncState'.success = syncState.success
    BY <1>1, <2>2 DEF StateSound
  <2>3. CASE syncState'.success # syncState.success
    <3>1. task.phase = "success" /\ syncState'.success = task.at
      BY <2>3
    <3>2. task.at \in runs /\ task.at = syncState.attempt /\ task.at \in Int
      BY <1>1, <3>1 DEF TaskSound, SyncTask
    <3> QED
      BY <2>1, <3>1, <3>2 DEF StateSound
  <2> QED
    BY <2>2, <2>3
<1>5. \A d \in Caller : syncing'[d] # Idle => TaskSound(syncing[d])'
  <2> SUFFICES ASSUME NEW d \in Caller, syncing'[d] # Idle PROVE TaskSound(syncing[d])'
    OBVIOUS
  <2>1. CASE d = c
    <3>1. next.phase # "enrich" => next.at = syncState'.attempt
      BY <1>1, <1>2, <2>1 DEF TaskSound
    <3>2. next.created \subseteq library'
      BY <1>1, <1>2, <2>1 DEF TaskSound
    <3> QED
      BY <1>2, <2>1, <3>1, <3>2 DEF TaskSound
  <2>2. CASE d # c
    <3>1. PICK other : other = syncing[d] /\ other = syncing'[d] /\ other # Idle
      BY <1>2, <2>2
    <3>2. TaskSound(other)
      BY <3>1 DEF SyncInv
    <3>3. TaskSound(other)'
      BY <3>2 DEF TaskSound
    <3> QED
      BY <3>1, <3>3
  <2> QED
    BY <2>1, <2>2
<1>6. \A d \in Caller : Holds(d)' => Holds(d)
  BY <1>1, <1>2 DEF Holds
<1>7. \A d, e \in Caller : d # e /\ syncing'[d] # Idle /\ syncing'[e] # Idle =>
        syncing'[d].created \cap syncing'[e].created = {}
  <2>1. ASSUME NEW d \in Caller \ {c}, syncing'[d] # Idle, next # Idle
        PROVE  next.created \cap syncing'[d].created = {}
    <3>1. PICK other : other = syncing[d] /\ other = syncing'[d] /\ other # Idle
      BY <1>2, <2>1
    <3>2. TaskSound(other) /\ task.created \cap other.created = {}
      BY <1>1, <3>1 DEF SyncInv
    <3>3. other.created \subseteq library
      BY <3>2 DEF TaskSound
    <3> QED
      BY <2>1, <3>1, <3>2, <3>3
  <2> SUFFICES ASSUME NEW d \in Caller, NEW e \in Caller, d # e, syncing'[d] # Idle, syncing'[e] # Idle
               PROVE  syncing'[d].created \cap syncing'[e].created = {}
    OBVIOUS
  <2>2. CASE d = c
    BY <1>2, <2>1, <2>2
  <2>3. CASE e = c
    BY <1>2, <2>1, <2>3
  <2>4. CASE d # c /\ e # c
    BY <1>1, <1>2, <2>4
  <2> QED
    BY <2>2, <2>3, <2>4
<1>8. \A d, e \in Caller : d # e /\ Holds(d)' => ~Holds(e)'
  BY <1>1, <1>6
<1> QED
  BY <1>3, <1>4, <1>5, <1>7, <1>8 DEF SyncInv

LEMMA BeginSyncKeeps ==
  ASSUME SyncInv, NEW c \in Caller, NEW force, BeginSync(c, force)
  PROVE  SyncInv'
<1>1. PICK next : next = [phase |-> "base", attempt |-> 0, at |-> syncClock, created |-> {}]
  OBVIOUS
<1>2. /\ syncing[c] = Idle /\ \A d \in Caller : ~Holds(d)
      /\ syncing' = [syncing EXCEPT ![c] = next]
      /\ syncState' = [syncState EXCEPT !.attempt = syncClock]
      /\ UNCHANGED <<library, metadata, runs, backfill, syncClock>>
  BY <1>1 DEF BeginSync
<1>3. SyncTypes /\ StateSound /\ syncClock \in 0..MaxSyncClock
  BY DEF SyncInv, SyncTypes
<1>4. /\ next \in SyncTask /\ next.at = syncClock /\ next.phase = "base" /\ next.created = {}
      /\ next # Idle
  <2>1. next \in SyncTask
    BY <1>1, <1>3, SyncBounds DEF SyncTask, SyncPhase
  <2> QED
    BY <1>1, <2>1, TaskOrIdle
<1>5. syncing'[c] = next /\ \A d \in Caller \ {c} : syncing'[d] = syncing[d]
  BY <1>2, <1>3 DEF SyncTypes
<1>6. /\ syncState' \in [attempt : Never..MaxSyncClock, success : Never..MaxSyncClock, error : BOOLEAN]
      /\ syncState'.attempt = syncClock /\ syncState'.success = syncState.success
      /\ syncState.attempt \in Int /\ syncState.success \in Int
  <2>1. syncClock \in Never..MaxSyncClock
    BY <1>3, SyncBounds DEF Never
  <2> QED
    BY <1>2, <1>3, <2>1 DEF SyncTypes, Never
<1>7. SyncTypes'
  BY <1>2, <1>3, <1>4, <1>6 DEF SyncTypes
<1>8. StateSound'
  BY <1>2, <1>3, <1>6 DEF StateSound
<1>9. \A d \in Caller : syncing'[d] # Idle => TaskSound(syncing[d])'
  <2> SUFFICES ASSUME NEW d \in Caller, syncing'[d] # Idle PROVE TaskSound(syncing[d])'
    OBVIOUS
  <2>1. CASE d = c
    BY <1>2, <1>4, <1>5, <1>6, <2>1 DEF TaskSound
  <2>2. CASE d # c
    <3>1. PICK other : other = syncing[d] /\ other = syncing'[d] /\ other # Idle
      BY <1>5, <2>2
    <3>2. TaskSound(other) /\ other.phase = "enrich"
      BY <1>2, <3>1 DEF SyncInv, Holds
    <3>3. TaskSound(other)'
      BY <1>2, <3>2 DEF TaskSound
    <3> QED
      BY <3>1, <3>3
  <2> QED
    BY <2>1, <2>2
<1>10. \A d \in Caller \ {c} : ~Holds(d)'
  BY <1>2, <1>5 DEF Holds
<1>11. \A d, e \in Caller : d # e /\ syncing'[d] # Idle /\ syncing'[e] # Idle =>
         syncing'[d].created \cap syncing'[e].created = {}
  <2> SUFFICES ASSUME NEW d \in Caller, NEW e \in Caller, d # e, syncing'[d] # Idle, syncing'[e] # Idle
               PROVE  syncing'[d].created \cap syncing'[e].created = {}
    OBVIOUS
  <2>1. CASE d = c \/ e = c
    BY <1>4, <1>5, <2>1
  <2>2. CASE d # c /\ e # c
    BY <1>5, <2>2 DEF SyncInv
  <2> QED
    BY <2>1, <2>2
<1> QED
  BY <1>7, <1>8, <1>9, <1>10, <1>11 DEF SyncInv

\* A request that is sent again, answered or refused, an import that fails, a
\* recorded error: nothing was created, the lock is held or released.
LEMMA RequestKeeps ==
  ASSUME SyncInv, NEW c \in Caller, NEW task \in SyncTask, task = syncing[c],
         task.phase \in {"base", "expansions", "import", "error"},
         NEW next \in {Idle} \cup SyncTask, next = Idle \/
           (/\ next.phase \in {"base", "expansions", "import", "error"} /\ next.at = task.at
            /\ next.created = task.created),
         syncing' = [syncing EXCEPT ![c] = next],
         syncState' \in [attempt : Never..MaxSyncClock, success : Never..MaxSyncClock, error : BOOLEAN],
         syncState'.attempt = syncState.attempt, syncState'.success = syncState.success,
         UNCHANGED <<library, metadata, runs, backfill, syncClock>>
  PROVE  SyncInv'
<1>1. SyncTypes /\ task.created = {}
  BY TaskOrIdle DEF SyncInv, TaskSound
<1> QED
  BY <1>1, SyncMoves DEF SyncTypes

LEMMA AdvanceKeeps ==
  ASSUME SyncInv, NEW c \in Caller, syncing[c] # Idle,
         syncing[c].phase \in {"base", "expansions", "import"},
         NEW p \in {"expansions", "import", "error"}, Advance(c, p),
         UNCHANGED <<library, metadata, syncState, runs, backfill, syncClock>>
  PROVE  SyncInv'
<1>1. PICK task \in SyncTask : task = syncing[c]
  BY DEF SyncInv, SyncTypes
<1>2. PICK next : next = [task EXCEPT !.phase = p, !.attempt = 0]
  OBVIOUS
<1>3. /\ next \in SyncTask /\ next.phase = p /\ next.at = task.at /\ next.created = task.created
  <2>1. 0 \in 0..(RequestAttempts - 1) /\ p \in SyncPhase
    BY SyncBounds DEF SyncPhase
  <2> QED
    BY <1>1, <1>2, <2>1 DEF SyncTask
<1>4. syncing' = [syncing EXCEPT ![c] = next]
  BY <1>1, <1>2 DEF Advance, SyncInv, SyncTypes, SyncTask
<1> QED
  BY <1>1, <1>3, <1>4, RequestKeeps DEF SyncInv, SyncTypes

LEMMA AgainKeeps ==
  ASSUME SyncInv, NEW c \in Caller, syncing[c] # Idle, RequestAgain(c)
  PROVE  SyncInv'
<1>1. PICK task \in SyncTask : task = syncing[c]
  BY DEF SyncInv, SyncTypes
<1>2. task.phase \in {"base", "expansions"} /\ UNCHANGED <<library, metadata, syncState, runs, backfill, syncClock>>
  BY <1>1 DEF RequestAgain, Requesting
<1>3. CASE task.attempt + 1 < RequestAttempts
  <2>1. PICK k \in 0..(RequestAttempts - 1) : k = task.attempt + 1
    BY <1>1, <1>3, SyncBounds DEF SyncTask
  <2>2. PICK next : next = [task EXCEPT !.attempt = k]
    OBVIOUS
  <2>3. /\ next \in SyncTask /\ next.phase = task.phase /\ next.at = task.at /\ next.created = task.created
    BY <1>1, <2>1, <2>2 DEF SyncTask
  <2>4. syncing' = [syncing EXCEPT ![c] = next]
    <3>1. syncing' = [syncing EXCEPT ![c].attempt = @ + 1]
      BY <1>1, <1>3 DEF RequestAgain
    <3> QED
      BY <1>1, <2>1, <2>2, <3>1 DEF SyncInv, SyncTypes, SyncTask
  <2> QED
    BY <1>1, <1>2, <2>3, <2>4, RequestKeeps DEF SyncInv, SyncTypes
<1>4. CASE ~(task.attempt + 1 < RequestAttempts)
  BY <1>1, <1>2, <1>4, AdvanceKeeps DEF RequestAgain
<1> QED
  BY <1>3, <1>4

\* What an import creates was not in the library: it is new to no other call.
LEMMA PersistKeeps ==
  ASSUME SyncInv, NEW c \in Caller, syncing[c] # Idle, NEW items \in SUBSET SyncedGame, Persist(c, items)
  PROVE  SyncInv'
<1>1. PICK task \in SyncTask : task = syncing[c]
  BY DEF SyncInv, SyncTypes
<1>2. PICK new : new = items \ library
  OBVIOUS
<1>3. PICK next : next = [task EXCEPT !.phase = "success", !.created = new]
  OBVIOUS
<1>4. next \in SyncTask /\ next.phase = "success" /\ next.at = task.at /\ next.created = new
      /\ task.at \in 0..MaxSyncClock
  BY <1>1, <1>2, <1>3 DEF SyncTask, SyncPhase
<1>5. /\ task.phase = "import" /\ library' = library \cup items /\ runs' = runs \cup {task.at}
      /\ UNCHANGED <<metadata, syncState, backfill, syncClock>>
  BY <1>1 DEF Persist
<1>6. syncing' = [syncing EXCEPT ![c] = next]
  <2>1. syncing' = [syncing EXCEPT ![c].phase = "success", ![c].created = new]
    BY <1>2 DEF Persist
  <2> QED
    BY <1>1, <1>3, <2>1 DEF SyncInv, SyncTypes, SyncTask
<1>7. SyncTypes
  BY DEF SyncInv
<1>8. new \subseteq library' \ library /\ library' \subseteq SyncedGame /\ runs' \subseteq 0..MaxSyncClock /\ task.at \in runs'
  BY <1>2, <1>4, <1>5, <1>7 DEF SyncTypes
<1> QED
  BY <1>1, <1>4, <1>5, <1>6, <1>7, <1>8, SyncMoves DEF SyncTypes

LEMMA SuccessKeeps ==
  ASSUME SyncInv, NEW c \in Caller, syncing[c] # Idle, RecordSuccess(c)
  PROVE  SyncInv'
<1>1. PICK task \in SyncTask : task = syncing[c]
  BY DEF SyncInv, SyncTypes
<1>2. /\ task.phase = "success" /\ syncState' = [syncState EXCEPT !.success = task.at, !.error = FALSE]
      /\ UNCHANGED <<library, metadata, runs, backfill, syncClock>>
  BY <1>1 DEF RecordSuccess
<1>3. SyncTypes /\ task.at \in Never..MaxSyncClock
  BY <1>1, SyncBounds DEF SyncInv, SyncTask, Never
<1>4. /\ syncState' \in [attempt : Never..MaxSyncClock, success : Never..MaxSyncClock, error : BOOLEAN]
      /\ syncState'.attempt = syncState.attempt /\ syncState'.success = task.at
  BY <1>2, <1>3 DEF SyncTypes
<1>5. CASE task.created = {}
  <2>1. syncing' = [syncing EXCEPT ![c] = Idle]
    BY <1>1, <1>5 DEF RecordSuccess
  <2> QED
    BY <1>1, <1>2, <1>3, <1>4, <2>1, SyncMoves DEF SyncTypes
<1>6. CASE task.created # {}
  <2>1. PICK next : next = [task EXCEPT !.phase = "enrich"]
    OBVIOUS
  <2>2. next \in SyncTask /\ next.phase = "enrich" /\ next.created = task.created
    BY <1>1, <2>1 DEF SyncTask, SyncPhase
  <2>3. syncing' = [syncing EXCEPT ![c] = next]
    BY <1>1, <1>3, <1>6, <2>1 DEF RecordSuccess, SyncTypes
  <2> QED
    BY <1>1, <1>2, <1>3, <1>4, <2>2, <2>3, SyncMoves DEF SyncTypes
<1> QED
  BY <1>5, <1>6

LEMMA ErrorKeeps ==
  ASSUME SyncInv, NEW c \in Caller, syncing[c] # Idle, RecordError(c)
  PROVE  SyncInv'
<1>1. PICK task \in SyncTask : task = syncing[c]
  BY DEF SyncInv, SyncTypes
<1>2. /\ task.phase = "error" /\ syncState' = [syncState EXCEPT !.error = TRUE]
      /\ syncing' = [syncing EXCEPT ![c] = Idle]
      /\ UNCHANGED <<library, metadata, runs, backfill, syncClock>>
  BY <1>1 DEF RecordError
<1>3. /\ syncState' \in [attempt : Never..MaxSyncClock, success : Never..MaxSyncClock, error : BOOLEAN]
      /\ syncState'.attempt = syncState.attempt /\ syncState'.success = syncState.success
  BY <1>2 DEF SyncInv, SyncTypes
<1> QED
  BY <1>1, <1>2, <1>3, RequestKeeps

LEMMA MetadataAnswered ==
  ASSUME SyncTypes, NEW batch,
         metadata' = Failed(batch) \/ \E present \in SUBSET batch : Answered(batch, present)
  PROVE  metadata' \in [SyncedGame -> {"absent", "failed", "stored"}]
<1>1. Failed(batch) \in [SyncedGame -> {"absent", "failed", "stored"}]
  BY DEF SyncTypes, Failed
<1>2. ASSUME NEW present \in SUBSET batch, Answered(batch, present)
      PROVE  metadata' \in [SyncedGame -> {"absent", "failed", "stored"}]
  BY <1>1, <1>2 DEF Answered
<1> QED
  BY <1>1, <1>2

LEMMA EnrichKeeps ==
  ASSUME SyncInv, NEW c \in Caller, syncing[c] # Idle, NEW batch \in Batches(syncing[c].created),
         Enrich(c, batch)
  PROVE  SyncInv'
<1>1. PICK task \in SyncTask : task = syncing[c]
  BY DEF SyncInv, SyncTypes
<1>2. task.phase = "enrich" /\ UNCHANGED <<library, syncState, runs, backfill, syncClock>>
  BY <1>1 DEF Enrich
<1>3. SyncTypes
  BY DEF SyncInv
<1>4. metadata' \in [SyncedGame -> {"absent", "failed", "stored"}]
  BY <1>3, MetadataAnswered DEF Enrich, RefreshMany
<1>5. CASE task.created = batch
  <2>1. syncing' = [syncing EXCEPT ![c] = Idle]
    BY <1>1, <1>5 DEF Enrich
  <2> QED
    BY <1>1, <1>2, <1>3, <1>4, <2>1, SyncMoves DEF SyncTypes
<1>6. CASE task.created # batch
  <2>1. PICK left : left = task.created \ batch
    OBVIOUS
  <2>2. PICK next : next = [task EXCEPT !.created = left]
    OBVIOUS
  <2>3. next \in SyncTask /\ next.phase = "enrich" /\ next.created \subseteq task.created
    BY <1>1, <1>2, <2>1, <2>2 DEF SyncTask
  <2>4. syncing' = [syncing EXCEPT ![c] = next]
    <3>1. syncing' = [syncing EXCEPT ![c].created = @ \ batch]
      BY <1>1, <1>6 DEF Enrich
    <3> QED
      BY <1>1, <1>3, <2>1, <2>2, <3>1 DEF SyncTypes, SyncTask
  <2> QED
    BY <1>1, <1>2, <1>3, <1>4, <2>3, <2>4, SyncMoves DEF SyncTypes
<1> QED
  BY <1>5, <1>6

\* A step that leaves the calls, the status and the runs alone.
LEMMA CallsKept ==
  ASSUME SyncInv, UNCHANGED <<syncing, syncState, runs>>,
         library \subseteq library', library' \subseteq SyncedGame,
         metadata' \in [SyncedGame -> {"absent", "failed", "stored"}],
         backfill' \in 0..BackfillRounds, syncClock' \in 0..MaxSyncClock, syncClock' >= syncClock
  PROVE  SyncInv'
<1>1. SyncTypes /\ StateSound
  BY DEF SyncInv
<1>2. SyncTypes'
  BY <1>1 DEF SyncTypes
<1>3. StateSound'
  <2>1. syncState.attempt \in Int /\ syncClock \in Int /\ syncClock' \in Int
    BY <1>1 DEF SyncTypes, Never
  <2> QED
    BY <1>1, <2>1 DEF StateSound
<1>4. \A d \in Caller : syncing'[d] # Idle => TaskSound(syncing[d])'
  <2> SUFFICES ASSUME NEW d \in Caller, syncing'[d] # Idle PROVE TaskSound(syncing[d])'
    OBVIOUS
  <2>1. PICK other : other = syncing[d] /\ other = syncing'[d] /\ other # Idle
    OBVIOUS
  <2>2. TaskSound(other)
    BY <2>1 DEF SyncInv
  <2>3. TaskSound(other)'
    BY <2>2 DEF TaskSound
  <2> QED
    BY <2>1, <2>3
<1>5. \A d \in Caller : Holds(d)' <=> Holds(d)
  BY DEF Holds
<1> QED
  BY <1>2, <1>3, <1>4, <1>5 DEF SyncInv

LEMMA SyncKeeps ==
  ASSUME SyncInv, [SyncNext]_syncVars
  PROVE  SyncInv'
<1>1. SyncTypes /\ StateSound
  BY DEF SyncInv
<1>2. ASSUME NEW c \in Caller, SyncStep(c) PROVE SyncInv'
  <2>1. CASE \E force \in BOOLEAN : BeginSync(c, force)
    BY <2>1, BeginSyncKeeps
  <2>2. ASSUME syncing[c] # Idle, RequestAgain(c) \/ RequestRefused(c) \/ RequestAnswered(c) \/ PersistFails(c)
        PROVE  SyncInv'
    <3>1. CASE RequestAgain(c)
      BY <2>2, <3>1, AgainKeeps
    <3>2. CASE RequestRefused(c) \/ PersistFails(c)
      <4>1. Advance(c, "error") /\ syncing[c].phase \in {"base", "expansions", "import"}
            /\ UNCHANGED <<library, metadata, syncState, runs, backfill, syncClock>>
        BY <3>2 DEF RequestRefused, PersistFails, Requesting
      <4> QED
        BY <2>2, <4>1, AdvanceKeeps
    <3>3. CASE RequestAnswered(c)
      <4>1. PICK p \in {"expansions", "import"} : Advance(c, p)
        <5>1. PICK p : p = IF syncing[c].phase = "base" THEN "expansions" ELSE "import"
          OBVIOUS
        <5>2. p \in {"expansions", "import"} /\ Advance(c, p)
          BY <3>3, <5>1 DEF RequestAnswered
        <5> QED
          BY <5>2
      <4>2. syncing[c].phase \in {"base", "expansions", "import"}
            /\ UNCHANGED <<library, metadata, syncState, runs, backfill, syncClock>>
        BY <3>3 DEF RequestAnswered, Requesting
      <4> QED
        BY <2>2, <4>1, <4>2, AdvanceKeeps
    <3> QED
      BY <2>2, <3>1, <3>2, <3>3
  <2>3. ASSUME syncing[c] # Idle, RecordSuccess(c) \/ RecordError(c) PROVE SyncInv'
    BY <2>3, SuccessKeeps, ErrorKeeps
  <2>4. ASSUME syncing[c] # Idle, \E items \in SUBSET SyncedGame : Persist(c, items) PROVE SyncInv'
    BY <2>4, PersistKeeps
  <2>5. ASSUME syncing[c] # Idle, \E batch \in Batches(syncing[c].created) : Enrich(c, batch) PROVE SyncInv'
    BY <2>5, EnrichKeeps
  <2> QED
    BY <1>2, <2>1, <2>2, <2>3, <2>4, <2>5 DEF SyncStep
<1>3. ASSUME NEW items \in SUBSET SyncedGame, ImportExport(items) PROVE SyncInv'
  BY <1>1, <1>3, CallsKept DEF ImportExport, SyncTypes
<1>4. ASSUME NEW batch, Backfill(batch) PROVE SyncInv'
  <2>1. metadata' \in [SyncedGame -> {"absent", "failed", "stored"}]
    BY <1>1, <1>4, MetadataAnswered DEF Backfill
  <2>2. backfill' \in 0..BackfillRounds /\ UNCHANGED <<library, syncing, syncState, runs, syncClock>>
    BY <1>1, <1>4, SyncBounds DEF Backfill, SyncTypes
  <2> QED
    BY <1>1, <2>1, <2>2, CallsKept DEF SyncTypes
<1>5. CASE RestartSync
  <2>1. /\ \A c \in Caller : syncing'[c] = Idle
        /\ UNCHANGED <<library, metadata, syncState, runs, syncClock>>
    BY <1>5 DEF RestartSync
  <2>2. SyncTypes'
    BY <1>1, <1>5, SyncBounds DEF RestartSync, SyncTypes
  <2>3. StateSound'
    BY <1>1, <2>1 DEF StateSound
  <2>4. \A c \in Caller : ~Holds(c)'
    BY <2>1 DEF Holds
  <2> QED
    BY <2>1, <2>2, <2>3, <2>4 DEF SyncInv
<1>6. CASE TickSync
  <2>1. syncClock' \in 0..MaxSyncClock /\ syncClock' >= syncClock
        /\ UNCHANGED <<library, metadata, syncing, syncState, runs, backfill>>
    BY <1>1, <1>6, SyncBounds DEF TickSync, SyncTypes
  <2> QED
    BY <1>1, <2>1, CallsKept DEF SyncTypes
<1>7. CASE UNCHANGED syncVars
  BY <1>1, <1>7, CallsKept DEF syncVars, SyncTypes
<1> QED
  BY <1>2, <1>3, <1>4, <1>5, <1>6, <1>7 DEF SyncNext

\* The reported success is a stored import no later than the last attempt, and a game
\* is new to one call only, however many callers overlap and wherever the process
\* dies (CollectionSync!SyncsSeparate).
THEOREM SynchronisationsSeparate == SyncSpec => []SyncsSeparate
BY InitSync, SyncKeeps, InvSyncsSeparate, PTL DEF SyncSpec

-----------------------------------------------------------------------------
(* The owned collection *)

\* What any imported item says of the entry it becomes.
Told(item) ==
  /\ item.game \in OwnedGame /\ item.coll \in CollId \cup {NoColl} /\ item.plays \in 0..1
  /\ item.coll # NoColl => CollOf[item.coll] = item.game
  /\ item.kind \in {"sync", "csv"}
  /\ item.kind = "csv" => item.own \in BOOLEAN /\ item.quantity \in Quantities

LEMMA ItemTold == \A item \in Item \cup Row : Told(item)
<1>1. ASSUME NEW item \in Item
      PROVE  Told(item)
  <2>1. PICK g \in OwnedGame : item \in [kind : {"sync"}, game : {g}, coll : CollOrNone(g), plays : 0..1]
    BY <1>1 DEF Item
  <2> QED
    BY <2>1 DEF Told, CollOrNone
<1>2. ASSUME NEW item \in Row
      PROVE  Told(item)
  <2>1. PICK g \in OwnedGame : item \in [kind : {"csv"}, game : {g}, coll : CollOrNone(g), plays : 0..1,
                                         own : BOOLEAN, quantity : Quantities]
    BY <1>2 DEF Row
  <2> QED
    BY <2>1 DEF Told, CollOrNone
<1> QED
  BY <1>1, <1>2

\* The number of copies an owned entry has.
Expected(e) == IF e.quantity > 0 THEN e.quantity ELSE 1

LEMMA ExpectedIsMax ==
  ASSUME NEW e, e.quantity \in Nat
  PROVE  Expected(e) = Max({1, e.quantity}) /\ Expected(e) \in Nat \ {0}
<1> DEFINE q == e.quantity
<1>1. {1, q} \in SUBSET (0..(q + 1)) /\ q + 1 \in Nat /\ {1, q} # {}
  OBVIOUS
<1>2. Max({1, q}) \in {1, q} /\ \A y \in {1, q} : y <= Max({1, q})
  BY <1>1, MaxIn
<1>3. PICK m : m = Max({1, q})
  OBVIOUS
<1>4. m \in {1, q} /\ 1 <= m /\ q <= m
  BY <1>2, <1>3
<1> QED
  BY <1>3, <1>4 DEF Expected

CopiesShaped(cs) == \A c \in cs : c = [entry |-> c.entry, index |-> c.index, note |-> c.note]

\* What EnsureCopies leaves: the copies that were there, and those an owned entry
\* has; asked again, it adds nothing.
LEMMA CopiesEnsured ==
  ASSUME NEW cs, NEW n, NEW e, e.quantity \in Nat, e.own \in BOOLEAN,
         CopiesShaped(cs), NEW after, after = EnsureCopies(cs, n, e)
  PROVE  /\ cs \subseteq after
         /\ CopiesShaped(after)
         /\ e.own => \A k \in 1..Expected(e) : \E c \in after : c.entry = n /\ c.index = k
         /\ EnsureCopies(after, n, e) = after
<1>1. CASE ~e.own
  BY <1>1 DEF EnsureCopies
<1>2. CASE e.own
  <2> USE DEF CopiesShaped
  <2> DEFINE Present(ds) == {c.index : c \in {d \in ds : d.entry = n}}
             New(ds) == {[entry |-> n, index |-> k, note |-> "imported"] : k \in (1..Expected(e)) \ Present(ds)}
  <2>1. \A ds : EnsureCopies(ds, n, e) = ds \cup New(ds)
    BY <1>2 DEF EnsureCopies, Expected
  <2>2. after = cs \cup New(cs)
    BY <2>1
  <2>3. \A k \in 1..Expected(e) : \E c \in after : c.entry = n /\ c.index = k
    <3> TAKE k \in 1..Expected(e)
    <3>1. CASE k \in Present(cs)
      BY <3>1, <2>2
    <3>2. CASE k \notin Present(cs)
      <4>1. [entry |-> n, index |-> k, note |-> "imported"] \in after
        BY <3>2, <2>2
      <4> QED
        BY <4>1
    <3> QED
      BY <3>1, <3>2
  <2>4. (1..Expected(e)) \ Present(after) = {}
    BY <2>3
  <2>5. New(after) = {}
    BY <2>4
  <2>6. EnsureCopies(after, n, e) = after
    BY <2>1, <2>5
  <2>7. \A c \in New(cs) : c = [entry |-> c.entry, index |-> c.index, note |-> c.note]
    OBVIOUS
  <2> QED
    BY <2>2, <2>3, <2>6, <2>7
<1> QED
  BY <1>1, <1>2

\* The least of a set of positions, or the next one, is found again once its entry
\* is one of the set's.
LEMMA FirstAgain ==
  ASSUME NEW L \in Nat, NEW S \in SUBSET (1..L), NEW n, n = First(S, L + 1)
  PROVE  /\ n \in 1..(L + 1) /\ (S # {} => n \in S)
         /\ \A other : First(S \cup {n}, other) = n
<1>1. CASE S = {}
  <2>1. n = L + 1
    BY <1>1 DEF First
  <2>2. {n} \in SUBSET Nat /\ {n} # {}
    BY <2>1
  <2>3. Min({n}) \in {n}
    BY <2>2, MinIn
  <2> QED
    BY <1>1, <2>1, <2>3 DEF First
<1>2. CASE S # {}
  <2>1. n = Min(S)
    BY <1>2 DEF First
  <2>2. S \in SUBSET Nat
    OBVIOUS
  <2>3. n \in S
    BY <1>2, <2>1, <2>2, MinIn
  <2>4. S \cup {n} = S
    BY <2>3
  <2> QED
    BY <1>2, <2>1, <2>3, <2>4 DEF First
<1> QED
  BY <1>1, <1>2

CollectionSound(es, cs) ==
  /\ es \in Seq(Entry)
  /\ CopiesShaped(cs)
  /\ \A n \in DOMAIN es :
       /\ es[n].own => \A k \in 1..Expected(es[n]) : \E c \in cs : c.entry = n /\ c.index = k
       /\ es[n].coll # NoColl => CollOf[es[n].coll] = es[n].game
  /\ \A m, n \in DOMAIN es : es[m].coll = es[n].coll /\ m # n => es[m].coll = NoColl

Place(es, item) == IF item.kind = "sync" THEN SyncedEntry(es, item) ELSE ExportedEntry(es, item)
Made(es, n, item) == IF item.kind = "sync" THEN MergedEntry(es, n, item) ELSE RowEntry(item)

\* The entries once entry n is e.
With(es, n, e) == [k \in 1..(IF n > Len(es) THEN n ELSE Len(es)) |-> IF k = n THEN e ELSE es[k]]

\* The place of an item is that of its identifier, and is found again once its
\* entry is there.
LEMMA PlaceAgain ==
  ASSUME NEW es, es \in Seq(Entry), NEW item, Told(item), NEW n, n = Place(es, item),
         \A i, k \in DOMAIN es : es[i].coll = es[k].coll /\ i # k => es[i].coll = NoColl,
         NEW e, e.coll = item.coll, e.game = item.game
  PROVE  /\ n \in 1..(Len(es) + 1)
         /\ item.coll # NoColl => \A k \in DOMAIN es : k # n => es[k].coll # item.coll
         /\ Place(With(es, n, e), item) = n
<1> DEFINE next == With(es, n, e)
           ByColl(s) == {k \in DOMAIN s : item.coll # NoColl /\ s[k].coll = item.coll}
           ByGame(s) == {k \in DOMAIN s : s[k].game = item.game}
           Bare(s) == {k \in DOMAIN s : s[k].game = item.game /\ s[k].coll = NoColl}
<1>1. Len(es) \in Nat /\ DOMAIN es = 1..Len(es)
  OBVIOUS
<1>2. /\ ByColl(es) \in SUBSET (1..Len(es)) /\ ByGame(es) \in SUBSET (1..Len(es))
      /\ Bare(es) \in SUBSET (1..Len(es))
  BY <1>1
<1>3. ASSUME n \in 1..(Len(es) + 1)
      PROVE  /\ DOMAIN next = DOMAIN es \cup {n} /\ next[n] = e
             /\ \A k \in DOMAIN es : k # n => next[k] = es[k]
  BY <1>1, <1>3 DEF With
<1>4. \A s : SyncedEntry(s, item) = First(ByColl(s), First(ByGame(s), Len(s) + 1))
  BY DEF SyncedEntry
<1>5. ASSUME item.coll # NoColl
      PROVE  \A s : ExportedEntry(s, item) = First(ByColl(s), Len(s) + 1)
  <2> TAKE s
  <2>1. {k \in DOMAIN s : IF item.coll # NoColl THEN s[k].coll = item.coll
                          ELSE s[k].game = item.game /\ s[k].coll = NoColl} = ByColl(s)
    BY <1>5
  <2> QED
    BY <2>1 DEF ExportedEntry
<1>6. ASSUME item.coll = NoColl
      PROVE  \A s : ExportedEntry(s, item) = First(Bare(s), Len(s) + 1)
  <2> TAKE s
  <2>1. {k \in DOMAIN s : IF item.coll # NoColl THEN s[k].coll = item.coll
                          ELSE s[k].game = item.game /\ s[k].coll = NoColl} = Bare(s)
    BY <1>6
  <2> QED
    BY <2>1 DEF ExportedEntry
<1>7. ASSUME item.coll # NoColl
       PROVE  \A s : \E a : Place(s, item) = First(ByColl(s), a)
  <2> HIDE DEF ByColl, ByGame
  <2> QED
    BY <1>4, <1>5, <1>7 DEF Place
<1>8. CASE item.coll # NoColl /\ ByColl(es) # {}
  <2>1. n = First(ByColl(es), Len(es) + 1)
    <3>1. \A a, b : First(ByColl(es), a) = First(ByColl(es), b)
      BY <1>8 DEF First
    <3> QED
      BY <3>1, <1>4, <1>5, <1>8 DEF Place
  <2>2. n \in 1..(Len(es) + 1) /\ n \in ByColl(es) /\ \A o : First(ByColl(es) \cup {n}, o) = n
    <3> HIDE DEF ByColl
    <3> QED
      BY <1>1, <1>2, <1>8, <2>1, FirstAgain
  <2>3. \A k \in DOMAIN es : k # n => es[k].coll # item.coll
    BY <1>8, <2>2
  <2>4. ByColl(next) = ByColl(es) \cup {n}
    BY <1>3, <1>8, <2>2
  <2>5. Place(next, item) = n
    <3> HIDE DEF ByColl, next
    <3> QED
      BY <1>7, <1>8, <2>2, <2>4
  <2> QED
    BY <2>2, <2>3, <2>5
<1>9. CASE item.coll # NoColl /\ ByColl(es) = {}
  <2>1. n \in 1..(Len(es) + 1)
    <3>1. \A a : First(ByColl(es), a) = a
      BY <1>9 DEF First
    <3>2. First(ByGame(es), Len(es) + 1) \in 1..(Len(es) + 1)
      <4>1. PICK L \in Nat : L = Len(es)
        BY <1>1
      <4>2. PICK S : S = ByGame(es) /\ S \in SUBSET (1..L)
        BY <1>2, <4>1
      <4>3. PICK g : g = First(S, L + 1)
        OBVIOUS
      <4> HIDE DEF ByGame
      <4>4. g \in 1..(L + 1)
        BY <4>2, <4>3, FirstAgain
      <4> QED
        BY <4>1, <4>2, <4>3, <4>4
    <3>3. n = First(ByGame(es), Len(es) + 1) \/ n = Len(es) + 1
      BY <3>1, <1>4, <1>5, <1>9 DEF Place
    <3> QED
      BY <3>2, <3>3, <1>1
  <2>2. \A k \in DOMAIN es : es[k].coll # item.coll
    BY <1>9
  <2>3. ByColl(next) = {n}
    BY <1>3, <1>9, <2>1, <2>2
  <2>4. \A a : First({n}, a) = n
    <3>1. {n} \in SUBSET Nat /\ {n} # {}
      BY <1>1, <2>1
    <3>2. Min({n}) \in {n}
      BY <3>1, MinIn
    <3> QED
      BY <3>2 DEF First
  <2>5. Place(next, item) = n
    <3> HIDE DEF ByColl, next
    <3> QED
      BY <1>7, <1>9, <2>3, <2>4
  <2> QED
    BY <2>1, <2>2, <2>5
<1>10. CASE item.coll = NoColl /\ item.kind = "sync"
  <2>1. \A s : SyncedEntry(s, item) = First(ByGame(s), Len(s) + 1)
    <3>1. \A s : ByColl(s) = {}
      BY <1>10
    <3>2. \A a : First({}, a) = a
      BY DEF First
    <3> HIDE DEF ByColl, ByGame
    <3> QED
      BY <3>1, <3>2, <1>4
  <2>2. n = First(ByGame(es), Len(es) + 1)
    BY <2>1, <1>10 DEF Place
  <2>3. n \in 1..(Len(es) + 1) /\ \A o : First(ByGame(es) \cup {n}, o) = n
    <3> HIDE DEF ByGame
    <3> QED
      BY <1>1, <1>2, <2>2, FirstAgain
  <2>4. ByGame(es) # {} => n \in ByGame(es)
    <3> HIDE DEF ByGame
    <3> QED
      BY <1>1, <1>2, <2>2, FirstAgain
  <2>5. ByGame(next) = ByGame(es) \cup {n}
    BY <1>3, <2>3
  <2>6. Place(next, item) = n
    BY <1>10, <2>1, <2>3, <2>5 DEF Place
  <2> QED
    BY <1>10, <2>3, <2>6
<1>11. CASE item.coll = NoColl /\ item.kind # "sync"
  <2>1. n = First(Bare(es), Len(es) + 1)
    BY <1>6, <1>11 DEF Place
  <2>2. n \in 1..(Len(es) + 1) /\ \A o : First(Bare(es) \cup {n}, o) = n
    <3> HIDE DEF Bare
    <3> QED
      BY <1>1, <1>2, <2>1, FirstAgain
  <2>3. Bare(next) = Bare(es) \cup {n}
    BY <1>3, <1>11, <2>2
  <2>4. Place(next, item) = n
    BY <1>6, <1>11, <2>2, <2>3 DEF Place
  <2> QED
    BY <1>11, <2>2, <2>4
<1> QED
  BY <1>8, <1>9, <1>10, <1>11

\* Importing an item leaves entries and copies that fit, and importing it again
\* changes nothing.
LEMMA ImportKeeps ==
  ASSUME NEW es, NEW cs, CollectionSound(es, cs), NEW item, Told(item),
         NEW once, once = ImportOne([entries |-> es, copies |-> cs], item)
  PROVE  /\ CollectionSound(once.entries, once.copies)
         /\ ImportOne(once, item) = once
<1>1. PICK n : n = Place(es, item)
  OBVIOUS
<1>2. PICK e : e = Made(es, n, item)
  OBVIOUS
<1>3. PICK next : next = With(es, n, e)
  OBVIOUS
<1>4. PICK after : after = EnsureCopies(cs, n, e)
  OBVIOUS
<1>5. \A s, ds : ImportOne([entries |-> s, copies |-> ds], item) =
        [entries |-> With(s, Place(s, item), Made(s, Place(s, item), item)),
         copies |-> EnsureCopies(ds, Place(s, item), Made(s, Place(s, item), item))]
  BY DEF ImportOne, Place, Made, With
<1>6. once = [entries |-> next, copies |-> after]
  BY <1>1, <1>2, <1>3, <1>4, <1>5
<1>7. /\ es \in Seq(Entry) /\ Len(es) \in Nat /\ DOMAIN es = 1..Len(es)
      /\ \A k \in DOMAIN es : es[k] \in Entry
  BY DEF CollectionSound
<1>8. e.coll = item.coll /\ e.game = item.game
  BY <1>2 DEF Made, MergedEntry, RowEntry
<1>9. e \in Entry /\ (item.kind = "sync" => e.own)
  <2>1. CASE item.kind = "sync"
    <3>1. n \in DOMAIN es => es[n].plays \in 0..1 /\ es[n].quantity \in Quantities
      BY <1>7 DEF Entry
    <3>2. e = MergedEntry(es, n, item)
      BY <1>2, <2>1 DEF Made
    <3> QED
      BY <3>1, <3>2, CollectionConstants DEF MergedEntry, Told, Entry
  <2>2. CASE item.kind # "sync"
    <3>1. e = RowEntry(item)
      BY <1>2, <2>2 DEF Made
    <3> QED
      BY <2>2, <3>1 DEF RowEntry, Told, Entry
  <2> QED
    BY <2>1, <2>2
<1>10. /\ n \in 1..(Len(es) + 1)
       /\ item.coll # NoColl => \A k \in DOMAIN es : k # n => es[k].coll # item.coll
       /\ Place(next, item) = n
  <2>1. \A i, k \in DOMAIN es : es[i].coll = es[k].coll /\ i # k => es[i].coll = NoColl
    BY DEF CollectionSound
  <2> QED
    BY <1>1, <1>3, <1>7, <1>8, <2>1, PlaceAgain
<1>11. PICK len \in Nat : /\ len = IF n > Len(es) THEN n ELSE Len(es)
                          /\ 1..len = DOMAIN es \cup {n}
  <2>1. PICK L \in Nat : L = Len(es) /\ DOMAIN es = 1..L /\ n \in 1..(L + 1)
    BY <1>7, <1>10
  <2>2. PICK len : len = IF n > L THEN n ELSE L
    OBVIOUS
  <2>3. len \in Nat /\ 1..len = 1..L \cup {n}
    BY <2>1, <2>2
  <2> QED
    BY <2>1, <2>2, <2>3
<1>12. next = [k \in 1..len |-> IF k = n THEN e ELSE es[k]]
  BY <1>3, <1>11 DEF With
<1>13. /\ DOMAIN next = 1..len /\ 1..len = DOMAIN es \cup {n} /\ next[n] = e
       /\ \A k \in DOMAIN es : k # n => next[k] = es[k]
  BY <1>7, <1>10, <1>11, <1>12
<1>14. next \in Seq(Entry) /\ Len(next) = len
  <2>1. \A k \in 1..len : next[k] \in Entry
    BY <1>7, <1>9, <1>13
  <2>2. next \in [1..len -> Entry]
    BY <1>12, <2>1
  <2> QED
    BY <1>11, <2>2
<1>15. e.quantity \in Nat /\ e.own \in BOOLEAN
  BY <1>9, CollectionConstants DEF Entry
<1>16. /\ cs \subseteq after
       /\ CopiesShaped(after)
       /\ e.own => \A k \in 1..Expected(e) : \E c \in after : c.entry = n /\ c.index = k
       /\ EnsureCopies(after, n, e) = after
  <2>1. CopiesShaped(cs)
    BY DEF CollectionSound
  <2> QED
    BY <1>4, <1>15, <2>1, CopiesEnsured
<1>17. CollectionSound(next, after)
  <2>1. ASSUME NEW k \in DOMAIN next
        PROVE  /\ next[k].own => \A i \in 1..Expected(next[k]) : \E c \in after : c.entry = k /\ c.index = i
               /\ next[k].coll # NoColl => CollOf[next[k].coll] = next[k].game
    <3>1. CASE k = n
      BY <1>8, <1>13, <1>16, <3>1 DEF Told
    <3>2. CASE k # n
      <4>1. k \in DOMAIN es /\ next[k] = es[k]
        BY <1>13, <2>1, <3>2
      <4> QED
        BY <1>16, <4>1 DEF CollectionSound
    <3> QED
      BY <3>1, <3>2
  <2>2. ASSUME NEW i \in DOMAIN next, NEW k \in DOMAIN next, next[i].coll = next[k].coll, i # k
        PROVE  next[i].coll = NoColl
    <3>1. CASE i = n
      <4>1. k \in DOMAIN es /\ next[k] = es[k] /\ next[i].coll = item.coll
        BY <1>8, <1>13, <2>2, <3>1
      <4> QED
        BY <1>10, <2>2, <3>1, <4>1
    <3>2. CASE k = n
      <4>1. i \in DOMAIN es /\ next[i] = es[i] /\ next[k].coll = item.coll
        BY <1>8, <1>13, <2>2, <3>2
      <4> QED
        BY <1>10, <2>2, <3>2, <4>1
    <3>3. CASE i # n /\ k # n
      <4>1. i \in DOMAIN es /\ k \in DOMAIN es /\ next[i] = es[i] /\ next[k] = es[k]
        BY <1>13, <2>2, <3>3
      <4> QED
        BY <2>2, <4>1 DEF CollectionSound
    <3> QED
      BY <3>1, <3>2, <3>3
  <2> QED
    BY <1>14, <1>16, <2>1, <2>2 DEF CollectionSound
<1>18. Made(next, n, item) = e
  <2>1. CASE item.kind = "sync"
    <3>1. n \in DOMAIN next /\ next[n] = e
      BY <1>13
    <3>2. e = MergedEntry(es, n, item)
      BY <1>2, <2>1 DEF Made
    <3>3. MergedEntry(next, n, item) =
            [coll |-> item.coll, game |-> item.game, own |-> TRUE,
             plays |-> IF item.plays = 0 THEN e.plays ELSE item.plays, quantity |-> e.quantity]
      BY <3>1 DEF MergedEntry
    <3>4. e = [coll |-> item.coll, game |-> item.game, own |-> TRUE, plays |-> e.plays, quantity |-> e.quantity]
      BY <3>2 DEF MergedEntry
    <3>5. item.plays # 0 => e.plays = item.plays
      BY <3>2 DEF MergedEntry
    <3>6. MergedEntry(next, n, item) = e
      BY <3>3, <3>4, <3>5
    <3> QED
      BY <2>1, <3>6 DEF Made
  <2>2. CASE item.kind # "sync"
    BY <1>2, <2>2 DEF Made
  <2> QED
    BY <2>1, <2>2
<1>19. With(next, n, e) = next
  <2>1. n \in 1..len
    BY <1>13
  <2>2. With(next, n, e) = [k \in 1..len |-> IF k = n THEN e ELSE next[k]]
    BY <1>11, <1>14, <2>1 DEF With
  <2>3. \A k \in 1..len : (IF k = n THEN e ELSE next[k]) = next[k]
    BY <1>13
  <2>4. next = [k \in 1..len |-> next[k]]
    BY <1>12
  <2> QED
    BY <2>2, <2>3, <2>4
<1>20. ImportOne(once, item) = once
  BY <1>5, <1>6, <1>10, <1>16, <1>18, <1>19
<1> QED
  BY <1>6, <1>17, <1>20

\* The inductive invariant: what the catalog holds at any moment is sound.
CollectionIInv == CollectionSound(entries, copies)

LEMMA InvCollection == CollectionIInv => CollectionInv
<1> SUFFICES ASSUME CollectionIInv
             PROVE  CollectionInv
  OBVIOUS
<1>1. CollectionConsistent
  <2>1. \A n \in DOMAIN entries : entries[n].quantity \in Nat
    <3>1. \A n \in DOMAIN entries : entries[n] \in Entry
      BY DEF CollectionIInv, CollectionSound
    <3> QED
      BY <3>1, CollectionConstants DEF Entry
  <2>2. \A n \in DOMAIN entries : Max({1, entries[n].quantity}) = Expected(entries[n])
    BY <2>1, ExpectedIsMax
  <2> QED
    BY <2>2 DEF CollectionIInv, CollectionSound, CollectionConsistent
<1>2. ASSUME NEW item \in Item \cup Row
      PROVE  ImportOne(ImportOne(Library, item), item) = ImportOne(Library, item)
  <2>1. Told(item)
    BY ItemTold
  <2> QED
    BY <2>1, ImportKeeps DEF CollectionIInv, Library
<1> QED
  BY <1>1, <1>2 DEF CollectionInv, ImportsIdempotent

LEMMA InitCollection == CollectionInit => CollectionIInv
<1> SUFFICES ASSUME CollectionInit
             PROVE  CollectionIInv
  OBVIOUS
<1>1. CASE entries = <<>>
  BY <1>1 DEF CollectionInit, CollectionIInv, CollectionSound, CopiesShaped
<1>2. CASE entries # <<>>
  <2>1. PICK r \in Row : entries = <<RowEntry(r)>>
    BY <1>2 DEF CollectionInit
  <2>2. PICK e : e = RowEntry(r)
    OBVIOUS
  <2>3. r.kind = "csv"
    <3>1. PICK g \in OwnedGame : r \in [kind : {"csv"}, game : {g}, coll : CollOrNone(g), plays : 0..1,
                                        own : BOOLEAN, quantity : Quantities]
      BY DEF Row
    <3> QED
      BY <3>1
  <2>4. Told(r)
    BY ItemTold
  <2>5. /\ e \in Entry /\ e.quantity \in Nat /\ e.own \in BOOLEAN
        /\ e.coll # NoColl => CollOf[e.coll] = e.game
    BY <2>2, <2>3, <2>4, CollectionConstants DEF Told, RowEntry, Entry
  <2>6. entries = <<e>> /\ DOMAIN entries = {1} /\ entries[1] = e /\ entries \in Seq(Entry)
    BY <2>1, <2>2, <2>5
  <2>7. copies = EnsureCopies({}, 1, e)
    BY <1>2, <2>6 DEF CollectionInit
  <2>8. CopiesShaped({})
    BY DEF CopiesShaped
  <2>9. /\ CopiesShaped(copies)
        /\ e.own => \A k \in 1..Expected(e) : \E c \in copies : c.entry = 1 /\ c.index = k
    BY <2>5, <2>7, <2>8, CopiesEnsured
  <2> QED
    BY <2>5, <2>6, <2>9 DEF CollectionIInv, CollectionSound
<1> QED
  BY <1>1, <1>2

LEMMA ImportItemKeeps ==
  ASSUME CollectionIInv, NEW item \in Item \cup Row, ImportItem(item)
  PROVE  CollectionIInv'
<1>1. PICK once : once = ImportOne([entries |-> entries, copies |-> copies], item)
  OBVIOUS
<1>2. Told(item)
  BY ItemTold
<1>3. CollectionSound(once.entries, once.copies)
  BY <1>1, <1>2, ImportKeeps DEF CollectionIInv
<1>4. entries' = once.entries /\ copies' = once.copies
  BY <1>1 DEF ImportItem, Library
<1> QED
  BY <1>3, <1>4 DEF CollectionIInv

\* A removal takes the game's ownership and nothing else.
LEMMA RemoveFromLibraryKeeps ==
  ASSUME CollectionIInv, NEW g \in OwnedGame, RemoveFromLibrary(g)
  PROVE  CollectionIInv'
<1>1. /\ entries \in Seq(Entry) /\ Len(entries) \in Nat /\ DOMAIN entries = 1..Len(entries)
      /\ \A n \in DOMAIN entries : entries[n] \in Entry
  BY DEF CollectionIInv, CollectionSound
<1>2. /\ DOMAIN entries' = DOMAIN entries /\ copies' = copies
      /\ \A n \in DOMAIN entries :
           entries'[n] = IF entries[n].game = g THEN [entries[n] EXCEPT !.own = FALSE] ELSE entries[n]
  BY DEF RemoveFromLibrary
<1>3. ASSUME NEW n \in DOMAIN entries
      PROVE  /\ entries'[n] \in Entry /\ entries'[n].coll = entries[n].coll
             /\ entries'[n].game = entries[n].game
             /\ entries'[n].own => entries'[n] = entries[n]
  <2>1. entries[n] \in Entry
    BY <1>1
  <2>2. CASE entries[n].game = g
    BY <1>2, <2>1, <2>2 DEF Entry
  <2>3. CASE entries[n].game # g
    BY <1>2, <2>1, <2>3
  <2> QED
    BY <2>2, <2>3
<1>4. entries' \in Seq(Entry)
  <2>1. entries' \in [1..Len(entries) -> Entry]
    BY <1>1, <1>2, <1>3 DEF RemoveFromLibrary
  <2> QED
    BY <1>1, <2>1
<1> QED
  BY <1>2, <1>3, <1>4 DEF CollectionIInv, CollectionSound

LEMMA CreateCopyKeeps ==
  ASSUME CollectionIInv, CreateCopy
  PROVE  CollectionIInv'
<1>1. PICK i : copies' = copies \cup {[entry |-> 0, index |-> i, note |-> "edited"]}
  BY DEF CreateCopy
<1>2. entries' = entries /\ copies \subseteq copies'
  BY <1>1 DEF CreateCopy
<1>3. CopiesShaped(copies)'
  BY <1>1 DEF CollectionIInv, CollectionSound, CopiesShaped
<1> QED
  BY <1>2, <1>3 DEF CollectionIInv, CollectionSound

\* An edited copy stays that copy of its entry.
LEMMA UpdateCopyKeeps ==
  ASSUME CollectionIInv, NEW c \in copies, UpdateCopy(c)
  PROVE  CollectionIInv'
<1>1. c = [entry |-> c.entry, index |-> c.index, note |-> c.note]
  BY DEF CollectionIInv, CollectionSound, CopiesShaped
<1>2. PICK d : d = [entry |-> c.entry, index |-> c.index, note |-> "edited"]
  OBVIOUS
<1>3. [c EXCEPT !.note = "edited"] = d
  BY <1>1, <1>2
<1>4. entries' = entries /\ copies' = (copies \ {c}) \cup {d}
  BY <1>3 DEF UpdateCopy
<1>5. CopiesShaped(copies)'
  BY <1>2, <1>4 DEF CollectionIInv, CollectionSound, CopiesShaped
<1>6. \A n, k : (\E x \in copies : x.entry = n /\ x.index = k) => \E x \in copies' : x.entry = n /\ x.index = k
  <2> TAKE n, k
  <2> HAVE \E x \in copies : x.entry = n /\ x.index = k
  <2>1. PICK x \in copies : x.entry = n /\ x.index = k
    OBVIOUS
  <2>2. CASE x = c
    BY <1>2, <1>4, <2>1, <2>2
  <2>3. CASE x # c
    BY <1>4, <2>1, <2>3
  <2> QED
    BY <2>2, <2>3
<1> QED
  BY <1>4, <1>5, <1>6 DEF CollectionIInv, CollectionSound

LEMMA CollectionKeeps == CollectionIInv /\ [CollectionNext]_collectionVars => CollectionIInv'
<1> SUFFICES ASSUME CollectionIInv, [CollectionNext]_collectionVars
             PROVE  CollectionIInv'
  OBVIOUS
<1>1. CASE UNCHANGED collectionVars
  BY <1>1 DEF collectionVars, CollectionIInv
<1>2. CASE CollectionNext
  BY <1>2, ImportItemKeeps, RemoveFromLibraryKeeps, CreateCopyKeeps, UpdateCopyKeeps DEF CollectionNext
<1> QED
  BY <1>1, <1>2

\* Whatever imports, removals and edits came before, an owned entry has the copies
\* its quantity states, an identifier names one entry and never another game's, and
\* importing an item twice in a row is importing it once
\* (LibraryCollection!CollectionInv).
THEOREM CollectionStaysSound == CollectionSpec => []CollectionInv
BY InitCollection, CollectionKeeps, InvCollection, PTL DEF CollectionSpec

-----------------------------------------------------------------------------
(* Campaigns *)

FeedScanning ==
  {Waiting}
    \cup [pc : {"active"}, token : BOOLEAN, items : SUBSET Campaign]
    \cup [pc : {"given"}, items : SUBSET Campaign]
    \cup [pc : {"scanning", "notifying"}, todo : SUBSET Campaign, any : BOOLEAN, wished : SUBSET Campaign,
          known : SUBSET Campaign, news : Campaign \cup {NoNews}, baseline : BOOLEAN, recorded : BOOLEAN]

\* What a scan has read still holds: it was given campaigns that were listed, the
\* rows it knows exist, and it is past the baseline only after the baseline.
ScanFits(scan) ==
  /\ scan \in FeedScanning
  /\ scan.pc = "given" => scan.items \subseteq listed
  /\ scan.pc \in {"scanning", "notifying"} =>
       /\ scan.any => listed # {}
       /\ scan.known \subseteq watch
       /\ scan.recorded => ~scan.baseline
       /\ ~scan.baseline => initialised
  /\ scan.pc = "notifying" => scan.news \in watch /\ ~scan.baseline

FeedIInv ==
  /\ FeedTypeOK
  /\ feedFaults \in Nat /\ watch \subseteq Campaign
  /\ feedScan \in [FeedScanner -> FeedScanning]
  /\ \A s \in FeedScanner : ScanFits(feedScan[s])
  /\ CampaignsAnnounced

LEMMA InitFeed == FeedInit => FeedIInv
<1> SUFFICES ASSUME FeedInit
             PROVE  FeedIInv
  OBVIOUS
<1>1. Waiting \in FeedScanning /\ ScanFits(Waiting)
  BY DEF Waiting, FeedScanning, ScanFits
<1>2. watch \subseteq Campaign /\ initialised \in BOOLEAN /\ (initialised => listed # {})
  BY FeedAssumption DEF FeedInit
<1>3. FeedTypeOK
  BY <1>2 DEF FeedInit, FeedTypeOK
<1>4. feedScan \in [FeedScanner -> FeedScanning] /\ \A s \in FeedScanner : ScanFits(feedScan[s])
  BY <1>1 DEF FeedInit
<1>5. CampaignsAnnounced
  BY <1>2 DEF FeedInit, CampaignsAnnounced
<1> QED
  BY <1>2, <1>3, <1>4, <1>5 DEF FeedInit, FeedIInv

\* A step of one scan while rows, listed campaigns and the baseline only come.
LEMMA FeedScanMoves ==
  ASSUME FeedIInv, NEW s \in FeedScanner, NEW next, ScanFits(next)',
         feedScan' = [feedScan EXCEPT ![s] = next],
         listed \subseteq listed', watch \subseteq watch', initialised => initialised'
  PROVE  /\ feedScan' \in [FeedScanner -> FeedScanning]
         /\ \A t \in FeedScanner : ScanFits(feedScan[t])'
<1>1. next \in FeedScanning
  BY DEF ScanFits
<1>2. feedScan \in [FeedScanner -> FeedScanning]
  BY DEF FeedIInv
<1>3. ASSUME NEW t \in FeedScanner
      PROVE  ScanFits(feedScan[t])'
  <2>1. CASE t = s
    <3>1. feedScan'[t] = next
      BY <1>2, <2>1
    <3> QED
      BY <3>1 DEF ScanFits
  <2>2. CASE t # s
    <3>1. feedScan'[t] = feedScan[t]
      BY <1>2, <2>2
    <3>2. ScanFits(feedScan[t])
      BY DEF FeedIInv
    <3> QED
      BY <3>1, <3>2 DEF ScanFits
  <2> QED
    BY <2>1, <2>2
<1> QED
  BY <1>1, <1>2, <1>3

\* A step of a scan that is not about to notify, and that writes no row, announces
\* nothing and takes no announcement away.
LEMMA FeedKept ==
  ASSUME FeedIInv, NEW s \in FeedScanner, NEW next, ScanFits(next)',
         feedScan' = [feedScan EXCEPT ![s] = next], feedScan[s].pc # "notifying",
         listed \subseteq listed', UNCHANGED <<configured, target, watch, notice, origin, feedFaults>>,
         initialised => initialised', initialised' => listed' # {},
         held' \subseteq Campaign, {cached', kickstarted', initialised'} \subseteq BOOLEAN
  PROVE  FeedIInv'
<1>1. /\ feedScan' \in [FeedScanner -> FeedScanning]
      /\ \A t \in FeedScanner : ScanFits(feedScan[t])'
  BY FeedScanMoves
<1>2. FeedTypeOK'
  BY DEF FeedIInv, FeedTypeOK
<1>3. \A c \in Campaign : notice'[c] # "none" => initialised' /\ c \in watch'
  BY DEF FeedIInv, CampaignsAnnounced
<1>4. ASSUME feedFaults' = 0, NEW c \in Campaign, origin'[c] = "news", notice'[c] = "none"
      PROVE  \E t \in FeedScanner : feedScan'[t].pc = "notifying" /\ feedScan'[t].news = c
  <2>1. PICK t \in FeedScanner : feedScan[t].pc = "notifying" /\ feedScan[t].news = c
    BY <1>4 DEF FeedIInv, CampaignsAnnounced
  <2>2. feedScan'[t] = feedScan[t]
    BY <2>1 DEF FeedIInv
  <2> QED
    BY <2>1, <2>2
<1>5. CampaignsAnnounced'
  BY <1>3, <1>4 DEF CampaignsAnnounced
<1> QED
  BY <1>1, <1>2, <1>5 DEF FeedIInv

LEMMA CacheKept ==
  ASSUME FeedIInv, NEW token \in BOOLEAN, Refreshed(token)
  PROVE  /\ held' \subseteq Campaign /\ {cached', kickstarted'} \subseteq BOOLEAN
         /\ Visible(held', token) \subseteq Campaign
<1>1. Gamefound \subseteq Campaign /\ Kickstarter \subseteq Campaign
  BY FeedAssumption DEF Kickstarter
<1>2. held \subseteq Campaign /\ cached \in BOOLEAN /\ kickstarted \in BOOLEAN
  BY DEF FeedIInv, FeedTypeOK
<1>3. ASSUME NEW gamefound \in SUBSET Campaign, NEW kickstarter \in SUBSET Campaign, NEW asked \in BOOLEAN,
             Refresh(gamefound, kickstarter, asked)
      PROVE  held' \subseteq Campaign /\ {cached', kickstarted'} \subseteq BOOLEAN
  BY <1>3, <1>2 DEF Refresh
<1>4. held' \subseteq Campaign /\ {cached', kickstarted'} \subseteq BOOLEAN
  <2>1. CASE UNCHANGED <<held, cached, kickstarted>>
    BY <1>2, <2>1
  <2>2. CASE \E gamefound \in Answers(Gamefound) \cup {held \cap Gamefound} :
               \/ Refresh(gamefound, held \ Gamefound, FALSE)
               \/ token /\ \E kickstarter \in Answers(Kickstarter) : Refresh(gamefound, kickstarter, TRUE)
    <3>1. PICK gamefound \in Answers(Gamefound) \cup {held \cap Gamefound} :
               \/ Refresh(gamefound, held \ Gamefound, FALSE)
               \/ \E kickstarter \in Answers(Kickstarter) : Refresh(gamefound, kickstarter, TRUE)
      BY <2>2
    <3>2. gamefound \in SUBSET Campaign
      BY <1>1, <1>2 DEF Answers
    <3>3. CASE Refresh(gamefound, held \ Gamefound, FALSE)
      <4>1. held \ Gamefound \in SUBSET Campaign
        BY <1>2
      <4> QED
        BY <1>3, <3>2, <3>3, <4>1
    <3>4. CASE \E kickstarter \in Answers(Kickstarter) : Refresh(gamefound, kickstarter, TRUE)
      <4>1. PICK kickstarter \in Answers(Kickstarter) : Refresh(gamefound, kickstarter, TRUE)
        BY <3>4
      <4>2. kickstarter \in SUBSET Campaign
        BY <1>1 DEF Answers
      <4> QED
        BY <1>3, <3>2, <4>1, <4>2
    <3> QED
      BY <3>1, <3>3, <3>4
  <2> QED
    BY <2>1, <2>2 DEF Refreshed
<1> QED
  BY <1>1, <1>4 DEF Visible

LEMMA FeedFacts ==
  ASSUME FeedIInv
  PROVE  /\ feedScan \in [FeedScanner -> FeedScanning] /\ \A s \in FeedScanner : ScanFits(feedScan[s])
         /\ held \subseteq Campaign /\ watch \subseteq Campaign
         /\ cached \in BOOLEAN /\ kickstarted \in BOOLEAN /\ configured \in BOOLEAN /\ initialised \in BOOLEAN
         /\ initialised => listed # {}
         /\ ScanFits(Waiting)
BY DEF FeedIInv, FeedTypeOK, CampaignsAnnounced, ScanFits, FeedScanning, Waiting

LEMMA ListPageKeeps ==
  ASSUME FeedIInv, NEW s \in FeedScanner, NEW filter, NEW limit, ListPage(s, filter, limit)
  PROVE  FeedIInv'
<1>1. feedScan[s] = Waiting /\ Refreshed(configured)
  BY DEF ListPage
<1>2. PICK page \in Pages(Visible(held', configured) \cap filter, limit) : Hand(s, page)
  BY DEF ListPage
<1>3. held' \subseteq Campaign /\ {cached', kickstarted'} \subseteq BOOLEAN /\ page \subseteq Campaign
  BY <1>1, <1>2, FeedFacts, CacheKept DEF Pages
<1>4. PICK next : next = [pc |-> "given", items |-> page]
  OBVIOUS
<1>5. feedScan' = [feedScan EXCEPT ![s] = next] /\ listed' = listed \cup page
  BY <1>2, <1>4 DEF Hand
<1>6. ScanFits(next)'
  BY <1>3, <1>4, <1>5 DEF ScanFits, FeedScanning
<1>7. feedScan[s].pc # "notifying"
  BY <1>1 DEF Waiting
<1> QED
  BY <1>3, <1>5, <1>6, <1>7, FeedFacts, FeedKept DEF ListPage

LEMMA ListActiveKeeps ==
  ASSUME FeedIInv, NEW s \in FeedScanner, ListActive(s)
  PROVE  FeedIInv'
<1>1. feedScan[s] = Waiting /\ Refreshed(configured)
  BY DEF ListActive
<1>2. /\ held' \subseteq Campaign /\ {cached', kickstarted'} \subseteq BOOLEAN
      /\ Visible(held', configured) \subseteq Campaign
  BY <1>1, FeedFacts, CacheKept
<1>3. PICK next : next = [pc |-> "active", token |-> configured,
                          items |-> Visible(held', configured) \cap InStatus("active")]
  OBVIOUS
<1>4. feedScan' = [feedScan EXCEPT ![s] = next]
  BY <1>3 DEF ListActive
<1>5. ScanFits(next)'
  BY <1>2, <1>3, FeedFacts DEF ScanFits, FeedScanning
<1>6. feedScan[s].pc # "notifying"
  BY <1>1 DEF Waiting
<1> QED
  BY <1>2, <1>4, <1>5, <1>6, FeedFacts, FeedKept DEF ListActive

LEMMA ListUpcomingKeeps ==
  ASSUME FeedIInv, NEW s \in FeedScanner, ListUpcoming(s)
  PROVE  FeedIInv'
<1>1. feedScan[s].pc = "active" /\ Refreshed(feedScan[s].token)
  BY DEF ListUpcoming
<1>2. feedScan[s].token \in BOOLEAN /\ feedScan[s].items \subseteq Campaign
  BY <1>1, FeedFacts DEF FeedScanning, Waiting
<1>3. /\ held' \subseteq Campaign /\ {cached', kickstarted'} \subseteq BOOLEAN
      /\ Visible(held', feedScan[s].token) \subseteq Campaign
  BY <1>1, <1>2, CacheKept
<1>4. PICK items : items = feedScan[s].items \cup (Visible(held', feedScan[s].token) \cap InStatus("upcoming"))
  OBVIOUS
<1>5. PICK next : next = [pc |-> "given", items |-> items]
  OBVIOUS
<1>6. feedScan' = [feedScan EXCEPT ![s] = next] /\ listed' = listed \cup items
  BY <1>4, <1>5 DEF ListUpcoming, Hand
<1>7. ScanFits(next)'
  BY <1>2, <1>3, <1>4, <1>5, <1>6 DEF ScanFits, FeedScanning
<1> QED
  BY <1>1, <1>3, <1>6, <1>7, FeedFacts, FeedKept DEF ListUpcoming

LEMMA ReadStateKeeps ==
  ASSUME FeedIInv, NEW s \in FeedScanner, ReadState(s)
  PROVE  FeedIInv'
<1>1. PICK items : items = feedScan[s].items
  OBVIOUS
<1>2. feedScan[s].pc = "given" /\ items \subseteq Campaign /\ items \subseteq listed
  BY <1>1, FeedFacts DEF ReadState, FeedScanning, Waiting, ScanFits
<1>3. PICK next : next =
        [pc |-> "scanning", todo |-> {c \in items : target[c] # "none"}, any |-> items # {},
         wished |-> {c \in items : target[c] = "wished"}, known |-> watch, news |-> NoNews,
         baseline |-> IsBaseline, recorded |-> initialised]
  OBVIOUS
<1>4. feedScan' = [feedScan EXCEPT ![s] = next]
  BY <1>1, <1>3 DEF ReadState
<1>5. UNCHANGED <<cacheVars, target, initialised, watch, notice, origin, listed, feedFaults>>
  BY DEF ReadState
<1>6. next \in FeedScanning
  BY <1>2, <1>3, FeedFacts DEF FeedScanning, IsBaseline
<1>7. ScanFits(next)'
  BY <1>2, <1>3, <1>5, <1>6 DEF ScanFits, IsBaseline
<1> QED
  BY <1>2, <1>4, <1>5, <1>7, FeedFacts, FeedKept DEF cacheVars

LEMMA ScanRecord ==
  ASSUME FeedIInv, NEW s \in FeedScanner, feedScan[s].pc \in {"scanning", "notifying"}
  PROVE  feedScan[s] \in [pc : {"scanning", "notifying"}, todo : SUBSET Campaign, any : BOOLEAN,
                          wished : SUBSET Campaign, known : SUBSET Campaign, news : Campaign \cup {NoNews},
                          baseline : BOOLEAN, recorded : BOOLEAN]
BY FeedFacts DEF FeedScanning, Waiting

\* The row of a new campaign comes with a notification to make, unless the scan is
\* the baseline or the user wished for it.
LEMMA WatchCampaignKeeps ==
  ASSUME FeedIInv, NEW s \in FeedScanner, NEW c \in Campaign, WatchCampaign(s, c)
  PROVE  FeedIInv'
<1>1. PICK scan : scan = feedScan[s]
  OBVIOUS
<1>2. PICK silent \in BOOLEAN : silent <=> (c \in scan.known \cup scan.wished \/ scan.baseline)
  <2>1. (c \in scan.known \cup scan.wished \/ scan.baseline) \in BOOLEAN
    BY <1>1, ScanRecord DEF WatchCampaign
  <2> QED
    BY <2>1
<1>3. /\ scan.pc = "scanning" /\ ScanFits(scan)
      /\ scan \in [pc : {"scanning", "notifying"}, todo : SUBSET Campaign, any : BOOLEAN,
                   wished : SUBSET Campaign, known : SUBSET Campaign, news : Campaign \cup {NoNews},
                   baseline : BOOLEAN, recorded : BOOLEAN]
  BY <1>1, FeedFacts, ScanRecord DEF WatchCampaign
<1>4. PICK next : next = [scan EXCEPT !.todo = @ \ {c}, !.news = c,
                                      !.pc = IF silent THEN "scanning" ELSE "notifying"]
  OBVIOUS
<1>5. feedScan' = [feedScan EXCEPT ![s] = next]
  BY <1>1, <1>2, <1>4 DEF WatchCampaign
<1>6. /\ watch' = watch \cup {c}
      /\ UNCHANGED <<cacheVars, target, initialised, notice, listed, feedFaults>>
  BY DEF WatchCampaign
<1>7. /\ next \in FeedScanning /\ next.news = c /\ next.any = scan.any /\ next.known = scan.known
      /\ next.recorded = scan.recorded /\ next.baseline = scan.baseline
      /\ next.pc = IF silent THEN "scanning" ELSE "notifying"
  BY <1>3, <1>4 DEF FeedScanning
<1>8. ScanFits(next)'
  BY <1>2, <1>3, <1>6, <1>7 DEF ScanFits
<1>9. /\ feedScan' \in [FeedScanner -> FeedScanning]
      /\ \A t \in FeedScanner : ScanFits(feedScan[t])'
  BY <1>5, <1>6, <1>8, FeedScanMoves
<1>10. PICK why : why = CASE c \in scan.wished -> "own wish"
                          [] c \notin scan.wished /\ scan.recorded -> "news"
                          [] OTHER -> "baseline"
  OBVIOUS
<1>11. origin' = IF c \in watch THEN origin ELSE [origin EXCEPT ![c] = why]
  BY <1>1, <1>10 DEF WatchCampaign
<1>12. /\ why \in {"baseline", "own wish", "news"}
       /\ why = "news" => scan.recorded /\ c \notin scan.wished
  BY <1>3, <1>10
<1>13. origin \in [Campaign -> {"none", "baseline", "own wish", "news"}]
  BY DEF FeedIInv, FeedTypeOK
<1>14. FeedTypeOK'
  BY <1>6, <1>11, <1>12, <1>13 DEF FeedIInv, FeedTypeOK, cacheVars
<1>15. \A d \in Campaign : notice'[d] # "none" => initialised' /\ d \in watch'
  BY <1>6 DEF FeedIInv, CampaignsAnnounced
<1>16. ASSUME feedFaults' = 0, NEW d \in Campaign, origin'[d] = "news", notice'[d] = "none"
       PROVE  \E t \in FeedScanner : feedScan'[t].pc = "notifying" /\ feedScan'[t].news = d
  <2>1. CASE origin[d] = "news"
    <3>1. PICK t \in FeedScanner : feedScan[t].pc = "notifying" /\ feedScan[t].news = d
      BY <1>6, <1>16, <2>1 DEF FeedIInv, CampaignsAnnounced
    <3>2. t # s
      BY <3>1, <1>1, <1>3
    <3>3. feedScan'[t] = feedScan[t]
      BY <1>5, <3>2, FeedFacts
    <3> QED
      BY <3>1, <3>3
  <2>2. CASE origin[d] # "news"
    <3>1. d = c /\ c \notin watch /\ why = "news"
      BY <1>11, <1>13, <1>16, <2>2
    <3>2. ~silent
      BY <1>2, <1>3, <1>12, <3>1 DEF ScanFits
    <3>3. feedScan'[s] = next
      BY <1>5, FeedFacts
    <3> QED
      BY <1>7, <3>1, <3>2, <3>3
  <2> QED
    BY <2>1, <2>2
<1>17. CampaignsAnnounced'
  BY <1>6, <1>15, <1>16, FeedFacts DEF CampaignsAnnounced
<1> QED
  BY <1>6, <1>9, <1>14, <1>17 DEF FeedIInv

LEMMA NotifyCampaignKeeps ==
  ASSUME FeedIInv, NEW s \in FeedScanner, NotifyCampaign(s)
  PROVE  FeedIInv'
<1>1. PICK scan : scan = feedScan[s]
  OBVIOUS
<1>2. /\ scan.pc = "notifying" /\ ScanFits(scan) /\ scan.news \in watch /\ initialised
      /\ scan \in [pc : {"scanning", "notifying"}, todo : SUBSET Campaign, any : BOOLEAN,
                   wished : SUBSET Campaign, known : SUBSET Campaign, news : Campaign \cup {NoNews},
                   baseline : BOOLEAN, recorded : BOOLEAN]
  BY <1>1, FeedFacts, ScanRecord DEF NotifyCampaign, ScanFits
<1>3. PICK next : next = [scan EXCEPT !.pc = "scanning"]
  OBVIOUS
<1>4. feedScan' = [feedScan EXCEPT ![s] = next]
  BY <1>1, <1>3 DEF NotifyCampaign
<1>5. UNCHANGED <<cacheVars, target, initialised, watch, origin, listed, feedFaults>>
  BY DEF NotifyCampaign
<1>6. ScanFits(next)'
  BY <1>2, <1>3, <1>5 DEF ScanFits, FeedScanning
<1>7. /\ feedScan' \in [FeedScanner -> FeedScanning]
      /\ \A t \in FeedScanner : ScanFits(feedScan[t])'
  BY <1>4, <1>5, <1>6, FeedScanMoves
<1>8. PICK n : n = scan.news
  OBVIOUS
<1>9. n \in Campaign /\ n \in watch
  BY <1>2, <1>8, FeedFacts
<1>10. notice \in [Campaign -> {"none", "unread", "read"}]
  BY DEF FeedIInv, FeedTypeOK
<1>11. notice' = [notice EXCEPT ![n] = IF notice[n] = "none" THEN "unread" ELSE notice[n]]
  BY <1>1, <1>8 DEF NotifyCampaign
<1>12. /\ notice' \in [Campaign -> {"none", "unread", "read"}] /\ notice'[n] # "none"
       /\ \A d \in Campaign : d # n => notice'[d] = notice[d]
  BY <1>9, <1>10, <1>11
<1>13. FeedTypeOK'
  BY <1>5, <1>12 DEF FeedIInv, FeedTypeOK, cacheVars
<1>14. \A d \in Campaign : notice'[d] # "none" => initialised' /\ d \in watch'
  BY <1>2, <1>5, <1>9, <1>12 DEF FeedIInv, CampaignsAnnounced
<1>15. ASSUME feedFaults' = 0, NEW d \in Campaign, origin'[d] = "news", notice'[d] = "none"
       PROVE  \E t \in FeedScanner : feedScan'[t].pc = "notifying" /\ feedScan'[t].news = d
  <2>1. d # n /\ notice[d] = "none"
    BY <1>12, <1>15
  <2>2. PICK t \in FeedScanner : feedScan[t].pc = "notifying" /\ feedScan[t].news = d
    BY <1>5, <1>15, <2>1 DEF FeedIInv, CampaignsAnnounced
  <2>3. t # s
    BY <1>1, <1>8, <2>1, <2>2
  <2>4. feedScan'[t] = feedScan[t]
    BY <1>4, <2>3, FeedFacts
  <2> QED
    BY <2>2, <2>4
<1>16. CampaignsAnnounced'
  BY <1>5, <1>14, <1>15, FeedFacts DEF CampaignsAnnounced
<1> QED
  BY <1>5, <1>7, <1>13, <1>16 DEF FeedIInv

LEMMA FinishScanKeeps ==
  ASSUME FeedIInv, NEW s \in FeedScanner, FinishScan(s)
  PROVE  FeedIInv'
<1>1. /\ feedScan[s].pc = "scanning" /\ ScanFits(feedScan[s])
      /\ feedScan[s].baseline \in BOOLEAN /\ feedScan[s].any \in BOOLEAN
  BY FeedFacts, ScanRecord DEF FinishScan
<1>2. /\ initialised' = (initialised \/ (feedScan[s].baseline /\ feedScan[s].any))
      /\ feedScan' = [feedScan EXCEPT ![s] = Waiting]
      /\ UNCHANGED <<cacheVars, target, watch, notice, origin, listed, feedFaults>>
  BY DEF FinishScan
<1>3. /\ initialised' \in BOOLEAN /\ (initialised => initialised')
      /\ (initialised' => initialised \/ feedScan[s].any)
  BY <1>1, <1>2, FeedFacts
<1>4. initialised' => listed # {}
  BY <1>1, <1>3, FeedFacts DEF ScanFits
<1>5. ScanFits(Waiting)'
  BY DEF ScanFits, FeedScanning, Waiting
<1> QED
  BY <1>1, <1>2, <1>3, <1>4, <1>5, FeedFacts, FeedKept DEF cacheVars

\* A fault ends scans, and is counted.
LEMMA FeedFaultKeeps ==
  ASSUME FeedIInv, feedFaults' = feedFaults + 1,
         feedScan' \in [FeedScanner -> FeedScanning],
         \A s \in FeedScanner : feedScan'[s] \in {feedScan[s], Waiting},
         UNCHANGED <<cacheVars, target, initialised, watch, notice, origin, listed>>
  PROVE  FeedIInv'
<1>1. feedFaults' \in Nat /\ feedFaults' # 0
  BY DEF FeedIInv
<1>2. \A s \in FeedScanner : ScanFits(feedScan[s])'
  <2> TAKE s \in FeedScanner
  <2>1. ScanFits(feedScan[s]) /\ ScanFits(Waiting)
    BY FeedFacts
  <2> QED
    BY <2>1 DEF ScanFits
<1>3. FeedTypeOK'
  BY DEF FeedIInv, FeedTypeOK, cacheVars
<1>4. CampaignsAnnounced'
  BY <1>1 DEF FeedIInv, CampaignsAnnounced
<1> QED
  BY <1>1, <1>2, <1>3, <1>4 DEF FeedIInv

\* What users do leaves every scan as it is.
LEMMA FeedUserKeeps ==
  ASSUME FeedIInv, UNCHANGED <<held, cached, kickstarted, initialised, watch, feedScan, origin, listed, feedFaults>>,
         configured' \in BOOLEAN, target' \in [Campaign -> {"none", "related", "wished"}],
         notice' \in [Campaign -> {"none", "unread", "read"}],
         \A c \in Campaign : notice'[c] = "none" <=> notice[c] = "none"
  PROVE  FeedIInv'
<1>1. \A s \in FeedScanner : ScanFits(feedScan[s])'
  BY FeedFacts DEF ScanFits
<1>2. FeedTypeOK'
  BY DEF FeedIInv, FeedTypeOK
<1>3. CampaignsAnnounced'
  BY DEF FeedIInv, CampaignsAnnounced
<1> QED
  BY <1>1, <1>2, <1>3 DEF FeedIInv

LEMMA FeedKeeps == FeedIInv /\ [FeedNext]_feedVars => FeedIInv'
<1> SUFFICES ASSUME FeedIInv, [FeedNext]_feedVars
             PROVE  FeedIInv'
  OBVIOUS
<1>1. /\ target \in [Campaign -> {"none", "related", "wished"}]
      /\ notice \in [Campaign -> {"none", "unread", "read"}]
      /\ configured \in BOOLEAN
  BY DEF FeedIInv, FeedTypeOK
<1>2. CASE UNCHANGED feedVars
  BY <1>1, <1>2, FeedUserKeeps DEF feedVars, cacheVars
<1>3. ASSUME NEW s \in FeedScanner,
             \/ \E filter \in PageFilters, limit \in PageLimits : ListPage(s, filter, limit)
             \/ ListActive(s) \/ ListUpcoming(s) \/ ReadState(s)
             \/ \E c \in Campaign : WatchCampaign(s, c)
             \/ NotifyCampaign(s) \/ FinishScan(s)
      PROVE  FeedIInv'
  BY <1>3, ListPageKeeps, ListActiveKeeps, ListUpcomingKeeps, ReadStateKeeps, WatchCampaignKeeps,
     NotifyCampaignKeeps, FinishScanKeeps
<1>4. ASSUME NEW s \in FeedScanner, ScanFails(s)
      PROVE  FeedIInv'
  <2>1. /\ feedScan' = [feedScan EXCEPT ![s] = Waiting] /\ feedFaults' = feedFaults + 1
        /\ UNCHANGED <<cacheVars, target, initialised, watch, notice, origin, listed>>
    BY <1>4 DEF ScanFails
  <2>2. /\ feedScan' \in [FeedScanner -> FeedScanning]
        /\ \A t \in FeedScanner : feedScan'[t] \in {feedScan[t], Waiting}
    BY <2>1, FeedFacts DEF FeedScanning
  <2> QED
    BY <2>1, <2>2, FeedFaultKeeps
<1>5. ASSUME RestartFeed
      PROVE  FeedIInv'
  <2>1. /\ feedScan' = [s \in FeedScanner |-> Waiting] /\ feedFaults' = feedFaults + 1
        /\ UNCHANGED <<cacheVars, target, initialised, watch, notice, origin, listed>>
    BY <1>5 DEF RestartFeed
  <2>2. /\ feedScan' \in [FeedScanner -> FeedScanning]
        /\ \A t \in FeedScanner : feedScan'[t] \in {feedScan[t], Waiting}
    BY <2>1 DEF FeedScanning
  <2> QED
    BY <2>1, <2>2, FeedFaultKeeps
<1>6. ASSUME NEW c \in Campaign, NEW kind \in {"none", "related", "wished"}, Retarget(c, kind)
      PROVE  FeedIInv'
  <2>1. target' \in [Campaign -> {"none", "related", "wished"}] /\ notice' = notice
    BY <1>1, <1>6 DEF Retarget
  <2> QED
    BY <1>1, <1>6, <2>1, FeedUserKeeps DEF Retarget, cacheVars
<1>7. ASSUME NEW c \in Campaign, NEW state \in {"unread", "read"}, MarkRead(c, state)
      PROVE  FeedIInv'
  <2>1. /\ notice' \in [Campaign -> {"none", "unread", "read"}]
        /\ \A d \in Campaign : notice'[d] = "none" <=> notice[d] = "none"
    BY <1>1, <1>7 DEF MarkRead
  <2> QED
    BY <1>1, <1>7, <2>1, FeedUserKeeps DEF MarkRead, cacheVars
<1>8. ASSUME SaveToken
      PROVE  FeedIInv'
  <2>1. configured' \in BOOLEAN
    BY <1>1, <1>8 DEF SaveToken
  <2> QED
    BY <1>1, <1>8, <2>1, FeedUserKeeps DEF SaveToken
<1> QED
  BY <1>2, <1>3, <1>4, <1>5, <1>6, <1>7, <1>8 DEF FeedNext

-----------------------------------------------------------------------------
(* Expansions *)

LinkScans ==
  [pc : {"asleep", "next", "fetching", "fetched", "read", "notifying"}, batch : SUBSET BaseGame,
   game : BaseGame \cup {NoGame}, links : SUBSET Expansion, known : SUBSET Expansion,
   had : SUBSET (BaseGame \cup Expansion), baseline : BOOLEAN, news : SUBSET Expansion]

\* The scan knows what is recorded of its game; what it is about to notify is news.
LinkScanFits ==
  /\ linkScan \in LinkScans
  /\ linkScan.pc \in {"fetching", "fetched", "read", "notifying"} => linkScan.game \in BaseGame
  /\ linkScan.pc = "read" => /\ linkScan.known = watched[linkScan.game]
                             /\ linkScan.baseline <=> linkScan.game \in recorded
  /\ linkScan.pc = "notifying" => \A x \in linkScan.news : reason[linkScan.game][x] = "news"
  /\ linkScan.pc # "notifying" /\ watchFaults = 0 => linkScan.news = {}

RowsFit ==
  /\ complete = recorded
  /\ \A g \in BaseGame, x \in Expansion : reason[g][x] # "none" => x \in watched[g]

ExpansionIInv ==
  /\ ExpansionTypeOK /\ watchFaults \in Nat
  /\ LinkScanFits /\ RowsFit /\ ExpansionsAnnounced

LEMMA InitExpansion == ExpansionInit => ExpansionIInv
<1> SUFFICES ASSUME ExpansionInit
             PROVE  ExpansionIInv
  OBVIOUS
<1>1. Asleep \in LinkScans /\ Asleep.pc = "asleep" /\ Asleep.news = {} /\ Asleep.batch = {}
  BY DEF Asleep, LinkScans
<1>2. ExpansionTypeOK
  BY <1>1 DEF ExpansionInit, ExpansionTypeOK
<1>3. LinkScanFits /\ RowsFit /\ ExpansionsAnnounced
  BY <1>1 DEF ExpansionInit, LinkScanFits, RowsFit, ExpansionsAnnounced
<1> QED
  BY <1>2, <1>3 DEF ExpansionInit, ExpansionIInv

LEMMA ExpansionFacts ==
  ASSUME ExpansionIInv
  PROVE  /\ linkScan \in LinkScans /\ inCollection \subseteq BaseGame \cup Expansion
         /\ due \cup complete \cup recorded \cup linkScan.batch \subseteq BaseGame
         /\ watched \in [BaseGame -> SUBSET Expansion]
         /\ announced \in [BaseGame -> [Expansion -> {"none", "unread", "read"}]]
         /\ reason \in [BaseGame -> [Expansion -> {"none", "baseline", "owned", "minor", "news"}]]
         /\ watchFaults \in Nat
         /\ Asleep \in LinkScans /\ Asleep.pc = "asleep" /\ Asleep.news = {} /\ Asleep.batch = {}
BY DEF ExpansionIInv, ExpansionTypeOK, LinkScanFits, LinkScans, Asleep

\* A step that writes no row and no notification keeps the invariant when it leaves
\* a scan that fits, and takes nothing that is about to be notified unless it is a
\* fault.
LEMMA ExpansionKept ==
  ASSUME ExpansionIInv, UNCHANGED <<complete, watched, announced, reason, recorded>>,
         inCollection' \subseteq BaseGame \cup Expansion, due' \subseteq BaseGame,
         watchFaults' \in Nat, watchFaults' = 0 => watchFaults = 0, LinkScanFits',
         watchFaults' = 0 => \/ linkScan.news = {}
                             \/ linkScan'.game = linkScan.game /\ linkScan'.news = linkScan.news
  PROVE  ExpansionIInv'
<1>1. linkScan' \in LinkScans
  BY DEF LinkScanFits
<1>2. ExpansionTypeOK'
  BY <1>1 DEF ExpansionIInv, ExpansionTypeOK, LinkScans
<1>3. RowsFit'
  BY DEF ExpansionIInv, RowsFit
<1>4. ExpansionsAnnounced'
  BY DEF ExpansionIInv, ExpansionsAnnounced
<1> QED
  BY <1>2, <1>3, <1>4 DEF ExpansionIInv

LEMMA ScanStepKeeps ==
  ASSUME ExpansionIInv,
         SelectDue \/ NextGame \/ (\E links \in SUBSET Expansion : FetchLinks(links)) \/ FetchFails
  PROVE  ExpansionIInv'
<1>1. PICK scan \in LinkScans : scan = linkScan
  BY ExpansionFacts
<1>2. /\ UNCHANGED <<inCollection, complete, watched, announced, reason, recorded, watchFaults>>
      /\ due' \subseteq due /\ scan.pc \in {"asleep", "next", "fetching"}
  BY <1>1 DEF SelectDue, NextGame, FetchLinks, FetchFails
<1>3. /\ watchFaults = 0 => scan.news = {}
      /\ scan.pc = "fetching" => scan.game \in BaseGame
      /\ scan.batch \subseteq BaseGame /\ due \subseteq BaseGame
  BY <1>1, <1>2, ExpansionFacts DEF ExpansionIInv, LinkScanFits
<1>4. /\ linkScan' \in LinkScans /\ linkScan'.pc \in {"asleep", "next", "fetching", "fetched"}
      /\ linkScan'.news \in {{}, scan.news}
      /\ linkScan'.pc \in {"fetching", "fetched"} => linkScan'.game \in BaseGame
  <2>1. CASE SelectDue
    <3>1. linkScan' = [Asleep EXCEPT !.pc = "next", !.batch = due \cap inCollection]
      BY <2>1 DEF SelectDue
    <3> QED
      BY <1>3, <3>1 DEF Asleep, LinkScans
  <2>2. CASE NextGame /\ scan.batch = {}
    <3>1. linkScan' = Asleep
      BY <1>1, <2>2 DEF NextGame
    <3> QED
      BY <3>1, ExpansionFacts
  <2>3. CASE NextGame /\ scan.batch # {}
    <3>1. PICK g \in scan.batch :
            linkScan' = [Asleep EXCEPT !.pc = "fetching", !.batch = scan.batch \ {g}, !.game = g]
      BY <1>1, <2>3 DEF NextGame
    <3> QED
      BY <1>3, <3>1 DEF Asleep, LinkScans
  <2>4. CASE \E links \in SUBSET Expansion : FetchLinks(links)
    <3>1. PICK links \in SUBSET Expansion : linkScan' = [scan EXCEPT !.pc = "fetched", !.links = links]
      BY <1>1, <2>4 DEF FetchLinks
    <3>2. scan.game \in BaseGame
      BY <1>1, <1>3, <2>4 DEF FetchLinks
    <3> QED
      BY <3>1, <3>2 DEF LinkScans
  <2>5. CASE FetchFails
    <3>1. linkScan' = [scan EXCEPT !.pc = "next"]
      BY <1>1, <2>5 DEF FetchFails
    <3> QED
      BY <3>1 DEF LinkScans
  <2> QED
    BY <2>1, <2>2, <2>3, <2>4, <2>5
<1>5. LinkScanFits'
  BY <1>2, <1>3, <1>4 DEF LinkScanFits
<1> QED
  BY <1>1, <1>2, <1>3, <1>5, ExpansionFacts, ExpansionKept

LEMMA ReadKnownKeeps ==
  ASSUME ExpansionIInv, ReadKnown
  PROVE  ExpansionIInv'
<1>1. PICK scan \in LinkScans : scan = linkScan
  BY ExpansionFacts
<1>2. /\ scan.pc = "fetched" /\ scan.game \in BaseGame /\ (watchFaults = 0 => scan.news = {})
      /\ UNCHANGED <<inCollection, due, complete, watched, announced, reason, recorded, watchFaults>>
  BY <1>1 DEF ReadKnown, ExpansionIInv, LinkScanFits
<1>3. PICK known \in BOOLEAN : known = (scan.game \in complete)
  <2>1. CASE scan.game \in complete
    <3>1. TRUE = (scan.game \in complete)
      BY <2>1
    <3> QED
      BY <3>1, Zenon
  <2>2. CASE scan.game \notin complete
    <3>1. FALSE = (scan.game \in complete)
      BY <2>2
    <3> QED
      BY <3>1, Zenon
  <2> QED
    BY <2>1, <2>2
<1>4. PICK next : next = [scan EXCEPT !.pc = "read", !.baseline = known,
                                      !.known = watched[scan.game], !.had = inCollection]
  OBVIOUS
<1>5. linkScan' = next
  BY <1>1, <1>4, <1>3 DEF ReadKnown
<1>6. /\ next \in LinkScans /\ next.pc = "read" /\ next.game = scan.game /\ next.news = scan.news
      /\ next.known = watched[scan.game] /\ next.baseline = known
  BY <1>2, <1>4, ExpansionFacts DEF LinkScans
<1>7. complete = recorded
  BY DEF ExpansionIInv, RowsFit
<1>8. LinkScanFits'
  BY <1>2, <1>5, <1>6, <1>7, <1>3 DEF LinkScanFits
<1> QED
  BY <1>1, <1>2, <1>5, <1>6, <1>8, ExpansionFacts, ExpansionKept

\* The rows written first are those the history calls news and the scan is about to
\* notify.
LEMMA WatchLinksKeeps ==
  ASSUME ExpansionIInv, WatchLinks
  PROVE  ExpansionIInv'
<1>1. PICK scan \in LinkScans : scan = linkScan
  BY ExpansionFacts
<1>2. PICK g : g = scan.game
  OBVIOUS
<1>3. PICK first : first = scan.links \ watched[g]
  OBVIOUS
<1>4. /\ scan.pc = "read" /\ g \in BaseGame /\ (watchFaults = 0 => scan.news = {})
      /\ scan.known = watched[g] /\ (scan.baseline <=> g \in recorded)
      /\ UNCHANGED <<inCollection, due, complete, announced, recorded, watchFaults>>
  BY <1>1, <1>2 DEF WatchLinks, ExpansionIInv, LinkScanFits
<1>5. PICK news : news = IF scan.baseline THEN scan.links \ (Minor \cup scan.known \cup scan.had) ELSE {}
  OBVIOUS
<1>6. PICK next : next = [scan EXCEPT !.pc = "notifying", !.news = news]
  OBVIOUS
<1>7. linkScan' = next
  BY <1>1, <1>5, <1>6 DEF WatchLinks
<1>8. /\ scan.links \subseteq Expansion /\ first \subseteq Expansion /\ news \subseteq Expansion
      /\ next \in LinkScans /\ next.pc = "notifying" /\ next.game = g /\ next.news = news
  BY <1>2, <1>3, <1>5, <1>6 DEF LinkScans
<1>9. PICK row : row = [x \in Expansion |-> IF x \in first THEN Reason(g, x) ELSE reason[g][x]]
  OBVIOUS
<1>10. reason' = [reason EXCEPT ![g] = row]
  BY <1>1, <1>2, <1>3, <1>9 DEF WatchLinks
<1>11. watched' = [watched EXCEPT ![g] = watched[g] \cup scan.links]
  BY <1>1, <1>2 DEF WatchLinks
<1>12. ASSUME NEW x \in Expansion
       PROVE  /\ Reason(g, x) \in {"baseline", "minor", "owned", "news"}
              /\ Reason(g, x) = "news" <=> g \in recorded /\ x \notin Minor /\ x \notin scan.had
  <2>1. CASE g \notin recorded
    BY <2>1 DEF Reason
  <2>2. CASE g \in recorded /\ x \in Minor
    BY <2>2 DEF Reason
  <2>3. CASE g \in recorded /\ x \notin Minor /\ x \in scan.had
    BY <1>1, <2>3 DEF Reason
  <2>4. CASE g \in recorded /\ x \notin Minor /\ x \notin scan.had
    BY <1>1, <2>4 DEF Reason
  <2> QED
    BY <2>1, <2>2, <2>3, <2>4
<1>13. /\ reason'[g] = row /\ \A h \in BaseGame : h # g => reason'[h] = reason[h]
       /\ watched'[g] = watched[g] \cup scan.links /\ \A h \in BaseGame : h # g => watched'[h] = watched[h]
       /\ watched' \in [BaseGame -> SUBSET Expansion]
  BY <1>4, <1>8, <1>10, <1>11, ExpansionFacts
<1>14. /\ row \in [Expansion -> {"none", "baseline", "owned", "minor", "news"}]
       /\ \A x \in Expansion : row[x] = IF x \in first THEN Reason(g, x) ELSE reason[g][x]
  BY <1>4, <1>9, <1>12, ExpansionFacts
<1>15. reason' \in [BaseGame -> [Expansion -> {"none", "baseline", "owned", "minor", "news"}]]
  BY <1>10, <1>14, ExpansionFacts
<1>16. ExpansionTypeOK'
  BY <1>4, <1>7, <1>8, <1>13, <1>15 DEF ExpansionIInv, ExpansionTypeOK, LinkScans
<1>17. \A x \in Expansion : x \in first => reason[g][x] = "none" /\ announced[g][x] = "none"
  BY <1>3, <1>4 DEF ExpansionIInv, RowsFit, ExpansionsAnnounced
<1>18. ASSUME NEW x \in Expansion
       PROVE  x \in news <=> x \in first /\ row[x] = "news"
  BY <1>3, <1>4, <1>5, <1>12, <1>14, <1>17
<1>19. LinkScanFits'
  BY <1>4, <1>7, <1>8, <1>13, <1>18 DEF LinkScanFits
<1>20. RowsFit'
  <2>1. ASSUME NEW h \in BaseGame, NEW x \in Expansion, reason'[h][x] # "none"
        PROVE  x \in watched'[h]
    <3>1. CASE h = g /\ x \in first
      BY <1>3, <1>13, <3>1
    <3>2. CASE h = g /\ x \notin first
      BY <1>4, <1>13, <1>14, <2>1, <3>2 DEF ExpansionIInv, RowsFit
    <3>3. CASE h # g
      BY <1>13, <2>1, <3>3 DEF ExpansionIInv, RowsFit
    <3> QED
      BY <3>1, <3>2, <3>3
  <2> QED
    BY <1>4, <2>1 DEF ExpansionIInv, RowsFit
<1>21. ExpansionsAnnounced'
  <2>1. ASSUME NEW h \in BaseGame, NEW x \in Expansion
        PROVE  /\ announced'[h][x] # "none" => reason'[h][x] = "news"
               /\ reason'[h][x] = "news" /\ watchFaults' = 0 =>
                    announced'[h][x] # "none" \/ (linkScan'.game = h /\ x \in linkScan'.news)
    <3>1. /\ announced[h][x] # "none" => reason[h][x] = "news"
          /\ reason[h][x] = "news" /\ watchFaults = 0 => announced[h][x] # "none"
      BY <1>1, <1>4 DEF ExpansionIInv, ExpansionsAnnounced
    <3>2. CASE h = g /\ x \in first
      BY <1>4, <1>7, <1>8, <1>13, <1>17, <1>18, <3>2
    <3>3. CASE ~(h = g /\ x \in first)
      <4>1. reason'[h][x] = reason[h][x]
        BY <1>13, <1>14, <3>3
      <4> QED
        BY <1>4, <3>1, <4>1
    <3> QED
      BY <3>2, <3>3
  <2> QED
    BY <2>1 DEF ExpansionsAnnounced
<1> QED
  BY <1>4, <1>16, <1>19, <1>20, <1>21, ExpansionFacts DEF ExpansionIInv

LEMMA NotifyExpansionKeeps ==
  ASSUME ExpansionIInv, NEW x \in Expansion, NotifyExpansion(x)
  PROVE  ExpansionIInv'
<1>1. PICK scan \in LinkScans : scan = linkScan
  BY ExpansionFacts
<1>2. PICK g : g = scan.game
  OBVIOUS
<1>3. /\ scan.pc = "notifying" /\ x \in scan.news /\ g \in BaseGame
      /\ \A y \in scan.news : reason[g][y] = "news"
      /\ UNCHANGED <<inCollection, due, complete, watched, reason, recorded, watchFaults>>
  BY <1>1, <1>2 DEF NotifyExpansion, ExpansionIInv, LinkScanFits
<1>4. PICK next : next = [scan EXCEPT !.news = scan.news \ {x}]
  OBVIOUS
<1>5. linkScan' = next
  BY <1>1, <1>4 DEF NotifyExpansion
<1>6. next \in LinkScans /\ next.pc = "notifying" /\ next.game = g /\ next.news = scan.news \ {x}
  BY <1>2, <1>3, <1>4 DEF LinkScans
<1>7. PICK row : row = [announced[g] EXCEPT ![x] = IF announced[g][x] = "none" THEN "unread" ELSE announced[g][x]]
  OBVIOUS
<1>8. announced' = [announced EXCEPT ![g] = row]
  BY <1>1, <1>2, <1>7 DEF NotifyExpansion
<1>9. announced[g] \in [Expansion -> {"none", "unread", "read"}]
  BY <1>3, ExpansionFacts
<1>10. /\ row \in [Expansion -> {"none", "unread", "read"}] /\ row[x] # "none"
       /\ \A y \in Expansion : y # x => row[y] = announced[g][y]
  BY <1>7, <1>9
<1>11. /\ announced' \in [BaseGame -> [Expansion -> {"none", "unread", "read"}]]
       /\ announced'[g] = row /\ \A h \in BaseGame : h # g => announced'[h] = announced[h]
  BY <1>3, <1>8, <1>10, ExpansionFacts
<1>12. ExpansionTypeOK'
  BY <1>3, <1>5, <1>6, <1>11 DEF ExpansionIInv, ExpansionTypeOK, LinkScans
<1>13. LinkScanFits' /\ RowsFit'
  BY <1>3, <1>5, <1>6 DEF ExpansionIInv, LinkScanFits, RowsFit
<1>14. ExpansionsAnnounced'
  <2>1. ASSUME NEW h \in BaseGame, NEW y \in Expansion
        PROVE  /\ announced'[h][y] # "none" => reason'[h][y] = "news"
               /\ reason'[h][y] = "news" /\ watchFaults' = 0 =>
                    announced'[h][y] # "none" \/ (linkScan'.game = h /\ y \in linkScan'.news)
    <3>1. /\ announced[h][y] # "none" => reason[h][y] = "news"
          /\ reason[h][y] = "news" /\ watchFaults = 0 =>
               announced[h][y] # "none" \/ (g = h /\ y \in scan.news)
      BY <1>1, <1>2 DEF ExpansionIInv, ExpansionsAnnounced
    <3>2. CASE h = g /\ y = x
      BY <1>3, <1>10, <1>11, <3>2
    <3>3. CASE ~(h = g /\ y = x)
      <4>1. announced'[h][y] = announced[h][y]
        BY <1>10, <1>11, <3>3
      <4> QED
        BY <1>3, <1>5, <1>6, <3>1, <3>3, <4>1
    <3> QED
      BY <3>2, <3>3
  <2> QED
    BY <2>1 DEF ExpansionsAnnounced
<1> QED
  BY <1>3, <1>12, <1>13, <1>14, ExpansionFacts DEF ExpansionIInv

LEMMA RecordScanKeeps ==
  ASSUME ExpansionIInv, RecordScan
  PROVE  ExpansionIInv'
<1>1. PICK scan \in LinkScans : scan = linkScan
  BY ExpansionFacts
<1>2. PICK g : g = scan.game
  OBVIOUS
<1>3. /\ scan.pc = "notifying" /\ scan.news = {} /\ g \in BaseGame
      /\ due' = due \ {g} /\ complete' = complete \cup {g} /\ recorded' = recorded \cup {g}
      /\ UNCHANGED <<inCollection, watched, announced, reason, watchFaults>>
  BY <1>1, <1>2 DEF RecordScan, ExpansionIInv, LinkScanFits
<1>4. PICK next : next = [scan EXCEPT !.pc = "next"]
  OBVIOUS
<1>5. linkScan' = next
  BY <1>1, <1>4 DEF RecordScan
<1>6. next \in LinkScans /\ next.pc = "next" /\ next.news = {}
  BY <1>3, <1>4 DEF LinkScans
<1>7. ExpansionTypeOK'
  BY <1>3, <1>5, <1>6, ExpansionFacts DEF ExpansionTypeOK, LinkScans
<1>8. LinkScanFits'
  BY <1>5, <1>6 DEF LinkScanFits
<1>9. RowsFit' /\ ExpansionsAnnounced'
  BY <1>1, <1>3 DEF ExpansionIInv, RowsFit, ExpansionsAnnounced
<1> QED
  BY <1>3, <1>7, <1>8, <1>9, ExpansionFacts DEF ExpansionIInv

\* A fault ends the scan of the game, and is counted.
LEMMA WatchFaultKeeps ==
  ASSUME ExpansionIInv, ScanGameFails \/ WatchCrash
  PROVE  ExpansionIInv'
<1>1. PICK scan \in LinkScans : scan = linkScan
  BY ExpansionFacts
<1>2. /\ UNCHANGED <<inCollection, due, complete, watched, announced, reason, recorded>>
      /\ watchFaults' = watchFaults + 1
  BY DEF ScanGameFails, WatchCrash
<1>3. watchFaults' \in Nat /\ watchFaults' # 0
  BY <1>2, ExpansionFacts
<1>4. linkScan' \in LinkScans /\ linkScan'.pc \in {"asleep", "next"}
  <2>1. CASE ScanGameFails
    <3>1. linkScan' = [scan EXCEPT !.pc = "next"]
      BY <1>1, <2>1 DEF ScanGameFails
    <3> QED
      BY <3>1 DEF LinkScans
  <2>2. CASE WatchCrash
    BY <2>2, ExpansionFacts DEF WatchCrash
  <2> QED
    BY <2>1, <2>2
<1>5. LinkScanFits'
  BY <1>3, <1>4 DEF LinkScanFits
<1> QED
  BY <1>2, <1>3, <1>5, ExpansionFacts, ExpansionKept

LEMMA WatchUserKeeps ==
  ASSUME ExpansionIInv,
         \/ \E item \in BaseGame \cup Expansion : ChangeOwned(item)
         \/ \E g \in BaseGame : CheckComes(g)
         \/ UNCHANGED expansionVars
  PROVE  ExpansionIInv'
<1>1. /\ UNCHANGED <<complete, watched, announced, linkScan, reason, recorded, watchFaults>>
      /\ inCollection' \subseteq BaseGame \cup Expansion /\ due' \subseteq BaseGame
  BY ExpansionFacts DEF ChangeOwned, CheckComes, expansionVars
<1>2. LinkScanFits'
  BY <1>1 DEF ExpansionIInv, LinkScanFits
<1> QED
  BY <1>1, <1>2, ExpansionFacts, ExpansionKept

LEMMA MarkExpansionKeeps ==
  ASSUME ExpansionIInv, NEW g \in BaseGame, NEW x \in Expansion, NEW state \in {"unread", "read"},
         MarkExpansion(g, x, state)
  PROVE  ExpansionIInv'
<1>1. /\ announced[g][x] # "none" /\ announced' = [announced EXCEPT ![g][x] = state]
      /\ UNCHANGED <<inCollection, due, complete, watched, linkScan, reason, recorded, watchFaults>>
  BY DEF MarkExpansion
<1>2. PICK row : row = [announced[g] EXCEPT ![x] = state]
  OBVIOUS
<1>3. announced[g] \in [Expansion -> {"none", "unread", "read"}]
  BY ExpansionFacts
<1>4. /\ row \in [Expansion -> {"none", "unread", "read"}]
      /\ \A y \in Expansion : row[y] = "none" <=> announced[g][y] = "none"
  BY <1>1, <1>2, <1>3
<1>5. announced' = [announced EXCEPT ![g] = row]
  BY <1>1, <1>2
<1>6. /\ announced' \in [BaseGame -> [Expansion -> {"none", "unread", "read"}]]
      /\ \A h \in BaseGame, y \in Expansion : announced'[h][y] = "none" <=> announced[h][y] = "none"
  BY <1>4, <1>5, ExpansionFacts
<1>7. ExpansionTypeOK'
  BY <1>1, <1>6 DEF ExpansionIInv, ExpansionTypeOK
<1>8. LinkScanFits' /\ RowsFit'
  BY <1>1 DEF ExpansionIInv, LinkScanFits, RowsFit
<1>9. ExpansionsAnnounced'
  BY <1>1, <1>6 DEF ExpansionIInv, ExpansionsAnnounced
<1> QED
  BY <1>1, <1>7, <1>8, <1>9, ExpansionFacts DEF ExpansionIInv

LEMMA ExpansionKeeps == ExpansionIInv /\ [ExpansionNext]_expansionVars => ExpansionIInv'
BY ScanStepKeeps, ReadKnownKeeps, WatchLinksKeeps, NotifyExpansionKeeps, RecordScanKeeps, WatchFaultKeeps,
   WatchUserKeeps, MarkExpansionKeeps DEF ExpansionNext

-----------------------------------------------------------------------------
(* Both producers *)

LEMMA FeedSame == FeedIInv /\ UNCHANGED feedVars => FeedIInv'
BY FeedKeeps

LEMMA ExpansionSame == ExpansionIInv /\ UNCHANGED expansionVars => ExpansionIInv'
BY ExpansionKeeps

\* However the worker's scans, the page's scans and users overlap, a campaign or an
\* expansion first seen after the baseline has its notification or is about to get
\* it, unless a fault fell between the two transactions, and nothing else is
\* notified about (NoticeProducers!NewsAnnounced).
THEOREM NewsIsAnnounced == ProducersSpec => []NewsAnnounced
<1> DEFINE Inv == FeedIInv /\ ExpansionIInv
<1>1. ProducersInit => Inv
  BY InitFeed, InitExpansion DEF ProducersInit
<1>2. Inv /\ [ProducersNext]_<<feedVars, expansionVars>> => Inv'
  BY FeedKeeps, ExpansionKeeps, FeedSame, ExpansionSame DEF ProducersNext
<1>3. Inv => NewsAnnounced
  BY DEF NewsAnnounced, FeedIInv, ExpansionIInv
<1> QED
  BY <1>1, <1>2, <1>3, PTL DEF ProducersSpec

-----------------------------------------------------------------------------
(* The important expansions, the tutorial videos and the Italian titles *)

\* An answer is computed from candidates without minor ones and their owners.
Detail == [Linkable -> Owners \cup {Unknown, OtherType}]

\* A relevant link is a candidate unless it is of another type or too far down.
Looked(links, candidates, detail) ==
  /\ \A x \in candidates : detail[x] # OtherType
  /\ \A i \in DOMAIN links :
       \/ links[i] \in Minors \cup candidates
       \/ detail[links[i]] = OtherType
       \/ Cardinality(Preceding(links, i)) >= MaxListed

ListingIInv ==
  /\ linked \subseteq Listings
  /\ \/ screen = NoScreen
     \/ \E links \in Listings \cup {<<>>},
           candidates \in SUBSET (Linkable \ Minors), detail \in Detail :
          /\ Looked(links, candidates, detail)
          /\ screen = [links |-> links, candidates |-> candidates, owners |-> detail,
                       shown |-> Important(candidates, detail)]

\* What a thread knows while it searches the videos of a game: at most one
\* official one and one of the community in each language.
Discovery ==
  [pc : {"resting", "next", "it", "en", "storing", "recording"}, rows : Seq(TutorialGame),
   game : TutorialGame \cup {0}, chosen : SUBSET Pickings]

OnePerKind(chosen) ==
  \A a, b \in chosen : a.language = b.language /\ a.video.official = b.video.official => a = b

DiscoverySound(t, s) ==
  /\ s \in Discovery /\ OnePerKind(s.chosen)
  /\ s.pc \in {"it", "en", "storing", "recording"} => s.game \in TutorialGame
  /\ s.pc = "it" => s.chosen = {}
  /\ s.pc = "en" => \A c \in s.chosen : c.language = "it"
  /\ s.pc \in {"next", "recording"} => t = VideoWorker

\* A game the worker is about to search was answered a refresh ago, or never.
Searchable(g) == answered[g] # NoAttempt => videoClock - answered[g] >= VideoRefresh

BatchSearchable(s) ==
  /\ \A i, j \in DOMAIN s.rows : i # j => s.rows[i] # s.rows[j]
  /\ \A i \in DOMAIN s.rows :
       /\ Searchable(s.rows[i])
       /\ s.pc \in {"it", "en", "storing", "recording"} => s.rows[i] # s.game
  /\ s.pc \in {"it", "en"} => Searchable(s.game)

OneDiscovery(videos) ==
  \A a, b \in videos :
    /\ a.at = b.at
    /\ a # b => a.video.id # b.video.id /\ ~(a.language = b.language /\ a.video.official = b.video.official)

VideoIInv ==
  /\ videoClock \in Nat
  /\ offered \in [TutorialGame -> SUBSET Video]
  /\ attempted \in [TutorialGame -> Nat \cup {NoAttempt}]
  /\ answered \in [TutorialGame -> Nat \cup {NoAttempt}]
  /\ DOMAIN tutorials = TutorialGame
  /\ DOMAIN finding = Finder /\ \A t \in Finder : DiscoverySound(t, finding[t])
  /\ \A g \in TutorialGame :
       /\ OneDiscovery(tutorials[g])
       /\ attempted[g] <= videoClock /\ answered[g] <= videoClock
       /\ \/ answered[g] <= attempted[g]
          \/ finding[VideoWorker].pc = "recording" /\ finding[VideoWorker].game = g
  /\ BatchSearchable(finding[VideoWorker])

\* A game is not checked again before its retry is due.
Waited(g) == titleClock - lastAsked[g] >= RetryDays

TitleTask ==
  [pc : {"idling", "next", "asking", "answered", "storing"}, rows : Seq(TitledGame),
   game : TitledGame \cup {0}, versions : [EditionTitle -> Nat], title : EditionTitle \cup {NoTitle}]

TitleTaskSound(s) ==
  /\ s \in TitleTask
  /\ s.pc \in {"asking", "answered", "storing"} => s.game \in TitledGame
  /\ s.pc = "asking" => Waited(s.game)
  /\ \A i, j \in DOMAIN s.rows : i # j => s.rows[i] # s.rows[j]
  /\ \A i \in DOMAIN s.rows :
       /\ Waited(s.rows[i])
       /\ s.pc \in {"asking", "answered", "storing"} => s.rows[i] # s.game

TitleIInv ==
  /\ titleClock \in Nat /\ HasRow \subseteq TitledGame
  /\ editions \in [TitledGame -> [EditionTitle -> Nat]]
  /\ italian \in [TitledGame -> [title : EditionTitle \cup {NoTitle}, next : Nat, rule : 0..TitleRule]]
  /\ lastChosen \in [TitledGame -> EditionTitle \cup {NoTitle}]
  /\ lastAsked \in [TitledGame -> Int]
  /\ \A g \in TitledGame :
       /\ italian[g].title = lastChosen[g]
       /\ lastAsked[g] + RetryDays <= italian[g].next
       /\ italian[g].rule < TitleRule => lastAsked[g] = -RetryDays
  /\ TitleTaskSound(titleScan)

\* Of finitely many numbers one is the greatest.
LEMMA Greatest ==
  ASSUME NEW S, IsFiniteSet(S), S # {}, NEW f, \A x \in S : f[x] \in Int
  PROVE  \E m \in S : \A y \in S : f[m] >= f[y]
<1> DEFINE Bad(A) == A # {} /\ ~\E m \in A : \A y \in A : f[m] >= f[y]
           T == {k \in Nat : \E A \in SUBSET S : Cardinality(A) = k /\ Bad(A)}
<1>1. SUFFICES ASSUME T # {} PROVE FALSE
  <2>1. Cardinality(S) \in Nat
    BY FS_CardinalityType
  <2> QED
    BY <2>1
<1>2. PICK k \in T : \A l \in T : k <= l
  <2> HIDE DEF T
  <2>1. T \subseteq Nat
    BY DEF T
  <2> QED
    BY <1>1, <2>1, MinIn
<1>3. PICK A \in SUBSET S : Cardinality(A) = k /\ Bad(A)
  OBVIOUS
<1>4. PICK a \in A : TRUE
  BY <1>3
<1>5. /\ IsFiniteSet(A) /\ IsFiniteSet(A \ {a})
      /\ Cardinality(A \ {a}) = k - 1 /\ Cardinality(A \ {a}) \in Nat
  BY <1>3, <1>4, FS_Subset, FS_RemoveElement, FS_CardinalityType
<1>6. ~Bad(A \ {a})
  <2>1. k - 1 \notin T
    BY <1>2
  <2> QED
    BY <1>5, <2>1
<1>7. CASE A = {a}
  BY <1>3, <1>7
<1>8. CASE A # {a}
  <2>1. PICK m \in A \ {a} : \A y \in A \ {a} : f[m] >= f[y]
    BY <1>4, <1>6, <1>8
  <2>2. f[m] \in Int /\ f[a] \in Int /\ \A y \in A : f[y] \in Int
    BY <1>4, <2>1
  <2>3. CASE f[m] >= f[a]
    BY <1>3, <2>1, <2>3
  <2>4. CASE ~(f[m] >= f[a])
    <3>1. \A y \in A : f[a] >= f[y]
      BY <2>1, <2>2, <2>4
    <3> QED
      BY <1>3, <1>4, <3>1
  <2> QED
    BY <2>3, <2>4
<1> QED
  BY <1>7, <1>8

\* Foremost takes as many as it is asked for, and the greatest.
LEMMA ForemostIn ==
  ASSUME NEW S, IsFiniteSet(S), NEW f, \A x \in S : f[x] \in Int, NEW n \in Nat
  PROVE  /\ Foremost(S, f, n) \subseteq S
         /\ Cardinality(Foremost(S, f, n)) = Smaller(Cardinality(S), n)
         /\ \A x \in Foremost(S, f, n), y \in S \ Foremost(S, f, n) : f[x] >= f[y]
<1> DEFINE Top(A, k) == Cardinality(A) = k /\ \A x \in A, y \in S \ A : f[x] >= f[y]
           T == {k \in Nat : k <= Cardinality(S) /\ ~\E A \in SUBSET S : Top(A, k)}
<1>0. Cardinality(S) \in Nat
  BY FS_CardinalityType
<1>1. T = {}
  <2> SUFFICES ASSUME T # {} PROVE FALSE
    OBVIOUS
  <2>1. PICK k \in T : \A l \in T : k <= l
    <3> HIDE DEF T
    <3>1. T \subseteq Nat
      BY DEF T
    <3> QED
      BY <3>1, MinIn
  <2>2. k # 0
    <3>1. Top({}, 0)
      BY FS_EmptySet
    <3> QED
      BY <3>1
  <2>3. k - 1 \in Nat /\ k - 1 <= Cardinality(S) /\ k - 1 \notin T
    BY <1>0, <2>1, <2>2
  <2>4. PICK A \in SUBSET S : Top(A, k - 1)
    BY <2>3
  <2>5. IsFiniteSet(A) /\ IsFiniteSet(S \ A) /\ S \ A # {}
    <3>1. IsFiniteSet(A) /\ IsFiniteSet(S \ A)
      BY FS_Subset
    <3>2. A # S
      BY <1>0, <2>1, <2>4
    <3> QED
      BY <3>1, <3>2
  <2>6. PICK m \in S \ A : \A y \in S \ A : f[m] >= f[y]
    BY <2>5, Greatest
  <2>7. Cardinality(A \cup {m}) = k
    <3>1. Cardinality(A) = k - 1 /\ m \notin A /\ k \in Nat
      BY <2>1, <2>4, <2>6
    <3>2. Cardinality(A \cup {m}) = Cardinality(A) + 1
      BY <2>5, <3>1, FS_AddElement
    <3> QED
      BY <3>1, <3>2
  <2>8. \A x \in A \cup {m}, y \in S \ (A \cup {m}) : f[x] >= f[y]
    BY <2>4, <2>6
  <2>9. Top(A \cup {m}, k) /\ A \cup {m} \in SUBSET S
    BY <2>6, <2>7, <2>8
  <2> QED
    BY <2>9
<1>2. Smaller(Cardinality(S), n) \in Nat /\ Smaller(Cardinality(S), n) <= Cardinality(S)
  BY <1>0 DEF Smaller
<1>3. \E A \in SUBSET S : Top(A, Smaller(Cardinality(S), n))
  BY <1>1, <1>2
<1> HIDE DEF T
<1>4. \E A \in SUBSET S :
         /\ Cardinality(A) = IF Cardinality(S) < n THEN Cardinality(S) ELSE n
         /\ \A x \in A, y \in S \ A : f[x] >= f[y]
  BY <1>3 DEF Smaller
<1> QED
  BY <1>4 DEF Foremost, Smaller

\* Whatever numbers BGG reports, the list holds what ImportantShown says of it.
LEMMA ImportantHolds ==
  ASSUME NEW links, NEW C \in SUBSET (Linkable \ Minors), NEW f \in Detail, Looked(links, C, f),
         screen = [links |-> links, candidates |-> C, owners |-> f, shown |-> Important(C, f)]
  PROVE  ImportantShown
<1> DEFINE K == Known(C, f)
           above == {x \in K : f[x] >= Cutoff(K, f)}
           least == Smaller(2, Cardinality(K))
<1>1. IsFiniteSet(C) /\ \A x \in C : f[x] \in Int
  <2>1. IsFiniteSet(C)
    BY ListingConstants, FS_Subset
  <2>2. \A x \in Linkable : f[x] \in Owners \cup {Unknown, OtherType}
    BY DEF Detail
  <2>3. Owners \subseteq Int /\ Unknown \in Int /\ OtherType \in Int
    BY ListingConstants DEF Unknown, OtherType
  <2> QED
    BY <2>1, <2>2, <2>3
<1>2. IsFiniteSet(K) /\ K \subseteq C /\ \A x \in K : f[x] \in Nat
  <2>1. \A x \in K : f[x] \in Nat
    BY ListingConstants DEF Known, Detail, Looked
  <2>2. K \subseteq C
    BY DEF Known
  <2> QED
    BY <1>1, <2>1, <2>2, FS_Subset
<1>3. Cardinality(C) \in Nat /\ Cardinality(K) \in Nat /\ MaxShown \in Nat /\ MinSample \in Nat \ {0, 1}
  BY <1>1, <1>2, FS_CardinalityType, ListingConstants
<1>4. IsFiniteSet(above) /\ above \subseteq K /\ Cardinality(above) \in Nat
  BY <1>2, FS_Subset, FS_CardinalityType
<1>5. /\ screen.links = links
      /\ screen.candidates = C /\ screen.owners = f /\ screen.shown = Important(C, f)
  OBVIOUS
\* It is enough to say why a candidate is hidden.
<1>8. SUFFICES
        /\ Important(C, f) \subseteq C
        /\ Cardinality(Important(C, f)) >= Smaller(IF Cardinality(K) < MinSample THEN Cardinality(C) ELSE 2, MaxShown)
        /\ \A x \in C \ Important(C, f) :
             IF f[x] = Unknown
             THEN Cardinality(K) >= MinSample \/ Cardinality(Important(C, f)) = MaxShown
             ELSE \A y \in Important(C, f) : f[x] <= f[y]
  <2>1. \A i \in DOMAIN links :
          \/ links[i] \in Minors \cup C
          \/ f[links[i]] = OtherType
          \/ Cardinality(Preceding(links, i)) >= MaxListed
    BY DEF Looked
  <2> QED
    BY <1>5, <2>1 DEF ImportantShown
<1>9. \A x \in C : f[x] # Unknown => x \in K
  BY DEF Known
<1>6. CASE Cardinality(K) < MinSample
  <2>1. Important(C, f) = Foremost(C, f, MaxShown)
    BY <1>6 DEF Important
  <2>2. /\ Important(C, f) \subseteq C
        /\ Cardinality(Important(C, f)) = Smaller(Cardinality(C), MaxShown)
        /\ \A x \in Important(C, f), y \in C \ Important(C, f) : f[x] >= f[y]
    BY <1>1, <1>3, <2>1, ForemostIn
  <2>3. Smaller(Cardinality(C), MaxShown) >= Smaller(Cardinality(C), MaxShown)
    BY <1>3 DEF Smaller
  <2>4. \A x \in K \ Important(C, f), y \in Important(C, f) : f[x] <= f[y]
    BY <1>1, <1>2, <2>2
  <2>5. ASSUME NEW x \in C \ Important(C, f) PROVE Cardinality(Important(C, f)) = MaxShown
    <3>1. Cardinality(Important(C, f)) # Cardinality(C)
      BY <1>1, <2>2, <2>5, FS_Subset
    <3> QED
      BY <1>3, <2>2, <3>1 DEF Smaller
  <2> QED
    BY <1>6, <1>9, <2>2, <2>3, <2>4, <2>5
<1>7. CASE ~(Cardinality(K) < MinSample)
  <2>1. Cardinality(K) >= 2 /\ least = 2 /\ K # {}
    BY <1>3, <1>7, FS_EmptySet DEF Smaller
  <2>2. SUFFICES /\ Important(C, f) \subseteq K
                 /\ Cardinality(Important(C, f)) >= Smaller(2, MaxShown)
                 /\ \A x \in K \ Important(C, f), y \in Important(C, f) : f[x] <= f[y]
    BY <1>2, <1>3, <1>7, <1>9
  <2>3. CASE Cardinality(above) < least
    <3> DEFINE first == Foremost(K, f, least)
    <3>1. /\ first \subseteq K /\ Cardinality(first) = 2
          /\ \A x \in first, y \in K \ first : f[x] >= f[y]
      <4>1. Smaller(Cardinality(K), 2) = 2
        BY <1>3, <2>1 DEF Smaller
      <4>2. \A x \in K : f[x] \in Int
        BY <1>2
      <4> QED
        BY <1>2, <2>1, <4>1, <4>2, ForemostIn
    <3>2. Important(C, f) = Foremost(first, f, MaxShown)
      BY <1>7, <2>3 DEF Important
    <3>3. IsFiniteSet(first) /\ \A x \in first : f[x] \in Int
      BY <1>2, <3>1, FS_Subset
    <3> HIDE DEF first
    <3>4. /\ Important(C, f) \subseteq first
          /\ Cardinality(Important(C, f)) = Smaller(2, MaxShown)
          /\ \A x \in Important(C, f), y \in first \ Important(C, f) : f[x] >= f[y]
      BY <1>3, <3>1, <3>2, <3>3, ForemostIn
    <3>5. Smaller(2, MaxShown) >= Smaller(2, MaxShown)
      BY <1>3 DEF Smaller
    <3>6. \A x \in K \ Important(C, f), y \in Important(C, f) : f[x] <= f[y]
      BY <1>2, <3>1, <3>4
    <3> QED
      BY <3>1, <3>4, <3>5, <3>6
  <2>4. CASE ~(Cardinality(above) < least)
    <3>1. Important(C, f) = Foremost(above, f, MaxShown)
      BY <1>7, <2>4 DEF Important
    <3>2. \A x \in above : f[x] \in Int
      BY <1>2, <1>4
    <3>3. Cutoff(K, f) \in Int
      <4>1. PICK m \in K : \A y \in K : f[m] >= f[y]
        BY <1>2, <2>1, Greatest
      <4>2. \E big \in {f[x] : x \in K} : \A y \in {f[x] : x \in K} : big >= y
        BY <4>1
      <4>3. Max({f[x] : x \in K}) \in {f[x] : x \in K}
        BY <4>2 DEF Max
      <4>4. Max({f[x] : x \in K}) \in Nat
        BY <1>2, <4>3
      <4>5. (Max({f[x] : x \in K}) + 3) \div 4 \in Int /\ MinOwners \in Int
        BY <4>4, ListingConstants
      <4> QED
        BY <4>5 DEF Cutoff, Larger
    <3>4. \A x \in K \ above, y \in above : f[x] <= f[y]
      BY <1>2, <3>3
    <3> HIDE DEF above
    <3>5. /\ Important(C, f) \subseteq above
          /\ Cardinality(Important(C, f)) = Smaller(Cardinality(above), MaxShown)
          /\ \A x \in Important(C, f), y \in above \ Important(C, f) : f[x] >= f[y]
      BY <1>3, <1>4, <3>1, <3>2, ForemostIn
    <3>6. Smaller(Cardinality(above), MaxShown) >= Smaller(2, MaxShown)
      BY <1>3, <1>4, <2>1, <2>4 DEF Smaller
    <3>7. \A x \in K \ Important(C, f), y \in Important(C, f) : f[x] <= f[y]
      BY <1>2, <1>4, <3>4, <3>5
    <3> QED
      BY <1>4, <3>5, <3>6, <3>7
  <2> QED
    BY <2>3, <2>4
<1> QED
  BY <1>6, <1>7

LEMMA InvListing == ListingIInv => ImportantShown
<1> SUFFICES ASSUME ListingIInv PROVE ImportantShown
  OBVIOUS
<1>1. CASE screen = NoScreen
  <2>1. Known(screen.candidates, screen.owners) = {} /\ screen.candidates = {} /\ screen.shown = {}
    BY <1>1 DEF NoScreen, Known
  <2>4. DOMAIN screen.links = {}
    BY <1>1 DEF NoScreen
  <2>2. Cardinality({}) = 0
    BY FS_EmptySet
  <2>3. 0 < MinSample /\ 0 >= Smaller(0, MaxShown)
    BY ListingConstants DEF Smaller
  <2> QED
    BY <2>1, <2>2, <2>3, <2>4 DEF ImportantShown
<1>2. CASE screen # NoScreen
  BY <1>2, ImportantHolds DEF ListingIInv
<1> QED
  BY <1>1, <1>2

LEMMA InitListing == ListingInit => ListingIInv
BY DEF ListingInit, ListingIInv

LEMMA ListingKeeps == ListingIInv /\ [ListingNext]_listingVars => ListingIInv'
<1> SUFFICES ASSUME ListingIInv, [ListingNext]_listingVars PROVE ListingIInv'
  OBVIOUS
<1>1. ASSUME NEW links \in Listings, RefreshLinks(links) PROVE ListingIInv'
  BY <1>1 DEF RefreshLinks, ListingIInv
<1>2. CASE ListForGame
  <2> DEFINE Of(l, d) == [x \in Linkable |-> IF x \in Listed(l) THEN d[x] ELSE Unknown]
             Left(l, d) == {x \in Listed(l) : d[x] # OtherType}
             OnScreen(l, d) ==
               screen' = [links |-> l, candidates |-> Left(l, d), owners |-> Of(l, d),
                          shown |-> Important(Left(l, d), Of(l, d))]
  <2>1. PICK links \in IF linked = {} THEN {<<>>} ELSE linked :
          \E detail \in [Listed(links) -> Owners \cup {Unknown, OtherType}] : OnScreen(links, detail)
    BY <1>2 DEF ListForGame
  <2>2. PICK detail \in [Listed(links) -> Owners \cup {Unknown, OtherType}] : OnScreen(links, detail)
    BY <2>1
  <2> DEFINE C == Left(links, detail)
             f == Of(links, detail)
  <2>3. links \in Listings \cup {<<>>} /\ \A i \in DOMAIN links : links[i] \in Linkable
    BY <2>1 DEF ListingIInv, Listings
  <2>4. Listed(links) \subseteq Linkable \ Minors
    BY <2>3 DEF Listed
  <2>5. C \in SUBSET (Linkable \ Minors)
    BY <2>4
  <2>6. f \in Detail
    BY DEF Detail
  <2>7. \A x \in Listed(links) : f[x] = detail[x]
    BY <2>4
  <2>8. ASSUME NEW i \in DOMAIN links, links[i] \notin Minors,
               ~(Cardinality(Preceding(links, i)) >= MaxListed)
        PROVE  links[i] \in Listed(links)
    <3>2. i \in Int
      BY <2>3 DEF Listings
    <3>3. IsFiniteSet(Preceding(links, i))
      BY <3>2, FS_Interval, FS_Subset DEF Preceding
    <3>4. Cardinality(Preceding(links, i)) < MaxListed
      BY <2>8, <3>3, FS_CardinalityType, ListingConstants
    <3> QED
      BY <2>8, <3>4 DEF Listed
  <2> HIDE DEF C, f
  <2>9. \A x \in Listed(links) : x \in C \/ detail[x] = OtherType
    BY DEF C
  <2>10. Looked(links, C, f)
    <3>1. \A x \in C : f[x] # OtherType
      BY <2>7 DEF C
    <3>2. ASSUME NEW i \in DOMAIN links
          PROVE  \/ links[i] \in Minors \cup C
                 \/ f[links[i]] = OtherType
                 \/ Cardinality(Preceding(links, i)) >= MaxListed
      BY <2>7, <2>8, <2>9
    <3> QED
      BY <3>1, <3>2 DEF Looked
  <2>11. /\ screen' = [links |-> links, candidates |-> C, owners |-> f, shown |-> Important(C, f)]
         /\ linked' = linked
    BY <1>2, <2>2 DEF ListForGame, C, f
  <2> QED
    BY <2>3, <2>5, <2>6, <2>10, <2>11 DEF ListingIInv
<1>3. CASE Respond
  BY <1>3 DEF Respond, ListingIInv
<1>4. CASE UNCHANGED listingVars
  BY <1>4 DEF listingVars, ListingIInv
<1> QED
  BY <1>1, <1>2, <1>3, <1>4 DEF ListingNext

LEMMA InvTitles == TitleIInv => TitlesKept
BY DEF TitleIInv, TitlesKept, TitleTaskSound, Waited

LEMMA TitleDays ==
  /\ RecheckDays \in Nat /\ RetryDays \in Nat /\ OversizeDays \in Nat
  /\ RetryDays <= RecheckDays /\ RetryDays <= OversizeDays
  /\ TitledGame \subseteq Nat \ {0} /\ MaxTitleClock \in Nat /\ TitleBatch \in Nat
BY TitleAssumption

LEMMA IdlingSound == TitleTaskSound(Idling)
<1>1. Idling \in TitleTask
  BY DEF Idling, TitleTask
<1> QED
  BY <1>1 DEF TitleTaskSound, Idling

LEMMA InitTitles == TitleInit => TitleIInv
<1> SUFFICES ASSUME TitleInit PROVE TitleIInv
  OBVIOUS
<1>1. PICK old \in {NoTitle} \cup EditionTitle :
        italian = [g \in TitledGame |-> IF g \in OwnedTitled /\ old # NoTitle
                                        THEN [title |-> old, next |-> MaxTitleClock, rule |-> TitleRule - 1]
                                        ELSE Unchecked]
  BY DEF TitleInit
<1>2. ASSUME NEW g \in TitledGame
      PROVE  /\ italian[g] \in [title : EditionTitle \cup {NoTitle}, next : Nat, rule : 0..TitleRule]
             /\ italian[g].title = lastChosen[g] /\ lastAsked[g] = -RetryDays
             /\ lastAsked[g] + RetryDays <= italian[g].next
  <2>1. /\ lastChosen[g] = italian[g].title /\ lastAsked[g] = -RetryDays
    BY DEF TitleInit
  <2>2. italian[g] \in [title : EditionTitle \cup {NoTitle}, next : Nat, rule : 0..TitleRule]
    BY <1>1, TitleDays DEF Unchecked, TitleRule
  <2> QED
    BY <2>1, <2>2, TitleDays
<1>3. italian \in [TitledGame -> [title : EditionTitle \cup {NoTitle}, next : Nat, rule : 0..TitleRule]]
  BY <1>1, <1>2
<1>4. /\ lastChosen \in [TitledGame -> EditionTitle \cup {NoTitle}]
      /\ lastAsked \in [TitledGame -> Int]
  <2>1. -RetryDays \in Int
    BY TitleDays
  <2> QED
    BY <1>3, <2>1 DEF TitleInit
<1>5. titleClock \in Nat /\ HasRow \subseteq TitledGame /\ editions \in [TitledGame -> [EditionTitle -> Nat]]
  <2>1. HasRow = OwnedTitled
    BY DEF TitleInit, HasRow
  <2>2. OwnedTitled \subseteq TitledGame
    BY TitleAssumption
  <2>3. titleClock = 0 /\ editions \in [TitledGame -> [EditionTitle -> 0..1]]
    BY DEF TitleInit
  <2> QED
    BY <2>1, <2>2, <2>3
<1>6. TitleTaskSound(titleScan)
  BY IdlingSound DEF TitleInit
<1> QED
  BY <1>2, <1>3, <1>4, <1>5, <1>6 DEF TitleIInv

\* A step of the worker that stores nothing.
LEMMA TitleScanMoves ==
  ASSUME TitleIInv, NEW s, TitleTaskSound(s), titleScan' = s,
         UNCHANGED <<titleClock, editions, alternates, italian, lastChosen, lastAsked>>
  PROVE  TitleIInv'
<1>1. \A g : Waited(g)' = Waited(g)
  BY DEF Waited
<1>2. TitleTaskSound(titleScan)'
  BY <1>1 DEF TitleTaskSound
<1> QED
  BY <1>2 DEF TitleIInv, HasRow

\* The rows of a batch are different games.
LEMMA CheckedInOrder ==
  ASSUME TitleIInv, NEW a \in TitledGame
  PROVE  ~CheckedBefore(a, a)
<1>1. italian[a].next \in Nat /\ a \in Nat
  BY TitleDays DEF TitleIInv
<1> QED
  BY <1>1 DEF CheckedBefore

LEMMA SelectTitlesKeeps == ASSUME TitleIInv, SelectTitles PROVE TitleIInv'
<1> DEFINE waiting == {g \in HasRow : italian[g].next <= titleClock \/ Outdated(g)}
<1>1. UNCHANGED <<titleClock, editions, alternates, italian, lastChosen, lastAsked>>
  BY DEF SelectTitles
<1>2. PICK n \in 1..TitleBatch :
        \E rows \in [1..n -> waiting] :
          /\ \A i, j \in 1..n : i < j => CheckedBefore(rows[i], rows[j])
          /\ titleScan' = [Idling EXCEPT !.pc = "next", !.rows = rows]
  BY Zenon DEF SelectTitles
<1>3. PICK rows \in [1..n -> waiting] :
        /\ \A i, j \in 1..n : i < j => CheckedBefore(rows[i], rows[j])
        /\ titleScan' = [Idling EXCEPT !.pc = "next", !.rows = rows]
  BY <1>2, Zenon
<1>4. n \in Nat /\ DOMAIN rows = 1..n
  BY TitleDays
<1>5. ASSUME NEW i \in 1..n PROVE rows[i] \in TitledGame /\ Waited(rows[i])
  <2>1. rows[i] \in waiting
    OBVIOUS
  <2>2. PICK g \in TitledGame : g = rows[i] /\ (italian[g].next <= titleClock \/ Outdated(g))
    BY <2>1 DEF TitleIInv
  <2>3. /\ italian[g] \in [title : EditionTitle \cup {NoTitle}, next : Nat, rule : 0..TitleRule]
        /\ lastAsked[g] \in Int /\ titleClock \in Nat
        /\ lastAsked[g] + RetryDays <= italian[g].next
        /\ italian[g].rule < TitleRule => lastAsked[g] = -RetryDays
    BY DEF TitleIInv
  <2>4. CASE italian[g].next <= titleClock
    BY <2>2, <2>3, <2>4, TitleDays DEF Waited
  <2>5. CASE Outdated(g)
    BY <2>2, <2>3, <2>5, TitleDays DEF Waited, Outdated
  <2> QED
    BY <2>2, <2>4, <2>5
<1>6. \A i, j \in 1..n : i # j => rows[i] # rows[j]
  <2>1. ASSUME NEW i \in 1..n, NEW j \in 1..n, i < j PROVE rows[i] # rows[j]
    BY <1>3, <1>5, <2>1, CheckedInOrder
  <2>2. ASSUME NEW i \in 1..n, NEW j \in 1..n, i # j PROVE rows[i] # rows[j]
    <3>1. i < j \/ j < i
      BY <1>4, <2>2
    <3> QED
      BY <2>1, <3>1
  <2> QED
    BY <2>2
<1> DEFINE s == [Idling EXCEPT !.pc = "next", !.rows = rows]
<1>7. rows \in Seq(TitledGame)
  BY <1>4, <1>5
<1>8. s \in TitleTask /\ s.pc = "next" /\ s.rows = rows
  BY <1>7, IdlingSound DEF TitleTaskSound, TitleTask
<1>9. TitleTaskSound(s)
  <2> HIDE DEF s
  <2> QED
    BY <1>4, <1>5, <1>6, <1>8 DEF TitleTaskSound
<1> HIDE DEF s
<1> QED
  BY <1>1, <1>3, <1>9, TitleScanMoves DEF s

LEMMA NextCheckKeeps == ASSUME TitleIInv, NextCheck PROVE TitleIInv'
<1>1. UNCHANGED <<titleClock, editions, alternates, italian, lastChosen, lastAsked>>
  BY DEF NextCheck
<1>2. TitleTaskSound(titleScan) /\ titleScan \in TitleTask
  BY DEF TitleIInv, TitleTaskSound
<1>3. CASE titleScan.rows = <<>>
  <2>1. titleScan' = Idling
    BY <1>3 DEF NextCheck
  <2> QED
    BY <1>1, <2>1, IdlingSound, TitleScanMoves
<1>4. CASE titleScan.rows # <<>>
  <2> DEFINE s == [Idling EXCEPT !.pc = "asking", !.game = Head(titleScan.rows), !.rows = Tail(titleScan.rows)]
  <2>1. titleScan' = s
    BY <1>4 DEF NextCheck
  <2>2. PICK rows \in Seq(TitledGame) : rows = titleScan.rows /\ rows # <<>>
    BY <1>2, <1>4 DEF TitleTask
  <2>3. /\ \A i, j \in DOMAIN rows : i # j => rows[i] # rows[j]
        /\ \A i \in DOMAIN rows : Waited(rows[i])
    BY <1>2, <2>2 DEF TitleTaskSound
  <2>4. /\ Head(rows) = rows[1] /\ 1 \in DOMAIN rows /\ rows[1] \in TitledGame
        /\ Tail(rows) \in Seq(TitledGame)
        /\ \A i \in DOMAIN Tail(rows) : i + 1 \in DOMAIN rows /\ Tail(rows)[i] = rows[i + 1] /\ i + 1 # 1
        /\ DOMAIN Tail(rows) \subseteq Nat
    BY <2>2
  <2>5. s \in TitleTask /\ s.pc = "asking" /\ s.game = rows[1] /\ s.rows = Tail(rows)
    BY <2>2, <2>4, IdlingSound DEF TitleTaskSound, TitleTask
  <2>6. \A i, j \in DOMAIN Tail(rows) : i # j => Tail(rows)[i] # Tail(rows)[j]
    <3>1. ASSUME NEW i \in DOMAIN Tail(rows), NEW j \in DOMAIN Tail(rows), i # j
          PROVE  Tail(rows)[i] # Tail(rows)[j]
      <4>1. i + 1 # j + 1
        BY <2>4, <3>1
      <4> QED
        BY <2>3, <2>4, <4>1
    <3> QED
      BY <3>1
  <2> HIDE DEF s
  <2>7. TitleTaskSound(s)
    BY <2>3, <2>4, <2>5, <2>6 DEF TitleTaskSound
  <2> QED
    BY <1>1, <2>1, <2>7, TitleScanMoves
<1> QED
  BY <1>3, <1>4

LEMMA AnswerTitleKeeps == ASSUME TitleIInv, FetchVersions \/ ChooseTitle PROVE TitleIInv'
<1>1. UNCHANGED <<titleClock, editions, alternates, italian, lastChosen, lastAsked>>
  BY DEF FetchVersions, ChooseTitle
<1>2. TitleTaskSound(titleScan) /\ titleScan \in TitleTask
  BY DEF TitleIInv, TitleTaskSound
<1>3. ASSUME NEW s \in TitleTask, s.rows = titleScan.rows, s.game = titleScan.game,
             titleScan.pc \in {"asking", "answered"}, s.pc \in {"answered", "storing"}
      PROVE  TitleTaskSound(s)
  BY <1>2, <1>3 DEF TitleTaskSound
<1>4. CASE FetchVersions
  <2> DEFINE s == [titleScan EXCEPT !.pc = "answered", !.versions = editions[titleScan.game]]
  <2>1. titleScan' = s /\ titleScan.pc = "asking"
    BY <1>4 DEF FetchVersions
  <2>2. editions[titleScan.game] \in [EditionTitle -> Nat]
    BY <1>2, <2>1 DEF TitleTaskSound, TitleIInv
  <2>3. s \in TitleTask /\ s.rows = titleScan.rows /\ s.game = titleScan.game /\ s.pc = "answered"
    BY <1>2, <2>2 DEF TitleTask
  <2> HIDE DEF s
  <2> QED
    BY <1>1, <1>3, <2>1, <2>3, TitleScanMoves
<1>5. CASE ChooseTitle
  <2>1. PICK t \in TitleChoices(titleScan.versions, alternates[titleScan.game]) :
          titleScan' = [titleScan EXCEPT !.pc = "storing", !.title = t]
    BY <1>5 DEF ChooseTitle
  <2>2. t \in EditionTitle \cup {NoTitle}
    BY <2>1 DEF TitleChoices
  <2> DEFINE s == [titleScan EXCEPT !.pc = "storing", !.title = t]
  <2>3. s \in TitleTask /\ s.rows = titleScan.rows /\ s.game = titleScan.game /\ s.pc = "storing"
    BY <1>2, <2>2 DEF TitleTask
  <2>4. titleScan.pc = "answered"
    BY <1>5 DEF ChooseTitle
  <2> HIDE DEF s
  <2> QED
    BY <1>1, <1>3, <2>1, <2>3, <2>4, TitleScanMoves DEF s
<1> QED
  BY <1>4, <1>5

\* An outcome is stored for the game of the scan, which is not in the rest.
LEMMA OutcomeKeeps ==
  ASSUME TitleIInv, titleScan.pc \in {"asking", "answered", "storing"}, NEW g, g = titleScan.game,
         NEW days \in Nat, RetryDays <= days,
         NEW stored \in [title : EditionTitle \cup {NoTitle}, next : Nat, rule : 0..TitleRule],
         stored.next = titleClock + days, stored.rule = TitleRule,
         italian' = [italian EXCEPT ![g] = stored],
         lastChosen' = [lastChosen EXCEPT ![g] = stored.title],
         lastAsked' = [lastAsked EXCEPT ![g] = titleClock],
         titleScan' = [titleScan EXCEPT !.pc = "next"],
         UNCHANGED <<titleClock, editions, alternates>>
  PROVE  TitleIInv'
<1>1. TitleTaskSound(titleScan) /\ titleScan \in TitleTask /\ g \in TitledGame
  BY DEF TitleIInv, TitleTaskSound
<1>2. titleClock \in Nat /\ titleClock + days \in Nat /\ TitleRule \in 0..TitleRule
  BY DEF TitleIInv, TitleRule
<1>4. /\ italian' \in [TitledGame -> [title : EditionTitle \cup {NoTitle}, next : Nat, rule : 0..TitleRule]]
      /\ lastChosen' \in [TitledGame -> EditionTitle \cup {NoTitle}]
      /\ lastAsked' \in [TitledGame -> Int]
  BY <1>1, <1>2 DEF TitleIInv
<1>5. ASSUME NEW h \in TitledGame
      PROVE  /\ italian'[h].title = lastChosen'[h]
             /\ lastAsked'[h] + RetryDays <= italian'[h].next
             /\ italian'[h].rule < TitleRule => lastAsked'[h] = -RetryDays
  <2>1. CASE h = g
    <3>1. italian'[h] = stored /\ lastChosen'[h] = stored.title /\ lastAsked'[h] = titleClock
      BY <1>1, <2>1 DEF TitleIInv
    <3> QED
      BY <1>2, <3>1, TitleDays DEF TitleRule
  <2>2. CASE h # g
    <3>1. italian'[h] = italian[h] /\ lastChosen'[h] = lastChosen[h] /\ lastAsked'[h] = lastAsked[h]
      BY <1>1, <2>2 DEF TitleIInv
    <3> QED
      BY <3>1 DEF TitleIInv
  <2> QED
    BY <2>1, <2>2
<1>6. TitleTaskSound(titleScan)'
  <2>1. titleScan' \in TitleTask /\ titleScan'.pc = "next" /\ titleScan'.rows = titleScan.rows
    BY <1>1 DEF TitleTask
  <2>2. ASSUME NEW i \in DOMAIN titleScan.rows
        PROVE  titleClock' - lastAsked'[titleScan.rows[i]] >= RetryDays
    <3>1. titleScan.rows[i] # g /\ Waited(titleScan.rows[i])
      BY <1>1 DEF TitleTaskSound
    <3>2. lastAsked'[titleScan.rows[i]] = lastAsked[titleScan.rows[i]]
      <4>1. titleScan.rows[i] \in TitledGame
        BY <1>1 DEF TitleTask
      <4> QED
        BY <3>1, <4>1 DEF TitleIInv
    <3> QED
      BY <3>1, <3>2 DEF Waited
  <2>3. \A i, j \in DOMAIN titleScan.rows : i # j => titleScan.rows[i] # titleScan.rows[j]
    BY <1>1 DEF TitleTaskSound
  <2> QED
    BY <2>1, <2>2, <2>3 DEF TitleTaskSound, Waited
<1> QED
  BY <1>2, <1>4, <1>5, <1>6 DEF TitleIInv, HasRow

LEMMA StoreTitleKeeps == ASSUME TitleIInv, StoreTitle PROVE TitleIInv'
<1>1. titleScan.pc = "storing" /\ titleScan.title \in EditionTitle \cup {NoTitle}
  BY DEF StoreTitle, TitleIInv, TitleTaskSound, TitleTask
<1>2. /\ italian' = [italian EXCEPT ![titleScan.game] =
           [title |-> titleScan.title, next |-> titleClock + RecheckDays, rule |-> TitleRule]]
      /\ lastChosen' = [lastChosen EXCEPT ![titleScan.game] = titleScan.title]
      /\ lastAsked' = [lastAsked EXCEPT ![titleScan.game] = titleClock]
      /\ titleScan' = [titleScan EXCEPT !.pc = "next"]
      /\ UNCHANGED <<titleClock, editions, alternates>>
  BY DEF StoreTitle
<1> DEFINE stored == [title |-> titleScan.title, next |-> titleClock + RecheckDays, rule |-> TitleRule]
<1>3. /\ stored \in [title : EditionTitle \cup {NoTitle}, next : Nat, rule : 0..TitleRule]
      /\ stored.next = titleClock + RecheckDays /\ stored.rule = TitleRule
      /\ stored.title = titleScan.title
  BY <1>1, TitleDays DEF TitleIInv, TitleRule
<1>4. /\ italian' = [italian EXCEPT ![titleScan.game] = stored]
      /\ lastChosen' = [lastChosen EXCEPT ![titleScan.game] = stored.title]
  BY <1>2, <1>3
<1> HIDE DEF stored
<1> QED
  BY <1>1, <1>2, <1>3, <1>4, TitleDays, OutcomeKeeps

LEMMA CheckFailsKeeps ==
  ASSUME TitleIInv, NEW days \in {RetryDays, OversizeDays}, CheckFails(days) PROVE TitleIInv'
<1> DEFINE g == titleScan.game
<1>1. titleScan.pc = "asking" /\ g \in TitledGame
  BY DEF CheckFails, TitleIInv, TitleTaskSound
<1>2. PICK old \in [title : EditionTitle \cup {NoTitle}, next : Nat, rule : 0..TitleRule] :
        old = italian[g] /\ old.title = lastChosen[g]
  BY <1>1 DEF TitleIInv
<1> DEFINE stored == [old EXCEPT !.next = titleClock + days, !.rule = TitleRule]
<1>3. /\ stored \in [title : EditionTitle \cup {NoTitle}, next : Nat, rule : 0..TitleRule]
      /\ stored.next = titleClock + days /\ stored.rule = TitleRule /\ stored.title = old.title
  <2>1. titleClock + days \in Nat /\ TitleRule \in 0..TitleRule
    BY TitleDays DEF TitleIInv, TitleRule
  <2> QED
    BY <2>1
<1>4. /\ italian' = [italian EXCEPT ![g] = [@ EXCEPT !.next = titleClock + days, !.rule = TitleRule]]
      /\ lastAsked' = [lastAsked EXCEPT ![g] = titleClock]
      /\ titleScan' = [titleScan EXCEPT !.pc = "next"]
      /\ UNCHANGED <<titleClock, editions, alternates, lastChosen>>
  BY DEF CheckFails
<1>5. italian' = [italian EXCEPT ![g] = stored]
  BY <1>1, <1>2, <1>4 DEF TitleIInv
<1>6. lastChosen' = [lastChosen EXCEPT ![g] = stored.title]
  BY <1>1, <1>2, <1>3, <1>4 DEF TitleIInv
<1>7. days \in Nat /\ RetryDays <= days
  BY TitleDays
<1> HIDE DEF g, stored
<1> QED
  BY <1>1, <1>3, <1>4, <1>5, <1>6, <1>7, OutcomeKeeps DEF g

LEMMA TitleWorldKeeps ==
  ASSUME TitleIInv,
         \/ \E g \in TitledGame, known \in SUBSET EditionTitle : PersistMetadata(g, known)
         \/ \E g \in TitledGame, t \in EditionTitle : ReleaseEdition(g, t)
         \/ TitleTick \/ TitleCrash \/ UNCHANGED titleVars
  PROVE  TitleIInv'
<1>1. ASSUME NEW g \in TitledGame, NEW known \in SUBSET EditionTitle, PersistMetadata(g, known)
      PROVE  TitleIInv'
  <2>1. /\ UNCHANGED <<titleClock, editions, italian, titleScan, lastChosen, lastAsked>>
        /\ HasRow' = HasRow \cup {g}
    BY <1>1 DEF PersistMetadata, HasRow
  <2> QED
    BY <2>1 DEF TitleIInv, TitleTaskSound, Waited
<1>2. ASSUME NEW g \in TitledGame, NEW t \in EditionTitle, ReleaseEdition(g, t) PROVE TitleIInv'
  <2>1. /\ UNCHANGED <<titleClock, alternates, italian, titleScan, lastChosen, lastAsked>>
        /\ editions' = [editions EXCEPT ![g][t] = 2]
    BY <1>2 DEF ReleaseEdition
  <2>2. editions' \in [TitledGame -> [EditionTitle -> Nat]]
    <3>1. PICK known \in [EditionTitle -> Nat] : known = editions[g]
      BY DEF TitleIInv
    <3>2. editions' = [editions EXCEPT ![g] = [known EXCEPT ![t] = 2]]
      BY <2>1, <3>1
    <3>3. [known EXCEPT ![t] = 2] \in [EditionTitle -> Nat]
      OBVIOUS
    <3> QED
      BY <3>2, <3>3 DEF TitleIInv
  <2> QED
    BY <2>1, <2>2 DEF TitleIInv, TitleTaskSound, Waited, HasRow
<1>3. CASE TitleTick
  <2>1. /\ UNCHANGED <<editions, alternates, italian, titleScan, lastChosen, lastAsked>>
        /\ titleClock' = titleClock + 1 /\ titleClock \in Nat
    BY <1>3 DEF TitleTick, TitleIInv
  <2>2. ASSUME NEW g \in TitledGame, Waited(g) PROVE Waited(g)'
    BY <2>1, <2>2, TitleDays DEF Waited, TitleIInv
  <2>3. TitleTaskSound(titleScan)'
    <3>1. TitleTaskSound(titleScan) /\ titleScan \in TitleTask
      BY DEF TitleIInv, TitleTaskSound
    <3>2. \A i \in DOMAIN titleScan.rows : titleScan.rows[i] \in TitledGame
      BY <3>1 DEF TitleTask
    <3> QED
      BY <2>1, <2>2, <3>1, <3>2 DEF TitleTaskSound
  <2> QED
    BY <2>1, <2>3 DEF TitleIInv, HasRow
<1>4. CASE TitleCrash
  <2>1. titleScan' = Idling /\ UNCHANGED <<titleClock, editions, alternates, italian, lastChosen, lastAsked>>
    BY <1>4 DEF TitleCrash
  <2> QED
    BY <2>1, IdlingSound, TitleScanMoves
<1>5. CASE UNCHANGED titleVars
  BY <1>5 DEF titleVars, TitleIInv, TitleTaskSound, Waited, HasRow
<1> QED
  BY <1>1, <1>2, <1>3, <1>4, <1>5

LEMMA TitlesStep == TitleIInv /\ [TitleNext]_titleVars => TitleIInv'
BY SelectTitlesKeeps, NextCheckKeeps, AnswerTitleKeeps, StoreTitleKeeps, CheckFailsKeeps,
   TitleWorldKeeps DEF TitleNext

LEMMA VideoFacts ==
  /\ TutorialGame \subseteq Nat \ {0} /\ VideoWorker \notin VideoPoster /\ VideoWorker \in Finder
  /\ IsFiniteSet(Video) /\ VideoBatch \in Nat \ {0} /\ VideoRefresh \in Nat \ {0}
  /\ \A v, w \in Video : v.official \in BOOLEAN /\ (v.id = w.id => v = w)
BY TutorialAssumption DEF Finder

LEMMA InvVideos == VideoIInv => TutorialsShown
BY VideoFacts DEF VideoIInv, TutorialsShown, OneDiscovery, BatchSearchable, Searchable

LEMMA RestingSearches ==
  /\ Resting \in Discovery /\ BatchSearchable(Resting)
  /\ \A t \in Finder : DiscoverySound(t, Resting)
<1>1. Resting \in Discovery
  BY DEF Resting, Discovery
<1> QED
  BY <1>1 DEF Resting, BatchSearchable, DiscoverySound, OnePerKind

LEMMA InitVideos == VideoInit => VideoIInv
<1> SUFFICES ASSUME VideoInit PROVE VideoIInv
  OBVIOUS
<1>1. \A t \in Finder : finding[t] = Resting
  BY DEF VideoInit
<1>2. \A g \in TutorialGame : tutorials[g] = {} /\ attempted[g] = -1 /\ answered[g] = -1
  BY DEF VideoInit, NoAttempt
<1>3. /\ videoClock = 0 /\ offered \in [TutorialGame -> SUBSET Video]
      /\ attempted \in [TutorialGame -> Nat \cup {NoAttempt}]
      /\ answered \in [TutorialGame -> Nat \cup {NoAttempt}]
      /\ DOMAIN tutorials = TutorialGame /\ DOMAIN finding = Finder
  BY DEF VideoInit
<1> QED
  BY <1>1, <1>2, <1>3, RestingSearches, VideoFacts DEF VideoIInv, OneDiscovery

\* A selection has one video of each kind.
LEMMA OneSelected ==
  ASSUME NEW found \in SUBSET Video, NEW s \in Selections(found)
  PROVE  s \subseteq found /\ \A v, w \in s : v.official = w.official => v = w
<1>1. s \subseteq found
  BY DEF Selections
<1>2. ASSUME NEW v \in s, NEW w \in s, v.official = w.official PROVE v = w
  <2> DEFINE same == {x \in s : x.official = v.official}
  <2>1. v.official \in BOOLEAN
    BY <1>1, VideoFacts
  <2>2. Cardinality(same) = 1 \/ Cardinality(same) = 0
    BY <2>1 DEF Selections
  <2>3. IsFiniteSet(same)
    BY <1>1, VideoFacts, FS_Subset
  <2>4. v \in same /\ w \in same
    BY <1>2
  <2> HIDE DEF same
  <2>5. \E x : same = {x}
    BY <2>2, <2>3, <2>4, FS_EmptySet, FS_Singleton
  <2> QED
    BY <2>4, <2>5
<1> QED
  BY <1>1, <1>2

\* A step of one thread that leaves the attempts and answers alone.
LEMMA FinderMoves ==
  ASSUME VideoIInv, NEW t \in Finder, NEW s, DiscoverySound(t, s),
         finding' = [finding EXCEPT ![t] = s],
         UNCHANGED <<videoClock, offered, attempted, answered>>,
         DOMAIN tutorials' = TutorialGame, \A g \in TutorialGame : OneDiscovery(tutorials'[g]),
         t = VideoWorker => /\ BatchSearchable(s)
                            /\ finding[VideoWorker].pc # "recording"
  PROVE  VideoIInv'
<1>1. DOMAIN finding' = Finder /\ finding'[t] = s /\ \A u \in Finder \ {t} : finding'[u] = finding[u]
  BY DEF VideoIInv
<1>2. \A u \in Finder : DiscoverySound(u, finding'[u])
  BY <1>1 DEF VideoIInv
<1>3. \A r : BatchSearchable(r)' <=> BatchSearchable(r')
  BY DEF BatchSearchable, Searchable
<1>4. BatchSearchable(finding[VideoWorker])'
  <2>1. BatchSearchable(finding'[VideoWorker])
    BY <1>1, VideoFacts DEF VideoIInv
  <2> QED
    BY <2>1 DEF BatchSearchable, Searchable
<1>5. \A g \in TutorialGame :
        \/ answered[g] <= attempted[g]
        \/ finding'[VideoWorker].pc = "recording" /\ finding'[VideoWorker].game = g
  BY <1>1, VideoFacts DEF VideoIInv
<1>6. \A u \in Finder : DiscoverySound(u, finding[u])'
  BY <1>2 DEF DiscoverySound, OnePerKind
<1>7. \A g \in TutorialGame : OneDiscovery(tutorials[g])'
  BY DEF OneDiscovery
<1> QED
  BY <1>1, <1>4, <1>5, <1>6, <1>7 DEF VideoIInv

\* What a thread has chosen stays within one video of each kind.
LEMMA SearchLanguageKeeps ==
  ASSUME VideoIInv, NEW t \in Finder, NEW language \in {"it", "en"}, SearchLanguage(t, language)
  PROVE  VideoIInv'
<1>1. PICK s : s = finding[t]
  OBVIOUS
<1>2. DiscoverySound(t, s) /\ s \in Discovery /\ s.pc = language /\ s.game \in TutorialGame
  BY <1>1 DEF VideoIInv, DiscoverySound, SearchLanguage
<1>3. PICK picked \in Selections(Candidates(s.game, language)) :
        finding' = [finding EXCEPT
          ![t].chosen = @ \cup {[video |-> v, language |-> language] : v \in picked},
          ![t].pc = IF language = "it" THEN "en" ELSE "storing"]
  BY <1>1 DEF SearchLanguage
<1>4. Candidates(s.game, language) \in SUBSET Video
  BY <1>2 DEF Candidates, VideoIInv
<1>5. picked \subseteq Video /\ \A v, w \in picked : v.official = w.official => v = w
  BY <1>4, OneSelected
<1> DEFINE new == {[video |-> v, language |-> language] : v \in picked}
           next == [s EXCEPT !.chosen = @ \cup new, !.pc = IF language = "it" THEN "en" ELSE "storing"]
<1>6. finding' = [finding EXCEPT ![t] = next]
  BY <1>1, <1>3 DEF VideoIInv
<1>7. new \subseteq Pickings
  BY <1>5 DEF Pickings
<1>8. /\ \A a, b \in new : a.video.official = b.video.official => a = b
      /\ \A a \in new : a.language = language
  BY <1>5
<1> HIDE DEF new
<1>9. /\ next \in Discovery /\ next.chosen = s.chosen \cup new
      /\ next.pc = (IF language = "it" THEN "en" ELSE "storing")
      /\ next.rows = s.rows /\ next.game = s.game
  BY <1>2, <1>7 DEF Discovery
<1>10. OnePerKind(next.chosen) /\ (language = "it" => \A c \in next.chosen : c.language = "it")
  <2>1. CASE language = "it"
    <3>1. s.chosen = {}
      BY <1>2, <2>1 DEF DiscoverySound
    <3> QED
      BY <1>8, <1>9, <2>1, <3>1 DEF OnePerKind
  <2>2. CASE language = "en"
    <3>1. OnePerKind(s.chosen) /\ \A c \in s.chosen : c.language = "it"
      BY <1>2, <2>2 DEF DiscoverySound
    <3> QED
      BY <1>8, <1>9, <2>2, <3>1 DEF OnePerKind
  <2> QED
    BY <2>1, <2>2
<1> HIDE DEF next
<1>11. DiscoverySound(t, next)
  BY <1>2, <1>9, <1>10 DEF DiscoverySound
<1>12. t = VideoWorker => BatchSearchable(next) /\ finding[VideoWorker].pc # "recording"
  <2>1. ASSUME t = VideoWorker PROVE BatchSearchable(next) /\ finding[VideoWorker].pc # "recording"
    <3>1. BatchSearchable(s)
      BY <1>1, <2>1 DEF VideoIInv
    <3> QED
      BY <1>1, <1>2, <1>9, <2>1, <3>1 DEF BatchSearchable
  <2> QED
    BY <2>1
<1>13. UNCHANGED <<videoClock, offered, attempted, answered, tutorials>>
  BY DEF SearchLanguage
<1> QED
  BY <1>6, <1>11, <1>12, <1>13, FinderMoves DEF VideoIInv

\* The worker got an answer for its game: the rest of the batch is untouched.
LEMMA AnsweredKeeps ==
  ASSUME VideoIInv, NEW s, s = finding[VideoWorker], s.pc \in {"it", "en", "storing"},
         answered' = [answered EXCEPT ![s.game] = videoClock],
         finding' = [finding EXCEPT ![VideoWorker] = [s EXCEPT !.pc = "recording"]],
         UNCHANGED <<videoClock, offered, attempted>>,
         DOMAIN tutorials' = TutorialGame, \A g \in TutorialGame : OneDiscovery(tutorials'[g])
  PROVE  VideoIInv'
<1>1. /\ DiscoverySound(VideoWorker, s) /\ s \in Discovery /\ s.game \in TutorialGame
      /\ BatchSearchable(s) /\ VideoWorker \in Finder
  BY VideoFacts DEF VideoIInv, DiscoverySound
<1> DEFINE next == [s EXCEPT !.pc = "recording"]
<1>2. /\ next \in Discovery /\ next.pc = "recording" /\ next.rows = s.rows
      /\ next.game = s.game /\ next.chosen = s.chosen
  BY <1>1 DEF Discovery
<1> HIDE DEF next
<1>3. DiscoverySound(VideoWorker, next)
  BY <1>1, <1>2 DEF DiscoverySound
<1>4. /\ DOMAIN finding' = Finder /\ finding'[VideoWorker] = next
      /\ \A u \in Finder \ {VideoWorker} : finding'[u] = finding[u]
  BY <1>1 DEF VideoIInv, next
<1>5. \A u \in Finder : DiscoverySound(u, finding[u])'
  <2>1. \A u \in Finder : DiscoverySound(u, finding'[u])
    BY <1>3, <1>4 DEF VideoIInv
  <2> QED
    BY <2>1 DEF DiscoverySound, OnePerKind
<1>6. /\ answered' \in [TutorialGame -> Nat \cup {NoAttempt}]
      /\ answered'[s.game] = videoClock /\ videoClock \in Nat
      /\ \A g \in TutorialGame \ {s.game} : answered'[g] = answered[g]
  BY <1>1 DEF VideoIInv
<1>7. BatchSearchable(finding[VideoWorker])'
  <2>1. \A i \in DOMAIN s.rows : s.rows[i] \in TutorialGame /\ s.rows[i] # s.game /\ Searchable(s.rows[i])
    BY <1>1 DEF BatchSearchable, Discovery
  <2>2. \A i \in DOMAIN s.rows : Searchable(s.rows[i])'
    BY <1>6, <2>1 DEF Searchable
  <2> QED
    BY <1>1, <1>2, <1>4, <2>1, <2>2 DEF BatchSearchable, Searchable
<1>8. \A g \in TutorialGame :
        /\ attempted'[g] <= videoClock' /\ answered'[g] <= videoClock'
        /\ \/ answered'[g] <= attempted'[g]
           \/ finding'[VideoWorker].pc = "recording" /\ finding'[VideoWorker].game = g
  <2> TAKE g \in TutorialGame
  <2>1. CASE g = s.game
    BY <1>2, <1>4, <1>6, <2>1 DEF VideoIInv
  <2>2. CASE g # s.game
    <3>1. finding[VideoWorker].pc # "recording"
      OBVIOUS
    <3> QED
      BY <1>6, <2>2, <3>1 DEF VideoIInv
  <2> QED
    BY <2>1, <2>2
<1>9. \A g \in TutorialGame : OneDiscovery(tutorials[g])'
  BY DEF OneDiscovery
<1> QED
  BY <1>4, <1>5, <1>6, <1>7, <1>8, <1>9 DEF VideoIInv

LEMMA StoreVideosKeeps ==
  ASSUME VideoIInv, NEW t \in Finder, StoreVideos(t) PROVE VideoIInv'
<1>1. PICK s : s = finding[t]
  OBVIOUS
<1>2. DiscoverySound(t, s) /\ s \in Discovery /\ s.pc = "storing" /\ s.game \in TutorialGame
  BY <1>1 DEF VideoIInv, DiscoverySound, StoreVideos
<1> DEFINE rows == {[video |-> c.video, language |-> c.language, at |-> videoClock] : c \in s.chosen}
<1>3. tutorials' = [tutorials EXCEPT ![s.game] = rows] /\ ~Collides(s.chosen)
  BY <1>1 DEF StoreVideos
<1>4. OneDiscovery(rows)
  <2>1. ASSUME NEW a \in rows, NEW b \in rows
        PROVE  /\ a.at = b.at
               /\ a # b => /\ a.video.id # b.video.id
                           /\ ~(a.language = b.language /\ a.video.official = b.video.official)
    <3>1. PICK c \in s.chosen : a = [video |-> c.video, language |-> c.language, at |-> videoClock]
      OBVIOUS
    <3>2. PICK d \in s.chosen : b = [video |-> d.video, language |-> d.language, at |-> videoClock]
      OBVIOUS
    <3>3. c \in Pickings /\ d \in Pickings /\ c.video \in Video /\ d.video \in Video
      BY <1>2 DEF Discovery, Pickings
    <3>4. c.language = d.language /\ c.video.official = d.video.official => c = d
      BY <1>2 DEF DiscoverySound, OnePerKind
    <3>5. c.video.id = d.video.id => c.language = d.language /\ c.video = d.video
      BY <1>3, <3>3, VideoFacts DEF Collides
    <3> QED
      BY <3>1, <3>2, <3>4, <3>5
  <2> QED
    BY <2>1 DEF OneDiscovery
<1> HIDE DEF rows
<1>5. DOMAIN tutorials' = TutorialGame /\ \A g \in TutorialGame : OneDiscovery(tutorials'[g])
  BY <1>2, <1>3, <1>4 DEF VideoIInv
<1>6. UNCHANGED <<videoClock, offered, attempted>>
  BY DEF StoreVideos
<1>7. CASE t = VideoWorker
  <2>1. answered' = [answered EXCEPT ![s.game] = videoClock]
    BY <1>1, <1>7 DEF StoreVideos
  <2>2. finding' = [finding EXCEPT ![VideoWorker] = [s EXCEPT !.pc = "recording"]]
    BY <1>1, <1>7 DEF StoreVideos
  <2> QED
    BY <1>1, <1>2, <1>5, <1>6, <1>7, <2>1, <2>2, AnsweredKeeps
<1>8. CASE t # VideoWorker
  <2>1. finding' = [finding EXCEPT ![t] = Resting] /\ answered' = answered
    BY <1>8 DEF StoreVideos
  <2> QED
    BY <1>5, <1>6, <1>8, <2>1, RestingSearches, FinderMoves
<1> QED
  BY <1>7, <1>8

LEMMA StoreCollidesKeeps ==
  ASSUME VideoIInv, NEW t \in Finder, StoreCollides(t) PROVE VideoIInv'
<1>1. /\ finding' = [finding EXCEPT ![t] = Resting] /\ finding[t].pc = "storing"
      /\ UNCHANGED <<videoClock, offered, tutorials, attempted, answered>>
  BY DEF StoreCollides
<1> QED
  BY <1>1, RestingSearches, FinderMoves DEF VideoIInv

LEMMA ApiFailsKeeps ==
  ASSUME VideoIInv, NEW t \in Finder, NEW quota \in BOOLEAN, ApiFails(t, quota) PROVE VideoIInv'
<1>1. finding[t].pc \in {"it", "en"} /\ UNCHANGED <<videoClock, offered, tutorials, attempted>>
  BY DEF ApiFails
<1>2. /\ DOMAIN tutorials' = TutorialGame
      /\ \A g \in TutorialGame : OneDiscovery(tutorials'[g])
  BY <1>1 DEF VideoIInv
<1>3. CASE t = VideoWorker /\ ~quota
  <2>1. /\ answered' = [answered EXCEPT ![finding[t].game] = videoClock]
        /\ finding' = [finding EXCEPT ![VideoWorker] = [finding[t] EXCEPT !.pc = "recording"]]
    BY <1>3 DEF ApiFails
  <2> QED
    BY <1>1, <1>2, <1>3, <2>1, AnsweredKeeps
<1>4. CASE ~(t = VideoWorker /\ ~quota)
  <2>1. answered' = answered /\ finding' = [finding EXCEPT ![t] = Resting]
    BY <1>4 DEF ApiFails
  <2> QED
    BY <1>1, <1>2, <2>1, RestingSearches, FinderMoves
<1> QED
  BY <1>3, <1>4

\* The rows of a batch are different games.
LEMMA SearchedInOrder ==
  ASSUME VideoIInv, NEW a \in TutorialGame
  PROVE  ~SearchedBefore(a, a)
<1>1. attempted[a] \in Int /\ a \in Nat
  BY VideoFacts DEF VideoIInv, NoAttempt
<1> QED
  BY <1>1 DEF SearchedBefore

LEMMA SelectGamesKeeps == ASSUME VideoIInv, SelectGames PROVE VideoIInv'
<1>1. /\ UNCHANGED <<videoClock, offered, tutorials, attempted, answered>>
      /\ finding[VideoWorker].pc = "resting"
  BY DEF SelectGames, Resting
<1>2. PICK n \in 1..VideoBatch :
        \E rows \in [1..n -> VideoDue] :
          /\ \A i, j \in 1..n : i < j => SearchedBefore(rows[i], rows[j])
          /\ finding' = [finding EXCEPT ![VideoWorker] = [Resting EXCEPT !.pc = "next", !.rows = rows]]
  BY Zenon DEF SelectGames
<1>3. PICK rows \in [1..n -> VideoDue] :
        /\ \A i, j \in 1..n : i < j => SearchedBefore(rows[i], rows[j])
        /\ finding' = [finding EXCEPT ![VideoWorker] = [Resting EXCEPT !.pc = "next", !.rows = rows]]
  BY <1>2, Zenon
<1>4. n \in Nat /\ DOMAIN rows = 1..n
  BY VideoFacts
<1>5. ASSUME NEW i \in 1..n PROVE rows[i] \in TutorialGame /\ Searchable(rows[i])
  <2>1. PICK g \in TutorialGame :
          g = rows[i] /\ (attempted[g] = NoAttempt \/ attempted[g] + VideoRefresh <= videoClock)
    BY DEF VideoDue
  <2>2. /\ attempted[g] \in Nat \cup {NoAttempt} /\ answered[g] \in Nat \cup {NoAttempt}
        /\ videoClock \in Nat /\ answered[g] <= attempted[g]
    BY <1>1 DEF VideoIInv
  <2> QED
    BY <2>1, <2>2, VideoFacts DEF Searchable, NoAttempt
<1>6. \A i, j \in 1..n : i # j => rows[i] # rows[j]
  <2>1. ASSUME NEW i \in 1..n, NEW j \in 1..n, i < j PROVE rows[i] # rows[j]
    BY <1>3, <1>5, <2>1, SearchedInOrder
  <2>2. ASSUME NEW i \in 1..n, NEW j \in 1..n, i # j PROVE rows[i] # rows[j]
    <3>1. i < j \/ j < i
      BY <1>4, <2>2
    <3> QED
      BY <2>1, <3>1
  <2> QED
    BY <2>2
<1> DEFINE s == [Resting EXCEPT !.pc = "next", !.rows = rows]
<1>7. rows \in Seq(TutorialGame)
  BY <1>4, <1>5
<1>8. s \in Discovery /\ s.pc = "next" /\ s.rows = rows /\ s.chosen = {}
  BY <1>7 DEF Resting, Discovery
<1> HIDE DEF s
<1>9. DiscoverySound(VideoWorker, s)
  BY <1>8 DEF DiscoverySound, OnePerKind
<1>10. BatchSearchable(s)
  BY <1>4, <1>5, <1>6, <1>8 DEF BatchSearchable
<1> QED
  BY <1>1, <1>3, <1>9, <1>10, VideoFacts, FinderMoves DEF VideoIInv, s

LEMMA NextRowKeeps == ASSUME VideoIInv, NextRow PROVE VideoIInv'
<1>1. PICK old : old = finding[VideoWorker]
  OBVIOUS
<1>2. /\ UNCHANGED <<videoClock, offered, tutorials, attempted, answered>> /\ old.pc = "next"
      /\ VideoWorker \in Finder
  BY <1>1, VideoFacts DEF NextRow
<1>3. old \in Discovery /\ BatchSearchable(old)
  BY <1>1, <1>2 DEF VideoIInv, DiscoverySound
<1>4. CASE old.rows = <<>>
  <2>1. finding' = [finding EXCEPT ![VideoWorker] = Resting]
    BY <1>1, <1>4 DEF NextRow
  <2> QED
    BY <1>1, <1>2, <2>1, RestingSearches, FinderMoves DEF VideoIInv
<1>5. CASE old.rows # <<>>
  <2>2. PICK rows \in Seq(TutorialGame) : rows = old.rows /\ rows # <<>>
    BY <1>3, <1>5 DEF Discovery
  <2> DEFINE s == [Resting EXCEPT !.pc = "it", !.game = Head(rows), !.rows = Tail(rows)]
  <2>1. finding' = [finding EXCEPT ![VideoWorker] = s]
    BY <1>1, <1>5, <2>2 DEF NextRow
  <2>3. /\ \A i, j \in DOMAIN rows : i # j => rows[i] # rows[j]
        /\ \A i \in DOMAIN rows : Searchable(rows[i])
    BY <1>3, <2>2 DEF BatchSearchable
  <2>4. /\ Head(rows) = rows[1] /\ 1 \in DOMAIN rows /\ rows[1] \in TutorialGame
        /\ Tail(rows) \in Seq(TutorialGame)
        /\ \A i \in DOMAIN Tail(rows) : i + 1 \in DOMAIN rows /\ Tail(rows)[i] = rows[i + 1] /\ i + 1 # 1
        /\ DOMAIN Tail(rows) \subseteq Nat
    BY <2>2
  <2>5. s \in Discovery /\ s.pc = "it" /\ s.game = rows[1] /\ s.rows = Tail(rows) /\ s.chosen = {}
    BY <2>4 DEF Resting, Discovery
  <2> HIDE DEF s
  <2>6. \A i, j \in DOMAIN Tail(rows) : i # j => Tail(rows)[i] # Tail(rows)[j]
    <3>1. ASSUME NEW i \in DOMAIN Tail(rows), NEW j \in DOMAIN Tail(rows), i # j
          PROVE  Tail(rows)[i] # Tail(rows)[j]
      <4>1. i + 1 # j + 1
        BY <2>4, <3>1
      <4> QED
        BY <2>3, <2>4, <4>1
    <3> QED
      BY <3>1
  <2>7. DiscoverySound(VideoWorker, s)
    BY <2>4, <2>5 DEF DiscoverySound, OnePerKind
  <2>8. BatchSearchable(s)
    BY <2>3, <2>4, <2>5, <2>6 DEF BatchSearchable
  <2> QED
    BY <1>1, <1>2, <2>1, <2>7, <2>8, FinderMoves DEF VideoIInv
<1> QED
  BY <1>4, <1>5

LEMMA RecordAttemptKeeps == ASSUME VideoIInv, RecordAttempt PROVE VideoIInv'
<1>1. PICK s : s = finding[VideoWorker]
  OBVIOUS
<1>2. /\ s.pc = "recording" /\ VideoWorker \in Finder /\ s \in Discovery /\ s.game \in TutorialGame
      /\ DiscoverySound(VideoWorker, s) /\ BatchSearchable(s)
      /\ UNCHANGED <<videoClock, offered, tutorials, answered>>
      /\ attempted' = [attempted EXCEPT ![s.game] = videoClock]
  BY <1>1, VideoFacts DEF RecordAttempt, VideoIInv, DiscoverySound
<1> DEFINE next == [s EXCEPT !.pc = "next"]
<1>3. finding' = [finding EXCEPT ![VideoWorker] = next]
  BY <1>1 DEF RecordAttempt
<1>4. /\ next \in Discovery /\ next.pc = "next" /\ next.rows = s.rows
      /\ next.game = s.game /\ next.chosen = s.chosen
  BY <1>2 DEF Discovery
<1> HIDE DEF next
<1>5. DiscoverySound(VideoWorker, next) /\ BatchSearchable(next)
  BY <1>2, <1>4 DEF DiscoverySound, BatchSearchable
<1>6. /\ DOMAIN finding' = Finder /\ finding'[VideoWorker] = next
      /\ \A u \in Finder \ {VideoWorker} : finding'[u] = finding[u]
  BY <1>2, <1>3 DEF VideoIInv
<1>7. \A u \in Finder : DiscoverySound(u, finding[u])'
  <2>1. \A u \in Finder : DiscoverySound(u, finding'[u])
    BY <1>5, <1>6 DEF VideoIInv
  <2> QED
    BY <2>1 DEF DiscoverySound, OnePerKind
<1>8. BatchSearchable(finding[VideoWorker])'
  BY <1>2, <1>5, <1>6 DEF BatchSearchable, Searchable
<1>9. /\ attempted' \in [TutorialGame -> Nat \cup {NoAttempt}]
      /\ \A g \in TutorialGame : attempted'[g] <= videoClock /\ answered[g] <= attempted'[g]
  <2>1. videoClock \in Nat /\ attempted \in [TutorialGame -> Nat \cup {NoAttempt}]
    BY DEF VideoIInv
  <2>2. attempted'[s.game] = videoClock /\ \A g \in TutorialGame \ {s.game} : attempted'[g] = attempted[g]
    BY <1>2, <2>1
  <2>3. ASSUME NEW g \in TutorialGame PROVE attempted'[g] <= videoClock /\ answered[g] <= attempted'[g]
    <3>1. CASE g = s.game
      BY <2>1, <2>2, <3>1 DEF VideoIInv
    <3>2. CASE g # s.game
      BY <1>1, <2>1, <2>2, <3>2 DEF VideoIInv
    <3> QED
      BY <3>1, <3>2
  <2> QED
    BY <1>2, <2>1, <2>3
<1> QED
  BY <1>2, <1>6, <1>7, <1>8, <1>9 DEF VideoIInv, OneDiscovery

LEMMA PostDiscoverKeeps ==
  ASSUME VideoIInv, NEW t \in VideoPoster, NEW g \in TutorialGame, PostDiscover(t, g) PROVE VideoIInv'
<1> DEFINE s == [Resting EXCEPT !.pc = "it", !.game = g]
<1>1. /\ finding' = [finding EXCEPT ![t] = s]
      /\ UNCHANGED <<videoClock, offered, tutorials, attempted, answered>>
  BY DEF PostDiscover
<1>2. s \in Discovery /\ s.pc = "it" /\ s.game = g /\ s.chosen = {}
  <2>1. Resting \in Discovery
    BY RestingSearches
  <2>2. s \in Discovery
    BY <2>1 DEF Discovery
  <2>3. Resting.chosen = {}
    BY DEF Resting
  <2> QED
    BY <2>1, <2>2, <2>3 DEF Discovery
<1> HIDE DEF s
<1>3. DiscoverySound(t, s) /\ t \in Finder /\ t # VideoWorker
  BY <1>2, VideoFacts DEF DiscoverySound, OnePerKind, Finder
<1> QED
  BY <1>1, <1>3, FinderMoves DEF VideoIInv

LEMMA VideoWorldKeeps ==
  ASSUME VideoIInv,
         \/ \E g \in TutorialGame, found \in SUBSET Video : OtherVideos(g, found)
         \/ SaveKey \/ VideoTick \/ VideoCrash \/ UNCHANGED videoVars
  PROVE  VideoIInv'
<1>1. ASSUME NEW g \in TutorialGame, NEW found \in SUBSET Video, OtherVideos(g, found) PROVE VideoIInv'
  <2>1. /\ UNCHANGED <<videoClock, tutorials, attempted, finding, answered>>
        /\ offered' = [offered EXCEPT ![g] = found]
    BY <1>1 DEF OtherVideos
  <2>2. offered' \in [TutorialGame -> SUBSET Video]
    BY <2>1 DEF VideoIInv
  <2> QED
    BY <2>1, <2>2 DEF VideoIInv, DiscoverySound, OnePerKind, BatchSearchable, Searchable, OneDiscovery
<1>2. CASE SaveKey \/ UNCHANGED videoVars
  <2>1. UNCHANGED <<videoClock, offered, tutorials, attempted, finding, answered>>
    BY <1>2 DEF SaveKey, videoVars
  <2> QED
    BY <2>1 DEF VideoIInv, DiscoverySound, OnePerKind, BatchSearchable, Searchable, OneDiscovery
<1>3. CASE VideoTick
  <2>1. /\ UNCHANGED <<offered, tutorials, attempted, finding, answered>>
        /\ videoClock' = videoClock + 1 /\ videoClock \in Nat
    BY <1>3 DEF VideoTick, VideoIInv
  <2>2. ASSUME NEW g \in TutorialGame, Searchable(g) PROVE Searchable(g)'
    BY <2>1, <2>2, VideoFacts DEF Searchable, VideoIInv, NoAttempt
  <2>3. BatchSearchable(finding[VideoWorker])'
    <3>1. PICK s : s = finding[VideoWorker]
      OBVIOUS
    <3>2. s \in Discovery /\ DiscoverySound(VideoWorker, s) /\ BatchSearchable(s)
      BY <3>1, VideoFacts DEF VideoIInv, DiscoverySound
    <3>3. /\ \A i \in DOMAIN s.rows : s.rows[i] \in TutorialGame
          /\ s.pc \in {"it", "en"} => s.game \in TutorialGame
      BY <3>2 DEF Discovery, DiscoverySound
    <3> QED
      BY <2>1, <2>2, <3>1, <3>2, <3>3 DEF BatchSearchable
  <2>4. \A g \in TutorialGame : attempted[g] <= videoClock' /\ answered[g] <= videoClock'
    BY <2>1 DEF VideoIInv, NoAttempt
  <2> QED
    BY <2>1, <2>3, <2>4 DEF VideoIInv, DiscoverySound, OnePerKind, OneDiscovery
<1>4. CASE VideoCrash
  <2>1. /\ UNCHANGED <<videoClock, offered, tutorials, attempted>>
        /\ finding' = [t \in Finder |-> Resting] /\ answered' = attempted
    BY <1>4 DEF VideoCrash
  <2>2. DOMAIN finding' = Finder /\ \A t \in Finder : finding'[t] = Resting
    BY <2>1
  <2>3. \A t \in Finder : DiscoverySound(t, finding[t])'
    BY <2>2, RestingSearches DEF DiscoverySound, OnePerKind
  <2>4. BatchSearchable(finding[VideoWorker])'
    BY <2>2, VideoFacts DEF BatchSearchable, Resting
  <2>5. \A g \in TutorialGame : attempted[g] <= attempted[g]
    BY DEF VideoIInv, NoAttempt
  <2> QED
    BY <2>1, <2>2, <2>3, <2>4, <2>5 DEF VideoIInv, OneDiscovery
<1> QED
  BY <1>1, <1>2, <1>3, <1>4

LEMMA VideosStep == VideoIInv /\ [VideoNext]_videoVars => VideoIInv'
<1>1. ASSUME VideoIInv, NEW t \in Finder, Discover(t) PROVE VideoIInv'
  BY <1>1, SearchLanguageKeeps, StoreVideosKeeps, StoreCollidesKeeps DEF Discover
<1>2. ASSUME VideoIInv, PollVideos PROVE VideoIInv'
  BY <1>1, <1>2, SelectGamesKeeps, NextRowKeeps, RecordAttemptKeeps, VideoFacts DEF PollVideos
<1>3. VideoPoster \subseteq Finder
  BY DEF Finder
<1> QED
  BY <1>1, <1>2, <1>3, PostDiscoverKeeps, ApiFailsKeeps, VideoWorldKeeps DEF VideoNext

-----------------------------------------------------------------------------
\* What the page of a game shows is sound, for any owners, videos, editions, games
\* and bounds: an expansion is hidden only behind ones that are owned as often, the
\* videos are those of one discovery and are not searched again too early, and no
\* refresh, failed check or crash takes away a title (GamePages!GameShown).
THEOREM PagesShow == PagesSpec => []GameShown
<1> DEFINE Inv == ListingIInv /\ VideoIInv /\ TitleIInv
<1>1. PagesInit => Inv
  BY InitListing, InitVideos, InitTitles DEF PagesInit
<1>2. Inv /\ [PagesNext]_<<listingVars, videoVars, titleVars>> => Inv'
  <2>1. ASSUME Inv, [PagesNext]_<<listingVars, videoVars, titleVars>>
        PROVE  [ListingNext]_listingVars /\ [VideoNext]_videoVars /\ [TitleNext]_titleVars
    BY <2>1 DEF PagesNext
  <2> QED
    BY <2>1, ListingKeeps, VideosStep, TitlesStep
<1>3. Inv => GameShown
  BY InvListing, InvVideos, InvTitles DEF GameShown
<1> QED
  BY <1>1, <1>2, <1>3, PTL DEF PagesSpec

-----------------------------------------------------------------------------
(* The library as a whole *)

\* A step of the library is one of a component, or changes nothing of it.
LEMMA PartsStep ==
  ASSUME [LibraryNext]_libraryVars
  PROVE  /\ [ProgressNext]_progressVars /\ [CollectionNext]_collectionVars /\ [SyncNext]_syncVars
         /\ [ListNext]_listVars /\ [FeedNext]_feedVars /\ [ExpansionNext]_expansionVars
         /\ [ListingNext]_listingVars /\ [VideoNext]_videoVars /\ [TitleNext]_titleVars
BY DEF LibraryNext, libraryVars

LEMMA ProducersStep ==
  ASSUME [LibraryNext]_libraryVars
  PROVE  [ProducersNext]_<<feedVars, expansionVars>>
BY DEF LibraryNext, libraryVars, ProducersNext

LEMMA PagesStep ==
  ASSUME [LibraryNext]_libraryVars
  PROVE  [PagesNext]_<<listingVars, videoVars, titleVars>>
BY DEF LibraryNext, libraryVars, PagesNext

LEMMA PartsInit ==
  LibraryInit => /\ ProgressInit /\ CollectionInit /\ SyncInit /\ ListInit
                 /\ FeedInit /\ ExpansionInit /\ ListingInit /\ VideoInit /\ TitleInit
BY DEF LibraryInit

\* Every behaviour that the run explores is one of each component, so that what is
\* proved of the components holds of it (MCLibrary!LibrarySpec).
THEOREM LibraryRunsParts ==
  LibrarySpec => /\ ProgressSpec /\ CollectionSpec /\ SyncSpec /\ ListSpec
                 /\ ProducersSpec /\ PagesSpec
<1>1. LibraryInit => /\ ProgressInit /\ CollectionInit /\ SyncInit /\ ListInit
                     /\ ProducersInit /\ PagesInit
  BY PartsInit DEF ProducersInit, PagesInit
<1>2. [LibraryNext]_libraryVars =>
        /\ [ProgressNext]_progressVars /\ [CollectionNext]_collectionVars
        /\ [SyncNext]_syncVars /\ [ListNext]_listVars
        /\ [ProducersNext]_<<feedVars, expansionVars>>
        /\ [PagesNext]_<<listingVars, videoVars, titleVars>>
  BY PartsStep, ProducersStep, PagesStep
<1> QED
  BY <1>1, <1>2, PTL DEF LibrarySpec, ProgressSpec, CollectionSpec, SyncSpec, ListSpec,
                         ProducersSpec, PagesSpec

-----------------------------------------------------------------------------
(* The types of the library *)

\* Where a copy belongs: to an entry that exists, or to none.
CopiesPlaced(cs, size) ==
  /\ cs \subseteq Copy
  /\ \A c \in cs : c.entry \in 0..size

LEMMA CopiesMade ==
  ASSUME NEW cs, NEW size \in Nat, CopiesPlaced(cs, size), NEW n \in 1..size, NEW e
  PROVE  CopiesPlaced(EnsureCopies(cs, n, e), size)
<1> DEFINE present == {c.index : c \in {d \in cs : d.entry = n}}
           new(top) == {[entry |-> n, index |-> k, note |-> "imported"] : k \in (1..top) \ present}
<1>1. \A top : (1..top) \ present \subseteq Nat \ {0}
  OBVIOUS
<1>2. \A top : \A c \in new(top) : c \in Copy /\ c.entry = n
  BY <1>1 DEF Copy
<1>3. \/ EnsureCopies(cs, n, e) = cs
      \/ \E top : EnsureCopies(cs, n, e) = cs \cup new(top)
  BY DEF EnsureCopies
<1> QED
  BY <1>2, <1>3 DEF CopiesPlaced

LEMMA CopiesFinite ==
  ASSUME NEW cs, IsFiniteSet(cs), NEW n, NEW e, e.quantity \in Nat
  PROVE  IsFiniteSet(EnsureCopies(cs, n, e))
<1> DEFINE top == IF e.quantity > 0 THEN e.quantity ELSE 1
           missing == (1..top) \ {c.index : c \in {d \in cs : d.entry = n}}
           new == {[entry |-> n, index |-> k, note |-> "imported"] : k \in missing}
<1>1. IsFiniteSet(1..top)
  BY FS_Interval
<1>2. IsFiniteSet(missing)
  BY <1>1, FS_Difference
<1>3. IsFiniteSet(new)
  <2> DEFINE f == [k \in missing |-> [entry |-> n, index |-> k, note |-> "imported"]]
  <2>1. f \in Surjection(missing, new)
    BY DEF Surjection
  <2> HIDE DEF f, missing, new
  <2> QED
    BY <1>2, <2>1, FS_Surjection
<1>4. IsFiniteSet(cs \cup new)
  BY <1>3, FS_Union
<1>5. EnsureCopies(cs, n, e) = cs \/ EnsureCopies(cs, n, e) = cs \cup new
  BY DEF EnsureCopies
<1> QED
  BY <1>4, <1>5

\* The entries are entries, and of finitely many copies each has its place.
CopiesInv == CollectionTypeOK /\ IsFiniteSet(copies)

LEMMA ImportTypes ==
  ASSUME CollectionIInv, CopiesInv, NEW item \in Item \cup Row, ImportItem(item)
  PROVE  CopiesInv'
<1> USE DEF CopiesInv
<1>1. PICK n : n = Place(entries, item)
  OBVIOUS
<1>2. PICK e : e = Made(entries, n, item)
  OBVIOUS
<1>3. Told(item) /\ CollectionSound(entries, copies)
  BY ItemTold DEF CollectionIInv
<1>4. e.coll = item.coll /\ e.game = item.game
  BY <1>2 DEF Made, MergedEntry, RowEntry
<1>5. Len(entries) \in Nat /\ n \in 1..(Len(entries) + 1)
  <2>1. \A i, k \in DOMAIN entries : entries[i].coll = entries[k].coll /\ i # k => entries[i].coll = NoColl
    BY <1>3 DEF CollectionSound
  <2> QED
    BY <1>1, <1>3, <1>4, <2>1, PlaceAgain DEF CollectionTypeOK
<1>6. entries' = With(entries, n, e) /\ copies' = EnsureCopies(copies, n, e)
  <2>1. ImportOne(Library, item) = [entries |-> With(entries, n, e), copies |-> EnsureCopies(copies, n, e)]
    BY <1>1, <1>2 DEF ImportOne, Place, Made, With, Library
  <2> QED
    BY <2>1 DEF ImportItem
<1>7. PICK size \in Nat : size = IF n > Len(entries) THEN n ELSE Len(entries)
  BY <1>5
<1>8. n \in 1..size /\ Len(entries) <= size
  BY <1>5, <1>7
<1>9. entries' \in Seq(Entry)
  BY ImportItemKeeps DEF CollectionIInv, CollectionSound
<1>10. Len(entries') = size
  <2>1. DOMAIN entries' = 1..size
    BY <1>6, <1>7 DEF With
  <2> QED
    BY <1>7, <1>9, <2>1
<1>11. CopiesPlaced(copies, size)
  <2>1. \A c \in copies : c.entry \in 0..Len(entries)
    BY DEF CollectionTypeOK
  <2>2. \A c \in copies : c.entry \in 0..size
    BY <1>5, <1>8, <2>1
  <2> QED
    BY <2>2 DEF CollectionTypeOK, CopiesPlaced
<1>12. CopiesPlaced(copies', size)
  BY <1>6, <1>7, <1>8, <1>11, CopiesMade
<1>13. IsFiniteSet(copies')
  <2>1. e \in Entry
    <3>1. n \in 1..Len(entries')
      BY <1>8, <1>10
    <3>2. entries'[n] \in Entry
      BY <1>9, <3>1
    <3>3. entries'[n] = e
      BY <1>6, <1>5 DEF With
    <3> QED
      BY <3>2, <3>3
  <2> QED
    BY <1>6, <2>1, CopiesFinite, CollectionConstants DEF Entry
<1> QED
  BY <1>9, <1>10, <1>12, <1>13 DEF CollectionTypeOK, CopiesPlaced

LEMMA CollectionTypesKept ==
  ASSUME CollectionIInv, CopiesInv, [CollectionNext]_collectionVars
  PROVE  CopiesInv'
<1> USE DEF CopiesInv
<1>1. CASE UNCHANGED collectionVars
  BY <1>1 DEF collectionVars, CollectionTypeOK
<1>2. ASSUME NEW g \in OwnedGame, RemoveFromLibrary(g) PROVE CopiesInv'
  <2>1. entries' \in Seq(Entry)
    BY <1>2, RemoveFromLibraryKeeps DEF CollectionIInv, CollectionSound
  <2>2. copies' = copies /\ DOMAIN entries' = DOMAIN entries
    BY <1>2 DEF RemoveFromLibrary
  <2>3. Len(entries') = Len(entries)
    BY <2>1, <2>2 DEF CollectionTypeOK
  <2> QED
    BY <2>1, <2>2, <2>3 DEF CollectionTypeOK
<1>3. CASE CreateCopy
  <2>1. PICK i \in Nat \ {0} : copies' = copies \cup {[entry |-> 0, index |-> i, note |-> "edited"]}
    <3>1. Cardinality({c \in copies : c.entry = 0}) \in Nat
      BY FS_Subset, FS_CardinalityType
    <3> QED
      BY <1>3, <3>1 DEF CreateCopy
  <2>2. [entry |-> 0, index |-> i, note |-> "edited"] \in Copy
    BY DEF Copy
  <2>3. entries' = entries /\ 0 \in 0..Len(entries)
    BY <1>3 DEF CreateCopy, CollectionTypeOK
  <2>4. IsFiniteSet(copies')
    BY <2>1, FS_AddElement
  <2> QED
    BY <2>1, <2>2, <2>3, <2>4 DEF CollectionTypeOK
<1>4. ASSUME NEW c \in copies, UpdateCopy(c) PROVE CopiesInv'
  <2>1. c \in Copy
    BY DEF CollectionTypeOK
  <2>2. [c EXCEPT !.note = "edited"] \in Copy /\ [c EXCEPT !.note = "edited"].entry = c.entry
    BY <2>1 DEF Copy
  <2>3. IsFiniteSet(copies')
    BY <1>4, FS_RemoveElement, FS_AddElement DEF UpdateCopy
  <2> QED
    BY <1>4, <2>1, <2>2, <2>3 DEF UpdateCopy, CollectionTypeOK
<1> QED
  BY <1>1, <1>2, <1>3, <1>4, ImportTypes DEF CollectionNext

LEMMA CollectionTypesInit == CollectionInit => CopiesInv
<1> SUFFICES ASSUME CollectionInit PROVE CopiesInv
  OBVIOUS
<1> USE DEF CopiesInv
<1>1. entries \in Seq(Entry)
  BY InitCollection DEF CollectionIInv, CollectionSound
<1>2. CASE entries = <<>>
  BY <1>1, <1>2, FS_EmptySet DEF CollectionInit, CollectionTypeOK
<1>3. CASE entries # <<>>
  <2>1. PICK r : entries = <<RowEntry(r)>> /\ copies = EnsureCopies({}, 1, entries[1])
    BY <1>3 DEF CollectionInit
  <2>2. Len(entries) = 1
    BY <2>1
  <2>3. CopiesPlaced({}, 1) /\ 1 \in 1..1 /\ 1 \in Nat
    BY DEF CopiesPlaced
  <2>4. CopiesPlaced(copies, 1)
    BY <2>1, <2>3, CopiesMade
  <2>5. entries[1].quantity \in Nat
    <3>1. entries[1] \in Entry
      BY <1>1, <2>2
    <3> QED
      BY <3>1, CollectionConstants DEF Entry
  <2>6. IsFiniteSet(copies)
    BY <2>1, <2>5, CopiesFinite, FS_EmptySet
  <2> QED
    BY <1>1, <2>2, <2>4, <2>6 DEF CollectionTypeOK, CopiesPlaced
<1> QED
  BY <1>2, <1>3

\* The worker, the page and the user change of these only what their types allow.
VideoFlags == keyed \in BOOLEAN /\ videoFaults \in Nat

LEMMA VideoFlagsKept == VideoFlags /\ [VideoNext]_videoVars => VideoFlags'
<1> SUFFICES ASSUME VideoFlags, [VideoNext]_videoVars PROVE VideoFlags'
  OBVIOUS
<1> USE DEF VideoFlags
<1>1. ASSUME NEW t, Discover(t) PROVE VideoFlags'
  BY <1>1 DEF Discover, SearchLanguage, StoreVideos, StoreCollides
<1>2. CASE PollVideos
  BY <1>1, <1>2 DEF PollVideos, SelectGames, NextRow, RecordAttempt
<1>3. ASSUME NEW t, NEW g, PostDiscover(t, g) PROVE VideoFlags'
  BY <1>3 DEF PostDiscover
<1>4. ASSUME NEW t, NEW quota, ApiFails(t, quota) PROVE VideoFlags'
  BY <1>4 DEF ApiFails
<1>5. ASSUME NEW g, NEW found, OtherVideos(g, found) PROVE VideoFlags'
  BY <1>5 DEF OtherVideos
<1>6. CASE SaveKey
  BY <1>6, Zenon DEF SaveKey
<1>8. CASE VideoTick \/ VideoCrash
  BY <1>8 DEF VideoTick, VideoCrash
<1>7. CASE UNCHANGED videoVars
  BY <1>7 DEF videoVars
<1> QED
  BY <1>1, <1>2, <1>3, <1>4, <1>5, <1>6, <1>7, <1>8 DEF VideoNext

LEMMA VideoTypes == VideoIInv /\ VideoFlags => VideoTypeOK
BY DEF VideoIInv, VideoFlags, VideoTypeOK, DiscoverySound, Discovery

\* What a row knows are titles; only the refresh of the metadata writes them.
KnownTitles == \A g \in HasRow : alternates[g] \subseteq EditionTitle

LEMMA KnownTitlesKept == KnownTitles /\ [TitleNext]_titleVars => KnownTitles'
<1> SUFFICES ASSUME KnownTitles, [TitleNext]_titleVars PROVE KnownTitles'
  OBVIOUS
<1>1. ASSUME NEW g \in TitledGame, NEW known \in SUBSET EditionTitle, PersistMetadata(g, known)
      PROVE  KnownTitles'
  BY <1>1 DEF PersistMetadata, KnownTitles, HasRow
<1>2. CASE alternates' = alternates
  BY <1>2 DEF KnownTitles, HasRow
<1>3. \A days : CheckFails(days) => alternates' = alternates
  BY DEF CheckFails
<1>4. \A g, t : ReleaseEdition(g, t) => alternates' = alternates
  BY DEF ReleaseEdition
<1>5. SelectTitles \/ NextCheck \/ FetchVersions \/ ChooseTitle \/ StoreTitle \/ TitleTick \/ TitleCrash
      => alternates' = alternates
  BY DEF SelectTitles, NextCheck, FetchVersions, ChooseTitle, StoreTitle, TitleTick, TitleCrash
<1> QED
  BY <1>1, <1>2, <1>3, <1>4, <1>5 DEF TitleNext, titleVars

LEMMA TitleTypes == TitleIInv /\ KnownTitles => TitleTypeOK
BY DEF TitleIInv, TitleTypeOK, TitleTaskSound, TitleTask, KnownTitles

LEMMA SyncTypesOK == SyncInv => SyncTypeOK
<1> SUFFICES ASSUME SyncInv PROVE SyncTypeOK
  OBVIOUS
<1>1. ASSUME NEW c \in Caller, syncing[c] # Idle
      PROVE  /\ syncing[c].phase \in {"base", "expansions", "import", "success", "error", "enrich"}
             /\ syncing[c].attempt \in 0..(RequestAttempts - 1)
             /\ syncing[c].created \subseteq library
  BY <1>1 DEF SyncInv, SyncTypes, SyncTask, SyncPhase, TaskSound
<1> QED
  BY <1>1 DEF SyncInv, SyncTypes, SyncTypeOK

\* What is invariant of each component, of a whole library.
LibraryIInv ==
  /\ ProgressInv /\ ListInv /\ SyncInv /\ FeedIInv /\ ExpansionIInv
  /\ CollectionIInv /\ CopiesInv
  /\ VideoIInv /\ VideoFlags /\ TitleIInv /\ KnownTitles

LEMMA LibraryTyped == LibraryIInv => LibraryTypeOK
<1> SUFFICES ASSUME LibraryIInv PROVE LibraryTypeOK
  OBVIOUS
<1>1. ProgressTypeOK /\ ListTypeOK /\ SyncTypeOK /\ FeedTypeOK /\ ExpansionTypeOK
  BY SyncTypesOK DEF LibraryIInv, ProgressInv, ListInv, FeedIInv, ExpansionIInv
<1>2. CollectionTypeOK /\ VideoTypeOK /\ TitleTypeOK
  BY VideoTypes, TitleTypes DEF LibraryIInv, CopiesInv
<1> QED
  BY <1>1, <1>2 DEF LibraryTypeOK

LEMMA InitLibrary == LibraryInit => LibraryIInv
<1> SUFFICES ASSUME LibraryInit PROVE LibraryIInv
  OBVIOUS
<1>1. /\ ProgressInit /\ CollectionInit /\ SyncInit /\ ListInit
      /\ FeedInit /\ ExpansionInit /\ VideoInit /\ TitleInit
  BY PartsInit
<1>2. /\ ProgressInv /\ ListInv /\ SyncInv /\ FeedIInv /\ ExpansionIInv /\ CollectionIInv
      /\ VideoIInv /\ TitleIInv /\ CopiesInv
  BY <1>1, InitProgress, InitLists, InitSync, InitFeed, InitExpansion, InitCollection, InitVideos,
     InitTitles, CollectionTypesInit
<1>3. VideoFlags
  BY <1>1 DEF VideoInit, VideoFlags
<1>4. KnownTitles
  BY <1>1 DEF TitleInit, KnownTitles, HasRow
<1> QED
  BY <1>2, <1>3, <1>4 DEF LibraryIInv

LEMMA LibraryKeeps == LibraryIInv /\ [LibraryNext]_libraryVars => LibraryIInv'
<1> SUFFICES ASSUME LibraryIInv, [LibraryNext]_libraryVars PROVE LibraryIInv'
  OBVIOUS
<1>1. /\ [ProgressNext]_progressVars /\ [CollectionNext]_collectionVars /\ [SyncNext]_syncVars
      /\ [ListNext]_listVars /\ [FeedNext]_feedVars /\ [ExpansionNext]_expansionVars
      /\ [VideoNext]_videoVars /\ [TitleNext]_titleVars
  BY PartsStep
<1>2. ProgressInv' /\ ListInv' /\ SyncInv'
  BY <1>1, ProgressKeeps, ListKeeps, SyncKeeps DEF LibraryIInv
<1>3. FeedIInv' /\ ExpansionIInv'
  BY <1>1, FeedKeeps, ExpansionKeeps DEF LibraryIInv
<1>4. CollectionIInv' /\ CopiesInv'
  BY <1>1, CollectionKeeps, CollectionTypesKept DEF LibraryIInv
<1>5. VideoIInv' /\ VideoFlags' /\ TitleIInv' /\ KnownTitles'
  BY <1>1, VideosStep, VideoFlagsKept, TitlesStep, KnownTitlesKept DEF LibraryIInv
<1> QED
  BY <1>2, <1>3, <1>4, <1>5 DEF LibraryIInv

\* The rows, requests, scans and locks of the library keep their types, however
\* its parts run: a copy is one of an entry that exists, or of none, and what a
\* synchronisation says it created is in the library (MCLibrary!LibraryTypeOK).
THEOREM LibraryTypes == LibrarySpec => []LibraryTypeOK
BY InitLibrary, LibraryKeeps, LibraryTyped, PTL DEF LibrarySpec

=============================================================================
