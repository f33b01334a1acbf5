----------------------------- MODULE PlayProgress -----------------------------
(***************************************************************************)
(* The progress of one game of the library (game_progress) and its log of  *)
(* plays (game_plays).  Two writers share the progress row: the personal   *)
(* state editor, which reads the row in one transaction and writes all its *)
(* columns back in another, and the play log, each of whose operations is  *)
(* one immediate transaction.  Days are numbers; None is the SQL NULL.     *)
(***************************************************************************)
EXTENDS Integers, FiniteSets, FiniteSetsExt

CONSTANTS Editor,       \* concurrent requests to PATCH /personal-state
          PlayId,       \* identifiers of logged plays
          Ratings,      \* the ratings a user may give
          LastDay       \* bound on the calendar

ASSUME ProgressConstants == LastDay \in Nat \ {0}

None == 0
Unset == -1
Days == 1..LastDay

VARIABLES day, plays, progress, edits
progressVars == <<day, plays, progress, edits>>

Progress == [rating : Ratings \cup {None}, played : Days \cup {None},
             completed : Days \cup {None}]

Flag == {"unset", "yes", "no"}

\* The fields of a request; Unset is a field the payload does not hold.
Request ==
  [rating : Ratings \cup {None, Unset}, played : Flag, completed : Flag,
   playedAt : Days \cup {None, Unset},
   completedAt : Days \cup {None, Unset}]

NoEdit == [state |-> "idle"]

LoggedPlays == {p \in PlayId : plays[p] # NoEdit}
PlayDays == {plays[p].on : p \in LoggedPlays}
CompletingDays == {plays[p].on : p \in {q \in LoggedPlays : plays[q].completes}}

ProgressTypeOK ==
  /\ day \in Days
  /\ plays \in [PlayId -> {NoEdit} \cup [on : Days, completes : BOOLEAN]]
  /\ progress \in Progress
  /\ edits \in [Editor -> {NoEdit} \cup
                 [state : {"read"}, next : Progress, clears : BOOLEAN]]

ProgressInit ==
  /\ day = 1
  /\ plays = [p \in PlayId |-> NoEdit]
  /\ progress = [rating |-> None, played |-> None, completed |-> None]
  /\ edits = [e \in Editor |-> NoEdit]

-----------------------------------------------------------------------------
(* Personal state *)

Given(field, current) == IF field = Unset THEN current ELSE field

\* Dates of a request lie in the past or today, a completed game was played.
Accepted(r) ==
  /\ ~(r.played = "no" /\ r.completed = "yes")
  /\ r.playedAt <= day
  /\ r.completedAt <= day

\* Mutant: a completion does not mark the game as played.
NextProgressUnplayed(current, r) ==
  LET completed == CASE r.completed = "yes" /\ Given(r.completedAt, current.completed) = None -> day
                     [] r.completed = "no" -> None
                     [] OTHER -> Given(r.completedAt, current.completed)
  IN [rating |-> Given(r.rating, current.rating),
      played |-> Given(r.playedAt, current.played), completed |-> completed]

\* The row that a request makes of the current one.
NextProgress(current, r) ==
  LET playedAt == CASE r.played = "yes" /\ Given(r.playedAt, current.played) = None -> day
                    [] r.played = "no" -> None
                    [] OTHER -> Given(r.playedAt, current.played)
      milestone == IF r.played = "no" THEN None
                   ELSE Given(r.completedAt, current.completed)
      completed == CASE r.completed = "yes" /\ milestone = None -> day
                     [] r.completed = "no" -> None
                     [] OTHER -> milestone
  IN [rating |-> Given(r.rating, current.rating),
      played |-> IF playedAt = None THEN completed ELSE playedAt,
      completed |-> completed]

\* The request that clears the marker of a played game.
Clears(r) == r.played = "no" \/ r.playedAt = None

ReadProgress(e, r) ==
  /\ edits[e] = NoEdit
  /\ Accepted(r)
  /\ edits' = [edits EXCEPT ![e] = [state |-> "read", clears |-> Clears(r),
                                    next |-> NextProgress(progress, r)]]
  /\ UNCHANGED <<day, plays, progress>>

WriteProgress(e) ==
  /\ edits[e] # NoEdit
  /\ progress' = edits[e].next
  /\ edits' = [edits EXCEPT ![e] = NoEdit]
  /\ UNCHANGED <<day, plays>>

-----------------------------------------------------------------------------
(* Play log *)

\* The marker follows the latest play, the first completing play completes.
SyncProgress(row, played, completing) ==
  [row EXCEPT !.played = Max({@} \cup played),
              !.completed = IF @ = None /\ completing # {} THEN Min(completing) ELSE @]

StorePlay(p, on, completes) ==
  /\ on <= day
  /\ plays' = [plays EXCEPT ![p] = [on |-> on, completes |-> completes]]
  /\ progress' = SyncProgress(progress, PlayDays', CompletingDays')
  /\ UNCHANGED <<day, edits>>

CreatePlay(p, on, completes) == plays[p] = NoEdit /\ StorePlay(p, on, completes)

\* Mutant: moving a play does not synchronise the progress.
UpdatePlayOnly(p, on, completes) ==
  /\ plays[p] # NoEdit /\ on <= day
  /\ plays' = [plays EXCEPT ![p] = [on |-> on, completes |-> completes]]
  /\ UNCHANGED <<day, progress, edits>>

UpdatePlay(p, on, completes) == plays[p] # NoEdit /\ StorePlay(p, on, completes)

\* The marker follows the remaining plays, unless it was set by hand.
DeletePlay(p) ==
  /\ plays[p] # NoEdit
  /\ plays' = [plays EXCEPT ![p] = NoEdit]
  /\ progress' = IF progress.played = plays[p].on /\ PlayDays' # {}
                 THEN [progress EXCEPT !.played = Max(PlayDays')]
                 ELSE progress
  /\ UNCHANGED <<day, edits>>

NextDay ==
  /\ day < LastDay
  /\ day' = day + 1
  /\ UNCHANGED <<plays, progress, edits>>

LogStep(p) ==
  \/ \E on \in Days, completes \in BOOLEAN :
       CreatePlay(p, on, completes) \/ UpdatePlay(p, on, completes)
  \/ DeletePlay(p)

ProgressNext ==
  \/ \E e \in Editor : WriteProgress(e) \/ \E r \in Request : ReadProgress(e, r)
  \/ \E p \in PlayId : LogStep(p)
  \/ NextDay

ProgressSpec == ProgressInit /\ [][ProgressNext]_progressVars

-----------------------------------------------------------------------------
(* Properties *)

(* Completion implies played: whatever edits and plays interleave, a row   *)
(* with a completion milestone has a played marker.                        *)
CompletedIsPlayed == progress.completed # None => progress.played # None

Covered == \A d \in PlayDays : d <= progress.played

(* The last played date follows the plays: logging or moving a play leaves *)
(* the marker at or after every play, and deleting one keeps it there; only*)
(* a date set by hand may be earlier than a play.                          *)
MarkerFollowsPlays ==
  [][\A p \in PlayId : plays'[p] # plays[p] /\ (Covered \/ plays'[p] # NoEdit) => Covered']_progressVars

(* A logged play marks the game as played: while a play is logged, only a  *)
(* request to clear the marker clears it.                                  *)
PlaysStayMarked ==
  [][\A e \in Editor :
       edits[e] # NoEdit /\ edits'[e] = NoEdit /\ progress.played # None /\ LoggedPlays # {}
         => progress'.played # None \/ edits[e].clears]_progressVars

=============================================================================
