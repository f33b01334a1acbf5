----------------------------- MODULE ItalianTitles -----------------------------
(***************************************************************************)
(* The scan for the titles of Italian editions.  Its results live in the   *)
(* JSON document of the metadata row, which every refresh of the metadata  *)
(* replaces; a check asks BGG, reads the row, chooses, and stores in a     *)
(* transaction of its own.                                                 *)
(***************************************************************************)
EXTENDS Integers, Sequences

CONSTANTS
  TitledGame,       \* games, numbered in the order of their IDs
  OwnedTitled,      \* those with a collection entry that is owned
  EditionTitle, NoTitle,
  TitleBatch,
  RecheckDays, RetryDays, OversizeDays,
  MaxTitleClock, MaxTitleFaults \* bounds: time; refused requests and crashes

VARIABLES
  titleClock,
  editions,     \* how many Italian editions BGG lists under each title, by game
  alternates,   \* the document: alternate titles, by game with a row
  italian,      \* the document: [title, next, rule]
  titleScan,         \* the worker
  lastChosen,   \* history: what the last answered check chose
  lastAsked,    \* history: when a check of the game last stored its outcome
  titleFaults
titleVars == <<titleClock, editions, alternates, italian, titleScan, lastChosen, lastAsked, titleFaults>>

TitleRule == 2
Unchecked == [title |-> NoTitle, next |-> 0, rule |-> 0]
Idling == [pc |-> "idling", rows |-> <<>>, game |-> 0, versions |-> [t \in EditionTitle |-> 0], title |-> NoTitle]
HasRow == DOMAIN alternates

ASSUME TitleAssumption ==
  /\ TitledGame \subseteq Nat \ {0} /\ OwnedTitled \subseteq TitledGame
  /\ NoTitle \notin EditionTitle /\ TitleBatch \in Nat \ {0} /\ MaxTitleClock \in Nat
  /\ {RecheckDays, RetryDays, OversizeDays} \subseteq Nat \ {0}
  /\ RetryDays <= OversizeDays /\ RetryDays <= RecheckDays

\* An installation may hold titles of an older rule.
TitleInit ==
  /\ titleClock = 0
  /\ editions \in [TitledGame -> [EditionTitle -> 0..1]]
  /\ alternates \in [OwnedTitled -> {{}}]
  /\ \E old \in {NoTitle} \cup EditionTitle :
       italian = [g \in TitledGame |-> IF g \in OwnedTitled /\ old # NoTitle
                                       THEN [title |-> old, next |-> MaxTitleClock, rule |-> TitleRule - 1]
                                       ELSE Unchecked]
  /\ titleScan = Idling
  /\ lastChosen = [g \in TitledGame |-> italian[g].title]
  /\ lastAsked = [g \in TitledGame |-> -RetryDays]
  /\ titleFaults = 0

TitleTypeOK ==
  /\ HasRow \subseteq TitledGame
  /\ \A g \in TitledGame :
       /\ italian[g].title \in EditionTitle \cup {NoTitle} /\ italian[g].rule \in 0..TitleRule
       /\ italian[g].next \in Nat
       /\ g \in HasRow => alternates[g] \subseteq EditionTitle
  /\ titleScan.pc \in {"idling", "next", "asking", "answered", "storing"}

-----------------------------------------------------------------------------
(* The worker *)

Outdated(g) == italian[g].title # NoTitle /\ italian[g].rule < TitleRule

CheckedBefore(a, b) ==
  LET owned(g) == IF g \in OwnedTitled THEN 0 ELSE 1
  IN  \/ owned(a) < owned(b)
      \/ owned(a) = owned(b) /\ italian[a].next < italian[b].next
      \/ owned(a) = owned(b) /\ italian[a].next = italian[b].next /\ a < b

\* due_ids: a game without a metadata row is never due.
SelectTitles ==
  LET waiting == {g \in HasRow : italian[g].next <= titleClock \/ Outdated(g)}
  IN  /\ titleScan = Idling
      /\ \E n \in 1..TitleBatch : \E rows \in [1..n -> waiting] :
           /\ \A i, j \in 1..n : i < j => CheckedBefore(rows[i], rows[j])
           /\ LET rest == waiting \ {rows[i] : i \in 1..n}
              IN  /\ n = TitleBatch \/ rest = {}
                  /\ \A g \in rest : CheckedBefore(rows[n], g)
           /\ titleScan' = [Idling EXCEPT !.pc = "next", !.rows = rows]
      /\ UNCHANGED <<titleClock, editions, alternates, italian, lastChosen, lastAsked, titleFaults>>

NextCheck ==
  /\ titleScan.pc = "next"
  /\ titleScan' = IF titleScan.rows = <<>> THEN Idling
             ELSE [Idling EXCEPT !.pc = "asking", !.game = Head(titleScan.rows), !.rows = Tail(titleScan.rows)]
  /\ UNCHANGED <<titleClock, editions, alternates, italian, lastChosen, lastAsked, titleFaults>>

FetchVersions ==
  /\ titleScan.pc = "asking"
  /\ titleScan' = [titleScan EXCEPT !.pc = "answered", !.versions = editions[titleScan.game]]
  /\ UNCHANGED <<titleClock, editions, alternates, italian, lastChosen, lastAsked, titleFaults>>

\* choose_italian_title: the most common name, of equal ones a known one, of
\* those the first in the answer, hence any.
TitleChoices(versions, known) ==
  LET named == {t \in EditionTitle : versions[t] > 0}
      common == {t \in named : \A u \in named : versions[u] <= versions[t]}
  IN  IF named = {} THEN {NoTitle} ELSE IF common \cap known # {} THEN common \cap known ELSE common

ChooseTitle ==
  /\ titleScan.pc = "answered"
  /\ \E t \in TitleChoices(titleScan.versions, alternates[titleScan.game]) :
       titleScan' = [titleScan EXCEPT !.pc = "storing", !.title = t]
  /\ UNCHANGED <<titleClock, editions, alternates, italian, lastChosen, lastAsked, titleFaults>>

StoreTitle ==
  /\ titleScan.pc = "storing"
  /\ italian' = [italian EXCEPT ![titleScan.game] =
       [title |-> titleScan.title, next |-> titleClock + RecheckDays, rule |-> TitleRule]]
  /\ lastChosen' = [lastChosen EXCEPT ![titleScan.game] = titleScan.title]
  /\ lastAsked' = [lastAsked EXCEPT ![titleScan.game] = titleClock]
  /\ titleScan' = [titleScan EXCEPT !.pc = "next"]
  /\ UNCHANGED <<titleClock, editions, alternates, titleFaults>>

\* BGG refuses, or its answer is over the limit: the title is kept.
CheckFails(days) ==
  /\ titleScan.pc = "asking" /\ titleFaults < MaxTitleFaults
  /\ titleFaults' = titleFaults + 1
  /\ italian' = [italian EXCEPT ![titleScan.game] = [@ EXCEPT !.next = titleClock + days, !.rule = TitleRule]]
  /\ lastAsked' = [lastAsked EXCEPT ![titleScan.game] = titleClock]
  /\ titleScan' = [titleScan EXCEPT !.pc = "next"]
  /\ UNCHANGED <<titleClock, editions, alternates, lastChosen>>

-----------------------------------------------------------------------------
(* Refreshes, BGG, time and crashes *)

\* _persist_metadata: the payload replaces the document, the keys of the scan
\* are carried over.
PersistMetadata(g, known) ==
  /\ alternates' = [h \in HasRow \cup {g} |-> IF h = g THEN known ELSE alternates[h]]
  /\ UNCHANGED <<titleClock, editions, italian, titleScan, lastChosen, lastAsked, titleFaults>>

ReleaseEdition(g, t) ==
  /\ editions[g][t] = 0
  /\ editions' = [editions EXCEPT ![g][t] = 2]
  /\ UNCHANGED <<titleClock, alternates, italian, titleScan, lastChosen, lastAsked, titleFaults>>

TitleTick ==
  /\ titleClock < MaxTitleClock
  /\ titleClock' = titleClock + 1
  /\ UNCHANGED <<editions, alternates, italian, titleScan, lastChosen, lastAsked, titleFaults>>

TitleCrash ==
  /\ titleScan # Idling /\ titleFaults < MaxTitleFaults
  /\ titleFaults' = titleFaults + 1
  /\ titleScan' = Idling
  /\ UNCHANGED <<titleClock, editions, alternates, italian, lastChosen, lastAsked>>

TitleNext ==
  \/ SelectTitles \/ NextCheck \/ FetchVersions \/ ChooseTitle \/ StoreTitle
  \/ \E days \in {RetryDays, OversizeDays} : CheckFails(days)
  \/ \E g \in TitledGame, known \in SUBSET EditionTitle : PersistMetadata(g, known)
  \/ \E g \in TitledGame, t \in EditionTitle : ReleaseEdition(g, t)
  \/ TitleTick \/ TitleCrash

TitleSpec == TitleInit /\ [][TitleNext]_titleVars

-----------------------------------------------------------------------------
(* Properties *)

\* Two writers share the document: no refresh of the metadata, failed check or
\* crash takes away the title the last answered check chose, and none makes the
\* scan ask BGG for a game again before its retry is due.
TitlesKept ==
  /\ \A g \in TitledGame : italian[g].title = lastChosen[g]
  /\ titleScan.pc = "asking" => titleClock - lastAsked[titleScan.game] >= RetryDays

=============================================================================
