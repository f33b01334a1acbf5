---------------------------- MODULE ExpansionWatch ----------------------------
(***************************************************************************)
(* The worker that watches BGG for new expansions of owned games.  A scan  *)
(* fetches the links of a game, reads what is known, writes all watch rows *)
(* in one transaction, the notifications in one transaction each, and the  *)
(* scan with its baseline last.                                            *)
(***************************************************************************)
EXTENDS Integers

CONSTANTS
  BaseGame, Expansion,
  Minor,               \* expansions with the title of a promo or an accessory
  NoGame,
  MaxWatchFaults       \* bound: crashes and failed transactions

VARIABLES
  inCollection, \* base games and expansions with a collection entry that has own = 1
  due,         \* expansion_scan_state.next_check_at has come
  complete,    \* expansion_scan_state.baseline_complete
  watched,     \* expansion_watch_state, by game
  announced,   \* notifications of the category: "unread" or "read"
  linkScan,    \* the scan of the worker
  reason,      \* history: what a watch row was when it was first written
  recorded,    \* history: games with a scan recorded as successful
  watchFaults
expansionVars == <<inCollection, due, complete, watched, announced, linkScan, reason, recorded, watchFaults>>

ASSUME WatchAssumption ==
  /\ Minor \subseteq Expansion /\ NoGame \notin BaseGame /\ MaxWatchFaults \in Nat

Asleep == [pc |-> "asleep", batch |-> {}, game |-> NoGame, links |-> {}, known |-> {},
           had |-> {}, baseline |-> FALSE, news |-> {}]

ExpansionInit ==
  /\ inCollection \in SUBSET (BaseGame \cup Expansion)
  /\ due = BaseGame /\ complete = {} /\ recorded = {}
  /\ watched = [g \in BaseGame |-> {}]
  /\ announced = [g \in BaseGame |-> [x \in Expansion |-> "none"]]
  /\ linkScan = Asleep
  /\ reason = [g \in BaseGame |-> [x \in Expansion |-> "none"]]
  /\ watchFaults = 0

ExpansionTypeOK ==
  /\ inCollection \subseteq BaseGame \cup Expansion
  /\ due \cup complete \cup recorded \cup linkScan.batch \subseteq BaseGame
  /\ watched \in [BaseGame -> SUBSET Expansion]
  /\ announced \in [BaseGame -> [Expansion -> {"none", "unread", "read"}]]
  /\ reason \in [BaseGame -> [Expansion -> {"none", "baseline", "owned", "minor", "news"}]]
  /\ linkScan.pc \in {"asleep", "next", "fetching", "fetched", "read", "notifying"}

-----------------------------------------------------------------------------
(* The worker *)

\* scan_due selects owned games whose check is due, then scans them one by one.
SelectDue ==
  /\ linkScan.pc = "asleep"
  /\ due \cap inCollection # {}
  /\ linkScan' = [Asleep EXCEPT !.pc = "next", !.batch = due \cap inCollection]
  /\ UNCHANGED <<inCollection, due, complete, watched, announced, reason, recorded, watchFaults>>

\* The game is not checked for its owner again.
NextGame ==
  /\ linkScan.pc = "next"
  /\ IF linkScan.batch = {} THEN linkScan' = Asleep
     ELSE \E g \in linkScan.batch :
            linkScan' = [Asleep EXCEPT !.pc = "fetching", !.batch = linkScan.batch \ {g}, !.game = g]
  /\ UNCHANGED <<inCollection, due, complete, watched, announced, reason, recorded, watchFaults>>

\* BGG answers with the links of the game, an empty list included.
FetchLinks(links) ==
  /\ linkScan.pc = "fetching"
  /\ linkScan' = [linkScan EXCEPT !.pc = "fetched", !.links = links]
  /\ UNCHANGED <<inCollection, due, complete, watched, announced, reason, recorded, watchFaults>>

\* No client, an error, or metadata without a list of expansions: the error is
\* recorded, an earlier baseline kept, and the game is due again later.
FetchFails ==
  /\ linkScan.pc = "fetching"
  /\ due' = due \ {linkScan.game}
  /\ linkScan' = [linkScan EXCEPT !.pc = "next"]
  /\ UNCHANGED <<inCollection, complete, watched, announced, reason, recorded, watchFaults>>

\* The baseline and the known rows, then what the user owns.
ReadKnown ==
  /\ linkScan.pc = "fetched"
  /\ linkScan' = [linkScan EXCEPT !.pc = "read", !.baseline = linkScan.game \in complete,
                                  !.known = watched[linkScan.game], !.had = inCollection]
  /\ UNCHANGED <<inCollection, due, complete, watched, announced, reason, recorded, watchFaults>>

\* What the history calls the first row of an expansion.
Reason(g, x) ==
  CASE g \notin recorded -> "baseline"
    [] g \in recorded /\ x \in Minor -> "minor"
    [] g \in recorded /\ x \notin Minor /\ x \in linkScan.had -> "owned"
    [] OTHER -> "news"

\* One transaction for all links.
WatchLinks ==
  LET g == linkScan.game
      first == linkScan.links \ watched[g]
  IN  /\ linkScan.pc = "read"
      /\ watched' = [watched EXCEPT ![g] = @ \cup linkScan.links]
      /\ reason' = [reason EXCEPT ![g] = [x \in Expansion |-> IF x \in first THEN Reason(g, x) ELSE @[x]]]
      /\ linkScan' = [linkScan EXCEPT !.pc = "notifying", !.news =
           IF linkScan.baseline THEN linkScan.links \ (Minor \cup linkScan.known \cup linkScan.had) ELSE {}]
      /\ UNCHANGED <<inCollection, due, complete, announced, recorded, watchFaults>>

\* create_once: an existing notification keeps its read state.
NotifyExpansion(x) ==
  /\ linkScan.pc = "notifying" /\ x \in linkScan.news
  /\ announced' = [announced EXCEPT ![linkScan.game][x] = IF @ = "none" THEN "unread" ELSE @]
  /\ linkScan' = [linkScan EXCEPT !.news = @ \ {x}]
  /\ UNCHANGED <<inCollection, due, complete, watched, reason, recorded, watchFaults>>

\* _record_scan: from now on there is a baseline.
RecordScan ==
  /\ linkScan.pc = "notifying" /\ linkScan.news = {}
  /\ due' = due \ {linkScan.game}
  /\ complete' = complete \cup {linkScan.game}
  /\ recorded' = recorded \cup {linkScan.game}
  /\ linkScan' = [linkScan EXCEPT !.pc = "next"]
  /\ UNCHANGED <<inCollection, watched, announced, reason, watchFaults>>

-----------------------------------------------------------------------------
(* Users, time and faults *)

ChangeOwned(item) ==
  /\ inCollection' = IF item \in inCollection THEN inCollection \ {item} ELSE inCollection \cup {item}
  /\ UNCHANGED <<due, complete, watched, announced, linkScan, reason, recorded, watchFaults>>

CheckComes(g) ==
  /\ g \notin due
  /\ due' = due \cup {g}
  /\ UNCHANGED <<inCollection, complete, watched, announced, linkScan, reason, recorded, watchFaults>>

\* mark_read, both ways.
MarkExpansion(g, x, state) ==
  /\ announced[g][x] # "none" /\ state # "none"
  /\ announced' = [announced EXCEPT ![g][x] = state]
  /\ UNCHANGED <<inCollection, due, complete, watched, linkScan, reason, recorded, watchFaults>>

\* A transaction of the scan fails: scan_due counts it and goes on with the
\* next game, whose turn it still is.
ScanGameFails ==
  /\ linkScan.pc \in {"fetched", "read", "notifying"} /\ watchFaults < MaxWatchFaults
  /\ watchFaults' = watchFaults + 1
  /\ linkScan' = [linkScan EXCEPT !.pc = "next"]
  /\ UNCHANGED <<inCollection, due, complete, watched, announced, reason, recorded>>

WatchCrash ==
  /\ linkScan # Asleep /\ watchFaults < MaxWatchFaults
  /\ watchFaults' = watchFaults + 1
  /\ linkScan' = Asleep
  /\ UNCHANGED <<inCollection, due, complete, watched, announced, reason, recorded>>

ExpansionNext ==
  \/ SelectDue \/ NextGame
  \/ \E links \in SUBSET Expansion : FetchLinks(links)
  \/ FetchFails \/ ReadKnown \/ WatchLinks
  \/ \E x \in Expansion : NotifyExpansion(x)
  \/ RecordScan \/ ScanGameFails \/ WatchCrash
  \/ \E item \in BaseGame \cup Expansion : ChangeOwned(item)
  \/ \E g \in BaseGame : CheckComes(g)
  \/ \E g \in BaseGame, x \in Expansion, state \in {"unread", "read"} : MarkExpansion(g, x, state)

ExpansionSpec == ExpansionInit /\ [][ExpansionNext]_expansionVars

-----------------------------------------------------------------------------
(* Properties *)

\* Failed fetches, failed scans and crashes before the first recorded scan turn
\* nothing that exists into news, and after it none hides what is new: every
\* expansion first seen by a later scan, not minor and not owned then, has its
\* notification or is about to get it, unless a fault fell between the watch
\* rows and the notifications; and nothing else is ever notified about.
ExpansionsAnnounced ==
  \A g \in BaseGame, x \in Expansion :
    /\ announced[g][x] # "none" => reason[g][x] = "news"
    /\ reason[g][x] = "news" /\ watchFaults = 0 =>
         announced[g][x] # "none" \/ (linkScan.game = g /\ x \in linkScan.news)

=============================================================================
