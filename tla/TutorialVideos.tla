---------------------------- MODULE TutorialVideos ----------------------------
(***************************************************************************)
(* The search for tutorial videos.  A worker takes the owned games that    *)
(* are due, the ones without videos first, asks YouTube for Italian and    *)
(* then for English tutorials, replaces the videos of the game in one      *)
(* transaction and records the attempt in another.  A request of the page  *)
(* does the same for one game and records no attempt.                      *)
(***************************************************************************)
EXTENDS Integers, Sequences, FiniteSets

CONSTANTS
  TutorialGame,     \* owned games, numbered in the order of their titles
  Video,            \* [id, official, views, relevance, languages]
  VideoPoster,      \* threads of POST /api/games/{id}/tutorial-videos/discover
  VideoBatch, VideoRefresh,
  MaxVideoClock, MaxVideoFaults, \* bounds: time; errors, quota answers and crashes
  MaxVideoChanges                \* bound: changes of what YouTube finds

VARIABLES
  videoClock,
  keyed,       \* an API key is saved
  offered,     \* the videos YouTube finds, by game
  tutorials,   \* game_tutorial_videos: [video, language, at], by game
  attempted,   \* tutorial_discovery_state.last_attempt_at
  finding,     \* the discovery of each thread
  answered,    \* history: when the worker last got an answer for a game
  videoFaults, videoChanges
videoVars == <<videoClock, keyed, offered, tutorials, attempted, finding, answered, videoFaults,
               videoChanges>>

VideoWorker == "worker"
Finder == {VideoWorker} \cup VideoPoster
NoAttempt == -1
Resting == [pc |-> "resting", rows |-> <<>>, game |-> 0, chosen |-> {}]
Pickings == [video : Video, language : {"it", "en"}]

ASSUME TutorialAssumption ==
  /\ TutorialGame \subseteq Nat \ {0} /\ VideoWorker \notin VideoPoster
  /\ IsFiniteSet(Video) /\ \A v, w \in Video : v.official \in BOOLEAN /\ (v.id = w.id => v = w)
  /\ VideoBatch \in Nat \ {0} /\ VideoRefresh \in Nat \ {0}

VideoInit ==
  /\ videoClock = 0 /\ keyed \in BOOLEAN
  /\ offered \in [TutorialGame -> SUBSET Video]
  /\ tutorials = [g \in TutorialGame |-> {}]
  /\ attempted = [g \in TutorialGame |-> NoAttempt]
  /\ finding = [t \in Finder |-> Resting]
  /\ answered = [g \in TutorialGame |-> NoAttempt]
  /\ videoFaults = 0 /\ videoChanges = 0

VideoTypeOK ==
  /\ videoClock \in Nat /\ keyed \in BOOLEAN /\ videoFaults \in Nat
  /\ offered \in [TutorialGame -> SUBSET Video]
  /\ attempted \in [TutorialGame -> Nat \cup {NoAttempt}]
  /\ \A t \in Finder :
       /\ finding[t].pc \in {"resting", "next", "it", "en", "storing", "recording"}
       /\ finding[t].game \in TutorialGame \cup {0} /\ finding[t].chosen \subseteq Pickings

-----------------------------------------------------------------------------
(* One game *)

\* What passes the filters of a language: a title or a description with one of
\* its markers, and no other declared language.
Candidates(g, language) == {v \in offered[g] : language \in v.languages}

\* One official video by relevance and then views, one of the community by
\* views and then relevance; of equal ones the first in the answer, hence any.
Selections(found) ==
  LET Beaten(v, w) == \/ v.official /\ w.relevance > v.relevance
                      \/ v.official /\ w.relevance = v.relevance /\ w.views > v.views
                      \/ ~v.official /\ w.views > v.views
                      \/ ~v.official /\ w.views = v.views /\ w.relevance > v.relevance
      best == {v \in found : ~\E w \in found : w.official = v.official /\ Beaten(v, w)}
  IN  {s \in SUBSET best : \A kind \in BOOLEAN :
         Cardinality({v \in s : v.official = kind}) = IF \E v \in best : v.official = kind THEN 1 ELSE 0}

\* _search_language: two calls of the API.
SearchLanguage(t, language) ==
  /\ finding[t].pc = language
  /\ \E picked \in Selections(Candidates(finding[t].game, language)) :
       finding' = [finding EXCEPT
         ![t].chosen = @ \cup {[video |-> v, language |-> language] : v \in picked},
         ![t].pc = IF language = "it" THEN "en" ELSE "storing"]
  /\ UNCHANGED <<videoClock, keyed, offered, tutorials, attempted, answered, videoFaults, videoChanges>>

\* The key of the table is the game and the video.
Collides(chosen) ==
  \E a, b \in chosen : a.video.id = b.video.id /\ a.language # b.language

\* One transaction deletes the videos of the game and inserts the chosen ones.
StoreVideos(t) ==
  LET g == finding[t].game
  IN  /\ finding[t].pc = "storing" /\ ~Collides(finding[t].chosen)
      /\ tutorials' = [tutorials EXCEPT ![g] =
           {[video |-> c.video, language |-> c.language, at |-> videoClock] : c \in finding[t].chosen}]
      /\ answered' = IF t = VideoWorker THEN [answered EXCEPT ![g] = videoClock] ELSE answered
      /\ finding' = [finding EXCEPT ![t] = IF t = VideoWorker THEN [@ EXCEPT !.pc = "recording"] ELSE Resting]
      /\ UNCHANGED <<videoClock, keyed, offered, attempted, videoFaults, videoChanges>>

\* A video chosen for both languages violates the key: the transaction is
\* rolled back, and the error is none that discover_due catches.
StoreCollides(t) ==
  /\ finding[t].pc = "storing" /\ Collides(finding[t].chosen)
  /\ finding' = [finding EXCEPT ![t] = Resting]
  /\ UNCHANGED <<videoClock, keyed, offered, tutorials, attempted, answered, videoFaults, videoChanges>>

\* An error of the API is recorded as an attempt; HTTP 403 and "quota" end the
\* poll and leave the game due.
ApiFails(t, quota) ==
  LET worker == t = VideoWorker
  IN  /\ finding[t].pc \in {"it", "en"} /\ videoFaults < MaxVideoFaults
      /\ videoFaults' = videoFaults + 1
      /\ answered' = IF worker /\ ~quota THEN [answered EXCEPT ![finding[t].game] = videoClock] ELSE answered
      /\ finding' = [finding EXCEPT ![t] = IF worker /\ ~quota THEN [@ EXCEPT !.pc = "recording"] ELSE Resting]
      /\ UNCHANGED <<videoClock, keyed, offered, tutorials, attempted, videoChanges>>

-----------------------------------------------------------------------------
(* The worker and the page *)

\* Mutant: a game without videos is due again at once.
VideoDueWhileEmpty ==
  {g \in TutorialGame : tutorials[g] = {} \/ attempted[g] + VideoRefresh <= videoClock}

VideoDue == {g \in TutorialGame : attempted[g] = NoAttempt \/ attempted[g] + VideoRefresh <= videoClock}

\* Games without videos, then the longest not attempted, then by title.
SearchedBefore(a, b) ==
  LET bare(g) == IF tutorials[g] = {} THEN 0 ELSE 1
  IN  \/ bare(a) < bare(b)
      \/ bare(a) = bare(b) /\ attempted[a] < attempted[b]
      \/ bare(a) = bare(b) /\ attempted[a] = attempted[b] /\ a < b

SelectGames ==
  /\ finding[VideoWorker] = Resting /\ keyed
  /\ \E n \in 1..VideoBatch : \E rows \in [1..n -> VideoDue] :
       /\ \A i, j \in 1..n : i < j => SearchedBefore(rows[i], rows[j])
       /\ LET rest == VideoDue \ {rows[i] : i \in 1..n}
          IN  /\ n = VideoBatch \/ rest = {}
              /\ \A g \in rest : SearchedBefore(rows[n], g)
       /\ finding' = [finding EXCEPT ![VideoWorker] = [Resting EXCEPT !.pc = "next", !.rows = rows]]
  /\ UNCHANGED <<videoClock, keyed, offered, tutorials, attempted, answered, videoFaults, videoChanges>>

NextRow ==
  LET rows == finding[VideoWorker].rows
  IN  /\ finding[VideoWorker].pc = "next"
      /\ finding' = [finding EXCEPT ![VideoWorker] =
           IF rows = <<>> THEN Resting
           ELSE [Resting EXCEPT !.pc = "it", !.game = Head(rows), !.rows = Tail(rows)]]
      /\ UNCHANGED <<videoClock, keyed, offered, tutorials, attempted, answered, videoFaults, videoChanges>>

RecordAttempt ==
  /\ finding[VideoWorker].pc = "recording"
  /\ attempted' = [attempted EXCEPT ![finding[VideoWorker].game] = videoClock]
  /\ finding' = [finding EXCEPT ![VideoWorker].pc = "next"]
  /\ UNCHANGED <<videoClock, keyed, offered, tutorials, answered, videoFaults, videoChanges>>

PostDiscover(t, g) ==
  /\ t \in VideoPoster /\ finding[t] = Resting /\ keyed
  /\ finding' = [finding EXCEPT ![t] = [Resting EXCEPT !.pc = "it", !.game = g]]
  /\ UNCHANGED <<videoClock, keyed, offered, tutorials, attempted, answered, videoFaults, videoChanges>>

\* A thread keeps the key it began with.
SaveKey ==
  /\ videoChanges < MaxVideoChanges /\ videoChanges' = videoChanges + 1
  /\ keyed' = ~keyed
  /\ UNCHANGED <<videoClock, offered, tutorials, attempted, finding, answered, videoFaults>>

-----------------------------------------------------------------------------
(* YouTube, time and faults *)

OtherVideos(g, found) ==
  /\ videoChanges < MaxVideoChanges /\ videoChanges' = videoChanges + 1
  /\ offered' = [offered EXCEPT ![g] = found]
  /\ UNCHANGED <<videoClock, keyed, tutorials, attempted, finding, answered, videoFaults>>

VideoTick ==
  /\ videoClock < MaxVideoClock
  /\ videoClock' = videoClock + 1
  /\ UNCHANGED <<keyed, offered, tutorials, attempted, finding, answered, videoFaults, videoChanges>>

VideoCrash ==
  /\ videoFaults < MaxVideoFaults /\ \E t \in Finder : finding[t] # Resting
  /\ videoFaults' = videoFaults + 1
  /\ finding' = [t \in Finder |-> Resting]
  /\ answered' = attempted
  /\ UNCHANGED <<videoClock, keyed, offered, tutorials, attempted, videoChanges>>

Discover(t) ==
  \/ \E language \in {"it", "en"} : SearchLanguage(t, language)
  \/ StoreVideos(t) \/ StoreCollides(t)

PollVideos == SelectGames \/ NextRow \/ Discover(VideoWorker) \/ RecordAttempt

VideoNext ==
  \/ PollVideos
  \/ \E t \in VideoPoster : Discover(t) \/ \E g \in TutorialGame : PostDiscover(t, g)
  \/ \E t \in Finder, quota \in BOOLEAN : ApiFails(t, quota)
  \/ SaveKey \/ VideoTick \/ VideoCrash
  \/ \E g \in TutorialGame, found \in SUBSET Video : OtherVideos(g, found)

\* The worker polls for ever and its requests have timeouts.
VideoSpec == VideoInit /\ [][VideoNext]_videoVars /\ WF_videoVars(PollVideos)

-----------------------------------------------------------------------------
(* Properties *)

\* However the worker, requests and crashes overlap, the videos of a game are
\* those of one discovery: one official and one of the community for each
\* language at most, none twice; and a game the worker got an answer for, good
\* or bad, is not searched by it again before the refresh interval is over,
\* although requests for the same game record nothing.
TutorialsShown ==
  /\ \A g \in TutorialGame : \A a, b \in tutorials[g] :
       /\ a.at = b.at
       /\ a # b => a.video.id # b.video.id /\ ~(a.language = b.language /\ a.video.official = b.video.official)
  /\ LET g == finding[VideoWorker].game
     IN  finding[VideoWorker].pc \in {"it", "en"} /\ answered[g] # NoAttempt =>
           videoClock - answered[g] >= VideoRefresh

\* The search is bounded and catalog-wide (docs/ROADMAP.md:25): while there is
\* a key, every owned game gets its attempt.
CatalogSearched == <>[]keyed => \A g \in TutorialGame : <>(attempted[g] # NoAttempt)

=============================================================================
