-------------------------- MODULE CrowdfundingWatch --------------------------
(***************************************************************************)
(* The cached feed of two crowdfunding platforms and the producer that     *)
(* notifies about campaigns of games in the library or on the wishlist.    *)
(* A worker scans the whole feed, GET /api/crowdfunding scans the page it  *)
(* is about to return; both write one row per campaign, one notification   *)
(* per row and the baseline in transactions of their own, from what they   *)
(* read before the first of them.                                          *)
(***************************************************************************)
EXTENDS Integers, FiniteSets

CONSTANTS
  Campaign, Gamefound,    \* Gamefound \subseteq Campaign, the others are on Kickstarter
  Upcoming,               \* Kickstarter campaigns that have not started
  FeedWorker, FeedRequest, \* the threads that scan
  PageLimits,             \* values of the parameter "limit"
  NoNews,
  MaxFeedFaults           \* bound: crashes, failed transactions and restarts

VARIABLES
  held,        \* campaigns of the cache file
  cached,      \* the file exists
  kickstarted, \* provider_fetched_at has Kickstarter
  configured,  \* a token for Kickstarter is saved
  target,      \* what a campaign's title matches
  initialised, \* notification_scan_state of the producer
  watch,       \* crowdfunding_watch_state
  notice,      \* notifications of the category
  feedScan,    \* one scan per thread
  origin,      \* history: why the row of a campaign was first written
  listed,      \* history: campaigns a scan was given
  feedFaults
cacheVars == <<held, cached, kickstarted, configured>>
feedVars == <<cacheVars, target, initialised, watch, notice, feedScan, origin, listed,
              feedFaults>>

Kickstarter == Campaign \ Gamefound
FeedScanner == FeedWorker \cup FeedRequest
Waiting == [pc |-> "idle"]

ASSUME FeedAssumption ==
  /\ Gamefound \subseteq Campaign /\ Upcoming \subseteq Kickstarter
  /\ FeedWorker \cap FeedRequest = {} /\ MaxFeedFaults \in Nat

\* A scan of the previous version left rows and no baseline: the migration
\* records one.
FeedInit ==
  /\ held = {} /\ cached = FALSE /\ kickstarted = FALSE /\ configured \in BOOLEAN
  /\ target \in [Campaign -> {"none", "related"}]
  /\ watch \in {{}, Gamefound}
  /\ initialised = (watch # {})
  /\ notice = [c \in Campaign |-> "none"]
  /\ feedScan = [s \in FeedScanner |-> Waiting]
  /\ origin = [c \in Campaign |-> IF c \in watch THEN "baseline" ELSE "none"]
  /\ listed = watch
  /\ feedFaults = 0

FeedTypeOK ==
  /\ held \subseteq Campaign /\ {cached, kickstarted, configured, initialised} \subseteq BOOLEAN
  /\ target \in [Campaign -> {"none", "related", "wished"}]
  /\ notice \in [Campaign -> {"none", "unread", "read"}]
  /\ origin \in [Campaign -> {"none", "baseline", "own wish", "news"}]
  /\ \A c \in Campaign : origin[c] = "none" <=> c \notin watch

-----------------------------------------------------------------------------
(* The feed *)

\* What one platform contributes to a refresh: its answer, any of its
\* campaigns, or after an error what the cache holds of it.
Answers(platform) == SUBSET platform

\* _refresh: Gamefound is asked, Kickstarter when it is configured and its own
\* TTL has run out.  Without campaigns and without a file nothing is written.
Refresh(gamefound, kickstarter, asked) ==
  /\ held' = gamefound \cup kickstarter
  /\ cached' = (cached \/ held' # {})
  /\ kickstarted' = (kickstarted \/ (asked /\ cached'))

\* The refresh of one call of list_campaigns, under the lock of the cache: none
\* while the file is fresh, and always while a configured Kickstarter was
\* never fetched.
Refreshed(token) ==
  \/ /\ cached /\ (token => kickstarted)
     /\ UNCHANGED <<held, cached, kickstarted>>
  \/ \E gamefound \in Answers(Gamefound) \cup {held \cap Gamefound} :
       \/ Refresh(gamefound, held \ Gamefound, FALSE)
       \/ token /\ \E kickstarter \in Answers(Kickstarter) : Refresh(gamefound, kickstarter, TRUE)

\* A platform that is not configured leaks nothing from an old cache.
Visible(campaigns, token) == IF token THEN campaigns ELSE campaigns \cap Gamefound

InStatus(status) ==
  CASE status = "upcoming" -> Upcoming [] status = "active" -> Campaign \ Upcoming [] OTHER -> Campaign
OnPlatform(platform) ==
  CASE platform = "gamefound" -> Gamefound [] platform = "kickstarter" -> Kickstarter [] OTHER -> Campaign
PageFilters ==
  {InStatus(status) \cap OnPlatform(platform) :
     status \in {"all", "active", "upcoming"}, platform \in {"all", "gamefound", "kickstarter"}}

\* The first "limit" items of the chosen order: any that many of them.
Pages(matching, limit) ==
  {page \in SUBSET matching :
     Cardinality(page) = IF Cardinality(matching) < limit THEN Cardinality(matching) ELSE limit}

Hand(s, items) ==
  /\ feedScan' = [feedScan EXCEPT ![s] = [pc |-> "given", items |-> items]]
  /\ listed' = listed \cup items

\* GET /api/crowdfunding scans the page of the filters it was called with.
ListPage(s, filter, limit) ==
  /\ s \in FeedRequest /\ feedScan[s] = Waiting
  /\ Refreshed(configured)
  /\ \E page \in Pages(Visible(held', configured) \cap filter, limit) : Hand(s, page)
  /\ UNCHANGED <<configured, target, initialised, watch, notice, origin, feedFaults>>

\* The worker merges two calls: the active campaigns, then the upcoming ones,
\* with the token it read first.
ListActive(s) ==
  /\ s \in FeedWorker /\ feedScan[s] = Waiting
  /\ Refreshed(configured)
  /\ feedScan' = [feedScan EXCEPT ![s] =
       [pc |-> "active", token |-> configured, items |-> Visible(held', configured) \cap InStatus("active")]]
  /\ UNCHANGED <<configured, target, initialised, watch, notice, origin, listed, feedFaults>>

ListUpcoming(s) ==
  /\ feedScan[s].pc = "active"
  /\ Refreshed(feedScan[s].token)
  /\ Hand(s, feedScan[s].items \cup (Visible(held', feedScan[s].token) \cap InStatus("upcoming")))
  /\ UNCHANGED <<configured, target, initialised, watch, notice, origin, feedFaults>>

-----------------------------------------------------------------------------
(* One scan *)

\* Mutant: the first scan is the one that finds no row, as it was before the
\* baseline had a table.
FirstIfEmpty == watch = {}

IsBaseline == ~initialised

\* Targets, baseline and known keys are three reads.  One instant stands for
\* them: the baseline is recorded once, rows are only added, and a scan that
\* reads no baseline does not use the known keys.
ReadState(s) ==
  /\ feedScan[s].pc = "given"
  /\ LET items == feedScan[s].items
     IN feedScan' = [feedScan EXCEPT ![s] =
          [pc |-> "scanning", todo |-> {c \in items : target[c] # "none"}, any |-> items # {},
           wished |-> {c \in items : target[c] = "wished"}, known |-> watch, news |-> NoNews,
           baseline |-> IsBaseline, recorded |-> initialised]]
  /\ UNCHANGED <<cacheVars, target, initialised, watch, notice, origin, listed, feedFaults>>

\* The row of the next matched campaign; a new one is notified about next,
\* unless this scan is the baseline or the user wished for this very campaign.
WatchCampaign(s, c) ==
  LET scan == feedScan[s]
      silent == c \in scan.known \cup scan.wished \/ scan.baseline
  IN  /\ scan.pc = "scanning" /\ c \in scan.todo
      /\ watch' = watch \cup {c}
      /\ origin' = IF c \in watch THEN origin
                   ELSE [origin EXCEPT ![c] = CASE c \in scan.wished -> "own wish"
                                                [] c \notin scan.wished /\ scan.recorded -> "news"
                                                [] OTHER -> "baseline"]
      /\ feedScan' = [feedScan EXCEPT ![s] =
           [scan EXCEPT !.todo = @ \ {c}, !.news = c, !.pc = IF silent THEN "scanning" ELSE "notifying"]]
      /\ UNCHANGED <<cacheVars, target, initialised, notice, listed, feedFaults>>

\* create_once: an existing notification keeps its read state.
NotifyCampaign(s) ==
  /\ feedScan[s].pc = "notifying"
  /\ notice' = [notice EXCEPT ![feedScan[s].news] = IF @ = "none" THEN "unread" ELSE @]
  /\ feedScan' = [feedScan EXCEPT ![s].pc = "scanning"]
  /\ UNCHANGED <<cacheVars, target, initialised, watch, origin, listed, feedFaults>>

\* The baseline is recorded after the rows, unless nothing was listed.
FinishScan(s) ==
  /\ feedScan[s].pc = "scanning" /\ feedScan[s].todo = {}
  /\ initialised' = (initialised \/ (feedScan[s].baseline /\ feedScan[s].any))
  /\ feedScan' = [feedScan EXCEPT ![s] = Waiting]
  /\ UNCHANGED <<cacheVars, target, watch, notice, origin, listed, feedFaults>>

-----------------------------------------------------------------------------
(* Users and faults *)

\* The library and the wishlist gain and lose titles.
Retarget(c, kind) ==
  /\ target[c] # kind
  /\ target' = [target EXCEPT ![c] = kind]
  /\ UNCHANGED <<cacheVars, initialised, watch, notice, feedScan, origin, listed, feedFaults>>

MarkRead(c, state) ==
  /\ notice[c] # "none" /\ state # "none"
  /\ notice' = [notice EXCEPT ![c] = state]
  /\ UNCHANGED <<cacheVars, target, initialised, watch, feedScan, origin, listed, feedFaults>>

\* A transaction of a scan fails: its caller logs it and goes on without it.
ScanFails(s) ==
  /\ feedFaults < MaxFeedFaults /\ feedScan[s] # Waiting
  /\ feedFaults' = feedFaults + 1
  /\ feedScan' = [feedScan EXCEPT ![s] = Waiting]
  /\ UNCHANGED <<cacheVars, target, initialised, watch, notice, origin, listed>>

\* The settings page saves a token for Kickstarter, or removes it.
SaveToken ==
  /\ configured' = ~configured
  /\ UNCHANGED <<held, cached, kickstarted, target, initialised, watch, notice, feedScan, origin,
                 listed, feedFaults>>

\* The process dies and starts.
RestartFeed ==
  /\ feedFaults < MaxFeedFaults
  /\ feedFaults' = feedFaults + 1
  /\ feedScan' = [s \in FeedScanner |-> Waiting]
  /\ UNCHANGED <<cacheVars, target, initialised, watch, notice, origin, listed>>

FeedNext ==
  \/ \E s \in FeedScanner :
       \/ \E filter \in PageFilters, limit \in PageLimits : ListPage(s, filter, limit)
       \/ ListActive(s) \/ ListUpcoming(s) \/ ReadState(s)
       \/ \E c \in Campaign : WatchCampaign(s, c)
       \/ NotifyCampaign(s) \/ FinishScan(s) \/ ScanFails(s)
  \/ \E c \in Campaign : (\E kind \in {"none", "related", "wished"} : Retarget(c, kind))
                         \/ (\E state \in {"unread", "read"} : MarkRead(c, state))
  \/ SaveToken \/ RestartFeed

FeedSpec == FeedInit /\ [][FeedNext]_feedVars

-----------------------------------------------------------------------------
(* Properties *)

\* However scans of the worker and of requests overlap: nothing is notified
\* before a scan that listed something has recorded the baseline, a campaign is
\* notified about only after its row was written, and a campaign whose row was
\* first written by a later scan has its notification or a scan about to make
\* it.  Only a crash or an error between the two transactions loses one.
CampaignsAnnounced ==
  /\ initialised => listed # {}
  /\ \A c \in Campaign : notice[c] # "none" => initialised /\ c \in watch
  /\ feedFaults = 0 =>
       \A c \in Campaign : origin[c] = "news" =>
         notice[c] # "none" \/ \E s \in FeedScanner : feedScan[s].pc = "notifying" /\ feedScan[s].news = c

=============================================================================
