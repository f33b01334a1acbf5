---------------------------- MODULE ProviderRequests ----------------------------
(***************************************************************************)
(* How discovery reads the sites of publishers: PublisherSiteProvider walks*)
(* a bounded number of pages of its own origins and asks robots.txt before *)
(* every one; ProviderHttpClient retries and follows redirects; and the    *)
(* PersistentRateLimiter spaces the requests to one host, whichever service*)
(* instance sends them.  Runs of the worker and of requests overlap.       *)
(***************************************************************************)
EXTENDS Integers, Sequences, FiniteSets, FiniteSetsExt, SequencesExt

CONSTANTS Crawl,           \* discover calls that overlap
          SitePage,        \* [host, product, listed]: URLs of the site; listed
                           \* are those that its robots.txt forbids
          EntryPages,      \* a sequence: entry URLs and results of searches
          MaxPages, MaxAttempts, MaxMoves, Interval,    \* of provider and client
          MaxTick          \* bound

ASSUME RequestConstants ==
  /\ IsFiniteSet(SitePage) /\ EntryPages \in Seq(SitePage)
  /\ {MaxPages, MaxMoves, Interval, MaxTick} \subseteq Nat /\ MaxAttempts \in Nat \ {0}

SiteHost == {p.host : p \in SitePage}

VARIABLES tick, gate, grants, crawl
requestVars == <<tick, gate, grants, crawl>>

NotCrawling == [stage |-> "none"]

\* gate is next_allowed_at of a host, 0 without a row; grants are the clocks
\* that the granted calls had read.
RequestsInit ==
  /\ tick = 0
  /\ gate = [h \in SiteHost |-> 0] /\ grants = [h \in SiteHost |-> <<>>]
  /\ crawl = [c \in Crawl |-> NotCrawling]

Change(c, record) == crawl' = [crawl EXCEPT ![c] = record] /\ UNCHANGED tick

\* An error ends the call, and what it found is lost.
GiveUp(c) == Change(c, NotCrawling) /\ UNCHANGED <<gate, grants>>

-----------------------------------------------------------------------------
(* The crawl *)

\* The service is built for every batch: nothing is known of robots.txt.  A
\* request is for "page" at a page, or for the "robots" of its host.
StartCrawl(c) ==
  /\ crawl[c] = NotCrawling /\ EntryPages # <<>>
  /\ Change(c, [stage |-> "next", paths |-> EntryPages, seen |-> {}, count |-> 0, sent |-> 0,
                robots |-> [h \in SiteHost |-> "unknown"],
                want |-> "page", at |-> EntryPages[1], host |-> EntryPages[1].host,
                attempt |-> 0, moves |-> 0, kept |-> 0, clock |-> 0])
  /\ UNCHANGED <<gate, grants>>

May(s, p) == s.robots[p.host] = "all" \/ (s.robots[p.host] = "rules" /\ ~p.listed)

Requesting(s, want, p) == [s EXCEPT !.stage = "clock", !.want = want, !.at = p, !.host = p.host, !.attempt = 0]

\* The robots.txt of p's host is a request of its own, with its own redirects.
\* A forbidden page counts as visited, a forbidden redirect is an error.
Toward(c, s, p) ==
  CASE s.robots[p.host] = "unknown" -> Change(c, [Requesting(s, "robots", p) EXCEPT !.kept = s.moves, !.moves = 0])
    [] s.robots[p.host] # "unknown" /\ May(s, p) -> Change(c, Requesting(s, "page", p))
    [] OTHER -> Change(c, IF s.moves > 0 THEN NotCrawling ELSE [s EXCEPT !.stage = "next", !.count = @ + 1])

NextPage(c) ==
  LET s == crawl[c]
      rest == [s EXCEPT !.paths = Tail(@), !.seen = @ \cup {Head(s.paths)}, !.moves = 0]
  IN /\ s.stage = "next" /\ s.paths # <<>> /\ s.count < MaxPages
     /\ IF Head(s.paths) \in s.seen THEN Change(c, rest) ELSE Toward(c, rest, Head(s.paths))
     /\ UNCHANGED <<gate, grants>>

EndCrawl(c) ==
  /\ crawl[c].stage = "next" /\ (crawl[c].paths = <<>> \/ crawl[c].count >= MaxPages)
  /\ GiveUp(c)

-----------------------------------------------------------------------------
(* The rate limiter *)

\* The clock is read before the transaction.
ReadGateClock(c) ==
  /\ crawl[c].stage = "clock"
  /\ Change(c, [crawl[c] EXCEPT !.stage = "gate", !.clock = tick])
  /\ UNCHANGED <<gate, grants>>

AskGate(c) ==
  LET s == crawl[c]
  IN /\ s.stage = "gate"
     /\ IF gate[s.host] <= s.clock
        THEN /\ gate' = [gate EXCEPT ![s.host] = s.clock + Interval]
             /\ grants' = [grants EXCEPT ![s.host] = Append(@, s.clock)]
             /\ Change(c, [s EXCEPT !.stage = "send"])
        ELSE /\ Change(c, [s EXCEPT !.stage = "sleep",
                                    !.clock = tick + Min({gate[s.host] - s.clock, Interval})])
             /\ UNCHANGED <<gate, grants>>

WakeUp(c) ==
  /\ crawl[c].stage = "sleep" /\ tick >= crawl[c].clock
  /\ Change(c, [crawl[c] EXCEPT !.stage = "clock"])
  /\ UNCHANGED <<gate, grants>>

-----------------------------------------------------------------------------
(* The request *)

Sent(c) == [crawl[c] EXCEPT !.sent = @ + 1]

\* A timeout, an error of the connection, 408, 429 or 5xx.
AttemptFails(c) ==
  LET s == Sent(c)
  IN /\ crawl[c].stage = "send"
     /\ IF s.attempt + 1 < MaxAttempts
        THEN Change(c, [s EXCEPT !.attempt = @ + 1, !.stage = "clock"]) /\ UNCHANGED <<gate, grants>>
        ELSE GiveUp(c)

\* Another status, an encoding, a size or a policy that cannot be read.
RequestRejected(c) == crawl[c].stage = "send" /\ GiveUp(c)

\* Mutant: robots.txt is asked for the first URL only.
RequestMovedFreely(c, p) ==
  LET s == [Sent(c) EXCEPT !.moves = @ + 1]
  IN /\ crawl[c].stage = "send"
     /\ IF s.moves > MaxMoves THEN GiveUp(c)
        ELSE Change(c, [s EXCEPT !.stage = "clock", !.at = p, !.host = p.host, !.attempt = 0]) /\ UNCHANGED <<gate, grants>>

\* A redirect leads to an origin of the site; a page is asked for in robots.txt
\* again, and the policy of its host is fetched when it is not known.
RequestMoved(c, p) ==
  LET s == [Sent(c) EXCEPT !.moves = @ + 1]
  IN /\ crawl[c].stage = "send"
     /\ IF s.moves > MaxMoves THEN GiveUp(c)
        ELSE /\ IF s.want = "page" THEN Toward(c, s, p)
                ELSE Change(c, [s EXCEPT !.stage = "clock", !.host = p.host, !.attempt = 0])
             /\ UNCHANGED <<gate, grants>>

\* 403 forbids everything, 404 nothing.
RobotsAnswered(c, policy) ==
  LET s == Sent(c)
  IN /\ crawl[c].stage = "send" /\ s.want = "robots"
     /\ Toward(c, [s EXCEPT !.robots[s.at.host] = policy, !.moves = s.kept], s.at)
     /\ UNCHANGED <<gate, grants>>

\* Product pages that match the title are appended; with enough files, or
\* with nothing left, the call returns.
PageAnswered(c, links, enough) ==
  LET s == Sent(c)
  IN /\ crawl[c].stage = "send" /\ s.want = "page"
     /\ Change(c, IF enough THEN NotCrawling
                  ELSE [s EXCEPT !.stage = "next", !.count = @ + 1, !.paths = @ \o SetToSeq(links \ s.seen)])
     /\ UNCHANGED <<gate, grants>>

RequestTick ==
  /\ tick < MaxTick /\ tick' = tick + 1
  /\ UNCHANGED <<gate, grants, crawl>>

RequestsNext ==
  \/ \E c \in Crawl :
       \/ StartCrawl(c) \/ NextPage(c) \/ EndCrawl(c)
       \/ ReadGateClock(c) \/ AskGate(c) \/ WakeUp(c)
       \/ AttemptFails(c) \/ RequestRejected(c)
       \/ \E p \in SitePage : RequestMoved(c, p)
       \/ \E policy \in {"all", "none", "rules"} : RobotsAnswered(c, policy)
       \/ \E links \in SUBSET {p \in SitePage : p.product}, enough \in BOOLEAN : PageAnswered(c, links, enough)
  \/ RequestTick

RequestsSpec == RequestsInit /\ [][RequestsNext]_requestVars

-----------------------------------------------------------------------------
(* Properties *)

(* Reading the sites is polite, whoever reads them at the same time: the   *)
(* calls that one host's gate let through had read clocks an interval      *)
(* apart; no page is requested that the robots.txt of its own host forbids,*)
(* also after a redirect to another host; and redirects that reset the     *)
(* attempts leave the requests of a call bounded.                          *)
CrawlPolite ==
  /\ \A h \in SiteHost : \A i \in 1..(Len(grants[h]) - 1) : grants[h][i + 1] >= grants[h][i] + Interval
  /\ \A c \in Crawl : crawl[c] # NotCrawling =>
       /\ crawl[c].stage \in {"clock", "gate", "sleep", "send"} /\ crawl[c].want = "page" => May(crawl[c], crawl[c].at)
       /\ crawl[c].sent <= (MaxPages + Cardinality(SiteHost)) * (MaxMoves + 1) * MaxAttempts

=============================================================================
