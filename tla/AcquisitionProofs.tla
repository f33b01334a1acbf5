--------------------------- MODULE AcquisitionProofs ---------------------------
(***************************************************************************)
(* Proofs about the parts that find and fetch rulebooks: what is approved  *)
(* unattended has evidence (ProviderAdapters), the guarded download gives  *)
(* back what it uses, stores what it fetched and comes nearer to its end   *)
(* with every step (RulebookFetch), the sites of publishers are read       *)
(* politely (ProviderRequests), and offers are resolved in the documented  *)
(* order (RulebookResolver).                                               *)
(***************************************************************************)
EXTENDS ProviderAdapters, RulebookFetch, ProviderRequests, RulebookResolver,
        FiniteSetTheorems, SequenceTheorems, WellFoundedInduction, TLAPS

-----------------------------------------------------------------------------
(* What the adapters conclude *)

Evidence(candidate, page) ==
  /\ known.fetched
  /\ known.published \/ page.title \in BggTitle
  /\ page.place = "search" => candidate.provider # "site"

LEMMA SiteEvidence ==
  ASSUME NEW page \in Page, NEW c \in PublisherSite(page), Unattended(c)
  PROVE  Evidence(c, page)
<1> DEFINE identity == IF page.place = "index" THEN SiteIdentity([page EXCEPT !.linked = "none"])
                       ELSE SiteIdentity(page)
           guessed == page.lang = "it" /\ ~page.says
           strong == identity = 100 /\ page.place # "search" /\ ~guessed
<1>1. c = Offered("site", TRUE, IF strong THEN 100 ELSE 90, strong, page.lang)
  BY DEF PublisherSite, OnlyIf
<1>2. strong
  BY <1>1 DEF Unattended, Offered
<1>3. ASSUME NEW p \in Page, SiteIdentity(p) = 100
      PROVE  known.fetched /\ p.title \in BggTitle
  BY <1>3 DEF SiteIdentity, Verified, VerifiedTitleMatches, VerifiedTitles
<1>4. [page EXCEPT !.linked = "none"] \in Page /\ [page EXCEPT !.linked = "none"].title = page.title
  BY DEF Page
<1>5. known.fetched /\ page.title \in BggTitle /\ page.place # "search"
  BY <1>2, <1>3, <1>4
<1> QED
  BY <1>5 DEF Evidence

\* The other adapters ask BGG for the publisher or for the title; what is not
\* official is never approved.
LEMMA OffersHaveEvidence ==
  ASSUME NEW page \in Page, NEW hint \in Hint, NEW c \in Offers(page, hint), Unattended(c)
  PROVE  Evidence(c, page)
<1>1. CASE c \in PublisherSite(page)
  BY <1>1, SiteEvidence
<1>2. CASE c \in AsmodeeItalia(page)
  <2>1. c = Offered("asmodee", TRUE, IF Verified /\ VerifiedTitleMatches(page.title) THEN 100 ELSE 94,
                    Verified /\ VerifiedTitleMatches(page.title), "it")
    BY <1>2 DEF AsmodeeItalia, OnlyIf
  <2>2. Verified /\ VerifiedTitleMatches(page.title) /\ c.provider = "asmodee"
    BY <2>1 DEF Unattended, Offered
  <2> QED
    BY <2>2 DEF Evidence, Verified, VerifiedTitleMatches, VerifiedTitles
<1>3. CASE c \in PendragonItalia(page)
  <2>1. VerifiedPublisher /\ c.provider = "pendragon"
    BY <1>3 DEF PendragonItalia, OnlyIf, Offered
  <2> QED
    BY <2>1 DEF Evidence, VerifiedPublisher
<1>4. CASE c \in MsEdizioni(page)
  <2>1. VerifiedPublisher /\ c.provider = "ms"
    BY <1>4 DEF MsEdizioni, OnlyIf, Offered
  <2> QED
    BY <2>1 DEF Evidence, VerifiedPublisher
<1>5. CASE c \in ReposOffers(page, hint)
  <2>1. PICK t \in QueryTitles : c \in ReposProduction(page, t)
    BY <1>5, Zenon DEF ReposOffers
  <2>2. c = Offered("repos", TRUE, 100, VerifiedPublisher /\ VerifiedTitleMatches(t), page.lang)
    BY <2>1 DEF ReposProduction, OnlyIf
  <2>3. VerifiedPublisher /\ c.provider = "repos"
    BY <2>2 DEF Unattended, Offered
  <2> QED
    BY <2>3 DEF Evidence, VerifiedPublisher
<1>6. CASE c \in CuratedOffers(page, hint)
  <2>1. PICK p \in {"ffg", "dragori", "monolith", "poulp"} : c \in CuratedExpansion(p, page)
    <3>1. PICK p : /\ p \in IF hint = "words" THEN {"ffg", "dragori", "monolith", "poulp"} ELSE {}
                   /\ c \in CuratedExpansion(p, page)
      BY <1>6, Zenon DEF CuratedOffers
    <3> QED
      BY <3>1
  <2>2. VerifiedPublisher /\ c.provider = p
    BY <2>1 DEF CuratedExpansion, OnlyIf, Offered
  <2> QED
    BY <2>2 DEF Evidence, VerifiedPublisher
<1>7. ASSUME NEW match, c \in AwakenRealms(page, match) PROVE Evidence(c, page)
  <2>1. VerifiedPublisher /\ c.provider = "awaken"
    BY <1>7 DEF AwakenRealms, OnlyIf, Offered
  <2> QED
    BY <2>1 DEF Evidence, VerifiedPublisher
<1>8. CASE c \in RuleBookOrg(page) \/ c \in DeepSeekRulebooks(page, hint) \/ c \in GeminiBggFiles(page)
  <2>1. c.official = FALSE
    BY <1>8 DEF RuleBookOrg, DeepSeekRulebooks, GeminiBggFiles, OnlyIf, Offered
  <2> QED
    BY <2>1 DEF Unattended
<1>9. PICK match : c \in
        PublisherSite(page) \cup AsmodeeItalia(page) \cup PendragonItalia(page) \cup MsEdizioni(page)
          \cup ReposOffers(page, hint) \cup CuratedOffers(page, hint) \cup AwakenRealms(page, match)
          \cup RuleBookOrg(page) \cup DeepSeekRulebooks(page, hint) \cup GeminiBggFiles(page)
  BY DEF Offers
<1>10. \/ c \in PublisherSite(page) \/ c \in AsmodeeItalia(page)
       \/ c \in PendragonItalia(page) \/ c \in MsEdizioni(page)
       \/ c \in ReposOffers(page, hint) \/ c \in CuratedOffers(page, hint) \/ c \in AwakenRealms(page, match)
       \/ c \in RuleBookOrg(page) \/ c \in DeepSeekRulebooks(page, hint) \/ c \in GeminiBggFiles(page)
  BY <1>9
<1> QED
  BY <1>1, <1>2, <1>3, <1>4, <1>5, <1>6, <1>7, <1>8, <1>10

\* No file is approved for a download without a user unless the metadata of this BGG
\* id was fetched and names its publisher or its title, whatever the pages say
\* (ProviderAdapters!UnattendedHasEvidence).
THEOREM ApprovedHasEvidence == AdapterSpec => []UnattendedHasEvidence
<1>1. AdapterInit => UnattendedHasEvidence
  BY DEF AdapterInit, UnattendedHasEvidence
<1>2. ASSUME UnattendedHasEvidence, SubmitOffer PROVE UnattendedHasEvidence'
  <2>1. PICK page \in Page, hint \in Hint : \E c \in Offers(page, hint) :
               offered' = offered \cup
                 {[candidate |-> c, page |-> page, known |-> known,
                   status |-> IF Unattended(c) THEN "approved" ELSE "pending"]}
    BY <1>2 DEF SubmitOffer
  <2>2. PICK c \in Offers(page, hint) :
               offered' = offered \cup
                 {[candidate |-> c, page |-> page, known |-> known,
                   status |-> IF Unattended(c) THEN "approved" ELSE "pending"]}
    BY <2>1
  <2>3. Unattended(c) => Evidence(c, page)
    BY OffersHaveEvidence
  <2> QED
    BY <1>2, <2>2, <2>3 DEF UnattendedHasEvidence, Evidence
<1>3. ASSUME UnattendedHasEvidence, UNCHANGED offered PROVE UnattendedHasEvidence'
  BY <1>3 DEF UnattendedHasEvidence
<1>4. UnattendedHasEvidence /\ [AdapterNext]_adapterVars => UnattendedHasEvidence'
  BY <1>2, <1>3 DEF AdapterNext, FetchIdentity, adapterVars
<1> QED
  BY <1>1, <1>4, PTL DEF AdapterSpec
-----------------------------------------------------------------------------
(* The guarded download: the inductive invariant *)

LEMMA Scaled ==
  ASSUME NEW a \in Nat, NEW b \in Nat, NEW k \in Nat, a <= b
  PROVE  a * k <= b * k
<1>1. b - a \in Nat /\ b = a + (b - a)
  OBVIOUS
<1>2. ASSUME NEW d \in Nat PROVE d * k \in Nat /\ (a + d) * k = a * k + d * k
  OBVIOUS
<1>3. ASSUME NEW d \in Nat, b = a + d PROVE a * k <= b * k
  <2>1. d * k \in Nat /\ a * k \in Nat /\ b * k = a * k + d * k
    BY <1>2, <1>3
  <2> QED
    BY <2>1
<1> QED
  BY <1>1, <1>3

Tries == MaxRetries + 1
Budget == (MaxRedirects + 1) * (MaxRetries + 1) * MaxAddresses

\* What a fetch knows in each of its phases.
MoveTask ==
  [phase : {"resolve", "resolving", "request"}, url : Address, visited : Seq(Address),
   retries : Nat, untried : 0..MaxAddresses, requests : Nat, late : BOOLEAN, number : Nat]
ReadTask ==
  [phase : {"read", "commit"}, body : Body, declared : 0..MaxBytes, sent : Nat,
   read : 0..MaxBytes, requests : Nat, late : BOOLEAN, number : Nat]
FailedTask == [phase : {"failed"}, requests : Nat]
StoredTask == [phase : {"stored"}, file : Digest, declared : 0..MaxBytes, requests : Nat]
FetchTask == {Quiet} \cup MoveTask \cup ReadTask \cup FailedTask \cup StoredTask

\* The attempts that are over, by the URLs a fetch was sent to and the retries of
\* the last one; each sent a request to every address at most.
Over(t) == (Len(t.visited) - 1) * Tries + t.retries
Tried(t) == IF t.phase = "request" THEN MaxAddresses - t.untried ELSE 0

\* The requests of a fetch, and what was verified before the file is published.
FetchSound(s) ==
  /\ s.phase \in {"resolve", "resolving", "request"} =>
       /\ Len(s.visited) \in 1..(MaxRedirects + 1) /\ s.retries \in 0..MaxRetries
       /\ s.phase = "request" => s.untried # 0
       /\ s.requests <= Over(s) * MaxAddresses + Tried(s)
  /\ s.phase \in {"read", "commit", "failed", "stored"} => s.requests <= Budget
  /\ s.phase = "commit" => s.read # 0 /\ s.declared \in {0, s.read} /\ s.body.pdf

FetchTypes ==
  /\ fetching \in [Fetch -> FetchTask]
  /\ slots \in Nat /\ orphans \in Nat /\ started \in Nat
  /\ manuals \in [Digest -> {"absent", "whole", "damaged"}]

FetchInv == FetchTypes /\ FetchResources /\ \A f \in Fetch : FetchSound(fetching[f])

\* The action of StoredIsFetched.
StoredStep ==
  \A f \in Fetch : fetching[f].phase # "stored" /\ fetching'[f].phase = "stored" =>
    LET file == fetching'[f].file
    IN /\ manuals'[file] = "whole" /\ file[1].pdf
       /\ fetching'[f].declared \in {0, file[2]}

LEMMA PhaseTask ==
  ASSUME NEW t \in FetchTask
  PROVE  /\ t.phase = "quiet" => t = Quiet
         /\ t.phase \in {"resolve", "resolving", "request"} => t \in MoveTask
         /\ t.phase \in {"read", "commit"} => t \in ReadTask
         /\ t.phase \in {"failed", "stored"} => t \in FailedTask \cup StoredTask
         /\ t # Quiet => t.phase # "quiet" /\ t.requests \in Nat
<1>1. t = Quiet \/ t \in MoveTask \/ t \in ReadTask \/ t \in FailedTask \/ t \in StoredTask
  BY DEF FetchTask
<1>2. CASE t = Quiet
  BY <1>2 DEF Quiet
<1>3. CASE t \in MoveTask
  <2>1. t.phase \in {"resolve", "resolving", "request"} /\ t.requests \in Nat
    BY <1>3 DEF MoveTask
  <2> QED
    BY <1>3, <2>1
<1>4. CASE t \in ReadTask
  <2>1. t.phase \in {"read", "commit"} /\ t.requests \in Nat
    BY <1>4 DEF ReadTask
  <2> QED
    BY <1>4, <2>1
<1>5. CASE t \in FailedTask
  <2>1. t.phase = "failed" /\ t.requests \in Nat
    BY <1>5 DEF FailedTask
  <2> QED
    BY <1>5, <2>1
<1>6. CASE t \in StoredTask
  <2>1. t.phase = "stored" /\ t.requests \in Nat
    BY <1>6 DEF StoredTask
  <2> QED
    BY <1>6, <2>1
<1> QED
  BY <1>1, <1>2, <1>3, <1>4, <1>5, <1>6

LEMMA Policy ==
  /\ MaxRedirects \in Nat /\ MaxRetries \in Nat /\ MaxBytes \in Nat /\ Slots \in Nat
  /\ MaxAddresses \in Nat \ {0}
  /\ Tries \in Nat /\ Budget \in Nat /\ Budget = ((MaxRedirects + 1) * Tries) * MaxAddresses
  /\ (MaxRedirects + 1) * Tries \in Nat
<1>1. /\ MaxRedirects \in Nat /\ MaxRetries \in Nat /\ MaxBytes \in Nat /\ Slots \in Nat
      /\ MaxAddresses \in Nat \ {0}
  BY FetchConstants
<1>2. \A i, j \in Nat : i * j \in Nat
  OBVIOUS
<1>3. Tries \in Nat /\ (MaxRedirects + 1) * Tries \in Nat
  BY <1>1, <1>2 DEF Tries
<1>4. Budget = ((MaxRedirects + 1) * Tries) * MaxAddresses
  BY DEF Budget, Tries
<1> QED
  BY <1>1, <1>2, <1>3, <1>4

\* n URLs were asked, the last one r times again, and u addresses since: one more
\* request is within what the next attempt may begin with, as a retry or as the
\* first one of the next URL, and within the budget.
LEMMA OneMoreRequest ==
  ASSUME NEW n \in 1..(MaxRedirects + 1), NEW r \in 0..MaxRetries, NEW u \in 0..(MaxAddresses - 1),
         NEW q \in Nat, q <= ((n - 1) * Tries + r) * MaxAddresses + u
  PROVE  /\ q + 1 <= ((n - 1) * Tries + (r + 1)) * MaxAddresses
         /\ q + 1 <= (n * Tries + 0) * MaxAddresses
         /\ q + 1 <= Budget
         /\ (n - 1) * Tries \in Nat /\ n * Tries \in Nat
<1>1. /\ n \in Nat /\ n - 1 \in Nat /\ n <= MaxRedirects + 1 /\ MaxRedirects + 1 \in Nat
      /\ r \in Nat /\ r + 1 <= Tries /\ Tries \in Nat /\ Budget \in Nat /\ MaxAddresses \in Nat
  BY Policy DEF Tries
<1>2. \A k, m \in Nat : (m + 1) * k = m * k + k /\ m * k \in Nat
  OBVIOUS
<1>3. n * Tries = (n - 1) * Tries + Tries /\ (n - 1) * Tries \in Nat /\ n * Tries \in Nat
  <2>1. PICK m \in Nat : m = n - 1
    BY <1>1
  <2>2. n = m + 1
    BY <1>1, <2>1
  <2> QED
    BY <1>1, <1>2, <2>1, <2>2
<1>4. PICK k \in Nat : k = (n - 1) * Tries + r
  BY <1>1, <1>3
<1>5. q + 1 <= (k + 1) * MaxAddresses
  <2>1. (k + 1) * MaxAddresses = k * MaxAddresses + MaxAddresses /\ k * MaxAddresses \in Nat
    BY <1>1, <1>2
  <2>2. q <= k * MaxAddresses + u
    BY <1>4
  <2> QED
    BY <1>1, <2>1, <2>2
<1>6. k + 1 = (n - 1) * Tries + (r + 1) /\ k + 1 <= n * Tries
  BY <1>1, <1>3, <1>4
<1>7. n * Tries <= (MaxRedirects + 1) * Tries
  BY <1>1, Scaled
<1>8. (k + 1) * MaxAddresses <= (n * Tries) * MaxAddresses
  <2>1. k + 1 \in Nat
    OBVIOUS
  <2> QED
    BY <1>1, <1>3, <1>6, <2>1, Scaled
<1>9. (n * Tries) * MaxAddresses <= Budget
  BY <1>1, <1>3, <1>7, Scaled, Policy
<1>10. (k + 1) * MaxAddresses \in Nat /\ (n * Tries) * MaxAddresses \in Nat
  <2>1. \A i, j \in Nat : i * j \in Nat
    OBVIOUS
  <2>2. k + 1 \in Nat
    OBVIOUS
  <2> QED
    BY <1>1, <1>3, <2>1, <2>2
<1>11. q + 1 <= (n * Tries) * MaxAddresses
  BY <1>5, <1>8, <1>10
<1>12. q + 1 <= Budget
  BY <1>1, <1>9, <1>10, <1>11
<1>13. n * Tries + 0 = n * Tries
  BY <1>3
<1> QED
  BY <1>3, <1>5, <1>6, <1>11, <1>12, <1>13

\* A fetch on its way may send one more request.
LEMMA MayAsk ==
  ASSUME NEW t \in MoveTask, FetchSound(t)
  PROVE  /\ Len(t.visited) \in 1..(MaxRedirects + 1) /\ t.retries \in 0..MaxRetries
         /\ t.requests \in Nat /\ t.requests + 1 <= Budget
         /\ t.requests + 1 <= ((Len(t.visited) - 1) * Tries + (t.retries + 1)) * MaxAddresses
         /\ t.requests + 1 <= (Len(t.visited) * Tries + 0) * MaxAddresses
<1>1. /\ t.phase \in {"resolve", "resolving", "request"} /\ t.requests \in Nat
      /\ t.untried \in 0..MaxAddresses
  BY DEF MoveTask
<1>2. /\ Len(t.visited) \in 1..(MaxRedirects + 1) /\ t.retries \in 0..MaxRetries
      /\ t.phase = "request" => t.untried # 0
      /\ t.requests <= ((Len(t.visited) - 1) * Tries + t.retries) * MaxAddresses + Tried(t)
  BY <1>1 DEF FetchSound, Over
<1>3. Tried(t) \in 0..(MaxAddresses - 1)
  BY <1>1, <1>2, Policy DEF Tried
<1> QED
  BY <1>1, <1>2, <1>3, OneMoreRequest

LEMMA TaskWithinBudget ==
  ASSUME NEW t \in FetchTask, FetchSound(t), t.phase # "quiet"
  PROVE  /\ t.requests \in Nat /\ t.requests <= Budget
         /\ t.phase = "request" => t.requests + 1 <= Budget
<1>1. t.requests \in Nat
  BY PhaseTask DEF Quiet
<1>2. CASE t.phase \in {"resolve", "resolving", "request"}
  <2>1. t.requests + 1 <= Budget
    BY <1>2, PhaseTask, MayAsk
  <2> QED
    BY <1>1, <2>1, Policy
<1>3. CASE t.phase \in {"read", "commit", "failed", "stored"}
  BY <1>1, <1>3 DEF FetchSound
<1>4. t.phase \in {"resolve", "resolving", "request", "read", "commit", "failed", "stored"}
  <2>1. t \in MoveTask \/ t \in ReadTask \/ t \in FailedTask \/ t \in StoredTask
    BY DEF FetchTask, Quiet
  <2> QED
    BY <2>1 DEF MoveTask, ReadTask, FailedTask, StoredTask
<1> QED
  BY <1>2, <1>3, <1>4

LEMMA WithinBudget ==
  ASSUME FetchInv, NEW f \in Fetch, fetching[f].phase # "quiet"
  PROVE  /\ fetching[f].requests \in Nat /\ fetching[f].requests <= Budget
         /\ Requested(f) \in Nat /\ Requested(f) <= Budget
<1>1. PICK t \in FetchTask : t = fetching[f] /\ FetchSound(t)
  BY DEF FetchInv, FetchTypes
<1>2. /\ t.requests \in Nat /\ t.requests <= Budget
      /\ t.phase = "request" => t.requests + 1 <= Budget
  BY <1>1, TaskWithinBudget
<1> QED
  BY <1>1, <1>2 DEF Requested

\* 1 if the thread of a fetch holds a slot that the fetch still waits for.
Held(t) == IF t.phase = "resolving" THEN 1 ELSE 0

LEMMA ResolvingMoves ==
  ASSUME NEW f \in Fetch, NEW next, fetching = [e \in Fetch |-> fetching[e]],
         fetching' = [fetching EXCEPT ![f] = next]
  PROVE  /\ IsFiniteSet(Resolving) /\ Cardinality(Resolving) \in Nat /\ Cardinality(Resolving') \in Nat
         /\ Cardinality(Resolving') + Held(fetching[f]) = Cardinality(Resolving) + Held(next)
<1> DEFINE rest == Resolving \ {f}
<1>1. IsFiniteSet(Resolving) /\ IsFiniteSet(rest) /\ f \notin rest
  BY FetchConstants, FS_Subset DEF Resolving
<1>2. fetching'[f] = next /\ \A e \in Fetch \ {f} : fetching'[e] = fetching[e]
  OBVIOUS
<1>3. Resolving = IF fetching[f].phase = "resolving" THEN rest \cup {f} ELSE rest
  BY DEF Resolving
<1>4. Resolving' = IF next.phase = "resolving" THEN rest \cup {f} ELSE rest
  BY <1>2 DEF Resolving
<1> HIDE DEF rest
<1>5. Cardinality(rest) \in Nat /\ Cardinality(rest \cup {f}) = Cardinality(rest) + 1
  BY <1>1, FS_AddElement, FS_CardinalityType
<1> QED
  BY <1>1, <1>3, <1>4, <1>5 DEF Held

\* The partial files after a step of f: strays, those of others, or the one it reads.
PartsKept(f, next) ==
  /\ strays \subseteq strays'
  /\ \A n \in parts' :
       \/ n \in strays'
       \/ n \in parts /\ (Reading(f) => n # fetching[f].number)
       \/ next.phase \in {"read", "commit"} /\ n = next.number

\* A step of one fetch keeps the invariant if what it holds is accounted for.
LEMMA FetchMoves ==
  ASSUME FetchInv, NEW f \in Fetch, NEW next \in FetchTask, FetchSound(next),
         fetching' = [fetching EXCEPT ![f] = next],
         manuals' \in [Digest -> {"absent", "whole", "damaged"}],
         slots' \in Nat, orphans' \in Nat, started' \in Nat,
         Held(next) + orphans' + slots' = Held(fetching[f]) + orphans + slots,
         PartsKept(f, next),
         next.phase = "stored" /\ fetching[f].phase # "stored" =>
           /\ manuals'[next.file] = "whole" /\ next.file[1].pdf
           /\ next.declared \in {0, next.file[2]}
  PROVE  FetchInv' /\ StoredStep
<1>1. fetching \in [Fetch -> FetchTask] /\ slots \in Nat /\ orphans \in Nat
  BY DEF FetchInv, FetchTypes
<1>2. fetching'[f] = next /\ \A e \in Fetch \ {f} : fetching'[e] = fetching[e]
  BY <1>1
<1>3. FetchTypes'
  BY <1>1 DEF FetchTypes
<1>4. \A e \in Fetch : FetchSound(fetching'[e])
  BY <1>2 DEF FetchInv
<1>5. FetchResources'
  <2>1. Cardinality(Resolving') + orphans' + slots' = Slots
    <3>1. /\ Cardinality(Resolving) \in Nat /\ Cardinality(Resolving') \in Nat
          /\ Cardinality(Resolving') + Held(fetching[f]) = Cardinality(Resolving) + Held(next)
      <4>1. fetching = [e \in Fetch |-> fetching[e]]
        BY <1>1
      <4> QED
        BY <4>1, ResolvingMoves
    <3>2. Cardinality(Resolving) + orphans + slots = Slots
      BY DEF FetchInv, FetchResources
    <3>3. Held(fetching[f]) \in Nat /\ Held(next) \in Nat
      BY DEF Held
    <3> QED
      BY <1>1, <3>1, <3>2, <3>3, Policy
  <2>2. ASSUME NEW n \in parts'
        PROVE  n \in strays' \/ \E e \in Fetch : Reading(e)' /\ n = fetching'[e].number
    <3>1. CASE n \in strays'
      BY <3>1
    <3>2. CASE n \in parts /\ (Reading(f) => n # fetching[f].number)
      <4>1. n \in strays \/ \E e \in Fetch : Reading(e) /\ n = fetching[e].number
        BY <3>2 DEF FetchInv, FetchResources
      <4>2. n \in strays => n \in strays'
        BY DEF PartsKept
      <4>3. ASSUME NEW e \in Fetch, Reading(e), n = fetching[e].number
            PROVE  Reading(e)' /\ n = fetching'[e].number
        BY <1>2, <3>2, <4>3 DEF Reading
      <4> QED
        BY <4>1, <4>2, <4>3
    <3>3. CASE next.phase \in {"read", "commit"} /\ n = next.number
      BY <1>2, <3>3 DEF Reading
    <3> QED
      BY <3>1, <3>2, <3>3 DEF PartsKept
  <2>4. parts' \subseteq strays' \cup {fetching'[e].number : e \in {g \in Fetch : Reading(g)'}}
    BY <2>2
  <2>3. ASSUME NEW e \in Fetch, fetching'[e] # Quiet PROVE fetching'[e].requests <= Budget
    <3>1. CASE e # f
      <4>1. fetching[e].phase # "quiet"
        BY <1>1, <1>2, <2>3, <3>1, PhaseTask
      <4> QED
        BY <1>2, <3>1, <4>1, WithinBudget
    <3>2. CASE e = f
      <4>1. next.phase # "quiet" /\ next # Quiet
        BY <1>2, <2>3, <3>2, PhaseTask
      <4> QED
        BY <1>2, <3>2, <4>1, TaskWithinBudget
    <3> QED
      BY <3>1, <3>2
  <2> QED
    BY <2>1, <2>3, <2>4 DEF FetchResources, Budget
<1>6. StoredStep
  BY <1>2 DEF StoredStep
<1> QED
  BY <1>3, <1>4, <1>5, <1>6 DEF FetchInv

-----------------------------------------------------------------------------
(* The guarded download: every action keeps the invariant *)

LEMMA InitFetch == FetchInit => FetchInv /\ FetchResources
<1> SUFFICES ASSUME FetchInit PROVE FetchInv
  BY DEF FetchInv
<1>1. \A f \in Fetch : fetching[f] = Quiet
  BY DEF FetchInit
<1>2. FetchTypes
  BY Policy DEF FetchInit, FetchTypes, FetchTask
<1>3. Resolving = {}
  BY <1>1 DEF Resolving, Quiet
<1>4. FetchResources
  BY <1>1, <1>3, FS_EmptySet, Policy DEF FetchResources, FetchInit
<1>5. \A f \in Fetch : FetchSound(fetching[f])
  BY <1>1 DEF FetchSound, Quiet
<1> QED
  BY <1>2, <1>4, <1>5 DEF FetchInv

LEMMA AbortKeeps ==
  ASSUME FetchInv, NEW f \in Fetch, fetching[f].phase # "quiet", Abort(f), UNCHANGED started,
         manuals' \in [Digest -> {"absent", "whole", "damaged"}],
         slots' \in Nat, orphans' \in Nat, orphans' + slots' = Held(fetching[f]) + orphans + slots
  PROVE  FetchInv' /\ StoredStep
<1>1. PICK next : next = [phase |-> "failed", requests |-> Requested(f)]
  OBVIOUS
<1>2. fetching' = [fetching EXCEPT ![f] = next] /\ Discard(f)
  BY <1>1 DEF Abort, Step
<1>3. Requested(f) \in Nat /\ Requested(f) <= Budget
  BY WithinBudget
<1>4. next \in FetchTask /\ next.phase = "failed"
  <2>1. next \in FailedTask
    BY <1>1, <1>3 DEF FailedTask
  <2> QED
    BY <1>1, <2>1 DEF FetchTask
<1>5. FetchSound(next)
  BY <1>1, <1>3 DEF FetchSound
<1>6. started' \in Nat
  BY DEF FetchInv, FetchTypes
<1>7. Held(next) = 0
  BY <1>4 DEF Held
<1>8. slots \in Nat /\ orphans \in Nat /\ Held(fetching[f]) \in Nat
  BY DEF FetchInv, FetchTypes, Held
<1>9. Held(next) + orphans' + slots' = Held(fetching[f]) + orphans + slots
  BY <1>7, <1>8
<1>10. PartsKept(f, next)
  BY <1>2 DEF PartsKept, Discard
<1> QED
  BY <1>2, <1>4, <1>5, <1>6, <1>9, <1>10, FetchMoves

\* A step to a phase that holds no slot, from one that holds none, with no file stored.
LEMMA PlainMoves ==
  ASSUME FetchInv, NEW f \in Fetch, NEW next \in FetchTask, FetchSound(next),
         fetching' = [fetching EXCEPT ![f] = next], Held(next) = Held(fetching[f]),
         next.phase # "stored", UNCHANGED <<slots, orphans, manuals>>, started' \in Nat,
         PartsKept(f, next)
  PROVE  FetchInv' /\ StoredStep
<1>1. manuals' \in [Digest -> {"absent", "whole", "damaged"}] /\ slots' \in Nat /\ orphans' \in Nat
  BY DEF FetchInv, FetchTypes
<1>2. Held(next) + orphans' + slots' = Held(fetching[f]) + orphans + slots
  OBVIOUS
<1> QED
  BY <1>1, <1>2, FetchMoves

LEMMA PlainAbort ==
  ASSUME FetchInv, NEW f \in Fetch, fetching[f].phase \notin {"quiet", "resolving"}, Abort(f),
         manuals' \in [Digest -> {"absent", "whole", "damaged"}], UNCHANGED <<slots, orphans, started>>
  PROVE  FetchInv' /\ StoredStep
<1>1. slots' \in Nat /\ orphans' \in Nat /\ Held(fetching[f]) = 0
  BY DEF FetchInv, FetchTypes, Held
<1>2. orphans' + slots' = Held(fetching[f]) + orphans + slots
  BY <1>1
<1> QED
  BY <1>1, <1>2, AbortKeeps

\* The types of what a step leaves alone.
LEMMA FetchRests ==
  ASSUME FetchInv
  PROVE  /\ started \in Nat /\ slots \in Nat /\ orphans \in Nat
         /\ manuals \in [Digest -> {"absent", "whole", "damaged"}]
BY DEF FetchInv, FetchTypes

\* A fetch that does not read leaves the directory as it is, and so does one that
\* goes on reading.
LEMMA PartsStay ==
  ASSUME NEW f \in Fetch, NEW next, UNCHANGED <<parts, strays>>,
         Reading(f) => next.phase \in {"read", "commit"} /\ next.number = fetching[f].number
  PROVE  PartsKept(f, next)
BY DEF PartsKept

LEMMA BeginKeeps ==
  ASSUME FetchInv, NEW f \in Fetch, NEW a \in Address, BeginFetch(f, a)
  PROVE  FetchInv' /\ StoredStep
<1>1. PICK next : next = [phase |-> "resolve", url |-> a, visited |-> <<a>>, retries |-> 0, untried |-> 0,
                          requests |-> 0, late |-> FALSE, number |-> started + 1]
  OBVIOUS
<1>2. fetching' = [fetching EXCEPT ![f] = next]
  BY <1>1 DEF BeginFetch, Step
<1>3. next \in FetchTask
  <2>1. <<a>> \in Seq(Address) /\ started + 1 \in Nat /\ 0 \in 0..MaxAddresses
    BY FetchRests, Policy
  <2>2. next \in MoveTask
    BY <1>1, <2>1 DEF MoveTask
  <2> QED
    BY <2>2 DEF FetchTask
<1>4. FetchSound(next)
  <2>1. /\ Len(next.visited) = 1 /\ next.retries = 0 /\ next.requests = 0 /\ next.phase = "resolve"
        /\ Tried(next) = 0
    BY <1>1 DEF Tried
  <2>2. Over(next) = (1 - 1) * Tries + 0
    BY <2>1 DEF Over
  <2>3. (1 - 1) * Tries + 0 = 0 /\ 0 * MaxAddresses + 0 = 0
    BY Policy
  <2>4. Len(next.visited) \in 1..(MaxRedirects + 1) /\ next.retries \in 0..MaxRetries
    BY <2>1, Policy
  <2>5. next.requests <= Over(next) * MaxAddresses + Tried(next)
    BY <2>1, <2>2, <2>3
  <2> QED
    BY <2>1, <2>4, <2>5 DEF FetchSound
<1>5. fetching[f].phase = "quiet"
  BY DEF BeginFetch, Quiet
<1>6. UNCHANGED <<slots, orphans, manuals, parts, strays>> /\ started' \in Nat
  BY FetchRests DEF BeginFetch
<1>7. next.phase = "resolve" /\ Held(next) = Held(fetching[f]) /\ PartsKept(f, next)
  <2>1. ~Reading(f)
    BY <1>5 DEF Reading
  <2> QED
    BY <1>1, <1>5, <1>6, <2>1, PartsStay DEF Held
<1> QED
  BY <1>2, <1>3, <1>4, <1>6, <1>7, PlainMoves

LEMMA EndKeeps ==
  ASSUME FetchInv, NEW f \in Fetch, EndFetch(f)
  PROVE  FetchInv' /\ StoredStep
<1>1. fetching' = [fetching EXCEPT ![f] = Quiet] /\ fetching[f].phase \in {"stored", "failed"}
      /\ UNCHANGED <<slots, orphans, manuals, parts, strays, started>>
  BY DEF EndFetch, Step
<1>2. Quiet \in FetchTask /\ Quiet.phase = "quiet"
  BY DEF FetchTask, Quiet
<1>3. FetchSound(Quiet)
  BY <1>2 DEF FetchSound
<1>4. Held(Quiet) = Held(fetching[f])
  BY <1>1, <1>2 DEF Held
<1>5. PartsKept(f, Quiet)
  BY <1>1, PartsStay DEF Reading
<1> QED
  BY <1>1, <1>2, <1>3, <1>4, <1>5, PlainMoves, FetchRests

\* A fetch on its way, and what it may still ask.
LEMMA MovingTask ==
  ASSUME FetchInv, NEW f \in Fetch, fetching[f].phase \in {"resolve", "resolving", "request"}
  PROVE  fetching[f] \in MoveTask /\ FetchSound(fetching[f]) /\ ~Reading(f)
<1>1. PICK t \in FetchTask : t = fetching[f] /\ FetchSound(t)
  BY DEF FetchInv, FetchTypes
<1>2. t \in MoveTask
  BY <1>1, PhaseTask
<1> QED
  BY <1>1, <1>2 DEF Reading

\* A fetch goes from one phase of its way to another and sends nothing.
LEMMA PhaseMoves ==
  ASSUME NEW t \in MoveTask, FetchSound(t), t.phase # "request",
         NEW p \in {"resolving", "request"}, NEW n \in 0..MaxAddresses, p = "request" => n # 0
  PROVE  LET next == [t EXCEPT !.phase = p, !.untried = n]
         IN next \in MoveTask /\ next \in FetchTask /\ FetchSound(next) /\ next.phase = p
<1>1. PICK next : next = [t EXCEPT !.phase = p, !.untried = n]
  OBVIOUS
<1>2. /\ next \in MoveTask /\ next.phase = p /\ next.visited = t.visited /\ next.retries = t.retries
      /\ next.requests = t.requests /\ next.untried = n /\ t.requests \in Nat
  BY <1>1 DEF MoveTask
<1>3. t.phase \in {"resolve", "resolving"} /\ Tried(t) = 0
  BY DEF MoveTask, Tried
<1>4. /\ Len(t.visited) \in 1..(MaxRedirects + 1) /\ t.retries \in 0..MaxRetries
      /\ t.requests <= Over(t) * MaxAddresses + 0
  BY <1>3 DEF FetchSound
<1>5. Over(next) = Over(t) /\ Tried(next) \in Nat
  BY <1>2, Policy DEF Over, Tried
<1>6. Over(t) * MaxAddresses \in Nat
  <2>1. (Len(t.visited) - 1) * Tries \in Nat
    <3>1. Len(t.visited) - 1 \in Nat /\ \A i, j \in Nat : i * j \in Nat
      BY <1>4
    <3> QED
      BY <3>1, Policy
  <2>2. Over(t) \in Nat
    BY <1>4, <2>1, Policy DEF Over
  <2>3. \A i, j \in Nat : i * j \in Nat
    OBVIOUS
  <2> QED
    BY <2>2, <2>3, Policy
<1>7. next.requests <= Over(next) * MaxAddresses + Tried(next)
  BY <1>2, <1>4, <1>5, <1>6
<1>8. FetchSound(next)
  BY <1>2, <1>4, <1>7 DEF FetchSound
<1> QED
  BY <1>1, <1>2, <1>8 DEF FetchTask

\* Nor does the passing of its deadline change what it has sent or read.
LEMMA LateTask ==
  ASSUME NEW t \in FetchTask, FetchSound(t), t.phase \notin {"quiet", "stored", "failed"}
  PROVE  LET next == [t EXCEPT !.late = TRUE]
         IN next \in FetchTask /\ FetchSound(next) /\ next.phase = t.phase /\ next.number = t.number
<1>1. PICK next : next = [t EXCEPT !.late = TRUE]
  OBVIOUS
<1>2. t \in MoveTask \/ t \in ReadTask
  BY DEF FetchTask, Quiet, FailedTask, StoredTask
<1>3. CASE t \in MoveTask
  <2>1. /\ next \in MoveTask /\ next.phase = t.phase /\ next.visited = t.visited /\ next.number = t.number
        /\ next.retries = t.retries /\ next.requests = t.requests /\ next.untried = t.untried
    BY <1>1, <1>3 DEF MoveTask
  <2>2. t.phase \in {"resolve", "resolving", "request"}
    BY <1>3 DEF MoveTask
  <2>3. Over(next) = Over(t) /\ Tried(next) = Tried(t)
    BY <2>1 DEF Over, Tried
  <2> QED
    BY <1>1, <2>1, <2>2, <2>3 DEF FetchSound, FetchTask
<1>4. CASE t \in ReadTask
  <2>1. /\ next \in ReadTask /\ next.phase = t.phase /\ next.declared = t.declared
        /\ next.read = t.read /\ next.requests = t.requests /\ next.body = t.body /\ next.number = t.number
    BY <1>1, <1>4 DEF ReadTask
  <2>2. t.phase \in {"read", "commit"}
    BY <1>4 DEF ReadTask
  <2> QED
    BY <1>1, <2>1, <2>2 DEF FetchSound, FetchTask
<1> QED
  BY <1>2, <1>3, <1>4

LEMMA ResolveKeeps ==
  ASSUME FetchInv, NEW f \in Fetch, ResolveName(f)
  PROVE  FetchInv' /\ StoredStep
<1>1. PICK t : t = fetching[f]
  OBVIOUS
<1>2. t \in MoveTask /\ FetchSound(t) /\ ~Reading(f) /\ t.phase = "resolve"
  BY <1>1, MovingTask DEF ResolveName
<1>3. UNCHANGED <<manuals, parts, strays, orphans, started>>
  BY DEF ResolveName
<1>4. /\ manuals' \in [Digest -> {"absent", "whole", "damaged"}] /\ started' \in Nat
      /\ slots \in Nat /\ orphans \in Nat /\ fetching \in [Fetch -> FetchTask]
  BY <1>3, FetchRests DEF FetchInv, FetchTypes
<1>5. CASE t.url.name
  <2>1. PICK next : next = [t EXCEPT !.phase = "resolving", !.untried = t.untried]
    OBVIOUS
  <2>2. next \in FetchTask /\ FetchSound(next) /\ next.phase = "resolving"
    <3>1. t.untried \in 0..MaxAddresses
      BY <1>2 DEF MoveTask
    <3> QED
      BY <1>2, <2>1, <3>1, PhaseMoves
  <2>3. next = [t EXCEPT !.phase = "resolving"]
    BY <1>2, <2>1 DEF MoveTask
  <2>4. fetching' = [fetching EXCEPT ![f] = next] /\ slots > 0 /\ slots' = slots - 1
    BY <1>1, <1>4, <1>5, <2>3 DEF ResolveName
  <2>5. Held(next) = 1 /\ Held(fetching[f]) = 0
    BY <1>1, <1>2, <2>2 DEF Held
  <2>6. slots' \in Nat /\ orphans' \in Nat
        /\ Held(next) + orphans' + slots' = Held(fetching[f]) + orphans + slots
    BY <1>3, <1>4, <2>4, <2>5
  <2>7. PartsKept(f, next)
    BY <1>2, <1>3, PartsStay
  <2> QED
    BY <1>4, <2>2, <2>4, <2>6, <2>7, FetchMoves
<1>6. CASE ~t.url.name
  <2>1. PICK next : next = [t EXCEPT !.phase = "request", !.untried = 1]
    OBVIOUS
  <2>2. next \in FetchTask /\ FetchSound(next) /\ next.phase = "request"
    <3>1. PICK n \in 0..MaxAddresses : n = 1
      BY Policy
    <3>2. n # 0 /\ next = [t EXCEPT !.phase = "request", !.untried = n]
      BY <2>1, <3>1
    <3> QED
      BY <1>2, <3>2, PhaseMoves
  <2>3. fetching' = [fetching EXCEPT ![f] = next] /\ slots' = slots
    BY <1>1, <1>6, <2>1 DEF ResolveName, ToRequest, Step
  <2>4. Held(next) = Held(fetching[f])
    BY <1>1, <1>2, <2>2 DEF Held
  <2>5. PartsKept(f, next)
    BY <1>2, <1>3, PartsStay
  <2> QED
    BY <1>3, <1>4, <2>2, <2>3, <2>4, <2>5, PlainMoves
<1> QED
  BY <1>5, <1>6

LEMMA AnswerKeeps ==
  ASSUME FetchInv, NEW f \in Fetch, NameAnswered(f)
  PROVE  FetchInv' /\ StoredStep
<1>1. PICK t : t = fetching[f]
  OBVIOUS
<1>2. t \in MoveTask /\ FetchSound(t) /\ ~Reading(f) /\ t.phase = "resolving"
  BY <1>1, MovingTask DEF NameAnswered
<1>3. UNCHANGED <<manuals, orphans, started>> /\ slots' = slots + 1
  BY DEF NameAnswered
<1>4. /\ manuals' \in [Digest -> {"absent", "whole", "damaged"}] /\ started' \in Nat
      /\ slots \in Nat /\ orphans \in Nat
  BY <1>3, FetchRests
<1>5. Held(fetching[f]) = 1
  BY <1>1, <1>2 DEF Held
<1>6. slots' \in Nat /\ orphans' \in Nat /\ orphans' + slots' = Held(fetching[f]) + orphans + slots
  BY <1>3, <1>4, <1>5
<1>7. CASE Abort(f)
  BY <1>1, <1>2, <1>3, <1>4, <1>6, <1>7, AbortKeeps
<1>8. ASSUME NEW n \in 1..MaxAddresses, ToRequest(f, n), UNCHANGED <<parts, strays>>
      PROVE  FetchInv' /\ StoredStep
  <2>1. PICK next : next = [t EXCEPT !.phase = "request", !.untried = n]
    OBVIOUS
  <2>2. next \in FetchTask /\ FetchSound(next) /\ next.phase = "request"
    <3>1. n \in 0..MaxAddresses /\ n # 0
      BY Policy
    <3> QED
      BY <1>2, <2>1, <3>1, PhaseMoves
  <2>3. fetching' = [fetching EXCEPT ![f] = next]
    BY <1>1, <1>8, <2>1 DEF ToRequest, Step
  <2>4. Held(next) + orphans' + slots' = Held(fetching[f]) + orphans + slots
    BY <1>4, <1>6, <2>2 DEF Held
  <2>5. PartsKept(f, next)
    BY <1>2, <1>8, PartsStay
  <2> QED
    BY <1>4, <1>6, <2>2, <2>3, <2>4, <2>5, FetchMoves
<1> QED
  BY <1>7, <1>8 DEF NameAnswered

LEMMA TimeOutKeeps ==
  ASSUME FetchInv, NEW f \in Fetch, TimeOut(f)
  PROVE  FetchInv' /\ StoredStep
<1>1. slots \in Nat /\ orphans \in Nat /\ manuals \in [Digest -> {"absent", "whole", "damaged"}]
  BY FetchRests
<1>2. Abort(f) /\ fetching[f].phase # "quiet" /\ UNCHANGED <<slots, manuals, started>>
  BY DEF TimeOut, Running
<1>3. orphans' = orphans + Held(fetching[f])
  BY DEF TimeOut, Held, Resolving
<1>4. Held(fetching[f]) \in Nat
  BY DEF Held
<1>5. slots' \in Nat /\ orphans' \in Nat /\ orphans' + slots' = Held(fetching[f]) + orphans + slots
  BY <1>1, <1>2, <1>3, <1>4
<1> QED
  BY <1>1, <1>2, <1>5, AbortKeeps

LEMMA DeadlineKeeps ==
  ASSUME FetchInv, NEW f \in Fetch, DeadlinePasses(f)
  PROVE  FetchInv' /\ StoredStep
<1>1. PICK t \in FetchTask : t = fetching[f] /\ FetchSound(t)
  BY DEF FetchInv, FetchTypes
<1>2. PICK next : next = [t EXCEPT !.late = TRUE]
  OBVIOUS
<1>3. /\ fetching' = [fetching EXCEPT ![f] = next]
      /\ UNCHANGED <<slots, orphans, manuals, parts, strays, started>>
  <2>1. fetching \in [Fetch -> FetchTask]
    BY DEF FetchInv, FetchTypes
  <2> QED
    BY <1>1, <1>2, <2>1 DEF DeadlinePasses
<1>4. t.phase \notin {"quiet", "stored", "failed"}
  BY <1>1 DEF DeadlinePasses, Running
<1>5. next \in FetchTask /\ FetchSound(next) /\ next.phase = t.phase /\ next.number = t.number
  BY <1>1, <1>2, <1>4, LateTask
<1>6. Held(next) = Held(fetching[f]) /\ next.phase # "stored"
  BY <1>1, <1>4, <1>5 DEF Held
<1>7. PartsKept(f, next)
  BY <1>1, <1>3, <1>5, PartsStay DEF Reading
<1> QED
  BY <1>3, <1>5, <1>6, <1>7, PlainMoves, FetchRests

LEMMA RequestFailsKeeps ==
  ASSUME FetchInv, NEW f \in Fetch, RequestFails(f)
  PROVE  FetchInv' /\ StoredStep
<1>1. Abort(f) /\ fetching[f].phase = "request" /\ UNCHANGED <<slots, orphans, manuals, started>>
  BY DEF RequestFails, Sending
<1> QED
  BY <1>1, PlainAbort, FetchRests

\* One more request is counted, and an answer or a failure decides what follows.
LEMMA AskedTask ==
  ASSUME FetchInv, NEW f \in Fetch, fetching[f].phase = "request"
  PROVE  /\ Asked(f) \in MoveTask /\ Requested(f) = fetching[f].requests + 1
         /\ Asked(f) = [fetching[f] EXCEPT !.requests = fetching[f].requests + 1]
         /\ Asked(f).requests = fetching[f].requests + 1 /\ Asked(f).visited = fetching[f].visited
         /\ Asked(f).retries = fetching[f].retries /\ Asked(f).untried = fetching[f].untried
         /\ Asked(f).late = fetching[f].late /\ Asked(f).phase = "request"
         /\ Asked(f).number = fetching[f].number
<1>1. PICK t \in MoveTask : t = fetching[f]
  BY MovingTask
<1>2. Requested(f) = t.requests + 1
  BY <1>1 DEF Requested
<1>3. Asked(f) = [t EXCEPT !.requests = t.requests + 1]
  BY <1>1, <1>2 DEF Asked
<1>4. t.requests + 1 \in Nat
  BY DEF MoveTask
<1>5. PICK a : a = [t EXCEPT !.requests = t.requests + 1]
  OBVIOUS
<1>6. /\ a \in MoveTask /\ a.requests = t.requests + 1 /\ a.visited = t.visited
      /\ a.retries = t.retries /\ a.untried = t.untried /\ a.late = t.late /\ a.phase = t.phase
      /\ a.number = t.number
  BY <1>4, <1>5 DEF MoveTask
<1> QED
  BY <1>1, <1>2, <1>3, <1>5, <1>6

LEMMA AddressKeeps ==
  ASSUME FetchInv, NEW f \in Fetch, AddressFails(f)
  PROVE  FetchInv' /\ StoredStep
<1>1. PICK t : t = fetching[f]
  OBVIOUS
<1>2. /\ UNCHANGED <<slots, orphans, manuals, parts, strays, started>>
      /\ t.phase = "request" /\ t.untried > 1
  BY <1>1 DEF AddressFails, Sending
<1>3. t \in MoveTask /\ FetchSound(t) /\ ~Reading(f)
  BY <1>1, <1>2, MovingTask
<1>4. PICK asked \in MoveTask :
        /\ asked = Asked(f) /\ asked.requests = t.requests + 1 /\ asked.visited = t.visited
        /\ asked.retries = t.retries /\ asked.untried = t.untried /\ asked.phase = "request"
  BY <1>1, <1>2, AskedTask
<1>5. PICK next : next = [asked EXCEPT !.untried = @ - 1]
  OBVIOUS
<1>6. fetching' = [fetching EXCEPT ![f] = next]
  BY <1>4, <1>5 DEF AddressFails, Step
<1>7. t.untried \in 0..MaxAddresses /\ t.untried - 1 \in 0..MaxAddresses /\ t.untried - 1 # 0
  BY <1>2, <1>3, Policy DEF MoveTask
<1>8. /\ next \in MoveTask /\ next.phase = "request" /\ next.untried = t.untried - 1
      /\ next.visited = t.visited /\ next.retries = t.retries /\ next.requests = t.requests + 1
  BY <1>4, <1>5, <1>7 DEF MoveTask
<1>9. /\ Len(t.visited) \in 1..(MaxRedirects + 1) /\ t.retries \in 0..MaxRetries
      /\ t.requests <= Over(t) * MaxAddresses + Tried(t) /\ t.requests \in Nat
  BY <1>2, <1>3 DEF FetchSound, MoveTask
<1>10. next.requests <= Over(next) * MaxAddresses + Tried(next)
  <2>1. Over(next) = Over(t) /\ Tried(next) = Tried(t) + 1 /\ Tried(t) \in Nat
    BY <1>2, <1>7, <1>8, Policy DEF Over, Tried
  <2>2. Over(t) * MaxAddresses \in Nat
    <3>1. \A i, j \in Nat : i * j \in Nat
      OBVIOUS
    <3>2. Len(t.visited) - 1 \in Nat
      BY <1>9
    <3>3. Over(t) \in Nat
      BY <1>9, <3>1, <3>2, Policy DEF Over
    <3> QED
      BY <3>1, <3>3, Policy
  <2> QED
    BY <1>8, <1>9, <2>1, <2>2
<1>11. FetchSound(next)
  BY <1>7, <1>8, <1>9, <1>10 DEF FetchSound
<1>12. Held(next) = Held(fetching[f]) /\ PartsKept(f, next)
  BY <1>1, <1>2, <1>3, <1>8, PartsStay DEF Held
<1>13. next \in FetchTask /\ next.phase # "stored"
  BY <1>8 DEF FetchTask
<1> QED
  BY <1>2, <1>6, <1>11, <1>12, <1>13, PlainMoves, FetchRests

LEMMA RedirectKeeps ==
  ASSUME FetchInv, NEW f \in Fetch, NEW a \in Address, Redirected(f, a)
  PROVE  FetchInv' /\ StoredStep
<1>1. PICK t : t = fetching[f]
  OBVIOUS
<1>2. UNCHANGED <<slots, orphans, manuals, started>> /\ t.phase = "request"
  BY <1>1 DEF Redirected, Sending
<1>3. CASE Abort(f)
  BY <1>1, <1>2, <1>3, PlainAbort, FetchRests
<1>4. CASE ~Abort(f)
  <2>1. t \in MoveTask /\ FetchSound(t) /\ ~Reading(f)
    BY <1>1, <1>2, MovingTask
  <2>2. t.requests \in Nat /\ t.visited \in Seq(Address)
    BY <2>1 DEF MoveTask
  <2>3. PICK asked \in MoveTask :
          asked = Asked(f) /\ asked.requests = t.requests + 1 /\ asked.visited = t.visited
    BY <1>1, <1>2, AskedTask
  <2>4. PICK next : next = [asked EXCEPT !.url = a, !.visited = Append(@, a), !.retries = 0,
                                         !.untried = 0, !.phase = "resolve"]
    OBVIOUS
  <2>5. /\ ~(Len(t.visited) > MaxRedirects) /\ fetching' = [fetching EXCEPT ![f] = next]
        /\ UNCHANGED <<parts, strays>>
    BY <1>1, <1>4, <2>3, <2>4 DEF Redirected, Step
  <2>6. /\ next \in MoveTask /\ next.phase = "resolve" /\ next.retries = 0
        /\ next.visited = Append(t.visited, a) /\ next.requests = t.requests + 1
    <3>1. Append(t.visited, a) \in Seq(Address) /\ 0 \in 0..MaxAddresses
      BY <2>2, Policy
    <3>2. next = [asked EXCEPT !.url = a, !.visited = Append(t.visited, a), !.retries = 0,
                               !.untried = 0, !.phase = "resolve"]
      BY <2>3, <2>4
    <3> QED
      BY <2>3, <3>1, <3>2 DEF MoveTask
  <2>7. Len(next.visited) = Len(t.visited) + 1 /\ Len(t.visited) \in Nat
    BY <2>2, <2>6
  <2>8. Len(next.visited) - 1 = Len(t.visited) /\ Len(next.visited) \in 1..(MaxRedirects + 1)
    BY <2>5, <2>7, Policy
  <2>9. Over(next) = Len(t.visited) * Tries + 0 /\ Tried(next) = 0
    BY <2>6, <2>8 DEF Over, Tried
  <2>10. t.requests + 1 <= (Len(t.visited) * Tries + 0) * MaxAddresses
    BY <2>1, MayAsk
  <2>11. (Len(t.visited) * Tries + 0) * MaxAddresses \in Nat
    <3>1. \A i, j \in Nat : i * j \in Nat /\ i + 0 \in Nat
      OBVIOUS
    <3> QED
      BY <2>7, <3>1, Policy
  <2>12. next.requests <= Over(next) * MaxAddresses + Tried(next)
    BY <2>6, <2>9, <2>10, <2>11
  <2>13. FetchSound(next)
    BY <2>6, <2>8, <2>12, Policy DEF FetchSound
  <2>14. Held(next) = Held(fetching[f]) /\ PartsKept(f, next)
    BY <1>1, <1>2, <2>1, <2>5, <2>6, PartsStay DEF Held
  <2>15. next \in FetchTask /\ next.phase # "stored"
    BY <2>6 DEF FetchTask
  <2> QED
    BY <1>2, <2>5, <2>13, <2>14, <2>15, PlainMoves, FetchRests
<1> QED
  BY <1>3, <1>4

LEMMA RetryKeeps ==
  ASSUME FetchInv, NEW f \in Fetch, Retry(f)
  PROVE  FetchInv' /\ StoredStep
<1>1. PICK t : t = fetching[f]
  OBVIOUS
<1>2. UNCHANGED <<slots, orphans, manuals, started>> /\ t.phase = "request"
  BY <1>1 DEF Retry, Sending
<1>3. CASE t.retries < MaxRetries
  <2>1. t \in MoveTask /\ FetchSound(t) /\ ~Reading(f)
    BY <1>1, <1>2, MovingTask
  <2>2. t.requests \in Nat /\ t.retries \in Nat
    BY <2>1 DEF MoveTask
  <2>3. PICK asked \in MoveTask :
          /\ asked = Asked(f) /\ asked.requests = t.requests + 1 /\ asked.visited = t.visited
          /\ asked.retries = t.retries
    BY <1>1, <1>2, AskedTask
  <2>4. PICK r \in Nat : r = t.retries + 1
    BY <2>2
  <2>5. PICK next : next = [asked EXCEPT !.retries = r, !.untried = 0, !.phase = "resolve"]
    OBVIOUS
  <2>6. fetching' = [fetching EXCEPT ![f] = next] /\ UNCHANGED <<parts, strays>>
    BY <1>1, <1>3, <2>3, <2>4, <2>5 DEF Retry, Step
  <2>7. /\ next \in MoveTask /\ next.phase = "resolve" /\ next.retries = r
        /\ next.visited = t.visited /\ next.requests = t.requests + 1
    <3>1. 0 \in 0..MaxAddresses
      BY Policy
    <3> QED
      BY <2>3, <2>5, <3>1 DEF MoveTask
  <2>8. /\ Len(t.visited) \in 1..(MaxRedirects + 1) /\ t.retries \in 0..MaxRetries
        /\ t.requests + 1 <= ((Len(t.visited) - 1) * Tries + (t.retries + 1)) * MaxAddresses
    BY <2>1, MayAsk
  <2>9. Over(next) = (Len(t.visited) - 1) * Tries + (t.retries + 1) /\ Tried(next) = 0
    BY <2>4, <2>7 DEF Over, Tried
  <2>10. Over(next) * MaxAddresses \in Nat
    <3>1. \A i, j \in Nat : i * j \in Nat
      OBVIOUS
    <3>2. Len(t.visited) - 1 \in Nat
      BY <2>8
    <3>3. Over(next) \in Nat
      BY <2>2, <2>9, <3>1, <3>2, Policy
    <3> QED
      BY <3>1, <3>3, Policy
  <2>11. next.requests <= Over(next) * MaxAddresses + Tried(next)
    BY <2>7, <2>8, <2>9, <2>10
  <2>12. r \in 0..MaxRetries
    BY <1>3, <2>2, <2>4, Policy
  <2>13. FetchSound(next)
    BY <2>7, <2>8, <2>11, <2>12 DEF FetchSound
  <2>14. Held(next) = Held(fetching[f]) /\ PartsKept(f, next)
    BY <1>1, <1>2, <2>1, <2>6, <2>7, PartsStay DEF Held
  <2>15. next \in FetchTask /\ next.phase # "stored"
    BY <2>7 DEF FetchTask
  <2> QED
    BY <1>2, <2>6, <2>13, <2>14, <2>15, PlainMoves, FetchRests
<1>4. CASE ~(t.retries < MaxRetries)
  BY <1>1, <1>2, <1>4, PlainAbort, FetchRests DEF Retry
<1> QED
  BY <1>3, <1>4

LEMMA BodyKeeps ==
  ASSUME FetchInv, NEW f \in Fetch, NEW b \in Body, NEW declared \in 0..MaxBytes,
         NEW sent \in 0..(MaxBytes + 1), BodyBegins(f, b, declared, sent)
  PROVE  FetchInv' /\ StoredStep
<1>1. PICK t : t = fetching[f]
  OBVIOUS
<1>2. UNCHANGED <<slots, orphans, manuals, strays, started>> /\ t.phase = "request"
  BY <1>1 DEF BodyBegins, Sending
<1>3. t \in MoveTask /\ FetchSound(t) /\ ~Reading(f)
  BY <1>1, <1>2, MovingTask
<1>4. t.requests \in Nat /\ t.number \in Nat /\ t.requests + 1 <= Budget
  BY <1>3, MayAsk DEF MoveTask
<1>5. PICK next : next = [phase |-> "read", body |-> b, declared |-> declared, sent |-> sent, read |-> 0,
                          requests |-> t.requests + 1, late |-> FALSE, number |-> t.number]
  OBVIOUS
<1>6. Requested(f) = t.requests + 1
  BY <1>1, <1>2 DEF Requested
<1>7. fetching' = [fetching EXCEPT ![f] = next] /\ parts' = parts \cup {t.number}
  BY <1>1, <1>5, <1>6 DEF BodyBegins, Step
<1>8. next \in ReadTask /\ next.phase = "read" /\ next.requests = t.requests + 1 /\ next.number = t.number
  BY <1>4, <1>5, Policy DEF ReadTask
<1>9. FetchSound(next)
  BY <1>4, <1>8 DEF FetchSound
<1>10. Held(next) = Held(fetching[f])
  BY <1>1, <1>2, <1>8 DEF Held
<1>11. PartsKept(f, next)
  BY <1>2, <1>3, <1>7, <1>8 DEF PartsKept
<1>12. next \in FetchTask /\ next.phase # "stored"
  BY <1>8 DEF FetchTask
<1> QED
  BY <1>2, <1>7, <1>9, <1>10, <1>11, <1>12, PlainMoves, FetchRests

LEMMA ReadingTask ==
  ASSUME FetchInv, NEW f \in Fetch, fetching[f].phase \in {"read", "commit"}
  PROVE  fetching[f] \in ReadTask /\ FetchSound(fetching[f]) /\ fetching[f].requests <= Budget
<1>1. PICK t \in FetchTask : t = fetching[f] /\ FetchSound(t)
  BY DEF FetchInv, FetchTypes
<1>2. t \in ReadTask
  BY <1>1, PhaseTask
<1> QED
  BY <1>1, <1>2 DEF FetchSound

LEMMA ReadKeeps ==
  ASSUME FetchInv, NEW f \in Fetch, ReadChunk(f) \/ ReadFails(f)
  PROVE  FetchInv' /\ StoredStep
<1>1. PICK t : t = fetching[f]
  OBVIOUS
<1>2. UNCHANGED <<slots, orphans, manuals, started>> /\ t.phase = "read"
  BY <1>1 DEF ReadChunk, ReadFails
<1>3. t \in ReadTask /\ t.requests <= Budget
  BY <1>1, <1>2, ReadingTask
<1>4. CASE ReadChunk(f) /\ ~(t.read + 1 > MaxBytes)
  <2>1. PICK next : next = [t EXCEPT !.read = @ + 1]
    OBVIOUS
  <2>2. fetching' = [fetching EXCEPT ![f] = next] /\ UNCHANGED <<parts, strays>>
    <3>1. fetching \in [Fetch -> FetchTask]
      BY DEF FetchInv, FetchTypes
    <3> QED
      BY <1>1, <1>4, <2>1, <3>1 DEF ReadChunk
  <2>3. t.read \in 0..MaxBytes /\ t.read + 1 \in 0..MaxBytes
    BY <1>3, <1>4, Policy DEF ReadTask
  <2>4. /\ next \in ReadTask /\ next.phase = "read" /\ next.requests = t.requests
        /\ next.number = t.number
    BY <1>2, <1>3, <2>1, <2>3 DEF ReadTask
  <2>5. next \in FetchTask /\ FetchSound(next)
    BY <1>3, <2>4 DEF FetchTask, FetchSound
  <2>6. Held(next) = Held(fetching[f])
    BY <1>1, <1>2, <2>4 DEF Held
  <2>7. PartsKept(f, next)
    BY <1>1, <2>2, <2>4, PartsStay
  <2> QED
    BY <1>2, <2>2, <2>4, <2>5, <2>6, <2>7, PlainMoves, FetchRests
<1>5. CASE Abort(f)
  BY <1>1, <1>2, <1>5, PlainAbort, FetchRests
<1> QED
  BY <1>1, <1>4, <1>5 DEF ReadChunk, ReadFails

LEMMA VerifyKeeps ==
  ASSUME FetchInv, NEW f \in Fetch, VerifyBody(f)
  PROVE  FetchInv' /\ StoredStep
<1>1. PICK t : t = fetching[f]
  OBVIOUS
<1>2. UNCHANGED <<slots, orphans, manuals, started>> /\ t.phase = "read"
  BY <1>1 DEF VerifyBody
<1>3. t \in ReadTask /\ t.requests <= Budget
  BY <1>1, <1>2, ReadingTask
<1>4. CASE Abort(f)
  BY <1>1, <1>2, <1>4, PlainAbort, FetchRests
<1>5. CASE ~Abort(f)
  <2>1. PICK next : next = [t EXCEPT !.phase = "commit"]
    OBVIOUS
  <2>2. /\ ~(t.read = 0) /\ ~(t.declared # 0 /\ t.read # t.declared) /\ t.body.pdf
        /\ fetching' = [fetching EXCEPT ![f] = next] /\ UNCHANGED <<parts, strays>>
    BY <1>1, <1>5, <2>1 DEF VerifyBody, Step
  <2>3. /\ next \in ReadTask /\ next.phase = "commit" /\ next.requests = t.requests /\ next.read = t.read
        /\ next.declared = t.declared /\ next.body = t.body /\ next.number = t.number
    BY <1>3, <2>1 DEF ReadTask
  <2>4. FetchSound(next)
    BY <1>3, <2>2, <2>3 DEF FetchSound
  <2>5. Held(next) = Held(fetching[f])
    BY <1>1, <1>2, <2>3 DEF Held
  <2>6. next \in FetchTask /\ PartsKept(f, next)
    BY <1>1, <2>2, <2>3, PartsStay DEF FetchTask
  <2> QED
    BY <1>2, <2>2, <2>3, <2>4, <2>5, <2>6, PlainMoves, FetchRests
<1> QED
  BY <1>4, <1>5

\* The file that is published was verified, and so was one that was found whole.
LEMMA CommitKeeps ==
  ASSUME FetchInv, NEW f \in Fetch, CommitFile(f) \/ CommitFails(f)
  PROVE  FetchInv' /\ StoredStep
<1>1. PICK t : t = fetching[f]
  OBVIOUS
<1>2. UNCHANGED <<slots, orphans, started>> /\ t.phase = "commit"
  BY <1>1 DEF CommitFile, CommitFails
<1>3. t \in ReadTask /\ t.requests <= Budget /\ FetchSound(t)
  BY <1>1, <1>2, ReadingTask
<1>4. t.read # 0 /\ t.declared \in {0, t.read} /\ t.body.pdf
  BY <1>2, <1>3 DEF FetchSound
<1>5. PICK file : file = <<t.body, t.read>>
  OBVIOUS
<1>6. file \in Digest /\ file[1] = t.body /\ file[2] = t.read
  <2>1. t.body \in Body /\ t.read \in 1..MaxBytes
    BY <1>3, <1>4, Policy DEF ReadTask
  <2> QED
    BY <1>5, <2>1 DEF Digest
<1>7. manuals \in [Digest -> {"absent", "whole", "damaged"}] /\ slots \in Nat /\ orphans \in Nat
  BY DEF FetchInv, FetchTypes
<1>8. CASE Abort(f) /\ manuals' \in {manuals, [manuals EXCEPT ![file] = "whole"]}
  <2>1. manuals' \in [Digest -> {"absent", "whole", "damaged"}]
    BY <1>7, <1>8
  <2> QED
    BY <1>1, <1>2, <1>8, <2>1, PlainAbort
<1>9. CASE /\ CommitFile(f) /\ Stored(f) /\ parts' = parts \ {t.number} /\ strays' = strays
           /\ manuals' \in {manuals, [manuals EXCEPT ![file] = "whole"]}
           /\ manuals'[file] = "whole"
  <2>1. PICK next : next = [phase |-> "stored", file |-> file, declared |-> t.declared, requests |-> t.requests]
    OBVIOUS
  <2>2. fetching' = [fetching EXCEPT ![f] = next]
    BY <1>1, <1>5, <1>9, <2>1 DEF Stored, Step, Name
  <2>3. next \in StoredTask /\ next.phase = "stored" /\ next.file = file
        /\ next.declared = t.declared /\ next.requests = t.requests
    BY <1>3, <1>6, <2>1 DEF StoredTask, ReadTask
  <2>4. FetchSound(next) /\ next \in FetchTask
    BY <1>3, <2>3 DEF FetchSound, FetchTask
  <2>5. Held(next) = 0 /\ Held(fetching[f]) = 0
    BY <1>1, <1>2, <2>3 DEF Held
  <2>6. slots' \in Nat /\ orphans' \in Nat /\ started' \in Nat
        /\ Held(next) + orphans' + slots' = Held(fetching[f]) + orphans + slots
    BY <1>2, <1>7, <2>5, FetchRests
  <2>7. manuals' \in [Digest -> {"absent", "whole", "damaged"}]
    BY <1>7, <1>9
  <2>8. manuals'[next.file] = "whole" /\ next.file[1].pdf /\ next.declared \in {0, next.file[2]}
    BY <1>4, <1>6, <1>9, <2>3
  <2>9. PartsKept(f, next)
    BY <1>1, <1>9 DEF PartsKept
  <2> QED
    BY <2>2, <2>4, <2>6, <2>7, <2>8, <2>9, FetchMoves
<1>10. CASE CommitFile(f)
  <2>1. Name(f) = file
    BY <1>1, <1>5 DEF Name
  <2>2. CASE manuals[file] = "absent"
    <3>1. /\ Stored(f) /\ parts' = parts \ {t.number} /\ strays' = strays
          /\ manuals' = [manuals EXCEPT ![file] = "whole"]
      BY <1>1, <1>10, <2>1, <2>2 DEF CommitFile, Published
    <3>2. manuals'[file] = "whole"
      BY <1>6, <1>7, <3>1
    <3> QED
      BY <1>9, <1>10, <3>1, <3>2
  <2>3. CASE manuals[file] = "whole"
    <3>1. Stored(f) /\ parts' = parts \ {t.number} /\ strays' = strays /\ manuals' = manuals
      BY <1>1, <1>10, <2>1, <2>3 DEF CommitFile
    <3> QED
      BY <1>9, <1>10, <2>3, <3>1
  <2>4. CASE manuals[file] \notin {"absent", "whole"}
    <3>1. Abort(f) /\ manuals' = manuals
      BY <1>10, <2>1, <2>4 DEF CommitFile
    <3> QED
      BY <1>8, <3>1
  <2> QED
    BY <2>2, <2>3, <2>4
<1>11. CASE CommitFails(f)
  <2>1. Name(f) = file
    BY <1>1, <1>5 DEF Name
  <2> QED
    BY <1>8, <1>11, <2>1 DEF CommitFails, Published
<1> QED
  BY <1>10, <1>11

LEMMA OtherFetchSteps ==
  ASSUME FetchInv, OrphanReturns \/ CrashFetches \/ (\E d \in Digest : Damage(d)) \/ UNCHANGED fetchVars
  PROVE  FetchInv' /\ StoredStep
<1>1. /\ fetching \in [Fetch -> FetchTask] /\ slots \in Nat /\ orphans \in Nat
      /\ manuals \in [Digest -> {"absent", "whole", "damaged"}]
  BY DEF FetchInv, FetchTypes
<1>2. IsFiniteSet(Resolving) /\ Cardinality(Resolving) \in Nat
  BY FetchConstants, FS_Subset, FS_CardinalityType DEF Resolving
<1>3. ASSUME UNCHANGED <<fetching, parts, strays, started>>, slots' \in Nat, orphans' \in Nat,
             orphans' + slots' = orphans + slots, manuals' \in [Digest -> {"absent", "whole", "damaged"}]
      PROVE  FetchInv' /\ StoredStep
  <2>1. Resolving' = Resolving
    BY <1>3 DEF Resolving
  <2>2. Cardinality(Resolving') + orphans' + slots' = Slots
    <3>1. Cardinality(Resolving) + orphans + slots = Slots
      BY DEF FetchInv, FetchResources
    <3>2. PICK n \in Nat : n = Cardinality(Resolving) /\ n = Cardinality(Resolving')
      BY <1>2, <2>1
    <3>3. n + orphans + slots = Slots
      BY <3>1, <3>2
    <3>4. PICK o \in Nat, s \in Nat : o = orphans' /\ s = slots'
      BY <1>3
    <3>5. o + s = orphans + slots
      BY <1>3, <3>4
    <3>6. n + o + s = Slots
      BY <1>1, <3>3, <3>5
    <3> QED
      BY <3>2, <3>4, <3>6
  <2>3. FetchResources'
    BY <1>3, <2>2 DEF FetchInv, FetchResources, Reading
  <2>4. FetchTypes'
    BY <1>1, <1>3, FetchRests DEF FetchTypes
  <2>5. \A f \in Fetch : FetchSound(fetching'[f])
    BY <1>3 DEF FetchInv
  <2> QED
    BY <1>3, <2>3, <2>4, <2>5 DEF FetchInv, StoredStep
<1>4. CASE OrphanReturns
  <2>1. orphans > 0 /\ orphans' = orphans - 1 /\ slots' = slots + 1
        /\ UNCHANGED <<fetching, parts, strays, started, manuals>>
    BY <1>4 DEF OrphanReturns
  <2>2. orphans' \in Nat /\ slots' \in Nat /\ orphans' + slots' = orphans + slots
    BY <1>1, <2>1
  <2> QED
    BY <1>1, <1>3, <2>1, <2>2
<1>5. CASE CrashFetches
  <2>1. /\ fetching' = [f \in Fetch |-> Quiet] /\ orphans' = 0 /\ slots' = Slots
        /\ parts' = parts /\ strays' = strays \cup parts /\ started' = started
    BY <1>5 DEF CrashFetches
  <2>8. manuals' \in [Digest -> {"absent", "whole", "damaged"}]
    BY <1>1, <1>5 DEF CrashFetches
  <2>2. \A f \in Fetch : fetching'[f] = Quiet
    BY <2>1
  <2>3. Resolving' = {}
    BY <2>2 DEF Resolving, Quiet
  <2>4. FetchResources'
    BY <2>1, <2>2, <2>3, FS_EmptySet, Policy DEF FetchResources
  <2>5. FetchTypes'
    BY <1>1, <2>1, <2>8, Policy, FetchRests DEF FetchTypes, FetchTask
  <2>6. \A f \in Fetch : FetchSound(fetching'[f])
    BY <2>2 DEF FetchSound, Quiet
  <2>7. StoredStep
    BY <2>2 DEF StoredStep, Quiet
  <2> QED
    BY <2>4, <2>5, <2>6, <2>7 DEF FetchInv
<1>6. CASE \E d \in Digest : Damage(d)
  BY <1>1, <1>3, <1>6 DEF Damage
<1>7. CASE UNCHANGED fetchVars
  BY <1>1, <1>3, <1>7 DEF fetchVars
<1> QED
  BY <1>4, <1>5, <1>6, <1>7

LEMMA FetchKeeps ==
  ASSUME FetchInv, [FetchNext]_fetchVars
  PROVE  FetchInv' /\ StoredStep
<1>1. ASSUME NEW f \in Fetch, FetchStep(f) PROVE FetchInv' /\ StoredStep
  BY <1>1, ResolveKeeps, AnswerKeeps, TimeOutKeeps, AddressKeeps, RequestFailsKeeps, RetryKeeps,
     RedirectKeeps, BodyKeeps, ReadKeeps, VerifyKeeps, CommitKeeps DEF FetchStep
<1>2. ASSUME NEW f \in Fetch, (\E a \in Address : BeginFetch(f, a)) \/ DeadlinePasses(f) \/ EndFetch(f)
      PROVE  FetchInv' /\ StoredStep
  BY <1>2, BeginKeeps, DeadlineKeeps, EndKeeps
<1>3. \/ \E f \in Fetch : FetchStep(f)
      \/ \E f \in Fetch : (\E a \in Address : BeginFetch(f, a)) \/ DeadlinePasses(f) \/ EndFetch(f)
      \/ OrphanReturns \/ CrashFetches \/ (\E d \in Digest : Damage(d)) \/ UNCHANGED fetchVars
  BY DEF FetchNext
<1> QED
  BY <1>1, <1>2, <1>3, OtherFetchSteps

\* What fetches use is bounded and given back, for any number of fetches, slots,
\* redirects, retries and addresses: threads that resolve names, and requests; and a
\* partial file is one that a fetch reads, that a death left, or that could not be
\* removed (RulebookFetch!FetchResources).
THEOREM FetchesGiveBack == FetchSpec => []FetchResources
<1>1. FetchInit => FetchInv
  BY InitFetch
<1>2. FetchInv /\ [FetchNext]_fetchVars => FetchInv'
  BY FetchKeeps
<1>3. FetchInv => FetchResources
  BY DEF FetchInv
<1> QED
  BY <1>1, <1>2, <1>3, PTL DEF FetchSpec

\* A fetch that reports a file has stored it: a PDF, whole, of the length that was
\* declared (RulebookFetch!StoredIsFetched).
THEOREM ReportedIsStored == FetchSpec => StoredIsFetched
<1>1. FetchInit => FetchInv
  BY InitFetch
<1>2. FetchInv /\ [FetchNext]_fetchVars => FetchInv' /\ [StoredStep]_fetchVars
  BY FetchKeeps
<1>3. [][StoredStep]_fetchVars => StoredIsFetched
  BY PTL DEF StoredStep, StoredIsFetched
<1> QED
  BY <1>1, <1>2, <1>3, PTL DEF FetchSpec

-----------------------------------------------------------------------------
(* The guarded download ends: a measure that every step of a fetch lowers *)

\* The requests a chain may still take, beyond the one it is at.
TriesLeft(t) == (MaxRedirects + 1 - Len(t.visited)) * Tries + (MaxRetries - t.retries)

\* What comes before the next request is answered: the name, then an address after
\* the other.
ToAnswer(t) ==
  CASE t.phase = "resolve" -> MaxAddresses + 2
    [] t.phase = "resolving" -> MaxAddresses + 1
    [] t.phase = "request" -> t.untried

Round == MaxAddresses + 2

\* The steps a fetch may still take: each request is resolved, sent to the addresses
\* and answered, a body read to the limit and verified; and the deadline passes once.
StepsLeft(t) ==
  LET deadline == IF t.late THEN 0 ELSE 1
  IN  CASE t.phase \in {"resolve", "resolving", "request"} ->
             MaxBytes + 2 + ToAnswer(t) + TriesLeft(t) * Round + deadline
        [] t.phase = "read" -> MaxBytes + 2 - t.read + deadline
        [] t.phase = "commit" -> 1 + deadline
        [] OTHER -> 0

FetchSteps == MaxBytes + 3 + Round + (MaxRedirects * Tries + MaxRetries) * Round

\* A fetch that runs and changes comes nearer to its end.
AdvanceStep ==
  \A f \in Fetch : Running(f) =>
    fetching'[f] = fetching[f] \/ StepsLeft(fetching'[f]) < StepsLeft(fetching[f])

LEMMA TriesBound ==
  ASSUME NEW n \in 1..(MaxRedirects + 1), NEW r \in 0..MaxRetries
  PROVE  (MaxRedirects + 1 - n) * Tries + (MaxRetries - r) \in 0..(MaxRedirects * Tries + MaxRetries)
<1>1. MaxRedirects + 1 - n \in Nat /\ MaxRedirects + 1 - n <= MaxRedirects
  BY Policy
<1>2. (MaxRedirects + 1 - n) * Tries <= MaxRedirects * Tries
  BY <1>1, Policy, Scaled
<1>3. (MaxRedirects + 1 - n) * Tries \in Nat /\ MaxRedirects * Tries \in Nat
  BY <1>1, Policy
<1>4. MaxRetries - r \in 0..MaxRetries
  BY Policy
<1> QED
  BY <1>2, <1>3, <1>4, Policy

LEMMA RoundsBound ==
  ASSUME NEW k \in Nat, NEW l \in Nat
  PROVE  /\ Round \in Nat /\ k * Round \in Nat /\ l * Round \in Nat
         /\ l <= k => l * Round <= k * Round
         /\ l < k => l * Round + Round <= k * Round
<1>1. Round \in Nat
  BY Policy DEF Round
<1>2. \A i, j \in Nat : i * j \in Nat /\ (i + 1) * j = i * j + j
  OBVIOUS
<1>3. l <= k => l * Round <= k * Round
  BY <1>1, Scaled
<1>4. l < k => (l + 1) * Round <= k * Round
  BY <1>1, Scaled
<1> QED
  BY <1>1, <1>2, <1>3, <1>4

\* What the measure needs to know of a fetch on its way.
OnItsWay(t) ==
  /\ t \in MoveTask /\ Len(t.visited) \in 1..(MaxRedirects + 1) /\ t.retries \in 0..MaxRetries
  /\ t.phase = "request" => t.untried # 0

LEMMA WayTask ==
  ASSUME FetchInv, NEW f \in Fetch, fetching[f].phase \in {"resolve", "resolving", "request"}
  PROVE  OnItsWay(fetching[f])
<1>1. fetching[f] \in MoveTask /\ FetchSound(fetching[f])
  BY MovingTask
<1> QED
  BY <1>1 DEF OnItsWay, FetchSound

\* The measure of a fetch that moves, reads, commits or is over.
LEMMA MoveSteps ==
  ASSUME NEW t, OnItsWay(t)
  PROVE  /\ TriesLeft(t) \in 0..(MaxRedirects * Tries + MaxRetries)
         /\ ToAnswer(t) \in 1..Round
         /\ StepsLeft(t) = MaxBytes + 2 + ToAnswer(t) + TriesLeft(t) * Round + (IF t.late THEN 0 ELSE 1)
         /\ StepsLeft(t) \in (MaxBytes + 3)..FetchSteps
<1>1. TriesLeft(t) \in 0..(MaxRedirects * Tries + MaxRetries)
  BY TriesBound DEF TriesLeft, OnItsWay
<1>2. t.phase \in {"resolve", "resolving", "request"} /\ t.untried \in 0..MaxAddresses
  BY DEF MoveTask, OnItsWay
<1>3. ToAnswer(t) \in 1..Round
  BY <1>2, Policy, SMTT(30) DEF ToAnswer, Round, OnItsWay
<1>4. StepsLeft(t) = MaxBytes + 2 + ToAnswer(t) + TriesLeft(t) * Round + (IF t.late THEN 0 ELSE 1)
  BY <1>2 DEF StepsLeft
<1>5. MaxRedirects * Tries \in Nat
  BY Policy
<1>6. StepsLeft(t) \in (MaxBytes + 3)..FetchSteps
  <2>1. PICK left \in Nat, most \in Nat, ahead \in 1..Round, d \in 0..1 :
          /\ left = TriesLeft(t) /\ most = MaxRedirects * Tries + MaxRetries /\ left <= most
          /\ ahead = ToAnswer(t) /\ d = IF t.late THEN 0 ELSE 1
    BY <1>1, <1>3, <1>5, Policy
  <2>2. PICK r \in Nat, m \in Nat, n \in Nat : r = Round /\ m = left * Round /\ n = most * Round /\ m <= n
    BY <2>1, RoundsBound
  <2>3. StepsLeft(t) = MaxBytes + 2 + ahead + m + d /\ FetchSteps = MaxBytes + 3 + r + n
    BY <1>4, <2>1, <2>2 DEF FetchSteps
  <2> QED
    BY <2>1, <2>2, <2>3, Policy
<1> QED
  BY <1>1, <1>3, <1>4, <1>6

LEMMA ReadSteps ==
  ASSUME NEW t \in ReadTask
  PROVE  /\ t.phase = "read" => StepsLeft(t) = MaxBytes + 2 - t.read + (IF t.late THEN 0 ELSE 1)
         /\ t.phase = "commit" => StepsLeft(t) = 1 + (IF t.late THEN 0 ELSE 1)
         /\ StepsLeft(t) \in 1..(MaxBytes + 3)
<1>1. t.read \in 0..MaxBytes /\ t.phase \in {"read", "commit"}
  BY DEF ReadTask
<1>2. t.phase = "read" => StepsLeft(t) = MaxBytes + 2 - t.read + (IF t.late THEN 0 ELSE 1)
  BY DEF StepsLeft
<1>3. t.phase = "commit" => StepsLeft(t) = 1 + (IF t.late THEN 0 ELSE 1)
  BY DEF StepsLeft
<1>4. PICK d \in 0..1 : d = IF t.late THEN 0 ELSE 1
  OBVIOUS
<1> QED
  BY <1>1, <1>2, <1>3, <1>4, Policy

LEMMA OverSteps ==
  ASSUME NEW t, t.phase \in {"quiet", "failed", "stored"}
  PROVE  StepsLeft(t) = 0
BY DEF StepsLeft

LEMMA FetchStepsNat == FetchSteps \in Nat /\ MaxBytes + 3 <= FetchSteps
<1>1. MaxRedirects * Tries + MaxRetries \in Nat
  BY Policy
<1>2. Round \in Nat /\ (MaxRedirects * Tries + MaxRetries) * Round \in Nat
  BY <1>1, RoundsBound
<1> QED
  BY <1>2, Policy DEF FetchSteps

\* A fetch has a bounded number of steps left, and while it runs at least one.
LEMMA SomeStepsLeft ==
  ASSUME FetchInv, NEW f \in Fetch
  PROVE  /\ StepsLeft(fetching[f]) \in 0..FetchSteps
         /\ Running(f) => StepsLeft(fetching[f]) > 0
<1>1. PICK t \in FetchTask : t = fetching[f] /\ FetchSound(t)
  BY DEF FetchInv, FetchTypes
<1>2. CASE t \in MoveTask
  <2>1. t.phase \in {"resolve", "resolving", "request"}
    BY <1>2 DEF MoveTask
  <2>2. OnItsWay(t)
    BY <1>1, <1>2, <2>1 DEF FetchSound, OnItsWay
  <2>3. StepsLeft(t) \in (MaxBytes + 3)..FetchSteps
    BY <2>2, MoveSteps
  <2> QED
    BY <1>1, <2>3, FetchStepsNat, Policy
<1>3. CASE t \in ReadTask
  BY <1>1, <1>3, ReadSteps, FetchStepsNat, Policy
<1>4. CASE t = Quiet \/ t \in FailedTask \/ t \in StoredTask
  <2>1. t.phase \in {"quiet", "failed", "stored"}
    BY <1>4 DEF Quiet, FailedTask, StoredTask
  <2> QED
    BY <1>1, <2>1, OverSteps, FetchStepsNat DEF Running
<1> QED
  BY <1>2, <1>3, <1>4 DEF FetchTask

\* Only one fetch changes, and it comes nearer to its end.
LEMMA OneAdvances ==
  ASSUME FetchInv, NEW f \in Fetch, NEW next, fetching' = [fetching EXCEPT ![f] = next],
         Running(f) => next = fetching[f] \/ StepsLeft(next) < StepsLeft(fetching[f])
  PROVE  AdvanceStep
<1>1. fetching'[f] = next /\ \A e \in Fetch \ {f} : fetching'[e] = fetching[e]
  BY DEF FetchInv, FetchTypes
<1> QED
  BY <1>1 DEF AdvanceStep

LEMMA AbortAdvances ==
  ASSUME FetchInv, NEW f \in Fetch, Abort(f)
  PROVE  AdvanceStep
<1>1. PICK next : next = [phase |-> "failed", requests |-> Requested(f)]
  OBVIOUS
<1>2. fetching' = [fetching EXCEPT ![f] = next] /\ next.phase = "failed"
  BY <1>1 DEF Abort, Step
<1>3. StepsLeft(next) = 0
  BY <1>2, OverSteps
<1>4. Running(f) => StepsLeft(next) < StepsLeft(fetching[f])
  BY <1>3, SomeStepsLeft
<1> QED
  BY <1>2, <1>4, OneAdvances

\* A fetch stays with its attempt and comes nearer to an answer.
LEMMA NearerAdvances ==
  ASSUME FetchInv, NEW f \in Fetch, fetching[f].phase \in {"resolve", "resolving", "request"},
         NEW next, OnItsWay(next), next.late = fetching[f].late,
         TriesLeft(next) = TriesLeft(fetching[f]), ToAnswer(next) < ToAnswer(fetching[f]),
         fetching' = [fetching EXCEPT ![f] = next]
  PROVE  AdvanceStep
<1>1. PICK t : t = fetching[f]
  OBVIOUS
<1>2. OnItsWay(t)
  BY <1>1, WayTask
<1>3. PICK d \in 0..1 : d = IF t.late THEN 0 ELSE 1
  OBVIOUS
<1>4. PICK k \in Nat : k = TriesLeft(t)
  BY <1>2, MoveSteps
<1>5. PICK m \in Nat, r \in Nat : m = k * Round /\ r = Round
  BY RoundsBound
<1>6. StepsLeft(t) = MaxBytes + 2 + ToAnswer(t) + m + d /\ ToAnswer(t) \in 1..r
  BY <1>2, <1>3, <1>4, <1>5, MoveSteps
<1>7. StepsLeft(next) = MaxBytes + 2 + ToAnswer(next) + m + d /\ ToAnswer(next) \in 1..r
  BY <1>1, <1>3, <1>4, <1>5, MoveSteps
<1>8. StepsLeft(next) < StepsLeft(t)
  BY <1>1, <1>5, <1>6, <1>7, Policy
<1> QED
  BY <1>1, <1>8, OneAdvances

\* A name is resolved, or needs no resolution; n addresses are known then.
LEMMA PhaseAdvances ==
  ASSUME FetchInv, NEW f \in Fetch, fetching[f].phase \in {"resolve", "resolving"},
         NEW n \in 1..MaxAddresses, ToRequest(f, n)
  PROVE  AdvanceStep
<1>1. PICK t : t = fetching[f]
  OBVIOUS
<1>2. OnItsWay(t) /\ t \in MoveTask
  BY <1>1, WayTask DEF OnItsWay
<1>3. PICK next : next = [t EXCEPT !.phase = "request", !.untried = n]
  OBVIOUS
<1>4. n \in 0..MaxAddresses /\ n # 0
  BY Policy
<1>5. /\ next \in MoveTask /\ next.phase = "request" /\ next.visited = t.visited
      /\ next.retries = t.retries /\ next.late = t.late /\ next.untried = n
  BY <1>2, <1>3, <1>4 DEF MoveTask
<1>6. fetching' = [fetching EXCEPT ![f] = next]
  BY <1>1, <1>3 DEF ToRequest, Step
<1>7. OnItsWay(next) /\ TriesLeft(next) = TriesLeft(t)
  BY <1>2, <1>4, <1>5 DEF OnItsWay, TriesLeft
<1>8. ToAnswer(next) < ToAnswer(t)
  BY <1>1, <1>4, <1>5, Policy DEF ToAnswer
<1> QED
  BY <1>1, <1>5, <1>6, <1>7, <1>8, NearerAdvances

LEMMA ResolveAdvances ==
  ASSUME FetchInv, NEW f \in Fetch, ResolveName(f) \/ NameAnswered(f)
  PROVE  AdvanceStep
<1>1. CASE ResolveName(f)
  <2>1. fetching[f].phase = "resolve" /\ fetching \in [Fetch -> FetchTask]
    BY <1>1 DEF ResolveName, FetchInv, FetchTypes
  <2>2. CASE fetching[f].url.name
    <3>1. PICK t : t = fetching[f]
      OBVIOUS
    <3>2. PICK next : next = [t EXCEPT !.phase = "resolving"]
      OBVIOUS
    <3>3. OnItsWay(t) /\ t \in MoveTask
      BY <2>1, <3>1, WayTask DEF OnItsWay
    <3>4. /\ next \in MoveTask /\ next.phase = "resolving" /\ next.visited = t.visited
          /\ next.retries = t.retries /\ next.late = t.late
      BY <3>2, <3>3 DEF MoveTask
    <3>5. OnItsWay(next) /\ TriesLeft(next) = TriesLeft(t)
      BY <3>3, <3>4 DEF OnItsWay, TriesLeft
    <3>6. ToAnswer(next) < ToAnswer(t)
      BY <2>1, <3>1, <3>4, Policy DEF ToAnswer
    <3>7. fetching' = [fetching EXCEPT ![f] = next]
      BY <1>1, <2>1, <2>2, <3>1, <3>2 DEF ResolveName
    <3> QED
      BY <2>1, <3>1, <3>4, <3>5, <3>6, <3>7, NearerAdvances
  <2>3. CASE ~fetching[f].url.name
    <3>1. ToRequest(f, 1) /\ 1 \in 1..MaxAddresses
      BY <1>1, <2>3, Policy DEF ResolveName
    <3> QED
      BY <2>1, <3>1, PhaseAdvances
  <2> QED
    BY <2>2, <2>3
<1>2. CASE NameAnswered(f)
  <2>1. fetching[f].phase = "resolving"
    BY <1>2 DEF NameAnswered
  <2>2. ASSUME NEW n \in 1..MaxAddresses, ToRequest(f, n) PROVE AdvanceStep
    BY <2>1, <2>2, PhaseAdvances
  <2> QED
    BY <1>2, <2>2, AbortAdvances DEF NameAnswered
<1> QED
  BY <1>1, <1>2

\* One address fewer is left.
LEMMA AddressAdvances ==
  ASSUME FetchInv, NEW f \in Fetch, AddressFails(f)
  PROVE  AdvanceStep
<1>1. PICK t : t = fetching[f]
  OBVIOUS
<1>2. t.phase = "request" /\ t.untried > 1
  BY <1>1 DEF AddressFails, Sending
<1>3. OnItsWay(t) /\ t.untried \in 0..MaxAddresses
  BY <1>1, <1>2, WayTask DEF OnItsWay, MoveTask
<1>4. PICK asked \in MoveTask :
        /\ asked = Asked(f) /\ asked.visited = t.visited /\ asked.late = t.late
        /\ asked.retries = t.retries /\ asked.untried = t.untried /\ asked.phase = "request"
  BY <1>1, <1>2, AskedTask
<1>5. PICK next : next = [asked EXCEPT !.untried = @ - 1]
  OBVIOUS
<1>6. fetching' = [fetching EXCEPT ![f] = next]
  BY <1>4, <1>5 DEF AddressFails, Step
<1>7. t.untried - 1 \in 0..MaxAddresses /\ t.untried - 1 # 0 /\ t.untried - 1 < t.untried
  BY <1>2, <1>3, Policy
<1>8. /\ next \in MoveTask /\ next.phase = "request" /\ next.untried = t.untried - 1
      /\ next.visited = t.visited /\ next.retries = t.retries /\ next.late = t.late
  BY <1>4, <1>5, <1>7 DEF MoveTask
<1>9. OnItsWay(next) /\ TriesLeft(next) = TriesLeft(t)
  BY <1>3, <1>7, <1>8 DEF OnItsWay, TriesLeft
<1>10. ToAnswer(next) < ToAnswer(t)
  BY <1>2, <1>7, <1>8 DEF ToAnswer
<1> QED
  BY <1>1, <1>2, <1>6, <1>8, <1>9, <1>10, NearerAdvances

LEMMA DeadlineAdvances ==
  ASSUME FetchInv, NEW f \in Fetch, DeadlinePasses(f)
  PROVE  AdvanceStep
<1>1. PICK t \in FetchTask : t = fetching[f] /\ FetchSound(t)
  BY DEF FetchInv, FetchTypes
<1>2. PICK next : next = [t EXCEPT !.late = TRUE]
  OBVIOUS
<1>3. fetching' = [fetching EXCEPT ![f] = next]
  BY <1>1, <1>2 DEF DeadlinePasses, FetchInv, FetchTypes
<1>4. ~t.late /\ t.phase \notin {"quiet", "stored", "failed"}
  BY <1>1 DEF DeadlinePasses, Running
<1>5. CASE t \in MoveTask
  <2>1. /\ next \in MoveTask /\ next.phase = t.phase /\ next.visited = t.visited
        /\ next.retries = t.retries /\ next.late /\ next.untried = t.untried
    BY <1>2, <1>5 DEF MoveTask
  <2>2. t.phase \in {"resolve", "resolving", "request"}
    BY <1>5 DEF MoveTask
  <2>3. OnItsWay(t)
    BY <1>1, <2>2, WayTask
  <2>4. OnItsWay(next) /\ TriesLeft(next) = TriesLeft(t) /\ ToAnswer(next) = ToAnswer(t)
    BY <2>1, <2>2, <2>3 DEF OnItsWay, TriesLeft, ToAnswer
  <2>5. PICK k \in Nat, r \in Nat, a \in Nat : a \in 1..r /\ k = TriesLeft(t) /\ r = Round /\ a = ToAnswer(t)
    BY <2>3, MoveSteps, RoundsBound
  <2>6. PICK m \in Nat : m = k * Round
    BY RoundsBound
  <2>7. StepsLeft(t) = MaxBytes + 2 + a + m + 1
    BY <1>4, <2>3, <2>5, <2>6, MoveSteps
  <2>8. StepsLeft(next) = MaxBytes + 2 + a + m + 0
    BY <2>1, <2>4, <2>5, <2>6, MoveSteps
  <2>9. StepsLeft(next) < StepsLeft(t)
    BY <2>5, <2>6, <2>7, <2>8, Policy
  <2> QED
    BY <1>1, <1>3, <2>9, OneAdvances
<1>6. CASE t \in ReadTask
  <2>1. next \in ReadTask /\ next.phase = t.phase /\ next.read = t.read /\ next.late
    BY <1>2, <1>6 DEF ReadTask
  <2>2. t.phase \in {"read", "commit"} /\ t.read \in 0..MaxBytes
    BY <1>6 DEF ReadTask
  <2>3. StepsLeft(next) < StepsLeft(t)
    BY <1>4, <1>6, <2>1, <2>2, ReadSteps, Policy
  <2> QED
    BY <1>1, <1>3, <2>3, OneAdvances
<1> QED
  BY <1>1, <1>4, <1>5, <1>6 DEF FetchTask, Quiet, FailedTask, StoredTask

\* The next request of a fetch is one of those that were left.
LEMMA RequestAdvances ==
  ASSUME FetchInv, NEW f \in Fetch, fetching[f].phase = "request", NEW next \in MoveTask,
         next.phase = "resolve", next.late = fetching[f].late,
         Len(next.visited) \in 1..(MaxRedirects + 1), next.retries \in 0..MaxRetries,
         TriesLeft(next) < TriesLeft(fetching[f]),
         fetching' = [fetching EXCEPT ![f] = next]
  PROVE  AdvanceStep
<1>1. PICK t : t = fetching[f]
  OBVIOUS
<1>2. OnItsWay(t) /\ OnItsWay(next)
  BY <1>1, WayTask DEF OnItsWay
<1>3. PICK r \in Nat, a \in Nat : a \in 1..r /\ r = Round /\ a = ToAnswer(t) /\ ToAnswer(next) = Round
  <2>1. ToAnswer(next) = Round
    BY DEF ToAnswer, Round
  <2> QED
    BY <1>2, <2>1, MoveSteps, RoundsBound
<1>4. PICK k \in Nat, l \in Nat : k = TriesLeft(t) /\ l = TriesLeft(next) /\ l < k
  BY <1>1, <1>2, MoveSteps
<1>5. PICK m \in Nat, n \in Nat : m = k * Round /\ n = l * Round /\ n + r <= m
  BY <1>3, <1>4, RoundsBound
<1>6. PICK d \in 0..1 : d = IF t.late THEN 0 ELSE 1
  OBVIOUS
<1>7. StepsLeft(t) = MaxBytes + 2 + a + m + d
  BY <1>2, <1>3, <1>4, <1>5, <1>6, MoveSteps
<1>8. StepsLeft(next) = MaxBytes + 2 + r + n + d
  BY <1>1, <1>2, <1>3, <1>4, <1>5, <1>6, MoveSteps
<1>9. StepsLeft(next) < StepsLeft(t)
  <2>1. 2 + r + n < 2 + a + m
    BY <1>3, <1>5, SMTT(30)
  <2>2. 2 + r + n \in Nat /\ 2 + a + m \in Nat
    BY <1>3, <1>5
  <2> QED
    BY <1>3, <1>5, <1>6, <1>7, <1>8, <2>1, <2>2, Policy
<1> QED
  BY <1>1, <1>9, OneAdvances

LEMMA RedirectAdvances ==
  ASSUME FetchInv, NEW f \in Fetch, NEW a \in Address, Redirected(f, a), ~Abort(f)
  PROVE  AdvanceStep
<1>1. PICK t : t = fetching[f]
  OBVIOUS
<1>2. /\ t \in MoveTask /\ t.phase = "request"
      /\ Len(t.visited) \in 1..(MaxRedirects + 1) /\ t.retries \in 0..MaxRetries
      /\ t.visited \in Seq(Address)
  <2>1. t.phase = "request"
    BY <1>1 DEF Redirected, Sending
  <2> QED
    BY <1>1, <2>1, WayTask DEF OnItsWay, MoveTask
<1>3. PICK asked \in MoveTask : asked = Asked(f) /\ asked.visited = t.visited /\ asked.late = t.late
  BY <1>1, <1>2, AskedTask
<1>4. PICK next : next = [asked EXCEPT !.url = a, !.visited = Append(@, a), !.retries = 0,
                                        !.untried = 0, !.phase = "resolve"]
  OBVIOUS
<1>5. ~(Len(t.visited) > MaxRedirects)
  BY <1>1 DEF Redirected
<1>6. fetching' = [fetching EXCEPT ![f] = next]
  BY <1>3, <1>4 DEF Redirected, Step
<1>7. /\ next \in MoveTask /\ next.phase = "resolve" /\ next.retries = 0 /\ next.late = t.late
      /\ next.visited = Append(t.visited, a)
  <2>1. next = [asked EXCEPT !.url = a, !.visited = Append(t.visited, a), !.retries = 0,
                             !.untried = 0, !.phase = "resolve"]
    BY <1>3, <1>4
  <2>2. Append(t.visited, a) \in Seq(Address) /\ 0 \in 0..MaxAddresses
    BY <1>2, Policy
  <2> QED
    BY <1>3, <2>1, <2>2 DEF MoveTask
<1>8. Len(next.visited) = Len(t.visited) + 1 /\ Len(t.visited) \in Nat
  BY <1>2, <1>7
<1>9. TriesLeft(next) < TriesLeft(t)
  <2>1. PICK m \in Nat : m = MaxRedirects - Len(t.visited)
    <3>1. MaxRedirects \in Nat /\ Len(t.visited) \in Nat /\ ~(Len(t.visited) > MaxRedirects)
      BY <1>5, <1>8, Policy
    <3>2. MaxRedirects - Len(t.visited) \in Nat
      BY <3>1
    <3> QED
      BY <3>2
  <2>2. MaxRedirects + 1 - Len(t.visited) = m + 1 /\ MaxRedirects + 1 - Len(next.visited) = m
    BY <1>8, <2>1, Policy
  <2>3. TriesLeft(next) = m * Tries + (MaxRetries - 0) /\ TriesLeft(t) = (m + 1) * Tries + (MaxRetries - t.retries)
    BY <1>7, <2>2 DEF TriesLeft
  <2>4. m * Tries \in Nat /\ (m + 1) * Tries = m * Tries + Tries /\ Tries = MaxRetries + 1
    <3>1. Tries \in Nat /\ Tries = MaxRetries + 1
      BY Policy DEF Tries
    <3>2. \A i, j \in Nat : i * j \in Nat /\ (i + 1) * j = i * j + j
      OBVIOUS
    <3> QED
      BY <3>1, <3>2
  <2>5. MaxRetries - t.retries \in Nat
    BY <1>2, Policy
  <2> QED
    BY <2>3, <2>4, <2>5, Policy
<1>10. Len(next.visited) \in 1..(MaxRedirects + 1) /\ next.retries \in 0..MaxRetries
  BY <1>5, <1>7, <1>8, Policy
<1> QED
  BY <1>1, <1>2, <1>6, <1>7, <1>9, <1>10, RequestAdvances

LEMMA RetryAdvances ==
  ASSUME FetchInv, NEW f \in Fetch, Retry(f), ~Abort(f)
  PROVE  AdvanceStep
<1>1. PICK t : t = fetching[f]
  OBVIOUS
<1>2. /\ t \in MoveTask /\ t.phase = "request"
      /\ Len(t.visited) \in 1..(MaxRedirects + 1) /\ t.retries \in 0..MaxRetries
      /\ t.retries \in Nat
  <2>1. t.phase = "request"
    BY <1>1 DEF Retry, Sending
  <2> QED
    BY <1>1, <2>1, WayTask DEF OnItsWay, MoveTask
<1>3. PICK asked \in MoveTask :
        asked = Asked(f) /\ asked.visited = t.visited /\ asked.retries = t.retries /\ asked.late = t.late
  BY <1>1, <1>2, AskedTask
<1>4. PICK next : next = [asked EXCEPT !.retries = @ + 1, !.untried = 0, !.phase = "resolve"]
  OBVIOUS
<1>5. t.retries < MaxRetries
  BY <1>1 DEF Retry
<1>6. fetching' = [fetching EXCEPT ![f] = next]
  BY <1>1, <1>3, <1>4, <1>5 DEF Retry, Step
<1>7. PICK r \in Nat : r = t.retries + 1
  BY <1>2
<1>8. /\ next \in MoveTask /\ next.phase = "resolve" /\ next.retries = r
      /\ next.late = t.late /\ next.visited = t.visited
  <2>1. next = [asked EXCEPT !.retries = r, !.untried = 0, !.phase = "resolve"] /\ 0 \in 0..MaxAddresses
    BY <1>3, <1>4, <1>7, Policy
  <2> QED
    BY <1>3, <1>7, <2>1 DEF MoveTask
<1>9. TriesLeft(next) < TriesLeft(t)
  <2>1. PICK k \in Nat : k = (MaxRedirects + 1 - Len(t.visited)) * Tries
    <3>1. MaxRedirects + 1 - Len(t.visited) \in Nat /\ Tries \in Nat
      BY <1>2, Policy
    <3>2. \A i, j \in Nat : i * j \in Nat
      OBVIOUS
    <3> QED
      BY <3>1, <3>2
  <2>2. TriesLeft(t) = k + (MaxRetries - t.retries) /\ TriesLeft(next) = k + (MaxRetries - r)
    BY <1>8, <2>1 DEF TriesLeft
  <2>3. MaxRetries - r < MaxRetries - t.retries /\ MaxRetries - r \in Int /\ MaxRetries - t.retries \in Int
    BY <1>2, <1>7, Policy
  <2> QED
    BY <2>2, <2>3
<1>10. next.retries \in 0..MaxRetries
  BY <1>2, <1>5, <1>7, <1>8, Policy
<1> QED
  BY <1>1, <1>2, <1>6, <1>8, <1>9, <1>10, RequestAdvances

LEMMA BodyAdvances ==
  ASSUME FetchInv, NEW f \in Fetch, NEW b \in Body, NEW declared \in 0..MaxBytes,
         NEW sent \in 0..(MaxBytes + 1), BodyBegins(f, b, declared, sent)
  PROVE  AdvanceStep
<1>1. PICK t : t = fetching[f]
  OBVIOUS
<1>2. t.phase = "request" /\ ~t.late
  BY <1>1 DEF BodyBegins, Sending
<1>3. OnItsWay(t) /\ t \in MoveTask /\ Requested(f) = t.requests + 1
  BY <1>1, <1>2, WayTask, AskedTask DEF OnItsWay
<1>4. t.requests \in Nat /\ t.number \in Nat
  BY <1>3 DEF MoveTask
<1>5. PICK next : next = [phase |-> "read", body |-> b, declared |-> declared, sent |-> sent, read |-> 0,
                          requests |-> t.requests + 1, late |-> FALSE, number |-> t.number]
  OBVIOUS
<1>6. fetching' = [fetching EXCEPT ![f] = next]
  BY <1>1, <1>3, <1>5 DEF BodyBegins, Step
<1>7. next \in ReadTask /\ next.phase = "read" /\ next.read = 0 /\ ~next.late
  BY <1>4, <1>5, Policy DEF ReadTask
<1>8. StepsLeft(next) = MaxBytes + 2 - 0 + 1
  BY <1>7, ReadSteps
<1>9. PICK k \in Nat, r \in Nat, a \in Nat : a \in 1..r /\ k = TriesLeft(t) /\ r = Round /\ a = ToAnswer(t)
  BY <1>3, MoveSteps, RoundsBound
<1>10. PICK m \in Nat : m = k * Round
  BY RoundsBound
<1>11. StepsLeft(t) = MaxBytes + 2 + a + m + 1
  BY <1>2, <1>3, <1>9, <1>10, MoveSteps
<1>12. StepsLeft(next) < StepsLeft(t)
  BY <1>8, <1>9, <1>10, <1>11, Policy
<1> QED
  BY <1>1, <1>6, <1>12, OneAdvances

LEMMA ReadAdvances ==
  ASSUME FetchInv, NEW f \in Fetch, ReadChunk(f) \/ VerifyBody(f), ~Abort(f)
  PROVE  AdvanceStep
<1>1. PICK t : t = fetching[f]
  OBVIOUS
<1>2. t \in ReadTask /\ t.phase = "read" /\ t.read \in 0..MaxBytes
  BY <1>1, ReadingTask DEF ReadChunk, VerifyBody, ReadTask
<1>3. PICK d \in 0..1 : d = IF t.late THEN 0 ELSE 1
  OBVIOUS
<1>4. StepsLeft(t) = MaxBytes + 2 - t.read + d
  BY <1>2, <1>3, ReadSteps
<1>5. CASE ReadChunk(f)
  <2>1. t.read + 1 <= MaxBytes
    BY <1>1, <1>2, <1>5, Policy DEF ReadChunk
  <2>2. PICK next : next = [t EXCEPT !.read = @ + 1]
    OBVIOUS
  <2>3. next \in ReadTask /\ next.phase = "read" /\ next.read = t.read + 1 /\ next.late = t.late
    <3>1. t.read + 1 \in 0..MaxBytes
      BY <1>2, <2>1, Policy
    <3> QED
      BY <1>2, <2>2, <3>1 DEF ReadTask
  <2>4. fetching' = [fetching EXCEPT ![f] = next]
    BY <1>1, <1>5, <2>1, <2>2 DEF ReadChunk, FetchInv, FetchTypes
  <2>5. StepsLeft(next) = MaxBytes + 2 - next.read + d
    BY <1>3, <2>3, ReadSteps
  <2>6. StepsLeft(next) < StepsLeft(t)
    BY <1>2, <1>3, <1>4, <2>3, <2>5, Policy
  <2> QED
    BY <1>1, <2>4, <2>6, OneAdvances
<1>6. CASE VerifyBody(f)
  <2>1. PICK next : next = [t EXCEPT !.phase = "commit"]
    OBVIOUS
  <2>2. next \in ReadTask /\ next.phase = "commit" /\ next.late = t.late
    BY <1>2, <2>1 DEF ReadTask
  <2>3. fetching' = [fetching EXCEPT ![f] = next]
    BY <1>1, <1>6, <2>1 DEF VerifyBody, Step
  <2>4. StepsLeft(next) = 1 + d
    BY <1>3, <2>2, ReadSteps
  <2>5. StepsLeft(next) < StepsLeft(t)
    BY <1>2, <1>3, <1>4, <2>4, Policy
  <2> QED
    BY <1>1, <2>3, <2>5, OneAdvances
<1> QED
  BY <1>5, <1>6

LEMMA CommitAdvances ==
  ASSUME FetchInv, NEW f \in Fetch, CommitFile(f), ~Abort(f)
  PROVE  AdvanceStep
<1>1. PICK next : next = [phase |-> "stored", file |-> Name(f), declared |-> fetching[f].declared,
                          requests |-> fetching[f].requests]
  OBVIOUS
<1>2. Stored(f)
  BY DEF CommitFile
<1>3. fetching' = [fetching EXCEPT ![f] = next] /\ next.phase = "stored"
  BY <1>1, <1>2 DEF Stored, Step
<1>4. StepsLeft(next) = 0
  BY <1>3, OverSteps
<1>5. Running(f) => StepsLeft(next) < StepsLeft(fetching[f])
  BY <1>4, SomeStepsLeft
<1> QED
  BY <1>3, <1>5, OneAdvances

LEMMA StepAdvances ==
  ASSUME FetchInv, [FetchNext]_fetchVars
  PROVE  AdvanceStep
<1>1. ASSUME NEW f \in Fetch, FetchStep(f) PROVE AdvanceStep
  <2>1. CASE Abort(f)
    BY <2>1, AbortAdvances
  <2>2. CASE ~Abort(f)
    <3>1. ~TimeOut(f) /\ ~RequestFails(f) /\ ~ReadFails(f) /\ ~CommitFails(f)
      BY <2>2 DEF TimeOut, RequestFails, ReadFails, CommitFails
    <3> QED
      BY <1>1, <2>2, <3>1, ResolveAdvances, AddressAdvances, RetryAdvances,
         RedirectAdvances, BodyAdvances, ReadAdvances, CommitAdvances DEF FetchStep
  <2> QED
    BY <2>1, <2>2
<1>2. ASSUME NEW f \in Fetch, NEW a \in Address, BeginFetch(f, a) PROVE AdvanceStep
  <2>1. PICK next : fetching' = [fetching EXCEPT ![f] = next]
    BY <1>2 DEF BeginFetch, Step
  <2>2. ~Running(f)
    BY <1>2 DEF BeginFetch, Running, Quiet
  <2> QED
    BY <2>1, <2>2, OneAdvances
<1>3. ASSUME NEW f \in Fetch, EndFetch(f) PROVE AdvanceStep
  <2>1. fetching' = [fetching EXCEPT ![f] = Quiet] /\ ~Running(f)
    BY <1>3 DEF EndFetch, Step, Running
  <2> QED
    BY <2>1, OneAdvances
<1>4. CASE CrashFetches
  <2>1. \A f \in Fetch : fetching'[f] = Quiet /\ StepsLeft(Quiet) = 0
    BY <1>4, OverSteps DEF CrashFetches, Quiet
  <2> QED
    BY <2>1, SomeStepsLeft DEF AdvanceStep
<1>5. CASE fetching' = fetching
  BY <1>5 DEF AdvanceStep
<1> QED
  BY <1>1, <1>2, <1>3, <1>4, <1>5, DeadlineAdvances DEF FetchNext, OrphanReturns, Damage, fetchVars

\* A fetch cannot go on for ever, whatever its servers answer and whichever fetches
\* run beside it: every step that changes it lowers the number of steps it has left,
\* which policy and limit of fetch bound.  (That it does take its steps is fairness,
\* and left to the run: FetchEnds.)
THEOREM FetchesAdvance ==
  FetchSpec => /\ [](\A f \in Fetch : StepsLeft(fetching[f]) \in 0..FetchSteps)
               /\ [][AdvanceStep]_fetchVars
<1>1. FetchInit => FetchInv
  BY InitFetch
<1>2. FetchInv /\ [FetchNext]_fetchVars => FetchInv' /\ [AdvanceStep]_fetchVars
  BY FetchKeeps, StepAdvances
<1>3. FetchInv => \A f \in Fetch : StepsLeft(fetching[f]) \in 0..FetchSteps
  BY SomeStepsLeft
<1> QED
  BY <1>1, <1>2, <1>3, PTL DEF FetchSpec

-----------------------------------------------------------------------------
(* The sites: the inductive invariant *)

Stages == {"next", "clock", "gate", "sleep", "send"}

CrawlTask ==
  [stage : Stages, paths : Seq(SitePage), seen : SUBSET SitePage, count : Nat, sent : Nat,
   robots : [SiteHost -> {"unknown", "all", "none", "rules"}], want : {"page", "robots"},
   at : SitePage, host : SiteHost, attempt : Nat, moves : Nat, kept : Nat, clock : Int]

\* A page, or the robots.txt of a host, costs at most one chain of redirects with
\* all its attempts; those that are over are counted by what they left.
Chain == (MaxMoves + 1) * MaxAttempts
AskedHosts(s) == {h \in SiteHost : s.robots[h] # "unknown"}
ChainsOver(s) == s.count + Cardinality(AskedHosts(s))

CrawlSound(s) ==
  /\ s.stage = "next" => s.sent <= ChainsOver(s) * Chain /\ s.count <= MaxPages
  /\ s.stage # "next" => s.attempt < MaxAttempts /\ s.moves <= MaxMoves /\ s.count < MaxPages
  /\ s.stage # "next" /\ s.want = "page" =>
       May(s, s.at) /\ s.sent <= ChainsOver(s) * Chain + s.moves * MaxAttempts + s.attempt
  /\ s.stage # "next" /\ s.want = "robots" =>
       /\ s.robots[s.at.host] = "unknown" /\ s.kept <= MaxMoves
       /\ s.sent <= ChainsOver(s) * Chain + (s.kept + s.moves) * MaxAttempts + s.attempt

\* The row of a host is an interval after the last grant.
GatesSound ==
  /\ tick \in Nat /\ gate \in [SiteHost -> Int] /\ grants \in [SiteHost -> Seq(Int)]
  /\ \A h \in SiteHost : grants[h] # <<>> => gate[h] = grants[h][Len(grants[h])] + Interval
  /\ \A h \in SiteHost : \A i \in 1..(Len(grants[h]) - 1) : grants[h][i + 1] >= grants[h][i] + Interval

CrawlInv ==
  /\ GatesSound
  /\ crawl \in [Crawl -> {NotCrawling} \cup CrawlTask]
  /\ \A c \in Crawl : crawl[c] # NotCrawling => CrawlSound(crawl[c])

LEMMA HostsFinite == IsFiniteSet(SiteHost) /\ Cardinality(SiteHost) \in Nat
<1> DEFINE f == [p \in SitePage |-> p.host]
<1>1. f \in Surjection(SitePage, SiteHost)
  BY DEF Surjection, SiteHost
<1> QED
  BY <1>1, RequestConstants, FS_Surjection, FS_CardinalityType

LEMMA RequestBounds ==
  /\ MaxPages \in Nat /\ MaxMoves \in Nat /\ Interval \in Nat
  /\ MaxAttempts \in Nat /\ MaxAttempts # 0 /\ Chain \in Nat
BY RequestConstants DEF Chain

LEMMA OneMoreMove ==
  ASSUME NEW m \in 0..MaxMoves
  PROVE  /\ m * MaxAttempts \in Nat /\ (m + 1) * MaxAttempts \in Nat
         /\ (m + 1) * MaxAttempts = m * MaxAttempts + MaxAttempts
         /\ m * MaxAttempts + MaxAttempts <= Chain /\ m * MaxAttempts <= Chain
<1>1. m \in Nat /\ m + 1 \in Nat /\ MaxMoves + 1 \in Nat /\ m + 1 <= MaxMoves + 1 /\ MaxAttempts \in Nat
  BY RequestBounds
<1>2. (m + 1) * MaxAttempts <= Chain
  BY <1>1, Scaled DEF Chain
<1>3. m * MaxAttempts \in Nat /\ (m + 1) * MaxAttempts = m * MaxAttempts + MaxAttempts
  BY <1>1
<1> QED
  BY <1>1, <1>2, <1>3, RequestBounds

LEMMA OneMoreChain ==
  ASSUME NEW n \in Nat
  PROVE  n * Chain \in Nat /\ (n + 1) * Chain \in Nat /\ (n + 1) * Chain = n * Chain + Chain
BY RequestBounds

LEMMA HostsAsked ==
  ASSUME NEW s \in CrawlTask
  PROVE  /\ IsFiniteSet(AskedHosts(s)) /\ Cardinality(AskedHosts(s)) \in Nat
         /\ Cardinality(AskedHosts(s)) <= Cardinality(SiteHost)
         /\ ChainsOver(s) \in Nat /\ ChainsOver(s) * Chain \in Nat
         /\ \A h \in SiteHost \ AskedHosts(s) : Cardinality(AskedHosts(s)) + 1 <= Cardinality(SiteHost)
<1>1. AskedHosts(s) \in SUBSET SiteHost /\ s.count \in Nat
  BY DEF AskedHosts, CrawlTask
<1>2. /\ IsFiniteSet(AskedHosts(s)) /\ Cardinality(AskedHosts(s)) \in Nat
      /\ Cardinality(AskedHosts(s)) <= Cardinality(SiteHost)
  BY <1>1, HostsFinite, FS_Subset, FS_CardinalityType
<1>3. ChainsOver(s) \in Nat /\ ChainsOver(s) * Chain \in Nat
  <2>1. ChainsOver(s) \in Nat
    BY <1>1, <1>2 DEF ChainsOver
  <2> QED
    BY <2>1, OneMoreChain
<1>4. ASSUME NEW h \in SiteHost \ AskedHosts(s)
      PROVE  Cardinality(AskedHosts(s)) + 1 <= Cardinality(SiteHost)
  <2>1. Cardinality(AskedHosts(s)) # Cardinality(SiteHost)
    BY <1>1, <1>4, HostsFinite, FS_Subset
  <2> QED
    BY <1>2, <2>1, HostsFinite
<1> QED
  BY <1>2, <1>3, <1>4

LEMMA NatOrder ==
  ASSUME NEW a \in Nat, NEW b \in Nat, NEW k \in Nat, NEW x \in Nat, NEW r \in Nat,
         x <= a * k + r, r <= k, a + 1 <= b
  PROVE  x <= b * k
<1>1. (a + 1) * k <= b * k /\ (a + 1) * k = a * k + k /\ a * k \in Nat /\ b * k \in Nat
  BY Scaled
<1> QED
  BY <1>1

\* What a call sent is bounded, wherever it is.
LEMMA SoundIsBounded ==
  ASSUME NEW s \in CrawlTask, CrawlSound(s)
  PROVE  s.sent <= (MaxPages + Cardinality(SiteHost)) * (MaxMoves + 1) * MaxAttempts
<1> DEFINE all == MaxPages + Cardinality(SiteHost)
           n == ChainsOver(s)
<1>1. all \in Nat /\ all * (MaxMoves + 1) * MaxAttempts = all * Chain
  BY HostsFinite, RequestBounds DEF Chain
<1>2. /\ s.sent \in Nat /\ s.moves \in Nat /\ s.kept \in Nat /\ s.attempt \in Nat /\ s.count \in Nat
      /\ s.stage \in Stages /\ s.want \in {"page", "robots"} /\ s.at \in SitePage /\ s.at.host \in SiteHost
  BY DEF CrawlTask, SiteHost
<1>3. n \in Nat /\ n = s.count + Cardinality(AskedHosts(s)) /\ Cardinality(AskedHosts(s)) \in Nat
      /\ Cardinality(AskedHosts(s)) <= Cardinality(SiteHost)
  BY HostsAsked DEF ChainsOver
<1> HIDE DEF n, all
<1>4. CASE s.stage = "next"
  <2>1. s.sent <= n * Chain /\ s.count <= MaxPages
    BY <1>4 DEF CrawlSound, n
  <2>2. n <= all
    BY <1>2, <1>3, <2>1, HostsFinite, RequestBounds DEF all
  <2>3. n * Chain <= all * Chain /\ n * Chain \in Nat /\ all * Chain \in Nat
    BY <1>1, <1>3, <2>2, Scaled, OneMoreChain, RequestBounds
  <2>4. s.sent <= all * Chain
    BY <1>2, <2>1, <2>3
  <2> QED
    BY <1>1, <2>4 DEF all
<1>5. CASE s.stage # "next" /\ s.want = "page"
  <2>1. /\ s.attempt < MaxAttempts /\ s.moves <= MaxMoves /\ s.count < MaxPages
        /\ s.sent <= n * Chain + s.moves * MaxAttempts + s.attempt
    BY <1>5 DEF CrawlSound, n
  <2>2. n + 1 <= all
    BY <1>2, <1>3, <2>1, HostsFinite, RequestBounds DEF all
  <2>3. PICK r : r = s.moves * MaxAttempts + s.attempt
    OBVIOUS
  <2>4. s.moves * MaxAttempts \in Nat /\ s.moves * MaxAttempts + MaxAttempts <= Chain
    <3>1. s.moves \in 0..MaxMoves
      BY <1>2, <2>1, RequestBounds
    <3> QED
      BY <3>1, OneMoreMove
  <2>5. r \in Nat /\ r <= Chain /\ n * Chain \in Nat
    BY <1>2, <1>3, <2>1, <2>3, <2>4, OneMoreChain, RequestBounds
  <2>6. s.sent <= n * Chain + r
    BY <1>2, <2>1, <2>3, <2>4, <2>5
  <2>7. s.sent <= all * Chain
    BY <1>1, <1>2, <1>3, <2>2, <2>5, <2>6, NatOrder, RequestBounds
  <2> QED
    BY <1>1, <2>7 DEF all
<1>6. CASE s.stage # "next" /\ s.want = "robots"
  <2>1. /\ s.attempt < MaxAttempts /\ s.moves <= MaxMoves /\ s.count < MaxPages
        /\ s.robots[s.at.host] = "unknown" /\ s.kept <= MaxMoves
        /\ s.sent <= n * Chain + (s.kept + s.moves) * MaxAttempts + s.attempt
    BY <1>6 DEF CrawlSound, n
  <2>2. Cardinality(AskedHosts(s)) + 1 <= Cardinality(SiteHost)
    <3>1. s.at.host \in SiteHost \ AskedHosts(s)
      BY <1>2, <2>1 DEF AskedHosts
    <3> QED
      BY <3>1, HostsAsked
  <2>3. (n + 1) + 1 <= all
    BY <1>2, <1>3, <2>1, <2>2, HostsFinite, RequestBounds DEF all
  <2>4. PICK k \in Nat, r \in Nat, q \in Nat : k = s.kept * MaxAttempts /\ r = s.moves * MaxAttempts + s.attempt
                 /\ q = n * Chain
    <3>1. s.kept \in 0..MaxMoves /\ s.moves \in 0..MaxMoves
      BY <1>2, <2>1, RequestBounds
    <3>2. s.kept * MaxAttempts \in Nat /\ s.moves * MaxAttempts \in Nat
      BY <3>1, OneMoreMove
    <3>3. PICK m \in Nat : m = s.moves * MaxAttempts
      BY <3>2
    <3>4. s.moves * MaxAttempts + s.attempt \in Nat
      BY <1>2, <3>3
    <3>5. n * Chain \in Nat
      BY <1>3, OneMoreChain
    <3> QED
      BY <3>2, <3>4, <3>5, Zenon
  <2>5. (s.kept + s.moves) * MaxAttempts + s.attempt = k + r
    BY <1>2, <2>4, RequestBounds
  <2>6. k <= Chain
    <3>1. s.kept \in 0..MaxMoves
      BY <1>2, <2>1, RequestBounds
    <3> QED
      BY <2>4, <3>1, OneMoreMove
  <2>7. r <= Chain
    <3>1. s.moves * MaxAttempts \in Nat /\ s.moves * MaxAttempts + MaxAttempts <= Chain
      <4>1. s.moves \in 0..MaxMoves
        BY <1>2, <2>1, RequestBounds
      <4> QED
        BY <4>1, OneMoreMove
    <3> QED
      BY <1>2, <2>1, <2>4, <3>1, RequestBounds
  <2>8. (n + 1) * Chain = q + Chain
    BY <1>3, <2>4, OneMoreChain
  <2>9. s.sent <= q + (k + r)
    <3>1. PICK z : z = (s.kept + s.moves) * MaxAttempts
      OBVIOUS
    <3>2. z \in Nat /\ z + s.attempt = k + r
      BY <1>2, <2>5, <3>1, RequestBounds
    <3>3. s.sent <= q + z + s.attempt
      BY <2>1, <2>4, <3>1
    <3> QED
      BY <1>2, <2>4, <3>2, <3>3
  <2>10. s.sent <= (n + 1) * Chain + r
    BY <1>2, <2>4, <2>6, <2>8, <2>9, RequestBounds
  <2>11. s.sent <= all * Chain
    <3>1. n + 1 \in Nat
      BY <1>3
    <3> QED
      BY <1>1, <1>2, <2>3, <2>7, <2>10, <3>1, NatOrder, RequestBounds
  <2> QED
    BY <1>1, <2>11 DEF all
<1> QED
  BY <1>2, <1>4, <1>5, <1>6

-----------------------------------------------------------------------------
(* The sites: every action keeps the invariant *)

LEMMA CrawlMoves ==
  ASSUME CrawlInv, NEW c \in Crawl, NEW next \in {NotCrawling} \cup CrawlTask,
         next # NotCrawling => CrawlSound(next), crawl' = [crawl EXCEPT ![c] = next], GatesSound'
  PROVE  CrawlInv'
BY DEF CrawlInv

LEMMA GatesKept ==
  ASSUME CrawlInv, UNCHANGED <<gate, grants, tick>>
  PROVE  GatesSound'
BY DEF CrawlInv, GatesSound

LEMMA GiveUpKeeps ==
  ASSUME CrawlInv, NEW c \in Crawl, GiveUp(c)
  PROVE  CrawlInv'
<1>1. crawl' = [crawl EXCEPT ![c] = NotCrawling] /\ UNCHANGED <<gate, grants, tick>>
  BY DEF GiveUp, Change
<1> QED
  BY <1>1, CrawlMoves, GatesKept

LEMMA CrawlingTask ==
  ASSUME CrawlInv, NEW c \in Crawl, crawl[c].stage \in Stages
  PROVE  crawl[c] \in CrawlTask /\ CrawlSound(crawl[c])
<1>1. crawl[c] # NotCrawling
  BY DEF NotCrawling, Stages
<1> QED
  BY <1>1 DEF CrawlInv

LEMMA SameChains ==
  ASSUME NEW s, NEW next, next.robots = s.robots, next.count = s.count
  PROVE  ChainsOver(next) = ChainsOver(s)
BY DEF ChainsOver, AskedHosts

\* Waiting for the gate changes neither what was sent nor what may be.
LEMMA WaitingKeeps ==
  ASSUME CrawlInv, NEW c \in Crawl, NEW s \in CrawlTask, s = crawl[c], s.stage # "next",
         NEW g \in Stages, g # "next", NEW k \in Int,
         crawl' = [crawl EXCEPT ![c] = [s EXCEPT !.stage = g, !.clock = k]], GatesSound'
  PROVE  CrawlInv'
<1>1. PICK next : next = [s EXCEPT !.stage = g, !.clock = k]
  OBVIOUS
<1>2. /\ next \in CrawlTask /\ next.stage = g /\ next.robots = s.robots /\ next.count = s.count
      /\ next.sent = s.sent /\ next.want = s.want /\ next.at = s.at /\ next.attempt = s.attempt
      /\ next.moves = s.moves /\ next.kept = s.kept
  BY <1>1 DEF CrawlTask
<1>3. CrawlSound(s)
  BY CrawlingTask DEF CrawlTask
<1>4. ChainsOver(next) = ChainsOver(s)
  BY <1>2, SameChains
<1>5. May(next, next.at) <=> May(s, s.at)
  BY <1>2 DEF May
<1>6. CrawlSound(next)
  BY <1>2, <1>3, <1>4, <1>5 DEF CrawlSound
<1> QED
  BY <1>1, <1>2, <1>6, CrawlMoves

LEMMA ClockKeeps ==
  ASSUME CrawlInv, NEW c \in Crawl, ReadGateClock(c) \/ WakeUp(c)
  PROVE  CrawlInv'
<1>1. PICK s : s = crawl[c]
  OBVIOUS
<1>2. s.stage \in {"clock", "sleep"} /\ s \in CrawlTask
  BY <1>1, CrawlingTask DEF ReadGateClock, WakeUp, Stages
<1>3. GatesSound'
  BY GatesKept DEF ReadGateClock, WakeUp, Change
<1>4. PICK g \in {"gate", "clock"}, k \in Int : crawl' = [crawl EXCEPT ![c] = [s EXCEPT !.stage = g, !.clock = k]]
  <2>1. CASE ReadGateClock(c)
    <3>1. tick \in Int
      BY DEF CrawlInv, GatesSound
    <3> QED
      BY <1>1, <2>1, <3>1 DEF ReadGateClock, Change
  <2>2. CASE WakeUp(c)
    <3>1. s.clock \in Int /\ [s EXCEPT !.stage = "clock", !.clock = s.clock] = [s EXCEPT !.stage = "clock"]
      BY <1>2 DEF CrawlTask
    <3>2. crawl' = [crawl EXCEPT ![c] = [s EXCEPT !.stage = "clock"]]
      BY <1>1, <2>2 DEF WakeUp, Change
    <3> QED
      BY <3>1, <3>2
  <2> QED
    BY <2>1, <2>2
<1>5. g \in Stages /\ g # "next" /\ s.stage # "next"
  BY <1>2, <1>4 DEF Stages
<1> QED
  BY <1>1, <1>2, <1>3, <1>4, <1>5, WaitingKeeps

LEMMA LeastOfTwo ==
  ASSUME NEW a \in Int, NEW b \in Int
  PROVE  Min({a, b}) \in Int
<1>1. \E x \in {a, b} : \A y \in {a, b} : x =< y
  OBVIOUS
<1> QED
  BY <1>1 DEF Min

\* A grant is an interval after the last one: the row of the host says when.
LEMMA GateKeeps ==
  ASSUME CrawlInv, NEW c \in Crawl, AskGate(c)
  PROVE  CrawlInv'
<1>1. PICK s : s = crawl[c]
  OBVIOUS
<1>2. s.stage = "gate" /\ s \in CrawlTask
  BY <1>1, CrawlingTask DEF AskGate, Stages
<1>3. /\ tick \in Nat /\ gate \in [SiteHost -> Int] /\ grants \in [SiteHost -> Seq(Int)]
      /\ Interval \in Nat
  BY RequestBounds DEF CrawlInv, GatesSound
<1>4. PICK h, k : h = s.host /\ k = s.clock
  OBVIOUS
<1>5. h \in SiteHost /\ k \in Int /\ gate[h] \in Int
  BY <1>2, <1>3, <1>4 DEF CrawlTask
<1>6. CASE gate[h] <= k
  <2>1. /\ gate' = [gate EXCEPT ![h] = k + Interval] /\ tick' = tick
        /\ grants' = [grants EXCEPT ![h] = Append(grants[h], k)]
        /\ crawl' = [crawl EXCEPT ![c] = [s EXCEPT !.stage = "send"]]
    BY <1>1, <1>4, <1>6 DEF AskGate, Change
  <2>2. gate' \in [SiteHost -> Int] /\ grants' \in [SiteHost -> Seq(Int)]
    BY <1>3, <1>5, <2>1
  <2>3. /\ gate'[h] = k + Interval /\ grants'[h] = Append(grants[h], k)
        /\ \A o \in SiteHost \ {h} : gate'[o] = gate[o] /\ grants'[o] = grants[o]
    BY <1>3, <1>5, <2>1
  <2>4. PICK old \in Seq(Int) : old = grants[h]
    BY <1>3, <1>5
  <2>13. PICK new \in Seq(Int) : new = grants'[h]
    BY <1>5, <2>2
  <2>5. /\ Len(old) \in Nat /\ Len(new) = Len(old) + 1 /\ new[Len(new)] = k
        /\ \A i \in 1..Len(old) : new[i] = old[i] /\ old[i] \in Int
    BY <1>5, <2>3, <2>4, <2>13
  <2>6. old # <<>> => old[Len(old)] + Interval <= k
    BY <1>5, <1>6, <2>4 DEF CrawlInv, GatesSound
  <2>7. ASSUME NEW i \in 1..(Len(new) - 1) PROVE new[i + 1] >= new[i] + Interval
    <3>1. i \in 1..Len(old)
      BY <2>5, <2>7
    <3>2. CASE i = Len(old)
      <4>1. old # <<>>
        BY <3>1
      <4>2. new[i + 1] = k /\ new[i] = old[Len(old)] /\ new[i] \in Int
        BY <2>5, <3>1, <3>2
      <4> QED
        BY <1>3, <1>5, <2>6, <4>1, <4>2
    <3>3. CASE i # Len(old)
      <4>1. i \in 1..(Len(old) - 1) /\ i + 1 \in 1..Len(old)
        BY <2>5, <3>1, <3>3
      <4>2. old[i + 1] >= old[i] + Interval
        BY <1>5, <2>4, <4>1 DEF CrawlInv, GatesSound
      <4> QED
        BY <2>5, <3>1, <4>1, <4>2
    <3> QED
      BY <3>2, <3>3
  <2>8. ASSUME NEW o \in SiteHost
        PROVE  /\ grants'[o] # <<>> => gate'[o] = grants'[o][Len(grants'[o])] + Interval
               /\ \A i \in 1..(Len(grants'[o]) - 1) : grants'[o][i + 1] >= grants'[o][i] + Interval
    <3>1. CASE o = h
      BY <2>3, <2>13, <2>5, <2>7, <3>1
    <3>2. CASE o # h
      BY <2>3, <3>2 DEF CrawlInv, GatesSound
    <3> QED
      BY <3>1, <3>2
  <2>9. GatesSound'
    BY <1>3, <2>1, <2>2, <2>8 DEF GatesSound
  <2>10. [s EXCEPT !.stage = "send"] = [s EXCEPT !.stage = "send", !.clock = k]
    BY <1>2, <1>4 DEF CrawlTask
  <2>11. crawl' = [crawl EXCEPT ![c] = [s EXCEPT !.stage = "send", !.clock = k]]
    BY <2>1, <2>10
  <2>12. "send" \in Stages /\ "send" # "next" /\ s.stage # "next"
    BY <1>2 DEF Stages
  <2> QED
    BY <1>1, <1>2, <1>5, <2>9, <2>11, <2>12, WaitingKeeps
<1>7. CASE ~(gate[h] <= k)
  <2>1. PICK m : m = Min({gate[h] - k, Interval})
    OBVIOUS
  <2>2. m \in Int
    <3>1. gate[h] - k \in Int /\ Interval \in Int
      BY <1>3, <1>5
    <3> QED
      BY <2>1, <3>1, LeastOfTwo
  <2>3. /\ crawl' = [crawl EXCEPT ![c] = [s EXCEPT !.stage = "sleep", !.clock = tick + m]]
        /\ UNCHANGED <<gate, grants, tick>>
    BY <1>1, <1>4, <1>7, <2>1 DEF AskGate, Change
  <2>4. tick + m \in Int
    BY <1>3, <2>2
  <2> QED
    BY <1>1, <1>2, <2>3, <2>4, GatesKept, WaitingKeeps DEF Stages
<1> QED
  BY <1>6, <1>7

LEMMA RequestingTask ==
  ASSUME NEW s \in CrawlTask, NEW want \in {"page", "robots"}, NEW p \in SitePage
  PROVE  LET next == Requesting(s, want, p)
         IN /\ next \in CrawlTask /\ next.stage = "clock" /\ next.want = want /\ next.at = p
            /\ next.attempt = 0 /\ next.robots = s.robots /\ next.count = s.count
            /\ next.sent = s.sent /\ next.moves = s.moves /\ next.kept = s.kept
<1>1. PICK h : h = p.host
  OBVIOUS
<1>2. h \in SiteHost /\ 0 \in Nat /\ "clock" \in Stages
  BY <1>1 DEF SiteHost, Stages
<1>3. PICK next : next = [s EXCEPT !.stage = "clock", !.want = want, !.at = p, !.host = h, !.attempt = 0]
  OBVIOUS
<1>4. /\ next \in CrawlTask /\ next.stage = "clock" /\ next.want = want /\ next.at = p
      /\ next.attempt = 0 /\ next.robots = s.robots /\ next.count = s.count
      /\ next.sent = s.sent /\ next.moves = s.moves /\ next.kept = s.kept
  BY <1>2, <1>3 DEF CrawlTask
<1>5. Requesting(s, want, p) = next
  BY <1>1, <1>3 DEF Requesting
<1> QED
  BY <1>4, <1>5

\* A call that heads for a page it may have to ask robots.txt about.
LEMMA TowardKeeps ==
  ASSUME CrawlInv, NEW c \in Crawl, NEW s \in CrawlTask, NEW p \in SitePage, Toward(c, s, p),
         UNCHANGED <<gate, grants>>, s.moves <= MaxMoves, s.count < MaxPages,
         s.sent <= ChainsOver(s) * Chain + s.moves * MaxAttempts
  PROVE  CrawlInv'
<1> DEFINE n == ChainsOver(s)
<1>1. /\ s.sent \in Nat /\ s.moves \in Nat /\ s.count \in Nat /\ s.kept \in Nat
      /\ p.host \in SiteHost /\ s.robots \in [SiteHost -> {"unknown", "all", "none", "rules"}]
  BY DEF CrawlTask, SiteHost
<1>2. n \in Nat /\ n * Chain \in Nat
  BY HostsAsked
<1>3. s.moves * MaxAttempts \in Nat
  BY <1>1, RequestBounds
<1>4. tick' = tick /\ GatesSound'
  <2>1. tick' = tick
    BY DEF Toward, Change
  <2> QED
    BY <2>1, GatesKept
<1> HIDE DEF n
<1>5. CASE s.robots[p.host] = "unknown"
  <2>1. PICK enquiring : enquiring = Requesting(s, "robots", p)
    OBVIOUS
  <2>2. /\ enquiring \in CrawlTask /\ enquiring.stage = "clock" /\ enquiring.want = "robots" /\ enquiring.at = p
        /\ enquiring.attempt = 0 /\ enquiring.robots = s.robots /\ enquiring.count = s.count
        /\ enquiring.sent = s.sent
    BY <2>1, RequestingTask
  <2>3. PICK next : next = [enquiring EXCEPT !.kept = s.moves, !.moves = 0]
    OBVIOUS
  <2>4. /\ next \in CrawlTask /\ next.stage = "clock" /\ next.want = "robots" /\ next.at = p
        /\ next.attempt = 0 /\ next.robots = s.robots /\ next.count = s.count
        /\ next.sent = s.sent /\ next.kept = s.moves /\ next.moves = 0
    BY <1>1, <2>2, <2>3 DEF CrawlTask
  <2>5. ChainsOver(next) = n
    BY <2>4, SameChains DEF n
  <2>6. next.sent <= n * Chain + (next.kept + next.moves) * MaxAttempts + next.attempt
    <3>1. (next.kept + next.moves) * MaxAttempts = s.moves * MaxAttempts /\ next.attempt = 0
      BY <1>1, <2>4
    <3> QED
      BY <1>2, <1>3, <2>4, <3>1 DEF n
  <2>7. CrawlSound(next)
    BY <1>1, <1>5, <2>4, <2>5, <2>6, RequestBounds DEF CrawlSound
  <2>8. crawl' = [crawl EXCEPT ![c] = next]
    BY <1>5, <2>1, <2>3 DEF Toward, Change
  <2> QED
    BY <1>4, <2>4, <2>7, <2>8, CrawlMoves
<1>6. CASE s.robots[p.host] # "unknown" /\ May(s, p)
  <2>1. PICK next : next = Requesting(s, "page", p)
    OBVIOUS
  <2>2. /\ next \in CrawlTask /\ next.stage = "clock" /\ next.want = "page" /\ next.at = p
        /\ next.attempt = 0 /\ next.robots = s.robots /\ next.count = s.count
        /\ next.sent = s.sent /\ next.moves = s.moves
    BY <2>1, RequestingTask
  <2>3. ChainsOver(next) = n
    BY <2>2, SameChains DEF n
  <2>4. next.sent <= n * Chain + next.moves * MaxAttempts + next.attempt
    BY <1>2, <1>3, <2>2 DEF n
  <2>5. May(next, p)
    BY <1>6, <2>2 DEF May
  <2>6. CrawlSound(next)
    BY <1>1, <2>2, <2>3, <2>4, <2>5, RequestBounds DEF CrawlSound
  <2>7. crawl' = [crawl EXCEPT ![c] = next]
    BY <1>6, <2>1 DEF Toward, Change
  <2> QED
    BY <1>4, <2>2, <2>6, <2>7, CrawlMoves
<1>7. CASE s.robots[p.host] # "unknown" /\ ~May(s, p)
  <2>1. CASE s.moves > 0
    <3>1. crawl' = [crawl EXCEPT ![c] = NotCrawling]
      BY <1>7, <2>1 DEF Toward, Change
    <3> QED
      BY <1>4, <3>1, CrawlMoves
  <2>2. CASE ~(s.moves > 0)
    <3>0. PICK k \in Nat : k = s.count + 1
      BY <1>1
    <3>1. PICK next : next = [s EXCEPT !.stage = "next", !.count = k]
      OBVIOUS
    <3>2. /\ next \in CrawlTask /\ next.stage = "next" /\ next.robots = s.robots
          /\ next.count = s.count + 1 /\ next.sent = s.sent
      BY <3>0, <3>1 DEF CrawlTask, Stages
    <3>3. ChainsOver(next) = n + 1
      <4>1. AskedHosts(next) = AskedHosts(s) /\ Cardinality(AskedHosts(s)) \in Nat
        BY <3>2, HostsAsked DEF AskedHosts
      <4> QED
        BY <1>1, <3>2, <4>1 DEF ChainsOver, n
    <3>4. s.moves * MaxAttempts = 0
      <4>1. s.moves = 0
        BY <1>1, <2>2
      <4> QED
        BY <4>1, RequestBounds
    <3>5. next.sent <= ChainsOver(next) * Chain
      <4>1. (n + 1) * Chain = n * Chain + Chain
        BY <1>2, OneMoreChain
      <4> QED
        BY <1>1, <1>2, <3>2, <3>3, <3>4, <4>1, RequestBounds DEF n
    <3>6. CrawlSound(next)
      BY <1>1, <3>2, <3>5, RequestBounds DEF CrawlSound
    <3>7. crawl' = [crawl EXCEPT ![c] = next]
      BY <1>7, <2>2, <3>0, <3>1 DEF Toward, Change
    <3> QED
      BY <1>4, <3>2, <3>6, <3>7, CrawlMoves
  <2> QED
    BY <2>1, <2>2
<1> QED
  BY <1>5, <1>6, <1>7

LEMMA StartKeeps ==
  ASSUME CrawlInv, NEW c \in Crawl, StartCrawl(c)
  PROVE  CrawlInv'
<1>1. EntryPages \in Seq(SitePage) /\ EntryPages # <<>> /\ EntryPages[1] \in SitePage
      /\ EntryPages[1].host \in SiteHost
  BY RequestConstants DEF StartCrawl, SiteHost
<1>2. PICK next : next = [stage |-> "next", paths |-> EntryPages, seen |-> {}, count |-> 0, sent |-> 0,
                          robots |-> [h \in SiteHost |-> "unknown"],
                          want |-> "page", at |-> EntryPages[1], host |-> EntryPages[1].host,
                          attempt |-> 0, moves |-> 0, kept |-> 0, clock |-> 0]
  OBVIOUS
<1>3. next \in CrawlTask /\ next.stage = "next" /\ next.sent = 0 /\ next.count = 0
  BY <1>1, <1>2 DEF CrawlTask, Stages
<1>4. CrawlSound(next)
  BY <1>3, HostsAsked, RequestBounds DEF CrawlSound
<1>5. crawl' = [crawl EXCEPT ![c] = next] /\ UNCHANGED <<gate, grants, tick>>
  BY <1>2 DEF StartCrawl, Change
<1> QED
  BY <1>3, <1>4, <1>5, CrawlMoves, GatesKept

LEMMA NextPageKeeps ==
  ASSUME CrawlInv, NEW c \in Crawl, NextPage(c)
  PROVE  CrawlInv'
<1>1. PICK s : s = crawl[c]
  OBVIOUS
<1>2. s.stage = "next" /\ s.paths # <<>> /\ s.count < MaxPages /\ UNCHANGED <<gate, grants>>
  BY <1>1 DEF NextPage
<1>3. s \in CrawlTask /\ CrawlSound(s)
  BY <1>1, <1>2, CrawlingTask DEF Stages
<1>4. s.paths \in Seq(SitePage) /\ s.seen \in SUBSET SitePage /\ s.sent \in Nat
  BY <1>3 DEF CrawlTask
<1>5. PICK p, after, read : p = Head(s.paths) /\ after = Tail(s.paths) /\ read = s.seen \cup {p}
  OBVIOUS
<1>6. p \in SitePage /\ after \in Seq(SitePage) /\ read \in SUBSET SitePage
  BY <1>2, <1>4, <1>5
<1>7. PICK rest : rest = [s EXCEPT !.paths = after, !.seen = read, !.moves = 0]
  OBVIOUS
<1>8. /\ rest \in CrawlTask /\ rest.stage = "next" /\ rest.robots = s.robots /\ rest.count = s.count
      /\ rest.sent = s.sent /\ rest.moves = 0
  BY <1>2, <1>3, <1>6, <1>7 DEF CrawlTask
<1>9. rest = [s EXCEPT !.paths = Tail(@), !.seen = @ \cup {Head(s.paths)}, !.moves = 0]
  BY <1>5, <1>7
<1>10. IF p \in s.seen THEN Change(c, rest) ELSE Toward(c, rest, p)
  BY <1>1, <1>5, <1>9 DEF NextPage
<1>11. ChainsOver(rest) = ChainsOver(s) /\ s.sent <= ChainsOver(s) * Chain /\ ChainsOver(s) * Chain \in Nat
  BY <1>2, <1>3, <1>8, SameChains, HostsAsked DEF CrawlSound
<1>12. CASE Change(c, rest)
  <2>1. crawl' = [crawl EXCEPT ![c] = rest] /\ UNCHANGED <<gate, grants, tick>>
    BY <1>2, <1>12 DEF Change
  <2>2. CrawlSound(rest)
    BY <1>2, <1>3, <1>8, <1>11 DEF CrawlSound
  <2> QED
    BY <1>8, <2>1, <2>2, CrawlMoves, GatesKept
<1>13. CASE Toward(c, rest, p)
  <2>1. rest.moves <= MaxMoves /\ rest.count < MaxPages
    BY <1>2, <1>8, RequestBounds
  <2>2. rest.sent <= ChainsOver(rest) * Chain + rest.moves * MaxAttempts
    <3>1. rest.moves * MaxAttempts = 0
      BY <1>8, RequestBounds
    <3> QED
      BY <1>4, <1>8, <1>11, <3>1
  <2> QED
    BY <1>2, <1>6, <1>8, <1>13, <2>1, <2>2, TowardKeeps
<1> QED
  BY <1>10, <1>12, <1>13

\* What a call knows when an answer arrives: one more request was sent.
LEMMA SentTask ==
  ASSUME CrawlInv, NEW c \in Crawl, crawl[c].stage = "send"
  PROVE  LET s == Sent(c)
             n == ChainsOver(s) * Chain
         IN /\ s \in CrawlTask /\ s.stage = "send" /\ s.attempt < MaxAttempts
            /\ s.moves <= MaxMoves /\ s.count < MaxPages /\ n \in Nat
            /\ s.want = "page" => May(s, s.at) /\ s.sent <= n + s.moves * MaxAttempts + s.attempt + 1
            /\ s.want = "robots" =>
                 /\ s.robots[s.at.host] = "unknown" /\ s.kept <= MaxMoves
                 /\ s.sent <= n + (s.kept + s.moves) * MaxAttempts + s.attempt + 1
<1>1. PICK t : t = crawl[c]
  OBVIOUS
<1>2. t \in CrawlTask /\ CrawlSound(t) /\ t.stage = "send"
  BY <1>1, CrawlingTask DEF Stages
<1>3. t.sent \in Nat /\ t.moves \in Nat /\ t.kept \in Nat /\ t.attempt \in Nat
  BY <1>2 DEF CrawlTask
<1>4. PICK k \in Nat : k = t.sent + 1
  BY <1>3
<1>5. PICK s : s = [t EXCEPT !.sent = k]
  OBVIOUS
<1>6. Sent(c) = s
  BY <1>1, <1>4, <1>5 DEF Sent
<1>7. /\ s \in CrawlTask /\ s.stage = "send" /\ s.attempt = t.attempt /\ s.moves = t.moves
      /\ s.count = t.count /\ s.want = t.want /\ s.robots = t.robots /\ s.at = t.at /\ s.kept = t.kept
      /\ s.sent = t.sent + 1
  BY <1>2, <1>4, <1>5 DEF CrawlTask
<1>8. ChainsOver(s) = ChainsOver(t) /\ ChainsOver(s) * Chain \in Nat
  BY <1>7, SameChains, HostsAsked
<1>9. May(s, s.at) <=> May(t, t.at)
  BY <1>7 DEF May
<1>10. ASSUME s.want = "page" PROVE s.sent <= ChainsOver(s) * Chain + s.moves * MaxAttempts + s.attempt + 1
  <2>1. t.sent <= ChainsOver(t) * Chain + t.moves * MaxAttempts + t.attempt
    BY <1>2, <1>7, <1>10 DEF CrawlSound
  <2>2. PICK x \in Nat, y \in Nat : x = ChainsOver(t) * Chain /\ y = t.moves * MaxAttempts
    BY <1>3, <1>8, RequestBounds
  <2>3. t.sent + 1 <= x + y + t.attempt + 1
    BY <1>3, <2>1, <2>2
  <2> QED
    BY <1>7, <1>8, <2>2, <2>3
<1>11. ASSUME s.want = "robots"
       PROVE  s.sent <= ChainsOver(s) * Chain + (s.kept + s.moves) * MaxAttempts + s.attempt + 1
  <2>1. t.sent <= ChainsOver(t) * Chain + (t.kept + t.moves) * MaxAttempts + t.attempt
    BY <1>2, <1>7, <1>11 DEF CrawlSound
  <2>2. PICK x \in Nat, y \in Nat : x = ChainsOver(t) * Chain /\ y = (t.kept + t.moves) * MaxAttempts
    BY <1>3, <1>8, RequestBounds
  <2>3. t.sent + 1 <= x + y + t.attempt + 1
    BY <1>3, <2>1, <2>2
  <2> QED
    BY <1>7, <1>8, <2>2, <2>3
<1>12. /\ s.attempt < MaxAttempts /\ s.moves <= MaxMoves /\ s.count < MaxPages
       /\ s.want = "page" => May(s, s.at)
       /\ s.want = "robots" => s.robots[s.at.host] = "unknown" /\ s.kept <= MaxMoves
  BY <1>2, <1>7, <1>9 DEF CrawlSound
<1> QED
  BY <1>6, <1>7, <1>8, <1>10, <1>11, <1>12

LEMMA AttemptKeeps ==
  ASSUME CrawlInv, NEW c \in Crawl, AttemptFails(c)
  PROVE  CrawlInv'
<1>1. PICK s : s = Sent(c)
  OBVIOUS
<1>2. crawl[c].stage = "send"
  BY DEF AttemptFails
<1>3. /\ s \in CrawlTask /\ s.stage = "send" /\ s.attempt < MaxAttempts
      /\ s.moves <= MaxMoves /\ s.count < MaxPages /\ ChainsOver(s) * Chain \in Nat
      /\ s.want = "page" =>
           May(s, s.at) /\ s.sent <= ChainsOver(s) * Chain + s.moves * MaxAttempts + s.attempt + 1
      /\ s.want = "robots" =>
           /\ s.robots[s.at.host] = "unknown" /\ s.kept <= MaxMoves
           /\ s.sent <= ChainsOver(s) * Chain + (s.kept + s.moves) * MaxAttempts + s.attempt + 1
  BY <1>1, <1>2, SentTask
<1>4. /\ s.attempt \in Nat /\ s.sent \in Nat /\ s.moves \in Nat /\ s.kept \in Nat
      /\ s.want \in {"page", "robots"}
  BY <1>3 DEF CrawlTask
<1>5. CASE s.attempt + 1 < MaxAttempts
  <2>1. PICK k \in Nat : k = s.attempt + 1
    BY <1>4
  <2>2. PICK next : next = [s EXCEPT !.attempt = k, !.stage = "clock"]
    OBVIOUS
  <2>3. /\ next \in CrawlTask /\ next.stage = "clock" /\ next.attempt = k /\ next.robots = s.robots
        /\ next.count = s.count /\ next.sent = s.sent /\ next.want = s.want /\ next.at = s.at
        /\ next.moves = s.moves /\ next.kept = s.kept
    BY <1>3, <2>2 DEF CrawlTask, Stages
  <2>4. ChainsOver(next) = ChainsOver(s) /\ (May(next, next.at) <=> May(s, s.at))
    BY <2>3, SameChains DEF May
  <2>5. ASSUME s.want = "page"
        PROVE  next.sent <= ChainsOver(next) * Chain + next.moves * MaxAttempts + next.attempt
    <3>1. s.sent <= ChainsOver(s) * Chain + s.moves * MaxAttempts + s.attempt + 1
      BY <1>3, <2>5
    <3>2. PICK x \in Nat, y \in Nat : x = ChainsOver(s) * Chain /\ y = s.moves * MaxAttempts
      BY <1>3, <1>4, RequestBounds
    <3>3. s.sent <= x + y + k
      BY <1>4, <2>1, <3>1, <3>2
    <3> QED
      BY <2>3, <2>4, <3>2, <3>3
  <2>6. ASSUME s.want = "robots"
        PROVE  next.sent <= ChainsOver(next) * Chain + (next.kept + next.moves) * MaxAttempts + next.attempt
    <3>1. s.sent <= ChainsOver(s) * Chain + (s.kept + s.moves) * MaxAttempts + s.attempt + 1
      BY <1>3, <2>6
    <3>2. PICK x \in Nat, y \in Nat : x = ChainsOver(s) * Chain /\ y = (s.kept + s.moves) * MaxAttempts
      BY <1>3, <1>4, RequestBounds
    <3>3. s.sent <= x + y + k
      BY <1>4, <2>1, <3>1, <3>2
    <3> QED
      BY <2>3, <2>4, <3>2, <3>3
  <2>7. CrawlSound(next)
    BY <1>3, <1>5, <2>1, <2>3, <2>4, <2>5, <2>6 DEF CrawlSound
  <2>8. crawl' = [crawl EXCEPT ![c] = next] /\ UNCHANGED <<gate, grants, tick>>
    BY <1>1, <1>5, <2>1, <2>2 DEF AttemptFails, Change
  <2> QED
    BY <2>3, <2>7, <2>8, CrawlMoves, GatesKept
<1>6. CASE ~(s.attempt + 1 < MaxAttempts)
  BY <1>1, <1>6, GiveUpKeeps DEF AttemptFails
<1> QED
  BY <1>5, <1>6

\* A redirect starts the attempts again, and is one move of the chain.
LEMMA MovedKeeps ==
  ASSUME CrawlInv, NEW c \in Crawl, NEW p \in SitePage, RequestMoved(c, p)
  PROVE  CrawlInv'
<1>1. PICK s : s = Sent(c)
  OBVIOUS
<1>2. crawl[c].stage = "send"
  BY DEF RequestMoved
<1>3. /\ s \in CrawlTask /\ s.stage = "send" /\ s.attempt < MaxAttempts
      /\ s.moves <= MaxMoves /\ s.count < MaxPages /\ ChainsOver(s) * Chain \in Nat
      /\ s.want = "page" =>
           May(s, s.at) /\ s.sent <= ChainsOver(s) * Chain + s.moves * MaxAttempts + s.attempt + 1
      /\ s.want = "robots" =>
           /\ s.robots[s.at.host] = "unknown" /\ s.kept <= MaxMoves
           /\ s.sent <= ChainsOver(s) * Chain + (s.kept + s.moves) * MaxAttempts + s.attempt + 1
  BY <1>1, <1>2, SentTask
<1>4. /\ s.attempt \in Nat /\ s.sent \in Nat /\ s.moves \in Nat /\ s.kept \in Nat
      /\ s.want \in {"page", "robots"}
  BY <1>3 DEF CrawlTask
<1>5. PICK m \in Nat : m = s.moves + 1
  BY <1>4
<1>6. PICK moved : moved = [s EXCEPT !.moves = m]
  OBVIOUS
<1>7. /\ moved \in CrawlTask /\ moved.stage = "send" /\ moved.attempt = s.attempt /\ moved.robots = s.robots
      /\ moved.count = s.count /\ moved.sent = s.sent /\ moved.want = s.want /\ moved.at = s.at
      /\ moved.moves = m /\ moved.kept = s.kept
  BY <1>3, <1>6 DEF CrawlTask
<1>8. moved = [Sent(c) EXCEPT !.moves = @ + 1]
  BY <1>1, <1>5, <1>6
<1>9. IF moved.moves > MaxMoves THEN GiveUp(c)
      ELSE /\ IF moved.want = "page" THEN Toward(c, moved, p)
              ELSE Change(c, [moved EXCEPT !.stage = "clock", !.host = p.host, !.attempt = 0])
           /\ UNCHANGED <<gate, grants>>
  BY <1>8 DEF RequestMoved
<1>10. ChainsOver(moved) = ChainsOver(s)
  BY <1>7, SameChains
<1>11. m * MaxAttempts = s.moves * MaxAttempts + MaxAttempts /\ s.moves * MaxAttempts \in Nat
  BY <1>4, <1>5, RequestBounds
<1>12. CASE moved.moves > MaxMoves
  BY <1>9, <1>12, GiveUpKeeps
<1>13. CASE ~(moved.moves > MaxMoves) /\ moved.want = "page"
  <2>1. moved.sent <= ChainsOver(moved) * Chain + moved.moves * MaxAttempts
    <3>1. s.sent <= ChainsOver(s) * Chain + s.moves * MaxAttempts + s.attempt + 1
      BY <1>3, <1>7, <1>13
    <3>2. PICK x \in Nat, y \in Nat : x = ChainsOver(s) * Chain /\ y = s.moves * MaxAttempts
      BY <1>3, <1>11
    <3>3. s.sent <= x + (y + MaxAttempts)
      BY <1>3, <1>4, <3>1, <3>2, RequestBounds
    <3> QED
      BY <1>7, <1>10, <1>11, <3>2, <3>3
  <2>2. moved.moves <= MaxMoves /\ moved.count < MaxPages
    BY <1>3, <1>7, <1>13, RequestBounds
  <2> QED
    BY <1>7, <1>9, <1>13, <2>1, <2>2, TowardKeeps
<1>14. CASE ~(moved.moves > MaxMoves) /\ moved.want # "page"
  <2>1. PICK h : h = p.host
    OBVIOUS
  <2>2. h \in SiteHost
    BY <2>1 DEF SiteHost
  <2>3. PICK next : next = [moved EXCEPT !.stage = "clock", !.host = h, !.attempt = 0]
    OBVIOUS
  <2>4. /\ next \in CrawlTask /\ next.stage = "clock" /\ next.attempt = 0 /\ next.robots = s.robots
        /\ next.count = s.count /\ next.sent = s.sent /\ next.want = "robots" /\ next.at = s.at
        /\ next.moves = m /\ next.kept = s.kept /\ s.want = "robots"
    BY <1>4, <1>7, <1>14, <2>2, <2>3 DEF CrawlTask, Stages
  <2>5. ChainsOver(next) = ChainsOver(s)
    BY <2>4, SameChains
  <2>6. next.sent <= ChainsOver(next) * Chain + (next.kept + next.moves) * MaxAttempts + next.attempt
    <3>1. s.sent <= ChainsOver(s) * Chain + (s.kept + s.moves) * MaxAttempts + s.attempt + 1
      BY <1>3, <2>4
    <3>2. PICK x \in Nat, y \in Nat : x = ChainsOver(s) * Chain /\ y = (s.kept + s.moves) * MaxAttempts
      BY <1>3, <1>4, RequestBounds
    <3>3. (s.kept + m) * MaxAttempts = y + MaxAttempts
      BY <1>4, <1>5, <3>2, RequestBounds
    <3>4. s.sent <= x + (y + MaxAttempts) + 0
      BY <1>3, <1>4, <3>1, <3>2, RequestBounds
    <3> QED
      BY <2>4, <2>5, <3>2, <3>3, <3>4
  <2>7. CrawlSound(next)
    BY <1>3, <1>7, <1>14, <2>4, <2>6, RequestBounds DEF CrawlSound
  <2>8. crawl' = [crawl EXCEPT ![c] = next] /\ UNCHANGED <<gate, grants, tick>>
    BY <1>9, <1>14, <2>1, <2>3 DEF Change
  <2> QED
    BY <2>4, <2>7, <2>8, CrawlMoves, GatesKept
<1> QED
  BY <1>12, <1>13, <1>14

\* The policy of a host is known when its chain of requests is over, and the page
\* goes on with the redirects it had.
LEMMA RobotsKeeps ==
  ASSUME CrawlInv, NEW c \in Crawl, NEW policy \in {"all", "none", "rules"}, RobotsAnswered(c, policy)
  PROVE  CrawlInv'
<1>1. PICK s : s = Sent(c)
  OBVIOUS
<1>2. crawl[c].stage = "send" /\ s.want = "robots"
  BY <1>1 DEF RobotsAnswered
<1>3. /\ s \in CrawlTask /\ s.stage = "send" /\ s.attempt < MaxAttempts
      /\ s.moves <= MaxMoves /\ s.count < MaxPages /\ ChainsOver(s) * Chain \in Nat
      /\ s.robots[s.at.host] = "unknown" /\ s.kept <= MaxMoves
      /\ s.sent <= ChainsOver(s) * Chain + (s.kept + s.moves) * MaxAttempts + s.attempt + 1
  BY <1>1, <1>2, SentTask
<1>4. /\ s.attempt \in Nat /\ s.sent \in Nat /\ s.moves \in Nat /\ s.kept \in Nat /\ s.count \in Nat
      /\ s.at \in SitePage /\ s.robots \in [SiteHost -> {"unknown", "all", "none", "rules"}]
  BY <1>3 DEF CrawlTask
<1>5. PICK h : h = s.at.host
  OBVIOUS
<1>6. h \in SiteHost
  BY <1>4, <1>5 DEF SiteHost
<1>7. PICK policies : policies = [s.robots EXCEPT ![h] = policy]
  OBVIOUS
<1>8. policies \in [SiteHost -> {"unknown", "all", "none", "rules"}]
  BY <1>4, <1>7
<1>9. PICK next : next = [s EXCEPT !.robots = policies, !.moves = s.kept]
  OBVIOUS
<1>10. /\ next \in CrawlTask /\ next.robots = policies /\ next.count = s.count
       /\ next.sent = s.sent /\ next.moves = s.kept
  BY <1>3, <1>4, <1>8, <1>9 DEF CrawlTask
<1>11. ChainsOver(next) = ChainsOver(s) + 1
  <2>1. AskedHosts(next) = AskedHosts(s) \cup {h} /\ h \notin AskedHosts(s)
    BY <1>3, <1>4, <1>5, <1>6, <1>7, <1>10 DEF AskedHosts
  <2>2. Cardinality(AskedHosts(next)) = Cardinality(AskedHosts(s)) + 1
    BY <1>3, <2>1, HostsAsked, FS_AddElement
  <2>3. Cardinality(AskedHosts(s)) \in Nat
    BY <1>3, HostsAsked
  <2> QED
    BY <1>4, <1>10, <2>2, <2>3 DEF ChainsOver
<1>12. next.sent <= ChainsOver(next) * Chain + next.moves * MaxAttempts
  <2>1. PICK n \in Nat, x \in Nat, y \in Nat, z \in Nat :
          n = ChainsOver(s) /\ x = n * Chain /\ y = s.kept * MaxAttempts /\ z = s.moves * MaxAttempts
    BY <1>3, <1>4, HostsAsked, RequestBounds, SMTT(30)
  <2>2. (s.kept + s.moves) * MaxAttempts = y + z
    BY <1>4, <2>1, RequestBounds
  <2>3. z + MaxAttempts <= Chain
    <3>1. s.moves \in 0..MaxMoves
      BY <1>3, <1>4, RequestBounds
    <3> QED
      BY <2>1, <3>1, OneMoreMove
  <2>4. (n + 1) * Chain = x + Chain
    BY <2>1, OneMoreChain
  <2>5. s.sent <= x + (y + z) + s.attempt + 1
    BY <1>3, <2>1, <2>2
  <2>6. s.sent <= (x + Chain) + y
    BY <1>3, <1>4, <2>1, <2>3, <2>5, RequestBounds
  <2> QED
    BY <1>10, <1>11, <2>1, <2>4, <2>6
<1>13. Toward(c, next, s.at) /\ UNCHANGED <<gate, grants>>
  <2>1. next = [s EXCEPT !.robots[s.at.host] = policy, !.moves = s.kept]
    BY <1>3, <1>5, <1>7, <1>9 DEF CrawlTask
  <2> QED
    BY <1>1, <2>1 DEF RobotsAnswered
<1>14. next.moves <= MaxMoves /\ next.count < MaxPages
  BY <1>3, <1>10
<1> QED
  BY <1>4, <1>10, <1>12, <1>13, <1>14, TowardKeeps

LEMMA SequenceOfSet ==
  ASSUME NEW S, IsFiniteSet(S)
  PROVE  SetToSeq(S) \in Seq(S)
<1>1. Cardinality(S) \in Nat /\ ExistsBijection(1..Cardinality(S), S)
  BY FS_CardinalityType
<1>2. \E f \in [1..Cardinality(S) -> S] : IsInjective(f)
  BY <1>1 DEF ExistsBijection, Bijection, Injection, IsInjective
<1>3. SetToSeq(S) \in [1..Cardinality(S) -> S]
  BY <1>2 DEF SetToSeq
<1> QED
  BY <1>1, <1>3

LEMMA AnsweredKeeps ==
  ASSUME CrawlInv, NEW c \in Crawl, NEW links \in SUBSET {p \in SitePage : p.product},
         NEW enough \in BOOLEAN, PageAnswered(c, links, enough)
  PROVE  CrawlInv'
<1>1. PICK s : s = Sent(c)
  OBVIOUS
<1>2. crawl[c].stage = "send" /\ s.want = "page" /\ UNCHANGED <<gate, grants, tick>>
  BY <1>1 DEF PageAnswered, Change
<1>3. /\ s \in CrawlTask /\ s.attempt < MaxAttempts
      /\ s.moves <= MaxMoves /\ s.count < MaxPages /\ ChainsOver(s) * Chain \in Nat
      /\ s.sent <= ChainsOver(s) * Chain + s.moves * MaxAttempts + s.attempt + 1
  BY <1>1, <1>2, SentTask
<1>4. /\ s.attempt \in Nat /\ s.sent \in Nat /\ s.moves \in Nat /\ s.count \in Nat
      /\ s.paths \in Seq(SitePage)
  BY <1>3 DEF CrawlTask
<1>5. CASE enough
  <2>1. crawl' = [crawl EXCEPT ![c] = NotCrawling]
    BY <1>5 DEF PageAnswered, Change
  <2> QED
    BY <1>2, <2>1, CrawlMoves, GatesKept
<1>6. CASE ~enough
  <2>1. PICK more : more = s.paths \o SetToSeq(links \ s.seen)
    OBVIOUS
  <2>2. more \in Seq(SitePage)
    <3>1. IsFiniteSet(links \ s.seen) /\ links \ s.seen \subseteq SitePage
      BY RequestConstants, FS_Subset
    <3>2. SetToSeq(links \ s.seen) \in Seq(links \ s.seen)
      BY <3>1, SequenceOfSet
    <3>3. SetToSeq(links \ s.seen) \in Seq(SitePage)
      BY <3>1, <3>2
    <3> QED
      BY <1>4, <2>1, <3>3
  <2>3. PICK k \in Nat : k = s.count + 1
    BY <1>4
  <2>4. PICK next : next = [s EXCEPT !.stage = "next", !.count = k, !.paths = more]
    OBVIOUS
  <2>5. /\ next \in CrawlTask /\ next.stage = "next" /\ next.count = s.count + 1
        /\ next.robots = s.robots /\ next.sent = s.sent
    BY <1>3, <2>2, <2>3, <2>4 DEF CrawlTask, Stages
  <2>6. ChainsOver(next) = ChainsOver(s) + 1
    <3>1. AskedHosts(next) = AskedHosts(s) /\ Cardinality(AskedHosts(s)) \in Nat
      BY <1>3, <2>5, HostsAsked DEF AskedHosts
    <3> QED
      BY <1>4, <2>5, <3>1 DEF ChainsOver
  <2>7. next.sent <= ChainsOver(next) * Chain
    <3>1. PICK n \in Nat, x \in Nat, z \in Nat :
            n = ChainsOver(s) /\ x = n * Chain /\ z = s.moves * MaxAttempts
      <4>1. ChainsOver(s) \in Nat
        BY <1>3, HostsAsked
      <4>2. s.moves * MaxAttempts \in Nat
        BY <1>4, RequestBounds
      <4> QED
        BY <1>3, <4>1, <4>2
    <3>2. z + MaxAttempts <= Chain
      <4>1. s.moves \in 0..MaxMoves
        BY <1>3, <1>4, RequestBounds
      <4> QED
        BY <3>1, <4>1, OneMoreMove
    <3>3. (n + 1) * Chain = x + Chain
      BY <3>1, OneMoreChain
    <3>4. s.sent <= x + z + s.attempt + 1
      BY <1>3, <3>1
    <3>5. s.sent <= x + Chain
      <4>1. s.attempt + 1 <= MaxAttempts /\ x \in Nat /\ z \in Nat
        BY <1>3, <1>4, <3>1, RequestBounds, SMTT(30)
      <4> QED
        BY <1>4, <3>2, <3>4, <4>1, RequestBounds
    <3> QED
      BY <2>5, <2>6, <3>1, <3>3, <3>5
  <2>8. CrawlSound(next)
    BY <1>3, <1>4, <2>5, <2>7, RequestBounds DEF CrawlSound
  <2>9. crawl' = [crawl EXCEPT ![c] = next]
    <3>1. next = [s EXCEPT !.stage = "next", !.count = @ + 1, !.paths = @ \o SetToSeq(links \ s.seen)]
      BY <2>1, <2>3, <2>4
    <3> QED
      BY <1>1, <1>6, <3>1 DEF PageAnswered, Change
  <2> QED
    BY <1>2, <2>5, <2>8, <2>9, CrawlMoves, GatesKept
<1> QED
  BY <1>5, <1>6

LEMMA CrawlKeeps ==
  ASSUME CrawlInv, [RequestsNext]_requestVars
  PROVE  CrawlInv'
<1>1. ASSUME NEW c \in Crawl, StartCrawl(c) \/ NextPage(c) \/ EndCrawl(c) PROVE CrawlInv'
  BY <1>1, StartKeeps, NextPageKeeps, GiveUpKeeps DEF EndCrawl
<1>2. ASSUME NEW c \in Crawl, ReadGateClock(c) \/ AskGate(c) \/ WakeUp(c) PROVE CrawlInv'
  BY <1>2, ClockKeeps, GateKeeps
<1>3. ASSUME NEW c \in Crawl, AttemptFails(c) \/ RequestRejected(c) PROVE CrawlInv'
  BY <1>3, AttemptKeeps, GiveUpKeeps DEF RequestRejected
<1>4. CASE RequestTick \/ UNCHANGED requestVars
  <2>1. tick' \in Nat /\ UNCHANGED <<gate, grants, crawl>>
    BY <1>4 DEF RequestTick, requestVars, CrawlInv, GatesSound
  <2> QED
    BY <2>1 DEF CrawlInv, GatesSound
<1> QED
  BY <1>1, <1>2, <1>3, <1>4, MovedKeeps, RobotsKeeps, AnsweredKeeps DEF RequestsNext

LEMMA InitCrawl == RequestsInit => CrawlInv
BY DEF RequestsInit, CrawlInv, GatesSound

LEMMA InvPolite == CrawlInv => CrawlPolite
<1> SUFFICES ASSUME CrawlInv PROVE CrawlPolite
  OBVIOUS
<1>1. ASSUME NEW c \in Crawl, crawl[c] # NotCrawling
      PROVE  /\ crawl[c].stage \in {"clock", "gate", "sleep", "send"} /\ crawl[c].want = "page" =>
                  May(crawl[c], crawl[c].at)
             /\ crawl[c].sent <= (MaxPages + Cardinality(SiteHost)) * (MaxMoves + 1) * MaxAttempts
  <2>1. PICK s : s = crawl[c]
    OBVIOUS
  <2>2. s \in CrawlTask /\ CrawlSound(s)
    BY <1>1, <2>1 DEF CrawlInv
  <2>3. s.sent <= (MaxPages + Cardinality(SiteHost)) * (MaxMoves + 1) * MaxAttempts
    BY <2>2, SoundIsBounded
  <2>4. s.stage \in {"clock", "gate", "sleep", "send"} /\ s.want = "page" => May(s, s.at)
    BY <2>2 DEF CrawlSound
  <2> QED
    BY <2>1, <2>3, <2>4
<1> QED
  BY <1>1 DEF CrawlInv, GatesSound, CrawlPolite

\* The sites are read politely, however many calls overlap, for any site, policy and
\* redirects: an interval between the clocks of the calls that a gate let through,
\* no page that robots.txt forbids, and a bounded number of requests of each call
\* (ProviderRequests!CrawlPolite).
THEOREM SitesReadPolitely == RequestsSpec => []CrawlPolite
BY InitCrawl, CrawlKeeps, InvPolite, PTL DEF RequestsSpec

-----------------------------------------------------------------------------
(* Least and greatest *)

LEMMA LeastIn ==
  ASSUME NEW S \in SUBSET Nat, S # {}
  PROVE  Min(S) \in S /\ \A y \in S : Min(S) <= y
<1> DEFINE R == {ss \in Nat \X Nat : ss[1] < ss[2]}
<1>1. IsWellFoundedOn(R, Nat)
  BY NatLessThanWellFounded DEF OpToRel
<1>2. \E t \in S : \A u \in S : ~ (<<u, t>> \in R)
  <2> HIDE DEF R
  <2> QED
    BY <1>1, WFMin
<1>3. PICK t \in S : \A u \in S : ~ (<<u, t>> \in R)
  BY <1>2
<1>4. \A u \in S : t <= u
  <2> TAKE u \in S
  <2>1. ~(u < t) /\ u \in Nat /\ t \in Nat
    BY <1>3
  <2> QED
    BY <2>1
<1> QED
  BY <1>4 DEF Min

\* Those of S above x.
Above(S, x) == {y \in S : y > x}

\* The greatest element is the one with the fewest others above it.
LEMMA GreatestIn ==
  ASSUME NEW S \in SUBSET Nat, S # {}, IsFiniteSet(S)
  PROVE  Max(S) \in S /\ \A y \in S : y <= Max(S)
<1> DEFINE ranks == {Cardinality(Above(S, x)) : x \in S}
<1>1. \A x \in S : IsFiniteSet(Above(S, x)) /\ Cardinality(Above(S, x)) \in Nat
  BY FS_Subset, FS_CardinalityType DEF Above
<1>2. ranks \in SUBSET Nat /\ ranks # {}
  BY <1>1
<1>3. Min(ranks) \in ranks /\ \A y \in ranks : Min(ranks) <= y
  BY <1>2, LeastIn
<1>4. PICK top \in S : Cardinality(Above(S, top)) = Min(ranks)
  BY <1>3
<1> HIDE DEF ranks
<1>5. \A y \in S : y <= top
  <2> SUFFICES ASSUME NEW y \in S, ~(y <= top) PROVE FALSE
    OBVIOUS
  <2>1. y \in Nat /\ top \in Nat /\ y > top
    OBVIOUS
  <2>2. \A z \in Above(S, y) : z \in Above(S, top)
    <3> TAKE z \in Above(S, y)
    <3>1. z \in Nat /\ z \in S /\ z > y
      BY DEF Above
    <3> QED
      BY <2>1, <3>1 DEF Above
  <2>3. y \in Above(S, top) /\ y \notin Above(S, y)
    BY <2>1 DEF Above
  <2>4. Cardinality(Above(S, y)) \in ranks /\ Cardinality(Above(S, y)) \in Nat /\ Cardinality(Above(S, top)) \in Nat
    BY <1>1 DEF ranks
  <2>5. IsFiniteSet(Above(S, top))
    BY <1>1
  <2>6. Above(S, y) \in SUBSET Above(S, top)
    BY <2>2
  <2>7. Cardinality(Above(S, y)) < Cardinality(Above(S, top))
    BY <2>3, <2>4, <2>5, <2>6, FS_Subset
  <2> QED
    BY <1>3, <1>4, <2>4, <2>7
<1> QED
  BY <1>5 DEF Max

-----------------------------------------------------------------------------
(* The score of an offer *)

\* A digit below its radix decides only between equal higher digits.
LEMMA DigitDecides ==
  ASSUME NEW r \in Nat, NEW a \in Nat, NEW b \in Nat, NEW x \in 0..r, NEW y \in 0..r
  PROVE  /\ a * (r + 1) + x \in Nat
         /\ a > b \/ (a = b /\ x > y) => a * (r + 1) + x > b * (r + 1) + y
<1>1. a * (r + 1) \in Nat /\ b * (r + 1) \in Nat
  OBVIOUS
<1>2. ASSUME a > b PROVE a * (r + 1) + x > b * (r + 1) + y
  <2>1. PICK d \in Nat : a = b + 1 + d
    <3>1. a - b - 1 \in Nat /\ a = b + 1 + (a - b - 1)
      BY <1>2
    <3> QED
      BY <3>1
  <2>2. a * (r + 1) = b * (r + 1) + (r + 1) + d * (r + 1)
    BY <2>1
  <2>3. d * (r + 1) \in Nat
    BY <2>1
  <2> QED
    BY <1>1, <2>2, <2>3
<1> QED
  BY <1>1, <1>2

Same(lang) == {i \in DOMAIN Preferred : Preferred[i].primary = lang.primary}
Exactly(lang) == {i \in DOMAIN Preferred : Preferred[i] = lang}
Languages == [primary : Nat, region : Nat]

LEMMA PreferredFacts ==
  /\ Len(Preferred) \in Nat /\ DOMAIN Preferred = 1..Len(Preferred)
  /\ \A i \in DOMAIN Preferred : Preferred[i] \in Languages
  /\ IsFiniteSet(DOMAIN Preferred) /\ Cardinality(DOMAIN Preferred) = Len(Preferred)
  /\ PrimaryOrder \subseteq DOMAIN Preferred
<1>1. Len(Preferred) \in Nat /\ DOMAIN Preferred = 1..Len(Preferred)
  BY ResolverConstants
<1> DEFINE n == Len(Preferred)
<1> HIDE DEF n
<1>2. IsFiniteSet(1..n) /\ Cardinality(1..n) = n
  <2>1. n \in Nat /\ 1 \in Int /\ n \in Int
    BY <1>1 DEF n
  <2>2. IsFiniteSet(1..n) /\ Cardinality(1..n) = IF 1 > n THEN 0 ELSE n - 1 + 1
    BY <2>1, FS_Interval
  <2> QED
    BY <2>1, <2>2
<1>3. PrimaryOrder \subseteq DOMAIN Preferred
  BY DEF PrimaryOrder
<1>4. \A i \in DOMAIN Preferred : Preferred[i] \in Languages
  <2>1. Preferred \in Seq(Languages)
    BY ResolverConstants DEF Languages
  <2> QED
    BY <2>1
<1> QED
  <2>1. DOMAIN Preferred = 1..n /\ n = Len(Preferred)
    BY <1>1 DEF n
  <2> QED
    BY <1>1, <1>2, <1>3, <1>4, <2>1

\* Fewer positions are left from a later one on.
LEMMA FromDecreases ==
  ASSUME NEW S \in SUBSET DOMAIN Preferred, NEW i \in S, NEW j \in DOMAIN Preferred
  PROVE  /\ From(S, i) \in 1..Len(Preferred) /\ From(S, j) \in 0..Len(Preferred)
         /\ i < j => From(S, j) < From(S, i)
         /\ i <= j => From(S, j) <= From(S, i)
<1> DEFINE after(k) == {m \in S : m >= k}
<1>1. ASSUME NEW k \in DOMAIN Preferred
      PROVE  /\ IsFiniteSet(after(k)) /\ Cardinality(after(k)) \in Nat
             /\ Cardinality(after(k)) <= Len(Preferred)
  <2>1. after(k) \subseteq DOMAIN Preferred
    OBVIOUS
  <2> QED
    BY <2>1, PreferredFacts, FS_Subset, FS_CardinalityType
<1>2. i \in Nat /\ j \in Nat /\ i \in after(i) /\ i \in DOMAIN Preferred /\ \A m \in S : m \in Nat
  BY PreferredFacts
<1>3. Cardinality(after(i)) # 0
  BY <1>1, <1>2, FS_EmptySet
<1>4. ASSUME i <= j PROVE after(j) \subseteq after(i) /\ (i < j => i \notin after(j))
  BY <1>2, <1>4
<1>5. ASSUME i <= j PROVE Cardinality(after(j)) <= Cardinality(after(i))
  BY <1>1, <1>2, <1>4, <1>5, FS_Subset
<1>6. ASSUME i < j PROVE Cardinality(after(j)) < Cardinality(after(i))
  <2>1. after(j) \subseteq after(i) /\ after(j) # after(i)
    BY <1>2, <1>4, <1>6
  <2> QED
    BY <1>1, <1>2, <2>1, FS_Subset
<1>7. From(S, i) = Cardinality(after(i)) /\ From(S, j) = Cardinality(after(j))
  BY DEF From
<1>8. From(S, i) \in Nat /\ From(S, i) <= Len(Preferred) /\ From(S, i) # 0
  BY <1>1, <1>2, <1>3, <1>7
<1>9. From(S, j) \in Nat /\ From(S, j) <= Len(Preferred)
  BY <1>1, <1>7
<1>10. Len(Preferred) \in Nat
  BY PreferredFacts
<1>11. From(S, i) \in 1..Len(Preferred) /\ From(S, j) \in 0..Len(Preferred)
  BY <1>8, <1>9, <1>10
<1> QED
  BY <1>5, <1>6, <1>7, <1>11

\* The first position of a language that is preferred.
LEMMA FirstOfSame ==
  ASSUME NEW lang \in Languages, Same(lang) # {}
  PROVE  /\ Same(lang) \subseteq DOMAIN Preferred /\ Min(Same(lang)) \in Same(lang) \cap PrimaryOrder
         /\ \A i \in Same(lang) : Min(Same(lang)) <= i
<1>1. Same(lang) \in SUBSET Nat
  BY PreferredFacts DEF Same
<1>2. Min(Same(lang)) \in Same(lang) /\ \A i \in Same(lang) : Min(Same(lang)) <= i
  BY <1>1, LeastIn
<1>3. ASSUME NEW j \in 1..(Min(Same(lang)) - 1) PROVE Preferred[j].primary # Preferred[Min(Same(lang))].primary
  <2>1. Min(Same(lang)) \in 1..Len(Preferred) /\ Preferred[Min(Same(lang))].primary = lang.primary
    BY <1>2, PreferredFacts DEF Same
  <2>2. j \in DOMAIN Preferred /\ ~(Min(Same(lang)) <= j)
    BY <2>1, PreferredFacts
  <2> QED
    BY <1>2, <2>1, <2>2 DEF Same
<1> QED
  BY <1>2, <1>3 DEF PrimaryOrder, Same

LEMMA FirstOfExact ==
  ASSUME NEW lang \in Languages, Exactly(lang) # {}
  PROVE  /\ Exactly(lang) \subseteq Same(lang) /\ Min(Exactly(lang)) \in Exactly(lang)
         /\ Exactly(lang) = {Min(Exactly(lang))}
<1>1. Exactly(lang) \in SUBSET Nat
  BY PreferredFacts DEF Exactly
<1>2. Min(Exactly(lang)) \in Exactly(lang)
  BY <1>1, LeastIn
<1> QED
  BY <1>2, ResolverConstants DEF Exactly, Same

Group(lang) == IF Same(lang) = {} THEN 0 ELSE From(PrimaryOrder, Min(Same(lang)))
Region(lang) == IF Exactly(lang) = {} THEN 0 ELSE From(Same(lang), Min(Exactly(lang)))
Named(lang) == IF Same(lang) = {} THEN 0 ELSE Len(Preferred) - Min(Same(lang)) + 1
NamedExactly(lang) == IF Exactly(lang) = {} THEN 0 ELSE Len(Preferred) - Min(Exactly(lang)) + 1

\* The rank has the group and the place in the group as its digits.
LEMMA RankDigits ==
  ASSUME NEW lang \in Languages
  PROVE  /\ LanguageRank(lang) = Group(lang) * (Len(Preferred) + 1) + Region(lang)
         /\ Group(lang) \in 0..Len(Preferred) /\ Region(lang) \in 0..Len(Preferred)
         /\ LanguageRank(lang) \in Nat
<1> DEFINE exact == {i \in Same(lang) : Preferred[i] = lang}
<1>1. exact = Exactly(lang)
  BY DEF Exactly, Same
<1>2. LanguageRank(lang) =
        IF Same(lang) = {} THEN 0
        ELSE From(PrimaryOrder, Min(Same(lang))) * (Len(Preferred) + 1)
               + (IF exact = {} THEN 0 ELSE From(Same(lang), Min(exact)))
  BY DEF LanguageRank, Same
<1>3. Len(Preferred) \in Nat
  BY PreferredFacts
<1>4. CASE Same(lang) = {}
  <2>1. Exactly(lang) = {}
    BY <1>4, <1>1
  <2>2. Group(lang) = 0 /\ Region(lang) = 0 /\ LanguageRank(lang) = 0
    BY <1>2, <1>4, <2>1 DEF Group, Region
  <2>3. 0 * (Len(Preferred) + 1) + 0 = 0 /\ 0 \in 0..Len(Preferred)
    BY <1>3
  <2> QED
    BY <2>2, <2>3
<1>5. CASE Same(lang) # {}
  <2>1. Group(lang) = From(PrimaryOrder, Min(Same(lang))) /\ Group(lang) \in 0..Len(Preferred)
    <3>1. Min(Same(lang)) \in PrimaryOrder /\ PrimaryOrder \in SUBSET DOMAIN Preferred
      BY <1>5, FirstOfSame, PreferredFacts
    <3>2. From(PrimaryOrder, Min(Same(lang))) \in 0..Len(Preferred)
      BY <3>1, FromDecreases
    <3> QED
      BY <1>5, <3>2 DEF Group
  <2>2. Region(lang) = (IF exact = {} THEN 0 ELSE From(Same(lang), Min(exact))) /\ Region(lang) \in 0..Len(Preferred)
    <3>1. CASE Exactly(lang) = {}
      BY <1>1, <1>3, <3>1 DEF Region
    <3>2. CASE Exactly(lang) # {}
      <4>1. Min(Exactly(lang)) \in Same(lang) /\ Same(lang) \in SUBSET DOMAIN Preferred
        BY <1>5, <3>2, FirstOfSame, FirstOfExact
      <4>2. From(Same(lang), Min(Exactly(lang))) \in 0..Len(Preferred)
        BY <4>1, FromDecreases
      <4> QED
        BY <1>1, <3>2, <4>2 DEF Region
    <3> QED
      BY <3>1, <3>2
  <2>3. LanguageRank(lang) = Group(lang) * (Len(Preferred) + 1) + Region(lang)
    BY <1>2, <1>5, <2>1, <2>2
  <2>4. Group(lang) \in Nat
    BY <2>1, <1>3
  <2>5. Group(lang) * (Len(Preferred) + 1) + Region(lang) \in Nat
    BY <1>3, <2>2, <2>4, DigitDecides
  <2> QED
    BY <2>1, <2>2, <2>3, <2>5
<1> QED
  BY <1>4, <1>5

\* A language of an earlier group, or earlier in its group, ranks higher.
LEMMA RankOrders ==
  ASSUME NEW a \in Languages, NEW b \in Languages
  PROVE  /\ Named(a) > Named(b) => LanguageRank(a) > LanguageRank(b)
         /\ Named(a) = Named(b) /\ NamedExactly(a) > NamedExactly(b) => LanguageRank(a) > LanguageRank(b)
         /\ Named(a) = Named(b) /\ NamedExactly(a) = NamedExactly(b) => LanguageRank(a) = LanguageRank(b)
<1> DEFINE n == Len(Preferred)
<1>1. n \in Nat /\ DOMAIN Preferred = 1..n
  BY PreferredFacts
<1>2. \A l \in Languages : Same(l) # {} =>
        /\ Min(Same(l)) \in 1..n /\ Min(Same(l)) \in PrimaryOrder /\ Min(Same(l)) \in Same(l)
        /\ Same(l) \in SUBSET DOMAIN Preferred
  BY <1>1, FirstOfSame
<1>3. \A l \in Languages : Exactly(l) # {} =>
        /\ Same(l) # {} /\ Min(Exactly(l)) \in Same(l) /\ Min(Exactly(l)) \in Exactly(l)
        /\ Min(Exactly(l)) \in 1..n
  BY <1>1, FirstOfExact, FirstOfSame
<1>4. \A l \in Languages : /\ Group(l) \in Nat /\ Region(l) \in 0..n
                           /\ LanguageRank(l) = Group(l) * (n + 1) + Region(l)
  BY <1>1, RankDigits
<1>5. PrimaryOrder \in SUBSET DOMAIN Preferred
  BY PreferredFacts
<1>6. ASSUME Named(a) > Named(b) PROVE Group(a) > Group(b)
  <2>1. Same(a) # {}
    BY <1>1, <1>2, <1>6 DEF Named
  <2>2. CASE Same(b) = {}
    <3>1. Group(b) = 0 /\ From(PrimaryOrder, Min(Same(a))) \in 1..n
      BY <1>2, <1>5, <2>1, <2>2, FromDecreases DEF Group
    <3> QED
      BY <1>1, <2>1, <3>1 DEF Group
  <2>3. CASE Same(b) # {}
    <3>1. Min(Same(a)) < Min(Same(b))
      BY <1>1, <1>2, <1>6, <2>1, <2>3 DEF Named
    <3>2. Min(Same(a)) \in PrimaryOrder /\ Min(Same(b)) \in DOMAIN Preferred
      BY <1>1, <1>2, <2>1, <2>3
    <3>3. From(PrimaryOrder, Min(Same(b))) < From(PrimaryOrder, Min(Same(a)))
      BY <1>5, <3>1, <3>2, FromDecreases
    <3> QED
      BY <1>4, <2>1, <2>3, <3>3 DEF Group
  <2> QED
    BY <2>2, <2>3
<1>7. ASSUME Named(a) = Named(b) PROVE Same(a) = Same(b) /\ Group(a) = Group(b)
  <2>1. CASE Same(a) = {} \/ Same(b) = {}
    <3>1. Same(a) = {} /\ Same(b) = {}
      BY <1>1, <1>2, <1>7, <2>1 DEF Named
    <3> QED
      BY <3>1 DEF Group
  <2>2. CASE Same(a) # {} /\ Same(b) # {}
    <3>1. Min(Same(a)) = Min(Same(b))
      BY <1>1, <1>2, <1>7, <2>2 DEF Named
    <3>2. Preferred[Min(Same(a))].primary = a.primary /\ Preferred[Min(Same(b))].primary = b.primary
      BY <1>2, <2>2 DEF Same
    <3>3. Same(a) = Same(b)
      BY <3>1, <3>2 DEF Same
    <3> QED
      BY <3>3 DEF Group
  <2> QED
    BY <2>1, <2>2
<1>8. ASSUME Named(a) = Named(b), NamedExactly(a) > NamedExactly(b) PROVE Region(a) > Region(b)
  <2>1. Exactly(a) # {}
    BY <1>1, <1>3, <1>8 DEF NamedExactly
  <2>2. Min(Exactly(a)) \in Same(a) /\ Same(a) \in SUBSET DOMAIN Preferred /\ Same(a) = Same(b)
    BY <1>2, <1>3, <1>7, <1>8, <2>1
  <2>3. CASE Exactly(b) = {}
    <3>1. Region(b) = 0 /\ From(Same(a), Min(Exactly(a))) \in 1..n
      BY <2>2, <2>3, FromDecreases DEF Region
    <3> QED
      BY <1>1, <2>1, <3>1 DEF Region
  <2>4. CASE Exactly(b) # {}
    <3>1. Min(Exactly(a)) < Min(Exactly(b)) /\ Min(Exactly(b)) \in DOMAIN Preferred
      BY <1>1, <1>3, <1>8, <2>1, <2>4 DEF NamedExactly
    <3>2. From(Same(a), Min(Exactly(b))) < From(Same(a), Min(Exactly(a)))
      BY <2>2, <3>1, FromDecreases
    <3>3. Region(a) = From(Same(a), Min(Exactly(a))) /\ Region(b) = From(Same(a), Min(Exactly(b)))
      BY <2>1, <2>2, <2>4 DEF Region
    <3> QED
      BY <1>1, <1>4, <3>2, <3>3
  <2> QED
    BY <2>3, <2>4
<1>9. ASSUME Named(a) = Named(b), NamedExactly(a) = NamedExactly(b) PROVE Region(a) = Region(b)
  <2>1. CASE Exactly(a) = {} \/ Exactly(b) = {}
    <3>1. Exactly(a) = {} /\ Exactly(b) = {}
      BY <1>1, <1>3, <1>9, <2>1 DEF NamedExactly
    <3> QED
      BY <3>1 DEF Region
  <2>2. CASE Exactly(a) # {} /\ Exactly(b) # {}
    <3>1. Min(Exactly(a)) = Min(Exactly(b))
      BY <1>1, <1>3, <1>9, <2>2 DEF NamedExactly
    <3>2. Same(a) = Same(b)
      BY <1>7, <1>9
    <3> QED
      BY <2>2, <3>1, <3>2 DEF Region
  <2> QED
    BY <2>1, <2>2
<1> HIDE DEF n
<1>10. Group(a) \in Nat /\ Group(b) \in Nat /\ Region(a) \in 0..n /\ Region(b) \in 0..n /\ n \in Nat
  BY <1>1, <1>4
<1>11. Group(a) > Group(b) \/ (Group(a) = Group(b) /\ Region(a) > Region(b)) =>
         Group(a) * (n + 1) + Region(a) > Group(b) * (n + 1) + Region(b)
  BY <1>10, DigitDecides
<1>12. /\ LanguageRank(a) = Group(a) * (n + 1) + Region(a)
       /\ LanguageRank(b) = Group(b) * (n + 1) + Region(b)
  BY <1>4
<1> QED
  BY <1>6, <1>7, <1>8, <1>9, <1>11, <1>12

\* No language ranks higher than the preferred ones.
LEMMA RankBounded ==
  ASSUME NEW lang \in Languages
  PROVE  MaxLanguageRank \in Nat /\ LanguageRank(lang) \in 0..MaxLanguageRank
<1> DEFINE ranks == {LanguageRank(Preferred[i]) : i \in DOMAIN Preferred}
<1>1. \A i \in DOMAIN Preferred : LanguageRank(Preferred[i]) \in Nat
  BY PreferredFacts, RankDigits
<1>2. IsFiniteSet(ranks)
  <2> DEFINE f == [i \in DOMAIN Preferred |-> LanguageRank(Preferred[i])]
  <2>1. f \in Surjection(DOMAIN Preferred, ranks)
    BY DEF Surjection
  <2> QED
    BY <2>1, PreferredFacts, FS_Surjection
<1>3. IsFiniteSet({0} \cup ranks)
  BY <1>2, FS_AddElement
<1>4. {0} \cup ranks \in SUBSET Nat /\ {0} \cup ranks # {}
  BY <1>1
<1>5. /\ MaxLanguageRank \in {0} \cup ranks
      /\ \A y \in {0} \cup ranks : y <= MaxLanguageRank
  BY <1>3, <1>4, GreatestIn DEF MaxLanguageRank
<1>6. MaxLanguageRank \in Nat /\ LanguageRank(lang) \in Nat
  BY <1>4, <1>5, RankDigits
<1>7. CASE Same(lang) = {}
  <2>1. LanguageRank(lang) = 0
    BY <1>7 DEF LanguageRank, Same
  <2> QED
    BY <1>6, <2>1
<1>8. CASE Same(lang) # {}
  <2> DEFINE k == Min(Same(lang))
             best == Preferred[k]
  <2>1. /\ k \in Same(lang) /\ Same(lang) \in SUBSET DOMAIN Preferred /\ k \in DOMAIN Preferred
        /\ best.primary = lang.primary /\ best \in Languages
    BY <1>8, FirstOfSame, PreferredFacts DEF Same
  <2>2. Same(best) = Same(lang)
    BY <2>1 DEF Same
  <2>3. Named(best) = Named(lang)
    BY <2>2 DEF Named
  <2>4. k \in Exactly(best)
    BY <2>1 DEF Exactly
  <2>5. Min(Exactly(best)) = k
    BY <2>1, <2>4, FirstOfExact
  <2>6. NamedExactly(best) = Len(Preferred) - k + 1
    BY <2>4, <2>5 DEF NamedExactly
  <2>7. NamedExactly(lang) <= NamedExactly(best)
    <3>1. k \in 1..Len(Preferred) /\ Len(Preferred) \in Nat
      BY <2>1, PreferredFacts
    <3>2. CASE Exactly(lang) = {}
      BY <2>6, <3>1, <3>2 DEF NamedExactly
    <3>3. CASE Exactly(lang) # {}
      <4>1. Min(Exactly(lang)) \in Same(lang)
        BY <3>3, FirstOfExact
      <4>2. k <= Min(Exactly(lang)) /\ Min(Exactly(lang)) \in 1..Len(Preferred)
        BY <1>8, <2>1, <4>1, FirstOfSame, PreferredFacts
      <4> QED
        BY <2>6, <3>1, <3>3, <4>2 DEF NamedExactly
    <3> QED
      BY <3>2, <3>3
  <2>8. NamedExactly(lang) \in Int /\ NamedExactly(best) \in Int
    <3>1. \A l \in Languages : Exactly(l) # {} => Min(Exactly(l)) \in DOMAIN Preferred
      BY FirstOfExact DEF Exactly
    <3> QED
      BY <2>1, <3>1, PreferredFacts DEF NamedExactly
  <2>9. LanguageRank(lang) <= LanguageRank(best)
    <3>1. NamedExactly(best) > NamedExactly(lang) \/ NamedExactly(best) = NamedExactly(lang)
      BY <2>7, <2>8
    <3>2. LanguageRank(best) > LanguageRank(lang) \/ LanguageRank(best) = LanguageRank(lang)
      BY <2>1, <2>3, <3>1, RankOrders
    <3>3. LanguageRank(best) \in Nat
      BY <2>1, RankDigits
    <3> QED
      BY <1>6, <3>2, <3>3
  <2>10. LanguageRank(best) \in ranks /\ LanguageRank(best) \in Nat
    BY <2>1, RankDigits
  <2> HIDE DEF best, ranks
  <2> QED
    BY <1>5, <1>6, <2>9, <2>10
<1> QED
  BY <1>7, <1>8

\* What an offer is, in numbers.
LEMMA OfferFacts ==
  ASSUME NEW o \in Offer
  PROVE  /\ o.url \in Url /\ o.url \in Nat /\ o.lang \in Languages
         /\ o.lang.primary \in Nat /\ o.lang.region \in Nat
         /\ o.confidence \in Nat /\ o.source \in Nat /\ o.title \in BOOLEAN /\ o.year \in BOOLEAN
         /\ Bit(o.identity = "exact") \in 0..1 /\ Bit(o.title) \in 0..1 /\ Bit(o.year) \in 0..1
<1>1. o \in [url : Url, kind : STRING, identity : {"exact", "unknown", "other"}, confidence : Nat,
             lang : [primary : Nat, region : Nat], source : Nat, title : BOOLEAN, year : BOOLEAN]
  BY ResolverConstants
<1>2. o.url \in Nat
  BY <1>1, ResolverConstants
<1> QED
  BY <1>1, <1>2 DEF Languages, Bit

LEMMA SourcesBounded ==
  ASSUME NEW o \in Offer
  PROVE  Max(SourcePriority) \in Nat /\ o.source \in 0..Max(SourcePriority)
<1> DEFINE f == [p \in Offer |-> p.source]
<1>1. f \in Surjection(Offer, SourcePriority)
  BY DEF Surjection, SourcePriority
<1>2. IsFiniteSet(SourcePriority)
  BY <1>1, ResolverConstants, FS_Surjection
<1>3. SourcePriority \in SUBSET Nat /\ o.source \in SourcePriority
  BY OfferFacts DEF SourcePriority
<1>4. SourcePriority # {}
  BY <1>3
<1>5. Max(SourcePriority) \in SourcePriority /\ o.source <= Max(SourcePriority)
  BY <1>2, <1>3, <1>4, GreatestIn
<1>6. Max(SourcePriority) \in Nat /\ o.source \in Nat
  BY <1>3, <1>5
<1> QED
  BY <1>5, <1>6

IdentityScore(o) == o.confidence * 2 + Bit(o.identity = "exact")
LanguageScore(o) == IdentityScore(o) * (MaxLanguageRank + 1) + LanguageRank(o.lang)
SourceScore(o) == LanguageScore(o) * (Max(SourcePriority) + 1) + o.source

LEMMA ScoreSteps ==
  ASSUME NEW o \in Offer
  PROVE  /\ IdentityScore(o) \in Nat /\ LanguageScore(o) \in Nat /\ SourceScore(o) \in Nat
         /\ CandidateScore[o] = SourceScore(o) * 4 + Bit(o.title) * 2 + Bit(o.year)
         /\ CandidateScore[o] \in Nat
<1>1. IdentityScore(o) \in Nat
  BY OfferFacts DEF IdentityScore
<1>2. LanguageScore(o) \in Nat
  <2>1. MaxLanguageRank \in Nat /\ LanguageRank(o.lang) \in 0..MaxLanguageRank
    BY OfferFacts, RankBounded
  <2> HIDE DEF IdentityScore
  <2> QED
    BY <1>1, <2>1, DigitDecides DEF LanguageScore
<1>3. SourceScore(o) \in Nat
  <2>1. Max(SourcePriority) \in Nat /\ o.source \in 0..Max(SourcePriority)
    BY SourcesBounded
  <2> QED
    BY <1>2, <2>1, DigitDecides DEF SourceScore
<1>4. CandidateScore[o] = SourceScore(o) * 4 + Bit(o.title) * 2 + Bit(o.year)
  BY DEF CandidateScore, SourceScore, LanguageScore, IdentityScore
<1> QED
  BY <1>1, <1>2, <1>3, <1>4, OfferFacts

\* The score decides as the documented precedence does: no digit runs over.
LEMMA ScoreOrders ==
  ASSUME NEW a \in Offer, NEW b \in Offer, Outranks(a, b)
  PROVE  CandidateScore[a] > CandidateScore[b]
<1>1. /\ Precedence[a] = <<a.confidence, Bit(a.identity = "exact"), Named(a.lang), NamedExactly(a.lang),
                           a.source, Bit(a.title), Bit(a.year)>>
      /\ Precedence[b] = <<b.confidence, Bit(b.identity = "exact"), Named(b.lang), NamedExactly(b.lang),
                           b.source, Bit(b.title), Bit(b.year)>>
  BY DEF Precedence, Named, NamedExactly, Same, Exactly
<1> DEFINE p == Precedence[a]
           q == Precedence[b]
<1>2. PICK i \in 1..7 : p[i] > q[i] /\ \A j \in 1..(i - 1) : p[j] = q[j]
  BY DEF Outranks
<1>3. /\ i > 1 => p[1] = q[1]
      /\ i > 2 => p[2] = q[2]
      /\ i > 3 => p[3] = q[3]
      /\ i > 4 => p[4] = q[4]
      /\ i > 5 => p[5] = q[5]
      /\ i > 6 => p[6] = q[6]
  BY <1>2
<1>4. /\ p[1] = a.confidence /\ p[2] = Bit(a.identity = "exact") /\ p[3] = Named(a.lang)
      /\ p[4] = NamedExactly(a.lang) /\ p[5] = a.source /\ p[6] = Bit(a.title) /\ p[7] = Bit(a.year)
  BY <1>1
<1>5. /\ q[1] = b.confidence /\ q[2] = Bit(b.identity = "exact") /\ q[3] = Named(b.lang)
      /\ q[4] = NamedExactly(b.lang) /\ q[5] = b.source /\ q[6] = Bit(b.title) /\ q[7] = Bit(b.year)
  BY <1>1
<1> HIDE DEF p, q
<1>6. /\ i <= 2 => IdentityScore(a) > IdentityScore(b)
      /\ i > 2 => IdentityScore(a) = IdentityScore(b)
  <2>1. i = 1 \/ i = 2 \/ i > 2
    OBVIOUS
  <2>2. i = 1 => a.confidence > b.confidence
    BY <1>2, <1>4, <1>5
  <2>3. i = 2 => a.confidence = b.confidence /\ Bit(a.identity = "exact") > Bit(b.identity = "exact")
    BY <1>2, <1>3, <1>4, <1>5
  <2>4. i > 2 => a.confidence = b.confidence /\ Bit(a.identity = "exact") = Bit(b.identity = "exact")
    BY <1>3, <1>4, <1>5
  <2>5. /\ a.confidence \in Nat /\ Bit(a.identity = "exact") \in 0..1
        /\ b.confidence \in Nat /\ Bit(b.identity = "exact") \in 0..1
    BY OfferFacts
  <2> QED
    BY <2>1, <2>2, <2>3, <2>4, <2>5 DEF IdentityScore
<1>7. /\ i <= 4 => LanguageScore(a) > LanguageScore(b)
      /\ i > 4 => LanguageScore(a) = LanguageScore(b)
  <2>1. /\ MaxLanguageRank \in Nat
        /\ LanguageRank(a.lang) \in 0..MaxLanguageRank /\ LanguageRank(b.lang) \in 0..MaxLanguageRank
        /\ IdentityScore(a) \in Nat /\ IdentityScore(b) \in Nat
    BY OfferFacts, RankBounded, ScoreSteps
  <2>2. \/ IdentityScore(a) > IdentityScore(b)
        \/ IdentityScore(a) = IdentityScore(b) /\ LanguageRank(a.lang) > LanguageRank(b.lang)
        => LanguageScore(a) > LanguageScore(b)
    BY <2>1, DigitDecides DEF LanguageScore
  <2>3. i = 3 => Named(a.lang) > Named(b.lang)
    BY <1>2, <1>4, <1>5
  <2>4. i = 4 => Named(a.lang) = Named(b.lang) /\ NamedExactly(a.lang) > NamedExactly(b.lang)
    BY <1>2, <1>3, <1>4, <1>5
  <2>5. i > 4 => Named(a.lang) = Named(b.lang) /\ NamedExactly(a.lang) = NamedExactly(b.lang)
    BY <1>3, <1>4, <1>5
  <2>6. a.lang \in Languages /\ b.lang \in Languages
    BY OfferFacts
  <2>7. /\ i \in {3, 4} => LanguageRank(a.lang) > LanguageRank(b.lang)
        /\ i > 4 => LanguageRank(a.lang) = LanguageRank(b.lang)
    BY <2>3, <2>4, <2>5, <2>6, RankOrders
  <2>8. i > 4 => LanguageScore(a) = LanguageScore(b)
    BY <1>6, <2>7 DEF LanguageScore
  <2>9. i <= 4 => LanguageScore(a) > LanguageScore(b)
    <3>1. i <= 2 \/ i \in {3, 4} \/ i > 4
      OBVIOUS
    <3> QED
      BY <1>6, <2>2, <2>7, <3>1
  <2> QED
    BY <2>8, <2>9
<1>8. /\ i <= 5 => SourceScore(a) > SourceScore(b)
      /\ i > 5 => SourceScore(a) = SourceScore(b)
  <2>1. /\ Max(SourcePriority) \in Nat
        /\ a.source \in 0..Max(SourcePriority) /\ b.source \in 0..Max(SourcePriority)
        /\ LanguageScore(a) \in Nat /\ LanguageScore(b) \in Nat
    BY SourcesBounded, ScoreSteps
  <2>2. \/ LanguageScore(a) > LanguageScore(b)
        \/ LanguageScore(a) = LanguageScore(b) /\ a.source > b.source
        => SourceScore(a) > SourceScore(b)
    BY <2>1, DigitDecides DEF SourceScore
  <2>3. i = 5 => a.source > b.source
    BY <1>2, <1>4, <1>5
  <2>4. i > 5 => a.source = b.source
    BY <1>3, <1>4, <1>5
  <2>5. i > 5 => SourceScore(a) = SourceScore(b)
    BY <1>7, <2>4 DEF SourceScore
  <2>6. i <= 4 \/ i = 5 \/ i > 5
    OBVIOUS
  <2>7. i <= 5 => SourceScore(a) > SourceScore(b)
    BY <1>7, <2>2, <2>3, <2>6
  <2> QED
    BY <2>5, <2>7
<1>9. /\ CandidateScore[a] = SourceScore(a) * 4 + Bit(a.title) * 2 + Bit(a.year)
      /\ CandidateScore[b] = SourceScore(b) * 4 + Bit(b.title) * 2 + Bit(b.year)
      /\ SourceScore(a) \in Nat /\ SourceScore(b) \in Nat
      /\ Bit(a.title) \in 0..1 /\ Bit(a.year) \in 0..1 /\ Bit(b.title) \in 0..1 /\ Bit(b.year) \in 0..1
  BY ScoreSteps, OfferFacts
<1>10. /\ i = 6 => Bit(a.title) > Bit(b.title)
       /\ i = 7 => Bit(a.title) = Bit(b.title) /\ Bit(a.year) > Bit(b.year)
  BY <1>2, <1>3, <1>4, <1>5
<1>11. i <= 5 \/ i = 6 \/ i = 7
  OBVIOUS
<1> QED
  BY <1>8, <1>9, <1>10, <1>11

-----------------------------------------------------------------------------
(* The order of the offers *)

\* What may be resolved: a rulebook, of this game or of one it may be.
Resolvable == {o \in Offer : o.kind = "rulebook" /\ o.identity # "other"}

LEMMA KeyFacts ==
  ASSUME NEW o \in Offer
  PROVE  \A i \in 1..8 : TieKey[o][i] \in Nat
<1>1. TieKey[o] = <<o.url, o.lang.primary, o.lang.region, o.source, o.confidence,
                    Bit(o.identity = "exact"), Bit(o.title), Bit(o.year)>>
  BY DEF TieKey
<1> QED
  BY <1>1, OfferFacts

\* Offers with one key are one offer.
LEMMA KeyDistinguishes ==
  ASSUME NEW a \in Resolvable, NEW b \in Resolvable, \A i \in 1..8 : TieKey[a][i] = TieKey[b][i]
  PROVE  a = b
<1>1. a \in Offer /\ b \in Offer
  BY DEF Resolvable
<1>2. /\ TieKey[a] = <<a.url, a.lang.primary, a.lang.region, a.source, a.confidence,
                       Bit(a.identity = "exact"), Bit(a.title), Bit(a.year)>>
      /\ TieKey[b] = <<b.url, b.lang.primary, b.lang.region, b.source, b.confidence,
                       Bit(b.identity = "exact"), Bit(b.title), Bit(b.year)>>
  BY <1>1 DEF TieKey
<1>3. /\ TieKey[a][1] = TieKey[b][1] /\ TieKey[a][2] = TieKey[b][2] /\ TieKey[a][3] = TieKey[b][3]
      /\ TieKey[a][4] = TieKey[b][4] /\ TieKey[a][5] = TieKey[b][5] /\ TieKey[a][6] = TieKey[b][6]
      /\ TieKey[a][7] = TieKey[b][7] /\ TieKey[a][8] = TieKey[b][8]
  OBVIOUS
<1>4. /\ a.url = b.url /\ a.lang.primary = b.lang.primary /\ a.lang.region = b.lang.region
      /\ a.source = b.source /\ a.confidence = b.confidence
      /\ Bit(a.identity = "exact") = Bit(b.identity = "exact")
      /\ Bit(a.title) = Bit(b.title) /\ Bit(a.year) = Bit(b.year)
  BY <1>2, <1>3
<1>5. a.title = b.title /\ a.year = b.year
  BY <1>1, <1>4, OfferFacts DEF Bit
<1>6. a.identity = b.identity /\ a.kind = b.kind
  <2>1. a.identity \in {"exact", "unknown"} /\ b.identity \in {"exact", "unknown"}
    BY ResolverConstants DEF Resolvable
  <2> QED
    BY <1>4, <2>1 DEF Bit, Resolvable
<1>7. a.lang = b.lang
  BY <1>1, <1>4, OfferFacts DEF Languages
<1>8. /\ a \in [url : Url, kind : STRING, identity : {"exact", "unknown", "other"}, confidence : Nat,
                lang : [primary : Nat, region : Nat], source : Nat, title : BOOLEAN, year : BOOLEAN]
      /\ b \in [url : Url, kind : STRING, identity : {"exact", "unknown", "other"}, confidence : Nat,
                lang : [primary : Nat, region : Nat], source : Nat, title : BOOLEAN, year : BOOLEAN]
  BY <1>1, ResolverConstants
<1> QED
  BY <1>4, <1>5, <1>6, <1>7, <1>8

\* KeyBefore is a strict total order of what may be resolved.
LEMMA KeyOrders ==
  ASSUME NEW a \in Resolvable, NEW b \in Resolvable
  PROVE  /\ ~(KeyBefore(a, b) /\ KeyBefore(b, a))
         /\ a = b => ~KeyBefore(a, b)
         /\ a # b => KeyBefore(a, b) \/ KeyBefore(b, a)
         /\ \A c \in Resolvable : KeyBefore(a, b) /\ KeyBefore(b, c) => KeyBefore(a, c)
<1>1. \A o \in Resolvable : \A i \in 1..8 : TieKey[o][i] \in Nat
  BY KeyFacts DEF Resolvable
<1>2. ~(KeyBefore(a, b) /\ KeyBefore(b, a))
  <2> SUFFICES ASSUME KeyBefore(a, b), KeyBefore(b, a) PROVE FALSE
    OBVIOUS
  <2>1. PICK i \in 1..8 : TieKey[a][i] < TieKey[b][i] /\ \A j \in 1..(i - 1) : TieKey[a][j] = TieKey[b][j]
    BY DEF KeyBefore
  <2>2. PICK k \in 1..8 : TieKey[b][k] < TieKey[a][k] /\ \A j \in 1..(k - 1) : TieKey[b][j] = TieKey[a][j]
    BY DEF KeyBefore
  <2>3. i < k \/ i = k \/ k < i
    OBVIOUS
  <2>4. ASSUME i < k PROVE FALSE
    <3>1. i \in 1..(k - 1)
      BY <2>4
    <3> QED
      BY <1>1, <2>1, <2>2, <3>1
  <2>5. ASSUME k < i PROVE FALSE
    <3>1. k \in 1..(i - 1)
      BY <2>5
    <3> QED
      BY <1>1, <2>1, <2>2, <3>1
  <2>6. i # k
    BY <1>1, <2>1, <2>2
  <2> QED
    BY <2>3, <2>4, <2>5, <2>6
<1>3. ASSUME a = b PROVE ~KeyBefore(a, b)
  BY <1>2, <1>3
<1>4. ASSUME a # b PROVE KeyBefore(a, b) \/ KeyBefore(b, a)
  <2> DEFINE D == {i \in 1..8 : TieKey[a][i] # TieKey[b][i]}
  <2>1. D # {}
    BY <1>4, KeyDistinguishes
  <2>2. D \in SUBSET Nat
    OBVIOUS
  <2>3. Min(D) \in D /\ \A y \in D : Min(D) <= y
    BY <2>1, <2>2, LeastIn
  <2>4. ASSUME NEW j \in 1..(Min(D) - 1) PROVE TieKey[a][j] = TieKey[b][j]
    <3>1. Min(D) \in 1..8
      BY <2>3
    <3>2. j \in 1..8 /\ ~(Min(D) <= j)
      BY <3>1
    <3> QED
      BY <2>3, <3>2
  <2>5. PICK m \in 1..8 : m = Min(D) /\ TieKey[a][m] # TieKey[b][m]
    BY <2>3
  <2> HIDE DEF D
  <2>6. TieKey[a][m] < TieKey[b][m] \/ TieKey[b][m] < TieKey[a][m]
    BY <1>1, <2>5
  <2> QED
    BY <2>4, <2>5, <2>6 DEF KeyBefore
<1>5. ASSUME NEW c \in Resolvable, KeyBefore(a, b), KeyBefore(b, c) PROVE KeyBefore(a, c)
  <2>1. PICK i \in 1..8 : TieKey[a][i] < TieKey[b][i] /\ \A j \in 1..(i - 1) : TieKey[a][j] = TieKey[b][j]
    BY <1>5 DEF KeyBefore
  <2>2. PICK k \in 1..8 : TieKey[b][k] < TieKey[c][k] /\ \A j \in 1..(k - 1) : TieKey[b][j] = TieKey[c][j]
    BY <1>5 DEF KeyBefore
  <2>3. CASE i < k
    <3>1. i \in 1..(k - 1) /\ \A j \in 1..(i - 1) : j \in 1..(k - 1)
      BY <2>3
    <3>2. TieKey[a][i] < TieKey[c][i] /\ \A j \in 1..(i - 1) : TieKey[a][j] = TieKey[c][j]
      BY <1>1, <2>1, <2>2, <3>1
    <3> QED
      BY <3>2 DEF KeyBefore
  <2>4. CASE k < i
    <3>1. k \in 1..(i - 1) /\ \A j \in 1..(k - 1) : j \in 1..(i - 1)
      BY <2>4
    <3>2. TieKey[a][k] < TieKey[c][k] /\ \A j \in 1..(k - 1) : TieKey[a][j] = TieKey[c][j]
      BY <1>1, <2>1, <2>2, <3>1
    <3> QED
      BY <3>2 DEF KeyBefore
  <2>5. CASE i = k
    <3>1. TieKey[a][i] < TieKey[c][i] /\ \A j \in 1..(i - 1) : TieKey[a][j] = TieKey[c][j]
      BY <1>1, <2>1, <2>2, <2>5
    <3> QED
      BY <3>1 DEF KeyBefore
  <2> QED
    BY <2>3, <2>4, <2>5
<1> QED
  BY <1>2, <1>3, <1>4, <1>5

-----------------------------------------------------------------------------
(* The best offer of each URL *)

\* The loop over the offers, and what it holds after each of them.
IsLoop(best, offers, m) ==
  best = [k \in 0..m |-> IF k = 0 THEN [u \in Url |-> NothingBest] ELSE KeepBest(best[k - 1], offers[k])]

Loop(offers) == CHOOSE best : IsLoop(best, offers, Len(offers))

LEMMA LoopIsBest ==
  ASSUME NEW offers
  PROVE  BestByUrl(offers) = Loop(offers)[Len(offers)]
BY DEF BestByUrl, Loop, IsLoop

\* Such a loop exists: a shortest sequence without one is not empty, and one more
\* step goes on from the loop over its beginning.
LEMMA LoopExists ==
  ASSUME NEW offers, Len(offers) \in Nat
  PROVE  IsLoop(Loop(offers), offers, Len(offers))
<1> DEFINE without == {m \in Nat : ~ \E best : IsLoop(best, offers, m)}
<1>1. SUFFICES ASSUME without # {} PROVE FALSE
  <2>1. ASSUME without = {} PROVE \E best : IsLoop(best, offers, Len(offers))
    BY <2>1
  <2> QED
    BY <2>1 DEF Loop
<1>2. without \in SUBSET Nat
  OBVIOUS
<1>3. PICK m \in without : \A y \in without : m <= y
  BY <1>1, <1>2, LeastIn
<1>4. m \in Nat /\ ~ \E best : IsLoop(best, offers, m)
  BY <1>3
<1>5. CASE m = 0
  <2> DEFINE best == [k \in 0..0 |-> [u \in Url |-> NothingBest]]
  <2>1. IsLoop(best, offers, 0)
    BY DEF IsLoop
  <2> QED
    BY <1>4, <1>5, <2>1
<1>6. CASE m # 0
  <2>1. m - 1 \in Nat /\ ~(m <= m - 1)
    BY <1>4, <1>6
  <2>2. m - 1 \notin without
    BY <1>3, <2>1
  <2>3. PICK best : IsLoop(best, offers, m - 1)
    BY <2>1, <2>2
  <2> DEFINE longer == [k \in 0..m |-> IF k = m THEN KeepBest(best[m - 1], offers[m]) ELSE best[k]]
  <2>4. \A k \in 0..(m - 1) : /\ longer[k] = best[k]
                              /\ best[k] = IF k = 0 THEN [u \in Url |-> NothingBest] ELSE KeepBest(best[k - 1], offers[k])
    <3> TAKE k \in 0..(m - 1)
    <3>1. k \in 0..m /\ k # m
      BY <1>4
    <3>2. longer[k] = best[k]
      BY <3>1
    <3>3. best[k] = IF k = 0 THEN [u \in Url |-> NothingBest] ELSE KeepBest(best[k - 1], offers[k])
      BY <2>3, Zenon DEF IsLoop
    <3> QED
      BY <3>2, <3>3
  <2>5. ASSUME NEW k \in 0..m
        PROVE  longer[k] = IF k = 0 THEN [u \in Url |-> NothingBest] ELSE KeepBest(longer[k - 1], offers[k])
    <3>1. CASE k = m
      <4>1. m - 1 \in 0..(m - 1)
        BY <2>1
      <4>2. longer[m] = KeepBest(best[m - 1], offers[m]) /\ longer[m - 1] = best[m - 1]
        BY <2>1, <2>4, <4>1
      <4> QED
        BY <1>6, <3>1, <4>2
    <3>2. CASE k # m
      <4>1. k \in 0..(m - 1)
        BY <1>4, <3>2
      <4>2. k # 0 => k - 1 \in 0..(m - 1)
        BY <4>1
      <4> QED
        BY <2>4, <4>1, <4>2
    <3> QED
      BY <3>1, <3>2
  <2>6. longer = [k \in 0..m |-> longer[k]]
    OBVIOUS
  <2> HIDE DEF longer
  <2>7. IsLoop(longer, offers, m)
    BY <2>5, <2>6 DEF IsLoop
  <2> QED
    BY <1>4, <2>7
<1> QED
  BY <1>5, <1>6

\* o is before p: it has the higher score, or the smaller key of equal scores.
Preferable(o, p) ==
  CandidateScore[o] > CandidateScore[p] \/ (CandidateScore[o] = CandidateScore[p] /\ KeyBefore(o, p))

\* The positions of S that offer u.
Offering(offers, S, u) == {i \in S : offers[i].url = u}

Tied(offers, set, i) ==
  \E a, b \in set : /\ a # b
                    /\ CandidateScore[offers[a]] = CandidateScore[offers[i]]
                    /\ CandidateScore[offers[b]] = CandidateScore[offers[i]]

\* The item is the first one of the offers at these positions, and says whether
\* another offer has its score.
IsBest(item, offers, set) ==
  /\ set = {} => item = NothingBest
  /\ set # {} =>
       \E i \in set :
         /\ item = [offer |-> offers[i], tied |-> Tied(offers, set, i)]
         /\ \A k \in set : offers[k] = offers[i] \/ Preferable(offers[i], offers[k])

LEMMA PreferableOrders ==
  ASSUME NEW a \in Resolvable, NEW b \in Resolvable
  PROVE  /\ ~(Preferable(a, b) /\ Preferable(b, a))
         /\ a = b => ~Preferable(a, b)
         /\ a # b => Preferable(a, b) \/ Preferable(b, a)
         /\ \A c \in Resolvable : Preferable(a, b) /\ Preferable(b, c) => Preferable(a, c)
         /\ Preferable(a, b) => CandidateScore[a] >= CandidateScore[b]
<1>1. \A o \in Resolvable : CandidateScore[o] \in Nat
  BY ScoreSteps DEF Resolvable
<1> QED
  BY <1>1, KeyOrders DEF Preferable

LEMMA TiedIsBoolean ==
  ASSUME NEW offers, NEW set, NEW i
  PROVE  Tied(offers, set, i) \in BOOLEAN
BY DEF Tied

\* What the next offer makes of the best one so far.
NextBest(current, o) ==
  IF current = NothingBest \/ CandidateScore[o] > CandidateScore[current.offer]
  THEN [offer |-> o, tied |-> FALSE]
  ELSE IF CandidateScore[o] = CandidateScore[current.offer]
  THEN [offer |-> IF KeyBefore(o, current.offer) THEN o ELSE current.offer, tied |-> TRUE]
  ELSE current

LEMMA NextIsBest ==
  ASSUME NEW offers, NEW set, NEW k, k \notin set,
         \A i \in set \cup {k} : offers[i] \in Resolvable,
         NEW current, IsBest(current, offers, set)
  PROVE  IsBest(NextBest(current, offers[k]), offers, set \cup {k})
<1> DEFINE more == set \cup {k}
           o == offers[k]
<1>1. \A i \in more : offers[i] \in Resolvable /\ CandidateScore[offers[i]] \in Nat
  BY ScoreSteps DEF Resolvable
<1>2. more # {}
  OBVIOUS
<1>3. ASSUME NEW i \in more, NEW b \in BOOLEAN, Tied(offers, more, i) <=> b,
             NextBest(current, o) = [offer |-> offers[i], tied |-> b],
             \A j \in more : offers[j] = offers[i] \/ Preferable(offers[i], offers[j])
      PROVE  IsBest(NextBest(current, o), offers, more)
  <2>1. Tied(offers, more, i) = b
    BY <1>3, TiedIsBoolean
  <2>2. NextBest(current, o) = [offer |-> offers[i], tied |-> Tied(offers, more, i)]
    BY <1>3, <2>1
  <2> HIDE DEF more, o
  <2> QED
    BY <1>2, <1>3, <2>2 DEF IsBest
<1>4. CASE set = {}
  <2>1. current = NothingBest
    BY <1>4 DEF IsBest
  <2>2. NextBest(current, o) = [offer |-> offers[k], tied |-> FALSE]
    BY <2>1 DEF NextBest
  <2>3. Tied(offers, more, k) <=> FALSE
    BY <1>4 DEF Tied
  <2>4. \A j \in more : offers[j] = offers[k]
    BY <1>4
  <2> QED
    BY <1>3, <2>2, <2>3, <2>4
<1>5. CASE set # {}
  <2>1. PICK i \in set :
          /\ current = [offer |-> offers[i], tied |-> Tied(offers, set, i)]
          /\ \A j \in set : offers[j] = offers[i] \/ Preferable(offers[i], offers[j])
    BY <1>5 DEF IsBest
  <2>2. current # NothingBest /\ current.offer = offers[i]
    BY <2>1 DEF NothingBest
  <2>3. i \in more /\ k \in more /\ i # k /\ o \in Resolvable /\ offers[i] \in Resolvable
    BY <1>1
  <2>4. \A j \in set : CandidateScore[offers[j]] <= CandidateScore[offers[i]]
    BY <1>1, <2>1, <2>3, PreferableOrders
  <2>5. CASE CandidateScore[o] > CandidateScore[offers[i]]
    <3>1. NextBest(current, o) = [offer |-> offers[k], tied |-> FALSE]
      BY <2>2, <2>5 DEF NextBest
    <3>2. \A j \in set : CandidateScore[o] > CandidateScore[offers[j]]
      BY <1>1, <2>3, <2>4, <2>5
    <3>3. Tied(offers, more, k) <=> FALSE
      BY <1>1, <3>2 DEF Tied
    <3>4. \A j \in more : offers[j] = offers[k] \/ Preferable(offers[k], offers[j])
      BY <3>2 DEF Preferable
    <3> QED
      BY <1>3, <2>3, <3>1, <3>3, <3>4
  <2>6. CASE CandidateScore[o] = CandidateScore[offers[i]]
    <3>1. Tied(offers, more, i) /\ Tied(offers, more, k)
      BY <2>3, <2>6 DEF Tied
    <3>2. ~(CandidateScore[o] > CandidateScore[offers[i]])
      BY <1>1, <2>3, <2>6
    <3>3. CASE KeyBefore(o, offers[i])
      <4>1. NextBest(current, o) = [offer |-> offers[k], tied |-> TRUE]
        BY <2>2, <2>6, <3>2, <3>3 DEF NextBest
      <4>2. Preferable(o, offers[i])
        BY <2>6, <3>3 DEF Preferable
      <4>3. \A j \in more : offers[j] = offers[k] \/ Preferable(offers[k], offers[j])
        BY <1>1, <2>1, <2>3, <4>2, PreferableOrders
      <4> QED
        BY <1>3, <2>3, <3>1, <4>1, <4>3
    <3>4. CASE ~KeyBefore(o, offers[i])
      <4>1. NextBest(current, o) = [offer |-> offers[i], tied |-> TRUE]
        BY <2>2, <2>6, <3>2, <3>4 DEF NextBest
      <4>2. o = offers[i] \/ Preferable(offers[i], o)
        BY <2>3, <2>6, <3>4, KeyOrders DEF Preferable
      <4>3. \A j \in more : offers[j] = offers[i] \/ Preferable(offers[i], offers[j])
        BY <2>1, <4>2
      <4> QED
        BY <1>3, <2>3, <3>1, <4>1, <4>3
    <3> QED
      BY <3>3, <3>4
  <2>7. CASE CandidateScore[o] < CandidateScore[offers[i]]
    <3>1. /\ ~(CandidateScore[o] > CandidateScore[offers[i]])
          /\ CandidateScore[o] # CandidateScore[offers[i]]
      BY <1>1, <2>3, <2>7
    <3>2. NextBest(current, o) = [offer |-> offers[i], tied |-> Tied(offers, set, i)]
      BY <2>1, <2>2, <3>1 DEF NextBest
    <3>3. Tied(offers, more, i) <=> Tied(offers, set, i)
      BY <3>1 DEF Tied
    <3>4. Preferable(offers[i], o)
      BY <1>1, <2>3, <2>7 DEF Preferable
    <3>5. \A j \in more : offers[j] = offers[i] \/ Preferable(offers[i], offers[j])
      BY <2>1, <3>4
    <3> QED
      BY <1>3, <2>3, <3>2, <3>3, <3>5, TiedIsBoolean
  <2> QED
    BY <1>1, <2>3, <2>5, <2>6, <2>7
<1> QED
  BY <1>4, <1>5

LEMMA KeepBestIsNext ==
  ASSUME NEW best, NEW o, o.url \in Url, DOMAIN best = Url
  PROVE  /\ DOMAIN KeepBest(best, o) = Url
         /\ \A u \in Url : KeepBest(best, o)[u] = IF u = o.url THEN NextBest(best[u], o) ELSE best[u]
<1>1. KeepBest(best, o) = [best EXCEPT ![o.url] = NextBest(best[o.url], o)]
  BY DEF KeepBest, NextBest
<1> QED
  BY <1>1

\* After k offers the best of each URL is known.
LEMMA LoopFindsBest ==
  ASSUME NEW offers \in Seq(Resolvable)
  PROVE  \A u \in Url : IsBest(BestByUrl(offers)[u], offers, Offering(offers, 1..Len(offers), u))
<1> DEFINE n == Len(offers)
           best == Loop(offers)
           Good(k) == /\ DOMAIN best[k] = Url
                      /\ \A u \in Url : IsBest(best[k][u], offers, Offering(offers, 1..k, u))
           bad == {k \in 0..n : ~Good(k)}
<1>1. n \in Nat /\ \A i \in 1..n : offers[i] \in Resolvable /\ offers[i].url \in Url
  BY OfferFacts DEF Resolvable
<1>2. /\ best[0] = [u \in Url |-> NothingBest]
      /\ \A k \in 1..n : best[k] = KeepBest(best[k - 1], offers[k])
  <2>1. IsLoop(best, offers, n)
    BY <1>1, LoopExists
  <2>2. \A k \in 0..n : best[k] = IF k = 0 THEN [u \in Url |-> NothingBest] ELSE KeepBest(best[k - 1], offers[k])
    BY <2>1, Zenon DEF IsLoop
  <2> QED
    BY <1>1, <2>2
<1> HIDE DEF best
<1>3. Good(0)
  <2>1. \A u \in Url : Offering(offers, 1..0, u) = {}
    BY DEF Offering
  <2> QED
    BY <1>2, <2>1 DEF IsBest
<1>4. ASSUME NEW k \in 1..n, Good(k - 1) PROVE Good(k)
  <2>1. best[k] = KeepBest(best[k - 1], offers[k]) /\ offers[k].url \in Url
    BY <1>1, <1>2
  <2>2. /\ DOMAIN best[k] = Url
        /\ \A u \in Url : best[k][u] = IF u = offers[k].url THEN NextBest(best[k - 1][u], offers[k]) ELSE best[k - 1][u]
    BY <1>4, <2>1, KeepBestIsNext
  <2>3. ASSUME NEW u \in Url PROVE IsBest(best[k][u], offers, Offering(offers, 1..k, u))
    <3>1. IsBest(best[k - 1][u], offers, Offering(offers, 1..(k - 1), u))
      BY <1>4
    <3>2. CASE u # offers[k].url
      <4>1. Offering(offers, 1..k, u) = Offering(offers, 1..(k - 1), u)
        BY <1>1, <3>2 DEF Offering
      <4> QED
        BY <2>2, <3>1, <3>2, <4>1
    <3>3. CASE u = offers[k].url
      <4>1. /\ Offering(offers, 1..k, u) = Offering(offers, 1..(k - 1), u) \cup {k}
            /\ k \notin Offering(offers, 1..(k - 1), u)
        BY <1>1, <3>3 DEF Offering
      <4>2. \A i \in Offering(offers, 1..(k - 1), u) \cup {k} : offers[i] \in Resolvable
        BY <1>1 DEF Offering
      <4>3. IsBest(NextBest(best[k - 1][u], offers[k]), offers, Offering(offers, 1..(k - 1), u) \cup {k})
        BY <3>1, <4>1, <4>2, NextIsBest
      <4> QED
        BY <2>2, <3>3, <4>1, <4>3
    <3> QED
      BY <3>2, <3>3
  <2> QED
    BY <2>2, <2>3
<1>5. bad = {}
  <2> SUFFICES ASSUME bad # {} PROVE FALSE
    OBVIOUS
  <2>1. bad \in SUBSET Nat
    BY <1>1
  <2>2. PICK m \in bad : \A y \in bad : m <= y
    BY <2>1, LeastIn
  <2>3. m \in 0..n /\ ~Good(m)
    BY <2>2
  <2>4. m # 0
    BY <1>3, <2>3
  <2>5. m \in 1..n /\ m - 1 \in 0..n /\ ~(m <= m - 1)
    BY <1>1, <2>3, <2>4
  <2>6. m - 1 \notin bad
    BY <2>2, <2>5
  <2>7. Good(m - 1)
    BY <2>5, <2>6
  <2> QED
    BY <1>4, <2>3, <2>5, <2>7
<1>6. Good(n)
  BY <1>1, <1>5
<1>7. BestByUrl(offers) = best[n]
  BY LoopIsBest DEF best
<1> QED
  BY <1>6, <1>7

-----------------------------------------------------------------------------
(* The order of the items *)

\* Items to be sorted: their offers may be resolved, and tell them apart.
Sortable(items) ==
  /\ IsFiniteSet(items) /\ \A x \in items : x.offer \in Resolvable
  /\ \A x, y \in items : x.offer = y.offer => x = y

InOrder(order, items) ==
  /\ order \in [1..Cardinality(items) -> items]
  /\ items = {order[i] : i \in DOMAIN order}
  /\ \A i, j \in DOMAIN order : i < j => Ahead(order[i], order[j])

Before(items, x) == {y \in items : Ahead(y, x)}
Place(items, x) == Cardinality(Before(items, x)) + 1

LEMMA AheadOrders ==
  ASSUME NEW items, Sortable(items), NEW x \in items, NEW y \in items
  PROVE  /\ ~Ahead(x, x)
         /\ x # y => Ahead(x, y) \/ Ahead(y, x)
         /\ \A z \in items : Ahead(x, y) /\ Ahead(y, z) => Ahead(x, z)
<1>1. \A a, b \in items : Ahead(a, b) <=> Preferable(a.offer, b.offer)
  BY DEF Ahead, Score, Preferable
<1> QED
  BY <1>1, PreferableOrders DEF Sortable

LEMMA PlacesOrder ==
  ASSUME NEW items, Sortable(items)
  PROVE  /\ \A x \in items : Place(items, x) \in 1..Cardinality(items)
         /\ \A x, y \in items : Ahead(x, y) => Place(items, x) < Place(items, y)
<1>1. IsFiniteSet(items) /\ Cardinality(items) \in Nat
  BY FS_CardinalityType DEF Sortable
<1>2. ASSUME NEW x \in items
      PROVE  /\ Before(items, x) \in SUBSET items /\ x \notin Before(items, x)
             /\ IsFiniteSet(Before(items, x)) /\ Cardinality(Before(items, x)) \in Nat
             /\ Cardinality(Before(items, x)) < Cardinality(items)
  <2>1. Before(items, x) \in SUBSET items /\ x \notin Before(items, x)
    BY AheadOrders DEF Before
  <2>2. IsFiniteSet(Before(items, x)) /\ Cardinality(Before(items, x)) \in Nat
    BY <1>1, <2>1, FS_Subset, FS_CardinalityType
  <2>3. Cardinality(Before(items, x)) <= Cardinality(items) /\ Cardinality(Before(items, x)) # Cardinality(items)
    BY <1>1, <2>1, FS_Subset
  <2> QED
    BY <1>1, <2>1, <2>2, <2>3
<1>3. ASSUME NEW x \in items, NEW y \in items, Ahead(x, y)
      PROVE  Cardinality(Before(items, x)) < Cardinality(Before(items, y))
  <2>1. Before(items, x) \in SUBSET Before(items, y) /\ x \in Before(items, y) /\ x \notin Before(items, x)
    BY <1>2, <1>3, AheadOrders DEF Before
  <2>2. /\ Cardinality(Before(items, x)) <= Cardinality(Before(items, y))
        /\ Cardinality(Before(items, x)) # Cardinality(Before(items, y))
    BY <1>2, <2>1, FS_Subset
  <2> QED
    BY <1>2, <2>2
<1> QED
  BY <1>1, <1>2, <1>3 DEF Place

\* Finitely many items can be sorted.
LEMMA SortedIsInOrder ==
  ASSUME NEW items, Sortable(items)
  PROVE  InOrder(Sorted(items), items)
<1> DEFINE n == Cardinality(items)
           f == [x \in items |-> Place(items, x)]
           order == [i \in 1..n |-> CHOOSE x \in items : Place(items, x) = i]
<1>1. IsFiniteSet(items) /\ n \in Nat
  BY FS_CardinalityType DEF Sortable
<1>2. \A x, y \in items : Place(items, x) = Place(items, y) => x = y
  <2>1. \A x \in items : Place(items, x) \in Int
    BY <1>1, PlacesOrder
  <2> QED
    BY <2>1, PlacesOrder, AheadOrders
<1>3. f \in [items -> 1..n] /\ \A x, y \in items : f[x] = f[y] => x = y
  BY <1>2, PlacesOrder
<1>4. f \in Injection(items, 1..n)
  BY <1>3 DEF Injection, IsInjective
<1>5. IsFiniteSet(1..n) /\ Cardinality(1..n) = n
  <2> HIDE DEF n
  <2>1. 1 \in Int /\ n \in Int
    BY <1>1
  <2>2. IsFiniteSet(1..n) /\ Cardinality(1..n) = IF 1 > n THEN 0 ELSE n - 1 + 1
    BY <2>1, FS_Interval
  <2> QED
    BY <1>1, <2>2
<1>6. f \in Surjection(items, 1..n)
  BY <1>4, <1>5, FS_Injection DEF n
<1>7. \A i \in 1..n : \E x \in items : Place(items, x) = i
  BY <1>6 DEF Surjection
<1>8. \A i \in 1..n : order[i] \in items /\ Place(items, order[i]) = i
  BY <1>7
<1>9. order \in [1..n -> items]
  BY <1>8
<1>10. \A x \in items : Place(items, x) \in 1..n /\ order[Place(items, x)] = x
  BY <1>2, <1>8, PlacesOrder
<1> HIDE DEF order, n
<1>11. \A i, j \in 1..n : i < j => Ahead(order[i], order[j])
  <2> SUFFICES ASSUME NEW i \in 1..n, NEW j \in 1..n, i < j PROVE Ahead(order[i], order[j])
    OBVIOUS
  <2>1. order[i] \in items /\ order[j] \in items /\ order[i] # order[j]
    BY <1>8
  <2>2. ~Ahead(order[j], order[i])
    BY <1>8, <2>1, PlacesOrder
  <2> QED
    BY <2>1, <2>2, AheadOrders
<1>12. DOMAIN order = 1..n /\ items = {order[i] : i \in DOMAIN order}
  BY <1>8, <1>9, <1>10
<1>13. InOrder(order, items)
  BY <1>9, <1>11, <1>12 DEF InOrder, n
<1> QED
  BY <1>13 DEF Sorted, InOrder

-----------------------------------------------------------------------------
(* The resolution *)

BestItems(offers) ==
  {BestByUrl(offers)[u] : u \in {v \in Url : BestByUrl(offers)[v] # NothingBest}}

Ordered(order) ==
  [i \in DOMAIN order |->
     [offer |-> order[i].offer, tied |-> order[i].tied,
      broken |-> \E j \in DOMAIN order : j # i /\ Score(order[j]) = Score(order[i])]]

LEMMA ResolveOrders ==
  ASSUME NEW offers
  PROVE  Resolve(offers) = Ordered(Sorted(BestItems(offers)))
BY DEF Resolve, Ordered, BestItems

\* The best item of a URL has an offer for it that nothing there is preferable to.
LEMMA BestOf ==
  ASSUME NEW offers \in Seq(Resolvable), NEW u \in Url
  PROVE  /\ BestByUrl(offers)[u] # NothingBest =>
              /\ BestByUrl(offers)[u].offer \in Resolvable
              /\ BestByUrl(offers)[u].offer.url = u
         /\ \A k \in 1..Len(offers) : offers[k].url = u =>
              /\ BestByUrl(offers)[u] # NothingBest
              /\ CandidateScore[BestByUrl(offers)[u].offer] >= CandidateScore[offers[k]]
<1> DEFINE set == Offering(offers, 1..Len(offers), u)
           item == BestByUrl(offers)[u]
<1>1. IsBest(item, offers, set)
  BY LoopFindsBest
<1>2. \A i \in 1..Len(offers) : offers[i] \in Resolvable /\ CandidateScore[offers[i]] \in Nat
  BY ScoreSteps DEF Resolvable
<1>3. CASE set = {}
  BY <1>1, <1>3 DEF IsBest, Offering
<1>4. CASE set # {}
  <2>1. PICK i \in set :
          /\ item = [offer |-> offers[i], tied |-> Tied(offers, set, i)]
          /\ \A k \in set : offers[k] = offers[i] \/ Preferable(offers[i], offers[k])
    BY <1>1, <1>4 DEF IsBest
  <2>2. item # NothingBest /\ item.offer = offers[i]
    <3> HIDE DEF item, set
    <3> QED
      BY <2>1 DEF NothingBest
  <2>3. i \in 1..Len(offers) /\ offers[i].url = u
    BY DEF Offering
  <2>4. ASSUME NEW k \in 1..Len(offers), offers[k].url = u
        PROVE  CandidateScore[offers[i]] >= CandidateScore[offers[k]]
    <3>1. k \in set
      BY <2>4 DEF Offering
    <3> QED
      BY <1>2, <2>1, <2>3, <3>1, PreferableOrders
  <2> HIDE DEF item
  <2>5. item.offer \in Resolvable /\ item.offer.url = u
    BY <1>2, <2>2, <2>3
  <2> QED
    BY <2>2, <2>4, <2>5 DEF item
<1> QED
  BY <1>3, <1>4

LEMMA ItemsSortable ==
  ASSUME NEW offers \in Seq(Resolvable)
  PROVE  Sortable(BestItems(offers))
<1> DEFINE urls == {v \in Url : BestByUrl(offers)[v] # NothingBest}
           f == [u \in urls |-> BestByUrl(offers)[u]]
<1>1. f \in Surjection(urls, BestItems(offers))
  BY DEF Surjection, BestItems
<1>2. IsFiniteSet(urls)
  BY ResolverConstants, FS_Subset
<1>3. IsFiniteSet(BestItems(offers))
  BY <1>1, <1>2, FS_Surjection
<1>4. \A x \in BestItems(offers) : x.offer \in Resolvable
  BY BestOf DEF BestItems
<1>5. ASSUME NEW x \in BestItems(offers), NEW y \in BestItems(offers), x.offer = y.offer PROVE x = y
  <2>1. PICK u \in urls : x = BestByUrl(offers)[u]
    BY DEF BestItems
  <2>2. PICK v \in urls : y = BestByUrl(offers)[v]
    BY DEF BestItems
  <2>3. u = x.offer.url /\ v = y.offer.url
    BY <2>1, <2>2, BestOf
  <2> QED
    BY <1>5, <2>1, <2>2, <2>3
<1> QED
  BY <1>3, <1>4, <1>5 DEF Sortable

\* No item comes after one that its offer outranks, and no offer was dropped for a
\* worse one.
LEMMA OrderedByPrecedence ==
  ASSUME NEW offers \in Seq(Resolvable), NEW result, result = Resolve(offers)
  PROVE  /\ \A i, j \in DOMAIN result : i < j => ~Outranks(result[j].offer, result[i].offer)
         /\ \A k \in DOMAIN offers : \E i \in DOMAIN result :
              result[i].offer.url = offers[k].url /\ ~Outranks(offers[k], result[i].offer)
<1> DEFINE items == BestItems(offers)
           order == Sorted(items)
<1>1. InOrder(order, items) /\ Sortable(items)
  BY ItemsSortable, SortedIsInOrder
<1>2. /\ DOMAIN result = DOMAIN order /\ \A i \in DOMAIN order : result[i].offer = order[i].offer
      /\ \A i \in DOMAIN order : order[i] \in items /\ order[i].offer \in Resolvable
  <2>1. result = Ordered(order)
    BY ResolveOrders
  <2>2. \A i \in DOMAIN order : order[i] \in items /\ order[i].offer \in Resolvable
    BY <1>1 DEF InOrder, Sortable
  <2> HIDE DEF order
  <2> QED
    BY <2>1, <2>2 DEF Ordered
<1>3. \A o \in Resolvable : o \in Offer /\ CandidateScore[o] \in Nat
  BY ScoreSteps DEF Resolvable
<1>4. ASSUME NEW i \in DOMAIN order, NEW j \in DOMAIN order, i < j
      PROVE  ~Outranks(order[j].offer, order[i].offer)
  <2>1. Ahead(order[i], order[j])
    BY <1>1, <1>4 DEF InOrder
  <2>2. CandidateScore[order[i].offer] >= CandidateScore[order[j].offer]
    BY <1>2, <1>3, <2>1 DEF Ahead, Score
  <2> QED
    BY <1>2, <1>3, <2>2, ScoreOrders
<1>5. ASSUME NEW k \in DOMAIN offers
      PROVE  \E i \in DOMAIN order : order[i].offer.url = offers[k].url /\ ~Outranks(offers[k], order[i].offer)
  <2> DEFINE u == offers[k].url
             item == BestByUrl(offers)[u]
  <2>1. k \in 1..Len(offers) /\ offers[k] \in Resolvable /\ u \in Url
    BY OfferFacts DEF Resolvable
  <2>2. /\ item # NothingBest /\ item.offer \in Resolvable /\ item.offer.url = u
        /\ CandidateScore[item.offer] >= CandidateScore[offers[k]]
    BY <2>1, BestOf
  <2>3. item \in items
    BY <2>1, <2>2 DEF BestItems
  <2>4. PICK i \in DOMAIN order : order[i] = item
    BY <1>1, <2>3 DEF InOrder
  <2>5. ~Outranks(offers[k], item.offer)
    BY <1>3, <2>1, <2>2, ScoreOrders
  <2> HIDE DEF item
  <2> QED
    BY <2>2, <2>4, <2>5
<1> HIDE DEF order
<1> QED
  BY <1>2, <1>4, <1>5

\* The best of the same offers at other positions is the same.
LEMMA BestOfSame ==
  ASSUME NEW A, NEW B, NEW S, NEW T, NEW p, NEW x, NEW y,
         \A i \in S : p[i] \in T /\ B[p[i]] = A[i] /\ p[p[i]] = i,
         \A i \in T : p[i] \in S /\ A[p[i]] = B[i] /\ p[p[i]] = i,
         \A i \in S : A[i] \in Resolvable,
         IsBest(x, A, S), IsBest(y, B, T)
  PROVE  x = y
<1>1. CASE S = {}
  <2>1. T = {}
    BY <1>1
  <2> QED
    BY <1>1, <2>1 DEF IsBest
<1>2. CASE S # {}
  <2>1. PICK i \in S : /\ x = [offer |-> A[i], tied |-> Tied(A, S, i)]
                       /\ \A k \in S : A[k] = A[i] \/ Preferable(A[i], A[k])
    BY <1>2 DEF IsBest
  <2>2. T # {}
    BY <1>2
  <2>3. PICK j \in T : /\ y = [offer |-> B[j], tied |-> Tied(B, T, j)]
                       /\ \A k \in T : B[k] = B[j] \/ Preferable(B[j], B[k])
    BY <2>2 DEF IsBest
  <2>4. A[i] = B[j]
    <3>1. A[i] \in Resolvable /\ B[j] \in Resolvable /\ p[j] \in S /\ p[i] \in T
      OBVIOUS
    <3>2. B[j] = A[i] \/ Preferable(A[i], B[j])
      BY <2>1, <3>1
    <3>3. A[i] = B[j] \/ Preferable(B[j], A[i])
      BY <2>3, <3>1
    <3> QED
      BY <3>1, <3>2, <3>3, PreferableOrders
  <2>5. ASSUME Tied(A, S, i) PROVE Tied(B, T, j)
    <3>1. PICK a, b \in S : a # b /\ CandidateScore[A[a]] = CandidateScore[A[i]] /\ CandidateScore[A[b]] = CandidateScore[A[i]]
      BY <2>5 DEF Tied
    <3>2. p[a] \in T /\ p[b] \in T /\ p[a] # p[b] /\ B[p[a]] = A[a] /\ B[p[b]] = A[b]
      BY <3>1
    <3> QED
      BY <2>4, <3>1, <3>2 DEF Tied
  <2>6. ASSUME Tied(B, T, j) PROVE Tied(A, S, i)
    <3>1. PICK a, b \in T : a # b /\ CandidateScore[B[a]] = CandidateScore[B[j]] /\ CandidateScore[B[b]] = CandidateScore[B[j]]
      BY <2>6 DEF Tied
    <3>2. p[a] \in S /\ p[b] \in S /\ p[a] # p[b] /\ A[p[a]] = B[a] /\ A[p[b]] = B[b]
      BY <3>1
    <3> QED
      BY <2>4, <3>1, <3>2 DEF Tied
  <2>7. Tied(A, S, i) = Tied(B, T, j)
    BY <2>5, <2>6, TiedIsBoolean
  <2> QED
    BY <2>1, <2>3, <2>4, <2>7
<1> QED
  BY <1>1, <1>2

\* Two neighbours may change places.
LEMMA NeighboursCommute ==
  ASSUME NEW offers \in Seq(Resolvable), NEW i \in 2..Len(offers)
  PROVE  Resolve([offers EXCEPT ![i - 1] = offers[i], ![i] = offers[i - 1]]) = Resolve(offers)
<1> DEFINE n == Len(offers)
           other == [offers EXCEPT ![i - 1] = offers[i], ![i] = offers[i - 1]]
           p == [k \in 1..n |-> IF k = i THEN i - 1 ELSE IF k = i - 1 THEN i ELSE k]
<1>1. n \in Nat /\ i \in 1..n /\ i - 1 \in 1..n /\ i # i - 1 /\ DOMAIN offers = 1..n
      /\ \A k \in 1..n : offers[k] \in Resolvable
  OBVIOUS
<1>2. /\ DOMAIN other = 1..n
      /\ \A k \in 1..n : other[k] = IF k = i THEN offers[i - 1] ELSE IF k = i - 1 THEN offers[i] ELSE offers[k]
  BY <1>1
<1>3. \A k \in 1..n : p[k] \in 1..n /\ p[p[k]] = k /\ other[p[k]] = offers[k] /\ offers[p[k]] = other[k]
  BY <1>1, <1>2
<1> HIDE DEF p
<1>4. other \in Seq(Resolvable) /\ Len(other) = n
  <2>1. \A k \in 1..n : other[k] \in Resolvable
    BY <1>1, <1>2
  <2>2. other \in [1..n -> Resolvable]
    <3>1. other = [k \in 1..n |-> other[k]]
      BY <1>2
    <3> HIDE DEF other
    <3> QED
      BY <2>1, <3>1
  <2> HIDE DEF other
  <2> QED
    BY <1>1, <2>2
<1> HIDE DEF other
<1>5. ASSUME NEW u \in Url PROVE BestByUrl(other)[u] = BestByUrl(offers)[u]
  <2> DEFINE S == Offering(offers, 1..n, u)
             T == Offering(other, 1..n, u)
  <2>1. IsBest(BestByUrl(offers)[u], offers, S) /\ IsBest(BestByUrl(other)[u], other, T)
    BY <1>4, LoopFindsBest
  <2>2. \A k \in S : p[k] \in T /\ other[p[k]] = offers[k] /\ p[p[k]] = k
    BY <1>3 DEF Offering
  <2>3. \A k \in T : p[k] \in S /\ offers[p[k]] = other[k] /\ p[p[k]] = k
    BY <1>3 DEF Offering
  <2>4. \A k \in S : offers[k] \in Resolvable
    BY <1>1 DEF Offering
  <2> HIDE DEF S, T
  <2> QED
    BY <2>1, <2>2, <2>3, <2>4, BestOfSame
<1>6. BestItems(other) = BestItems(offers)
  BY <1>5 DEF BestItems
<1>7. Resolve(other) = Resolve(offers)
  BY <1>6, ResolveOrders
<1> QED
  BY <1>7 DEF other

ResolverInv == ranked \in Seq(Resolvable)

LEMMA ResolvedSoundly == ResolverInv => ResolutionSound
<1> SUFFICES ASSUME ResolverInv PROVE ResolutionSound
  OBVIOUS
<1>1. ranked \in Seq(Resolvable)
  BY DEF ResolverInv
<1>2. PrecedenceKept
  BY <1>1, OrderedByPrecedence DEF PrecedenceKept
<1>3. ResolutionOrderIndependent
  BY <1>1, NeighboursCommute DEF ResolutionOrderIndependent
<1> QED
  BY <1>2, <1>3 DEF ResolutionSound

\* Of whatever providers offer, in whatever order and however they fail, confidence,
\* identity, language, source, title and year decide in this order, for any preference of
\* languages; the best offer of each URL stays; and which provider answers first
\* does not matter (RulebookResolver!ResolutionSound).
THEOREM ResolutionIsSound == ResolverSpec => []ResolutionSound
<1>1. ResolverInit => ResolverInv
  BY DEF ResolverInit, ResolverInv
<1>2. ResolverInv /\ [ResolverNext]_resolverVars => ResolverInv'
  <2> SUFFICES ASSUME ResolverInv, [ResolverNext]_resolverVars PROVE ResolverInv'
    OBVIOUS
  <2>1. CASE Discover
    <3>1. PICK o \in Offer :
            ranked' = IF o.kind = "rulebook" /\ o.identity # "other" THEN Append(ranked, o) ELSE ranked
      BY <2>1 DEF Discover
    <3>2. o.kind = "rulebook" /\ o.identity # "other" => o \in Resolvable
      BY DEF Resolvable
    <3> QED
      BY <3>1, <3>2 DEF ResolverInv
  <2>2. CASE ProviderEnds \/ ProviderFails \/ UNCHANGED resolverVars
    BY <2>2 DEF ProviderEnds, ProviderFails, resolverVars, ResolverInv
  <2> QED
    BY <2>1, <2>2 DEF ResolverNext
<1> QED
  BY <1>1, <1>2, ResolvedSoundly, PTL DEF ResolverSpec

=============================================================================
