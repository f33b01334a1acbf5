---------------------------- MODULE ProviderAdapters ----------------------------
(***************************************************************************)
(* What the rulebook providers conclude from a page: which file it offers, *)
(* with which confidence, and whether the BGG identity of the query may be *)
(* attached to it.  The review policy approves an official candidate of    *)
(* confidence 95 or more with that identity without asking a user, so the  *)
(* adapters decide what is downloaded unattended.  Pages are abstracted to *)
(* the evidence that the adapters look for.                                *)
(***************************************************************************)
EXTENDS Integers, FiniteSets

CONSTANTS PageTitle,      \* what _match_text leaves of titles and headings
          BggTitle,       \* those that BGG lists for the game
          OriginalTitle,  \* the one of them that is its original title
          MaxOffered      \* bound on the candidates in the queue

ASSUME AdapterConstants == BggTitle \subseteq PageTitle /\ OriginalTitle \in BggTitle

VARIABLES known, offered
adapterVars == <<known, offered>>

\* What _query knows: whether the metadata of this BGG id was fetched, whether
\* it names the publisher, whether the collection's CSV does, the title in the
\* collection, perhaps the user's own, and whether it is an expansion.
Known == [fetched : BOOLEAN, published : BOOLEAN, edition : BOOLEAN, title : PageTitle, expansion : BOOLEAN]

Verified == known.fetched
VerifiedPublisher == known.fetched /\ known.published
AnyPublisher == VerifiedPublisher \/ known.edition
VerifiedTitles == IF known.fetched THEN BggTitle ELSE {}
QueryTitles == {known.title} \cup (IF known.fetched THEN {OriginalTitle} ELSE {})
TitleMatches(t) == t \in QueryTitles
VerifiedTitleMatches(t) == t \in VerifiedTitles

\* linked: whether the page links to this game on BGG, alone or with others; place: how it was
\* found; rules: its link is labelled as rules; says: the label names Italian.
Page == [title : PageTitle, linked : {"none", "this", "several"},
         place : {"product", "index", "search"},
         rules : BOOLEAN, lang : {"it", "en", "other"}, says : BOOLEAN]

Offered(provider, official, confidence, identified, lang) ==
  [provider |-> provider, official |-> official, confidence |-> confidence,
   identified |-> identified, lang |-> lang]

OnlyIf(condition, candidate) == IF condition THEN {candidate} ELSE {}

AdapterInit == known \in {k \in Known : ~k.fetched} /\ offered = {}

-----------------------------------------------------------------------------
(* The adapters *)

\* Mutant: the title of the collection is as good as one of BGG.
SiteIdentityByTitle(page) ==
  LET exact == TitleMatches(page.title) \/ VerifiedTitleMatches(page.title)
      strong == exact /\ (page.linked = "this" \/ VerifiedPublisher)
  IN IF ~(exact \/ page.linked = "this") THEN 0 ELSE IF strong THEN 100 ELSE 90

\* The generic search of a publisher's own site.  It follows product links; an
\* Italian page whose link names no language is a guess.
SiteIdentity(page) ==
  LET exact == TitleMatches(page.title) \/ VerifiedTitleMatches(page.title)
      strong == Verified /\ VerifiedTitleMatches(page.title)
                  /\ (page.linked = "this" \/ VerifiedPublisher)
  IN IF ~(exact \/ page.linked = "this") THEN 0 ELSE IF strong THEN 100 ELSE 90

PublisherSite(page) ==
  LET identity == IF page.place = "index" THEN SiteIdentity([page EXCEPT !.linked = "none"])
                  ELSE SiteIdentity(page)
      guessed == page.lang = "it" /\ ~page.says
      strong == identity = 100 /\ page.place # "search" /\ ~guessed
  IN OnlyIf(AnyPublisher /\ page.rules /\ identity > 0 /\ page.lang # "other",
            Offered("site", TRUE, IF strong THEN 100 ELSE 90, strong, page.lang))

\* An expansion may be a page below its game's, headed by the end of its title.
ReposProduction(page, title) ==
  OnlyIf(/\ AnyPublisher /\ page.rules /\ page.lang # "other"
         /\ title = page.title \/ known.expansion,
         Offered("repos", TRUE, 100, VerifiedPublisher /\ VerifiedTitleMatches(title), page.lang))

\* The localizer need not be among the publishers that BGG lists.
AsmodeeItalia(page) ==
  LET identified == Verified /\ VerifiedTitleMatches(page.title)
  IN OnlyIf(TitleMatches(page.title) /\ page.rules,
            Offered("asmodee", TRUE, IF identified THEN 100 ELSE 94, identified, "it"))

PendragonItalia(page) ==
  OnlyIf(VerifiedPublisher /\ page.place = "index" /\ VerifiedTitleMatches(page.title),
         Offered("pendragon", TRUE, 100, TRUE, "it"))

\* The product page links to this game on BGG, perhaps to others too.
MsEdizioni(page) ==
  OnlyIf(VerifiedPublisher /\ page.linked \in {"this", "several"} /\ page.rules,
         Offered("ms", TRUE, 100, TRUE, "it"))

\* The catalog names games and files: a base game needs one shortest title, an
\* expansion the words of its title or their initials, which only suggest it.
AwakenRealms(page, match) ==
  OnlyIf(/\ VerifiedPublisher /\ page.rules /\ page.lang # "other"
         /\ IF match = "base" THEN TitleMatches(page.title) \/ VerifiedTitleMatches(page.title) ELSE known.expansion,
         Offered("awaken", TRUE, IF match = "initials" THEN 90 ELSE 100, match # "initials", page.lang))

\* Documents that are known for certain expansions of one publisher: their BGG
\* ids are listed, or the page's label has the words of the expansion.
CuratedExpansion(provider, page) ==
  OnlyIf(VerifiedPublisher /\ known.expansion /\ (provider = "monolith" => page.lang # "other"),
         Offered(provider, TRUE, 100, TRUE, IF provider = "monolith" THEN page.lang ELSE "en"))

\* Communities and search engines are never official, and the title is all that
\* they are asked for.
RuleBookOrg(page) == OnlyIf(TitleMatches(page.title), Offered("rulebook_org", FALSE, 70, FALSE, page.lang))

DeepSeekRulebooks(page, hint) ==
  OnlyIf(TitleMatches(page.title), Offered("deepseek", FALSE, IF hint = "words" THEN 70 ELSE 40, FALSE, page.lang))

GeminiBggFiles(page) == {Offered("gemini", FALSE, 70, TRUE, page.lang)}

\* A page says more than its traits: that it names the words of an expansion or
\* their initials, or that it lies below the page of the game.
ReposOffers(page, hint) ==
  UNION {ReposProduction(page, t) : t \in {q \in QueryTitles : hint = "nested" \/ q = page.title}}

CuratedOffers(page, hint) ==
  UNION {CuratedExpansion(p, page) : p \in IF hint = "words" THEN {"ffg", "dragori", "monolith", "poulp"} ELSE {}}

Offers(page, hint) ==
  PublisherSite(page) \cup AsmodeeItalia(page) \cup PendragonItalia(page) \cup MsEdizioni(page)
    \cup ReposOffers(page, hint) \cup CuratedOffers(page, hint)
    \cup AwakenRealms(page, IF hint \in {"initials", "words"} THEN hint ELSE "base")
    \cup RuleBookOrg(page) \cup DeepSeekRulebooks(page, hint) \cup GeminiBggFiles(page)

-----------------------------------------------------------------------------
(* Submission *)

Hint == {"none", "nested", "initials", "words"}

\* evaluate_candidate
Unattended(c) == c.official /\ c.confidence >= 95 /\ c.identified /\ c.lang \in {"it", "en"}

\* One item for one provider, URL, language, type and identity; it keeps its
\* first snapshot, with what was known then.
SubmitOffer ==
  /\ Cardinality(offered) < MaxOffered
  /\ \E page \in Page, hint \in Hint : \E c \in Offers(page, hint) :
       /\ ~\E i \in offered : i.candidate.provider = c.provider /\ i.candidate.lang = c.lang
                                /\ i.candidate.identified = c.identified /\ i.page.title = page.title
       /\ offered' = offered \cup
            {[candidate |-> c, page |-> page, known |-> known,
              status |-> IF Unattended(c) THEN "approved" ELSE "pending"]}
  /\ UNCHANGED known

\* The metadata store has fetched the game from BGG.
FetchIdentity ==
  /\ ~known.fetched /\ known' = [known EXCEPT !.fetched = TRUE]
  /\ UNCHANGED offered

AdapterNext == FetchIdentity \/ SubmitOffer

AdapterSpec == AdapterInit /\ [][AdapterNext]_adapterVars

-----------------------------------------------------------------------------
(* Properties *)

(* Nothing is downloaded unattended for a title alone: the metadata of this*)
(* very BGG id was fetched when the item was approved, and BGG itself names*)
(* the publisher or the title -- the CSV of the collection, a page that    *)
(* links to several games or a result of a search certifies nothing.       *)
UnattendedHasEvidence ==
  \A i \in offered : i.status = "approved" =>
    /\ i.known.fetched
    /\ i.known.published \/ i.page.title \in BggTitle
    /\ i.page.place = "search" => i.candidate.provider # "site"

=============================================================================
