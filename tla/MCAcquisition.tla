----------------------------- MODULE MCAcquisition -----------------------------
(***************************************************************************)
(* Small instances of the parts that find and fetch rulebooks: the schedule*)
(* of discovery, the requests to the sites of publishers, the adapters that*)
(* read them, the resolver and the guarded download.  They interact through*)
(* calls that return values, which each part enumerates, so a behaviour of *)
(* the run is a behaviour of one of them, chosen by "part".                *)
(***************************************************************************)
EXTENDS RulebookDiscovery, ProviderRequests, ProviderAdapters, RulebookResolver, RulebookFetch, TLC

CONSTANTS w1, u1, c1, c2, f1, f2

VARIABLE part
acquisitionVars == <<discoveryVars, requestVars, adapterVars, resolverVars, fetchVars, part>>

Candidates == {[lang |-> "it", official |-> TRUE], [lang |-> "en", official |-> FALSE]}

EntryPage == [host |-> "a", product |-> FALSE, listed |-> FALSE]
SitePages == {EntryPage, [host |-> "a", product |-> TRUE, listed |-> TRUE],
              [host |-> "b", product |-> TRUE, listed |-> FALSE]}
Entries == <<EntryPage>>

Italian == [primary |-> 2, region |-> 0]
SwissItalian == [primary |-> 2, region |-> 1]
English == [primary |-> 1, region |-> 0]
German == [primary |-> 3, region |-> 0]
French == [primary |-> 0, region |-> 0]
Preferences == <<Italian, English, SwissItalian>>
UsefulOffers ==
  {o \in [url : {1, 2}, kind : {"rulebook"}, identity : {"exact", "unknown"}, confidence : 0..1,
           lang : {Italian, SwissItalian, English, German, French}, source : 0..1, title : BOOLEAN, year : {FALSE}] :
     o.lang \in {German, French} => ~o.title}
UselessOffers ==
  [url : {1}, kind : {"rulebook", "faq"}, identity : {"other"}, confidence : {1},
   lang : {Italian}, source : {1}, title : {TRUE}, year : {TRUE}]
AllOffers == UsefulOffers \cup UselessOffers

Addresses == {[host |-> "a", scheme |-> "https", name |-> TRUE], [host |-> "b", scheme |-> "http", name |-> FALSE],
              [host |-> "c", scheme |-> "https", name |-> TRUE]}
Bodies == {[id |-> 1, size |-> 1, pdf |-> TRUE], [id |-> 2, size |-> 3, pdf |-> FALSE]}

-----------------------------------------------------------------------------
AcquisitionInit ==
  /\ part \in {"discovery", "requests", "adapters", "resolver", "fetch"}
  /\ DiscoveryInit /\ RequestsInit /\ AdapterInit /\ ResolverInit /\ FetchInit
  /\ IF part = "discovery" THEN catalog # {2} ELSE catalog = Game
  /\ IF part = "adapters" THEN known.title \in {"own", "original"}
     ELSE known.title = "own" /\ known.published /\ known.edition /\ known.expansion

\* Bounds of the instance: forced runs with one game, deaths with two, of which
\* the second has no candidates; the crawls begin before the first grant, one
\* of them only competes for the gate; long sequences of offers differ in
\* language, source and URL, and providers fail or end before them; one of the
\* fetches is for one PDF and sent once.
DiscoverySmall ==
  /\ Cardinality(catalog) = 1 => escapes' = 0
  /\ Cardinality(catalog) > 1 =>
       \A w \in Someone : LET s == search'[w] IN
         /\ w \in Forcer => s = Free
         /\ s.step \in {"official", "fallback", "submit"} /\ Head(s.games) = 2 => s.found = {}
RequestsSmall ==
  /\ \A c \in Crawl : crawl[c].stage = "none" /\ crawl'[c].stage # "none" => \A h \in SiteHost : grants[h] = <<>>
  /\ crawl'[c2].stage # "none" => crawl'[c2].sent = 0
ResolverSmall ==
  /\ asking' # asking => Len(ranked) < 2
  /\ Len(ranked') > 2 => \A i \in DOMAIN ranked' : ~ranked'[i].title /\ ranked'[i].identity = "unknown" /\ ranked'[i].confidence = 0
FetchSmall ==
  /\ fetching'[f2].phase \in {"resolve", "request"} =>
       fetching'[f2].requests = 0 /\ fetching'[f2].untried < 2 /\ fetching'[f2].url.host = "a"
  /\ fetching'[f2].phase = "read" => fetching'[f2].body.pdf /\ fetching'[f2].declared = 0

AsDiscovery(action) ==
  /\ part = "discovery" /\ action /\ DiscoverySmall
  /\ UNCHANGED <<requestVars, adapterVars, resolverVars, fetchVars, part>>

AsFetch(action) ==
  /\ part = "fetch" /\ action /\ FetchSmall
  /\ UNCHANGED <<discoveryVars, requestVars, adapterVars, resolverVars, part>>

AcquisitionNext ==
  \/ AsDiscovery(DiscoveryNext)
  \/ AsFetch(FetchNext)
  \/ /\ part = "requests" /\ RequestsNext /\ RequestsSmall
     /\ UNCHANGED <<discoveryVars, adapterVars, resolverVars, fetchVars, part>>
  \/ /\ part = "adapters" /\ AdapterNext
     /\ UNCHANGED <<discoveryVars, requestVars, resolverVars, fetchVars, part>>
  \/ /\ part = "resolver" /\ ResolverNext /\ ResolverSmall
     /\ UNCHANGED <<discoveryVars, requestVars, adapterVars, fetchVars, part>>

\* DiscoveryFairness and FetchFairness, of the part that runs.
AcquisitionFairness ==
  /\ WF_acquisitionVars(AsDiscovery(SynchronizeCatalog))
  /\ \A w \in Searcher : WF_acquisitionVars(AsDiscovery(SelectDueGames(w)))
  /\ \A w \in Someone : WF_acquisitionVars(AsDiscovery(RunGame(w)))
  /\ WF_acquisitionVars(AsDiscovery(TickSearch))
  /\ \A f \in Fetch : WF_acquisitionVars(AsFetch(FetchStep(f))) /\ WF_acquisitionVars(AsFetch(DeadlinePasses(f)))

AcquisitionSpec == AcquisitionInit /\ [][AcquisitionNext]_acquisitionVars /\ AcquisitionFairness

-----------------------------------------------------------------------------
(* Every game is searched in the end and every fetch ends.                 *)
AcquisitionEnds == <>[](part = "discovery" => Searched) /\ FetchEnds

=============================================================================
