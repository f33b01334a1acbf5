------------------------------- MODULE MCLibrary -------------------------------
(***************************************************************************)
(* Small instances of the components that keep the user's library and tell *)
(* the user what is new about it.  They share no state that one of them    *)
(* guards on, so a behaviour of the run is a behaviour of one of them,     *)
(* chosen by "part" in the first state.                                    *)
(***************************************************************************)
EXTENDS PlayProgress, LibraryCollection, CollectionSync, SavedLists,
        NoticeProducers, GamePages, TLC

CONSTANTS e1, p1, p2, g1, g2, n1, n2, s1, s2, s3, c1, c2, l1, h1, h2, u1, k1, t1, t2,
          f1, f2, w1, r1, b1, x1, x2, x3, y1, y2, y3, y4, y5, q1, o1, o2

VARIABLE part
libraryVars == <<progressVars, collectionVars, syncVars, listVars, feedVars, expansionVars,
                 listingVars, videoVars, titleVars, part>>

GameOfItem == n1 :> g1 @@ n2 :> g1

Videos ==
  {[id |-> 1, official |-> TRUE, views |-> 1, relevance |-> 1, languages |-> {"it"}],
   [id |-> 2, official |-> FALSE, views |-> 1, relevance |-> 2, languages |-> {"it", "en"}],
   [id |-> 3, official |-> FALSE, views |-> 2, relevance |-> 1, languages |-> {"en"}]}

\* Every part but the chosen one begins, and stays, in one state.
LibraryInit ==
  /\ part \in {"progress", "collection", "sync", "lists", "campaigns", "expansions", "listing",
               "videos", "titles"}
  /\ part # "collection" => entries = <<>>
  /\ part # "campaigns" => configured = FALSE /\ watch = {} /\ target = [c \in Campaign |-> "none"]
  /\ part # "expansions" => inCollection = {}
  /\ part # "videos" => keyed = FALSE /\ offered = [g \in TutorialGame |-> {}]
  /\ part # "titles" => /\ editions = [g \in TitledGame |-> [t \in EditionTitle |-> 0]]
                        /\ italian = [g \in TitledGame |-> Unchecked]
  /\ ProgressInit /\ CollectionInit /\ SyncInit /\ ListInit
  /\ FeedInit /\ ExpansionInit /\ ListingInit /\ VideoInit /\ TitleInit
  /\ inCollection \subseteq {b1, x1}
  /\ offered[1] \in {{}, Videos} /\ offered[2] = {} /\ editions[1] = [t \in EditionTitle |-> 0]

\* Bounds of the campaigns: interest only grows, one campaign is wished for and
\* marked as read, once, no campaign ends, and while the page is scanned
\* the token stays; after a fault only the worker scans.
CampaignBounds ==
  /\ \A c \in Campaign : target[c] # "none" => (target')[c] \in {target[c], "wished"}
  /\ notice[f1] = "read" => (notice')[f1] = "read"
  /\ (notice')[f2] # "read" /\ (target')[f2] # "wished" /\ held \subseteq held'
  /\ configured' # configured => feedScan[r1] = Waiting /\ (configured => feedScan[w1] = Waiting)
  /\ feedScan[r1] = Waiting /\ feedFaults # 0 => (feedScan')[r1] = Waiting

\* One of the expansions is bought or marked as read, once.
ExpansionBounds ==
  /\ inCollection' \subseteq {b1, x1}
  /\ \A g \in BaseGame, x \in Expansion : (announced')[g][x] = "read" => x = x1
  /\ \A g \in BaseGame : announced[g][x1] = "read" => (announced')[g][x1] = "read"

\* The page asks for one game and not after a fault, and what YouTube finds
\* changes between searches.
VideoBounds ==
  /\ \A t \in VideoPoster :
       /\ (finding')[t].game # 2
       /\ finding[t] = Resting /\ videoFaults # 0 => (finding')[t] = Resting
  /\ offered' # offered => \A t \in Finder : finding[t].pc \notin {"it", "en"}

\* BGG lists no new editions of one game, nor other names of it.
TitleBounds ==
  /\ editions'[1] = editions[1]
  /\ 1 \in DOMAIN alternates' => alternates'[1] = {}

LibraryNext ==
  /\ part' = part
  /\ \/ /\ part = "progress" /\ ProgressNext
        /\ UNCHANGED <<collectionVars, syncVars, listVars, feedVars, expansionVars, listingVars, videoVars, titleVars>>
     \/ /\ part = "collection" /\ CollectionNext
        /\ UNCHANGED <<progressVars, syncVars, listVars, feedVars, expansionVars, listingVars, videoVars, titleVars>>
     \/ /\ part = "sync" /\ SyncNext
        /\ UNCHANGED <<progressVars, collectionVars, listVars, feedVars, expansionVars, listingVars, videoVars, titleVars>>
     \/ /\ part = "lists" /\ ListNext
        /\ UNCHANGED <<progressVars, collectionVars, syncVars, feedVars, expansionVars, listingVars, videoVars, titleVars>>
     \/ /\ part = "campaigns" /\ FeedNext /\ CampaignBounds
        /\ UNCHANGED <<progressVars, collectionVars, syncVars, listVars, expansionVars, listingVars, videoVars, titleVars>>
     \/ /\ part = "expansions" /\ ExpansionNext /\ ExpansionBounds
        /\ UNCHANGED <<progressVars, collectionVars, syncVars, listVars, feedVars, listingVars, videoVars, titleVars>>
     \/ /\ part = "listing" /\ ListingNext
        /\ UNCHANGED <<progressVars, collectionVars, syncVars, listVars, feedVars, expansionVars, videoVars, titleVars>>
     \/ /\ part = "videos" /\ VideoNext /\ VideoBounds
        /\ UNCHANGED <<progressVars, collectionVars, syncVars, listVars, feedVars, expansionVars, listingVars, titleVars>>
     \/ /\ part = "titles" /\ TitleNext /\ TitleBounds
        /\ UNCHANGED <<progressVars, collectionVars, syncVars, listVars, feedVars, expansionVars, listingVars, videoVars>>

LibrarySpec == LibraryInit /\ [][LibraryNext]_libraryVars

(* The rows, requests, scans and locks of the part that runs keep their    *)
(* types; the others stay in their first state.                            *)
LibraryTypeOK ==
  CASE part = "progress" -> ProgressTypeOK
    [] part = "collection" -> CollectionTypeOK
    [] part = "sync" -> SyncTypeOK
    [] part = "lists" -> ListTypeOK
    [] part = "campaigns" -> FeedTypeOK
    [] part = "expansions" -> ExpansionTypeOK
    [] part = "videos" -> VideoTypeOK
    [] part = "titles" -> TitleTypeOK
    [] OTHER -> TRUE

LibrarySymmetry == Permutations(Caller) \cup Permutations({s1, s2})

=============================================================================
