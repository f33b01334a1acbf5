------------------------------ MODULE GamePages ------------------------------
(***************************************************************************)
(* What the page of a game shows beside the catalog: the important         *)
(* expansions (ExpansionList), the tutorial videos (TutorialVideos) and    *)
(* the Italian title (ItalianTitles).  Each has its worker or its request  *)
(* and its tables; their steps interleave.                                 *)
(***************************************************************************)
EXTENDS ExpansionList, TutorialVideos, ItalianTitles

PagesInit == ListingInit /\ VideoInit /\ TitleInit

PagesNext ==
  \/ ListingNext /\ UNCHANGED <<videoVars, titleVars>>
  \/ VideoNext /\ UNCHANGED <<listingVars, titleVars>>
  \/ TitleNext /\ UNCHANGED <<listingVars, videoVars>>

PagesSpec == PagesInit /\ [][PagesNext]_<<listingVars, videoVars, titleVars>>

\* The lists of expansions and videos and the Italian titles of a game are
\* those of a complete answer, however often it is asked for.
GameShown == ImportantShown /\ TutorialsShown /\ TitlesKept

=============================================================================
