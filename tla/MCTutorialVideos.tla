--------------------------- MODULE MCTutorialVideos ---------------------------
(* A small instance of TutorialVideos with one video that has markers of both *)
(* languages and declares none.                                               *)
EXTENDS TutorialVideos

BothLanguages ==
  {[id |-> 1, official |-> FALSE, views |-> 1, relevance |-> 1, languages |-> {"it", "en"}]}

=============================================================================
