---------------------------- MODULE NoticeProducers ----------------------------
(***************************************************************************)
(* The two producers of notifications about what is new, the campaigns of  *)
(* CrowdfundingWatch and the expansions of ExpansionWatch, in one process: *)
(* each has its worker, state and category of notifications, and their     *)
(* steps interleave.                                                       *)
(***************************************************************************)
EXTENDS CrowdfundingWatch, ExpansionWatch

ProducersInit == FeedInit /\ ExpansionInit

ProducersNext ==
  \/ FeedNext /\ UNCHANGED expansionVars
  \/ ExpansionNext /\ UNCHANGED feedVars

ProducersSpec == ProducersInit /\ [][ProducersNext]_<<feedVars, expansionVars>>

\* Campaigns and expansions that were not known before are announced, and
\* nothing else is.
NewsAnnounced == CampaignsAnnounced /\ ExpansionsAnnounced

=============================================================================
