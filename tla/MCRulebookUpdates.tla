------------------------- MODULE MCRulebookUpdates -------------------------
(***************************************************************************)
(* Small instances of RulebookUpdates for TLC.  A behaviour is of one of   *)
(* two shapes: "fencing", a scheduler and a manual check that race for one *)
(* Italian target while its content may be uploaded by hand; or "progress",*)
(* an Italian and an English target of one game, scheduled only, with a    *)
(* snapshot that may be damaged and with more claims.                      *)
(***************************************************************************)
EXTENDS RulebookUpdates, TLC

CONSTANTS it, en, w1, m1, g1, s1, s2

VARIABLE shape

OneGame == [r \in Review |-> g1]
ItalianAndEnglish == [r \in Review |-> IF r = it THEN "it" ELSE "en"]
SameUpload == {[game |-> g1, sha |-> s1, lang |-> "it", official |-> FALSE]}

ShapeInit == Init /\ shape \in {"fencing", "progress"}

\* The bounds of the two shapes.
InShape ==
  IF shape = "fencing"
  THEN review'[en] = "absent" /\ corrupt' = {} /\ row'[it].gen <= 3
  ELSE /\ task'[m1].pc = "idle" /\ task'[w1].sha # s2
       /\ \A d \in documents' : d.file # NoFile

AsShape(action) == action /\ InShape /\ UNCHANGED shape

shapeVars == <<vars, shape>>

ShapeSpec ==
  /\ ShapeInit /\ [][AsShape(Next)]_shapeVars
  /\ \A r \in Review : WF_shapeVars(AsShape(EnsureTarget(r)))
  /\ \A w \in Scheduler : WF_shapeVars(AsShape(\E r \in Review, at \in Read(w) : ClaimDue(w, r, at)))
  /\ \A w \in Worker : WF_shapeVars(AsShape(ClaimReviewTarget(w) \/ RunBusy(w) \/ Execute(w)))
  /\ WF_shapeVars(AsShape(Tick))

(* EventuallyChecked, of the shape whose bounds leave room for the checks. *)
ScheduledChecked == shape = "progress" => EventuallyChecked

=============================================================================
