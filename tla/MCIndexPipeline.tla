---------------------------- MODULE MCIndexPipeline ----------------------------
(***************************************************************************)
(* Small instances of IndexPipeline for TLC.  Two documents, two builders, *)
(* a reader and two versions of the model at once are out of reach, so     *)
(* "shape" says which of them a behaviour uses: a question over two        *)
(* documents beside one builder at a time, one change of the world and one *)
(* more while a request holds complete evidence; or two builders of one    *)
(* document.                                                               *)
(***************************************************************************)
EXTENDS IndexPipeline, FiniteSets, TLC

CONSTANTS d1, d2, b1, b2, r1,
          Shapes

VARIABLE shape

ShapeInit == Init /\ shape \in Shapes

Busy(state) == {w \in Builder : state[w].pc # "idle"}
Touched == {d \in Document : metadata'[d] # 1 \/ pages'[d] # 0 \/ d \notin intact'
                               \/ \E w \in Builder : build'[w].doc = d}

\* What has changed that no builder changes: metadata, the files, the model.
Changes ==
  {d \in Document : metadata'[d] # 1}
    \cup {v \in {"files", "model"} : (v = "files" /\ swaps' # 0) \/ (v = "model" /\ digest' # 1)}

\* A request that may still answer.
Answering == \E r \in Reader : Missing(ask[r].view) = {}

ShapeNext ==
  /\ Next /\ UNCHANGED shape
  /\ shape = "answers" =>
       /\ Cardinality(Busy(build')) <= 1 /\ swaps' <= 1
       /\ Cardinality(Changes) <= IF Answering THEN 2 ELSE 1
  /\ shape = "builds" => Cardinality(Touched) <= 1 /\ digest' = 1 /\ UNCHANGED <<ask, since>>

ShapeSpec == ShapeInit /\ [][ShapeNext]_<<vars, shape>>

Symmetry == {d @@ b : d \in Permutations(Document), b \in Permutations(Builder)}

=============================================================================
