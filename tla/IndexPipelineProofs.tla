------------------------- MODULE IndexPipelineProofs -------------------------
(***************************************************************************)
(* What IndexPipeline promises for every number of documents, builders and *)
(* readers, and without the bounds being reached.                          *)
(***************************************************************************)
EXTENDS IndexPipeline, TLAPS

BuildActions(w) ==
  \/ \E d \in Document, force \in Forces :
       StartIngest(w, d, force) \/ LoadPages(w, d, force) \/ LoadChunks(w, d, force)
  \/ Parse(w) \/ CommitPages(w) \/ VerifyPages(w) \/ DropPages(w)
  \/ MakeChunks(w) \/ CommitChunks(w)
  \/ Embed(w) \/ DescribeAgain(w) \/ CommitVectors(w)
  \/ GiveUp(w)

AskActions(r) ==
  \/ Retrieve(r) \/ Describe(r) \/ BeginSnapshot(r)
  \/ \E d \in Document : ReadDocument(r, d)
  \/ Select(r) \/ EmbedQuery(r) \/ Requery(r) \/ ValidateRetrieval(r)
  \/ Generate(r) \/ ValidateAnswer(r) \/ Respond(r) \/ EndRequest(r)

\* The current run is one of the matching runs, and its rows are stored.
LEMMA IfStoredMatches ==
  ASSUME NEW runs, NEW stored, IfStored(runs, stored) # 0
  PROVE  /\ IfStored(runs, stored) = stored
         /\ \E r \in runs : r.id = stored
BY DEF IfStored

\* A document that is served has its file, and both layers are the stored ones.
LEMMA ServedMatches ==
  ASSUME NEW d, NEW g, Served(d, g)[2] # 0
  PROVE  /\ d \in intact
         /\ Served(d, g)[1] = chunks[d] /\ Served(d, g)[2] = vectors[d]
         /\ \E c \in chunkRuns[d] :
              c.id = chunks[d] /\ c.parse = pages[d] /\ c.meta = metadata[d]
         /\ \E e \in embedRuns[d] :
              e.id = vectors[d] /\ e.source = chunks[d] /\ e.digest = g
<1> DEFINE c == IF d \in intact THEN CurrentChunks(d) ELSE 0
           v == IF c = 0 THEN 0 ELSE CurrentVectors(d, c, g)
<1>1. Served(d, g) = <<c, v>>
  BY DEF Served
<1>2. c # 0 /\ v # 0
  BY <1>1
<1>3. d \in intact /\ c = CurrentChunks(d)
  BY <1>2
<1>4. /\ pages[d] # 0
      /\ c = IfStored({r \in chunkRuns[d] : r.parse = pages[d] /\ r.meta = metadata[d]},
                      chunks[d])
  BY <1>2, <1>3 DEF CurrentChunks
<1>5. /\ c = chunks[d]
      /\ \E r \in chunkRuns[d] :
           r.id = chunks[d] /\ r.parse = pages[d] /\ r.meta = metadata[d]
  BY <1>2, <1>4, IfStoredMatches
<1>6. v = IfStored({r \in embedRuns[d] : r.source = c /\ r.digest = g}, vectors[d])
  BY <1>2 DEF CurrentVectors
<1>7. /\ v = vectors[d]
      /\ \E e \in embedRuns[d] : e.id = vectors[d] /\ e.source = c /\ e.digest = g
  BY <1>2, <1>6, IfStoredMatches
<1> HIDE DEF c, v
<1>8. QED
  BY <1>1, <1>3, <1>5, <1>7

-----------------------------------------------------------------------------
(* The inductive invariant *)

\* What a build still knows of the read it started from.  The version of the
\* model only grows, so two equal descriptions enclose the one that embedded.
BuildFacts(b) ==
  /\ b.pc \in {"committingChunks", "committingVectors"} => b.run > 0
  /\ b.pc \in {"embedding", "describing", "committingVectors"} => b.source # 0
  /\ b.pc = "embedding" => b.digest <= digest
  /\ b.pc = "describing" => b.digest <= b.made /\ b.made <= digest
  /\ b.pc = "committingVectors" => b.made = b.digest
BuildInv == \A w \in Builder : BuildFacts(build[w])

\* Every run was embedded by the version it names.
RunsInv == \A d \in Document : \A e \in embedRuns[d] : e.made = e.digest

\* What a request knows of the model, of the evidence it holds, of the snapshot
\* it reads (nobody else commits while it does), and of its last check.
ModelFacts(a) ==
  /\ a.pc # "idle" => a.digest <= digest
  /\ a.pc = "requerying" => /\ a.digest <= a.made /\ a.made <= digest
                            /\ a.stage # "outside" => a.made = a.digest
  /\ a.pc = "validating" => NoRows(a.view) \/ a.made = a.digest

StageFacts(a) ==
  a.pc \in {"idle", "querying", "generating", "answered"} => a.stage = "outside"

Holding == {"generating", "validatingAnswer", "responding", "answered"}
HeldFacts(a) ==
  a.pc \in Holding => \A d \in Document :
    /\ a.view[d][2] # 0
    /\ \E e \in embedRuns[d] : e.id = a.view[d][2] /\ e.made = a.made

Backed(d, served, g) ==
  /\ served[2] = vectors[d]
  /\ \E c \in chunkRuns[d], e \in embedRuns[d] :
       /\ c.id = chunks[d] /\ c.parse = pages[d] /\ c.meta = metadata[d]
       /\ e.id = vectors[d] /\ e.source = chunks[d] /\ e.digest = g
SeenFacts(a) ==
  /\ a.stage # "reading" => a.seen = Nothing
  /\ \A d \in Document : a.seen[d][2] # 0 => Backed(d, a.seen[d], a.digest)

CheckFacts(a, h) ==
  a.pc = "responding" =>
    /\ intact \subseteq h.files /\ a.digest <= h.digest /\ h.digest <= digest
    /\ a.stage # "outside" => h.digest = a.digest
    /\ \A d \in Document : a.seen[d][2] # 0 => d \in h.files

AskFacts(a, h) ==
  StageFacts(a) /\ ModelFacts(a) /\ HeldFacts(a) /\ SeenFacts(a) /\ CheckFacts(a, h)
AskInv == \A r \in Reader : AskFacts(ask[r], since[r])

IInv == TypeOK /\ BuildInv /\ RunsInv /\ AskInv /\ DerivedFromStored

-----------------------------------------------------------------------------
(* Type correctness *)

LEMMA NothingSeen == Nothing \in View /\ \A d \in Document : Nothing[d][2] = 0
BY DEF Nothing, View

LEMMA SilentRequest ==
  Silent \in Ask /\ Unbegun \in Since /\ Silent.pc = "idle" /\ AskFacts(Silent, Unbegun)
<1>1. Silent \in Ask /\ Unbegun \in Since
  BY NothingSeen DEF Silent, Unbegun, Ask, Since, AskPhase, Stage
<1>2. Silent.pc = "idle" /\ Silent.stage = "outside" /\ Silent.seen = Nothing
  BY DEF Silent
<1>3. /\ StageFacts(Silent) /\ ModelFacts(Silent) /\ HeldFacts(Silent)
      /\ CheckFacts(Silent, Unbegun)
  BY <1>2 DEF StageFacts, ModelFacts, HeldFacts, CheckFacts, Holding
<1>4. SeenFacts(Silent)
  BY <1>2, NothingSeen DEF SeenFacts
<1> QED
  BY <1>1, <1>2, <1>3, <1>4 DEF AskFacts

LEMMA InitInv == Init => IInv
<1> SUFFICES ASSUME Init PROVE IInv
  OBVIOUS
<1>1. TypeOK
  BY SilentRequest DEF Init, TypeOK, Build, BuildPhase, Resting
<1>2. BuildInv
  BY DEF Init, BuildInv, BuildFacts, Resting
<1>3. RunsInv
  BY DEF Init, RunsInv
<1>4. AskInv
  BY SilentRequest DEF Init, AskInv
<1>5. DerivedFromStored
  BY DEF Init, DerivedFromStored
<1> QED
  BY <1>1, <1>2, <1>3, <1>4, <1>5 DEF IInv

LEMMA RestingBuild == Resting \in Build
BY DEF Resting, Build, BuildPhase

\* What a builder does next is a build, with a timestamp that was handed out.
BuildOK ==
  build \in [Builder -> Build] /\ \A w \in Builder : build[w].run <= stamp

LEMMA NextBuildTypes ==
  ASSUME TypeOK, NEW w \in Builder, NEW next \in Build,
         build' = [build EXCEPT ![w] = next],
         stamp' \in Nat, stamp <= stamp', next.run <= stamp'
  PROVE  BuildOK'
<1>1. build' \in [Builder -> Build]
  BY DEF TypeOK
<1>2. ASSUME NEW other \in Builder PROVE build'[other].run <= stamp'
  <2>1. CASE other = w
    BY <2>1 DEF TypeOK
  <2>2. CASE other # w
    <3>1. build'[other] = build[other]
      BY <2>2 DEF TypeOK
    <3>2. build[other].run \in Nat /\ build[other].run <= stamp /\ stamp \in Nat
      BY DEF TypeOK, Build
    <3>3. QED
      BY <3>1, <3>2
  <2>3. QED
    BY <2>1, <2>2
<1>3. QED
  BY <1>1, <1>2 DEF BuildOK

LEMMA RestTypes ==
  ASSUME TypeOK, NEW w \in Builder, Rest(w), stamp' = stamp PROVE BuildOK'
<1>1. Resting.run <= stamp' /\ stamp' \in Nat /\ stamp <= stamp'
  BY DEF Resting, TypeOK
<1>2. build' = [build EXCEPT ![w] = Resting]
  BY DEF Rest
<1>3. QED
  BY <1>1, <1>2, RestingBuild, NextBuildTypes

LEMMA StepTypes ==
  ASSUME TypeOK, NEW w \in Builder, NEW phase \in BuildPhase, Step(w, phase),
         stamp' \in Nat, stamp <= stamp'
  PROVE  BuildOK'
<1> DEFINE next == [build[w] EXCEPT !.pc = phase]
<1>1. build[w] \in Build /\ build[w].run <= stamp /\ stamp \in Nat
  BY DEF TypeOK
<1>2. next \in Build /\ next.run = build[w].run
  BY <1>1 DEF Build
<1>3. build[w].run \in Nat
  BY <1>1 DEF Build
<1>4. build' = [build EXCEPT ![w] = next]
  BY DEF Step, TypeOK
<1> HIDE DEF next
<1>5. next.run <= stamp'
  BY <1>1, <1>2, <1>3
<1>6. QED
  BY <1>2, <1>4, <1>5, NextBuildTypes

\* Reading a source starts a new build.
LEMMA LoadTypes ==
  ASSUME TypeOK, NEW w \in Builder, NEW d \in Document, NEW force \in Forces,
         StartIngest(w, d, force) \/ LoadPages(w, d, force) \/ LoadChunks(w, d, force)
  PROVE  TypeOK'
<1>1. force \in BOOLEAN
  BY ForcesAssumption
<1>2. Resting \in Build /\ Resting.run = 0
  BY RestingBuild DEF Resting
<1>3. {"parsing", "chunking", "embedding"} \subseteq BuildPhase
  BY DEF BuildPhase
<1>4. UNCHANGED <<stamp, storeVars, worldVars, ask, since>> /\ stamp \in Nat
  BY DEF StartIngest, LoadPages, LoadChunks, TypeOK
<1>5. CASE StartIngest(w, d, force)
  <2> DEFINE next == [Resting EXCEPT !.pc = "parsing", !.doc = d, !.force = force]
  <2>1. next \in Build /\ next.run = 0
    BY <1>1, <1>2, <1>3 DEF Build
  <2>2. build' = [build EXCEPT ![w] = next]
    BY <1>5 DEF StartIngest
  <2> HIDE DEF next
  <2>3. QED
    BY <1>4, <2>1, <2>2, NextBuildTypes DEF TypeOK, BuildOK, storeVars, worldVars
<1>6. CASE LoadPages(w, d, force)
  <2> DEFINE next == [Resting EXCEPT !.pc = "chunking", !.doc = d, !.force = force,
                                     !.source = pages[d], !.meta = metadata[d]]
  <2>1. pages[d] \in Nat /\ metadata[d] \in Nat
    BY DEF TypeOK
  <2>2. next \in Build /\ next.run = 0
    BY <1>1, <1>2, <1>3, <2>1 DEF Build
  <2>3. build' = [build EXCEPT ![w] = next]
    BY <1>6 DEF LoadPages
  <2> HIDE DEF next
  <2>4. QED
    BY <1>4, <2>2, <2>3, NextBuildTypes DEF TypeOK, BuildOK, storeVars, worldVars
<1>7. CASE LoadChunks(w, d, force)
  <2> DEFINE next == [Resting EXCEPT !.pc = "embedding", !.doc = d, !.force = force,
                                     !.source = CurrentChunks(d), !.digest = digest]
  <2>1. CurrentChunks(d) \in Nat /\ digest \in Nat
    BY DEF TypeOK, CurrentChunks, IfStored
  <2>2. next \in Build /\ next.run = 0
    BY <1>1, <1>2, <1>3, <2>1 DEF Build
  <2>3. build' = [build EXCEPT ![w] = next]
    BY <1>7 DEF LoadChunks
  <2> HIDE DEF next
  <2>4. QED
    BY <1>4, <2>2, <2>3, NextBuildTypes DEF TypeOK, BuildOK, storeVars, worldVars
<1>8. QED
  BY <1>5, <1>6, <1>7

\* The stored layers are those of runs that have a timestamp.
LEMMA BuilderTypes ==
  ASSUME TypeOK, BuildInv, NEW w \in Builder, BuildActions(w)
  PROVE  TypeOK'
<1>1. ASSUME NEW d \in Document, NEW force \in Forces,
             StartIngest(w, d, force) \/ LoadPages(w, d, force) \/ LoadChunks(w, d, force)
      PROVE  TypeOK'
  BY <1>1, LoadTypes
<1>2. {"committingPages", "verifyingPages", "droppingPages"} \subseteq BuildPhase
  BY DEF BuildPhase
<1>3. stamp \in Nat /\ stamp + 1 \in Nat /\ stamp <= stamp + 1
  BY DEF TypeOK
<1>4. CASE Parse(w) \/ VerifyPages(w) \/ GiveUp(w)
  <2>1. UNCHANGED <<stamp, storeVars, worldVars, ask, since>>
    BY <1>4 DEF Parse, VerifyPages, GiveUp
  <2>2. BuildOK'
    BY <1>2, <1>3, <1>4, <2>1, RestTypes, StepTypes DEF Parse, VerifyPages, GiveUp
  <2>3. QED
    BY <2>1, <2>2 DEF TypeOK, BuildOK, storeVars, worldVars
<1>5. CASE CommitPages(w)
  <2>1. BuildOK'
    BY <1>2, <1>3, <1>5, RestTypes, StepTypes DEF CommitPages
  <2>2. stamp' \in Nat /\ stamp <= stamp'
    BY <1>3, <1>5 DEF CommitPages
  <2>3. /\ pages' \in [Document -> 0..stamp']
        /\ chunks' \in [Document -> Nat] /\ vectors' \in [Document -> Nat]
    BY <1>3, <1>5 DEF CommitPages, ReplacePages, TypeOK
  <2>4. ASSUME NEW d \in Document, NEW r \in chunkRuns[d] \cup embedRuns[d]
        PROVE  r.id \in 1..stamp'
    BY <1>3, <2>2 DEF TypeOK
  <2>5. UNCHANGED <<metadata, chunkRuns, embedRuns, worldVars, ask, since>>
    BY <1>5 DEF CommitPages
  <2>6. QED
    BY <2>1, <2>2, <2>3, <2>4, <2>5 DEF TypeOK, BuildOK, worldVars
<1>6. CASE DropPages(w)
  <2>1. BuildOK'
    BY <1>6, RestTypes DEF DropPages
  <2> DEFINE d == build[w].doc
  <2>2. /\ pages' = [pages EXCEPT ![d] = 0] /\ chunks' = [chunks EXCEPT ![d] = 0]
        /\ vectors' = [vectors EXCEPT ![d] = 0]
    BY <1>6 DEF DropPages, ReplacePages
  <2> HIDE DEF d
  <2>3. 0 \in 0..stamp /\ pages \in [Document -> 0..stamp]
        /\ chunks \in [Document -> Nat] /\ vectors \in [Document -> Nat]
    BY <1>3 DEF TypeOK
  <2>4. /\ pages' \in [Document -> 0..stamp]
        /\ chunks' \in [Document -> Nat] /\ vectors' \in [Document -> Nat]
    BY <2>2, <2>3
  <2>5. QED
    BY <1>6, <2>1, <2>4 DEF DropPages, TypeOK, BuildOK, worldVars
<1>7. CASE MakeChunks(w) \/ Embed(w) \/ DescribeAgain(w)
  <2>1. stamp' \in Nat /\ stamp <= stamp' /\ UNCHANGED <<storeVars, worldVars, ask, since>>
    BY <1>3, <1>7 DEF MakeChunks, Embed, DescribeAgain
  <2>2. build[w] \in Build /\ build[w].run \in Nat /\ build[w].run <= stamp /\ digest \in Nat
    BY DEF TypeOK, Build
  <2>3. {"committingChunks", "describing", "committingVectors"} \subseteq BuildPhase
    BY DEF BuildPhase
  <2>4. ASSUME NEW phase \in {"committingChunks", "committingVectors"},
               stamp' = stamp + 1,
               build' = [build EXCEPT ![w].pc = phase, ![w].run = stamp']
        PROVE  TypeOK'
    <3> DEFINE next == [build[w] EXCEPT !.pc = phase, !.run = stamp']
    <3>1. next \in Build /\ next.run = stamp'
      BY <2>1, <2>2, <2>3 DEF Build
    <3>2. build' = [build EXCEPT ![w] = next]
      BY <2>4 DEF TypeOK
    <3> HIDE DEF next
    <3>3. next.run <= stamp'
      BY <2>1, <3>1
    <3>4. BuildOK'
      BY <2>1, <3>1, <3>2, <3>3, NextBuildTypes
    <3>5. pages' \in [Document -> 0..stamp']
      BY <1>3, <2>1, <2>4 DEF TypeOK, storeVars
    <3>6. ASSUME NEW d \in Document, NEW r \in chunkRuns'[d] \cup embedRuns'[d]
          PROVE  r.id \in 1..stamp'
      BY <1>3, <2>1, <2>4 DEF TypeOK, storeVars
    <3>7. QED
      BY <2>1, <3>4, <3>5, <3>6 DEF TypeOK, BuildOK, storeVars, worldVars
  <2>5. CASE Embed(w)
    <3> DEFINE next == [build[w] EXCEPT !.pc = "describing", !.made = digest]
    <3>1. next \in Build /\ next.run = build[w].run
      BY <2>2, <2>3 DEF Build
    <3>2. build' = [build EXCEPT ![w] = next] /\ stamp' = stamp
      BY <2>5 DEF Embed, TypeOK
    <3> HIDE DEF next
    <3>3. BuildOK'
      BY <2>1, <2>2, <3>1, <3>2, NextBuildTypes
    <3>4. QED
      BY <2>1, <3>2, <3>3 DEF TypeOK, BuildOK, storeVars, worldVars
  <2>6. CASE DescribeAgain(w) /\ Rest(w)
    <3>1. stamp' = stamp
      BY <2>6, RestingBuild DEF DescribeAgain, Rest, Resting, TypeOK
    <3>2. QED
      BY <2>1, <2>6, <3>1, RestTypes DEF TypeOK, BuildOK, storeVars, worldVars
  <2>7. QED
    BY <1>7, <2>4, <2>5, <2>6 DEF MakeChunks, DescribeAgain
<1>8. CASE CommitChunks(w)
  <2>1. BuildOK'
    BY <1>8, RestTypes DEF CommitChunks
  <2>2. /\ build[w] \in Build /\ build[w].run \in 1..stamp
    BY <1>3, <1>8 DEF CommitChunks, BuildInv, BuildFacts, TypeOK, Build
  <2> DEFINE new == [id |-> build[w].run, parse |-> build[w].source,
                     meta |-> build[w].meta, forced |-> build[w].force]
  <2>3. new \in ChunkRun /\ new.id = build[w].run /\ build[w].run \in Nat
    BY <1>3, <2>2 DEF Build, ChunkRun
  <2>4. \/ UNCHANGED <<chunkRuns, chunks, vectors>>
        \/ /\ chunkRuns' = [chunkRuns EXCEPT ![build[w].doc] = @ \cup {new}]
           /\ chunks' = [chunks EXCEPT ![build[w].doc] = build[w].run]
           /\ vectors' = [vectors EXCEPT ![build[w].doc] = 0]
    BY <1>8 DEF CommitChunks
  <2>5. UNCHANGED <<stamp, metadata, pages, embedRuns, worldVars, ask, since>>
    BY <1>8 DEF CommitChunks
  <2> HIDE DEF new
  <2>6. /\ chunkRuns' \in [Document -> SUBSET ChunkRun]
        /\ chunks' \in [Document -> Nat] /\ vectors' \in [Document -> Nat]
    BY <2>3, <2>4 DEF TypeOK
  <2>7. \A d \in Document : \A r \in chunkRuns'[d] : r.id \in 1..stamp
    BY <2>2, <2>3, <2>4 DEF TypeOK
  <2>8. QED
    BY <2>1, <2>5, <2>6, <2>7 DEF TypeOK, BuildOK, worldVars
<1>9. CASE CommitVectors(w)
  <2>1. BuildOK'
    BY <1>9, RestTypes DEF CommitVectors
  <2>2. /\ build[w] \in Build /\ build[w].run \in 1..stamp
    BY <1>3, <1>9 DEF CommitVectors, BuildInv, BuildFacts, TypeOK, Build
  <2> DEFINE new == [id |-> build[w].run, source |-> build[w].source,
                     digest |-> build[w].digest, made |-> build[w].made,
                     forced |-> build[w].force]
  <2>3. new \in EmbedRun /\ new.id = build[w].run /\ build[w].run \in Nat
    BY <1>3, <2>2 DEF Build, EmbedRun
  <2>4. \/ UNCHANGED <<embedRuns, vectors>>
        \/ /\ embedRuns' = [embedRuns EXCEPT ![build[w].doc] = @ \cup {new}]
           /\ vectors' = [vectors EXCEPT ![build[w].doc] = build[w].run]
    BY <1>9 DEF CommitVectors
  <2>5. UNCHANGED <<stamp, metadata, pages, chunkRuns, chunks, worldVars, ask, since>>
    BY <1>9 DEF CommitVectors
  <2> HIDE DEF new
  <2>6. embedRuns' \in [Document -> SUBSET EmbedRun] /\ vectors' \in [Document -> Nat]
    BY <2>3, <2>4 DEF TypeOK
  <2>7. \A d \in Document : \A r \in embedRuns'[d] : r.id \in 1..stamp
    BY <2>2, <2>3, <2>4 DEF TypeOK
  <2>8. QED
    BY <2>1, <2>5, <2>6, <2>7 DEF TypeOK, BuildOK, worldVars
<1>10. QED
  BY <1>1, <1>4, <1>5, <1>6, <1>7, <1>8, <1>9 DEF BuildActions

LEMMA ServedType ==
  ASSUME TypeOK, NEW d \in Document, NEW g PROVE Served(d, g) \in Nat \X Nat
<1>1. CurrentChunks(d) \in Nat
  BY DEF TypeOK, CurrentChunks, IfStored
<1>2. \A c : CurrentVectors(d, c, g) \in Nat
  BY DEF TypeOK, CurrentVectors, IfStored
<1>3. QED
  BY <1>1, <1>2 DEF Served

LEMMA WorldTypes ==
  ASSUME TypeOK, (\E d \in Document : SwapFile(d) \/ EditDocument(d)) \/ ChangeModel
  PROVE  TypeOK'
<1> USE DEF TypeOK
<1>1. ASSUME NEW d \in Document, SwapFile(d) PROVE TypeOK'
  <2>1. /\ UNCHANGED <<stamp, storeVars, digest, build, ask>> /\ swaps' \in Nat
        /\ intact' \subseteq Document
    BY <1>1 DEF SwapFile
  <2>2. since' \in [Reader -> Since]
    <3>1. ASSUME NEW r \in Reader PROVE [since[r] EXCEPT !.files = @ \cup intact'] \in Since
      BY <2>1 DEF Since
    <3> QED
      BY <1>1, <3>1 DEF SwapFile
  <2> QED
    BY <2>1, <2>2 DEF storeVars
<1>2. ASSUME NEW d \in Document, EditDocument(d) PROVE TypeOK'
  BY <1>2 DEF EditDocument, worldVars
<1>3. CASE ChangeModel
  BY <1>3 DEF ChangeModel, storeVars
<1>4. QED
  BY <1>1, <1>2, <1>3

-----------------------------------------------------------------------------
(* Builds *)

\* A step of one builder says nothing new of the others.
LEMMA OthersBuild ==
  ASSUME TypeOK, BuildInv, NEW w \in Builder, NEW next,
         build' = [build EXCEPT ![w] = next], digest' = digest, BuildFacts(next)
  PROVE  BuildInv'
<1> SUFFICES ASSUME NEW other \in Builder PROVE BuildFacts(build[other])'
  BY DEF BuildInv
<1>1. build'[other] = IF other = w THEN next ELSE build[other]
  BY DEF TypeOK
<1>2. BuildFacts(build'[other])
  BY <1>1 DEF BuildInv
<1>3. QED
  BY <1>2 DEF BuildFacts

LEMMA WorldKeepsBuild ==
  ASSUME TypeOK, BuildInv, UNCHANGED build, digest' \in Nat, digest <= digest'
  PROVE  BuildInv'
<1> SUFFICES ASSUME NEW w \in Builder PROVE BuildFacts(build[w])'
  BY DEF BuildInv
<1>1. /\ build[w].digest \in Nat /\ build[w].made \in Nat /\ digest \in Nat
      /\ build' = build
  BY DEF TypeOK, Build
<1>2. BuildFacts(build[w])
  BY DEF BuildInv
<1>3. QED
  BY <1>1, <1>2 DEF BuildFacts

LEMMA BuilderKeepsBuild ==
  ASSUME IInv, NEW w \in Builder, BuildActions(w)
  PROVE  BuildInv'
<1>1. TypeOK /\ BuildInv /\ BuildFacts(build[w])
  BY DEF IInv, BuildInv
<1>2. BuildFacts(Resting)
  BY DEF BuildFacts, Resting
<1>3. digest' = digest
  BY DEF BuildActions, StartIngest, LoadPages, LoadChunks, Parse, CommitPages, VerifyPages,
         DropPages, MakeChunks, CommitChunks, Embed, DescribeAgain, CommitVectors, GiveUp,
         worldVars
<1>4. build[w] \in Build /\ digest \in Nat /\ stamp \in Nat
  BY <1>1 DEF TypeOK
<1>5. PICK next : build' = [build EXCEPT ![w] = next] /\ BuildFacts(next)
  <2>1. CASE Rest(w)
    BY <1>2, <2>1 DEF Rest
  <2>2. ASSUME NEW phase \in {"committingPages", "verifyingPages", "droppingPages"},
               Step(w, phase)
        PROVE  \E next : build' = [build EXCEPT ![w] = next] /\ BuildFacts(next)
    <3>1. BuildFacts([build[w] EXCEPT !.pc = phase])
      BY <1>4 DEF BuildFacts, Build
    <3>2. QED
      BY <1>1, <2>2, <3>1 DEF Step, TypeOK
  <2>3. CASE \E d \in Document, force \in Forces :
               StartIngest(w, d, force) \/ LoadPages(w, d, force) \/ LoadChunks(w, d, force)
    <3>1. PICK d \in Document, force \in Forces :
            StartIngest(w, d, force) \/ LoadPages(w, d, force) \/ LoadChunks(w, d, force)
      BY <2>3
    <3>2. CASE StartIngest(w, d, force)
      <4>1. BuildFacts([Resting EXCEPT !.pc = "parsing", !.doc = d, !.force = force])
        BY DEF BuildFacts, Resting
      <4>2. QED
        BY <3>2, <4>1 DEF StartIngest
    <3>3. CASE LoadPages(w, d, force)
      <4>1. BuildFacts([Resting EXCEPT !.pc = "chunking", !.doc = d, !.force = force,
                                       !.source = pages[d], !.meta = metadata[d]])
        BY DEF BuildFacts, Resting
      <4>2. QED
        BY <3>3, <4>1 DEF LoadPages
    <3>4. CASE LoadChunks(w, d, force)
      <4>1. CurrentChunks(d) # 0
        BY <3>4 DEF LoadChunks
      <4>2. BuildFacts([Resting EXCEPT !.pc = "embedding", !.doc = d, !.force = force,
                          !.source = CurrentChunks(d), !.digest = digest])
        BY <1>4, <4>1 DEF BuildFacts, Resting
      <4>3. QED
        BY <3>4, <4>2 DEF LoadChunks
    <3>5. QED
      BY <3>1, <3>2, <3>3, <3>4
  <2>4. CASE MakeChunks(w)
    <3>1. BuildFacts([build[w] EXCEPT !.pc = "committingChunks", !.run = stamp'])
      BY <1>4, <2>4 DEF BuildFacts, Build, MakeChunks
    <3>2. QED
      BY <1>1, <2>4, <3>1 DEF MakeChunks, TypeOK
  <2>5. CASE Embed(w)
    <3>1. BuildFacts([build[w] EXCEPT !.pc = "describing", !.made = digest])
      BY <1>1, <1>4, <2>5 DEF BuildFacts, Build, Embed
    <3>2. QED
      BY <1>1, <2>5, <3>1 DEF Embed, TypeOK
  <2>6. CASE DescribeAgain(w) /\ digest = build[w].digest
    <3>1. build[w].made = build[w].digest /\ build[w].source # 0
      BY <1>1, <1>4, <2>6 DEF BuildFacts, Build, DescribeAgain
    <3>2. stamp' = stamp + 1
          /\ build' = [build EXCEPT ![w].pc = "committingVectors", ![w].run = stamp']
      BY <2>6 DEF DescribeAgain
    <3>3. BuildFacts([build[w] EXCEPT !.pc = "committingVectors", !.run = stamp'])
      BY <1>4, <3>1, <3>2 DEF BuildFacts, Build
    <3>4. QED
      BY <1>1, <3>2, <3>3 DEF TypeOK
  <2>7. QED
    BY <2>1, <2>2, <2>3, <2>4, <2>5, <2>6
       DEF BuildActions, Parse, CommitPages, VerifyPages, DropPages, CommitChunks,
           DescribeAgain, CommitVectors, GiveUp
<1>6. QED
  BY <1>1, <1>3, <1>5, OthersBuild

\* Only the committed vectors become a new run.
LEMMA BuilderKeepsRuns ==
  ASSUME IInv, NEW w \in Builder, BuildActions(w)
  PROVE  RunsInv' /\ \A d \in Document : embedRuns[d] \subseteq embedRuns'[d]
<1>1. TypeOK /\ BuildFacts(build[w]) /\ RunsInv
  BY DEF IInv, BuildInv
<1>2. CASE UNCHANGED embedRuns
  BY <1>1, <1>2 DEF RunsInv
<1>3. CASE CommitVectors(w)
  <2> DEFINE new == [id |-> build[w].run, source |-> build[w].source,
                     digest |-> build[w].digest, made |-> build[w].made,
                     forced |-> build[w].force]
  <2>1. new.made = new.digest
    BY <1>1, <1>3 DEF CommitVectors, BuildFacts
  <2>2. \/ UNCHANGED embedRuns
        \/ embedRuns' = [embedRuns EXCEPT ![build[w].doc] = @ \cup {new}]
    BY <1>3 DEF CommitVectors
  <2> HIDE DEF new
  <2>3. ASSUME NEW d \in Document
        PROVE  embedRuns[d] \subseteq embedRuns'[d]
               /\ embedRuns'[d] \subseteq embedRuns[d] \cup {new}
    BY <1>1, <2>2 DEF TypeOK
  <2>4. QED
    BY <1>1, <2>1, <2>3 DEF RunsInv
<1>4. QED
  BY <1>2, <1>3
     DEF BuildActions, StartIngest, LoadPages, LoadChunks, Parse, CommitPages, VerifyPages,
         DropPages, MakeChunks, CommitChunks, Embed, DescribeAgain, GiveUp, storeVars

-----------------------------------------------------------------------------
(* Requests *)

\* While a snapshot is read nobody commits, so what it has seen stays true.
LEMMA BarrierHolds ==
  ASSUME NEW w \in Builder, BuildActions(w), Barred
  PROVE  UNCHANGED storeVars
BY DEF BuildActions, StartIngest, LoadPages, LoadChunks, Parse, CommitPages, VerifyPages,
       DropPages, MakeChunks, CommitChunks, Embed, DescribeAgain, CommitVectors, GiveUp,
       storeVars

\* What a request knows stays true: runs are only added, the model only grows,
\* and the history of the last check takes note of every file that matches.
LEMMA OthersKeepAsk ==
  ASSUME TypeOK, AskInv, UNCHANGED ask, digest' \in Nat, digest <= digest',
         Barred => UNCHANGED storeVars,
         \A d \in Document : embedRuns[d] \subseteq embedRuns'[d],
         \A r \in Reader : ask[r].pc = "responding" =>
           /\ since'[r].digest = since[r].digest
           /\ since[r].files \subseteq since'[r].files /\ intact' \subseteq since'[r].files
  PROVE  AskInv'
<1> SUFFICES ASSUME NEW r \in Reader PROVE AskFacts(ask[r], since[r])'
  BY DEF AskInv
<1>1. PICK a \in Ask, h \in Since : a = ask[r] /\ h = since[r]
  BY DEF TypeOK
<1>2. /\ a.digest \in Nat /\ a.made \in Nat /\ digest \in Nat /\ h.digest \in Nat
      /\ ask'[r] = a
  BY <1>1 DEF TypeOK, Ask, Since
<1>3. StageFacts(a) /\ ModelFacts(a) /\ HeldFacts(a) /\ SeenFacts(a) /\ CheckFacts(a, h)
  BY <1>1 DEF AskInv, AskFacts
<1>4. ModelFacts(a)'
  BY <1>2, <1>3 DEF ModelFacts, NoRows
<1>5. HeldFacts(a)'
  BY <1>3 DEF HeldFacts
<1>6. SeenFacts(a)'
  <2>1. CASE a.stage = "reading"
    <3>1. UNCHANGED storeVars
      BY <1>1, <2>1 DEF Barred
    <3> QED
      BY <1>3, <2>1, <3>1 DEF SeenFacts, Backed, storeVars
  <2>2. CASE a.stage # "reading"
    BY <1>3, <2>2, NothingSeen DEF SeenFacts, Nothing
  <2> QED
    BY <2>1, <2>2
<1>7. PICK k : k = since'[r]
  OBVIOUS
<1>8. CheckFacts(a, k)'
  <2> SUFFICES ASSUME a.pc = "responding" PROVE CheckFacts(a, k)'
    BY DEF CheckFacts
  <2>1. k.digest = h.digest /\ h.files \subseteq k.files /\ intact' \subseteq k.files
    BY <1>1, <1>7
  <2>2. /\ a.digest <= h.digest /\ h.digest <= digest'
    BY <1>2, <1>3 DEF CheckFacts
  <2> QED
    BY <1>3, <2>1, <2>2 DEF CheckFacts
<1> QED
  BY <1>2, <1>3, <1>4, <1>5, <1>6, <1>7, <1>8
     DEF AskFacts, StageFacts, ModelFacts, HeldFacts, SeenFacts, CheckFacts

\* What a step of a reader leads to, and that only Respond answers.
Moves(r) ==
  \E next \in Ask, h \in Since :
    /\ ask' = [ask EXCEPT ![r] = next] /\ since' = [since EXCEPT ![r] = h]
    /\ AskFacts(next, h)
    /\ next.pc = "answered" => Respond(r) /\ ask[r].seen = ask[r].view

\* A request that goes on is outside of a transaction and has seen nothing.
LEMMA Onwards ==
  ASSUME NEW a \in Ask, NEW phase \in AskPhase
  PROVE  /\ At(phase, a) \in Ask /\ At(phase, a).pc = phase
         /\ At(phase, a).stage = "outside" /\ At(phase, a).seen = Nothing
         /\ At(phase, a).view = a.view /\ At(phase, a).digest = a.digest
         /\ At(phase, a).made = a.made /\ At(phase, a).repaired = a.repaired
BY NothingSeen DEF At, Ask, Stage

LEMMA OutsideFacts ==
  ASSUME NEW a, a.stage = "outside", a.seen = Nothing PROVE SeenFacts(a)
BY NothingSeen DEF SeenFacts

LEMMA DismissMoves ==
  ASSUME NEW r \in Reader, Dismiss(r) PROVE Moves(r)
BY SilentRequest DEF Dismiss, Moves

\* The steps up to the first snapshot, and the reading of every snapshot.
LEMMA SnapshotMoves ==
  ASSUME IInv, NEW r \in Reader,
         \/ Retrieve(r) \/ Describe(r) \/ BeginSnapshot(r)
         \/ \E d \in Document : ReadDocument(r, d)
  PROVE  Moves(r)
<1>1. PICK a \in Ask, h \in Since : a = ask[r] /\ h = since[r] /\ AskFacts(a, h)
  BY DEF IInv, TypeOK, AskInv
<1>2. /\ a.digest \in Nat /\ a.made \in Nat /\ digest \in Nat /\ h.digest \in Nat
      /\ ask \in [Reader -> Ask] /\ since \in [Reader -> Since]
  BY DEF IInv, TypeOK, Ask, Since
<1>3. since' = since => since' = [since EXCEPT ![r] = h]
  BY <1>1, <1>2
<1>4. {"outside", "waiting", "reading"} \subseteq Stage /\ "selecting" \in AskPhase
  BY DEF Stage, AskPhase
<1>5. CASE Retrieve(r)
  <2> DEFINE next == [Silent EXCEPT !.pc = "selecting", !.stage = "waiting", !.digest = digest]
  <2>1. /\ next \in Ask /\ next.pc = "selecting" /\ next.stage = "waiting"
        /\ next.seen = Nothing /\ next.digest = digest
    BY <1>2, <1>4, NothingSeen DEF Silent, Ask
  <2>2. ask' = [ask EXCEPT ![r] = next] /\ since' = since
    BY <1>5 DEF Retrieve
  <2> HIDE DEF next
  <2>3. AskFacts(next, h)
    BY <1>2, <2>1, NothingSeen
       DEF AskFacts, StageFacts, ModelFacts, HeldFacts, SeenFacts, CheckFacts, Holding
  <2> QED
    BY <1>3, <2>1, <2>2, <2>3 DEF Moves
<1>6. CASE Describe(r)
  <2>1. CASE Dismiss(r)
    BY <2>1, DismissMoves
  <2>2. CASE digest = a.digest /\ ask' = [ask EXCEPT ![r].stage = "waiting"] /\ since' = since
    <3> DEFINE next == [a EXCEPT !.stage = "waiting"]
    <3>1. /\ next \in Ask /\ next.pc = a.pc /\ next.stage = "waiting" /\ next.seen = a.seen
          /\ next.view = a.view /\ next.digest = a.digest /\ next.made = a.made
      BY <1>4 DEF Ask
    <3>2. ask' = [ask EXCEPT ![r] = next]
      BY <1>1, <1>2, <2>2
    <3>3. a.pc \in Checking /\ a.stage = "outside"
      BY <1>1, <1>6 DEF Describe
    <3> HIDE DEF next
    <3>4. ModelFacts(next)
      <4>1. ModelFacts(a)
        BY <1>1 DEF AskFacts
      <4>2. a.pc = "requerying" => a.made = a.digest
        BY <1>2, <2>2, <4>1 DEF ModelFacts
      <4> QED
        BY <1>2, <3>1, <3>3, <4>1, <4>2 DEF ModelFacts, Checking
    <3>5. HeldFacts(next)
      BY <1>1, <3>1 DEF AskFacts, HeldFacts
    <3>6. SeenFacts(next)
      BY <1>1, <3>1, <3>3, NothingSeen DEF AskFacts, SeenFacts
    <3>7. CheckFacts(next, h)
      <4>1. CheckFacts(a, h)
        BY <1>1 DEF AskFacts
      <4>2. a.pc = "responding" => h.digest = a.digest
        BY <1>2, <2>2, <4>1 DEF CheckFacts
      <4> QED
        BY <3>1, <4>1, <4>2 DEF CheckFacts
    <3>8. StageFacts(next) /\ next.pc # "answered"
      BY <3>1, <3>3 DEF Checking, StageFacts
    <3> QED
      BY <1>3, <2>2, <3>1, <3>2, <3>4, <3>5, <3>6, <3>7, <3>8 DEF Moves, AskFacts
  <2> QED
    BY <1>1, <1>6, <2>1, <2>2 DEF Describe
<1>7. CASE BeginSnapshot(r)
  <2> DEFINE next == [a EXCEPT !.stage = "reading", !.unread = Document]
  <2>1. /\ next \in Ask /\ next.pc = a.pc /\ next.stage = "reading" /\ next.seen = a.seen
        /\ next.view = a.view /\ next.digest = a.digest /\ next.made = a.made
    BY <1>4 DEF Ask
  <2>2. ask' = [ask EXCEPT ![r] = next] /\ since' = since /\ a.stage = "waiting"
    BY <1>1, <1>2, <1>7 DEF BeginSnapshot
  <2> HIDE DEF next
  <2>3. ModelFacts(next) /\ HeldFacts(next)
    BY <1>1, <2>1, <2>2 DEF AskFacts, ModelFacts, HeldFacts
  <2>4. SeenFacts(next)
    BY <1>1, <2>1, <2>2, NothingSeen DEF AskFacts, SeenFacts
  <2>5. CheckFacts(next, h)
    BY <1>1, <2>1, <2>2 DEF AskFacts, CheckFacts
  <2>6. StageFacts(next) /\ next.pc # "answered"
    BY <1>1, <2>1, <2>2 DEF AskFacts, StageFacts
  <2> QED
    BY <1>3, <2>1, <2>2, <2>3, <2>4, <2>5, <2>6 DEF Moves, AskFacts
<1>8. ASSUME NEW d \in Document, ReadDocument(r, d) PROVE Moves(r)
  <2>1. PICK x : x = Served(d, a.digest)
    OBVIOUS
  <2>2. x \in Nat \X Nat
    BY <2>1, ServedType DEF IInv
  <2> DEFINE next == [a EXCEPT !.unread = @ \ {d}, !.seen = [@ EXCEPT ![d] = x]]
  <2>3. /\ next \in Ask /\ next.pc = a.pc /\ next.stage = a.stage
        /\ next.seen = [a.seen EXCEPT ![d] = x]
        /\ next.view = a.view /\ next.digest = a.digest /\ next.made = a.made
    BY <2>2 DEF Ask, View
  <2>4. ask' = [ask EXCEPT ![r] = next] /\ since' = since /\ a.stage = "reading"
    <3>1. /\ ask' = [ask EXCEPT ![r].unread = @ \ {d}, ![r].seen[d] = x]
          /\ since' = since /\ a.stage = "reading"
      BY <1>1, <1>8, <2>1 DEF ReadDocument
    <3>2. ask' = [ask EXCEPT ![r] = [a EXCEPT !.unread = @ \ {d}, !.seen[d] = x]]
      BY <1>1, <1>2, <3>1
    <3>3. next = [a EXCEPT !.unread = @ \ {d}, !.seen[d] = x]
      BY DEF Ask
    <3> QED
      BY <3>1, <3>2, <3>3
  <2> HIDE DEF next
  <2>5. ModelFacts(next) /\ HeldFacts(next)
    BY <1>1, <2>3 DEF AskFacts, ModelFacts, HeldFacts
  <2>6. a.seen \in [Document -> Nat \X Nat]
    BY DEF Ask, View
  <2>7. x[2] # 0 => d \in intact /\ Backed(d, x, a.digest)
    BY <2>1, ServedMatches DEF Backed
  <2>8. SeenFacts(next)
    BY <1>1, <2>3, <2>4, <2>6, <2>7 DEF AskFacts, SeenFacts
  <2>9. CheckFacts(next, h)
    BY <1>1, <2>3, <2>6, <2>7 DEF AskFacts, CheckFacts
  <2>10. StageFacts(next) /\ next.pc # "answered"
    BY <1>1, <2>3, <2>4 DEF AskFacts, StageFacts
  <2> QED
    BY <1>3, <2>3, <2>4, <2>5, <2>8, <2>9, <2>10 DEF Moves, AskFacts
<1> QED
  BY <1>5, <1>6, <1>7, <1>8

\* The steps between the snapshots, and the comparison at the end of each.
LEMMA RequestMoves ==
  ASSUME IInv, NEW r \in Reader,
         \/ Select(r) \/ EmbedQuery(r) \/ Requery(r) \/ ValidateRetrieval(r)
         \/ Generate(r) \/ ValidateAnswer(r) \/ Respond(r) \/ EndRequest(r)
  PROVE  Moves(r)
<1>1. PICK a \in Ask, h \in Since : a = ask[r] /\ h = since[r] /\ AskFacts(a, h)
  BY DEF IInv, TypeOK, AskInv
<1>2. /\ a.digest \in Nat /\ a.made \in Nat /\ digest \in Nat /\ a.view \in View
      /\ ask \in [Reader -> Ask] /\ since \in [Reader -> Since] /\ RunsInv
      /\ intact \in SUBSET Document
  BY DEF IInv, TypeOK, Ask
<1>3. since' = since => since' = [since EXCEPT ![r] = h]
  BY <1>1, <1>2
<1>4. {"querying", "requerying", "validating", "generating", "validatingAnswer",
       "responding", "answered"} \subseteq AskPhase
  BY DEF AskPhase
<1>5. CASE Dismiss(r)
  BY <1>5, DismissMoves
\* The evidence of a snapshot without gaps, made by the model that embedded the question.
<1>6. ASSUME a.stage = "reading", a.seen = a.view, NEW d \in Document, a.view[d][2] # 0
      PROVE  \E e \in embedRuns[d] : e.id = a.view[d][2] /\ e.made = a.digest
  <2>1. Backed(d, a.view[d], a.digest)
    BY <1>1, <1>6 DEF AskFacts, SeenFacts
  <2> QED
    BY <1>2, <2>1 DEF Backed, RunsInv
<1>7. CASE Select(r)
  <2> DEFINE phase == IF NoRows(a.seen) THEN "validating" ELSE "querying"
  <2> DEFINE next == [At(phase, a) EXCEPT !.view = a.seen]
  <2>1. phase \in AskPhase /\ (phase = "validating" => NoRows(a.seen)) /\ phase \in {"validating", "querying"}
    BY <1>4
  <2>2. ask' = [ask EXCEPT ![r] = next] /\ since' = since /\ a.pc = "selecting"
    BY <1>1, <1>7 DEF Select
  <2>3. /\ At(phase, a) \in Ask /\ At(phase, a).pc = phase /\ At(phase, a).stage = "outside"
        /\ At(phase, a).seen = Nothing /\ At(phase, a).digest = a.digest
    BY <2>1, Onwards
  <2> HIDE DEF phase
  <2>4. a.seen \in View
    BY DEF Ask
  <2>5. /\ next \in Ask /\ next.pc = phase /\ next.stage = "outside" /\ next.seen = Nothing
        /\ next.view = a.seen /\ next.digest = a.digest
    BY <2>3, <2>4 DEF Ask
  <2> HIDE DEF next
  <2>6. SeenFacts(next)
    BY <2>5, OutsideFacts
  <2>7. ModelFacts(next) /\ HeldFacts(next) /\ CheckFacts(next, h) /\ StageFacts(next)
    BY <1>1, <2>1, <2>2, <2>5 DEF AskFacts, ModelFacts, HeldFacts, CheckFacts, Holding, StageFacts
  <2>8. next.pc # "answered"
    BY <2>1, <2>5
  <2> QED
    BY <1>3, <2>2, <2>5, <2>6, <2>7, <2>8 DEF Moves, AskFacts
<1>8. CASE EmbedQuery(r)
  <2> DEFINE next == [a EXCEPT !.pc = "requerying", !.made = digest]
  <2>1. /\ next \in Ask /\ next.pc = "requerying" /\ next.stage = a.stage /\ next.seen = a.seen
        /\ next.view = a.view /\ next.digest = a.digest /\ next.made = digest
    BY <1>2, <1>4 DEF Ask
  <2>2. ask' = [ask EXCEPT ![r] = next] /\ since' = since /\ a.pc = "querying"
    BY <1>1, <1>2, <1>8 DEF EmbedQuery
  <2> HIDE DEF next
  <2>3. a.stage = "outside" /\ SeenFacts(a) /\ a.digest <= digest
    BY <1>1, <2>2 DEF AskFacts, StageFacts, ModelFacts
  <2>4. ModelFacts(next) /\ HeldFacts(next) /\ CheckFacts(next, h) /\ StageFacts(next)
    BY <1>2, <2>1, <2>3 DEF ModelFacts, HeldFacts, CheckFacts, Holding, StageFacts
  <2>5. SeenFacts(next)
    BY <2>1, <2>3, OutsideFacts DEF SeenFacts
  <2> QED
    BY <1>3, <2>1, <2>2, <2>4, <2>5 DEF Moves, AskFacts
<1>9. CASE Requery(r) /\ Proceed(r, "validating") /\ since' = since
  <2>1. /\ a.pc = "requerying" /\ a.stage = "reading"
        /\ ask' = [ask EXCEPT ![r] = At("validating", a)]
    BY <1>1, <1>9 DEF Requery, SnapshotRead, Proceed
  <2>2. PICK next \in Ask :
          /\ next = At("validating", a) /\ next.pc = "validating" /\ next.stage = "outside"
          /\ next.seen = Nothing /\ next.digest = a.digest /\ next.made = a.made
    BY <1>4, Onwards
  <2>3. a.made = a.digest /\ a.digest <= digest
    BY <1>1, <2>1 DEF AskFacts, ModelFacts
  <2>4. ModelFacts(next) /\ HeldFacts(next) /\ CheckFacts(next, h) /\ StageFacts(next)
    BY <2>2, <2>3 DEF ModelFacts, HeldFacts, CheckFacts, Holding, StageFacts
  <2>5. SeenFacts(next)
    BY <2>2, OutsideFacts
  <2> QED
    BY <1>3, <1>9, <2>1, <2>2, <2>4, <2>5 DEF Moves, AskFacts
<1>10. ASSUME NEW phase \in Holding \ {"responding"}, HeldFacts(At(phase, a)), a.pc # "idle",
              ask' = [ask EXCEPT ![r] = At(phase, a)], since' = since,
              phase = "answered" => Respond(r) /\ ask[r].seen = ask[r].view
       PROVE  Moves(r)
  <2>1. phase \in AskPhase
    BY <1>4 DEF Holding
  <2>2. PICK next \in Ask :
          /\ next = At(phase, a) /\ next.pc = phase /\ next.stage = "outside"
          /\ next.seen = Nothing /\ next.digest = a.digest
    BY <2>1, Onwards
  <2>3. a.digest <= digest
    BY <1>1, <1>10 DEF AskFacts, ModelFacts
  <2>4. ModelFacts(next) /\ CheckFacts(next, h) /\ StageFacts(next)
    BY <1>10, <2>2, <2>3 DEF ModelFacts, CheckFacts, Holding, StageFacts
  <2>5. SeenFacts(next)
    BY <2>2, OutsideFacts
  <2> QED
    BY <1>3, <1>10, <2>2, <2>4, <2>5 DEF Moves, AskFacts
\* What is held stays held while a request goes on.
<1>11. ASSUME NEW phase \in Holding, a.pc \in Holding
       PROVE  HeldFacts(At(phase, a))
  <2>1. phase \in AskPhase
    BY <1>4 DEF Holding
  <2>2. At(phase, a).view = a.view /\ At(phase, a).made = a.made
    BY <2>1, Onwards
  <2>3. \A d \in Document : /\ a.view[d][2] # 0
                            /\ \E e \in embedRuns[d] : e.id = a.view[d][2] /\ e.made = a.made
    BY <1>1, <1>11 DEF AskFacts, HeldFacts
  <2> QED
    BY <2>2, <2>3 DEF HeldFacts
<1>12. CASE ValidateRetrieval(r) /\ Proceed(r, "generating") /\ since' = since
            /\ Unchanged(r) /\ Missing(ask[r].view) = {}
  <2>1. /\ a.pc = "validating" /\ a.stage = "reading" /\ a.seen = a.view
        /\ ask' = [ask EXCEPT ![r] = At("generating", a)]
        /\ \A d \in Document : a.view[d][2] # 0
    BY <1>1, <1>12 DEF ValidateRetrieval, SnapshotRead, Proceed, Unchanged, Missing
  <2>2. At("generating", a).view = a.view /\ At("generating", a).made = a.made
    BY <1>4, Onwards
  <2>3. \A d \in Document : \E e \in embedRuns[d] : e.id = a.view[d][2] /\ e.made = a.digest
    BY <1>6, <2>1
  <2>4. Document # {} => a.made = a.digest
    BY <1>1, <2>1 DEF AskFacts, ModelFacts, NoRows
  <2>5. HeldFacts(At("generating", a))
    BY <2>1, <2>2, <2>3, <2>4 DEF HeldFacts
  <2> QED
    BY <1>10, <1>12, <2>1, <2>5 DEF Holding
<1>13. CASE Generate(r)
  <2>1. /\ a.pc = "generating" /\ since' = since
        /\ ask' = [ask EXCEPT ![r] = At("validatingAnswer", a)]
    BY <1>1, <1>13 DEF Generate, Proceed
  <2> QED
    BY <1>10, <1>11, <2>1 DEF Holding
<1>14. CASE ValidateAnswer(r) /\ Unchanged(r) /\ Proceed(r, "responding")
            /\ since' = [since EXCEPT ![r] = [files |-> intact, digest |-> digest]]
  <2>1. a.pc = "validatingAnswer" /\ ask' = [ask EXCEPT ![r] = At("responding", a)]
    BY <1>1, <1>14 DEF ValidateAnswer, Proceed
  <2>2. PICK next \in Ask :
          /\ next = At("responding", a) /\ next.pc = "responding" /\ next.stage = "outside"
          /\ next.seen = Nothing /\ next.digest = a.digest
    BY <1>4, Onwards
  <2>3. PICK new \in Since : new = [files |-> intact, digest |-> digest]
    BY <1>2 DEF Since
  <2>4. a.digest <= digest /\ digest <= digest
    BY <1>1, <1>2, <2>1 DEF AskFacts, ModelFacts
  <2>5. HeldFacts(next) /\ ModelFacts(next) /\ StageFacts(next)
    BY <1>11, <2>1, <2>2, <2>4 DEF ModelFacts, Holding, StageFacts
  <2>6. new.files = intact /\ new.digest = digest
    BY <2>3
  <2>7. CheckFacts(next, new)
    BY <2>2, <2>4, <2>6, NothingSeen DEF CheckFacts
  <2>8. SeenFacts(next)
    BY <2>2, OutsideFacts
  <2> QED
    BY <1>14, <2>1, <2>2, <2>3, <2>5, <2>7, <2>8 DEF Moves, AskFacts
<1>15. CASE ValidateAnswer(r) /\ since' = since
            /\ ask' = [ask EXCEPT ![r] = [At("generating", ask[r]) EXCEPT !.repaired = TRUE]]
  <2> DEFINE b == At("generating", a)
             next == [b EXCEPT !.repaired = TRUE]
  <2>1. a.pc = "validatingAnswer" /\ ask' = [ask EXCEPT ![r] = next]
    BY <1>1, <1>15 DEF ValidateAnswer
  <2>2. /\ b \in Ask /\ b.pc = "generating" /\ b.stage = "outside" /\ b.seen = Nothing
        /\ b.digest = a.digest /\ HeldFacts(b)
    BY <1>4, <1>11, <2>1, Onwards DEF Holding
  <2> HIDE DEF b
  <2>3. /\ next \in Ask /\ next.pc = b.pc /\ next.stage = b.stage /\ next.seen = b.seen
        /\ next.digest = b.digest /\ next.view = b.view /\ next.made = b.made
    BY <2>2 DEF Ask
  <2> HIDE DEF next
  <2>4. a.digest <= digest
    BY <1>1, <2>1 DEF AskFacts, ModelFacts
  <2>5. ModelFacts(next) /\ CheckFacts(next, h) /\ StageFacts(next)
    BY <2>2, <2>3, <2>4 DEF ModelFacts, CheckFacts, StageFacts
  <2>6. HeldFacts(next)
    BY <2>2, <2>3 DEF HeldFacts
  <2>7. SeenFacts(next) /\ next.pc # "answered"
    BY <2>2, <2>3, OutsideFacts
  <2> QED
    BY <1>3, <1>15, <2>1, <2>3, <2>5, <2>6, <2>7 DEF Moves, AskFacts
<1>16. CASE Respond(r) /\ Unchanged(r) /\ Proceed(r, "answered") /\ since' = since
  <2>1. /\ a.pc = "responding" /\ a.seen = a.view
        /\ ask' = [ask EXCEPT ![r] = At("answered", a)]
    BY <1>1, <1>16 DEF Respond, Proceed, Unchanged
  <2> QED
    BY <1>1, <1>10, <1>11, <1>16, <2>1 DEF Holding
<1>17. CASE Requery(r)
  BY <1>5, <1>9, <1>17 DEF Requery
<1>18. CASE ValidateRetrieval(r)
  BY <1>5, <1>12, <1>18 DEF ValidateRetrieval
<1>19. CASE ValidateAnswer(r)
  BY <1>5, <1>14, <1>15, <1>19 DEF ValidateAnswer
<1>20. CASE Respond(r)
  BY <1>5, <1>16, <1>20 DEF Respond
<1>21. CASE EndRequest(r)
  BY <1>5, <1>21 DEF EndRequest
<1> QED
  BY <1>7, <1>8, <1>13, <1>17, <1>18, <1>19, <1>20, <1>21

LEMMA ReaderMoves ==
  ASSUME IInv, NEW r \in Reader, AskActions(r) PROVE Moves(r)
BY SnapshotMoves, RequestMoves DEF AskActions

LEMMA ReaderSame ==
  ASSUME NEW r \in Reader, AskActions(r)
  PROVE  UNCHANGED <<stamp, storeVars, worldVars, build>>
BY DEF AskActions, Retrieve, Describe, BeginSnapshot, ReadDocument, Select, EmbedQuery,
       Requery, ValidateRetrieval, Generate, ValidateAnswer, Respond, EndRequest

LEMMA ReaderKeepsAsk ==
  ASSUME IInv, NEW r \in Reader, AskActions(r)
  PROVE  TypeOK' /\ AskInv'
<1>1. PICK next \in Ask, h \in Since :
        /\ ask' = [ask EXCEPT ![r] = next] /\ since' = [since EXCEPT ![r] = h]
        /\ AskFacts(next, h)
  BY ReaderMoves DEF Moves
<1>2. /\ ask \in [Reader -> Ask] /\ since \in [Reader -> Since] /\ TypeOK /\ AskInv
      /\ UNCHANGED <<stamp, storeVars, worldVars, build>>
  BY ReaderSame DEF IInv, TypeOK
<1>3. ask' \in [Reader -> Ask] /\ since' \in [Reader -> Since]
  BY <1>1, <1>2
<1>4. TypeOK'
  BY <1>2, <1>3 DEF TypeOK, storeVars, worldVars
<1>5. ASSUME NEW other \in Reader PROVE AskFacts(ask[other], since[other])'
  <2>1. AskFacts(ask'[other], since'[other])
    BY <1>1, <1>2 DEF AskInv
  <2> QED
    BY <1>2, <2>1
       DEF AskFacts, StageFacts, ModelFacts, HeldFacts, SeenFacts, CheckFacts, Backed,
           storeVars, worldVars
<1> QED
  BY <1>4, <1>5 DEF AskInv

-----------------------------------------------------------------------------
(* Layers *)

LayersOf(d) ==
  /\ chunks[d] # 0 => \E c \in chunkRuns[d] :
       c.id = chunks[d] /\ c.parse = pages[d] /\ c.meta = metadata[d]
  /\ vectors[d] # 0 => \E e \in embedRuns[d] :
       e.id = vectors[d] /\ e.source = chunks[d] /\ chunks[d] # 0

\* Whatever replaces or deletes a layer deletes what was derived from it.
LEMMA BuilderKeepsLayers ==
  ASSUME IInv, NEW w \in Builder, BuildActions(w)
  PROVE  DerivedFromStored'
<1>1. TypeOK /\ BuildFacts(build[w]) /\ \A d \in Document : LayersOf(d)
  BY DEF IInv, BuildInv, DerivedFromStored, LayersOf
<1> SUFFICES ASSUME NEW d \in Document PROVE LayersOf(d)'
  BY DEF DerivedFromStored, LayersOf
<1>2. CASE UNCHANGED storeVars
  BY <1>1, <1>2 DEF storeVars, LayersOf
<1>3. ASSUME NEW run, ReplacePages(build[w].doc, run),
             UNCHANGED <<metadata, chunkRuns, embedRuns>>
      PROVE  LayersOf(d)'
  <2>1. CASE d = build[w].doc
    BY <1>1, <1>3, <2>1 DEF ReplacePages, LayersOf, TypeOK
  <2>2. CASE d # build[w].doc
    <3>1. pages'[d] = pages[d] /\ chunks'[d] = chunks[d] /\ vectors'[d] = vectors[d]
      BY <1>1, <1>3, <2>2 DEF ReplacePages, TypeOK
    <3>2. QED
      BY <1>1, <1>3, <3>1 DEF LayersOf
  <2>3. QED
    BY <2>1, <2>2
<1>4. CASE CommitChunks(w) /\ ~UNCHANGED <<chunkRuns, chunks, vectors>>
  <2> DEFINE new == [id |-> build[w].run, parse |-> build[w].source,
                     meta |-> build[w].meta, forced |-> build[w].force]
  <2>1. /\ PagesUnchanged(w)
        /\ chunkRuns' = [chunkRuns EXCEPT ![build[w].doc] = @ \cup {new}]
        /\ chunks' = [chunks EXCEPT ![build[w].doc] = build[w].run]
        /\ vectors' = [vectors EXCEPT ![build[w].doc] = 0]
        /\ UNCHANGED <<metadata, pages, embedRuns>>
    BY <1>4 DEF CommitChunks
  <2>2. /\ new.id = build[w].run /\ new.parse = build[w].source
        /\ new.meta = build[w].meta
    OBVIOUS
  <2> HIDE DEF new
  <2>3. CASE d = build[w].doc
    <3>1. chunks'[d] = build[w].run /\ vectors'[d] = 0 /\ new \in chunkRuns'[d]
      BY <1>1, <2>1, <2>3 DEF TypeOK
    <3>2. new.parse = pages'[d] /\ new.meta = metadata'[d]
      BY <2>1, <2>2, <2>3 DEF PagesUnchanged
    <3>3. QED
      BY <2>2, <3>1, <3>2 DEF LayersOf
  <2>4. CASE d # build[w].doc
    <3>1. /\ chunks'[d] = chunks[d] /\ vectors'[d] = vectors[d]
          /\ chunkRuns'[d] = chunkRuns[d]
      BY <1>1, <2>1, <2>4 DEF TypeOK
    <3>2. QED
      BY <1>1, <2>1, <3>1 DEF LayersOf
  <2>5. QED
    BY <2>3, <2>4
<1>5. CASE CommitVectors(w) /\ ~UNCHANGED <<embedRuns, vectors>>
  <2> DEFINE new == [id |-> build[w].run, source |-> build[w].source,
                     digest |-> build[w].digest, made |-> build[w].made,
                     forced |-> build[w].force]
  <2>1. /\ chunks[build[w].doc] = build[w].source
        /\ embedRuns' = [embedRuns EXCEPT ![build[w].doc] = @ \cup {new}]
        /\ vectors' = [vectors EXCEPT ![build[w].doc] = build[w].run]
        /\ UNCHANGED <<metadata, pages, chunkRuns, chunks>>
    BY <1>5 DEF CommitVectors
  <2>2. new.id = build[w].run /\ new.source = build[w].source
    OBVIOUS
  <2>3. build[w].source # 0
    BY <1>1, <1>5 DEF CommitVectors, BuildFacts
  <2> HIDE DEF new
  <2>4. CASE d = build[w].doc
    <3>1. vectors'[d] = build[w].run /\ new \in embedRuns'[d]
      BY <1>1, <2>1, <2>4 DEF TypeOK
    <3>2. new.source = chunks'[d] /\ chunks'[d] # 0
      BY <2>1, <2>2, <2>3, <2>4
    <3>3. QED
      BY <1>1, <2>1, <2>2, <3>1, <3>2 DEF LayersOf
  <2>5. CASE d # build[w].doc
    <3>1. vectors'[d] = vectors[d] /\ embedRuns'[d] = embedRuns[d]
      BY <1>1, <2>1, <2>5 DEF TypeOK
    <3>2. QED
      BY <1>1, <2>1, <3>1 DEF LayersOf
  <2>6. QED
    BY <2>4, <2>5
<1>6. QED
  <2>1. CASE CommitPages(w)
    BY <1>2, <1>3, <2>1 DEF CommitPages, storeVars
  <2>2. CASE DropPages(w)
    BY <1>3, <2>2 DEF DropPages
  <2>3. CASE CommitChunks(w)
    BY <1>2, <1>4, <2>3 DEF CommitChunks, storeVars
  <2>4. CASE CommitVectors(w)
    BY <1>2, <1>5, <2>4 DEF CommitVectors, storeVars
  <2>5. QED
    BY <1>2, <2>1, <2>2, <2>3, <2>4
       DEF BuildActions, StartIngest, LoadPages, LoadChunks, Parse, VerifyPages, MakeChunks,
           Embed, DescribeAgain, GiveUp

LEMMA WorldKeepsLayers ==
  ASSUME IInv, (\E d \in Document : SwapFile(d) \/ EditDocument(d)) \/ ChangeModel
  PROVE  DerivedFromStored'
<1>1. TypeOK /\ \A d \in Document : LayersOf(d)
  BY DEF IInv, DerivedFromStored, LayersOf
<1> SUFFICES ASSUME NEW d \in Document PROVE LayersOf(d)'
  BY DEF DerivedFromStored, LayersOf
<1>2. CASE UNCHANGED storeVars
  BY <1>1, <1>2 DEF storeVars, LayersOf
<1>3. ASSUME NEW edited \in Document, EditDocument(edited) PROVE LayersOf(d)'
  <2>1. CASE d = edited
    BY <1>1, <1>3, <2>1 DEF EditDocument, LayersOf, TypeOK
  <2>2. CASE d # edited
    <3>1. /\ metadata'[d] = metadata[d] /\ chunks'[d] = chunks[d]
          /\ vectors'[d] = vectors[d] /\ UNCHANGED <<pages, chunkRuns, embedRuns>>
      BY <1>1, <1>3, <2>2 DEF EditDocument, TypeOK
    <3>2. QED
      BY <1>1, <3>1 DEF LayersOf
  <2>3. QED
    BY <2>1, <2>2
<1>4. QED
  BY <1>2, <1>3 DEF SwapFile, ChangeModel

-----------------------------------------------------------------------------
(* The theorems *)

LEMMA StepInv == IInv /\ [Next]_vars => IInv'
<1> SUFFICES ASSUME IInv, [Next]_vars PROVE IInv'
  OBVIOUS
<1>1. /\ TypeOK /\ BuildInv /\ RunsInv /\ AskInv /\ DerivedFromStored
      /\ digest \in Nat /\ digest <= digest /\ digest <= digest + 1 /\ digest + 1 \in Nat
  BY DEF IInv, TypeOK
\* Where neither files nor the history change, the history covers what matches.
<1>2. ASSUME UNCHANGED <<intact, since>>
      PROVE  \A r \in Reader : ask[r].pc = "responding" =>
               /\ since'[r].digest = since[r].digest
               /\ since[r].files \subseteq since'[r].files /\ intact' \subseteq since'[r].files
  BY <1>1, <1>2 DEF AskInv, AskFacts, CheckFacts
<1>3. ASSUME NEW w \in Builder, BuildActions(w) PROVE IInv'
  <2>1. UNCHANGED <<digest, intact, ask, since>>
    BY <1>3
       DEF BuildActions, StartIngest, LoadPages, LoadChunks, Parse, CommitPages, VerifyPages,
           DropPages, MakeChunks, CommitChunks, Embed, DescribeAgain, CommitVectors, GiveUp,
           worldVars
  <2>2. TypeOK'
    BY <1>1, <1>3, BuilderTypes
  <2>3. BuildInv' /\ RunsInv' /\ \A d \in Document : embedRuns[d] \subseteq embedRuns'[d]
    BY <1>3, BuilderKeepsBuild, BuilderKeepsRuns
  <2>4. Barred => UNCHANGED storeVars
    BY <1>3, BarrierHolds
  <2>5. AskInv'
    BY <1>1, <1>2, <2>1, <2>3, <2>4, OthersKeepAsk
  <2>6. DerivedFromStored'
    BY <1>3, BuilderKeepsLayers
  <2>7. QED
    BY <2>2, <2>3, <2>5, <2>6 DEF IInv
<1>4. ASSUME NEW r \in Reader, AskActions(r) PROVE IInv'
  <2>1. UNCHANGED <<stamp, storeVars, worldVars, build>>
    BY <1>4, ReaderSame
  <2>2. TypeOK' /\ AskInv'
    BY <1>4, ReaderKeepsAsk
  <2>3. BuildInv'
    BY <1>1, <2>1, WorldKeepsBuild DEF worldVars
  <2>4. RunsInv' /\ DerivedFromStored'
    BY <1>1, <2>1 DEF RunsInv, DerivedFromStored, storeVars
  <2>5. QED
    BY <2>2, <2>3, <2>4 DEF IInv
<1>5. ASSUME (\E d \in Document : SwapFile(d) \/ EditDocument(d)) \/ ChangeModel
      PROVE  IInv'
  <2>1. /\ UNCHANGED <<build, ask, embedRuns>> /\ (Barred => UNCHANGED storeVars)
        /\ digest' \in Nat /\ digest <= digest'
    BY <1>1, <1>5 DEF SwapFile, EditDocument, ChangeModel, storeVars, worldVars
  <2>2. TypeOK' /\ DerivedFromStored'
    BY <1>1, <1>5, WorldTypes, WorldKeepsLayers DEF IInv
  <2>3. BuildInv'
    BY <1>1, <2>1, WorldKeepsBuild
  <2>4. \A r \in Reader : ask[r].pc = "responding" =>
          /\ since'[r].digest = since[r].digest
          /\ since[r].files \subseteq since'[r].files /\ intact' \subseteq since'[r].files
    <3>1. CASE UNCHANGED <<intact, since>>
      BY <1>2, <3>1
    <3>2. ASSUME NEW d \in Document, SwapFile(d), NEW r \in Reader, ask[r].pc = "responding"
          PROVE  /\ since'[r].digest = since[r].digest
                 /\ since[r].files \subseteq since'[r].files /\ intact' \subseteq since'[r].files
      <4>1. since[r] \in Since
        BY <1>1 DEF TypeOK
      <4>2. since'[r] = [since[r] EXCEPT !.files = @ \cup intact']
        BY <3>2 DEF SwapFile
      <4> QED
        BY <4>1, <4>2 DEF Since
    <3> QED
      BY <1>5, <3>1, <3>2 DEF EditDocument, ChangeModel, worldVars
  <2>5. AskInv'
    BY <1>1, <2>1, <2>4, OthersKeepAsk
  <2>6. RunsInv'
    BY <1>1, <2>1 DEF RunsInv
  <2>7. QED
    BY <2>2, <2>3, <2>5, <2>6 DEF IInv
<1>6. CASE UNCHANGED vars
  <2>1. UNCHANGED <<stamp, storeVars, worldVars, build, ask, since>>
    BY <1>6 DEF vars
  <2>2. TypeOK' /\ RunsInv' /\ DerivedFromStored'
    BY <1>1, <2>1 DEF TypeOK, RunsInv, DerivedFromStored, storeVars, worldVars
  <2>3. BuildInv'
    BY <1>1, <2>1, WorldKeepsBuild DEF worldVars
  <2>4. UNCHANGED <<intact, since, storeVars, embedRuns, digest>>
    BY <2>1 DEF worldVars, storeVars
  <2>5. AskInv'
    BY <1>1, <1>2, <2>1, <2>4, OthersKeepAsk
  <2>6. QED
    BY <2>2, <2>3, <2>5 DEF IInv
<1>7. QED
  BY <1>3, <1>4, <1>5, <1>6 DEF Next, BuildActions, AskActions

LEMMA Invariance == Spec => []IInv
<1>1. QED
  BY InitInv, StepInv, PTL DEF Spec

\* Every variable keeps its type: a stored layer names a timestamp that was
\* handed out, and a builder never names one of the future.
THEOREM TypeCorrect == Spec => []TypeOK
<1>1. IInv => TypeOK
  BY DEF IInv
<1>2. QED
  BY <1>1, Invariance, PTL

\* Whatever was committed while chunks or vectors were computed, the stored
\* ones are derived from the stored layer below: the checks of
\* ChunkIndexService._store and RetrievalService._store and the foreign keys
\* are enough, without any lock across the computation.
THEOREM LayersDerived == Spec => []DerivedFromStored
<1>1. IInv => DerivedFromStored
  BY DEF IInv
<1>2. QED
  BY <1>1, Invariance, PTL

\* A delivered answer compares the question with vectors of the same version
\* of the model, although nothing locks the model while it embeds.
THEOREM EvidenceComparable == Spec => []AnswersComparable
<1>1. IInv => AnswersComparable
  BY DEF IInv, AskInv, AskFacts, HeldFacts, Holding, AnswersComparable
<1>2. QED
  BY <1>1, Invariance, PTL

\* An answer leaves only from the response boundary.
LEMMA AnsweredByRespond ==
  ASSUME IInv, [Next]_vars, NEW r \in Reader,
         ask[r].pc # "answered", ask'[r].pc = "answered"
  PROVE  Respond(r) /\ ask[r].seen = ask[r].view
<1>1. ask' # ask
  OBVIOUS
<1>2. PICK asker \in Reader : AskActions(asker)
  BY <1>1 DEF Next, vars, AskActions, StartIngest, LoadPages, LoadChunks, Parse, CommitPages,
              VerifyPages, DropPages, MakeChunks, CommitChunks, Embed, DescribeAgain,
              CommitVectors, GiveUp, SwapFile, EditDocument, ChangeModel
<1>3. PICK next \in Ask : /\ ask' = [ask EXCEPT ![asker] = next]
                          /\ next.pc = "answered" => Respond(asker) /\ ask[asker].seen = ask[asker].view
  BY <1>2, ReaderMoves DEF Moves
<1>4. ask \in [Reader -> Ask]
  BY DEF IInv, TypeOK
<1>5. asker = r
  BY <1>3, <1>4
<1>6. ask'[r] = next
  BY <1>3, <1>4, <1>5
<1>7. QED
  BY <1>3, <1>5, <1>6

\* When an answer leaves, the last snapshot was taken after the text was final:
\* the stored layers are those of the evidence, made by the model that was in
\* use when that check began, and every file matched at some time since.  The
\* writer barrier is what keeps the documents read first from changing before
\* the last one is read; no lock is held while the model generates.
THEOREM AnswersCurrent == Spec => AnsweredFromCurrentText
<1> DEFINE Current(r, d) ==
      /\ d \in since[r].files
      /\ \E c \in chunkRuns[d], e \in embedRuns[d] :
           /\ c.parse = pages[d] /\ c.meta = metadata[d] /\ c.id = chunks[d]
           /\ e.source = c.id /\ e.made = since[r].digest
           /\ e.id = ask[r].view[d][2] /\ e.id = vectors[d]
    Answered ==
      \A r \in Reader : ask[r].pc # "answered" /\ ask'[r].pc = "answered" =>
        \A d \in Document : Current(r, d)
<1>1. IInv /\ [Next]_vars => [Answered]_vars
  <2> SUFFICES ASSUME IInv, [Next]_vars, NEW r \in Reader,
                      ask[r].pc # "answered", ask'[r].pc = "answered", NEW d \in Document
               PROVE  Current(r, d)
    OBVIOUS
  <2>1. PICK a \in Ask, h \in Since :
          /\ a = ask[r] /\ h = since[r] /\ RunsInv
          /\ HeldFacts(a) /\ SeenFacts(a) /\ CheckFacts(a, h)
    BY DEF IInv, TypeOK, AskInv, AskFacts
  <2>2. Respond(r) /\ a.seen = a.view
    BY <2>1, AnsweredByRespond
  <2>3. a.pc = "responding" /\ a.stage = "reading"
    BY <2>1, <2>2 DEF Respond, SnapshotRead
  <2>4. a.seen[d][2] # 0
    BY <2>1, <2>2, <2>3 DEF HeldFacts, Holding
  <2>5. d \in h.files /\ h.digest = a.digest
    BY <2>1, <2>3, <2>4 DEF CheckFacts
  <2>6. Backed(d, a.view[d], h.digest)
    BY <2>1, <2>2, <2>4, <2>5 DEF SeenFacts
  <2>7. PICK c \in chunkRuns[d], e \in embedRuns[d] :
          /\ c.id = chunks[d] /\ c.parse = pages[d] /\ c.meta = metadata[d]
          /\ e.id = vectors[d] /\ e.source = chunks[d] /\ e.digest = h.digest
    BY <2>6 DEF Backed
  <2>8. e.made = h.digest /\ a.view[d][2] = vectors[d]
    BY <2>1, <2>6, <2>7 DEF RunsInv, Backed
  <2> QED
    BY <2>1, <2>5, <2>7, <2>8
<1>2. QED
  BY <1>1, Invariance, PTL DEF Spec, AnsweredFromCurrentText

-----------------------------------------------------------------------------
(* Without forced builds *)

\* A build of chunks knows pages and metadata that existed, and holds a timestamp
\* no run has; a build of vectors rests on chunks that were committed.
UnforcedBuild(w) ==
  /\ ~build[w].force
  /\ build[w].pc \in {"chunking", "committingChunks"} =>
       /\ build[w].doc \in Document /\ build[w].source \in 1..stamp
       /\ build[w].meta <= metadata[build[w].doc]
  /\ build[w].pc = "committingChunks" =>
       /\ build[w].run \in 1..stamp
       /\ \A c \in chunkRuns[build[w].doc] : c.id # build[w].run
       /\ \A v \in Builder \ {w} : build[v].pc = "committingChunks" => build[v].run # build[w].run
  /\ build[w].pc \in {"embedding", "describing", "committingVectors"} =>
       /\ build[w].doc \in Document
       /\ \E c \in chunkRuns[build[w].doc] : c.id = build[w].source

\* Only the stored run has the present pages and metadata; only the stored
\* vectors are those of the stored chunks.
UnforcedRuns(d) ==
  /\ \A c \in chunkRuns[d] :
       /\ c.parse \in 1..stamp /\ c.meta <= metadata[d]
       /\ c.parse = pages[d] /\ c.meta = metadata[d] => c.id = chunks[d]
  /\ \A e \in embedRuns[d] : \E c \in chunkRuns[d] : c.id = e.source
  /\ OneVersion(d) => \A e \in embedRuns[d] : e.source = chunks[d] => e.id = vectors[d]

UnforcedInv ==
  /\ \A w \in Builder : UnforcedBuild(w)
  /\ \A d \in Document : UnforcedRuns(d)

LEMMA InitUnforced == Init => UnforcedInv
BY DEF Init, UnforcedInv, UnforcedBuild, UnforcedRuns, OneVersion, Resting

\* What is stored is the newest of the runs it is compared with.
LEMMA StoredFound ==
  ASSUME NEW S, NEW stored \in Nat \ {0}, \A r \in S : r.id = stored
  PROVE  IfStored(S, stored) = IF S = {} THEN 0 ELSE stored
<1>1. CASE S = {}
  BY <1>1 DEF IfStored
<1>2. CASE S # {}
  <2>1. PICK r \in S : r.id = stored
    BY <1>2
  <2>2. \A other \in S : other.id <= stored
    OBVIOUS
  <2> QED
    BY <1>2, <2>1, <2>2 DEF IfStored
<1> QED
  BY <1>1, <1>2

\* Chunks are current exactly when they are stored.
LEMMA ChunksFound ==
  ASSUME IInv, UnforcedInv, NEW d \in Document
  PROVE  /\ CurrentChunks(d) = chunks[d]
         /\ chunks[d] = 0 /\ pages[d] # 0 =>
              ~\E c \in chunkRuns[d] : c.parse = pages[d] /\ c.meta = metadata[d]
<1> DEFINE S == {r \in chunkRuns[d] : r.parse = pages[d] /\ r.meta = metadata[d]}
<1>1. /\ chunks[d] \in Nat /\ pages[d] \in Nat /\ stamp \in Nat
      /\ \A c \in chunkRuns[d] : c.id \in 1..stamp
  BY DEF IInv, TypeOK
<1>2. \A c \in chunkRuns[d] : /\ c.parse \in 1..stamp
                              /\ c.parse = pages[d] /\ c.meta = metadata[d] => c.id = chunks[d]
  BY DEF UnforcedInv, UnforcedRuns
<1>3. chunks[d] # 0 => S # {} /\ pages[d] # 0
  <2> SUFFICES ASSUME chunks[d] # 0
               PROVE  S # {} /\ pages[d] # 0
    OBVIOUS
  <2>1. PICK c \in chunkRuns[d] : c.id = chunks[d] /\ c.parse = pages[d] /\ c.meta = metadata[d]
    BY DEF IInv, DerivedFromStored
  <2> QED
    BY <1>1, <1>2, <2>1
<1>4. \A r \in S : r.id = chunks[d]
  BY <1>2
<1>5. chunks[d] = 0 => S = {}
  BY <1>1, <1>4
<1>6. CASE chunks[d] # 0
  <2>1. IfStored(S, chunks[d]) = chunks[d]
    <3> HIDE DEF S
    <3> QED
      BY <1>1, <1>3, <1>4, <1>6, StoredFound
  <2> QED
    BY <1>3, <1>6, <2>1 DEF CurrentChunks
<1>7. CASE chunks[d] = 0
  <2>1. IfStored(S, chunks[d]) = 0
    <3> HIDE DEF S
    <3> QED
      BY <1>5, <1>7 DEF IfStored
  <2> QED
    BY <1>5, <1>7, <2>1 DEF CurrentChunks
<1> QED
  BY <1>6, <1>7

LEMMA VectorsFound ==
  ASSUME IInv, UnforcedInv, NEW d \in Document, vectors[d] # 0, OneVersion(d)
  PROVE  \E e \in embedRuns[d] : e.id = vectors[d] /\ CurrentVectors(d, chunks[d], e.digest) = vectors[d]
<1>1. PICK e \in embedRuns[d] : e.id = vectors[d] /\ e.source = chunks[d] /\ chunks[d] # 0
  BY DEF IInv, DerivedFromStored
<1>2. PICK S : S = {r \in embedRuns[d] : r.source = chunks[d] /\ r.digest = e.digest}
  OBVIOUS
<1>3. e \in S /\ \A r \in S : r.id = vectors[d]
  BY <1>1, <1>2 DEF UnforcedInv, UnforcedRuns
<1>4. vectors[d] \in Nat \ {0}
  BY DEF IInv, TypeOK
<1>5. IfStored(S, vectors[d]) = vectors[d]
  BY <1>3, <1>4, StoredFound
<1> QED
  BY <1>1, <1>2, <1>5 DEF CurrentVectors

LEMMA UnforcedCurrent == IInv /\ UnforcedInv => StoredIsCurrent
BY ChunksFound, VectorsFound DEF StoredIsCurrent

LEMMA UnforcedFacts ==
  ASSUME IInv, UnforcedInv
  PROVE  /\ TypeOK /\ stamp \in Nat
         /\ \A w \in Builder : build[w] \in Build /\ build[w].run <= stamp /\ UnforcedBuild(w)
         /\ \A d \in Document : UnforcedRuns(d)
         /\ \A d \in Document : pages[d] \in 0..stamp /\ metadata[d] \in Nat
         /\ \A d \in Document : \A c \in chunkRuns[d] : c.id \in 1..stamp /\ c.meta \in Nat /\ c.parse \in Nat
BY DEF IInv, UnforcedInv, TypeOK, ChunkRun

\* A document whose rows and runs stay keeps what is known of them.
LEMMA RunsSame ==
  ASSUME IInv, UnforcedInv, NEW d \in Document, stamp' \in Nat, stamp <= stamp',
         pages'[d] = pages[d], metadata'[d] = metadata[d], chunkRuns'[d] = chunkRuns[d],
         chunks'[d] = chunks[d], embedRuns'[d] = embedRuns[d], vectors'[d] = vectors[d]
  PROVE  UnforcedRuns(d)'
<1>1. UnforcedRuns(d) /\ stamp \in Nat
  BY UnforcedFacts
<1> QED
  BY <1>1 DEF UnforcedRuns, OneVersion

\* What one builder does disturbs no other: a run it commits has its own timestamp.
LEMMA BuildsStep ==
  ASSUME IInv, UnforcedInv, NEW w \in Builder, NEW next \in Build,
         build' = [build EXCEPT ![w] = next], UnforcedBuild(w)',
         stamp' \in Nat, stamp <= stamp', metadata' = metadata,
         \A d \in Document : chunkRuns[d] \subseteq chunkRuns'[d],
         \A d \in Document : \A c \in chunkRuns'[d] :
           c \in chunkRuns[d] \/ (build[w].pc = "committingChunks" /\ c.id = build[w].run)
  PROVE  \A v \in Builder : UnforcedBuild(v)'
<1> TAKE v \in Builder
<1>1. CASE v = w
  BY <1>1
<1>2. CASE v # w
  <2>1. build'[v] = build[v] /\ build'[w] = next
    BY <1>2 DEF IInv, TypeOK
  <2>2. UnforcedBuild(v) /\ stamp \in Nat
    BY UnforcedFacts
  <2>3. ASSUME build[v].pc = "committingChunks"
        PROVE  /\ \A c \in chunkRuns'[build[v].doc] : c.id # build[v].run
               /\ \A u \in Builder \ {v} : build'[u].pc = "committingChunks" => build'[u].run # build[v].run
    <3>1. build[v].doc \in Document /\ w \in Builder \ {v}
      BY <1>2, <2>2, <2>3 DEF UnforcedBuild
    <3>2. \A c \in chunkRuns'[build[v].doc] : c.id # build[v].run
      BY <2>2, <2>3, <3>1 DEF UnforcedBuild
    <3>3. ASSUME NEW u \in Builder \ {v}, build'[u].pc = "committingChunks"
          PROVE  build'[u].run # build[v].run
      <4>1. CASE u = w
        BY <1>2, <2>1, <2>3, <3>3, <4>1 DEF UnforcedBuild
      <4>2. CASE u # w
        <5>1. build'[u] = build[u]
          BY <3>3, <4>2 DEF IInv, TypeOK
        <5> QED
          BY <2>2, <2>3, <3>3, <5>1 DEF UnforcedBuild
      <4> QED
        BY <4>1, <4>2
    <3> QED
      BY <3>2, <3>3
  <2>4. build[v].pc = "committingChunks" => build[v].run \in 1..stamp'
    BY <2>2 DEF UnforcedBuild
  <2>5. build[v].pc \in {"chunking", "committingChunks"} =>
          /\ build[v].doc \in Document /\ build[v].source \in 1..stamp'
          /\ build[v].meta <= metadata'[build[v].doc]
    BY <2>2 DEF UnforcedBuild
  <2>6. build[v].pc \in {"embedding", "describing", "committingVectors"} =>
          /\ build[v].doc \in Document
          /\ \E c \in chunkRuns'[build[v].doc] : c.id = build[v].source
    BY <2>2 DEF UnforcedBuild
  <2>7. ~build[v].force
    BY <2>2 DEF UnforcedBuild
  <2> QED
    BY <2>1, <2>3, <2>4, <2>5, <2>6, <2>7 DEF UnforcedBuild
<1> QED
  BY <1>1, <1>2

Working == {"chunking", "committingChunks", "embedding", "describing", "committingVectors"}

\* Resting, or at work on pages.
LEMMA QuietBuild ==
  ASSUME IInv, UnforcedInv, NEW w \in Builder, NEW next \in Build,
         build' = [build EXCEPT ![w] = next], next.pc \notin Working, ~next.force
  PROVE  UnforcedBuild(w)'
<1>1. build'[w] = next
  BY DEF IInv, TypeOK
<1> QED
  BY <1>1 DEF UnforcedBuild, Working

LEMMA QuietRest ==
  ASSUME IInv, UnforcedInv, NEW w \in Builder, Rest(w)
  PROVE  UnforcedBuild(w)' /\ \E next \in Build : build' = [build EXCEPT ![w] = next]
<1>1. Resting.pc \notin Working /\ ~Resting.force
  BY DEF Resting, Working
<1>2. build' = [build EXCEPT ![w] = Resting]
  BY DEF Rest
<1> QED
  BY <1>1, <1>2, RestingBuild, QuietBuild

LEMMA QuietStep ==
  ASSUME IInv, UnforcedInv, NEW w \in Builder,
         NEW phase \in {"committingPages", "verifyingPages", "droppingPages"}, Step(w, phase)
  PROVE  UnforcedBuild(w)' /\ \E next \in Build : build' = [build EXCEPT ![w] = next]
<1>1. PICK next : next = [build[w] EXCEPT !.pc = phase]
  OBVIOUS
<1>2. build[w] \in Build /\ ~build[w].force
  BY UnforcedFacts DEF UnforcedBuild
<1>3. next \in Build /\ next.pc \notin Working /\ next.force = build[w].force
  BY <1>1, <1>2 DEF Build, BuildPhase, Working
<1>4. build' = [build EXCEPT ![w] = next]
  BY <1>1 DEF Step
<1> QED
  BY <1>2, <1>3, <1>4, QuietBuild

\* A builder's step that stores nothing.
LEMMA StoresNothing ==
  ASSUME IInv, UnforcedInv, NEW w \in Builder, UnforcedBuild(w)',
         \E next \in Build : build' = [build EXCEPT ![w] = next],
         stamp' \in Nat, stamp <= stamp', UNCHANGED storeVars
  PROVE  UnforcedInv'
<1>1. PICK next \in Build : build' = [build EXCEPT ![w] = next]
  OBVIOUS
<1>2. UNCHANGED <<metadata, pages, chunkRuns, chunks, embedRuns, vectors>>
  BY DEF storeVars
<1>3. \A v \in Builder : UnforcedBuild(v)'
  BY <1>1, <1>2, BuildsStep
<1>4. \A d \in Document : UnforcedRuns(d)'
  BY <1>2, RunsSame
<1> QED
  BY <1>3, <1>4 DEF UnforcedInv

LEMMA UnforcedLoads ==
  ASSUME IInv, UnforcedInv, TRUE \notin Forces, NEW w \in Builder, NEW d \in Document, NEW force \in Forces,
         StartIngest(w, d, force) \/ LoadPages(w, d, force) \/ LoadChunks(w, d, force)
  PROVE  UnforcedInv'
<1>1. force = FALSE
  BY ForcesAssumption
<1>2. UNCHANGED <<stamp, storeVars>> /\ stamp \in Nat
  BY UnforcedFacts DEF StartIngest, LoadPages, LoadChunks
<1>3. UNCHANGED <<metadata, pages, chunkRuns, chunks, embedRuns, vectors>>
  BY <1>2 DEF storeVars
<1>7. stamp' \in Nat /\ stamp <= stamp' /\ UNCHANGED storeVars
  BY <1>2
<1>4. CASE StartIngest(w, d, force)
  <2>1. PICK next : next = [Resting EXCEPT !.pc = "parsing", !.doc = d, !.force = force]
    OBVIOUS
  <2>2. next \in Build /\ next.pc \notin Working /\ ~next.force
    BY <1>1, <2>1 DEF Resting, Build, BuildPhase, Working
  <2>3. build' = [build EXCEPT ![w] = next]
    BY <1>4, <2>1 DEF StartIngest
  <2>4. UnforcedBuild(w)'
    BY <2>2, <2>3, QuietBuild
  <2> QED
    BY <1>7, <2>2, <2>3, <2>4, StoresNothing
<1>5. CASE LoadPages(w, d, force)
  <2>1. PICK next : next = [Resting EXCEPT !.pc = "chunking", !.doc = d, !.force = force,
                                           !.source = pages[d], !.meta = metadata[d]]
    OBVIOUS
  <2>2. pages[d] \in 1..stamp /\ metadata[d] \in Nat
    BY <1>2, <1>5, UnforcedFacts DEF LoadPages
  <2>6. PICK p \in Nat, m \in Nat : p = pages[d] /\ m = metadata[d]
    BY <1>2, <2>2
  <2>7. next = [pc |-> "chunking", doc |-> d, force |-> FALSE, source |-> p, meta |-> m,
                digest |-> 0, made |-> 0, run |-> 0]
    BY <1>1, <2>1, <2>6 DEF Resting
  <2>3. /\ next \in Build /\ next.pc = "chunking" /\ next.doc = d /\ ~next.force
        /\ next.source = pages[d] /\ next.meta = metadata[d]
    BY <2>6, <2>7 DEF Build, BuildPhase
  <2>4. build' = [build EXCEPT ![w] = next] /\ build'[w] = next
    BY <1>5, <2>1, UnforcedFacts DEF LoadPages, TypeOK
  <2>5. UnforcedBuild(w)'
    BY <1>2, <1>3, <2>2, <2>3, <2>4 DEF UnforcedBuild
  <2> QED
    BY <1>7, <2>3, <2>4, <2>5, StoresNothing
<1>6. CASE LoadChunks(w, d, force)
  <2>1. PICK next : next = [Resting EXCEPT !.pc = "embedding", !.doc = d, !.force = force,
                                           !.source = CurrentChunks(d), !.digest = digest]
    OBVIOUS
  <2>2. CurrentChunks(d) = chunks[d] /\ chunks[d] # 0 /\ chunks[d] \in Nat /\ digest \in Nat
    BY <1>6, ChunksFound DEF LoadChunks, IInv, TypeOK
  <2>3. \E c \in chunkRuns[d] : c.id = chunks[d]
    BY <2>2 DEF IInv, DerivedFromStored
  <2>4. /\ next \in Build /\ next.pc = "embedding" /\ next.doc = d /\ ~next.force
        /\ next.source = chunks[d]
    BY <1>1, <2>1, <2>2 DEF Resting, Build, BuildPhase
  <2>5. build' = [build EXCEPT ![w] = next] /\ build'[w] = next
    BY <1>6, <2>1, UnforcedFacts DEF LoadChunks, TypeOK
  <2>6. UnforcedBuild(w)'
    BY <1>3, <2>3, <2>4, <2>5 DEF UnforcedBuild
  <2> QED
    BY <1>7, <2>4, <2>5, <2>6, StoresNothing
<1> QED
  BY <1>4, <1>5, <1>6

LEMMA UnforcedComputes ==
  ASSUME IInv, UnforcedInv, NEW w \in Builder, MakeChunks(w) \/ Embed(w) \/ DescribeAgain(w)
  PROVE  UnforcedInv'
<1>1. PICK b \in Build : b = build[w]
  BY UnforcedFacts
<1>2. /\ UNCHANGED storeVars /\ stamp \in Nat /\ stamp' \in Nat /\ stamp <= stamp'
      /\ UnforcedBuild(w) /\ ~b.force
  BY <1>1, UnforcedFacts DEF MakeChunks, Embed, DescribeAgain, UnforcedBuild
<1>3. UNCHANGED <<metadata, pages, chunkRuns, chunks, embedRuns, vectors>>
  BY <1>2 DEF storeVars
<1>4. CASE MakeChunks(w)
  <2>1. PICK next : next = [b EXCEPT !.pc = "committingChunks", !.run = stamp']
    OBVIOUS
  <2>2. stamp' = stamp + 1 /\ b.pc = "chunking"
    BY <1>1, <1>4 DEF MakeChunks
  <2>3. build' = [build EXCEPT ![w] = next]
    BY <1>1, <1>4, <2>1 DEF MakeChunks
  <2>4. /\ next \in Build /\ next.pc = "committingChunks" /\ next.run = stamp + 1 /\ next.doc = b.doc
        /\ next.source = b.source /\ next.meta = b.meta /\ next.force = b.force
    BY <1>2, <2>1, <2>2 DEF Build, BuildPhase
  <2>5. build'[w] = next /\ \A v \in Builder \ {w} : build'[v] = build[v]
    BY <2>3, UnforcedFacts DEF TypeOK
  <2>6. b.doc \in Document /\ b.source \in 1..stamp' /\ b.meta <= metadata[b.doc]
    BY <1>1, <1>2, <2>2 DEF UnforcedBuild
  <2>7. \A c \in chunkRuns[b.doc] : c.id # stamp + 1
    BY <1>2, <2>6, UnforcedFacts
  <2>8. \A v \in Builder \ {w} : build[v].run # stamp + 1
    <3> TAKE v \in Builder \ {w}
    <3>1. build[v].run \in Nat /\ build[v].run <= stamp
      BY UnforcedFacts DEF Build
    <3> QED
      BY <1>2, <3>1
  <2>9. next.run \in 1..stamp'
    BY <1>2, <2>2, <2>4
  <2>10. UnforcedBuild(w)'
    BY <1>2, <1>3, <2>4, <2>5, <2>6, <2>7, <2>8, <2>9 DEF UnforcedBuild
  <2> QED
    BY <1>2, <2>3, <2>4, <2>10, StoresNothing
<1>5. ASSUME NEW next \in Build, build' = [build EXCEPT ![w] = next],
             b.pc \in {"embedding", "describing"}, next.pc \in {"describing", "committingVectors"},
             next.doc = b.doc, next.source = b.source, ~next.force
      PROVE  UnforcedInv'
  <2>1. build'[w] = next
    BY <1>5, UnforcedFacts DEF TypeOK
  <2>2. UnforcedBuild(w)'
    BY <1>1, <1>2, <1>3, <1>5, <2>1 DEF UnforcedBuild
  <2> QED
    BY <1>2, <1>5, <2>2, StoresNothing
<1>6. CASE Embed(w)
  <2>1. PICK next : next = [b EXCEPT !.pc = "describing", !.made = digest]
    OBVIOUS
  <2>2. next \in Build /\ next.pc = "describing" /\ next.doc = b.doc /\ next.source = b.source /\ next.force = b.force
    BY <2>1, UnforcedFacts DEF Build, BuildPhase, TypeOK
  <2>3. build' = [build EXCEPT ![w] = next] /\ b.pc = "embedding"
    BY <1>1, <1>6, <2>1 DEF Embed
  <2> QED
    BY <1>2, <1>5, <2>2, <2>3
<1>7. CASE DescribeAgain(w) /\ Rest(w)
  BY <1>2, <1>7, QuietRest, StoresNothing
<1>8. CASE DescribeAgain(w) /\ ~Rest(w)
  <2>1. PICK next : next = [b EXCEPT !.pc = "committingVectors", !.run = stamp']
    OBVIOUS
  <2>2. next \in Build /\ next.pc = "committingVectors" /\ next.doc = b.doc /\ next.source = b.source /\ next.force = b.force
    BY <1>2, <2>1 DEF Build, BuildPhase
  <2>3. build' = [build EXCEPT ![w] = next] /\ b.pc = "describing"
    BY <1>1, <1>8, <2>1 DEF DescribeAgain
  <2> QED
    BY <1>2, <1>5, <2>2, <2>3
<1> QED
  BY <1>4, <1>6, <1>7, <1>8
\* Steps of a builder that change the rows of one document, or of none.
LEMMA StoresSomething ==
  ASSUME IInv, UnforcedInv, NEW w \in Builder, UnforcedBuild(w)',
         \E next \in Build : build' = [build EXCEPT ![w] = next],
         stamp' \in Nat, stamp <= stamp', UNCHANGED <<metadata, chunkRuns>>,
         \A d \in Document : UnforcedRuns(d)'
  PROVE  UnforcedInv'
<1>1. PICK next \in Build : build' = [build EXCEPT ![w] = next]
  OBVIOUS
<1>2. \A v \in Builder : UnforcedBuild(v)'
  BY <1>1, BuildsStep
<1> QED
  BY <1>2 DEF UnforcedInv

\* No run is of pages that are new, or of pages that are gone.
LEMMA PagesReplaced ==
  ASSUME IInv, UnforcedInv, NEW d, NEW run \in Nat, ReplacePages(d, run), run \notin 1..stamp,
         stamp' \in Nat, stamp <= stamp', UNCHANGED <<metadata, chunkRuns, embedRuns>>
  PROVE  \A other \in Document : UnforcedRuns(other)'
<1> TAKE other \in Document
<1>1. /\ UnforcedRuns(other) /\ stamp \in Nat
      /\ \A c \in chunkRuns[other] : c.id \in 1..stamp /\ c.parse \in Nat
  BY UnforcedFacts
<1>2. CASE other = d
  <2>1. pages'[other] = run /\ chunks'[other] = 0 /\ vectors'[other] = 0
    BY <1>2 DEF ReplacePages, IInv, TypeOK
  <2>2. \A c \in chunkRuns[other] : c.parse \in 1..stamp' /\ c.parse # run /\ c.meta <= metadata[other]
    BY <1>1 DEF UnforcedRuns
  <2>3. \A e \in embedRuns[other] : e.source # 0 /\ \E c \in chunkRuns[other] : c.id = e.source
    BY <1>1 DEF UnforcedRuns
  <2> QED
    BY <2>1, <2>2, <2>3 DEF UnforcedRuns
<1>3. CASE other # d
  <2>1. pages'[other] = pages[other] /\ chunks'[other] = chunks[other] /\ vectors'[other] = vectors[other]
    BY <1>3 DEF ReplacePages, IInv, TypeOK
  <2> QED
    BY <2>1, RunsSame
<1> QED
  BY <1>2, <1>3

LEMMA UnforcedPages ==
  ASSUME IInv, UnforcedInv, NEW w \in Builder,
         Parse(w) \/ CommitPages(w) \/ VerifyPages(w) \/ DropPages(w) \/ GiveUp(w)
  PROVE  UnforcedInv'
<1>1. stamp \in Nat
  BY UnforcedFacts
<1>2. UnforcedBuild(w)' /\ \E next \in Build : build' = [build EXCEPT ![w] = next]
  BY QuietRest, QuietStep DEF Parse, CommitPages, VerifyPages, DropPages, GiveUp
<1>3. CASE UNCHANGED <<stamp, storeVars>>
  <2>1. stamp' \in Nat /\ stamp <= stamp' /\ UNCHANGED storeVars
    BY <1>1, <1>3
  <2> QED
    BY <1>2, <2>1, StoresNothing
<1>4. CASE /\ UNCHANGED <<metadata, chunkRuns, embedRuns>>
           /\ \/ ReplacePages(build[w].doc, 0) /\ stamp' = stamp
              \/ ReplacePages(build[w].doc, stamp') /\ stamp' = stamp + 1
  <2>1. PICK run \in Nat : ReplacePages(build[w].doc, run) /\ run \notin 1..stamp
    BY <1>1, <1>4
  <2>2. stamp' \in Nat /\ stamp <= stamp' /\ UNCHANGED <<metadata, chunkRuns, embedRuns>>
    BY <1>1, <1>4
  <2>3. \A d \in Document : UnforcedRuns(d)'
    BY <2>1, <2>2, PagesReplaced
  <2> QED
    BY <1>2, <2>2, <2>3, StoresSomething
<1>5. CASE CommitPages(w)
  BY <1>3, <1>4, <1>5 DEF CommitPages, storeVars
<1>6. CASE DropPages(w)
  BY <1>4, <1>6 DEF DropPages
<1>7. CASE Parse(w) \/ VerifyPages(w) \/ GiveUp(w)
  BY <1>3, <1>7 DEF Parse, VerifyPages, GiveUp
<1> QED
  BY <1>5, <1>6, <1>7

\* New metadata make every stored chunk obsolete.
LEMMA UnforcedEdits ==
  ASSUME IInv, UnforcedInv, NEW d \in Document, EditDocument(d)
  PROVE  UnforcedInv'
<1>1. UNCHANGED <<stamp, pages, chunkRuns, embedRuns, build>> /\ stamp \in Nat
  BY UnforcedFacts DEF EditDocument
<1>2. PICK m \in Nat : m = metadata[d]
  BY UnforcedFacts
<1>3. /\ metadata' = [metadata EXCEPT ![d] = m + 1]
      /\ chunks' = [chunks EXCEPT ![d] = 0] /\ vectors' = [vectors EXCEPT ![d] = 0]
  BY <1>2 DEF EditDocument
<1>4. \A other \in Document : /\ metadata[other] \in Nat /\ metadata'[other] \in Nat
                              /\ metadata[other] <= metadata'[other]
  BY <1>2, <1>3, UnforcedFacts DEF IInv, TypeOK
<1>5. \A w \in Builder : UnforcedBuild(w)'
  <2> TAKE w \in Builder
  <2>1. UnforcedBuild(w) /\ build[w].meta \in Nat
    BY UnforcedFacts DEF Build
  <2>2. ASSUME NEW other \in Document, build[w].meta <= metadata[other]
        PROVE  build[w].meta <= metadata'[other]
    <3>1. PICK x \in Nat, y \in Nat, z \in Nat : x = build[w].meta /\ y = metadata[other] /\ z = metadata'[other]
      BY <1>4, <2>1
    <3>2. x <= y /\ y <= z
      BY <1>4, <2>2, <3>1
    <3> QED
      BY <3>1, <3>2
  <2> QED
    BY <1>1, <2>1, <2>2 DEF UnforcedBuild
<1>6. \A other \in Document : UnforcedRuns(other)'
  <2> TAKE other \in Document
  <2>1. UnforcedRuns(other) /\ \A c \in chunkRuns[other] : c.id \in 1..stamp /\ c.meta \in Nat
    BY UnforcedFacts
  <2>2. CASE other = d
    <3>1. chunks'[other] = 0 /\ vectors'[other] = 0 /\ metadata'[other] = m + 1
      BY <1>3, <2>2 DEF IInv, TypeOK
    <3>2. \A c \in chunkRuns[other] : c.meta <= m
      BY <1>2, <2>1, <2>2 DEF UnforcedRuns
    <3>3. \A c \in chunkRuns[other] : c.parse \in 1..stamp /\ c.meta <= m + 1 /\ c.meta # m + 1
      BY <2>1, <3>2 DEF UnforcedRuns
    <3>4. \A e \in embedRuns[other] : e.source # 0 /\ \E c \in chunkRuns[other] : c.id = e.source
      BY <1>1, <2>1 DEF UnforcedRuns
    <3> QED
      BY <1>1, <3>1, <3>3, <3>4 DEF UnforcedRuns
  <2>3. CASE other # d
    <3>1. metadata'[other] = metadata[other] /\ chunks'[other] = chunks[other] /\ vectors'[other] = vectors[other]
      BY <1>3, <2>3 DEF IInv, TypeOK
    <3>2. stamp' \in Nat /\ stamp <= stamp'
      BY <1>1
    <3> QED
      BY <1>1, <3>1, <3>2, RunsSame
  <2> QED
    BY <2>2, <2>3
<1> QED
  BY <1>5, <1>6 DEF UnforcedInv
\* Chunks are committed where none were stored, so that their run is the only
\* one of these pages and metadata; no vectors rest on it yet.
LEMMA UnforcedChunks ==
  ASSUME IInv, UnforcedInv, NEW w \in Builder, CommitChunks(w)
  PROVE  UnforcedInv'
<1>1. /\ UnforcedBuild(w)' /\ \E next \in Build : build' = [build EXCEPT ![w] = next]
      /\ stamp' = stamp /\ stamp \in Nat /\ UNCHANGED <<metadata, pages, embedRuns>>
  BY QuietRest, UnforcedFacts DEF CommitChunks
<1>2. CASE UNCHANGED <<chunkRuns, chunks, vectors>>
  <2>1. stamp' \in Nat /\ stamp <= stamp' /\ UNCHANGED storeVars
    BY <1>1, <1>2 DEF storeVars
  <2> QED
    BY <1>1, <2>1, StoresNothing
<1>3. CASE PagesUnchanged(w) /\ (build[w].force \/ CurrentChunks(build[w].doc) = 0)
  <2>1. PICK b \in Build : b = build[w]
    BY UnforcedFacts
  <2>2. /\ b.pc = "committingChunks" /\ b.doc \in Document /\ ~b.force
        /\ b.source \in 1..stamp /\ b.run \in 1..stamp
        /\ \A c \in chunkRuns[b.doc] : c.id # b.run
    BY <2>1, UnforcedFacts DEF UnforcedBuild, CommitChunks
  <2>3. PICK d \in Document : d = b.doc
    BY <2>2
  <2>4. metadata[d] = b.meta /\ pages[d] = b.source /\ chunks[d] = 0
    BY <1>3, <2>1, <2>2, <2>3, ChunksFound DEF PagesUnchanged
  <2>5. ~\E c \in chunkRuns[d] : c.parse = pages[d] /\ c.meta = metadata[d]
    BY <2>2, <2>4, ChunksFound
  <2>6. PICK new : new = [id |-> b.run, parse |-> b.source, meta |-> b.meta, forced |-> b.force]
    OBVIOUS
  <2>7. PICK runs : runs = chunkRuns[d] \cup {new}
    OBVIOUS
  <2>8. /\ chunkRuns' = [chunkRuns EXCEPT ![d] = runs]
        /\ chunks' = [chunks EXCEPT ![d] = b.run]
        /\ vectors' = [vectors EXCEPT ![d] = 0]
    BY <1>3, <2>1, <2>3, <2>6, <2>7 DEF CommitChunks
  <2>9. /\ chunkRuns'[d] = runs /\ chunks'[d] = b.run /\ vectors'[d] = 0
        /\ \A other \in Document \ {d} : /\ chunkRuns'[other] = chunkRuns[other]
                                         /\ chunks'[other] = chunks[other]
                                         /\ vectors'[other] = vectors[other]
    BY <2>8 DEF IInv, TypeOK
  <2>10. UnforcedRuns(d)'
    <3>1. \A c \in runs : c \in chunkRuns[d] \/ c = new
      BY <2>7
    <3>2. UnforcedRuns(d)
      BY UnforcedFacts
    <3>3. /\ new.parse \in 1..stamp /\ new.meta <= metadata[d] /\ new.id = b.run
      BY <2>2, <2>4, <2>6, UnforcedFacts
    <3>4. \A c \in runs : /\ c.parse \in 1..stamp /\ c.meta <= metadata[d]
                          /\ c.parse = pages[d] /\ c.meta = metadata[d] => c.id = b.run
      BY <2>5, <3>1, <3>2, <3>3 DEF UnforcedRuns
    <3>5. \A e \in embedRuns[d] : e.source # b.run /\ \E c \in runs : c.id = e.source
      BY <2>2, <2>3, <2>7, <3>2 DEF UnforcedRuns
    <3> QED
      BY <1>1, <2>9, <3>4, <3>5 DEF UnforcedRuns
  <2>11. \A other \in Document : UnforcedRuns(other)'
    BY <1>1, <2>9, <2>10, RunsSame
  <2>12. /\ \A other \in Document : chunkRuns[other] \subseteq chunkRuns'[other]
         /\ \A other \in Document : \A c \in chunkRuns'[other] :
              c \in chunkRuns[other] \/ (build[w].pc = "committingChunks" /\ c.id = build[w].run)
    <3> SUFFICES ASSUME NEW other \in Document
                 PROVE  /\ chunkRuns[other] \subseteq chunkRuns'[other]
                        /\ \A c \in chunkRuns'[other] :
                             c \in chunkRuns[other] \/ (build[w].pc = "committingChunks" /\ c.id = build[w].run)
      OBVIOUS
    <3>1. CASE other = d
      BY <2>1, <2>2, <2>6, <2>7, <2>9, <3>1
    <3>2. CASE other # d
      BY <2>9, <3>2
    <3> QED
      BY <3>1, <3>2
  <2>13. PICK next \in Build : build' = [build EXCEPT ![w] = next]
    BY <1>1
  <2>14. stamp' \in Nat /\ stamp <= stamp' /\ metadata' = metadata
    BY <1>1
  <2>15. \A v \in Builder : UnforcedBuild(v)'
    BY <1>1, <2>12, <2>13, <2>14, BuildsStep
  <2> QED
    BY <2>11, <2>15 DEF UnforcedInv
<1> QED
  BY <1>2, <1>3 DEF CommitChunks

\* Vectors are committed where none of this version were stored: either another
\* version has embedded these chunks, or their run is the only one.
LEMMA UnforcedVectors ==
  ASSUME IInv, UnforcedInv, NEW w \in Builder, CommitVectors(w)
  PROVE  UnforcedInv'
<1>1. /\ UnforcedBuild(w)' /\ \E next \in Build : build' = [build EXCEPT ![w] = next]
      /\ stamp' = stamp /\ stamp \in Nat /\ UNCHANGED <<metadata, pages, chunkRuns, chunks>>
  BY QuietRest, UnforcedFacts DEF CommitVectors
<1>2. CASE UNCHANGED <<embedRuns, vectors>>
  <2>1. stamp' \in Nat /\ stamp <= stamp' /\ UNCHANGED storeVars
    BY <1>1, <1>2 DEF storeVars
  <2> QED
    BY <1>1, <2>1, StoresNothing
<1>3. CASE /\ chunks[build[w].doc] = build[w].source
           /\ build[w].force \/ CurrentVectors(build[w].doc, build[w].source, build[w].digest) = 0
  <2>1. PICK b \in Build : b = build[w]
    BY UnforcedFacts
  <2>2. /\ b.pc = "committingVectors" /\ b.doc \in Document /\ ~b.force
        /\ \E c \in chunkRuns[b.doc] : c.id = b.source
    BY <2>1, UnforcedFacts DEF UnforcedBuild, CommitVectors
  <2>3. PICK d \in Document : d = b.doc
    BY <2>2
  <2>4. chunks[d] = b.source /\ CurrentVectors(d, b.source, b.digest) = 0
    BY <1>3, <2>1, <2>2, <2>3
  <2>6. PICK new : new = [id |-> b.run, source |-> b.source, digest |-> b.digest, made |-> b.made,
                          forced |-> b.force]
    OBVIOUS
  <2>7. PICK runs : runs = embedRuns[d] \cup {new}
    OBVIOUS
  <2>8. /\ embedRuns' = [embedRuns EXCEPT ![d] = runs]
        /\ vectors' = [vectors EXCEPT ![d] = b.run]
    BY <1>3, <2>1, <2>3, <2>6, <2>7 DEF CommitVectors
  <2>9. /\ embedRuns'[d] = runs /\ vectors'[d] = b.run
        /\ \A other \in Document \ {d} : /\ embedRuns'[other] = embedRuns[other]
                                         /\ vectors'[other] = vectors[other]
    BY <2>8 DEF IInv, TypeOK
  <2>10. UnforcedRuns(d)
    BY UnforcedFacts
  <2>11. new \in runs /\ new.id = b.run /\ new.source = chunks[d] /\ new.digest = b.digest
    BY <2>4, <2>6, <2>7
  <2>12. ASSUME \A e, f \in runs : e.source = chunks[d] /\ f.source = chunks[d] => e.digest = f.digest,
                NEW e \in embedRuns[d], e.source = chunks[d]
         PROVE  FALSE
    <3>1. OneVersion(d)
      BY <2>7, <2>12 DEF OneVersion
    <3>2. PICK S : S = {r \in embedRuns[d] : r.source = b.source /\ r.digest = b.digest}
      OBVIOUS
    <3>3. e \in S
      BY <2>4, <2>7, <2>11, <2>12, <3>2
    <3>4. \A r \in S : r.id = vectors[d]
      BY <2>4, <2>10, <3>1, <3>2 DEF UnforcedRuns
    <3>5. e.id \in 1..stamp
      BY DEF IInv, TypeOK
    <3>6. vectors[d] \in Nat \ {0}
      BY <1>1, <3>3, <3>4, <3>5
    <3>7. IfStored(S, vectors[d]) = vectors[d]
      BY <3>3, <3>4, <3>6, StoredFound
    <3> QED
      BY <2>4, <3>2, <3>6, <3>7 DEF CurrentVectors
  <2>13. \A e \in runs : \E c \in chunkRuns[d] : c.id = e.source
    BY <2>2, <2>3, <2>6, <2>7, <2>10 DEF UnforcedRuns
  <2>14. (\A e, f \in runs : e.source = chunks[d] /\ f.source = chunks[d] => e.digest = f.digest)
           => \A e \in runs : e.source = chunks[d] => e.id = b.run
    BY <2>7, <2>11, <2>12
  <2>15. UnforcedRuns(d)'
    BY <1>1, <2>9, <2>10, <2>13, <2>14 DEF UnforcedRuns, OneVersion
  <2>16. stamp' \in Nat /\ stamp <= stamp' /\ UNCHANGED <<metadata, chunkRuns>>
    BY <1>1
  <2>17. \A other \in Document : UnforcedRuns(other)'
    BY <1>1, <2>9, <2>15, <2>16, RunsSame
  <2> QED
    BY <1>1, <2>16, <2>17, StoresSomething
<1> QED
  BY <1>2, <1>3 DEF CommitVectors

\* The other steps touch neither the store nor a build.
LEMMA UnforcedStep ==
  ASSUME IInv, UnforcedInv, TRUE \notin Forces, [Next]_vars
  PROVE  UnforcedInv'
<1>1. CASE UNCHANGED <<stamp, storeVars, build>>
  BY <1>1 DEF UnforcedInv, UnforcedBuild, UnforcedRuns, OneVersion, storeVars
<1>2. CASE \E r \in Reader :
             \/ Retrieve(r) \/ Describe(r) \/ BeginSnapshot(r)
             \/ \E d \in Document : ReadDocument(r, d)
             \/ Select(r) \/ EmbedQuery(r) \/ Requery(r) \/ ValidateRetrieval(r)
             \/ Generate(r) \/ ValidateAnswer(r) \/ Respond(r) \/ EndRequest(r)
  BY <1>1, <1>2
     DEF Retrieve, Describe, BeginSnapshot, ReadDocument, Select, EmbedQuery, Requery, ValidateRetrieval,
         Generate, ValidateAnswer, Respond, EndRequest
<1>3. CASE ChangeModel \/ \E d \in Document : SwapFile(d)
  BY <1>1, <1>3 DEF ChangeModel, SwapFile
<1>4. CASE UNCHANGED vars
  BY <1>1, <1>4 DEF vars
<1>5. CASE \E w \in Builder :
             \/ \E d \in Document, force \in Forces :
                  StartIngest(w, d, force) \/ LoadPages(w, d, force) \/ LoadChunks(w, d, force)
             \/ Parse(w) \/ CommitPages(w) \/ VerifyPages(w) \/ DropPages(w)
             \/ MakeChunks(w) \/ CommitChunks(w)
             \/ Embed(w) \/ DescribeAgain(w) \/ CommitVectors(w)
             \/ GiveUp(w)
  BY <1>5, UnforcedLoads, UnforcedPages, UnforcedComputes, UnforcedChunks, UnforcedVectors
<1>6. CASE \E d \in Document : EditDocument(d)
  BY <1>6, UnforcedEdits
<1> QED
  BY <1>2, <1>3, <1>4, <1>5, <1>6 DEF Next

\* Where nobody forces a build, what is stored is always found again: chunks
\* always, vectors as long as one version of the model embedded their chunks.
THEOREM StoredIsFound ==
  ASSUME TRUE \notin Forces
  PROVE  Spec => []StoredIsCurrent
<1>1. Init => UnforcedInv
  BY InitUnforced
<1>2. IInv /\ UnforcedInv /\ [Next]_vars => UnforcedInv'
  BY UnforcedStep
<1>3. IInv /\ UnforcedInv => StoredIsCurrent
  BY UnforcedCurrent
<1> QED
  BY <1>1, <1>2, <1>3, Invariance, PTL DEF Spec

\* Where nobody forces a build, stored chunks stay until their pages or their
\* metadata change: only absent chunks are built.
THEOREM RebuildsAreIdempotent ==
  ASSUME TRUE \notin Forces
  PROVE  Spec => RebuildIdempotent
<1> DEFINE Idempotent ==
      \A d \in Document :
        chunks[d] # 0 /\ chunks'[d] # chunks[d] /\ chunks'[d] # 0 =>
          \E c \in chunkRuns'[d] : c.id = chunks'[d] /\ c.forced
<1>1. Init => UnforcedInv
  BY InitUnforced
<1>2. IInv /\ UnforcedInv /\ [Next]_vars => UnforcedInv'
  BY UnforcedStep
<1>3. IInv /\ UnforcedInv /\ [Next]_vars => [Idempotent]_vars
  <2> SUFFICES ASSUME IInv, UnforcedInv, [Next]_vars, NEW d \in Document,
                      chunks[d] # 0, chunks'[d] # chunks[d], chunks'[d] # 0
               PROVE  FALSE
    OBVIOUS
  <2>1. chunks \in [Document -> Nat]
    BY DEF IInv, TypeOK
  <2>2. PICK w \in Builder : CommitChunks(w) /\ chunks' # chunks
    BY <2>1, ZenonT(40) DEF Next, vars, storeVars, StartIngest, LoadPages, LoadChunks, Parse, CommitPages, VerifyPages,
        DropPages, ReplacePages, MakeChunks, Embed, DescribeAgain, CommitVectors, GiveUp, Retrieve,
        Describe, BeginSnapshot, ReadDocument, Select, EmbedQuery, Requery, ValidateRetrieval, Generate, ValidateAnswer, Respond, EndRequest,
        SwapFile, EditDocument, ChangeModel
  <2>3. chunks' = [chunks EXCEPT ![build[w].doc] = build[w].run]
    BY <2>2 DEF CommitChunks
  <2>4. d = build[w].doc
    BY <2>1, <2>3
  <2>5. ~build[w].force
    BY UnforcedFacts DEF UnforcedBuild
  <2>6. CurrentChunks(d) = 0
    BY <2>2, <2>4, <2>5 DEF CommitChunks
  <2> QED
    BY <2>6, ChunksFound
<1> QED
  BY <1>1, <1>2, <1>3, Invariance, PTL DEF Spec, RebuildIdempotent

=============================================================================
