---------------------------- MODULE IndexPipeline ----------------------------
(***************************************************************************)
(* The three layers of a document's index (pdf_ingest.py, chunk_index.py,  *)
(* embedding_retrieval.py) and the requests that answer from them          *)
(* (answer_generation.py).                                                 *)
(*                                                                         *)
(* Pages, chunks and vectors are each replaced in one transaction, but     *)
(* what replaces them was computed outside of it from an earlier read, and *)
(* the archived file and the embedding model are outside of SQLite         *)
(* altogether.  Foreign keys delete what was derived from a deleted row.   *)
(* A question is answered from snapshots of this evidence.  Each one is    *)
(* read inside a transaction that keeps every other writer out, document   *)
(* after document, while files may still be replaced; the provider is      *)
(* asked for its model before that.                                        *)
(* Every call of _now() returns a new stamp, which also names the run it   *)
(* dates.  Documents have text: at least one page and one chunk.           *)
(***************************************************************************)
EXTENDS Integers, FiniteSets

CONSTANTS
  Document,    \* the archived documents of one game that retrieval may use
  Builder,     \* requests and indexing jobs that build a layer
  Reader,      \* requests that ask a question
  Forces,      \* values of the force parameter
  NoDocument,  \* an idle task has no document
  MaxStamp,    \* bound: timestamps handed out
  MaxDigest,   \* bound: versions of the embedding model
  MaxEdits,    \* bound: changes of a document's metadata
  MaxSwaps     \* bound: replacements and restorations of archived files

ASSUME NamesAssumption == NoDocument \notin Document /\ Builder \cap Reader = {}
ASSUME ForcesAssumption == Forces \subseteq BOOLEAN
ASSUME BoundAssumption ==
  /\ MaxStamp \in Nat /\ MaxDigest \in Nat \ {0}
  /\ MaxEdits \in Nat /\ MaxSwaps \in Nat

VARIABLES
  stamp,       \* the last timestamp
  intact,      \* documents whose file has the recorded size and SHA-256
  metadata,    \* version of the columns that document_metadata_sha256 covers
  pages,       \* the parse run whose pages are stored, 0 if none
  chunkRuns,   \* document_chunk_runs
  chunks,      \* the chunk run whose chunks are stored, 0 if none
  embedRuns,   \* document_embedding_runs of the configured model
  vectors,     \* the embedding run whose vectors are stored, 0 if none
  digest,      \* the digest that provider.describe() returns
  build,       \* what each builder is doing
  ask,         \* what each reader is doing
  since,       \* history: the files and the model each last check began with
  swaps

storeVars == <<metadata, pages, chunkRuns, chunks, embedRuns, vectors>>
worldVars == <<intact, digest, swaps>>
vars == <<stamp, storeVars, worldVars, build, ask, since>>

ChunkRun == [id : Nat, parse : Nat, meta : Nat, forced : BOOLEAN]
EmbedRun == [id : Nat, source : Nat, digest : Nat, made : Nat, forced : BOOLEAN]
BuildPhase ==
  {"idle", "parsing", "committingPages", "verifyingPages", "droppingPages",
   "chunking", "committingChunks", "embedding", "describing", "committingVectors"}
Build ==
  [pc : BuildPhase, doc : Document \cup {NoDocument}, force : BOOLEAN,
   source : Nat, meta : Nat, digest : Nat, made : Nat, run : Nat]
AskPhase ==
  {"idle", "selecting", "querying", "requerying", "validating", "generating",
   "validatingAnswer", "responding", "answered"}
\* The phases that compare a new snapshot with the evidence in hand.
Checking == {"requerying", "validating", "validatingAnswer", "responding"}
\* Before the transaction of a snapshot, waiting for it, and inside of it.
Stage == {"outside", "waiting", "reading"}
\* The chunk run and the embedding run a document is served from, 0 if missing.
View == [Document -> Nat \X Nat]
Ask ==
  [pc : AskPhase, stage : Stage, unread : SUBSET Document, seen : View,
   view : View, digest : Nat, made : Nat, repaired : BOOLEAN]
Since == [files : SUBSET Document, digest : Nat]

Resting ==
  [pc |-> "idle", doc |-> NoDocument, force |-> FALSE, source |-> 0, meta |-> 0,
   digest |-> 0, made |-> 0, run |-> 0]
Nothing == [d \in Document |-> <<0, 0>>]
Silent ==
  [pc |-> "idle", stage |-> "outside", unread |-> {}, seen |-> Nothing,
   view |-> Nothing, digest |-> 0, made |-> 0, repaired |-> FALSE]
Unbegun == [files |-> {}, digest |-> 0]

Init ==
  /\ stamp = 0
  /\ intact = Document
  /\ metadata = [d \in Document |-> 1]
  /\ pages = [d \in Document |-> 0]
  /\ chunkRuns = [d \in Document |-> {}]
  /\ chunks = [d \in Document |-> 0]
  /\ embedRuns = [d \in Document |-> {}]
  /\ vectors = [d \in Document |-> 0]
  /\ digest = 1
  /\ build = [w \in Builder |-> Resting]
  /\ ask = [r \in Reader |-> Silent]
  /\ since = [r \in Reader |-> Unbegun]
  /\ swaps = 0

-----------------------------------------------------------------------------
(* Currentness *)

\* ORDER BY created_at DESC LIMIT 1, and then the count of the rows of that
\* run: the newest run, if the stored rows are its own.
IfStored(runs, stored) ==
  IF \E r \in runs : r.id = stored /\ \A other \in runs : other.id <= stored
  THEN stored ELSE 0

CurrentChunks(d) ==
  LET matching == {r \in chunkRuns[d] : r.parse = pages[d] /\ r.meta = metadata[d]}
  IN  IF pages[d] = 0 THEN 0 ELSE IfStored(matching, chunks[d])

CurrentVectors(d, chunkRun, g) ==
  LET matching == {r \in embedRuns[d] : r.source = chunkRun /\ r.digest = g}
  IN  IfStored(matching, vectors[d])

\* What a snapshot finds of one document: its file is verified, and then the
\* rows are read.
Served(d, g) ==
  LET c == IF d \in intact THEN CurrentChunks(d) ELSE 0
  IN  <<c, IF c = 0 THEN 0 ELSE CurrentVectors(d, c, g)>>

\* Mutant of Barred: the snapshot is read outside of a transaction.
NeverBarred == FALSE

\* The writer barrier: BEGIN IMMEDIATE, held while a snapshot is read.
Barred == \E r \in Reader : ask[r].stage = "reading"

Rest(w) == build' = [build EXCEPT ![w] = Resting]
Step(w, phase) == build' = [build EXCEPT ![w].pc = phase]

-----------------------------------------------------------------------------
(* Pages *)

\* Without force a current success is returned, and a file that does not match
\* is a failure.
StartIngest(w, d, force) ==
  /\ build[w].pc = "idle"
  /\ force \/ (d \in intact /\ pages[d] = 0)
  /\ build' = [build EXCEPT ![w] = [Resting EXCEPT !.pc = "parsing", !.doc = d,
                                                   !.force = force]]
  /\ UNCHANGED <<stamp, storeVars, worldVars, ask, since>>

\* The parser works on a verified snapshot of the file.
Parse(w) ==
  /\ build[w].pc = "parsing"
  /\ IF build[w].doc \in intact THEN Step(w, "committingPages") ELSE Rest(w)
  /\ UNCHANGED <<stamp, storeVars, worldVars, ask, since>>

ReplacePages(d, run) ==
  /\ pages' = [pages EXCEPT ![d] = run]
  /\ chunks' = [chunks EXCEPT ![d] = 0]
  /\ vectors' = [vectors EXCEPT ![d] = 0]

CommitPages(w) ==
  LET d == build[w].doc
  IN  /\ build[w].pc = "committingPages" /\ ~Barred
      /\ \/ /\ d \notin intact
            /\ Rest(w)
            /\ UNCHANGED <<stamp, pages, chunks, vectors>>
         \/ /\ d \in intact /\ ~build[w].force /\ pages[d] # 0
            /\ Step(w, "verifyingPages")
            /\ UNCHANGED <<stamp, pages, chunks, vectors>>
         \/ /\ d \in intact /\ (build[w].force \/ pages[d] = 0)
            /\ stamp < MaxStamp
            /\ stamp' = stamp + 1
            /\ ReplacePages(d, stamp')
            /\ Step(w, "verifyingPages")
      /\ UNCHANGED <<metadata, chunkRuns, embedRuns, worldVars, ask, since>>

\* After the commit the file is verified once more ...
VerifyPages(w) ==
  /\ build[w].pc = "verifyingPages"
  /\ IF build[w].doc \in intact THEN Rest(w) ELSE Step(w, "droppingPages")
  /\ UNCHANGED <<stamp, storeVars, worldVars, ask, since>>

\* ... and if it was replaced meanwhile, all pages are deleted.
DropPages(w) ==
  /\ build[w].pc = "droppingPages" /\ ~Barred
  /\ ReplacePages(build[w].doc, 0)
  /\ Rest(w)
  /\ UNCHANGED <<stamp, metadata, chunkRuns, embedRuns, worldVars, ask, since>>

-----------------------------------------------------------------------------
(* Chunks *)

LoadPages(w, d, force) ==
  /\ build[w].pc = "idle"
  /\ d \in intact /\ pages[d] # 0
  /\ force \/ CurrentChunks(d) = 0
  /\ build' = [build EXCEPT ![w] = [Resting EXCEPT !.pc = "chunking", !.doc = d,
                 !.force = force, !.source = pages[d], !.meta = metadata[d]]]
  /\ UNCHANGED <<stamp, storeVars, worldVars, ask, since>>

\* Mutant of MakeChunks: two runs may get the same timestamp.
MakeChunksUndated(w) ==
  /\ build[w].pc = "chunking"
  /\ stamp < MaxStamp
  /\ build' = [build EXCEPT ![w].pc = "committingChunks", ![w].run = stamp + 1]
  /\ UNCHANGED <<stamp, storeVars, worldVars, ask, since>>

\* created_at is read before the transaction begins.
MakeChunks(w) ==
  /\ build[w].pc = "chunking"
  /\ stamp < MaxStamp
  /\ stamp' = stamp + 1
  /\ build' = [build EXCEPT ![w].pc = "committingChunks", ![w].run = stamp']
  /\ UNCHANGED <<storeVars, worldVars, ask, since>>

\* Mutant of PagesUnchanged: the pages may be those of another parse run.
MetadataUnchanged(w) == metadata[build[w].doc] = build[w].meta

PagesUnchanged(w) ==
  LET d == build[w].doc
  IN  metadata[d] = build[w].meta /\ pages[d] = build[w].source

\* Mutant of CommitChunks: no second look for a current run.
CommitChunksAgain(w) ==
  LET d == build[w].doc
  IN  /\ build[w].pc = "committingChunks" /\ ~Barred
      /\ IF PagesUnchanged(w)
         THEN /\ chunkRuns' = [chunkRuns EXCEPT ![d] = @ \cup
                    {[id |-> build[w].run, parse |-> build[w].source,
                      meta |-> build[w].meta, forced |-> build[w].force]}]
              /\ chunks' = [chunks EXCEPT ![d] = build[w].run]
              /\ vectors' = [vectors EXCEPT ![d] = 0]
         ELSE UNCHANGED <<chunkRuns, chunks, vectors>>
      /\ Rest(w)
      /\ UNCHANGED <<stamp, metadata, pages, embedRuns, worldVars, ask, since>>

CommitChunks(w) ==
  LET d == build[w].doc
  IN  /\ build[w].pc = "committingChunks" /\ ~Barred
      /\ IF PagesUnchanged(w) /\ (build[w].force \/ CurrentChunks(d) = 0)
         THEN /\ chunkRuns' = [chunkRuns EXCEPT ![d] = @ \cup
                    {[id |-> build[w].run, parse |-> build[w].source,
                      meta |-> build[w].meta, forced |-> build[w].force]}]
              /\ chunks' = [chunks EXCEPT ![d] = build[w].run]
              /\ vectors' = [vectors EXCEPT ![d] = 0]
         ELSE UNCHANGED <<chunkRuns, chunks, vectors>>
      /\ Rest(w)
      /\ UNCHANGED <<stamp, metadata, pages, embedRuns, worldVars, ask, since>>

-----------------------------------------------------------------------------
(* Vectors *)

LoadChunks(w, d, force) ==
  LET source == CurrentChunks(d)
  IN  /\ build[w].pc = "idle"
      /\ d \in intact /\ source # 0
      /\ force \/ CurrentVectors(d, source, digest) = 0
      /\ build' = [build EXCEPT ![w] = [Resting EXCEPT !.pc = "embedding", !.doc = d,
                     !.force = force, !.source = source, !.digest = digest]]
      /\ UNCHANGED <<stamp, storeVars, worldVars, ask, since>>

\* The provider embeds with the model it has at that time.
Embed(w) ==
  /\ build[w].pc = "embedding"
  /\ build' = [build EXCEPT ![w].pc = "describing", ![w].made = digest]
  /\ UNCHANGED <<stamp, storeVars, worldVars, ask, since>>

\* The descriptor of the provider must be the one the build started with.
DescribeAgain(w) ==
  /\ build[w].pc = "describing"
  /\ \/ /\ digest # build[w].digest
        /\ Rest(w)
        /\ UNCHANGED stamp
     \/ /\ digest = build[w].digest
        /\ stamp < MaxStamp
        /\ stamp' = stamp + 1
        /\ build' = [build EXCEPT ![w].pc = "committingVectors", ![w].run = stamp']
  /\ UNCHANGED <<storeVars, worldVars, ask, since>>

\* Mutant of CommitVectors: no second look for a current run.
CommitVectorsAgain(w) ==
  LET d == build[w].doc
      source == build[w].source
  IN  /\ build[w].pc = "committingVectors" /\ ~Barred
      /\ IF chunks[d] = source
         THEN /\ embedRuns' = [embedRuns EXCEPT ![d] = @ \cup
                    {[id |-> build[w].run, source |-> source,
                      digest |-> build[w].digest, made |-> build[w].made,
                      forced |-> build[w].force]}]
              /\ vectors' = [vectors EXCEPT ![d] = build[w].run]
         ELSE UNCHANGED <<embedRuns, vectors>>
      /\ Rest(w)
      /\ UNCHANGED <<stamp, metadata, pages, chunkRuns, chunks, worldVars, ask, since>>

CommitVectors(w) ==
  LET d == build[w].doc
      source == build[w].source
      missing == CurrentVectors(d, source, build[w].digest) = 0
  IN  /\ build[w].pc = "committingVectors" /\ ~Barred
      /\ IF chunks[d] = source /\ (build[w].force \/ missing)
         THEN /\ embedRuns' = [embedRuns EXCEPT ![d] = @ \cup
                    {[id |-> build[w].run, source |-> source,
                      digest |-> build[w].digest, made |-> build[w].made,
                      forced |-> build[w].force]}]
              /\ vectors' = [vectors EXCEPT ![d] = build[w].run]
         ELSE UNCHANGED <<embedRuns, vectors>>
      /\ Rest(w)
      /\ UNCHANGED <<stamp, metadata, pages, chunkRuns, chunks, worldVars, ask, since>>

\* A parser, provider or SQLite error, or the end of the process.
GiveUp(w) ==
  /\ build[w].pc # "idle"
  /\ Rest(w)
  /\ UNCHANGED <<stamp, storeVars, worldVars, ask, since>>

-----------------------------------------------------------------------------
(* Questions *)

\* A request goes on outside of any transaction, or it ends.
At(phase, a) ==
  [a EXCEPT !.pc = phase, !.stage = "outside", !.unread = {}, !.seen = Nothing]
Proceed(r, phase) == ask' = [ask EXCEPT ![r] = At(phase, ask[r])]
Dismiss(r) ==
  /\ ask' = [ask EXCEPT ![r] = Silent]
  /\ since' = [since EXCEPT ![r] = Unbegun]

NoRows(view) == \A d \in Document : view[d][2] = 0
Missing(view) == {d \in Document : view[d][2] = 0}

\* retrieve describes the model over HTTP ...
Retrieve(r) ==
  /\ ask[r].pc = "idle"
  /\ ask' = [ask EXCEPT ![r] = [Silent EXCEPT !.pc = "selecting", !.stage = "waiting",
                                               !.digest = digest]]
  /\ UNCHANGED <<stamp, storeVars, worldVars, build, since>>

\* Mutant of Describe: the provider is not described again.
DescribeNothing(r) ==
  /\ ask[r].pc \in Checking /\ ask[r].stage = "outside"
  /\ ask' = [ask EXCEPT ![r].stage = "waiting"]
  /\ UNCHANGED <<stamp, storeVars, worldVars, build, since>>

\* ... and every check of its evidence begins with describing it again.
Describe(r) ==
  /\ ask[r].pc \in Checking /\ ask[r].stage = "outside"
  /\ \/ digest # ask[r].digest /\ Dismiss(r)
     \/ /\ digest = ask[r].digest
        /\ ask' = [ask EXCEPT ![r].stage = "waiting"]
        /\ UNCHANGED since
  /\ UNCHANGED <<stamp, storeVars, worldVars, build>>

\* _snapshot_state: the transaction begins when no other one is open, ...
BeginSnapshot(r) ==
  /\ ask[r].stage = "waiting" /\ ~Barred
  /\ ask' = [ask EXCEPT ![r].stage = "reading", ![r].unread = Document]
  /\ UNCHANGED <<stamp, storeVars, worldVars, build, since>>

\* ... reads the documents one after the other (in the order of their random
\* ids: any order), and ends in the action of its phase.
ReadDocument(r, d) ==
  /\ ask[r].stage = "reading" /\ d \in ask[r].unread
  /\ ask' = [ask EXCEPT ![r].unread = @ \ {d}, ![r].seen[d] = Served(d, ask[r].digest)]
  /\ UNCHANGED <<stamp, storeVars, worldVars, build, since>>

SnapshotRead(r) == ask[r].stage = "reading" /\ ask[r].unread = {}
Unchanged(r) == ask[r].seen = ask[r].view

\* The first snapshot; without candidates there is nothing to embed.
Select(r) ==
  /\ ask[r].pc = "selecting" /\ SnapshotRead(r)
  /\ LET view == ask[r].seen
         phase == IF NoRows(view) THEN "validating" ELSE "querying"
     IN  ask' = [ask EXCEPT ![r] = [At(phase, ask[r]) EXCEPT !.view = view]]
  /\ UNCHANGED <<stamp, storeVars, worldVars, build, since>>

EmbedQuery(r) ==
  /\ ask[r].pc = "querying"
  /\ ask' = [ask EXCEPT ![r].pc = "requerying", ![r].made = digest]
  /\ UNCHANGED <<stamp, storeVars, worldVars, build, since>>

\* The second snapshot must equal the first.
Requery(r) ==
  /\ ask[r].pc = "requerying" /\ SnapshotRead(r)
  /\ \/ ~Unchanged(r) /\ Dismiss(r)
     \/ Unchanged(r) /\ Proceed(r, "validating") /\ UNCHANGED since
  /\ UNCHANGED <<stamp, storeVars, worldVars, build>>

\* validate_retrieval_current; an incomplete index is not answered from.
ValidateRetrieval(r) ==
  /\ ask[r].pc = "validating" /\ SnapshotRead(r)
  /\ LET answerable == Unchanged(r) /\ Missing(ask[r].view) = {}
     IN  \/ ~answerable /\ Dismiss(r)
         \/ answerable /\ Proceed(r, "generating") /\ UNCHANGED since
  /\ UNCHANGED <<stamp, storeVars, worldVars, build>>

Generate(r) ==
  /\ ask[r].pc = "generating"
  /\ Proceed(r, "validatingAnswer")
  /\ UNCHANGED <<stamp, storeVars, worldVars, build, since>>

\* A quote that does not match is repaired by one more generation.
ValidateAnswer(r) ==
  /\ ask[r].pc = "validatingAnswer" /\ SnapshotRead(r)
  /\ \/ ~Unchanged(r) /\ Dismiss(r)
     \/ /\ Unchanged(r) /\ Proceed(r, "responding")
        /\ since' = [since EXCEPT ![r] = [files |-> intact, digest |-> digest]]
     \/ /\ Unchanged(r) /\ ~ask[r].repaired
        /\ ask' = [ask EXCEPT ![r] = [At("generating", ask[r]) EXCEPT !.repaired = TRUE]]
        /\ UNCHANGED since
  /\ UNCHANGED <<stamp, storeVars, worldVars, build>>

\* Mutant of Respond: the answer is not validated at the response boundary.
RespondAtOnce(r) ==
  /\ ask[r].pc = "responding"
  /\ Proceed(r, "answered")
  /\ UNCHANGED <<stamp, storeVars, worldVars, build, since>>

Respond(r) ==
  /\ ask[r].pc = "responding" /\ SnapshotRead(r)
  /\ \/ ~Unchanged(r) /\ Dismiss(r)
     \/ Unchanged(r) /\ Proceed(r, "answered") /\ UNCHANGED since
  /\ UNCHANGED <<stamp, storeVars, worldVars, build>>

\* No candidate reaches min_score, the model finds no answer, a provider fails,
\* the database stays locked, or the client has read the answer.  An open
\* transaction is rolled back.
EndRequest(r) ==
  /\ ask[r].pc # "idle"
  /\ Dismiss(r)
  /\ UNCHANGED <<stamp, storeVars, worldVars, build>>

-----------------------------------------------------------------------------
(* The environment *)

\* The bytes of an archived file are replaced, or restored, at any time.
SwapFile(d) ==
  /\ swaps < MaxSwaps
  /\ swaps' = swaps + 1
  /\ intact' = IF d \in intact THEN intact \ {d} ELSE intact \cup {d}
  /\ since' = [r \in Reader |-> IF ask[r].pc = "responding"
                                THEN [since[r] EXCEPT !.files = @ \cup intact'] ELSE since[r]]
  /\ UNCHANGED <<stamp, storeVars, digest, build, ask>>

\* A trigger deletes the chunks of a document whose metadata changed.
EditDocument(d) ==
  /\ metadata[d] <= MaxEdits /\ ~Barred
  /\ metadata' = [metadata EXCEPT ![d] = @ + 1]
  /\ chunks' = [chunks EXCEPT ![d] = 0]
  /\ vectors' = [vectors EXCEPT ![d] = 0]
  /\ UNCHANGED <<stamp, pages, chunkRuns, embedRuns, worldVars, build, ask, since>>

\* A newer version of the embedding model; an older one does not come back.
ChangeModel ==
  /\ digest < MaxDigest
  /\ digest' = digest + 1
  /\ UNCHANGED <<stamp, storeVars, intact, swaps, build, ask, since>>

Next ==
  \/ \E w \in Builder :
       \/ \E d \in Document, force \in Forces :
            StartIngest(w, d, force) \/ LoadPages(w, d, force) \/ LoadChunks(w, d, force)
       \/ Parse(w) \/ CommitPages(w) \/ VerifyPages(w) \/ DropPages(w)
       \/ MakeChunks(w) \/ CommitChunks(w)
       \/ Embed(w) \/ DescribeAgain(w) \/ CommitVectors(w)
       \/ GiveUp(w)
  \/ \E r \in Reader :
       \/ Retrieve(r) \/ Describe(r) \/ BeginSnapshot(r)
       \/ \E d \in Document : ReadDocument(r, d)
       \/ Select(r) \/ EmbedQuery(r) \/ Requery(r) \/ ValidateRetrieval(r)
       \/ Generate(r) \/ ValidateAnswer(r) \/ Respond(r) \/ EndRequest(r)
  \/ \E d \in Document : SwapFile(d) \/ EditDocument(d)
  \/ ChangeModel

Spec == Init /\ [][Next]_vars

-----------------------------------------------------------------------------
TypeOK ==
  /\ stamp \in Nat /\ digest \in Nat /\ swaps \in Nat
  /\ intact \subseteq Document
  /\ metadata \in [Document -> Nat]
  /\ pages \in [Document -> 0..stamp]
  /\ chunkRuns \in [Document -> SUBSET ChunkRun]
  /\ embedRuns \in [Document -> SUBSET EmbedRun]
  /\ \A d \in Document : \A r \in chunkRuns[d] \cup embedRuns[d] : r.id \in 1..stamp
  /\ chunks \in [Document -> Nat] /\ vectors \in [Document -> Nat]
  /\ build \in [Builder -> Build]
  /\ \A w \in Builder : build[w].run <= stamp
  /\ ask \in [Reader -> Ask] /\ since \in [Reader -> Since]

-----------------------------------------------------------------------------
(* Properties *)

\* No layer outlives the one it was derived from: stored chunks are of the
\* stored pages and of the present metadata, stored vectors of the stored
\* chunks, whatever committed while they were computed.
DerivedFromStored ==
  \A d \in Document :
    /\ chunks[d] # 0 => \E c \in chunkRuns[d] :
         c.id = chunks[d] /\ c.parse = pages[d] /\ c.meta = metadata[d]
    /\ vectors[d] # 0 => \E e \in embedRuns[d] :
         e.id = vectors[d] /\ e.source = chunks[d] /\ chunks[d] # 0

\* An answer rests on vectors of every document, all made by the version of
\* the model that also embedded the question.
AnswersComparable ==
  \A r \in Reader : ask[r].pc = "answered" =>
    \A d \in Document : \E e \in embedRuns[d] :
      e.id = ask[r].view[d][2] /\ e.made = ask[r].made

\* An answer leaves after a last snapshot that began when the text was final.
\* At its end the evidence is the text of the stored pages, in the stored chunks
\* and vectors; those were made by the version of the model that was in use
\* when the check began, and every file matched its record at some time since.
\* A file that is replaced after it was verified, or a model that is replaced
\* after it was described, is not noticed.
AnsweredFromCurrentText ==
  [][\A r \in Reader : ask[r].pc # "answered" /\ ask'[r].pc = "answered" =>
       \A d \in Document :
         /\ d \in since[r].files
         /\ \E c \in chunkRuns[d], e \in embedRuns[d] :
              /\ c.parse = pages[d] /\ c.meta = metadata[d] /\ c.id = chunks[d]
              /\ e.source = c.id /\ e.made = since[r].digest
              /\ e.id = ask[r].view[d][2] /\ e.id = vectors[d]]_vars

OneVersion(d) ==
  \A e, f \in embedRuns[d] : e.source = chunks[d] /\ f.source = chunks[d] => e.digest = f.digest

\* Without forced builds, stored chunks are always found again: the newest run
\* is the one whose rows are stored.  So are stored vectors, as long as builds
\* for two versions of the model do not take turns on the same chunks.
StoredIsCurrent ==
  \A d \in Document :
    /\ chunks[d] # 0 => CurrentChunks(d) = chunks[d]
    /\ vectors[d] # 0 /\ OneVersion(d) => \E e \in embedRuns[d] :
         e.id = vectors[d] /\ CurrentVectors(d, chunks[d], e.digest) = vectors[d]

\* "Rebuilding the same current page set with the same configuration is
\* idempotent unless force=true": while the chunks of these pages are stored,
\* only a forced build replaces them.
RebuildIdempotent ==
  [][\A d \in Document :
       chunks[d] # 0 /\ chunks'[d] # chunks[d] /\ chunks'[d] # 0 =>
         \E c \in chunkRuns'[d] : c.id = chunks'[d] /\ c.forced]_vars

=============================================================================
