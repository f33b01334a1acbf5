---------------------------- MODULE CollectionSync ----------------------------
(***************************************************************************)
(* The synchronisation of the library with the user's collection on BGG:   *)
(* the lock that is tried and never waited for, the requests that BGG      *)
(* queues, the transactions for attempt, import, success and error, and    *)
(* the enrichment of the games an import created, which runs after the     *)
(* lock is released.  The process may die between any two steps; at its    *)
(* start a backfill requests the metadata that is missing.                 *)
(***************************************************************************)
EXTENDS Integers, FiniteSets, FiniteSetsExt

CONSTANTS SyncedGame,       \* games the user owns on BGG at some time
          Unusable,         \* games whose item BGG answers in an unusable shape
          Caller,           \* the worker and the requests that start a synchronisation
          SyncInterval,     \* clock ticks between two scheduled synchronisations
          RequestAttempts,  \* max_attempts of the BGG client
          MetadataBatch,    \* games per metadata request
          BackfillRounds,   \* requests of one backfill
          MaxSyncClock

ASSUME SyncConstants ==
  RequestAttempts \in Nat \ {0} /\ {BackfillRounds, MaxSyncClock} \subseteq Nat

Never == -1
Idle == [phase |-> "idle"]

VARIABLES library, metadata, syncing, syncState, runs, backfill, syncClock
syncVars == <<library, metadata, syncing, syncState, runs, backfill, syncClock>>

SyncTypeOK ==
  /\ library \subseteq SyncedGame
  /\ metadata \in [SyncedGame -> {"absent", "failed", "stored"}]
  /\ \A c \in Caller : syncing[c] = Idle \/
       /\ syncing[c].phase \in {"base", "expansions", "import", "success", "error", "enrich"}
       /\ syncing[c].attempt \in 0..(RequestAttempts - 1)
       /\ syncing[c].created \subseteq library
  /\ syncState \in [attempt : Never..MaxSyncClock, success : Never..MaxSyncClock, error : BOOLEAN]
  /\ runs \subseteq 0..MaxSyncClock
  /\ backfill \in 0..BackfillRounds /\ syncClock \in 0..MaxSyncClock

SyncInit ==
  /\ library = {} /\ metadata = [g \in SyncedGame |-> "absent"]
  /\ syncing = [c \in Caller |-> Idle]
  /\ syncState = [attempt |-> Never, success |-> Never, error |-> FALSE]
  /\ runs = {} /\ backfill = BackfillRounds /\ syncClock = 0

-----------------------------------------------------------------------------
(* Synchronisation *)

SyncDue == syncState.success = Never \/ syncClock >= syncState.success + SyncInterval

Holds(c) == syncing[c] # Idle /\ syncing[c].phase # "enrich"

BeginSync(c, force) ==
  /\ syncing[c] = Idle
  /\ \A d \in Caller : ~Holds(d)
  /\ force \/ SyncDue
  /\ syncing' = [syncing EXCEPT ![c] = [phase |-> "base", attempt |-> 0, at |-> syncClock,
                                        created |-> {}]]
  /\ syncState' = [syncState EXCEPT !.attempt = syncClock]
  /\ UNCHANGED <<library, metadata, runs, backfill, syncClock>>

Requesting(c) == syncing[c].phase \in {"base", "expansions"}

Advance(c, phase) == syncing' = [syncing EXCEPT ![c].phase = phase, ![c].attempt = 0]

\* Mutant: one attempt too many.
RequestAgainOnce(c) ==
  /\ Requesting(c)
  /\ IF syncing[c].attempt < RequestAttempts
     THEN syncing' = [syncing EXCEPT ![c].attempt = @ + 1]
     ELSE Advance(c, "error")
  /\ UNCHANGED <<library, metadata, syncState, runs, backfill, syncClock>>

\* BGG still prepares the collection (202) or the connection failed.
RequestAgain(c) ==
  /\ Requesting(c)
  /\ IF syncing[c].attempt + 1 < RequestAttempts
     THEN syncing' = [syncing EXCEPT ![c].attempt = @ + 1]
     ELSE Advance(c, "error")
  /\ UNCHANGED <<library, metadata, syncState, runs, backfill, syncClock>>

\* A redirect, a rejected token, another status, too many bytes or invalid XML.
RequestRefused(c) ==
  /\ Requesting(c)
  /\ Advance(c, "error")
  /\ UNCHANGED <<library, metadata, syncState, runs, backfill, syncClock>>

RequestAnswered(c) ==
  /\ Requesting(c)
  /\ Advance(c, IF syncing[c].phase = "base" THEN "expansions" ELSE "import")
  /\ UNCHANGED <<library, metadata, syncState, runs, backfill, syncClock>>

\* Mutant: every item of the answer counts as a new game.
PersistAllNew(c, items) ==
  /\ syncing[c].phase = "import"
  /\ library' = library \cup items
  /\ runs' = runs \cup {syncing[c].at}
  /\ syncing' = [syncing EXCEPT ![c].phase = "success", ![c].created = items]
  /\ UNCHANGED <<metadata, syncState, backfill, syncClock>>

\* One deferred transaction stores all the items, and the games that are new.
Persist(c, items) ==
  /\ syncing[c].phase = "import"
  /\ library' = library \cup items
  /\ runs' = runs \cup {syncing[c].at}
  /\ syncing' = [syncing EXCEPT ![c].phase = "success", ![c].created = items \ library]
  /\ UNCHANGED <<metadata, syncState, backfill, syncClock>>

PersistFails(c) ==
  /\ syncing[c].phase = "import"
  /\ Advance(c, "error")
  /\ UNCHANGED <<library, metadata, syncState, runs, backfill, syncClock>>

\* A CSV import stores games of its own.
ImportExport(items) ==
  /\ ~(items \subseteq library)
  /\ library' = library \cup items
  /\ UNCHANGED <<metadata, syncing, syncState, runs, backfill, syncClock>>

RecordSuccess(c) ==
  /\ syncing[c].phase = "success"
  /\ syncState' = [syncState EXCEPT !.success = syncing[c].at, !.error = FALSE]
  /\ syncing' = IF syncing[c].created = {} THEN [syncing EXCEPT ![c] = Idle]
                ELSE [syncing EXCEPT ![c].phase = "enrich"]
  /\ UNCHANGED <<library, metadata, runs, backfill, syncClock>>

RecordError(c) ==
  /\ syncing[c].phase = "error"
  /\ syncState' = [syncState EXCEPT !.error = TRUE]
  /\ syncing' = [syncing EXCEPT ![c] = Idle]
  /\ UNCHANGED <<library, metadata, runs, backfill, syncClock>>

-----------------------------------------------------------------------------
(* Metadata *)

\* A failed request is recorded for every game of the batch, a failure keeps
\* the metadata that an earlier request stored.
Failed(batch) == [g \in SyncedGame |-> IF g \in batch /\ metadata[g] = "absent"
                                      THEN "failed" ELSE metadata[g]]

\* The answer leaves some games out, they fail on their own; an unusable item
\* makes the client refuse the answer for the whole batch.
Answered(batch, present) ==
  /\ batch \cap Unusable = {}
  /\ metadata' = [g \in SyncedGame |-> IF g \in present THEN "stored" ELSE Failed(batch)[g]]

RefreshMany(batch) ==
  metadata' = Failed(batch) \/ \E present \in SUBSET batch : Answered(batch, present)

Batches(games) == {b \in SUBSET games : Cardinality(b) = Min({MetadataBatch, Cardinality(games)})}

Enrich(c, batch) ==
  /\ syncing[c].phase = "enrich"
  /\ RefreshMany(batch)
  /\ syncing' = IF syncing[c].created = batch THEN [syncing EXCEPT ![c] = Idle]
                ELSE [syncing EXCEPT ![c].created = @ \ batch]
  /\ UNCHANGED <<library, syncState, runs, backfill, syncClock>>

\* Games without a row come before those whose row holds no metadata.
Refreshable ==
  LET absent == {g \in library : metadata[g] = "absent"}
      failed == {g \in library : metadata[g] = "failed"}
  IN IF Cardinality(absent) >= MetadataBatch THEN Batches(absent)
     ELSE {absent \cup b : b \in {x \in SUBSET failed :
             Cardinality(x) = Min({MetadataBatch - Cardinality(absent), Cardinality(failed)})}}

\* One request of the backfill; a failed one ends it.
Backfill(batch) ==
  /\ backfill > 0
  /\ \/ metadata' = Failed(batch) /\ backfill' = 0
     \/ (\E present \in SUBSET batch : Answered(batch, present)) /\ backfill' = backfill - 1
  /\ UNCHANGED <<library, syncing, syncState, runs, syncClock>>

RestartSync ==
  /\ syncing' = [c \in Caller |-> Idle]
  /\ backfill' = BackfillRounds
  /\ UNCHANGED <<library, metadata, syncState, runs, syncClock>>

TickSync ==
  /\ syncClock < MaxSyncClock
  /\ syncClock' = syncClock + 1
  /\ UNCHANGED <<library, metadata, syncing, syncState, runs, backfill>>

SyncStep(c) ==
  \/ \E force \in BOOLEAN : BeginSync(c, force)
  \/ /\ syncing[c] # Idle
     /\ \/ RequestAgain(c) \/ RequestRefused(c) \/ RequestAnswered(c)
        \/ \E items \in SUBSET SyncedGame : Persist(c, items)
        \/ PersistFails(c) \/ RecordSuccess(c) \/ RecordError(c)
        \/ \E batch \in Batches(syncing[c].created) : Enrich(c, batch)

SyncNext ==
  \/ \E c \in Caller : SyncStep(c)
  \/ \E items \in SUBSET SyncedGame : ImportExport(items)
  \/ \E batch \in Refreshable \ {{}} : Backfill(batch)
  \/ RestartSync \/ TickSync

SyncSpec == SyncInit /\ [][SyncNext]_syncVars

-----------------------------------------------------------------------------
(* Properties *)

(* What the status reports is what happened: the last success is a stored  *)
(* import, no later than the last attempt, however the process died.       *)
(* Enrichment runs after the lock is released, so two callers may enrich   *)
(* at once; but a game is new to one import only: no two of them request   *)
(* and translate the same game.                                            *)
SyncsSeparate ==
  /\ syncState.success # Never => syncState.success \in runs /\ syncState.success <= syncState.attempt
  /\ \A c, d \in Caller :
       c # d /\ syncing[c] # Idle /\ syncing[d] # Idle => syncing[c].created \cap syncing[d].created = {}

=============================================================================
