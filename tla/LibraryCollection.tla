-------------------------- MODULE LibraryCollection --------------------------
(***************************************************************************)
(* The owned collection: the entries (collection_entries) and physical     *)
(* copies of the games, written by the import of a BGG CSV export, by the  *)
(* import of the collection that BGG serves over its XML API (its protocol *)
(* is CollectionSync), by the removal of a game from the library and by the*)
(* user's own edits.  An import of several rows is one transaction and     *)
(* imports them one after the other, so it is here a sequence of imports.  *)
(***************************************************************************)
EXTENDS Integers, Sequences, FiniteSets, SequencesExt

CONSTANTS OwnedGame,        \* games of the catalog
          CollId, NoColl,   \* BGG's identifiers of collection items
          CollOf,           \* the game each identifier belongs to
          Quantities,       \* quantities a CSV row may state, 0 when it states none
          MaxEntries, MaxManualCopies

ASSUME CollectionConstants ==
  /\ CollOf \in [CollId -> OwnedGame] /\ NoColl \notin CollId
  /\ Quantities \subseteq Nat /\ 0 \in Quantities

VARIABLES entries, copies
collectionVars == <<entries, copies>>

CollOrNone(g) == {c \in CollId : CollOf[c] = g} \cup {NoColl}

\* An item of the BGG response, num_plays 0 standing for an absent count.
Item == UNION {[kind : {"sync"}, game : {g}, coll : CollOrNone(g), plays : 0..1] : g \in OwnedGame}
\* A row of a CSV export.
Row == UNION {[kind : {"csv"}, game : {g}, coll : CollOrNone(g), plays : 0..1, own : BOOLEAN,
               quantity : Quantities] : g \in OwnedGame}

Entry == [coll : CollId \cup {NoColl}, game : OwnedGame, own : BOOLEAN,
          plays : 0..1, quantity : Quantities]
\* A copy of an entry has its number in it, a manual one belongs to no entry (0).
Copy == [entry : Nat, index : Nat \ {0}, note : {"imported", "edited"}]

CollectionTypeOK ==
  /\ entries \in Seq(Entry)
  /\ copies \subseteq Copy /\ \A c \in copies : c.entry \in 0..Len(entries)

-----------------------------------------------------------------------------
(* Importing one item *)

First(ns, otherwise) == IF ns = {} THEN otherwise ELSE Min(ns)

\* Mutant: an entry without a quantity gets no copy.
EnsureCopiesStated(cs, n, e) ==
  LET present == {c.index : c \in {d \in cs : d.entry = n}}
  IN cs \cup {[entry |-> n, index |-> k, note |-> "imported"] : k \in (1..e.quantity) \ present}

\* Only missing copies are created: the user's edits stay.
EnsureCopies(cs, n, e) ==
  IF ~e.own THEN cs
  ELSE LET expected == IF e.quantity > 0 THEN e.quantity ELSE 1
           present == {c.index : c \in {d \in cs : d.entry = n}}
       IN cs \cup {[entry |-> n, index |-> k, note |-> "imported"] : k \in (1..expected) \ present}

\* The entry of a synchronised item: by identifier, else the first of its game.
SyncedEntry(es, item) ==
  LET byColl == {n \in DOMAIN es : item.coll # NoColl /\ es[n].coll = item.coll}
      byGame == {n \in DOMAIN es : es[n].game = item.game}
  IN First(byColl, First(byGame, Len(es) + 1))

MergedEntry(es, n, item) ==
  [coll |-> item.coll, game |-> item.game, own |-> TRUE,
   plays |-> IF item.plays = 0 /\ n \in DOMAIN es THEN es[n].plays ELSE item.plays,
   quantity |-> IF n \in DOMAIN es THEN es[n].quantity ELSE 0]

\* The entry of a CSV row: by identifier, a row without one by its game.
ExportedEntry(es, row) ==
  First({n \in DOMAIN es : IF row.coll # NoColl THEN es[n].coll = row.coll
                           ELSE es[n].game = row.game /\ es[n].coll = NoColl}, Len(es) + 1)

RowEntry(row) == [coll |-> row.coll, game |-> row.game, own |-> row.own,
                  plays |-> row.plays, quantity |-> row.quantity]

ImportOne(before, item) ==
  LET es == before.entries
      n == IF item.kind = "sync" THEN SyncedEntry(es, item) ELSE ExportedEntry(es, item)
      e == IF item.kind = "sync" THEN MergedEntry(es, n, item) ELSE RowEntry(item)
  IN [entries |-> [k \in 1..(IF n > Len(es) THEN n ELSE Len(es)) |-> IF k = n THEN e ELSE es[k]],
      copies |-> EnsureCopies(before.copies, n, e)]

Library == [entries |-> entries, copies |-> copies]

\* The migration that introduced copies made those of the entries it found.
CollectionInit ==
  /\ entries \in {<<>>} \cup {<<RowEntry(r)>> : r \in Row}
  /\ copies = IF entries = <<>> THEN {} ELSE EnsureCopies({}, 1, entries[1])

-----------------------------------------------------------------------------
(* Operations *)

\* A CSV row or an item of the synchronised collection is imported.
ImportItem(item) ==
  LET after == ImportOne(Library, item)
  IN /\ Len(after.entries) <= MaxEntries
     /\ entries' = after.entries
     /\ copies' = after.copies

RemoveFromLibrary(g) ==
  /\ \E n \in DOMAIN entries : entries[n].game = g /\ entries[n].own
  /\ entries' = [n \in DOMAIN entries |->
                   IF entries[n].game = g THEN [entries[n] EXCEPT !.own = FALSE] ELSE entries[n]]
  /\ UNCHANGED copies

CreateCopy ==
  LET manual == {c \in copies : c.entry = 0}
  IN /\ Cardinality(manual) < MaxManualCopies
     /\ copies' = copies \cup {[entry |-> 0, index |-> Cardinality(manual) + 1, note |-> "edited"]}
     /\ UNCHANGED entries

UpdateCopy(c) ==
  /\ copies' = (copies \ {c}) \cup {[c EXCEPT !.note = "edited"]}
  /\ UNCHANGED entries

CollectionNext ==
  \/ \E item \in Item \cup Row : ImportItem(item)
  \/ \E g \in OwnedGame : RemoveFromLibrary(g)
  \/ CreateCopy \/ \E c \in copies : UpdateCopy(c)

CollectionSpec == CollectionInit /\ [][CollectionNext]_collectionVars

-----------------------------------------------------------------------------
(* Properties *)

(* Whatever imports, removals and edits came before: an owned entry has the*)
(* copies its quantity states, or one; an identifier names one entry; and  *)
(* an entry keeps its game, so no import hands one game's copies to another*)
CollectionConsistent ==
  /\ \A n \in DOMAIN entries :
       /\ entries[n].own =>
            \A k \in 1..Max({1, entries[n].quantity}) : \E c \in copies : c.entry = n /\ c.index = k
       /\ entries[n].coll # NoColl => CollOf[entries[n].coll] = entries[n].game
  /\ \A m, n \in DOMAIN entries : entries[m].coll = entries[n].coll /\ m # n => entries[m].coll = NoColl

(* Imports are idempotent: importing the same row or item again right away *)
(* changes neither the entries nor the copies.                             *)
ImportsIdempotent ==
  \A item \in Item \cup Row :
    LET once == ImportOne(Library, item) IN ImportOne(once, item) = once

(* Both: what imports and edits leave is consistent, and a repetition      *)
(* changes nothing.                                                        *)
CollectionInv == CollectionConsistent /\ ImportsIdempotent

=============================================================================
