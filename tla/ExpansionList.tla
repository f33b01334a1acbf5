---------------------------- MODULE ExpansionList ----------------------------
(***************************************************************************)
(* The expansions shown for a game: the first links of the stored or       *)
(* refreshed metadata that are not minor, reduced to those that enough     *)
(* users of BGG own.  Details of an expansion come from its own metadata   *)
(* row or from a request that is not stored.                               *)
(***************************************************************************)
EXTENDS Integers, Sequences, FiniteSets, FiniteSetsExt

CONSTANTS
  Linkable, Minors,   \* Minors \subseteq Linkable have the title of an accessory
  Owners,             \* numbers of owners BGG may report
  MinOwners, MinSample, MaxShown,
  MaxListed           \* relevant links that are looked at, in the order of BGG

Unknown == -1      \* a detail without a number, or no detail
OtherType == -2    \* the detail of an item that is no expansion

ASSUME ListingConstants ==
  /\ IsFiniteSet(Linkable) /\ Owners \subseteq Nat
  /\ {MinOwners, MaxShown, MaxListed} \subseteq Nat /\ MinSample \in Nat \ {0, 1}

VARIABLES
  linked,    \* {} while the metadata row has no list of links, else {links}
  screen     \* the answer in the making: links, candidates, their owners, what is shown
listingVars == <<linked, screen>>

\* _linked_expansions: in the order of the metadata, each once.
Listings ==
  {links \in UNION {[1..n -> Linkable] : n \in 0..Cardinality(Linkable)} :
     \A i, j \in DOMAIN links : links[i] = links[j] => i = j}

\* The relevant links before the i-th.
Preceding(links, i) == {j \in 1..(i - 1) : links[j] \notin Minors}

\* The first MaxListed relevant ones: the others are not looked at.
Listed(links) ==
  {links[i] : i \in {j \in DOMAIN links : /\ links[j] \notin Minors
                                         /\ Cardinality(Preceding(links, j)) < MaxListed}}

NoScreen ==
  [links |-> <<>>, candidates |-> {}, owners |-> [x \in Linkable |-> Unknown], shown |-> {}]

ListingInit == linked = {} /\ screen = NoScreen

Known(candidates, owners) == {x \in candidates : owners[x] # Unknown}

\* The first n in the order of owners; ties are free.
Foremost(candidates, owners, n) ==
  CHOOSE top \in SUBSET candidates :
    /\ Cardinality(top) = IF Cardinality(candidates) < n THEN Cardinality(candidates) ELSE n
    /\ \A x \in top, y \in candidates \ top : owners[x] >= owners[y]

Smaller(a, b) == IF a < b THEN a ELSE b
Larger(a, b) == IF a > b THEN a ELSE b

\* A quarter of the most owned one, rounded up.
Cutoff(known, owners) == Larger(MinOwners, (Max({owners[x] : x \in known}) + 3) \div 4)

\* _select_important_expansions
Important(candidates, owners) ==
  LET known == Known(candidates, owners)
      above == {x \in known : owners[x] >= Cutoff(known, owners)}
      atLeast == Smaller(2, Cardinality(known))
  IN  IF Cardinality(known) < MinSample THEN Foremost(candidates, owners, MaxShown)
      ELSE IF Cardinality(above) < atLeast
           THEN Foremost(Foremost(known, owners, atLeast), owners, MaxShown)
           ELSE Foremost(above, owners, MaxShown)

\* _base_metadata: the links come from BGG on a refresh, and when the row has
\* none; after an error the row stays as it is.
RefreshLinks(links) ==
  /\ screen = NoScreen
  /\ linked' = {links}
  /\ UNCHANGED screen

\* Details come from the metadata row of the expansion or from a request; when
\* that fails they are missing, and another type removes the link.
ListForGame ==
  /\ screen = NoScreen
  /\ \E links \in IF linked = {} THEN {<<>>} ELSE linked :
       \E detail \in [Listed(links) -> Owners \cup {Unknown, OtherType}] :
         LET candidates == {x \in Listed(links) : detail[x] # OtherType}
             owners == [x \in Linkable |-> IF x \in Listed(links) THEN detail[x] ELSE Unknown]
         IN  screen' = [links |-> links, candidates |-> candidates, owners |-> owners,
                        shown |-> Important(candidates, owners)]
  /\ UNCHANGED linked

Respond ==
  /\ screen # NoScreen
  /\ screen' = NoScreen
  /\ UNCHANGED linked

ListingNext ==
  \/ \E links \in Listings : RefreshLinks(links)
  \/ ListForGame
  \/ Respond

ListingSpec == ListingInit /\ [][ListingNext]_listingVars

-----------------------------------------------------------------------------
(* Properties *)

\* Whatever numbers BGG reports: a game with relevant expansions shows at least
\* one of them and two where two are comparable.  A relevant link is hidden for
\* one of four reasons: its detail is of another type, MaxListed relevant links
\* come before it, the ones shown are owned at least as often, or its number is
\* unknown and the list is full or made of comparable ones.
ImportantShown ==
  LET known == Known(screen.candidates, screen.owners)
      least == IF Cardinality(known) < MinSample THEN Cardinality(screen.candidates) ELSE 2
  IN  /\ screen.shown \subseteq screen.candidates \ Minors
      /\ Cardinality(screen.shown) >= Smaller(least, MaxShown)
      /\ \A i \in DOMAIN screen.links :
           LET x == screen.links[i]
           IN  x \in Minors \cup screen.shown
               \/ screen.owners[x] = OtherType
               \/ Cardinality(Preceding(screen.links, i)) >= MaxListed
               \/ IF screen.owners[x] = Unknown
                  THEN Cardinality(known) >= MinSample \/ Cardinality(screen.shown) = MaxShown
                  ELSE \A y \in screen.shown : screen.owners[x] <= screen.owners[y]

=============================================================================
