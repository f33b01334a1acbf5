---------------------------- MODULE RulebookResolver ----------------------------
(***************************************************************************)
(* The resolution of what the rulebook providers offer for one game        *)
(* (RulebookResolver.resolve): providers are asked one after the other and *)
(* may fail after some offers; offers are scored, the best one of each URL *)
(* is kept, and the rest are ordered.  Discovery takes the first ones.     *)
(***************************************************************************)
EXTENDS Integers, Sequences, FiniteSets, FiniteSetsExt

CONSTANTS Providers,      \* their number
          Url,            \* numbers, in the order of the canonical URLs
          Preferred,      \* a sequence of distinct languages [primary, region]
          Offer,          \* [url, kind, identity, confidence, lang, source, title, year]
          MaxOffers       \* bound

VARIABLES asking, ranked, failing
resolverVars == <<asking, ranked, failing>>

ASSUME ResolverConstants ==
  /\ IsFiniteSet(Url) /\ IsFiniteSet(Offer)
  /\ Preferred \in Seq([primary : Nat, region : Nat])
  /\ \A i, j \in DOMAIN Preferred : Preferred[i] = Preferred[j] => i = j
  /\ Url \subseteq Nat
  /\ Offer \subseteq [url : Url, kind : STRING, identity : {"exact", "unknown", "other"}, confidence : Nat,
                     lang : [primary : Nat, region : Nat], source : Nat, title : BOOLEAN, year : BOOLEAN]

\* SOURCE_PRIORITY and the confidence a source may claim are numbers here.
SourcePriority == {o.source : o \in Offer}
Bit(b) == IF b THEN 1 ELSE 0

-----------------------------------------------------------------------------
(* Scores *)

\* How many of these positions are not before the given one.
From(positions, at) == Cardinality({i \in positions : i >= at})

\* The positions where a primary language is preferred first.
PrimaryOrder ==
  {i \in DOMAIN Preferred : \A j \in 1..(i - 1) : Preferred[j].primary # Preferred[i].primary}

LanguageRank(lang) ==
  LET same == {i \in DOMAIN Preferred : Preferred[i].primary = lang.primary}
      exact == {i \in same : Preferred[i] = lang}
  IN IF same = {} THEN 0
     ELSE From(PrimaryOrder, Min(same)) * (Len(Preferred) + 1)
            + (IF exact = {} THEN 0 ELSE From(same, Min(exact)))

MaxLanguageRank == Max({0} \cup {LanguageRank(Preferred[i]) : i \in DOMAIN Preferred})

\* A mixed-radix number: confidence, identity, language, source, title, year.
CandidateScore == [o \in Offer |->
  LET identity == o.confidence * 2 + Bit(o.identity = "exact")
      language == identity * (MaxLanguageRank + 1) + LanguageRank(o.lang)
      source == language * (Max(SourcePriority) + 1) + o.source
  IN source * 4 + Bit(o.title) * 2 + Bit(o.year)]

\* The key that orders offers of one score; equal keys are equal offers.
TieKey == [o \in Offer |->
  <<o.url, o.lang.primary, o.lang.region, o.source, o.confidence,
    Bit(o.identity = "exact"), Bit(o.title), Bit(o.year)>>]

KeyBefore(a, b) ==
  \E i \in 1..8 : TieKey[a][i] < TieKey[b][i] /\ \A j \in 1..(i - 1) : TieKey[a][j] = TieKey[b][j]

-----------------------------------------------------------------------------
(* Resolution *)

NothingBest == [tied |-> FALSE]

\* Mutant: of two offers with one score the later one stays.
KeepBestLast(best, o) ==
  LET current == best[o.url]
  IN [best EXCEPT ![o.url] =
       IF current = NothingBest \/ CandidateScore[o] > CandidateScore[current.offer]
       THEN [offer |-> o, tied |-> FALSE]
       ELSE IF CandidateScore[o] = CandidateScore[current.offer] THEN [offer |-> o, tied |-> TRUE]
       ELSE current]

KeepBest(best, o) ==
  LET current == best[o.url]
  IN [best EXCEPT ![o.url] =
       IF current = NothingBest \/ CandidateScore[o] > CandidateScore[current.offer]
       THEN [offer |-> o, tied |-> FALSE]
       ELSE IF CandidateScore[o] = CandidateScore[current.offer]
       THEN [offer |-> IF KeyBefore(o, current.offer) THEN o ELSE current.offer, tied |-> TRUE]
       ELSE current]

BestByUrl(offers) ==
  LET best[k \in 0..Len(offers)] ==
        IF k = 0 THEN [u \in Url |-> NothingBest] ELSE KeepBest(best[k - 1], offers[k])
  IN best[Len(offers)]

Score(item) == CandidateScore[item.offer]
Ahead(a, b) == Score(a) > Score(b) \/ (Score(a) = Score(b) /\ KeyBefore(a.offer, b.offer))

Sorted(items) ==
  CHOOSE order \in [1..Cardinality(items) -> items] :
    /\ items = {order[i] : i \in DOMAIN order}
    /\ \A i, j \in DOMAIN order : i < j => Ahead(order[i], order[j])

\* The items with their reasons, in their order.
Resolve(offers) ==
  LET best == BestByUrl(offers)
      order == Sorted({best[u] : u \in {v \in Url : best[v] # NothingBest}})
  IN [i \in DOMAIN order |->
        [offer |-> order[i].offer, tied |-> order[i].tied,
         broken |-> \E j \in DOMAIN order : j # i /\ Score(order[j]) = Score(order[i])]]

-----------------------------------------------------------------------------
(* Asking *)

ResolverInit == asking = 1 /\ ranked = <<>> /\ failing = {}

\* Other documents and offers for another game are passed over.
Discover ==
  /\ asking <= Providers /\ Len(ranked) < MaxOffers
  /\ \E o \in Offer :
       ranked' = IF o.kind = "rulebook" /\ o.identity # "other" THEN Append(ranked, o) ELSE ranked
  /\ UNCHANGED <<asking, failing>>

ProviderEnds == asking <= Providers /\ asking' = asking + 1 /\ UNCHANGED <<ranked, failing>>

\* What the provider offered before it failed stays.
ProviderFails ==
  /\ asking <= Providers
  /\ failing' = failing \cup {asking}
  /\ asking' = asking + 1
  /\ UNCHANGED ranked

ResolverNext == Discover \/ ProviderEnds \/ ProviderFails

ResolverSpec == ResolverInit /\ [][ResolverNext]_resolverVars

-----------------------------------------------------------------------------
(* Properties *)

(* The documented precedence, written out: a higher confidence, then the   *)
(* exact game, then the language (a preferred one by its primary language, *)
(* in the order of the preferences, the exact region before others), then  *)
(* the source, the title and the year.                                     *)
Precedence == [o \in Offer |->
  LET Named == {i \in DOMAIN Preferred : Preferred[i].primary = o.lang.primary}
      Exact == {i \in DOMAIN Preferred : Preferred[i] = o.lang}
  IN <<o.confidence, Bit(o.identity = "exact"),
       IF Named = {} THEN 0 ELSE Len(Preferred) - Min(Named) + 1,
       IF Exact = {} THEN 0 ELSE Len(Preferred) - Min(Exact) + 1,
       o.source, Bit(o.title), Bit(o.year)>>]

Outranks(a, b) ==
  \E i \in 1..7 : Precedence[a][i] > Precedence[b][i] /\ \A j \in 1..(i - 1) : Precedence[a][j] = Precedence[b][j]

(* No offer comes after one that it outranks, and none was dropped for a   *)
(* worse one: one number encodes six criteria without an overflow of one   *)
(* into the next, for every preference of languages.                       *)
PrecedenceKept ==
  \A result \in {Resolve(ranked)} :
    /\ \A i, j \in DOMAIN result : i < j => ~Outranks(result[j].offer, result[i].offer)
    /\ \A k \in DOMAIN ranked : \E i \in DOMAIN result :
         result[i].offer.url = ranked[k].url /\ ~Outranks(ranked[k], result[i].offer)

(* Equivalent permutations of the offers produce the same candidates, in   *)
(* the same order and for the same reasons: which provider answers first   *)
(* does not matter.  It is said of two neighbours that change places; every*)
(* permutation is a sequence of such changes, between offers of this state *)
(* in orders that are states too.                                          *)
ResolutionOrderIndependent ==
  \A result \in {Resolve(ranked)}, i \in 2..Len(ranked) :
    Resolve([ranked EXCEPT ![i - 1] = ranked[i], ![i] = ranked[i - 1]]) = result

(* Both: the order is the documented one, and nothing but the offers       *)
(* themselves decides it.                                                  *)
ResolutionSound == PrecedenceKept /\ ResolutionOrderIndependent

=============================================================================
