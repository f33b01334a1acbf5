----------------------------- MODULE SavedLists ------------------------------
(***************************************************************************)
(* The lists and the wishlist a user keeps beside the collection.  A list  *)
(* is smart (filters, resolved when it is read) or manual (members).       *)
(* GameListStore reads a list in one transaction and changes it in         *)
(* another; a wish's prices are searched between two transactions.         *)
(***************************************************************************)
EXTENDS Integers

CONSTANTS ListId, ListGame, ListEditor, WishKey, WishTitle,
          Ratings5          \* the ratings a filter may bound, 0 standing for no bound

VARIABLES lists, members, owned, listEdit, wishes, pricing
listVars == <<lists, members, owned, listEdit, wishes, pricing>>

Gone == [kind |-> "gone"]
Unborn == [kind |-> "unborn"]          \* an identifier is given to one list only
Ready == [op |-> "ready"]
NoPrices == [title |-> "none"]
Filters == [min : Ratings5, max : Ratings5]
NoFilters == [min |-> 0, max |-> 0]

\* Filters are validated one by one and the two rating bounds together.
Normal(f) == f.min # 0 /\ f.max # 0 => f.min <= f.max

ListTypeOK ==
  /\ lists \in [ListId -> {Gone, Unborn} \cup [kind : {"smart", "manual"}, renamed : BOOLEAN, filters : Filters]]
  /\ members \subseteq ListId \X ListGame
  /\ owned \subseteq ListGame
  /\ wishes \in [WishKey -> {Gone} \cup [kind : {"wish"}, title : WishTitle,
                                         prices : {NoPrices} \cup [title : WishTitle]]]

ListInit ==
  /\ lists = [l \in ListId |-> Unborn] /\ members = {} /\ owned = {}
  /\ listEdit = [e \in ListEditor |-> Ready]
  /\ wishes = [k \in WishKey |-> Gone] /\ pricing = {}

-----------------------------------------------------------------------------
(* Lists *)

Exists(l) == lists[l].kind \in {"smart", "manual"}

CreateList(l, kind, filters) ==
  /\ lists[l] = Unborn
  /\ kind = "manual" => filters = NoFilters
  /\ Normal(filters)
  /\ lists' = [lists EXCEPT ![l] = [kind |-> kind, renamed |-> FALSE, filters |-> filters]]
  /\ UNCHANGED <<members, owned, listEdit, wishes, pricing>>

\* What is not given is written back as it was read.
ReadForUpdate(e, l, rename, newFilters) ==
  /\ listEdit[e] = Ready
  /\ Exists(l)
  /\ \A f \in newFilters : lists[l].kind = "smart" /\ Normal(f)
  /\ listEdit' = [listEdit EXCEPT ![e] =
       [op |-> "update", list |-> l, renamed |-> rename \/ lists[l].renamed,
        filters |-> CHOOSE f \in newFilters \cup {lists[l].filters} : newFilters = {} \/ f \in newFilters]]
  /\ UNCHANGED <<lists, members, owned, wishes, pricing>>

\* The row may be gone by now: the UPDATE then changes nothing.
WriteUpdate(e) ==
  /\ listEdit[e].op = "update"
  /\ LET l == listEdit[e].list
     IN lists' = IF ~Exists(l) THEN lists
                 ELSE [lists EXCEPT ![l].renamed = listEdit[e].renamed, ![l].filters = listEdit[e].filters]
  /\ listEdit' = [listEdit EXCEPT ![e] = Ready]
  /\ UNCHANGED <<members, owned, wishes, pricing>>

ReadForItem(e, l, g, present) ==
  /\ listEdit[e] = Ready
  /\ Exists(l) /\ lists[l].kind = "manual"
  /\ listEdit' = [listEdit EXCEPT ![e] = [op |-> "item", list |-> l, game |-> g, present |-> present]]
  /\ UNCHANGED <<lists, members, owned, wishes, pricing>>

\* Mutant: the list is not looked up again.
SetItemUnchecked(e) ==
  /\ listEdit[e].op = "item"
  /\ LET item == <<listEdit[e].list, listEdit[e].game>>
     IN members' = IF listEdit[e].present /\ listEdit[e].game \in owned THEN members \cup {item}
                   ELSE members \ {item}
  /\ listEdit' = [listEdit EXCEPT ![e] = Ready]
  /\ UNCHANGED <<lists, owned, wishes, pricing>>

\* Membership references the list, so a list deleted meanwhile refuses it; only
\* owned games are added, any member is removed.
SetItem(e) ==
  /\ listEdit[e].op = "item"
  /\ LET l == listEdit[e].list
         item == <<l, listEdit[e].game>>
     IN members' = CASE ~listEdit[e].present -> members \ {item}
                     [] listEdit[e].present /\ Exists(l) /\ listEdit[e].game \in owned -> members \cup {item}
                     [] OTHER -> members
  /\ listEdit' = [listEdit EXCEPT ![e] = Ready]
  /\ UNCHANGED <<lists, owned, wishes, pricing>>

DeleteList(l) ==
  /\ Exists(l)
  /\ lists' = [lists EXCEPT ![l] = Gone]
  /\ members' = {m \in members : m[1] # l}
  /\ UNCHANGED <<owned, listEdit, wishes, pricing>>

ChangeOwnership(g) ==
  /\ owned' = IF g \in owned THEN owned \ {g} ELSE owned \cup {g}
  /\ UNCHANGED <<lists, members, listEdit, wishes, pricing>>

\* A manual list shows its members that are still in the catalog, owned or not.
Resolve(l) == {g \in ListGame : <<l, g>> \in members}

-----------------------------------------------------------------------------
(* Wishlist *)

\* Saving a title again replaces its metadata, and with it its prices.
UpsertWish(k, title) ==
  /\ wishes' = [wishes EXCEPT ![k] = [kind |-> "wish", title |-> title, prices |-> NoPrices]]
  /\ UNCHANGED <<lists, members, owned, listEdit, pricing>>

\* The offers of a search are for the title that was read before it.
SearchPrices(k) ==
  /\ wishes[k] # Gone
  /\ pricing' = pricing \cup {[key |-> k, title |-> wishes[k].title]}
  /\ UNCHANGED <<lists, members, owned, listEdit, wishes>>

SetPrices(p) ==
  /\ wishes' = IF wishes[p.key] = Gone THEN wishes
               ELSE [wishes EXCEPT ![p.key].prices = [title |-> p.title]]
  /\ pricing' = pricing \ {p}
  /\ UNCHANGED <<lists, members, owned, listEdit>>

\* A search that fails stores nothing.
SearchFails(p) ==
  /\ pricing' = pricing \ {p}
  /\ UNCHANGED <<lists, members, owned, listEdit, wishes>>

\* A title saved after its deletion gets a new identifier, the searches of the
\* deleted one find no row.
DeleteWish(k) ==
  /\ wishes[k] # Gone
  /\ wishes' = [wishes EXCEPT ![k] = Gone]
  /\ pricing' = {p \in pricing : p.key # k}
  /\ UNCHANGED <<lists, members, owned, listEdit>>

-----------------------------------------------------------------------------
ListStep(l) ==
  \/ \E kind \in {"smart", "manual"}, f \in Filters : CreateList(l, kind, f)
  \/ DeleteList(l)
  \/ \E e \in ListEditor :
       \/ \E rename \in BOOLEAN, fs \in {{}} \cup {{f} : f \in Filters} : ReadForUpdate(e, l, rename, fs)
       \/ \E g \in ListGame, present \in BOOLEAN : ReadForItem(e, l, g, present)

WishStep(k) ==
  \/ \E title \in WishTitle : UpsertWish(k, title)
  \/ SearchPrices(k) \/ DeleteWish(k)

ListNext ==
  \/ \E l \in ListId : ListStep(l)
  \/ \E e \in ListEditor : WriteUpdate(e) \/ SetItem(e)
  \/ \E g \in ListGame : ChangeOwnership(g)
  \/ \E k \in WishKey : WishStep(k)
  \/ \E p \in pricing : SetPrices(p) \/ SearchFails(p)

ListSpec == ListInit /\ [][ListNext]_listVars

-----------------------------------------------------------------------------
(* Properties *)

(* Members belong to manual lists that exist, manual lists have no filters *)
(* and every stored filter is one the validation accepts, although a list  *)
(* is read in one transaction and written in a later one.                  *)
ListsWellFormed ==
  /\ \A m \in members : lists[m[1]].kind = "manual"
  /\ \A l \in ListId : lists[l].kind = "manual" => lists[l].filters = NoFilters
  /\ \A l \in ListId : Exists(l) => Normal(lists[l].filters)

=============================================================================
