----------------------------- MODULE JsonForest -----------------------------
(***************************************************************************)
(* What the tree functions of cJSON promise: a program holds the roots of   *)
(* trees of named items, and a call makes a tree, drops one, gives one root  *)
(* a name, or changes one list by one item.  Everything else in the forest   *)
(* stays as it is (cJSON.c:1924-2373).                                      *)
(***************************************************************************)
EXTENDS Integers, FiniteSets, Sequences, SequencesExt

CONSTANTS Items

VARIABLE forest   \* the roots, each item's members in order (kids), its name, and
                  \* the items there are (all): the roots and all below them

RECURSIVE BelowUpTo(_, _, _)
BelowUpTo(f, S, n) ==
  IF S = {} \/ n = 0 THEN S
  ELSE S \cup BelowUpTo(f, UNION {ToSet(f.kids[i]) : i \in S}, n - 1)

Below(f, S) == BelowUpTo(f, S, Cardinality(Items))

\* The items whose members, or whose name, differ between two forests.
Changed(f, g) == {i \in f.all \cap g.all : f.kids[i] # g.kids[i]}

Renamed(f, g) == {i \in f.all \cap g.all : f.name[i] # g.name[i]}

\* A tree that did not exist, from a creation or a duplication.
Make(f, g) ==
  /\ Changed(f, g) = {} /\ Renamed(f, g) = {}
  /\ \E r \in Items \ f.all : g.roots = f.roots \cup {r} /\ Below(g, {r}) \cap f.all = {}

Drop(f, g) ==
  /\ Changed(f, g) = {} /\ Renamed(f, g) = {}
  /\ \E r \in f.roots : g.roots = f.roots \ {r}

\* A replacement for which there is no member has its new name already.
Rename(f, g) ==
  /\ g.roots = f.roots /\ g.all = f.all
  /\ Changed(f, g) = {} /\ Renamed(f, g) \subseteq f.roots

\* A new item, or a reference, becomes the last member of l.
Grow(f, g, l) ==
  /\ g.roots = f.roots /\ Renamed(f, g) = {}
  /\ \E r \in Items \ f.all : g.kids[l] = Append(f.kids[l], r)

\* A root becomes, perhaps under a new name, a member of l.
Place(f, g, l) ==
  \E r \in f.roots :
    /\ g.roots = f.roots \ {r} /\ Renamed(f, g) \subseteq {r}
    /\ \E at \in 1 .. Len(f.kids[l]) + 1 : g.kids[l] = InsertAt(f.kids[l], at, r)

\* A member of l becomes a root, or goes with what is below it.
Take(f, g, l) ==
  \E at \in 1 .. Len(f.kids[l]) :
    /\ g.kids[l] = RemoveAt(f.kids[l], at) /\ Renamed(f, g) = {}
    /\ \/ g.roots = f.roots \cup {f.kids[l][at]}
       \/ g.roots = f.roots /\ g.all = f.all \ Below(f, {f.kids[l][at]})

\* A root, perhaps under a new name, takes the place of a member, which goes.
Swap(f, g, l) ==
  \E r \in f.roots, at \in 1 .. Len(f.kids[l]) :
    /\ g.kids[l] = [f.kids[l] EXCEPT ![at] = r] /\ Renamed(f, g) \subseteq {r}
    /\ g.roots = f.roots \ {r}
    /\ g.all = f.all \ Below(f, {f.kids[l][at]})

Call(f, g) ==
  \/ Make(f, g) \/ Drop(f, g) \/ Rename(f, g)
  \/ \E l \in Changed(f, g) :
       /\ Changed(f, g) = {l}
       /\ Grow(f, g, l) \/ Place(f, g, l) \/ Take(f, g, l) \/ Swap(f, g, l)

Init == forest.roots = {} /\ forest.all = {}

Next ==
  \E f \in {forest}, g \in {forest'} :
    /\ g.all = Below(g, g.roots)
    /\ f = g \/ Call(f, g)

Spec == Init /\ [][Next]_forest
=============================================================================
