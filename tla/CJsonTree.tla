------------------------------ MODULE CJsonTree ------------------------------
(***************************************************************************)
(* The trees of Util/src/cJSON.c: cells linked by next, prev and child, the  *)
(* calls that build, relink, copy and free them, and the memory they take.   *)
(* The assignments to the links of one list are in CJsonLists.              *)
(*                                                                         *)
(* A call computes on a memory, a record of the cells in use, their fields,  *)
(* the number of strings allocated and, during the call, how many more       *)
(* allocations succeed (left).  Functions that return a pointer return a     *)
(* record with the memory and the pointer, Nil for NULL.                     *)
(***************************************************************************)
EXTENDS CJsonLists, FiniteSets, SequencesExt

CONSTANTS
  Cells,    \* the addresses
  Keys,     \* names of members
  Alike,    \* the pairs of keys that differ in case only
  NoKey,
  MaxLeft,    \* bound: a call makes at most this many allocations
  MaxFeatures \* bound: on the lists, references, texts and names of all items

VARIABLES
  mem,   \* the memory between calls
  held   \* the items the caller holds: the roots of its trees

vars == <<mem, held>>

Blank == [next |-> Nil, prev |-> Nil, child |-> Nil, list |-> FALSE, text |-> FALSE,
          ref |-> FALSE, key |-> NoKey, const |-> FALSE]

Init ==
  /\ mem = [used |-> {}, heap |-> [c \in Cells |-> Blank], strings |-> 0, left |-> 0]
  /\ held = {}

Pointers == Cells \cup {Nil}

TypeOK ==
  /\ mem.used \subseteq Cells /\ held \subseteq mem.used
  /\ mem.strings \in Int /\ mem.left = 0
  /\ mem.heap \in [Cells -> [next : Pointers, prev : Pointers, child : Pointers,
                             list : BOOLEAN, text : BOOLEAN, ref : BOOLEAN,
                             key : Keys \cup {NoKey}, const : BOOLEAN]]

-----------------------------------------------------------------------------
(***************************************************************************)
(* Walking                                                                 *)
(***************************************************************************)

\* The cells from c along next, n at most.
RECURSIVE Along(_, _, _)
Along(m, c, n) ==
  IF c = Nil \/ n = 0 THEN <<>> ELSE <<c>> \o Along(m, m.heap[c].next, n - 1)

Members(m, c) == Along(m, m.heap[c].child, Cardinality(Cells))

\* What cJSON_Delete(c) visits: the chain from c, and below it all but what
\* references show.
RECURSIVE Visited(_, _, _)
Visited(m, c, n) ==
  IF c = Nil \/ n = 0 THEN {}
  ELSE {c} \cup Visited(m, m.heap[c].next, n - 1)
       \cup IF m.heap[c].ref THEN {} ELSE Visited(m, m.heap[c].child, n - 1)

Reached(m, c) == Visited(m, c, Cardinality(Cells))

\* get_array_item
ItemAt(m, a, index) ==
  LET chain == Members(m, a) IN IF index < Len(chain) THEN chain[index + 1] ELSE Nil

\* strcmp and case_insensitive_strcmp on two keys, the second perhaps NULL.
Same(key, other, sensitive) ==
  IF sensitive THEN key = other ELSE key = other \/ {key, other} \in Alike

\* get_object_item: the walk that looks at case ends at an item without a name.
ItemNamed(m, o, key, sensitive) ==
  LET chain == Members(m, o)
      Stops(j) == \/ Same(key, m.heap[chain[j]].key, sensitive)
                  \/ sensitive /\ m.heap[chain[j]].key = NoKey
      stops == {j \in 1 .. Len(chain) : Stops(j)}
      first == CHOOSE j \in stops : \A k \in stops : j <= k
  IN IF stops = {} \/ m.heap[chain[first]].key = NoKey THEN Nil ELSE chain[first]

-----------------------------------------------------------------------------
(***************************************************************************)
(* Allocation                                                              *)
(***************************************************************************)

\* cJSON_New_Item: a cell of zeroes.
NewItem(m, fields) ==
  LET free == Cells \ m.used
      at == CHOOSE c \in free : TRUE
  IN IF m.left = 0 \/ free = {} THEN [mem |-> m, at |-> Nil]
     ELSE [mem |-> [m EXCEPT !.left = @ - 1, !.used = @ \cup {at}, !.heap[at] = fields],
           at |-> at]

\* cJSON_strdup
Strdup(m) ==
  IF m.left = 0 THEN [mem |-> m, ok |-> FALSE]
  ELSE [mem |-> [m EXCEPT !.left = @ - 1, !.strings = @ + 1], ok |-> TRUE]

OwnsKey(cell) == cell.key # NoKey /\ ~cell.const

OwnsText(cell) == cell.text /\ ~cell.ref

Strings(m, S) ==
  Cardinality({c \in S : OwnsKey(m.heap[c])}) + Cardinality({c \in S : OwnsText(m.heap[c])})

\* cJSON_Delete; NULL is allowed.
Delete(m, item) ==
  LET gone == Reached(m, item)
  IN [m EXCEPT !.used = @ \ gone,
               !.heap = [c \in Cells |-> IF c \in gone THEN Blank ELSE @[c]],
               !.strings = @ - Strings(m, gone)]

-----------------------------------------------------------------------------
(***************************************************************************)
(* Creation                                                                *)
(***************************************************************************)

\* cJSON_CreateNull ... cJSON_CreateNumber
CreateLeaf(m) == NewItem(m, Blank)

\* cJSON_CreateArray, cJSON_CreateObject
CreateList(m) == NewItem(m, [Blank EXCEPT !.list = TRUE])

\* cJSON_CreateString, cJSON_CreateRaw
CreateText(m) ==
  LET item == NewItem(m, Blank)
      copy == Strdup(item.mem)
  IN IF item.at = Nil THEN item
     ELSE IF copy.ok THEN [item EXCEPT !.mem = [copy.mem EXCEPT !.heap[item.at].text = TRUE]]
     ELSE [mem |-> Delete(copy.mem, item.at), at |-> Nil]

\* cJSON_CreateStringReference
CreateTextReference(m) == NewItem(m, [Blank EXCEPT !.text = TRUE, !.ref = TRUE])

\* cJSON_CreateObjectReference, cJSON_CreateArrayReference
CreateListReference(m, child) == NewItem(m, [Blank EXCEPT !.list = TRUE, !.ref = TRUE, !.child = child])

\* create_reference: a copy of the cell that owns nothing; the flag for a
\* constant name is copied, the name is not.
CreateReference(m, item) ==
  NewItem(m, [m.heap[item] EXCEPT !.next = Nil, !.prev = Nil, !.ref = TRUE, !.key = NoKey])

\* cJSON_CreateIntArray ... cJSON_CreateDoubleArray, and with texts
\* cJSON_CreateStringArray
CreateArrayOf(m, count, texts) ==
  LET array == CreateList(m)
      \* one turn of the loop; Nil once an allocation has failed
      Turn(made, i) ==
        LET n == IF texts THEN CreateText(made.mem) ELSE CreateLeaf(made.mem)
        IN IF made.at = Nil THEN made
           ELSE IF n.at = Nil THEN [mem |-> Delete(n.mem, array.at), at |-> Nil, last |-> Nil]
           ELSE [mem |-> IF i = 1 THEN [n.mem EXCEPT !.heap[array.at].child = n.at]
                         ELSE [n.mem EXCEPT !.heap[made.last].next = n.at,
                                            !.heap[n.at].prev = made.last],
                 at |-> array.at, last |-> n.at]
      start == [mem |-> array.mem, at |-> array.at, last |-> Nil]
      made == FoldLeft(Turn, start, [i \in 1 .. count |-> i])
      first == made.mem.heap[made.at].child
  IN IF made.at = Nil \/ count = 0 THEN [mem |-> made.mem, at |-> made.at]
     ELSE [mem |-> [made.mem EXCEPT !.heap[first].prev = made.last], at |-> made.at]

\* cJSON_Duplicate
RECURSIVE Duplicate(_, _, _)
Duplicate(m, item, recurse) ==
  LET from == m.heap[item]
      new == NewItem(m, [Blank EXCEPT !.list = from.list, !.const = from.const])
      Fail(at) == [mem |-> Delete(at, new.at), at |-> Nil]
      text == IF from.text THEN Strdup(new.mem) ELSE [mem |-> new.mem, ok |-> TRUE]
      texted == [text.mem EXCEPT !.heap[new.at].text = from.text]
      key == IF OwnsKey(from) THEN Strdup(texted) ELSE [mem |-> texted, ok |-> TRUE]
      named == [key.mem EXCEPT !.heap[new.at].key = from.key]
      Turn(copied, child) ==
        LET copy == Duplicate(copied.mem, child, TRUE)
        IN IF copied.at = Nil THEN copied
           ELSE IF copy.at = Nil THEN [mem |-> Fail(copy.mem).mem, at |-> Nil, last |-> Nil]
           ELSE [mem |-> IF copied.last = Nil THEN [copy.mem EXCEPT !.heap[new.at].child = copy.at]
                         ELSE [copy.mem EXCEPT !.heap[copied.last].next = copy.at,
                                               !.heap[copy.at].prev = copied.last],
                 at |-> new.at, last |-> copy.at]
      all == FoldLeft(Turn, [mem |-> named, at |-> new.at, last |-> Nil],
                      IF recurse THEN Members(m, item) ELSE <<>>)
      first == all.mem.heap[new.at].child
  IN IF new.at = Nil THEN new
     ELSE IF ~text.ok THEN Fail(text.mem)
     ELSE IF ~key.ok THEN Fail(key.mem)
     ELSE IF all.at = Nil \/ first = Nil THEN [mem |-> all.mem, at |-> all.at]
     ELSE [mem |-> [all.mem EXCEPT !.heap[first].prev = all.last], at |-> new.at]

-----------------------------------------------------------------------------
(***************************************************************************)
(* Adding, taking out, replacing                                           *)
(***************************************************************************)

\* The name of an item is given up, unless it is the caller's.
DropKey(m, item) ==
  IF OwnsKey(m.heap[item]) THEN [m EXCEPT !.strings = @ - 1] ELSE m

SetKey(m, item, key, const) ==
  [DropKey(m, item) EXCEPT !.heap[item].key = key, !.heap[item].const = const]

\* add_item_to_object; ok is what it returns.
AddToObject(m, object, key, item, const) ==
  LET copy == IF const THEN [mem |-> m, ok |-> TRUE] ELSE Strdup(m)
  IN IF item = Nil \/ object = item THEN [mem |-> m, ok |-> FALSE]
     ELSE IF ~copy.ok THEN copy
     ELSE [mem |-> AddToArray(SetKey(copy.mem, item, key, const), object, item), ok |-> TRUE]

\* cJSON_AddItemReferenceToArray, cJSON_AddItemReferenceToObject: a reference
\* that cannot be added is forgotten.
AddReferenceToArray(m, array, item) ==
  LET ref == CreateReference(m, item) IN [mem |-> AddToArray(ref.mem, array, ref.at)]

AddReferenceToObject(m, object, key, item) ==
  LET ref == CreateReference(m, item) IN AddToObject(ref.mem, object, key, ref.at, FALSE)

\* cJSON_AddStringToObject, cJSON_AddRawToObject, and of the other seven
\* cJSON_AddObjectToObject, cJSON_AddArrayToObject
AddNewToObject(m, object, key, text) ==
  LET item == IF text THEN CreateText(m) ELSE CreateList(m)
      added == AddToObject(item.mem, object, key, item.at, FALSE)
  IN IF added.ok THEN added ELSE [added EXCEPT !.mem = Delete(@, item.at)]

\* cJSON_InsertItemInArray
Insert(m, array, which, item) ==
  LET after == ItemAt(m, array, which)
  IN IF after = Nil THEN AddToArray(m, array, item) ELSE InsertBefore(m, array, after, item)

\* cJSON_ReplaceItemViaPointer
Replace(m, parent, item, new) == Delete(PutInPlace(m, parent, item, new), item)

\* replace_item_in_object: the replacement is renamed first, and has no name
\* if the copy of it cannot be allocated.  Nil: there is no such member.
ReplaceNamed(m, object, key, new, sensitive) ==
  LET copy == Strdup(DropKey(m, new))
      renamed == [copy.mem EXCEPT !.heap[new].key = IF copy.ok THEN key ELSE NoKey,
                                  !.heap[new].const = FALSE]
      old == ItemNamed(renamed, object, key, sensitive)
  IN IF old = Nil THEN [mem |-> renamed, at |-> Nil]
     ELSE [mem |-> Replace(renamed, object, old, new), at |-> new]

-----------------------------------------------------------------------------
(***************************************************************************)
(* The caller                                                              *)
(***************************************************************************)

\* The items of the trees the caller holds.
Live == UNION {Reached(mem, r) : r \in held}

\* What a caller may do: a reference is not modified, and the list it shows
\* stays as it is and alive while it does; an item is not put below itself.
References == {c \in mem.used : mem.heap[c].ref}

Shown(c) ==
  /\ mem.heap[c].list /\ ~mem.heap[c].ref /\ mem.heap[c].child # Nil
  /\ \E r \in References : mem.heap[r].child = mem.heap[c].child

Lists == {c \in Live : mem.heap[c].list /\ ~mem.heap[c].ref /\ ~Shown(c)}

Mutable(S) == \A c \in S : Shown(c) =>
  \A r \in References : mem.heap[r].child = mem.heap[c].child => r \in S

Fits(l, r) == l \notin Reached(mem, r)

\* What a call that allocates may come to, whichever allocation fails.
Outcomes(call(_)) ==
  {[result EXCEPT !.mem.left = 0] :
     result \in {call([mem EXCEPT !.left = n]) : n \in 0 .. MaxLeft}}

Features(m) ==
  Cardinality({<<c, f>> \in m.used \X {"list", "ref", "text"} : m.heap[c][f]})
  + Cardinality({c \in m.used : m.heap[c].key # NoKey})

Leaves(m) == Features(m) <= MaxFeatures /\ mem' = m

Keeps(item) == held' = held \cup ({item} \ {Nil})

Create ==
  \E made \in UNION {Outcomes(CreateLeaf), Outcomes(CreateList), Outcomes(CreateText),
                     Outcomes(CreateTextReference)} :
    Leaves(made.mem) /\ Keeps(made.at)

CreateReferenceTo ==
  \E l \in Lists :
    \E made \in Outcomes(LAMBDA m : CreateListReference(m, m.heap[l].child)) :
      Leaves(made.mem) /\ Keeps(made.at)

CreateArray ==
  \E count \in 0 .. 2, texts \in BOOLEAN :
    \E made \in Outcomes(LAMBDA m : CreateArrayOf(m, count, texts)) :
      Leaves(made.mem) /\ Keeps(made.at)

Copy ==
  \E item \in Live, recurse \in BOOLEAN :
    \E made \in Outcomes(LAMBDA m : Duplicate(m, item, recurse)) :
      Leaves(made.mem) /\ Keeps(made.at)

AddItem ==
  \E l \in Lists, r \in held : Fits(l, r) /\ Leaves(AddToArray(mem, l, r)) /\ held' = held \ {r}

AddItemNamed ==
  \E l \in Lists, r \in held, key \in Keys, const \in BOOLEAN :
    \E added \in Outcomes(LAMBDA m : AddToObject(m, l, key, r, const)) :
      /\ Fits(l, r)
      /\ Leaves(added.mem)
      /\ held' = IF added.ok THEN held \ {r} ELSE held

AddReference ==
  \E l \in Lists, item \in Live, key \in Keys :
    \E added \in Outcomes(LAMBDA m : AddReferenceToArray(m, l, item))
                  \cup Outcomes(LAMBDA m : AddReferenceToObject(m, l, key, item)) :
      Fits(l, item) /\ Leaves(added.mem) /\ UNCHANGED held

AddNew ==
  \E l \in Lists, key \in Keys, text \in BOOLEAN :
    \E added \in Outcomes(LAMBDA m : AddNewToObject(m, l, key, text)) :
      Leaves(added.mem) /\ UNCHANGED held

\* cJSON_DetachItemFromArray, ...FromObject, ...FromObjectCaseSensitive; the
\* cJSON_Delete... of the same three free what they detach.
Chosen(l) ==
  ({ItemAt(mem, l, index) : index \in 0 .. Cardinality(Cells)}
   \cup {ItemNamed(mem, l, key, sensitive) : key \in Keys, sensitive \in BOOLEAN}) \ {Nil}

TakeOut ==
  \E l \in Lists : \E item \in Chosen(l) :
    \/ Leaves(Detach(mem, l, item)) /\ Keeps(item)
    \/ /\ Mutable(Reached(Detach(mem, l, item), item))
       /\ Leaves(Delete(Detach(mem, l, item), item))
       /\ UNCHANGED held

InsertItem ==
  \E l \in Lists, r \in held, which \in 0 .. Cardinality(Cells) :
    Fits(l, r) /\ Leaves(Insert(mem, l, which, r)) /\ held' = held \ {r}

ReplaceItem ==
  \E l \in Lists, r \in held : \E item \in Chosen(l) :
    /\ Fits(l, r) /\ Mutable(Reached(Detach(mem, l, item), item))
    /\ Leaves(Replace(mem, l, item, r))
    /\ held' = held \ {r}

ReplaceItemNamed ==
  \E l \in Lists, r \in held, key \in Keys, sensitive \in BOOLEAN :
    LET old == ItemNamed(mem, l, key, sensitive) IN
    \E done \in Outcomes(LAMBDA m : ReplaceNamed(m, l, key, r, sensitive)) :
      /\ Fits(l, r) /\ (old # Nil => Mutable(Reached(Detach(mem, l, old), old)))
      /\ Leaves(done.mem)
      /\ held' = held \ {done.at}

DeleteTree ==
  \E r \in held :
    Mutable(Reached(mem, r)) /\ Leaves(Delete(mem, r)) /\ held' = held \ {r}

Next ==
  \/ Create \/ CreateReferenceTo \/ CreateArray \/ Copy \/ DeleteTree
  \/ AddItem \/ AddItemNamed \/ AddReference \/ AddNew
  \/ TakeOut \/ InsertItem \/ ReplaceItem \/ ReplaceItemNamed

Spec == Init /\ [][Next]_vars

-----------------------------------------------------------------------------
(***************************************************************************)
(* Properties                                                              *)
(***************************************************************************)

Owners(c) == {l \in mem.used : ~mem.heap[l].ref /\ c \in ToSet(Members(mem, l))}

\* After any sequence of calls every list can be walked both ways, with the prev of
\* the first item, on which appending relies (cJSON.c:1961-1978), a root is linked to
\* nothing, and an item belongs to one list or is a root.
ListsWellLinked ==
  /\ \A l \in Live : ~mem.heap[l].ref => IsList(mem, l, Members(mem, l))
  /\ \A r \in held : Unlinked(mem, r)
  /\ \A c \in Live :
       Cardinality(Owners(c) \cap Live) + (IF c \in held THEN 1 ELSE 0) = 1

\* No item the caller can reach is linked to memory that has been freed
\* (cJSON.c:253-275, 2183-2217, 2288-2335).
NoDanglingLink ==
  \A c \in Live :
    {mem.heap[c].next, mem.heap[c].prev, mem.heap[c].child} \subseteq mem.used \cup {Nil}

\* Whatever allocation fails in the middle of a call, every string is owned by
\* one item, so that it is freed once, and every item can still be reached by
\* the caller, except a reference that could not be given its name
\* (cJSON.c:2064-2073, 2451-2459, 2770-2778).
NothingLeaks ==
  /\ mem.strings = Strings(mem, mem.used)
  /\ \A c \in mem.used \ Live : mem.heap[c].ref /\ mem.heap[c].key = NoKey

\* A name that some item of an object has is found, and the first such item; a
\* search that looks at case is stopped by an item without a name
\* (cJSON.c:1867-1897).
LookupFindsFirst ==
  \A o \in Live, key \in Keys, sensitive \in BOOLEAN :
    LET chain == Members(mem, o)
        matching == {j \in 1 .. Len(chain) : Same(key, mem.heap[chain[j]].key, sensitive)}
        found == ItemNamed(mem, o, key, sensitive)
    IN IF matching = {} THEN found = Nil
       ELSE \/ \E j \in matching : found = chain[j] /\ \A k \in matching : j <= k
            \/ /\ sensitive /\ found = Nil
               /\ \E j \in 1 .. Len(chain) : mem.heap[chain[j]].key = NoKey

Forest == INSTANCE JsonForest WITH
  Items <- Cells,
  forest <- [roots |-> held, all |-> Live,
             kids |-> [c \in Cells |-> IF mem.heap[c].ref THEN <<>> ELSE Members(mem, c)],
             name |-> [c \in Cells |-> mem.heap[c].key]]

\* Every call does to the trees what it promises and nothing to the others
\* (cJSON.c:1924-2373).
ForestSpec == Forest!Spec
=============================================================================
