------------------------------ MODULE CJsonLists ------------------------------
(***************************************************************************)
(* The lists of Util/src/cJSON.c: child is a list's first item, next the      *)
(* item after an item, prev the one before it, and the prev of the first is  *)
(* the last, so that appending needs no walk.  The four ways to relink a list *)
(* keep this true.                                                         *)
(***************************************************************************)
EXTENDS Integers, Sequences, Functions

CONSTANT Nil

\* The list of l, walked both ways, is this chain.
IsList(m, l, chain) ==
  /\ IsInjective(chain)
  /\ m.heap[l].child = IF chain = <<>> THEN Nil ELSE chain[1]
  /\ \A i \in DOMAIN chain :
       /\ m.heap[chain[i]].next = IF i = Len(chain) THEN Nil ELSE chain[i + 1]
       /\ m.heap[chain[i]].prev = IF i = 1 THEN chain[Len(chain)] ELSE chain[i - 1]

\* An item in no list, which may be put in one.
Unlinked(m, item) == m.heap[item].next = Nil /\ m.heap[item].prev = Nil

\* The assignments to an item's links.
SetNext(m, item, to) == [m EXCEPT !.heap[item].next = to]

SetPrev(m, item, to) == [m EXCEPT !.heap[item].prev = to]

SetChild(m, item, to) == [m EXCEPT !.heap[item].child = to]

\* add_item_to_array
AddToArray(m, array, item) ==
  LET first == m.heap[array].child
      last == m.heap[first].prev
  IN IF item = Nil \/ array = item THEN m
     ELSE IF first = Nil THEN SetNext(SetPrev(SetChild(m, array, item), item, item), item, Nil)
     ELSE IF last = Nil THEN m
     ELSE SetPrev(SetPrev(SetNext(m, last, item), item, last), first, item)

\* Mutant of Detach: the first item is not told of the new last one.
Detach_LastUntold(m, parent, item) ==
  LET prev == m.heap[item].prev
      next == m.heap[item].next
      first == m.heap[parent].child = item
      skipped == IF first THEN m ELSE SetNext(m, prev, next)
      back == IF next = Nil THEN skipped ELSE SetPrev(skipped, next, prev)
      relinked == IF first THEN SetChild(back, parent, next) ELSE back
  IN SetNext(SetPrev(relinked, item, Nil), item, Nil)

\* Mutant of Detach: the list still begins with the item taken out.
Detach_StillFirst(m, parent, item) ==
  LET prev == m.heap[item].prev
      next == m.heap[item].next
      first == m.heap[parent].child = item
      skipped == IF first THEN m ELSE SetNext(m, prev, next)
      back == IF next = Nil THEN skipped ELSE SetPrev(skipped, next, prev)
      relinked == IF first \/ next # Nil THEN back
                  ELSE SetPrev(back, back.heap[parent].child, prev)
  IN SetNext(SetPrev(relinked, item, Nil), item, Nil)

\* cJSON_DetachItemViaPointer
Detach(m, parent, item) ==
  LET prev == m.heap[item].prev
      next == m.heap[item].next
      first == m.heap[parent].child = item
      skipped == IF first THEN m ELSE SetNext(m, prev, next)
      back == IF next = Nil THEN skipped ELSE SetPrev(skipped, next, prev)
      relinked == IF first THEN SetChild(back, parent, next)
                  ELSE IF next = Nil THEN SetPrev(back, back.heap[parent].child, prev)
                  ELSE back
  IN SetNext(SetPrev(relinked, item, Nil), item, Nil)

\* cJSON_InsertItemInArray, once the item that is to come after the new one is found
InsertBefore(m, array, after, item) ==
  LET prev == m.heap[after].prev
      linked == SetPrev(SetPrev(SetNext(m, item, after), item, prev), after, item)
  IN IF after = m.heap[array].child THEN SetChild(linked, array, item)
     ELSE SetNext(linked, prev, item)

\* cJSON_ReplaceItemViaPointer, up to the deletion of what has been replaced
PutInPlace(m, parent, item, new) ==
  LET next == m.heap[item].next
      prev == m.heap[item].prev
      first == m.heap[parent].child
      copied == SetPrev(SetNext(m, new, next), new, prev)
      back == IF next = Nil THEN copied ELSE SetPrev(copied, next, new)
      alone == back.heap[first].prev = first
      self == IF alone THEN SetPrev(back, new, new) ELSE back
      front == IF prev = Nil THEN back ELSE SetNext(back, prev, new)
      linked == IF first = item THEN SetChild(self, parent, new)
                ELSE IF next = Nil THEN SetPrev(front, first, new)
                ELSE front
  IN SetPrev(SetNext(linked, item, Nil), item, Nil)
=============================================================================
