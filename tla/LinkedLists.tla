----------------------------- MODULE LinkedLists -----------------------------
(***************************************************************************)
(* LinkedList.c of the Paho C client, the list that every queue of the     *)
(* client is kept in: doubly linked, with a count and a cursor, current,   *)
(* that remembers the element last found and is looked at first.           *)
(* An element is a piece of memory malloc returned; 0 is NULL.             *)
(***************************************************************************)
EXTENDS Naturals, Sequences, SequencesExt

CONSTANTS
  Elements,      \* the memory for elements
  Contents,      \* content pointers
  SameItem(_, _) \* the callback of a search: two contents hold the same item

ASSUME ListAssumption == Elements \subseteq Nat \ {0}

VARIABLES
  aList,     \* List: first, last, current, count
  element,   \* the allocated elements: prev, next, content
  items      \* the contents the caller has put in and not taken out, in order

listVars == <<aList, element, items>>

nil == 0

ListZero == [first |-> nil, last |-> nil, current |-> nil, count |-> 0]

ListInit == aList = ListZero /\ element = [e \in {} |-> nil] /\ items = <<>>

Taken == DOMAIN element
New(e, c, p, n) == [x \in Taken \cup {e} |-> IF x = e THEN [prev |-> p, next |-> n, content |-> c] ELSE element[x]]

\* Each content is put in once.
Fresh(e, c) == e \in Elements \ Taken /\ c \in Contents \ ToSet(items)

\* The element before e, or the list itself, is told its new next, and likewise backwards.
SetNext(l, els, e, n) == IF e = nil THEN [l |-> [l EXCEPT !.first = n], els |-> els]
                                    ELSE [l |-> l, els |-> [els EXCEPT ![e].next = n]]
SetPrev(l, els, e, p) == IF e = nil THEN [l |-> [l EXCEPT !.last = p], els |-> els]
                                    ELSE [l |-> l, els |-> [els EXCEPT ![e].prev = p]]

ListAppendNoMalloc(e, c) ==
  LET grown == New(e, c, aList.last, nil)
      linked == SetNext(aList, grown, IF aList.first = nil THEN nil ELSE aList.last, e)
  IN /\ Fresh(e, c)
     /\ element' = linked.els
     /\ aList' = [linked.l EXCEPT !.last = e, !.count = @ + 1]
     /\ items' = Append(items, c)

ListInsert(e, c, index) ==
  LET before == element[index].prev
      grown == [New(e, c, before, index) EXCEPT ![index].prev = e]
      linked == SetNext(aList, grown, before, e)
  IN /\ Fresh(e, c) /\ index \in Taken
     /\ element' = linked.els
     /\ aList' = [linked.l EXCEPT !.count = @ + 1]
     /\ items' = LET i == CHOOSE i \in DOMAIN items : items[i] = element[index].content
                 IN InsertAt(items, i, c)

ListNextElement(pos) == IF pos = nil THEN aList.first ELSE element[pos].next
ListPrevElement(pos) == IF pos = nil THEN aList.last ELSE element[pos].prev

\* A search compares content pointers, or what they point to.
Matches(e, c, callback) == IF callback THEN SameItem(element[e].content, c) ELSE element[e].content = c

RECURSIVE SearchFrom(_, _, _)
SearchFrom(e, c, callback) ==
  IF e = nil \/ Matches(e, c, callback) THEN e ELSE SearchFrom(ListNextElement(e), c, callback)

ListFindItem(c, callback) ==
  IF aList.current # nil /\ Matches(aList.current, c, callback) THEN aList.current
  ELSE SearchFrom(aList.first, c, callback)

Find(c, callback) ==
  /\ ListFindItem(c, callback) # nil
  /\ aList' = [aList EXCEPT !.current = ListFindItem(c, callback)]
  /\ UNCHANGED <<element, items>>

\* Out of the chain, in both directions.
Bypass(e) ==
  LET back == SetNext(aList, element, element[e].prev, element[e].next)
  IN SetPrev(back.l, back.els, element[e].next, element[e].prev)

Freed(els, e) == [x \in DOMAIN els \ {e} |-> els[x]]
Gone(e) == SelectSeq(items, LAMBDA c : c # element[e].content)

CursorAfter(e) == IF aList.current = e THEN element[e].next ELSE aList.current

\* ListDetach, ListRemove, ListDetachItem and ListRemoveItem: the search's cursor is undone
ListUnlink(c, callback) ==
  LET e == ListFindItem(c, callback) IN
  /\ e # nil
  /\ element' = Freed(Bypass(e).els, e)
  /\ aList' = [Bypass(e).l EXCEPT !.current = CursorAfter(e), !.count = @ - 1]
  /\ items' = Gone(e)

ListDetachHead ==
  LET first == aList.first IN
  /\ aList.count > 0
  /\ element' = Freed(Bypass(first).els, first)
  /\ aList' = [Bypass(first).l EXCEPT !.current = IF @ = first THEN element[first].next ELSE @, !.count = @ - 1]
  /\ items' = Tail(items)

ListPopTail ==
  LET last == aList.last IN
  /\ aList.count > 0
  /\ element' = Freed(Bypass(last).els, last)
  /\ aList' = [Bypass(last).l EXCEPT !.current = IF @ = last THEN element[last].prev ELSE @, !.count = @ - 1]
  /\ items' = Front(items)

\* ListEmpty, ListFree and ListFreeNoContent free every element reached from first
ListEmpty ==
  /\ items # <<>>
  /\ element' = [e \in {} |-> nil] /\ aList' = ListZero /\ items' = <<>>

ListNext ==
  \/ \E e \in Elements, c \in Contents : ListAppendNoMalloc(e, c)
  \/ \E e \in Elements, c \in Contents, i \in Elements : ListInsert(e, c, i)
  \/ \E c \in Contents, callback \in BOOLEAN : Find(c, callback) \/ ListUnlink(c, callback)
  \/ ListDetachHead \/ ListPopTail \/ ListEmpty

-----------------------------------------------------------------------------
RECURSIVE Forward(_)
Forward(e) == IF e = nil THEN <<>> ELSE <<element[e].content>> \o Forward(ListNextElement(e))
RECURSIVE Backward(_)
Backward(e) == IF e = nil THEN <<>> ELSE <<element[e].content>> \o Backward(ListPrevElement(e))

\* However elements are appended, inserted, found and taken out, walking the list gives exactly
\* what was put in, in order and in both directions; count and the memory in use agree with it;
\* a search finds an item whenever it is there; and the cursor never points at freed memory,
\* through which ListFindItem would read (LinkedList.c).
ListSound ==
  /\ Forward(ListNextElement(nil)) = items /\ Reverse(Backward(ListPrevElement(nil))) = items
  /\ aList.count = Len(items) /\ Len(items) = Cardinality(Taken)
  /\ aList.current \in Taken \cup {nil}
  /\ \A c \in Contents, callback \in BOOLEAN :
       LET e == ListFindItem(c, callback)
       IN /\ (e # nil) = (\E i \in DOMAIN items : IF callback THEN SameItem(items[i], c) ELSE items[i] = c)
          /\ e # nil => e \in Taken /\ Matches(e, c, callback)
================================================================================
