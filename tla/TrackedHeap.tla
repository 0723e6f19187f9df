----------------------------- MODULE TrackedHeap -----------------------------
(***************************************************************************)
(* The heap of the Paho C client: Heap.c keeps every allocation in a       *)
(* red-black tree (Tree.c) ordered by address, so that myfree can refuse   *)
(* what was never allocated and a leak is reported at shutdown.  A node is *)
(* named by the address its content holds, NULL is 0.  The tree is touched *)
(* only under heap_mutex, so each entry point of Heap.c is one action.     *)
(***************************************************************************)
EXTENDS Naturals, FiniteSets, FiniteSetsExt

CONSTANTS
  Addresses,     \* the addresses malloc can return
  Requests,      \* the sizes asked for
  MaxFailures    \* allocations the system refuses

ASSUME HeapAssumption ==
  Addresses \subseteq Nat \ {0} /\ Requests \subseteq Nat /\ MaxFailures \in Nat

VARIABLES
  heap,        \* Tree: the root and the nodes, with the sizes of their contents
  heapState,   \* heap_info: current_size, max_size
  heapMutex,   \* heap_mutex is held
  allocated,   \* what the application owns: address -> rounded size
  failures

heapVars == <<heap, heapState, heapMutex, allocated, failures>>

NULL == 0
LEFT == 0
RIGHT == 1
other(direction) == 1 - direction

\* TreeBalanceAfterRemove's temporary node stands where a leaf was removed; its content is NULL
temp == 1 + Max(Addresses)
Node == [red : BOOLEAN, parent : Nat, child : [{LEFT, RIGHT} -> Nat], size : Nat]
Blank == [red |-> FALSE, parent |-> NULL, child |-> [d \in {LEFT, RIGHT} |-> NULL], size |-> 0]

HeapInit ==
  /\ heap = [root |-> NULL, node |-> [n \in {} |-> Blank]]
  /\ heapState = [current_size |-> 0, max_size |-> 0]
  /\ heapMutex = FALSE /\ allocated = [a \in {} |-> 0] /\ failures = 0

isRed(t, n) == n # NULL /\ t.node[n].red
isBlack(t, n) == n = NULL \/ ~t.node[n].red

-----------------------------------------------------------------------------
(* Assignments through a node's pointers.                                  *)

SetParent(t, n, p) == IF n = NULL THEN t ELSE [t EXCEPT !.node[n].parent = p]
SetChild(t, n, d, c) == [t EXCEPT !.node[n].child[d] = c]
Paint(t, n, r) == [t EXCEPT !.node[n].red = r]

\* What pointed at n, the root or its parent's child, now points at m.
Redirect(t, n, m) ==
  LET p == t.node[n].parent IN
  IF p = NULL THEN [t EXCEPT !.root = m]
  ELSE SetChild(t, p, IF t.node[p].child[LEFT] = n THEN LEFT ELSE RIGHT, m)

TreeRotate(t, cur, direction) ==
  LET up == t.node[cur].child[other(direction)]
      inner == t.node[up].child[direction]
      lowered == SetParent(SetChild(t, cur, other(direction), inner), inner, cur)
      raised == SetParent(Redirect(lowered, cur, up), up, t.node[cur].parent)
  IN SetParent(SetChild(raised, up, direction, cur), cur, up)

-----------------------------------------------------------------------------
(* Adding.                                                                 *)

TreeBAASub(t, cur, which) ==
  LET parent == t.node[cur].parent
      grand == t.node[parent].parent
      uncle == t.node[grand].child[which]
      inner == cur = t.node[parent].child[which]
      turned == IF inner THEN TreeRotate(t, parent, other(which)) ELSE t
      low == IF inner THEN parent ELSE cur
      painted == Paint(Paint(turned, turned.node[low].parent, FALSE), grand, TRUE)
  IN IF isRed(t, uncle)
     THEN [tree |-> Paint(Paint(Paint(t, parent, FALSE), uncle, FALSE), grand, TRUE), cur |-> grand]
     ELSE [tree |-> TreeRotate(painted, grand, which), cur |-> low]

\* at: the tree and curnode
RECURSIVE TreeBalanceAfterAdd(_)
TreeBalanceAfterAdd(at) ==
  LET t == at.tree
      parent == t.node[at.cur].parent
      grand == t.node[parent].parent
  IN IF isRed(t, parent) /\ grand # NULL
     THEN TreeBalanceAfterAdd(TreeBAASub(t, at.cur, IF parent = t.node[grand].child[LEFT] THEN RIGHT ELSE LEFT))
     ELSE Paint(t, t.root, FALSE)

\* the node under which a new address hangs, and the found one if it is there
RECURSIVE Descend(_, _, _, _)
Descend(t, cur, above, key) ==
  IF cur = NULL \/ cur = key THEN [found |-> cur, above |-> above]
  ELSE Descend(t, t.node[cur].child[IF cur < key THEN RIGHT ELSE LEFT], cur, key)

TreeFind(t, key) == Descend(t, t.root, NULL, key).found

\* An address is never in the tree when it is added: malloc has just returned it.
TreeAdd(t, key, size) ==
  LET above == Descend(t, t.root, NULL, key).above
      node == [Blank EXCEPT !.red = TRUE, !.parent = above, !.size = size]
      grown == [t EXCEPT !.node = [n \in DOMAIN t.node \cup {key} |-> IF n = key THEN node ELSE t.node[n]]]
      hung == IF above = NULL THEN [grown EXCEPT !.root = key]
              ELSE SetChild(grown, above, IF above < key THEN RIGHT ELSE LEFT, key)
  IN TreeBalanceAfterAdd([tree |-> hung, cur |-> key])

-----------------------------------------------------------------------------
(* Iterating.                                                              *)

RECURSIVE TreeMinimum(_, _)
TreeMinimum(t, cur) ==
  IF cur = NULL \/ t.node[cur].child[LEFT] = NULL THEN cur ELSE TreeMinimum(t, t.node[cur].child[LEFT])

RECURSIVE Climb(_, _)
Climb(t, cur) ==
  LET parent == t.node[cur].parent
  IN IF parent # NULL /\ cur = t.node[parent].child[RIGHT] THEN Climb(t, parent) ELSE parent

TreeSuccessor(t, cur) ==
  IF t.node[cur].child[RIGHT] # NULL THEN TreeMinimum(t, t.node[cur].child[RIGHT]) ELSE Climb(t, cur)

TreeNextElement(t, cur) == IF cur = NULL THEN TreeMinimum(t, t.root) ELSE TreeSuccessor(t, cur)

-----------------------------------------------------------------------------
(* Removing.                                                               *)

\* A red sibling is first rotated above the parent
RedSiblingRaised(t, parent, which) ==
  LET sibling == t.node[parent].child[which]
  IN IF isRed(t, sibling)
     THEN TreeRotate(Paint(Paint(t, sibling, FALSE), parent, TRUE), parent, other(which))
     ELSE t

\* the sibling's red child is on its far side
FarChildRed(t, parent, which) ==
  LET sibling == t.node[parent].child[which]
  IN IF isBlack(t, t.node[sibling].child[which])
     THEN TreeRotate(Paint(Paint(t, t.node[sibling].child[other(which)], FALSE), sibling, TRUE), sibling, which)
     ELSE t

SiblingRaised(t, parent, which) ==
  LET sibling == t.node[parent].child[which]
      painted == Paint(Paint(Paint(t, sibling, t.node[parent].red), parent, FALSE),
                       t.node[sibling].child[which], FALSE)
  IN TreeRotate(painted, parent, other(which))

AtRoot(t) == [tree |-> t, cur |-> t.root]

\* A black sibling with a red child pays with it; without one the loop goes on at the parent.
BlackSibling(t, parent, which) ==
  LET sibling == t.node[parent].child[which]
  IN IF sibling = NULL THEN [tree |-> t, cur |-> parent]
     ELSE IF \A d \in {LEFT, RIGHT} : isBlack(t, t.node[sibling].child[d])
     THEN [tree |-> Paint(t, sibling, TRUE), cur |-> parent]
     ELSE AtRoot(SiblingRaised(FarChildRed(t, parent, which), parent, which))

TreeBARSub(t, cur, which) ==
  LET parent == t.node[cur].parent
  IN BlackSibling(RedSiblingRaised(t, parent, which), parent, which)

RECURSIVE TreeBalanceAfterRemove(_)
TreeBalanceAfterRemove(at) ==
  LET t == at.tree
      self == IF at.cur = temp THEN NULL ELSE at.cur
  IN IF at.cur # t.root /\ isBlack(t, at.cur)
     THEN TreeBalanceAfterRemove(
            TreeBARSub(t, at.cur, IF self = t.node[t.node[at.cur].parent].child[LEFT] THEN RIGHT ELSE LEFT))
     ELSE Paint(t, at.cur, FALSE)

Without(t, n) == [t EXCEPT !.node = [m \in DOMAIN t.node \ {n} |-> t.node[m]]]

\* the node of the successor is freed, and its content moves into the node of n
Rename(t, from, to) ==
  LET new(m) == IF m = from THEN to ELSE m
      moved(r) == [r EXCEPT !.parent = new(@), !.child = [d \in {LEFT, RIGHT} |-> new(r.child[d])]]
  IN [root |-> new(t.root),
      node |-> [m \in DOMAIN t.node \ {from} |->
                  moved(IF m = to THEN [t.node[from] EXCEPT !.size = t.node[to].size] ELSE t.node[m])]]

MutantSiblingSkipped(t, redundant, child) == t
Rebalanced(t, redundant, child) ==
  LET parent == t.node[redundant].parent
      held == [t EXCEPT !.node = [n \in DOMAIN t.node \cup {temp} |->
                 IF n = temp THEN [Blank EXCEPT !.parent = parent] ELSE t.node[n]]]
  IN IF isRed(t, redundant) THEN t
     ELSE IF child # NULL THEN TreeBalanceAfterRemove([tree |-> t, cur |-> child])
     ELSE IF parent # NULL THEN Without(TreeBalanceAfterRemove([tree |-> held, cur |-> temp]), temp)
     ELSE t

NodeFreed(t, n, redundant) == IF n # redundant THEN Rename(t, n, redundant) ELSE Without(t, n)

TreeRemoveNodeIndex(t, n) ==
  LET two == t.node[n].child[LEFT] # NULL /\ t.node[n].child[RIGHT] # NULL
      redundant == IF two THEN TreeSuccessor(t, n) ELSE n
      left == t.node[redundant].child[LEFT]
      child == IF left # NULL THEN left ELSE t.node[redundant].child[RIGHT]
      cut == Redirect(SetParent(t, child, t.node[redundant].parent), redundant, child)
  IN NodeFreed(Rebalanced(cut, redundant, child), n, redundant)

-----------------------------------------------------------------------------
(* Heap.c                                                                  *)

Heap_roundup(size) == IF size % 16 # 0 THEN size + 16 - (size % 16) ELSE size

Used(current) == [current_size |-> current,
                  max_size |-> IF current > heapState.max_size THEN current ELSE heapState.max_size]

Fits(a) == a \in Addresses \ DOMAIN allocated

mymalloc(a, request) ==
  LET size == Heap_roundup(request) IN
  /\ ~heapMutex /\ Fits(a)
  /\ heap' = TreeAdd(heap, a, size)
  /\ heapState' = Used(heapState.current_size + size)
  /\ allocated' = [b \in DOMAIN allocated \cup {a} |-> IF b = a THEN size ELSE allocated[b]]
  /\ UNCHANGED <<heapMutex, failures>>

\* Every early return of mymalloc leaves heap_mutex locked.
MallocFails ==
  /\ ~heapMutex /\ failures < MaxFailures
  /\ heapMutex' = TRUE /\ failures' = failures + 1
  /\ UNCHANGED <<heap, heapState, allocated>>

\* Heap_unlink differs only in that the memory stays the application's
myfree(a) ==
  /\ ~heapMutex /\ TreeFind(heap, a) # NULL
  /\ heapState' = [heapState EXCEPT !.current_size = @ - heap.node[a].size]
  /\ heap' = TreeRemoveNodeIndex(heap, a)
  /\ allocated' = [b \in DOMAIN allocated \ {a} |-> allocated[b]]
  /\ UNCHANGED <<heapMutex, failures>>

\* The size is counted, and the element out of the tree, before realloc is asked.
myrealloc(a, b, request) ==
  LET size == Heap_roundup(request)
      found == TreeFind(heap, a)
      removed == TreeRemoveNodeIndex(heap, a)
  IN /\ ~heapMutex /\ found # NULL
     /\ heapState' = Used(heapState.current_size + size - heap.node[a].size)
     /\ \/ /\ b = a \/ Fits(b)
           /\ heap' = TreeAdd(removed, b, size)
           /\ allocated' = [c \in (DOMAIN allocated \ {a}) \cup {b} |-> IF c = b THEN size ELSE allocated[c]]
           /\ UNCHANGED <<heapMutex, failures>>
        \/ /\ failures < MaxFailures
           /\ failures' = failures + 1 /\ heap' = removed /\ heapMutex' = TRUE
           /\ UNCHANGED allocated

HeapNext ==
  \/ \E a \in Addresses, r \in Requests : mymalloc(a, r)
  \/ MallocFails
  \/ \E a \in Addresses : myfree(a)
  \/ \E a, b \in Addresses, r \in Requests : myrealloc(a, b, r)

-----------------------------------------------------------------------------
(* Properties                                                              *)

RECURSIVE BlackHeight(_, _)
BlackHeight(t, n) ==
  IF n = NULL THEN {1}
  ELSE {h + (IF t.node[n].red THEN 0 ELSE 1) :
          h \in BlackHeight(t, t.node[n].child[LEFT]) \cup BlackHeight(t, t.node[n].child[RIGHT])}

Tracked == DOMAIN heap.node

TotalUsed(f) == MapThenSumSet(LAMBDA a : f[a], DOMAIN f)

\* The tree is a red-black tree: its pointers agree in both directions, no red node has a red
\* child, the root is black, and every path down carries the same number of black nodes.
TreeBalanced ==
  /\ \A n \in Tracked, d \in {LEFT, RIGHT} :
       LET c == heap.node[n].child[d]
       IN c # NULL => /\ c \in Tracked /\ heap.node[c].parent = n
                      /\ ~(heap.node[n].red /\ heap.node[c].red)
  /\ heap.root # NULL => heap.node[heap.root].parent = NULL /\ isBlack(heap, heap.root)
  /\ Cardinality(BlackHeight(heap, heap.root)) = 1

\* Every allocation is found by its address, and HeapScan's iteration visits them in order.
TreeSearches ==
  /\ \A a \in Addresses : (TreeFind(heap, a) # NULL) = (a \in Tracked)
  /\ \A n \in Tracked \cup {NULL} :
       LET later == {m \in Tracked : m > n}
       IN TreeNextElement(heap, n) = IF later = {} THEN NULL ELSE Min(later)

\* The accounts agree with what the application owns, as long as no allocation has failed.
HeapAccounts ==
  ~heapMutex =>
    /\ Tracked = DOMAIN allocated
    /\ \A a \in Tracked : heap.node[a].size = allocated[a] /\ allocated[a] \in {16 * k : k \in 0 .. 64}
    /\ heapState.current_size = TotalUsed(allocated)
    /\ heapState.max_size >= heapState.current_size

\* Whatever the order of allocations, reallocations and frees, the heap's tree (Tree.c) stays a
\* balanced search tree over exactly what is allocated, and the sizes Heap_terminate reports as
\* leaked are the sizes of what was not freed (Heap.c).
HeapSound == TreeBalanced /\ TreeSearches /\ HeapAccounts
================================================================================
