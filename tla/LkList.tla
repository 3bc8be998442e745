-------------------------------- MODULE LkList --------------------------------
(***************************************************************************)
(* lklist/src/lklist.c: a doubly linked list on the heap.  One list, from  *)
(* lkInit to lkDestroy, changed by lkInsert, lkRemove, lkSetNodeData and   *)
(* lkClear, with the pointers in the nodes as the code leaves them.        *)
(*                                                                         *)
(* The caller passes nodes that are in the list.  The allocator hands out  *)
(* any node that is not in use, freed ones included.  What a node holds    *)
(* that is freed, or lost, is set to Null: nothing may read it any more,   *)
(* and OneSequence would show a list that does.  When there is no          *)
(* memory lkInsert writes through the null pointer before it looks at it,  *)
(* and lkCopyToNewArray does not look at it; the process ends there.       *)
(***************************************************************************)
EXTENDS Integers, Sequences, FiniteSets, SequencesExt

CONSTANTS Nodes,      \* addresses
          Data,       \* what an element can hold
          Null,
          MaxLeaked   \* bound: nodes lost before a list is cleared again

ASSUME ListAssumption ==
    Null \notin Nodes /\ Null \notin Data /\ IsFiniteSet(Nodes) /\ MaxLeaked \in Nat

VARIABLES ll,               \* is there a list
          head, tail, size, \* LkList
          prev, next, data, \* of the nodes
          allocated,        \* nodes malloc has given and free has not taken back
          released,         \* nodes the last call passed to freeElement, in order
          crashed

list == <<head, tail, size>>
links == <<prev, next>>
listVars == <<ll, list, links, data, allocated, released, crashed>>

ListInit ==
    /\ ll = FALSE
    /\ head = Null /\ tail = Null /\ size = 0
    /\ prev = [x \in Nodes |-> Null] /\ next = [x \in Nodes |-> Null]
    /\ data = [x \in Nodes |-> Null]
    /\ allocated = {} /\ released = <<>> /\ crashed = FALSE

-----------------------------------------------------------------------------
(* Walking the list *)

\* The nodes from one on, each linked to the one after it.
Follow(link, from) ==
    LET after[k \in 0..Cardinality(Nodes)] ==
          IF k = 0 THEN from ELSE IF after[k - 1] = Null THEN Null ELSE link[after[k - 1]]
        reached == { k \in 0..Cardinality(Nodes) : after[k] # Null }
    IN  [k \in 1..Cardinality(reached) |-> after[k - 1]]

\* By lkNext.
Walk(from) == Follow(next, from)

InList == ToSet(Walk(head))

\* lkLocate: the head for a position below zero, Null beyond the end.
Locate(pos) ==
    IF pos <= 0 THEN head
    ELSE IF pos < Len(Walk(head)) THEN Walk(head)[pos + 1] ELSE Null

\* lkIndexOf, and lkFind with a predicate on the datum.
IndexOf(v) ==
    LET walk == Walk(head)
        hits == { i \in DOMAIN walk : data[walk[i]] = v }
    IN  IF size = 0 \/ hits = {} THEN -1
        ELSE (CHOOSE i \in hits : \A j \in hits : i <= j) - 1

\* lkCopyToArray
CopyToArray == IF size = 0 THEN <<>> ELSE [i \in DOMAIN Walk(head) |-> data[Walk(head)[i]]]

-----------------------------------------------------------------------------
lkInit ==
    /\ ~ll /\ ~crashed
    /\ ll' = TRUE /\ head' = Null /\ tail' = Null /\ size' = 0
    /\ released' = <<>>
    /\ UNCHANGED <<links, data, allocated, crashed>>

\* Mutant: the node before is not told of the new one.
InsertLinksOneWay(x, where) ==
    /\ prev' = [prev EXCEPT ![x] = IF head = Null THEN Null
                                   ELSE IF where = Null THEN tail ELSE prev[where],
                            ![where] = x]
    /\ next' = [next EXCEPT ![x] = IF head = Null THEN Null ELSE where]

\* The links of a new node x before node where, or at the end for Null.
InsertLinks(x, where) ==
    LET empty  == head = Null
        before == IF empty THEN Null ELSE IF where = Null THEN tail ELSE prev[where]
        after  == IF empty THEN Null ELSE where
    IN  /\ prev' = [y \in Nodes |-> IF y = x THEN before ELSE IF y = after THEN x ELSE prev[y]]
        /\ next' = [y \in Nodes |-> IF y = x THEN after ELSE IF y = before THEN x ELSE next[y]]

lkInsert(where, v) ==
    /\ ll /\ ~crashed
    /\ \E x \in Nodes \ allocated :
         /\ allocated' = allocated \cup {x}
         /\ data' = [data EXCEPT ![x] = v]
         /\ InsertLinks(x, where)
         /\ tail' = IF next'[x] = Null THEN x ELSE tail
         /\ head' = IF prev'[x] = Null THEN x ELSE head
    /\ size' = size + 1
    /\ released' = <<>>
    /\ UNCHANGED <<ll, crashed>>

\* A write through the null pointer of malloc.
WriteToNull ==
    /\ crashed' = TRUE /\ released' = <<>>
    /\ UNCHANGED <<ll, list, links, data, allocated>>

lkInsertNoMemory == ll /\ ~crashed /\ WriteToNull

\* Of an empty list there is nothing to copy.
lkCopyToNewArrayNoMemory == ll /\ ~crashed /\ size # 0 /\ WriteToNull

\* Mutant: the tail is left where it is.
TailAfterForgotten(before, after) == tail

TailAfter(before, after) == IF after = Null THEN before ELSE tail

lkRemove(which) ==
    /\ ll /\ ~crashed /\ which \in InList
    /\ LET before == prev[which]
           after  == next[which]
       IN  /\ head' = IF before = Null THEN after ELSE head
           /\ tail' = TailAfter(before, after)
           /\ next' = [y \in Nodes |-> IF y = before THEN after
                                        ELSE IF y = which THEN Null ELSE next[y]]
           /\ prev' = [y \in Nodes |-> IF y = after THEN before
                                        ELSE IF y = which THEN Null ELSE prev[y]]
    /\ data' = [data EXCEPT ![which] = Null]
    /\ released' = <<which>> /\ allocated' = allocated \ {which}
    /\ size' = size - 1
    /\ UNCHANGED <<ll, crashed>>

lkSetNodeData(x, v) ==
    /\ ll /\ ~crashed /\ x \in InList
    /\ data' = [data EXCEPT ![x] = v]
    /\ released' = <<>>
    /\ UNCHANGED <<ll, list, links, allocated, crashed>>

\* Mutant: the loop does not go on from the node it freed first.
ClearedSecondAgain == [i \in 1..(Len(Walk(head)) - 2) |-> Walk(head)[2]]

\* The loop of lkClear begins with the second node and frees each one when it has
\* reached the next, so neither the head nor the last node is freed; the code after
\* the loop, for the node it ends on, finds Null there.
Cleared == IF Len(Walk(head)) < 3 THEN <<>> ELSE SubSeq(Walk(head), 2, Len(Walk(head)) - 1)

Leaked == allocated \ InList

\* Mutant: the size is left as it was.
ClearKeepingSize ==
    /\ released' = Cleared /\ allocated' = allocated \ ToSet(Cleared)
    /\ head' = Null /\ tail' = Null /\ UNCHANGED size
    /\ prev' = [x \in Nodes |-> Null] /\ next' = [x \in Nodes |-> Null]
    /\ data' = [x \in Nodes |-> Null]
    /\ UNCHANGED crashed

Clear ==
    /\ released' = Cleared /\ allocated' = allocated \ ToSet(Cleared)
    /\ head' = Null /\ tail' = Null /\ size' = 0
    /\ prev' = [x \in Nodes |-> Null] /\ next' = [x \in Nodes |-> Null]
    /\ data' = [x \in Nodes |-> Null]
    /\ UNCHANGED crashed

lkClear ==
    /\ ll /\ ~crashed /\ Cardinality(Leaked) <= MaxLeaked
    /\ Clear /\ UNCHANGED ll

lkDestroy ==
    /\ ll /\ ~crashed /\ Cardinality(Leaked) <= MaxLeaked
    /\ Clear /\ ll' = FALSE

ListNext ==
    \/ lkInit \/ lkInsertNoMemory \/ lkCopyToNewArrayNoMemory \/ lkClear \/ lkDestroy
    \/ \E x \in InList \cup {Null}, v \in Data : lkInsert(x, v)
    \/ \E x \in InList : lkRemove(x) \/ \E v \in Data : lkSetNodeData(x, v)

ListSpec == ListInit /\ [][ListNext]_listVars

-----------------------------------------------------------------------------
(* Properties *)

ListTypeOK ==
    /\ ll \in BOOLEAN /\ crashed \in BOOLEAN
    /\ head \in Nodes \cup {Null} /\ tail \in Nodes \cup {Null}
    /\ size \in 0..Cardinality(Nodes)
    /\ prev \in [Nodes -> Nodes \cup {Null}] /\ next \in [Nodes -> Nodes \cup {Null}]
    /\ data \in [Nodes -> Data \cup {Null}]
    /\ allocated \subseteq Nodes /\ released \in Seq(Nodes)

\* The list reads the same from both ends after any calls: the walk from the head ends
\* at the tail, has as many nodes as the size says, each is linked back to the one
\* before it, and none is a node that was freed.
LinkedBothWays ==
    LET walk == Walk(head)
    IN  /\ Len(walk) = size /\ Cardinality(ToSet(walk)) = size
        /\ tail = IF walk = <<>> THEN Null ELSE Last(walk)
        /\ \A i \in DOMAIN walk : prev[walk[i]] = IF i = 1 THEN Null ELSE walk[i - 1]
        /\ ToSet(walk) \subseteq allocated

\* The three ways to look an element up agree with the array the list is copied to.
LookupsAgree ==
    /\ \A v \in Data :
          IF IndexOf(v) = -1 THEN v \notin ToSet(CopyToArray)
          ELSE /\ CopyToArray[IndexOf(v) + 1] = v
               /\ data[Locate(IndexOf(v))] = v
               /\ v \notin ToSet(SubSeq(CopyToArray, 1, IndexOf(v)))
    /\ Locate(size) = IF size = 0 THEN head ELSE Null

\* However it is read, forward, back, by position or by datum, the list is one sequence
\* of its elements (lklist.c:74-90, 174-207, 237-254).
OneSequence == LinkedBothWays /\ LookupsAgree

\* A call gives freeElement each node it frees once, and none that was not in use.
FreedOnce == IsInjective(released') /\ ToSet(released') = allocated \ allocated'

\* freeElement is called for a node exactly when the node is freed, once, and the node
\* was in use.  Memory is lost in lkClear and lkDestroy only: the head and the last node
\* of the list.
LosesHeadAndLast ==
    [][/\ FreedOnce
       /\ \E lost \in SUBSET {head, tail} : Leaked' \subseteq Leaked \cup lost
       /\ (Leaked' # Leaked => head' = Null)]_listVars

Sequence == INSTANCE NodeSequence WITH
    NULL <- Null, nodes <- Walk(head), datum <- [x \in InList |-> data[x]]

\* The pointers implement the sequence of nodes.
ImplementsNodeSequence == Sequence!Spec
=============================================================================
