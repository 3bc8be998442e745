----------------------------- MODULE NodeSequence -----------------------------
(***************************************************************************)
(* What a linked list promises: a sequence of distinct nodes, each with    *)
(* its datum, into which nodes are inserted before another or at the end   *)
(* and from which they are removed.                                        *)
(***************************************************************************)
EXTENDS Naturals, Sequences, SequencesExt

CONSTANTS Nodes, Data, NULL

VARIABLES nodes,  \* the nodes in order
          datum   \* node of the sequence -> datum

vars == <<nodes, datum>>

Init == nodes = <<>> /\ datum = [x \in {} |-> NULL]

Put(x, v, s) == [y \in ToSet(s) |-> IF y = x THEN v ELSE datum[y]]

Insert(i, x, v) ==
    /\ x \notin ToSet(nodes)
    /\ nodes' = InsertAt(nodes, i, x)
    /\ datum' = Put(x, v, nodes')

Delete(i) ==
    /\ nodes' = RemoveAt(nodes, i)
    /\ datum' = [x \in ToSet(nodes') |-> datum[x]]

SetDatum(i, v) == UNCHANGED nodes /\ datum' = Put(nodes[i], v, nodes)

Clear == nodes' = <<>> /\ datum' = [x \in {} |-> NULL]

Next ==
    \/ \E i \in 1..(Len(nodes) + 1), x \in Nodes, v \in Data : Insert(i, x, v)
    \/ \E i \in DOMAIN nodes : Delete(i) \/ \E v \in Data : SetDatum(i, v)
    \/ Clear

Spec == Init /\ [][Next]_vars
=============================================================================
