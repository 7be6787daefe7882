---------------------------- MODULE MCLinkedList ----------------------------
(* Small heaps for LinkedList: which node malloc returns does not matter.    *)
EXTENDS LinkedListProps, TLC

Interchangeable == Permutations(Nodes) \cup Permutations(Lists)
=============================================================================
