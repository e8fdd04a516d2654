------------------------------- MODULE MCBTree -------------------------------
(* Nodes of two keys, so that seven keys split leaves, interior nodes and  *)
(* the root, and give a tree of three levels.                              *)
EXTENDS BTree
=============================================================================
