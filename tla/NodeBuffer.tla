----------------------------- MODULE NodeBuffer -----------------------------
(***************************************************************************)
(* The buffer a native card crosses to Java in: the tree that walk cuts to *)
(* the depth it draws, encoded as a list of records (node.rs), and the     *)
(* tree Java decodes from it (Node.java).  The algorithm alone: a run      *)
(* evaluates it on every tree of its instance.                             *)
(***************************************************************************)
EXTENDS Integers, Sequences, SequencesExt

CONSTANTS Trees,       \* trees a card can evaluate to
          MaxDepth     \* the depth cap of walk

ASSUME NodeBufferAssumption == MaxDepth \in Nat

VARIABLE tree  \* the tree that crosses the buffer

BufferInit == tree \in Trees

(***************************************************************************)
(* Trees.  A node without a kind, and one too deep, is dropped with what   *)
(* is under it; the rest is numbered in preorder and crosses as a list of  *)
(* records that name their parents.                                        *)
(***************************************************************************)
RECURSIVE Walk(_, _), Records(_, _, _), Rebuild(_, _)

Keeps(n, depth) == n.kind # "none" /\ depth <= MaxDepth

Walk(n, depth) ==
    [n EXCEPT !.kids =
       LET kept == SelectSeq(n.kids, LAMBDA k : Keeps(k, depth + 1)) IN
       [i \in DOMAIN kept |-> Walk(kept[i], depth + 1)]]

ParentOf(id) == id

(* The records of n and what is under it, n having the number id. *)
Records(n, id, parent) ==
    FoldLeft(LAMBDA recs, k : recs \o Records(k, id + Len(recs), ParentOf(id)),
             <<[id |-> id, parent |-> parent, kind |-> n.kind, attr |-> n.attr]>>,
             n.kids)

Encoded(n) == Records(n, 0, -1)

(* The node of record i, with those that name it as parent, in order. *)
Rebuild(recs, i) ==
    LET under == SelectSeq([j \in DOMAIN recs |-> j], LAMBDA j : recs[j].parent = recs[i].id) IN
    [kind |-> recs[i].kind, attr |-> recs[i].attr,
     kids |-> [j \in DOMAIN under |-> Rebuild(recs, under[j])]]

Decoded(recs) == Rebuild(recs, CHOOSE i \in DOMAIN recs : recs[i].parent = -1)

-----------------------------------------------------------------------------
(* The tree Java builds is the tree that was walked (encode, Node.decode). *)
TreeSurvives ==
    tree.kind # "none" => Decoded(Encoded(Walk(tree, 0))) = Walk(tree, 0)
=============================================================================
