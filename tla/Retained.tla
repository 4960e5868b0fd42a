------------------------------ MODULE Retained ------------------------------
(***************************************************************************)
(* Vec::retain and Iterator::filter: what of a sequence is kept, in order. *)
(* A recursive function, and not SelectSeq, because proofs expand it.      *)
(***************************************************************************)
EXTENDS Naturals, Sequences

(* Those of the first n elements of q that are in keep. *)
RetainedOf(q, keep) ==
    LET f[n \in 0..Len(q)] ==
          IF n = 0 THEN <<>>
          ELSE IF q[n] \in keep THEN Append(f[n - 1], q[n]) ELSE f[n - 1]
    IN  f

Retain(q, keep) == RetainedOf(q, keep)[Len(q)]
=============================================================================
