-------------------------- MODULE AtomicCursorMap --------------------------
(***************************************************************************)
(* What FileCursorPersist (octos-app-transport, cursor/mod.rs) promises to *)
(* the transport: a map from sessions to replay cursors that readers see   *)
(* change one whole update at a time.  A power loss may lose the updates   *)
(* made since the last one that settled, never a part of an update and     *)
(* never anything else.                                                    *)
(***************************************************************************)
EXTENDS Naturals

CONSTANTS
    Sessions,   \* session keys
    MaxCursor   \* cursors are 1..MaxCursor; 0 stands for no entry

VARIABLES
    map,        \* what a reader of the map sees
    mayBe       \* what a reader may see after a power loss

vars == <<map, mayBe>>

Maps == [Sessions -> 0..MaxCursor]

Init == map \in Maps /\ mayBe = {map}

(* One save (c > 0) or forget (c = 0) takes effect, at once. *)
Commit ==
    /\ \E s \in Sessions, c \in 0..MaxCursor : map' = [map EXCEPT ![s] = c]
    /\ mayBe' = mayBe \union {map'}

(* Everything readers see is now safe from a power loss. *)
Settle == mayBe' = {map} /\ UNCHANGED map

PowerLoss == map' \in mayBe /\ mayBe' = {map'}

Next == Commit \/ Settle \/ PowerLoss

Spec == Init /\ [][Next]_vars
=============================================================================
