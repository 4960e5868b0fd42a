----------------------------- MODULE CursorFile -----------------------------
(***************************************************************************)
(* The replay cursors of the transport: the in-memory CursorStore and the  *)
(* single JSON file FileCursorPersist keeps it in                          *)
(* (src/app/crates/octos-app-transport/src/cursor/mod.rs).                 *)
(*                                                                         *)
(* Every transport is a Writer: it owns a CursorStore and a                *)
(* FileCursorPersist with a lock of its own, so two transports on the same *)
(* file are not excluded from each other.  A mutation is the sequence of   *)
(* system calls write_map makes: create and write a temporary file, fsync  *)
(* it, rename it over the target, fsync the directory.  The operating      *)
(* system may stop the process or lose power between any two of them.      *)
(*                                                                         *)
(* A cursor is its sequence number, 1..MaxCursor; 0 is "no entry".         *)
(***************************************************************************)
EXTENDS Naturals, FiniteSets

CONSTANTS
    NoOp,       \* no mutation
    Writers,    \* the live transports
    Sessions,   \* session keys
    MaxCursor,  \* highest cursor the server hands out
    DirFsyncs   \* TRUE iff the filesystem lets a directory be fsync'd

ASSUME MaxCursorAssumption == MaxCursor \in Nat
ASSUME DirFsyncsAssumption == DirFsyncs \in BOOLEAN

Maps == [Sessions -> 0..MaxCursor]
EmptyMap == [s \in Sessions |-> 0]

(* What the bytes of a file are to read_map, and whether they have been    *)
(* fsync'd: "current" and "legacy" hold a map, "unreadable" is every file  *)
(* that is missing, empty, torn, garbage, of a newer version, or does not  *)
(* match its checksum.                                                     *)
Contents == [kind : {"current", "legacy", "unreadable"}, map : Maps,
             synced : BOOLEAN]
Unreadable == [kind |-> "unreadable", map |-> EmptyMap, synced |-> TRUE]

(* A mutation: the entry it changes, and the whole map it is to write. *)
Ops == [session : Sessions, cursor : 0..MaxCursor, map : Maps]

VARIABLES
    file,       \* the bytes the target path shows to the running system
    durable,    \* the bytes at the target when the directory was last fsync'd
    since,      \* the bytes renamed over the target after that
    tmp,        \* the bytes of each temporary path
    pc,         \* where each writer is in write_map; "idle" outside it
    op,         \* the mutation each writer is making
    inner,      \* CursorStore.inner of each writer
    failed      \* sessions whose last mutation could not be persisted

vars == <<file, durable, since, tmp, pc, op, inner, failed>>
disk == <<file, durable, since>>

TypeOK ==
    /\ file \in Contents /\ durable \in Contents /\ since \subseteq Contents
    /\ tmp \in [Writers -> Contents]
    /\ pc \in [Writers -> {"idle", "create", "write", "sync", "rename",
                       "syncdir"}]
    /\ op \in [Writers -> Ops \union {NoOp}]
    /\ \A w \in Writers : pc[w] # "idle" => op[w] \in Ops
    /\ inner \in [Writers -> Maps]
    /\ failed \in [Writers -> SUBSET Sessions]

-----------------------------------------------------------------------------
(* FileCursorPersist::read_map recovers to an empty map from anything it   *)
(* cannot read.                                                            *)
ReadMap(c) == IF c.kind = "unreadable" THEN EmptyMap ELSE c.map

(* tmp_path: unique per process and call, so no two writers share one. *)
TmpPath(w) == w

Init ==
    /\ \/ \E k \in {"current", "legacy"}, m \in Maps :
             file = [kind |-> k, map |-> m, synced |-> TRUE]
       \/ file = Unreadable
    /\ durable = file
    /\ since = {}
    /\ tmp = [w \in Writers |-> Unreadable]
    /\ pc = [w \in Writers |-> "idle"]
    /\ op = [w \in Writers |-> NoOp]
    /\ inner = [w \in Writers |-> ReadMap(file)]
    /\ failed = [w \in Writers |-> {}]

(* Wrong: starts from the map this transport holds, not from the file. *)
MutateFromMemory(w, s, c) ==
    /\ pc[w] = "idle"
    /\ op' = [op EXCEPT ![w] = [session |-> s, cursor |-> c,
                               map |-> [inner[w] EXCEPT ![s] = c]]]
    /\ pc' = [pc EXCEPT ![w] = "create"]
    /\ UNCHANGED <<disk, tmp, inner, failed>>

(* CursorStore::set (c > 0) or delete (c = 0), up to and including         *)
(* read_map and the change of the map, under the writer's own lock.        *)
Mutate(w, s, c) ==
    /\ pc[w] = "idle"
    /\ op' = [op EXCEPT ![w] = [session |-> s, cursor |-> c,
                               map |-> [ReadMap(file) EXCEPT ![s] = c]]]
    /\ pc' = [pc EXCEPT ![w] = "create"]
    /\ UNCHANGED <<disk, tmp, inner, failed>>

(* File::create truncates whatever is at the temporary path. *)
CreateTmp(w) ==
    /\ pc[w] = "create"
    /\ tmp' = [tmp EXCEPT ![TmpPath(w)] = [Unreadable EXCEPT !.synced = FALSE]]
    /\ pc' = [pc EXCEPT ![w] = "write"]
    /\ UNCHANGED <<disk, op, inner, failed>>

(* write_all *)
WriteTmp(w) ==
    /\ pc[w] = "write"
    /\ tmp' = [tmp EXCEPT ![TmpPath(w)] =
                 [kind |-> "current", map |-> op[w].map, synced |-> FALSE]]
    /\ pc' = [pc EXCEPT ![w] = "sync"]
    /\ UNCHANGED <<disk, op, inner, failed>>

(* Wrong: renames bytes that may not have reached the disk. *)
SyncTmpSkipped(w) ==
    /\ pc[w] = "sync"
    /\ pc' = [pc EXCEPT ![w] = "rename"]
    /\ UNCHANGED <<disk, tmp, op, inner, failed>>

(* f.sync_all() *)
SyncTmp(w) ==
    /\ pc[w] = "sync"
    /\ tmp' = [tmp EXCEPT ![TmpPath(w)].synced = TRUE]
    /\ pc' = [pc EXCEPT ![w] = "rename"]
    /\ UNCHANGED <<disk, op, inner, failed>>

RemoveTmp(w) == tmp' = [tmp EXCEPT ![TmpPath(w)] = Unreadable]

Rename(w) ==
    /\ pc[w] = "rename"
    /\ file' = tmp[TmpPath(w)]
    /\ since' = since \union {tmp[TmpPath(w)]}
    /\ RemoveTmp(w)
    /\ pc' = [pc EXCEPT ![w] = "syncdir"]
    /\ UNCHANGED <<durable, op, inner, failed>>

(* Wrong: returns before the cursor advances in memory. *)
ApplyInMemorySkipped(w) ==
    /\ pc' = [pc EXCEPT ![w] = "idle"]
    /\ op' = [op EXCEPT ![w] = NoOp]
    /\ UNCHANGED inner

(* Wrong: forgets the mutation before write_map has returned. *)
ApplyInMemoryEarly(w) ==
    /\ inner' = [inner EXCEPT ![w][op[w].session] = op[w].cursor]
    /\ op' = [op EXCEPT ![w] = NoOp]
    /\ UNCHANGED pc

(* The store's own change, made whatever became of the file. *)
ApplyInMemory(w) ==
    /\ inner' = [inner EXCEPT ![w][op[w].session] = op[w].cursor]
    /\ pc' = [pc EXCEPT ![w] = "idle"]
    /\ op' = [op EXCEPT ![w] = NoOp]

(* fsync_parent_dir, best effort, and the return of Ok. *)
SyncDir(w) ==
    /\ pc[w] = "syncdir"
    /\ IF DirFsyncs THEN durable' = file /\ since' = {}
                    ELSE UNCHANGED <<durable, since>>
    /\ failed' = [failed EXCEPT ![w] = @ \ {op[w].session}]
    /\ ApplyInMemory(w)
    /\ UNCHANGED <<file, tmp>>

(* Any of the system calls up to the rename fails: the temporary file is   *)
(* removed, Err is logged and the cursor still advances in memory.         *)
PersistFails(w) ==
    /\ pc[w] \in {"create", "write", "sync", "rename"}
    /\ failed' = [failed EXCEPT ![w] = @ \union {op[w].session}]
    /\ RemoveTmp(w)
    /\ ApplyInMemory(w)
    /\ UNCHANGED disk

(* A transport hydrates its store from the file (new_persisted). *)
Hydrate(ws, f) ==
    /\ pc' = [w \in Writers |-> IF w \in ws THEN "idle" ELSE pc[w]]
    /\ op' = [w \in Writers |-> IF w \in ws THEN NoOp ELSE op[w]]
    /\ inner' = [w \in Writers |-> IF w \in ws THEN ReadMap(f) ELSE inner[w]]
    /\ failed' = [w \in Writers |-> IF w \in ws THEN {} ELSE failed[w]]

(* A new transport takes w's place in the running app; dropping the old    *)
(* one waits for the write it may be in.                                   *)
Respawn(w) ==
    /\ pc[w] = "idle"
    /\ Hydrate({w}, file)
    /\ UNCHANGED <<disk, tmp>>

(* The app is stopped and started; what the system has cached stays. *)
Kill ==
    /\ Hydrate(Writers, file)
    /\ tmp' = [w \in Writers |-> Unreadable]
    /\ UNCHANGED disk

(* Bytes that were never fsync'd are torn by a power loss. *)
AfterPowerLoss(c) == IF c.synced THEN c ELSE Unreadable

PowerLoss ==
    /\ \E c \in {durable} \union since : file' = AfterPowerLoss(c)
    /\ durable' = file'
    /\ since' = {}
    /\ tmp' = [w \in Writers |-> Unreadable]
    /\ Hydrate(Writers, file')

Next ==
    \/ \E w \in Writers, s \in Sessions, c \in 0..MaxCursor : Mutate(w, s, c)
    \/ \E w \in Writers : CreateTmp(w) \/ WriteTmp(w) \/ SyncTmp(w) \/ Rename(w)
                          \/ SyncDir(w) \/ PersistFails(w) \/ Respawn(w)
    \/ Kill
    \/ PowerLoss

Spec == Init /\ [][Next]_vars

-----------------------------------------------------------------------------
(* Crash safety of the file, for any number of transports: once a map is   *)
(* safely on the disk, no concurrent reader and no restart after a power   *)
(* loss finds a torn, empty or garbage file (write_map's order of write,   *)
(* fsync and rename, and the unique temporary names).                      *)
Readable(c) == c.kind # "unreadable"
NeverTorn == [][Readable(durable) => Readable(durable') /\ Readable(file')]_vars

(* What a restart would load is what the running transport holds, except   *)
(* for the sessions whose last write failed and, while a write is under    *)
(* way, its own session; and so would a restart after a power loss, once   *)
(* no rename awaits its directory fsync.  One transport per file.          *)
HydrationFaithful ==
    \A w \in Writers : \A s \in Sessions \ failed[w] :
        /\ pc[w] # "syncdir" \/ s # op[w].session
             => ReadMap(file)[s] = inner[w][s]
        /\ since = {} => ReadMap(durable)[s] = inner[w][s]

(* One transport's saves and forgets are atomic one-entry updates of the   *)
(* map in the file, of which a power loss takes back only the last ones.   *)
Abstract == INSTANCE AtomicCursorMap WITH
    map <- ReadMap(file),
    mayBe <- {ReadMap(c) : c \in {durable, file} \union since}

AtomicUpdates == Abstract!Spec
=============================================================================
