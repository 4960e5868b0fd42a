-------------------------- MODULE CursorFileProofs --------------------------
(***************************************************************************)
(* Proofs about the cursor file: the types of CursorFile and the crash     *)
(* safety of the file, for every set of transports and sessions.           *)
(***************************************************************************)
EXTENDS CursorFile, TLAPS

(* The bytes a writer is about to rename are whole and fsync'd. *)
TmpReady ==
    \A w \in Writers :
        /\ pc[w] = "sync" => Readable(tmp[w])
        /\ pc[w] = "rename" => Readable(tmp[w]) /\ tmp[w].synced

(* Nothing that a power loss could leave at the target was ever torn: only *)
(* the file found at the first start may be unreadable.                    *)
DiskReady ==
    /\ durable.synced
    /\ \A c \in since : Readable(c) /\ c.synced
    /\ file \in {durable} \union since

IInv == TypeOK /\ TmpReady /\ DiskReady

-----------------------------------------------------------------------------
LEMMA EmptyMapType == EmptyMap \in Maps
  BY MaxCursorAssumption DEF EmptyMap, Maps

LEMMA UnreadableType == Unreadable \in Contents
  BY EmptyMapType DEF Unreadable, Contents

LEMMA ReadMapType == ASSUME NEW c \in Contents PROVE ReadMap(c) \in Maps
  BY EmptyMapType DEF ReadMap, Contents

LEMMA AfterPowerLossType ==
    ASSUME NEW c \in Contents PROVE AfterPowerLoss(c) \in Contents
  BY UnreadableType DEF AfterPowerLoss

(* Hydrating any transports from a well-typed file keeps the types. *)
LEMMA HydrateType ==
    ASSUME TypeOK, NEW ws \in SUBSET Writers, NEW f \in Contents,
           Hydrate(ws, f)
    PROVE  /\ pc' \in [Writers -> {"idle", "create", "write", "sync",
                                   "rename", "syncdir"}]
           /\ op' \in [Writers -> Ops \union {NoOp}]
           /\ \A w \in Writers : pc'[w] # "idle" => op'[w] \in Ops
           /\ inner' \in [Writers -> Maps]
           /\ failed' \in [Writers -> SUBSET Sessions]
  BY ReadMapType DEF TypeOK, Hydrate

LEMMA ApplyType ==
    ASSUME TypeOK, NEW w \in Writers, pc[w] # "idle", ApplyInMemory(w)
    PROVE  /\ pc' \in [Writers -> {"idle", "create", "write", "sync",
                                   "rename", "syncdir"}]
           /\ op' \in [Writers -> Ops \union {NoOp}]
           /\ \A x \in Writers : pc'[x] # "idle" => op'[x] \in Ops
           /\ inner' \in [Writers -> Maps]
  <1> DEFINE m == [inner[w] EXCEPT ![op[w].session] = op[w].cursor]
  <1>1. op[w] \in Ops
    BY DEF TypeOK
  <1>2. m \in Maps
    BY <1>1 DEF TypeOK, Ops, Maps
  <1>3. inner' = [inner EXCEPT ![w] = m]
    BY DEF ApplyInMemory, TypeOK
  <1> HIDE DEF m
  <1>4. inner' \in [Writers -> Maps]
    BY <1>2, <1>3 DEF TypeOK
  <1> QED
    BY <1>4 DEF ApplyInMemory, TypeOK

(* CursorFile's variables keep their types. *)
LEMMA TypeStep == TypeOK /\ [Next]_vars => TypeOK'
  <1> SUFFICES ASSUME TypeOK, [Next]_vars PROVE TypeOK'
    OBVIOUS
  <1> USE DEF TypeOK
  <1>1. ASSUME NEW w \in Writers, NEW s \in Sessions, NEW c \in 0..MaxCursor,
               Mutate(w, s, c)
        PROVE  TypeOK'
    <2> DEFINE m == [ReadMap(file) EXCEPT ![s] = c]
    <2>1. m \in Maps
      BY ReadMapType DEF Maps
    <2> HIDE DEF m
    <2>2. [session |-> s, cursor |-> c, map |-> m] \in Ops
      BY <2>1 DEF Ops
    <2>3. op' = [op EXCEPT ![w] = [session |-> s, cursor |-> c, map |-> m]]
      BY <1>1 DEF Mutate, m
    <2> QED
      BY <1>1, <2>2, <2>3 DEF Mutate, disk
  <1>2. ASSUME NEW w \in Writers, CreateTmp(w) PROVE TypeOK'
    <2>1. [Unreadable EXCEPT !.synced = FALSE] \in Contents
      BY UnreadableType DEF Contents
    <2> QED
      BY <1>2, <2>1 DEF CreateTmp, TmpPath, disk
  <1>3. ASSUME NEW w \in Writers, WriteTmp(w) PROVE TypeOK'
    <2>1. op[w] \in Ops
      BY <1>3 DEF WriteTmp
    <2>2. [kind |-> "current", map |-> op[w].map, synced |-> FALSE] \in Contents
      BY <2>1 DEF Ops, Contents
    <2> QED
      BY <1>3, <2>2 DEF WriteTmp, TmpPath, disk
  <1>4. ASSUME NEW w \in Writers, SyncTmp(w) PROVE TypeOK'
    <2>1. [tmp[w] EXCEPT !.synced = TRUE] \in Contents
      BY DEF Contents
    <2>2. tmp' = [tmp EXCEPT ![w] = [tmp[w] EXCEPT !.synced = TRUE]]
      BY <1>4 DEF SyncTmp, TmpPath
    <2> QED
      BY <1>4, <2>1, <2>2 DEF SyncTmp, disk
  <1>5. ASSUME NEW w \in Writers, Rename(w) PROVE TypeOK'
    BY <1>5, UnreadableType DEF Rename, RemoveTmp, TmpPath
  <1>6. ASSUME NEW w \in Writers, SyncDir(w) PROVE TypeOK'
    <2>1. pc[w] # "idle"
      BY <1>6 DEF SyncDir
    <2> QED
      BY <1>6, <2>1, ApplyType DEF SyncDir
  <1>7. ASSUME NEW w \in Writers, PersistFails(w) PROVE TypeOK'
    <2>1. pc[w] # "idle" /\ op[w] \in Ops
      BY <1>7 DEF PersistFails
    <2>2. op[w].session \in Sessions
      BY <2>1 DEF Ops
    <2> QED
      BY <1>7, <2>1, <2>2, ApplyType, UnreadableType
      DEF PersistFails, RemoveTmp, TmpPath, disk
  <1>8. ASSUME NEW w \in Writers, Respawn(w) PROVE TypeOK'
    BY <1>8, HydrateType DEF Respawn, disk
  <1>9. CASE Kill
    BY <1>9, HydrateType, UnreadableType DEF Kill, disk
  <1>10. CASE PowerLoss
    <2>1. file' \in Contents
      BY <1>10, AfterPowerLossType DEF PowerLoss
    <2> QED
      BY <1>10, <2>1, HydrateType, UnreadableType DEF PowerLoss
  <1>11. CASE UNCHANGED vars
    BY <1>11 DEF vars
  <1> QED
    BY <1>1, <1>2, <1>3, <1>4, <1>5, <1>6, <1>7, <1>8, <1>9, <1>10, <1>11
    DEF Next

LEMMA TypeInit == Init => TypeOK
  <1> SUFFICES ASSUME Init PROVE TypeOK
    OBVIOUS
  <1>1. file \in Contents
    <2>1. CASE file = Unreadable
      BY <2>1, UnreadableType
    <2>2. ASSUME NEW k \in {"current", "legacy"}, NEW m \in Maps,
                 file = [kind |-> k, map |-> m, synced |-> TRUE]
          PROVE  file \in Contents
      BY <2>2 DEF Contents
    <2> QED
      BY <2>1, <2>2 DEF Init
  <1> QED
    BY <1>1, UnreadableType, ReadMapType DEF Init, TypeOK

(* TypeOK holds in every state, whatever the constants. *)
THEOREM TypeCorrect == Spec => []TypeOK
  BY TypeInit, TypeStep, PTL DEF Spec

-----------------------------------------------------------------------------
LEMMA IInvInit == Init => IInv
  BY TypeInit DEF Init, IInv, TmpReady, DiskReady, Unreadable

LEMMA IInvStep == IInv /\ [Next]_vars => IInv'
  <1> SUFFICES ASSUME IInv, [Next]_vars PROVE IInv'
    OBVIOUS
  <1>0. TypeOK'
    BY TypeStep DEF IInv
  <1> USE DEF IInv, TmpReady, DiskReady, Readable
  <1>1. ASSUME NEW w \in Writers, NEW s \in Sessions, NEW c \in 0..MaxCursor,
               Mutate(w, s, c)
        PROVE  IInv'
    BY <1>0, <1>1 DEF Mutate, disk, TypeOK
  <1>2. ASSUME NEW w \in Writers, CreateTmp(w) PROVE IInv'
    BY <1>0, <1>2 DEF CreateTmp, TmpPath, disk, TypeOK
  <1>3. ASSUME NEW w \in Writers, WriteTmp(w) PROVE IInv'
    BY <1>0, <1>3 DEF WriteTmp, TmpPath, disk, TypeOK
  <1>4. ASSUME NEW w \in Writers, SyncTmp(w) PROVE IInv'
    <2>1. tmp' = [tmp EXCEPT ![w] = [tmp[w] EXCEPT !.synced = TRUE]]
      BY <1>4 DEF SyncTmp, TmpPath
    <2>2. tmp[w] \in Contents /\ Readable(tmp[w])
      BY <1>4 DEF SyncTmp, TypeOK
    <2>3. tmp'[w] = [tmp[w] EXCEPT !.synced = TRUE]
      BY <2>1 DEF TypeOK
    <2>4. tmp'[w].synced /\ Readable(tmp'[w])
      BY <2>2, <2>3 DEF Contents
    <2> QED
      BY <1>0, <1>4, <2>1, <2>4 DEF SyncTmp, disk, TypeOK
  <1>5. ASSUME NEW w \in Writers, Rename(w) PROVE IInv'
    BY <1>0, <1>5 DEF Rename, RemoveTmp, TmpPath, TypeOK
  <1>6. ASSUME NEW w \in Writers, SyncDir(w) PROVE IInv'
    BY <1>0, <1>6 DEF SyncDir, ApplyInMemory, TypeOK
  <1>7. ASSUME NEW w \in Writers, PersistFails(w) PROVE IInv'
    BY <1>0, <1>7
    DEF PersistFails, ApplyInMemory, RemoveTmp, TmpPath, disk, TypeOK
  <1>8. ASSUME NEW w \in Writers, Respawn(w) PROVE IInv'
    BY <1>0, <1>8 DEF Respawn, Hydrate, disk, TypeOK
  <1>9. CASE Kill
    BY <1>0, <1>9 DEF Kill, Hydrate, disk, TypeOK
  <1>10. CASE PowerLoss
    BY <1>0, <1>10 DEF PowerLoss, AfterPowerLoss, Hydrate, TypeOK
  <1>11. CASE UNCHANGED vars
    BY <1>0, <1>11 DEF vars
  <1> QED
    BY <1>1, <1>2, <1>3, <1>4, <1>5, <1>6, <1>7, <1>8, <1>9, <1>10, <1>11
    DEF Next

(* Once the map is safely on the disk no step leaves a torn file there. *)
LEMMA NeverTornStep ==
    IInv /\ [Next]_vars => (Readable(durable) => Readable(durable') /\ Readable(file'))
  <1> SUFFICES ASSUME IInv, [Next]_vars, Readable(durable)
               PROVE  Readable(durable') /\ Readable(file')
    OBVIOUS
  <1>1. IInv'
    BY IInvStep
  <1>2. Readable(file)
    BY DEF IInv, DiskReady
  <1> USE DEF IInv, TmpReady, DiskReady
  <1>3. CASE \E w \in Writers : Rename(w)
    BY <1>1, <1>2, <1>3 DEF Rename, TmpPath
  <1>4. CASE \E w \in Writers : SyncDir(w)
    BY <1>2, <1>4 DEF SyncDir
  <1>5. CASE PowerLoss
    BY <1>5 DEF PowerLoss, AfterPowerLoss
  <1>6. CASE UNCHANGED disk
    BY <1>2, <1>6 DEF disk
  <1>7. UNCHANGED disk \/ PowerLoss \/ \E w \in Writers : Rename(w) \/ SyncDir(w)
    BY DEF Next, vars, disk, Mutate, CreateTmp, WriteTmp, SyncTmp,
           PersistFails, Respawn, Kill
  <1> QED
    BY <1>3, <1>4, <1>5, <1>6, <1>7

(* Crash safety of the cursor file, for any number of transports writing   *)
(* it and whatever power loss, kill or failed system call interrupts them. *)
THEOREM CrashSafe == Spec => NeverTorn
  <1>1. IInv /\ [Next]_vars => [Readable(durable) => Readable(durable') /\ Readable(file')]_vars
    BY NeverTornStep
  <1> QED
    BY <1>1, IInvInit, IInvStep, PTL DEF Spec, NeverTorn

-----------------------------------------------------------------------------
(*                  One transport on the file                              *)

Alone == \A v, w \in Writers : v = w

Updated(w) == [ReadMap(file) EXCEPT ![op[w].session] = op[w].cursor]

(* What the mutation under way will write, or has written: while nobody    *)
(* else writes the file, the map it has read is still the one in it.       *)
Underway ==
    \A w \in Writers :
        /\ pc[w] \in {"create", "write", "sync", "rename"} => op[w].map = Updated(w)
        /\ pc[w] \in {"sync", "rename"} => tmp[w].map = op[w].map
        /\ pc[w] = "syncdir" =>
             since # {} /\ ReadMap(file)[op[w].session] = op[w].cursor

OneInv == IInv /\ Underway /\ HydrationFaithful

LEMMA UpdatedEntries ==
    ASSUME TypeOK, NEW w \in Writers, pc[w] # "idle"
    PROVE  /\ Updated(w) \in Maps /\ op[w].session \in Sessions
           /\ op[w].cursor \in 0..MaxCursor /\ op[w].map \in Maps
           /\ \A s \in Sessions :
                Updated(w)[s] = IF s = op[w].session THEN op[w].cursor ELSE ReadMap(file)[s]
  <1>1. op[w] \in Ops /\ file \in Contents
    BY DEF TypeOK
  <1>2. op[w].session \in Sessions /\ op[w].cursor \in 0..MaxCursor /\ op[w].map \in Maps
    BY <1>1 DEF Ops
  <1>3. ReadMap(file) \in Maps
    BY <1>1, ReadMapType
  <1> QED
    BY <1>2, <1>3 DEF Updated, Maps

(* A transport that hydrates holds what the file holds. *)
LEMMA HydrateFaithful ==
    ASSUME Alone, IInv', NEW w \in Writers, Hydrate({w}, file') \/ Hydrate(Writers, file')
    PROVE  Underway' /\ HydrationFaithful'
  <1>1. \A v \in Writers : pc'[v] = "idle" /\ inner'[v] = ReadMap(file')
    BY DEF Hydrate, Alone
  <1>2. since' = {} => durable' = file'
    BY DEF IInv, DiskReady
  <1> QED
    BY <1>1, <1>2 DEF Underway, HydrationFaithful

LEMMA OneInvInit == Init => OneInv
  <1> SUFFICES ASSUME Init PROVE OneInv
    OBVIOUS
  <1>1. \A w \in Writers : pc[w] = "idle" /\ inner[w] = ReadMap(file)
    BY DEF Init
  <1>2. durable = file
    BY DEF Init
  <1> QED
    BY <1>1, <1>2, IInvInit DEF OneInv, Underway, HydrationFaithful

LEMMA OneInvStep == ASSUME Alone PROVE OneInv /\ [Next]_vars => OneInv'
  <1> SUFFICES ASSUME OneInv, [Next]_vars PROVE Underway' /\ HydrationFaithful'
    BY IInvStep DEF OneInv
  <1>1. IInv' /\ IInv /\ TypeOK /\ TypeOK'
    BY IInvStep DEF OneInv, IInv
  <1>2. ASSUME NEW w \in Writers, NEW s \in Sessions, NEW c \in 0..MaxCursor, Mutate(w, s, c)
        PROVE  Underway' /\ HydrationFaithful'
    <2>1. op'[w].map = Updated(w)' /\ pc'[w] = "create" /\ pc[w] = "idle"
      BY <1>1, <1>2 DEF Mutate, disk, Updated, TypeOK
    <2>2. UNCHANGED <<file, durable, since, inner, failed>>
      BY <1>2 DEF Mutate, disk
    <2>3. \A v \in Writers : v = w
      BY DEF Alone
    <2> QED
      BY <2>1, <2>2, <2>3 DEF OneInv, Underway, HydrationFaithful
  <1>3. ASSUME NEW w \in Writers, CreateTmp(w) \/ WriteTmp(w) \/ SyncTmp(w)
        PROVE  Underway' /\ HydrationFaithful'
    <2>1. UNCHANGED <<file, durable, since, op, inner, failed>>
      BY <1>3 DEF CreateTmp, WriteTmp, SyncTmp, disk
    <2>2. /\ pc[w] \in {"create", "write", "sync"} /\ pc'[w] \in {"write", "sync", "rename"}
          /\ pc'[w] \in {"sync", "rename"} => tmp'[w].map = op[w].map
      BY <1>1, <1>3 DEF CreateTmp, WriteTmp, SyncTmp, TmpPath, TypeOK, OneInv, Underway, Contents
    <2>3. \A v \in Writers : v = w
      BY DEF Alone
    <2> QED
      BY <2>1, <2>2, <2>3 DEF OneInv, Underway, HydrationFaithful, Updated
  <1>4. ASSUME NEW w \in Writers, Rename(w) PROVE Underway' /\ HydrationFaithful'
    <2>1. /\ pc[w] = "rename" /\ pc'[w] = "syncdir" /\ file' = tmp[w]
          /\ since' # {} /\ UNCHANGED <<op, inner, failed>>
      BY <1>1, <1>4 DEF Rename, TmpPath, TypeOK
    <2>2. ReadMap(file') = Updated(w)
      BY <1>1, <2>1 DEF OneInv, Underway, IInv, TmpReady, Readable, ReadMap
    <2>3. \A v \in Writers : v = w
      BY DEF Alone
    <2>4. \A s \in Sessions \ failed[w] : ReadMap(file)[s] = inner[w][s]
      BY <2>1 DEF OneInv, HydrationFaithful
    <2> QED
      BY <1>1, <2>1, <2>2, <2>3, <2>4, UpdatedEntries DEF Underway, HydrationFaithful
  <1>5. ASSUME NEW w \in Writers, pc[w] # "idle", ApplyInMemory(w)
        PROVE  /\ pc'[w] = "idle"
               /\ \A s \in Sessions :
                    inner'[w][s] = IF s = op[w].session THEN op[w].cursor ELSE inner[w][s]
    BY <1>1, <1>5, UpdatedEntries DEF ApplyInMemory, TypeOK, Maps
  <1>6. ASSUME NEW w \in Writers, SyncDir(w) PROVE Underway' /\ HydrationFaithful'
    <2>1. /\ pc[w] = "syncdir" /\ pc'[w] = "idle" /\ file' = file
          /\ failed'[w] = failed[w] \ {op[w].session}
          /\ durable' = file \/ since' = since
      BY <1>1, <1>5, <1>6 DEF SyncDir, TypeOK
    <2>2. /\ ReadMap(file)[op[w].session] = op[w].cursor /\ since # {}
          /\ \A s \in Sessions \ failed[w] : s # op[w].session => ReadMap(file)[s] = inner[w][s]
      BY <2>1 DEF OneInv, Underway, HydrationFaithful
    <2>3. \A s \in Sessions \ failed'[w] : ReadMap(file)[s] = inner'[w][s]
      BY <1>5, <1>6, <2>1, <2>2 DEF SyncDir
    <2>4. \A v \in Writers : v = w
      BY DEF Alone
    <2> QED
      BY <2>1, <2>2, <2>3, <2>4 DEF Underway, HydrationFaithful
  <1>7. ASSUME NEW w \in Writers, PersistFails(w) PROVE Underway' /\ HydrationFaithful'
    <2>1. /\ pc[w] # "idle" /\ pc[w] # "syncdir" /\ pc'[w] = "idle"
          /\ UNCHANGED <<file, durable, since>>
          /\ failed'[w] = failed[w] \cup {op[w].session}
      BY <1>1, <1>5, <1>7 DEF PersistFails, TypeOK, disk
    <2>2. \A s \in Sessions \ failed'[w] : inner'[w][s] = inner[w][s] /\ s \notin failed[w]
      BY <1>5, <1>7, <2>1 DEF PersistFails
    <2>3. \A v \in Writers : v = w
      BY DEF Alone
    <2> QED
      BY <2>1, <2>2, <2>3 DEF OneInv, Underway, HydrationFaithful
  <1>8. ASSUME NEW w \in Writers, Respawn(w) PROVE Underway' /\ HydrationFaithful'
    <2>1. Hydrate({w}, file')
      BY <1>8 DEF Respawn, disk, Hydrate
    <2> QED  BY <1>1, <2>1, HydrateFaithful
  <1>9. CASE Kill \/ PowerLoss
    <2>1. Hydrate(Writers, file')
      BY <1>9 DEF Kill, PowerLoss, disk, Hydrate
    <2>2. CASE Writers = {}
      BY <2>2 DEF Underway, HydrationFaithful
    <2> QED  BY <1>1, <2>1, <2>2, HydrateFaithful
  <1>10. CASE UNCHANGED vars
    BY <1>10 DEF vars, OneInv, Underway, HydrationFaithful, Updated
  <1> QED
    BY <1>2, <1>3, <1>4, <1>6, <1>7, <1>8, <1>9, <1>10 DEF Next

(* With one transport on the file, what a restart loads is what the        *)
(* running transport holds, up to the write that failed or is under way.   *)
THEOREM OneTransportHydrates ==
    ASSUME Alone PROVE Spec => []HydrationFaithful
  <1>1. OneInv => HydrationFaithful
    BY DEF OneInv
  <1>2. OneInv /\ [Next]_vars => OneInv'
    BY OneInvStep
  <1> QED
    BY <1>1, <1>2, OneInvInit, PTL DEF Spec

-----------------------------------------------------------------------------
(*                    Updates of the map are atomic                        *)

LEMMA AbstractInit == Init => Abstract!Init
  <1> SUFFICES ASSUME Init PROVE Abstract!Init
    OBVIOUS
  <1>1. file \in Contents /\ durable = file /\ since = {}
    BY IInvInit DEF Init, IInv, TypeOK
  <1>2. ReadMap(file) \in [Sessions -> 0..MaxCursor]
    BY <1>1, ReadMapType DEF Maps
  <1> QED
    BY <1>1, <1>2 DEF Abstract!Init, Abstract!Maps

LEMMA AbstractStep ==
    ASSUME Alone PROVE OneInv /\ [Next]_vars => [Abstract!Next]_(Abstract!vars)
  <1> SUFFICES ASSUME OneInv, [Next]_vars
               PROVE  [Abstract!Next]_(Abstract!vars)
    OBVIOUS
  <1>1. TypeOK /\ file \in {durable} \cup since
    BY DEF OneInv, IInv, DiskReady
  <1>2. ASSUME NEW w \in Writers, Rename(w) PROVE Abstract!Commit
    <2>1. /\ pc[w] = "rename" /\ file' = tmp[w] /\ durable' = durable
          /\ since' = since \cup {tmp[w]}
      BY <1>2 DEF Rename, TmpPath
    <2>2. ReadMap(file') = Updated(w)
      BY <2>1 DEF OneInv, Underway, IInv, TmpReady, Readable, ReadMap
    <2>3. op[w].session \in Sessions /\ op[w].cursor \in 0..MaxCursor
      BY <1>1, <2>1, UpdatedEntries
    <2>4. {ReadMap(c) : c \in {durable', file'} \cup since'}
            = {ReadMap(c) : c \in {durable, file} \cup since} \cup {ReadMap(file')}
      BY <1>1, <2>1
    <2> QED
      BY <2>2, <2>3, <2>4 DEF Abstract!Commit, Updated
  <1>3. ASSUME NEW w \in Writers, SyncDir(w)
        PROVE  Abstract!Settle \/ UNCHANGED Abstract!vars
    <2>1. CASE DirFsyncs
      BY <1>3, <2>1 DEF SyncDir, Abstract!Settle
    <2>2. CASE ~DirFsyncs
      BY <1>3, <2>2 DEF SyncDir, Abstract!vars
    <2> QED  BY <2>1, <2>2
  <1>4. ASSUME PowerLoss PROVE Abstract!PowerLoss
    <2>1. PICK c \in {durable} \cup since : file' = AfterPowerLoss(c)
      BY <1>4 DEF PowerLoss
    <2>2. file' = c
      BY <2>1 DEF AfterPowerLoss, OneInv, IInv, DiskReady
    <2>3. durable' = file' /\ since' = {}
      BY <1>4 DEF PowerLoss
    <2> QED
      BY <2>2, <2>3 DEF Abstract!PowerLoss
  <1>5. ASSUME UNCHANGED disk PROVE UNCHANGED Abstract!vars
    BY <1>5 DEF disk, Abstract!vars
  <1>6. UNCHANGED disk \/ PowerLoss \/ \E w \in Writers : Rename(w) \/ SyncDir(w)
    BY DEF Next, vars, disk, Mutate, CreateTmp, WriteTmp, SyncTmp,
           PersistFails, Respawn, Kill
  <1>7. Abstract!Next \/ UNCHANGED Abstract!vars
    BY <1>2, <1>3, <1>4, <1>5, <1>6, Zenon DEF Abstract!Next
  <1> QED
    BY <1>7

(* The saves and forgets of one transport are atomic updates of one entry, *)
(* of which a power loss takes back only the last ones: what the comment   *)
(* at the head of cursor/mod.rs promises of write_map's rename.            *)
THEOREM UpdatesAreAtomic ==
    ASSUME Alone PROVE Spec => AtomicUpdates
  <1>1. OneInv /\ [Next]_vars => OneInv'
    BY OneInvStep
  <1>2. OneInv /\ [Next]_vars => [Abstract!Next]_(Abstract!vars)
    BY AbstractStep
  <1> QED
    BY <1>1, <1>2, OneInvInit, AbstractInit, PTL DEF Spec, AtomicUpdates, Abstract!Spec
=============================================================================
