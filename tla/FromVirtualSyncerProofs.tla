---------------------- MODULE FromVirtualSyncerProofs ----------------------
(***************************************************************************)
(* Theorems about FromVirtualSyncer, for any mappings, selectors and       *)
(* values: type correctness, and that reverse patches undo no edit of the  *)
(* virtual object.                                                         *)
(***************************************************************************)
EXTENDS FromVirtualSyncer, TLAPS

\* A worker that is about to write from the virtual object holds one, and the
\* host object too if it applies reverse patches: Sync and SyncDown are called
\* with what exists.
Holding ==
  \A c \in Controllers :
     /\ pc[c].at \in {"reverse", "status", "apply"} => pc[c].v # Absent
     /\ pc[c].at = "reverse" => pc[c].p # Absent

Inv == TypeOK /\ Holding

-----------------------------------------------------------------------------
(***************************************************************************)
(* What the helpers do with types.                                         *)
(***************************************************************************)
\* A write of an object keeps the API server and its watch well typed.
LEMMA WritesTyped ==
  /\ \A v \in Virtual : TypeOK /\ WriteVirtual(v) => vApi' \in Virtual /\ vWatch' \in Seq(Virtual)
  /\ \A p \in Host : TypeOK /\ WriteHost(p) => pApi' \in Host /\ pWatch' \in Seq(Host)
<1>1. ASSUME NEW v \in Virtual, TypeOK, WriteVirtual(v)
      PROVE  vApi' \in Virtual /\ vWatch' \in Seq(Virtual)
  BY <1>1 DEF TypeOK, WriteVirtual
<1>2. ASSUME NEW p \in Host, TypeOK, WriteHost(p)
      PROVE  pApi' \in Host /\ pWatch' \in Seq(Host)
  BY <1>2 DEF TypeOK, WriteHost
<1> QED BY <1>1, <1>2

\* The worker's record after a Reconcile went on or returned.
LEMMA WorkerTyped ==
  ASSUME Inv, NEW c \in Controllers
  PROVE  /\ pc' = [pc EXCEPT ![c] = Idle] =>
              pc' \in [Controllers -> [at : Places, v : Virtual, p : Host]] /\ Holding'
         /\ \A at \in Places, v \in Virtual, p \in Host :
              /\ Goto(c, at, v, p)
              /\ at \in {"reverse", "status", "apply"} => v # Absent
              /\ at = "reverse" => p # Absent
              => pc' \in [Controllers -> [at : Places, v : Virtual, p : Host]] /\ Holding'
<1> USE DEF Inv, TypeOK, Holding, Places
<1>1. ASSUME pc' = [pc EXCEPT ![c] = Idle]
      PROVE  pc' \in [Controllers -> [at : Places, v : Virtual, p : Host]] /\ Holding'
  <2>1. Idle \in [at : Places, v : Virtual, p : Host] /\ Idle.at = "idle"
    BY DEF Idle, Virtual, Host
  <2> QED BY <1>1, <2>1
<1>2. ASSUME NEW at \in Places, NEW v \in Virtual, NEW p \in Host, Goto(c, at, v, p),
             at \in {"reverse", "status", "apply"} => v # Absent,
             at = "reverse" => p # Absent
      PROVE  pc' \in [Controllers -> [at : Places, v : Virtual, p : Host]] /\ Holding'
  BY <1>2 DEF Goto
<1> QED BY <1>1, <1>2

\* Initially everything has its type, and no worker holds anything.
LEMMA InvInit == Init => Inv
<1> SUFFICES ASSUME Init PROVE Inv
  OBVIOUS
<1>1. Idle \in [at : Places, v : Virtual, p : Host] /\ Idle.at = "idle"
  BY DEF Idle, Places, Virtual, Host
<1>2. TypeOK
  BY <1>1 DEF Init, TypeOK, Virtual, Host
<1>3. Holding
  BY <1>1 DEF Init, Holding
<1> QED BY <1>2, <1>3 DEF Inv
-----------------------------------------------------------------------------
(***************************************************************************)
(* Every step keeps the invariant.                                         *)
(***************************************************************************)
\* Outside events that write an object.
LEMMA MovesTyped ==
  ASSUME Inv, NEW kind
  PROVE  /\ \A v \in Virtual : MoveVirtual(kind, v) => Inv'
         /\ \A p \in Host : MoveHost(kind, p) => Inv'
<1> USE DEF Inv, Move, virtual, host
<1>1. ASSUME NEW v \in Virtual, MoveVirtual(kind, v) PROVE Inv'
  <2>1. vApi' \in Virtual /\ vWatch' \in Seq(Virtual)
    BY <1>1, WritesTyped DEF MoveVirtual
  <2> QED BY <1>1, <2>1 DEF MoveVirtual, TypeOK, Holding
<1>2. ASSUME NEW p \in Host, MoveHost(kind, p) PROVE Inv'
  <2>1. pApi' \in Host /\ pWatch' \in Seq(Host)
    BY <1>2, WritesTyped DEF MoveHost
  <2> QED BY <1>2, <2>1 DEF MoveHost, TypeOK, Holding
<1> QED BY <1>1, <1>2

\* What users and other controllers do.
LEMMA OutsideKeepsInv ==
  ASSUME Inv,
         \/ UserCreate \/ BackSyncerCreate \/ UserUpdate \/ UserRelabel \/ StatusSet \/ UserDelete
         \/ HostUpdate \/ HostDelete \/ HostForeign
  PROVE  Inv'
<1>1. /\ vApi \in Virtual /\ pApi \in Host
      /\ vApi # Absent => vApi \in VirtualObjects
      /\ pApi # Absent => pApi \in HostObjects
      /\ Absent \in Virtual /\ Absent \in Host
  BY DEF Inv, TypeOK, Virtual, Host
<1>2. \A controlled \in BOOLEAN, l \in Labels, d \in Data : New(controlled, l, d) \in Virtual
  BY DEF New, Virtual, VirtualObjects
<1>3. CASE UserCreate
  BY <1>2, <1>3, MovesTyped DEF UserCreate
<1>4. CASE BackSyncerCreate
  BY <1>2, <1>4, MovesTyped DEF BackSyncerCreate
<1>5. CASE UserUpdate
  <2>1. PICK d \in Data : MoveVirtual("update", [vApi EXCEPT !.data = d])
    BY <1>5 DEF UserUpdate
  <2>2. [vApi EXCEPT !.data = d] \in Virtual
    BY <1>1, <1>5 DEF UserUpdate, Virtual, VirtualObjects
  <2> QED BY <2>1, <2>2, MovesTyped
<1>6. CASE UserRelabel
  <2>1. PICK l \in Labels : MoveVirtual("relabel", [vApi EXCEPT !.label = l])
    BY <1>6 DEF UserRelabel
  <2>2. [vApi EXCEPT !.label = l] \in Virtual
    BY <1>1, <1>6 DEF UserRelabel, Virtual, VirtualObjects
  <2> QED BY <2>1, <2>2, MovesTyped
<1>7. CASE StatusSet
  <2>1. PICK s \in Statuses : MoveVirtual("set_status", [vApi EXCEPT !.status = s])
    BY <1>7 DEF StatusSet
  <2>2. [vApi EXCEPT !.status = s] \in Virtual
    BY <1>1, <1>7 DEF StatusSet, Virtual, VirtualObjects
  <2> QED BY <2>1, <2>2, MovesTyped
<1>8. CASE UserDelete
  BY <1>1, <1>8, MovesTyped DEF UserDelete
<1>9. CASE HostUpdate
  <2>1. /\ \A d \in Data : [pApi EXCEPT !.data = d] \in Host
        /\ \A b \in BackData : [pApi EXCEPT !.back = b] \in Host
        /\ \A s \in Statuses : [pApi EXCEPT !.status = s] \in Host
    BY <1>1, <1>9 DEF HostUpdate, Host, HostObjects
  <2> QED BY <1>9, <2>1, MovesTyped DEF HostUpdate
<1>10. CASE HostDelete
  BY <1>1, <1>10, MovesTyped DEF HostDelete
<1>11. CASE HostForeign
  <2>1. PICK d \in Data :
          MoveHost("host_foreign", [by |-> Nobody, data |-> d, back |-> NoField, status |-> NoField])
    BY <1>11 DEF HostForeign
  <2>2. [by |-> Nobody, data |-> d, back |-> NoField, status |-> NoField] \in Host
    BY DEF Host, HostObjects
  <2> QED BY <2>1, <2>2, MovesTyped
<1> QED BY <1>3, <1>4, <1>5, <1>6, <1>7, <1>8, <1>9, <1>10, <1>11

\* The informers, and a restart.
LEMMA ProcessKeepsInv ==
  ASSUME Inv, VirtualInformer \/ HostInformer \/ Restart
  PROVE  Inv'
<1> USE DEF Inv, bounds, virtual, host
<1>1. CASE VirtualInformer
  BY <1>1 DEF VirtualInformer, TypeOK, Holding
<1>2. CASE HostInformer
  BY <1>2 DEF HostInformer, Managing, TypeOK, Holding
<1>3. CASE Restart
  <2>1. Idle \in [at : Places, v : Virtual, p : Host] /\ Idle.at = "idle"
    BY DEF Idle, Places, Virtual, Host
  <2>2. TypeOK'
    BY <1>3, <2>1 DEF Restart, Move, Managing, TypeOK
  <2>3. Holding'
    BY <1>3, <2>1 DEF Restart, Holding
  <2> QED BY <2>2, <2>3
<1> QED BY <1>1, <1>2, <1>3

\* The steps of a Reconcile.
LEMMA WorkKeepsInv ==
  ASSUME Inv, NEW c \in Controllers, Take(c) \/ Work(c) \/ CallFails(c)
  PROVE  Inv'
<1> DEFINE PC == [Controllers -> [at : Places, v : Virtual, p : Host]]
<1>1. /\ pc \in PC /\ pc[c].v \in Virtual /\ pc[c].p \in Host
      /\ vApi \in Virtual /\ pApi \in Host /\ vCache \in Virtual /\ pCache \in Host
      /\ Absent \in Virtual /\ Absent \in Host
      /\ Virtual \subseteq VirtualObjects \cup {Absent} /\ Host \subseteq HostObjects \cup {Absent}
  BY DEF Inv, TypeOK, Virtual, Host
<1>2. (Done(c) \/ ReturnError(c)) => pc' \in PC /\ Holding' /\ (pending \subseteq Controllers => pending' \subseteq Controllers)
  BY WorkerTyped DEF Done, ReturnError
<1>3. CASE Take(c)
  <2>1. pc' \in PC /\ Holding'
    BY <1>1, <1>3, WorkerTyped DEF Take, Places
  <2> QED BY <1>3, <2>1 DEF Take, Inv, TypeOK, virtual, host, bounds
<1>4. CASE GetVirtual(c)
  <2>1. pc' \in PC /\ Holding'
    BY <1>1, <1>4, WorkerTyped DEF GetVirtual, Places
  <2> QED BY <1>4, <2>1 DEF GetVirtual, Inv, TypeOK, virtual, host, bounds
<1>5. CASE GetHost(c)
  <2> DEFINE v == pc[c].v
             p == pCache
             at == IF v = Absent /\ p = Absent THEN "idle"
                   ELSE IF v = Absent THEN SyncUp(c, p)
                   ELSE IF p = Absent THEN SyncDown(c, v)
                   ELSE Sync(c, v, p)
  <2>1. /\ at \in Places
        /\ at \in {"reverse", "status", "apply"} => v # Absent
        /\ at = "reverse" => p # Absent
    BY DEF SyncUp, SyncDown, Sync, ApplyPlace, Places
  <2>2. /\ IF at = "idle" THEN Done(c) ELSE Goto(c, at, v, p) /\ pending' = pending
        /\ blocked' = Blocked(c, v, p)
        /\ UNCHANGED <<virtual, vCache, host, pCache, moves>>
    BY <1>5 DEF GetHost
  <2> HIDE DEF at
  <2>3. pc' \in PC /\ Holding' /\ (pending \subseteq Controllers => pending' \subseteq Controllers)
    BY <1>1, <1>2, <2>1, <2>2, WorkerTyped
  <2>4. blocked \subseteq Controllers => blocked' \subseteq Controllers
    BY <2>2 DEF Blocked
  <2> QED BY <2>2, <2>3, <2>4 DEF Inv, TypeOK, virtual, host
<1>6. CASE DeletePhysical(c)
  <2>1. pApi' \in Host /\ pWatch' \in Seq(Host)
    BY <1>1, <1>6, WritesTyped DEF DeletePhysical, Inv
  <2> QED BY <1>2, <1>6, <2>1 DEF DeletePhysical, Inv, TypeOK, virtual, bounds
<1>7. CASE ApplyReversePatches(c)
  <2> DEFINE v == pc[c].v
             p == pc[c].p
             status == IF StatusReversed THEN Copied(v.status, p.status) ELSE v.status
             back == Copied(v.back, p.back)
             new == IF status # v.status THEN [v EXCEPT !.status = status] ELSE [v EXCEPT !.back = back]
  <2>1. v \in VirtualObjects /\ p \in HostObjects
    BY <1>1, <1>7 DEF ApplyReversePatches, At, Inv, Holding
  <2>2. new \in Virtual
    BY <2>1 DEF Virtual, VirtualObjects, HostObjects, Copied
  <2>3. \/ Goto(c, ApplyPlace(v), v, p) /\ UNCHANGED <<virtual, pending>>
        \/ ReturnError(c) /\ UNCHANGED virtual
        \/ WriteVirtual(new) /\ Done(c)
    BY <1>7 DEF ApplyReversePatches
  <2>4. ApplyPlace(v) \in {"status", "apply"} /\ v # Absent
    BY <1>7 DEF ApplyPlace, ApplyReversePatches, At, Inv, Holding
  <2> HIDE DEF new
  <2>5. pc' \in PC /\ Holding' /\ (pending \subseteq Controllers => pending' \subseteq Controllers)
    BY <1>1, <1>2, <2>3, <2>4, WorkerTyped DEF Places
  <2>6. vApi' \in Virtual /\ vWatch' \in Seq(Virtual)
    BY <2>2, <2>3, WritesTyped DEF Inv, TypeOK, virtual
  <2> QED BY <1>7, <2>5, <2>6 DEF ApplyReversePatches, Inv, TypeOK, host, bounds
<1>8. CASE ApplyStatus(c)
  <2>1. pc[c].v \in VirtualObjects /\ pc[c].v # Absent
    BY <1>1, <1>8 DEF ApplyStatus, At, Inv, Holding
  <2>2. pApi # Absent => [pApi EXCEPT !.status = pc[c].v.status] \in Host
    BY <1>1, <2>1 DEF Host, HostObjects, VirtualObjects
  <2>3. pApi' \in Host /\ pWatch' \in Seq(Host)
    BY <1>8, <2>2, WritesTyped DEF ApplyStatus, Inv, TypeOK, host
  <2>4. pc' \in PC /\ Holding' /\ (pending \subseteq Controllers => pending' \subseteq Controllers)
    BY <1>1, <1>2, <1>8, <2>1, WorkerTyped DEF ApplyStatus, Places
  <2> QED BY <1>8, <2>3, <2>4 DEF ApplyStatus, Inv, TypeOK, virtual, bounds
<1>9. CASE ApplyPatches(c)
  <2>1. pc[c].v \in VirtualObjects
    BY <1>1, <1>9 DEF ApplyPatches, At, Inv, Holding
  <2>2. /\ [by |-> c, data |-> pc[c].v.data, back |-> NoField, status |-> NoField] \in Host
        /\ pApi # Absent => [pApi EXCEPT !.by = c, !.data = pc[c].v.data] \in Host
    BY <1>1, <2>1 DEF Host, HostObjects, VirtualObjects
  <2>3. pApi' \in Host /\ pWatch' \in Seq(Host)
    BY <1>9, <2>2, WritesTyped DEF ApplyPatches, Inv
  <2>4. blocked \subseteq Controllers => blocked' \subseteq Controllers
    BY <1>1, <1>9 DEF ApplyPatches, Displaced, HostObjects
  <2> QED BY <1>2, <1>9, <2>3, <2>4 DEF ApplyPatches, Inv, TypeOK, virtual
<1>10. CASE CallFails(c)
  BY <1>2, <1>10 DEF CallFails, Move, Inv, TypeOK, virtual, host
<1> QED BY <1>3, <1>4, <1>5, <1>6, <1>7, <1>8, <1>9, <1>10 DEF Work

\* The invariant is inductive.
LEMMA InvNext == Inv /\ [Next]_vars => Inv'
<1> SUFFICES ASSUME Inv, [Next]_vars PROVE Inv'
  OBVIOUS
<1>1. CASE UNCHANGED vars
  BY <1>1 DEF Inv, TypeOK, Holding, vars
<1>2. CASE Next
  BY <1>2, OutsideKeepsInv, ProcessKeepsInv, WorkKeepsInv DEF Next
<1> QED BY <1>1, <1>2

-----------------------------------------------------------------------------
\* Caches, watches, queues and workers keep their types: in particular the
\* host object that ApplyPatches writes is a translated one, and no write is
\* made from an object that was not read.
THEOREM TypeCorrect == Spec => []TypeOK
<1>1. Inv => TypeOK
  BY DEF Inv
<1> QED BY <1>1, InvInit, InvNext, PTL DEF Spec

\* A reverse patch changes the virtual object only if it is the one that was
\* read, and then no field but those it copies: no edit is undone, whatever
\* the lag of the caches and however many mappings there are.
THEOREM EditsAreKept == Spec => ReverseKeepsUserEdits
<1> DEFINE Keeps(c) == ApplyReversePatches(c) /\ vApi' # vApi
                         => vApi # Absent /\ vApi'.data = vApi.data /\ vApi'.label = vApi.label
<1>1. Inv /\ [Next]_vars => [\A c \in Controllers : Keeps(c)]_vars
  <2> SUFFICES ASSUME Inv, NEW c \in Controllers, ApplyReversePatches(c), vApi' # vApi
               PROVE  vApi # Absent /\ vApi'.data = vApi.data /\ vApi'.label = vApi.label
    OBVIOUS
  <2> DEFINE v == pc[c].v
  <2>1. v \in VirtualObjects /\ v # Absent
    BY DEF ApplyReversePatches, At, Inv, TypeOK, Holding, Virtual
  <2>2. /\ vApi = v
        /\ \/ \E s : vApi' = [v EXCEPT !.status = s]
           \/ \E b : vApi' = [v EXCEPT !.back = b]
    BY DEF ApplyReversePatches, WriteVirtual, virtual
  <2> QED BY <2>1, <2>2 DEF VirtualObjects
<1> QED BY <1>1, InvInit, InvNext, PTL DEF Spec, ReverseKeepsUserEdits
=============================================================================
