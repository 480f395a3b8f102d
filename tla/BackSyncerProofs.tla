--------------------------- MODULE BackSyncerProofs ---------------------------
(***************************************************************************)
(* Proofs about BackSyncer, for any number of controllers and outside      *)
(* events.  The types are not inductive as they stand: an event handler is *)
(* handed the last state of a deleted object, which is an object only      *)
(* because two events in a row never say the same (Chained), and a worker  *)
(* dereferences what it read only where it has checked that it is there    *)
(* (Holding).                                                              *)
(***************************************************************************)
EXTENDS BackSyncer, SequenceTheorems, TLAPS

\* What a cache and the events on the way to it say: each event differs from
\* the one before, and the last is what the API server has.
Chained(inCache, watch, api) ==
  IF watch = <<>> THEN inCache = api
  ELSE /\ watch[1] # inCache
       /\ watch[Len(watch)] = api
       /\ \A i \in 1 .. Len(watch) - 1 : watch[i] # watch[i + 1]

WatchesChained == Chained(pCache, pWatch, pApi) /\ Chained(vCache, vWatch, vApi)

\* What the worker holds at each place.
Holding ==
  \A c \in Controllers :
     /\ pc[c].at \in {"reverse", "apply", "record", "delete_p", "annotate", "create"} => pc[c].p # Absent
     /\ pc[c].at = "reverse" => pc[c].v # Absent

Inv == TypeOK /\ WatchesChained /\ Holding

Records == [at : Places, p : Host, v : Virtual]

-----------------------------------------------------------------------------
(***************************************************************************)
(* Events on their way.                                                    *)
(***************************************************************************)
\* A write that changes the object is the next event.
LEMMA ChainGrows ==
  ASSUME NEW S, NEW watch \in Seq(S), NEW inCache, NEW api, NEW x \in S, Chained(inCache, watch, api)
  PROVE  x # api => Append(watch, x) \in Seq(S) /\ Chained(inCache, Append(watch, x), x)
<1> SUFFICES ASSUME x # api PROVE Append(watch, x) \in Seq(S) /\ Chained(inCache, Append(watch, x), x)
  OBVIOUS
<1> DEFINE t == Append(watch, x)
<1>1. /\ Len(watch) \in Nat /\ Len(t) = Len(watch) + 1 /\ t \in Seq(S) /\ t # <<>>
      /\ t[Len(watch) + 1] = x /\ \A i \in 1 .. Len(watch) : t[i] = watch[i]
  OBVIOUS
<1> HIDE DEF t
<1>2. CASE watch = <<>>
  <2>1. Len(watch) = 0
    BY <1>2
  <2> QED BY <1>1, <1>2, <2>1 DEF Chained
<1>3. CASE watch # <<>>
  <2>1. Len(watch) > 0
    BY <1>3, EmptySeq
  <2>2. t[1] # inCache /\ t[Len(t)] = x
    BY <1>1, <1>3, <2>1 DEF Chained
  <2>3. ASSUME NEW i \in 1 .. Len(t) - 1 PROVE t[i] # t[i + 1]
    <3>1. CASE i < Len(watch)
      BY <1>1, <1>3, <2>1, <3>1 DEF Chained
    <3>2. CASE i = Len(watch)
      BY <1>1, <1>3, <2>1, <3>2 DEF Chained
    <3> QED BY <1>1, <3>1, <3>2
  <2>4. Chained(inCache, t, x)
    BY <1>1, <2>2, <2>3 DEF Chained
  <2> QED BY <1>1, <2>4 DEF t
<1> QED BY <1>1, <1>2, <1>3 DEF t

\* The informer takes the first event, which tells it something new.
LEMMA ChainShrinks ==
  ASSUME NEW S, NEW watch \in Seq(S), watch # <<>>, NEW inCache, NEW api, Chained(inCache, watch, api)
  PROVE  /\ Head(watch) \in S /\ Tail(watch) \in Seq(S)
         /\ Head(watch) # inCache
         /\ Chained(Head(watch), Tail(watch), api)
<1> DEFINE t == Tail(watch)
<1>1. /\ Len(watch) \in Nat /\ Len(watch) > 0 /\ t \in Seq(S) /\ Len(t) = Len(watch) - 1
      /\ Head(watch) = watch[1] /\ Head(watch) \in S /\ \A i \in 1 .. Len(t) : t[i] = watch[i + 1]
  BY EmptySeq
<1> HIDE DEF t
<1>2. Head(watch) # inCache
  BY <1>1 DEF Chained
<1>3. CASE t = <<>>
  <2>1. Len(t) = 0
    BY <1>1, <1>3
  <2>2. Head(watch) = api
    <3>1. Len(watch) = 1
      BY <1>1, <2>1
    <3>2. watch[Len(watch)] = api
      BY DEF Chained
    <3> QED BY <1>1, <3>1, <3>2
  <2>3. Chained(Head(watch), t, api)
    BY <1>3, <2>2 DEF Chained
  <2> QED BY <1>1, <1>2, <2>3 DEF t
<1>4. CASE t # <<>>
  <2>1. Len(t) > 0
    BY <1>1, <1>4, EmptySeq
  <2>2. t[1] # Head(watch) /\ t[Len(t)] = api
    BY <1>1, <2>1 DEF Chained
  <2>3. ASSUME NEW i \in 1 .. Len(t) - 1 PROVE t[i] # t[i + 1]
    BY <1>1, <2>1 DEF Chained
  <2>4. Chained(Head(watch), t, api)
    BY <1>4, <2>2, <2>3 DEF Chained
  <2> QED BY <1>1, <1>2, <2>4 DEF t
<1> QED BY <1>3, <1>4

\* Writes to the two API servers keep the events in order.
LEMMA HostWritten ==
  ASSUME TypeOK, WatchesChained, NEW p \in Host, WriteHost(p), pCache' = pCache
  PROVE  pApi' \in Host /\ pCache' \in Host /\ pWatch' \in Seq(Host) /\ Chained(pCache, pWatch, pApi)'
<1>1. CASE p = pApi
  BY <1>1 DEF WriteHost, TypeOK, WatchesChained, Chained
<1>2. CASE p # pApi
  <2>1. pApi' = p /\ pWatch' = Append(pWatch, p) /\ pWatch \in Seq(Host) /\ pCache \in Host
    BY <1>2 DEF WriteHost, TypeOK
  <2>2. Append(pWatch, p) \in Seq(Host) /\ Chained(pCache, Append(pWatch, p), p)
    BY <1>2, <2>1, ChainGrows DEF WatchesChained
  <2> QED BY <2>1, <2>2
<1> QED BY <1>1, <1>2

LEMMA VirtualWritten ==
  ASSUME TypeOK, WatchesChained, NEW v \in Virtual, WriteVirtual(v), vCache' = vCache
  PROVE  vApi' \in Virtual /\ vCache' \in Virtual /\ vWatch' \in Seq(Virtual) /\ Chained(vCache, vWatch, vApi)'
<1>1. CASE v = vApi
  BY <1>1 DEF WriteVirtual, TypeOK, WatchesChained, Chained
<1>2. CASE v # vApi
  <2>1. vApi' = v /\ vWatch' = Append(vWatch, v) /\ vWatch \in Seq(Virtual) /\ vCache \in Virtual
    BY <1>2 DEF WriteVirtual, TypeOK
  <2>2. Append(vWatch, v) \in Seq(Virtual) /\ Chained(vCache, Append(vWatch, v), v)
    BY <1>2, <2>1, ChainGrows DEF WatchesChained
  <2> QED BY <2>1, <2>2
<1> QED BY <1>1, <1>2

-----------------------------------------------------------------------------
(***************************************************************************)
(* Who writes what.                                                        *)
(***************************************************************************)
\* A write of the controller's to the host object leaves its own fields.
Gentle(p) == p # Absent /\ pApi # Absent => p.data = pApi.data /\ p.uid = pApi.uid

\* A step of the worker writes well-typed objects, and leaves the host its own
\* fields.
LEMMA WorkerWrites ==
  ASSUME TypeOK, Holding, NEW c \in Controllers, Step(c)
  PROVE  /\ UNCHANGED host \/ \E p \in Host : WriteHost(p) /\ Gentle(p)
         /\ UNCHANGED virtual \/ \E v \in Virtual : WriteVirtual(v)
<1> DEFINE r == pc[c]
<1>1. r \in Records /\ r.p \in Host /\ r.v \in Virtual
  BY DEF TypeOK, Records
<1>2. pApi # Absent => pApi \in HostObjects
  BY DEF TypeOK, Host
<1>3. vApi # Absent => vApi \in VirtualObjects
  BY DEF TypeOK, Virtual
<1>4. Absent \in Host /\ Absent \in Virtual /\ Gentle(Absent)
  BY DEF Host, Virtual, Gentle
<1>5. CASE ReadHost(c) \/ ReadVirtual(c)
  BY <1>5 DEF ReadHost, ReadVirtual, host, virtual
<1>6. CASE DeleteVirtual(c) \/ DeletePhysical(c)
  BY <1>4, <1>6 DEF DeleteVirtual, DeletePhysical
<1>7. CASE ReversePatch(c)
  <2>1. UNCHANGED virtual
    BY <1>7 DEF ReversePatch
  <2>2. r.p \in HostObjects /\ r.v \in VirtualObjects
    BY <1>1, <1>7 DEF ReversePatch, Holding, At, Host, Virtual
  <2>3. CASE ~(UNCHANGED host)
    <3> DEFINE q == [r.p EXCEPT !.back = r.v.back]
    <3>1. r.v.back # NoField /\ pApi = r.p /\ WriteHost(q)
      BY <1>7, <2>3 DEF ReversePatch
    <3>2. q \in HostObjects /\ q.data = r.p.data /\ q.uid = r.p.uid
      BY <2>2, <3>1 DEF HostObjects, VirtualObjects
    <3> HIDE DEF q
    <3> QED BY <2>1, <3>1, <3>2 DEF Gentle, Host
  <2> QED BY <2>1, <2>3
<1>8. ASSUME NEW q \in HostObjects PROVE Applied(c, q) \in Virtual
  BY <1>3 DEF Applied, HostObjects, VirtualObjects, Virtual
<1>9. CASE ApplyPatches(c) \/ CreateVirtual(c)
  <2>1. r.p \in HostObjects
    BY <1>1, <1>9 DEF ApplyPatches, CreateVirtual, Holding, At, Host
  <2>2. UNCHANGED host /\ (UNCHANGED virtual \/ WriteVirtual(Applied(c, r.p)))
    BY <1>9 DEF ApplyPatches, CreateVirtual
  <2> QED BY <1>8, <2>1, <2>2
<1>10. ASSUME pApi # Absent, NEW ann \in BOOLEAN, NEW saved \in BOOLEAN
       PROVE  /\ [pApi EXCEPT !.ann = ann, !.saved = saved] \in Host
              /\ Gentle([pApi EXCEPT !.ann = ann, !.saved = saved])
  BY <1>2, <1>10 DEF HostObjects, Host, Gentle
<1>11. CASE RecordMappings(c)
  <2>1. NeedsName \in BOOLEAN
    BY EnvironmentAssumption
  <2>2. pApi # Absent => Recorded(r.p) \in Host /\ Gentle(Recorded(r.p))
    BY <1>2, <2>1 DEF Recorded, HostObjects, Host, Gentle
  <2> QED BY <1>11, <2>2 DEF RecordMappings
<1>12. CASE Annotate(c)
  <2>1. pApi # Absent => Annotated(r.p) \in Host /\ Gentle(Annotated(r.p))
    BY <1>2 DEF Annotated, HostObjects, Host, Gentle
  <2> QED BY <1>12, <2>1 DEF Annotate
<1>13. CASE RemoveAnnotations(c)
  BY <1>10, <1>13 DEF RemoveAnnotations
<1> QED
  BY <1>5, <1>6, <1>7, <1>9, <1>11, <1>12, <1>13 DEF Step

\* A step of the worker leaves it at a place, with what it needs there.
LEMMA WorkerHolds ==
  ASSUME TypeOK, Holding, NEW c \in Controllers, Step(c) \/ Take(c) \/ CallFails(c)
  PROVE  pc' \in [Controllers -> Records] /\ Holding' /\ pending' \subseteq Controllers
<1> DEFINE r == pc[c]
           Needs(q) == /\ q.at \in {"reverse", "apply", "record", "delete_p", "annotate", "create"} => q.p # Absent
                       /\ q.at = "reverse" => q.v # Absent
<1>1. /\ r \in Records /\ r.at \in Places /\ r.p \in Host /\ r.v \in Virtual /\ Needs(r)
      /\ pc \in [Controllers -> Records] /\ pending \subseteq Controllers
      /\ pCache \in Host /\ vCache \in Virtual /\ pApi \in Host
  BY DEF TypeOK, Records, Holding
<1>2. ASSUME NEW q \in Records, Needs(q), pc' = [pc EXCEPT ![c] = q]
      PROVE  pc' \in [Controllers -> Records] /\ Holding'
  BY <1>1, <1>2 DEF Holding
<1>3. Return(c) => pc' \in [Controllers -> Records] /\ Holding'
  <2>1. Idle \in Records /\ Needs(Idle)
    BY DEF Idle, Records, Places, Host, Virtual
  <2> QED BY <1>2, <2>1 DEF Return
<1>4. ASSUME NEW place \in Places, Goto(c, place), Needs([r EXCEPT !.at = place])
      PROVE  pc' \in [Controllers -> Records] /\ Holding'
  <2> DEFINE n == [r EXCEPT !.at = place]
  <2>1. pc' = [pc EXCEPT ![c] = n]
    BY <1>4 DEF Goto
  <2>2. n \in Records
    BY <1>1, <1>4 DEF Records
  <2> HIDE DEF n, Needs
  <2> QED BY <1>2, <1>4, <2>1, <2>2 DEF n
<1>5. ASSUME NEW place \in Places, place \in {"apply", "record", "delete_p", "annotate"} => r.p # Absent,
             place \notin {"reverse", "create"}, Goto(c, place)
      PROVE  pc' \in [Controllers -> Records] /\ Holding'
  <2>1. [r EXCEPT !.at = place].at = place /\ [r EXCEPT !.at = place].p = r.p
    BY <1>1 DEF Records
  <2> QED BY <1>4, <1>5, <2>1
<1>6. ASSUME NEW place \in {"virtual", "create"}, NEW q \in Host, GotoWith(c, place, q),
             place = "create" => q # Absent
      PROVE  pc' \in [Controllers -> Records] /\ Holding'
  <2> DEFINE n == [r EXCEPT !.at = place, !.p = q]
  <2>1. pc' = [pc EXCEPT ![c] = n]
    BY <1>1, <1>6 DEF GotoWith
  <2>2. n \in Records /\ n.at = place /\ n.p = q
    BY <1>1, <1>6 DEF Records, Places
  <2>3. Needs(n)
    BY <1>6, <2>2
  <2> HIDE DEF n, Needs
  <2> QED BY <1>2, <2>1, <2>2, <2>3
<1>7. CASE Take(c)
  <2> DEFINE n == [r EXCEPT !.at = "host"]
  <2>1. pc' = [pc EXCEPT ![c] = n] /\ pending' \subseteq Controllers
    BY <1>1, <1>7 DEF Take
  <2>2. n \in Records /\ n.at = "host"
    BY <1>1 DEF Records, Places
  <2>3. Needs(n)
    BY <2>2
  <2> HIDE DEF n, Needs
  <2> QED BY <1>2, <2>1, <2>2, <2>3
<1>8. CASE CallFails(c)
  <2>1. pending' \subseteq Controllers
    BY <1>1, <1>8 DEF CallFails, Goto, ReturnError
  <2>2. Goto(c, "unannotate") \/ Return(c)
    BY <1>8 DEF CallFails, ReturnError
  <2> QED BY <1>3, <1>5, <2>1, <2>2 DEF Places
<1>9. ASSUME Step(c) PROVE pending' \subseteq Controllers
  BY <1>1, <1>9 DEF Step, ReadHost, ReadVirtual, DeleteVirtual, ReversePatch, ApplyPatches, RecordMappings,
     DeletePhysical, Annotate, CreateVirtual, RemoveAnnotations, Goto, GotoWith, ReturnOk, ReturnError
<1>10. ASSUME Step(c) PROVE pc' \in [Controllers -> Records] /\ Holding'
  <2>1. CASE ReadHost(c)
    BY <1>1, <1>3, <1>6, <2>1 DEF ReadHost, ReturnOk
  <2>2. CASE ReadVirtual(c)
    <3>1. CASE vCache = Absent
      BY <1>3, <1>5, <2>2, <3>1 DEF ReadVirtual, ReturnOk, Places
    <3>2. CASE vCache # Absent /\ ~Return(c)
      <4> DEFINE n == [r EXCEPT !.at = IF r.p = Absent THEN "delete_v" ELSE "reverse", !.v = vCache]
      <4>1. pc' = [pc EXCEPT ![c] = n]
        BY <1>1, <2>2, <3>2 DEF ReadVirtual, ReturnOk
      <4>2. /\ n \in Records /\ n.p = r.p /\ n.v = vCache
            /\ n.at = IF r.p = Absent THEN "delete_v" ELSE "reverse"
        BY <1>1 DEF Records, Places
      <4>3. Needs(n)
        BY <3>2, <4>2
      <4> HIDE DEF n, Needs
      <4> QED BY <1>2, <4>1, <4>2, <4>3
    <3> QED BY <1>3, <3>1, <3>2
  <2>3. CASE DeleteVirtual(c) \/ DeletePhysical(c) \/ RemoveAnnotations(c) \/ RecordMappings(c)
    BY <1>3, <2>3 DEF DeleteVirtual, DeletePhysical, RemoveAnnotations, RecordMappings, ReturnOk, ReturnError
  <2>4. CASE ReversePatch(c) \/ ApplyPatches(c) \/ CreateVirtual(c)
    <3>1. r.p # Absent
      BY <1>1, <2>4 DEF ReversePatch, ApplyPatches, CreateVirtual, At
    <3>2. Return(c) \/ \E place \in {"apply", "record", "unannotate"} : Goto(c, place)
      BY <2>4 DEF ReversePatch, ApplyPatches, CreateVirtual, ReturnOk, ReturnError
    <3> QED BY <1>3, <1>5, <3>1, <3>2 DEF Places
  <2>5. CASE Annotate(c)
    <3>1. CASE pApi = Absent \/ ~PhysicalToVirtual(r.p)
      BY <1>3, <2>5, <3>1 DEF Annotate, ReturnError
    <3>2. CASE ~(pApi = Absent \/ ~PhysicalToVirtual(r.p))
      <4> DEFINE q == Annotated(r.p)
      <4>1. GotoWith(c, "create", q)
        BY <2>5, <3>2 DEF Annotate
      <4>2. q \in HostObjects
        BY <1>1, <3>2 DEF Annotated, Host, HostObjects
      <4>3. q # Absent
        BY <4>2, AbsentAssumption
      <4> HIDE DEF q
      <4> QED BY <1>6, <4>1, <4>2, <4>3 DEF Host
    <3> QED BY <3>1, <3>2
  <2> QED BY <1>10, <2>1, <2>2, <2>3, <2>4, <2>5 DEF Step
<1> QED BY <1>7, <1>8, <1>9, <1>10

\* What the steps of the event handlers and the outside write.
LEMMA OtherWrites ==
  ASSUME TypeOK, Outside \/ \E c \in Controllers : DeleteFunc(c) \/ enqueueVirtual(c)
  PROVE  /\ \/ UNCHANGED host \/ Crash
            \/ moves' # moves /\ \E p \in Host : WriteHost(p)
         /\ \/ UNCHANGED virtual \/ Crash
            \/ \E v \in Virtual : WriteVirtual(v)
<1>1. pApi # Absent => pApi \in HostObjects
  BY DEF TypeOK, Host
<1>2. vApi # Absent => vApi \in VirtualObjects
  BY DEF TypeOK, Virtual
<1>3. ASSUME NEW c \in Controllers, DeleteFunc(c) \/ enqueueVirtual(c)
      PROVE  UNCHANGED host /\ (UNCHANGED virtual \/ WriteVirtual(Absent))
  BY <1>3 DEF DeleteFunc, enqueueVirtual
<1>4. Absent \in Virtual /\ Absent \in Host
  BY DEF Virtual, Host
<1>5. ASSUME NEW kind, Move(kind) PROVE moves' # moves
  BY <1>5 DEF Move, TypeOK
<1>6. CASE HostCreate
  <2>1. PICK d \in Data, b \in BackData :
          WriteHost([uid |-> created', ann |-> FALSE, saved |-> FALSE, data |-> d, back |-> b])
    BY <1>6 DEF HostCreate
  <2>2. created' \in Nat
    BY <1>6 DEF HostCreate, TypeOK
  <2>3. [uid |-> created', ann |-> FALSE, saved |-> FALSE, data |-> d, back |-> b] \in Host
    BY <2>1, <2>2 DEF Host, HostObjects
  <2> QED BY <1>5, <1>6, <2>1, <2>3 DEF HostCreate
<1>7. CASE HostUpdate
  <2>1. PICK d \in Data : WriteHost([pApi EXCEPT !.data = d])
    BY <1>7 DEF HostUpdate
  <2>2. [pApi EXCEPT !.data = d] \in Host
    BY <1>1, <1>7, <2>1 DEF HostUpdate, Host, HostObjects
  <2> QED BY <1>5, <1>7, <2>1, <2>2 DEF HostUpdate
<1>8. CASE HostDelete \/ UserDelete
  BY <1>4, <1>5, <1>8 DEF HostDelete, UserDelete
<1>9. CASE UserCreate
  <2>1. PICK d \in Data : WriteVirtual([owner |-> User, data |-> d, back |-> NoField])
    BY <1>9 DEF UserCreate
  <2>2. [owner |-> User, data |-> d, back |-> NoField] \in Virtual
    BY DEF Virtual, VirtualObjects
  <2> QED BY <1>9, <2>1, <2>2 DEF UserCreate
<1>10. CASE UserUpdate
  <2>1. PICK d \in Data, b \in BackData : WriteVirtual([vApi EXCEPT !.data = d, !.back = b])
    BY <1>10 DEF UserUpdate
  <2>2. [vApi EXCEPT !.data = d, !.back = b] \in Virtual
    BY <1>2, <1>10, <2>1 DEF UserUpdate, Virtual, VirtualObjects
  <2> QED BY <1>10, <2>1, <2>2 DEF UserUpdate
<1>11. CASE ParentChange \/ Resync \/ \E c \in Controllers : CallFails(c) \/ HandlerFails(c)
  BY <1>11 DEF ParentChange, Resync, CallFails, HandlerFails
<1> QED BY <1>3, <1>4, <1>6, <1>7, <1>8, <1>9, <1>10, <1>11 DEF Outside

-----------------------------------------------------------------------------
(***************************************************************************)
(* Types.                                                                  *)
(***************************************************************************)
\* The host object, at the API server, on its way and in the cache.
LEMMA HostNext ==
  ASSUME Inv, Next
  PROVE  pApi' \in Host /\ pCache' \in Host /\ pWatch' \in Seq(Host) /\ Chained(pCache, pWatch, pApi)'
<1>1. TypeOK /\ WatchesChained /\ Holding
  BY DEF Inv
<1>2. CASE UNCHANGED <<pApi, pWatch, pCache>>
  BY <1>1, <1>2 DEF TypeOK, WatchesChained, Chained
<1>3. ASSUME NEW p \in Host, WriteHost(p), pCache' = pCache
      PROVE  pApi' \in Host /\ pCache' \in Host /\ pWatch' \in Seq(Host) /\ Chained(pCache, pWatch, pApi)'
  BY <1>1, <1>3, HostWritten
<1>4. CASE HostInformer
  <2>1. pWatch # <<>> /\ pCache' = Head(pWatch) /\ pWatch' = Tail(pWatch) /\ pApi' = pApi
    BY <1>4 DEF HostInformer
  <2>2. pWatch \in Seq(Host) /\ pApi \in Host /\ Chained(pCache, pWatch, pApi)
    BY <1>1 DEF TypeOK, WatchesChained
  <2>3. Head(pWatch) \in Host /\ Tail(pWatch) \in Seq(Host) /\ Chained(Head(pWatch), Tail(pWatch), pApi)
    BY <2>1, <2>2, ChainShrinks
  <2> QED BY <2>1, <2>2, <2>3
<1>5. CASE Crash
  BY <1>1, <1>5 DEF Crash, TypeOK, Chained
<1>6. CASE VirtualInformer \/ NameCacheChange \/ \E c \in Controllers : Take(c)
  BY <1>2, <1>6 DEF VirtualInformer, NameCacheChange, Take, host, outside
<1>7. ASSUME NEW c \in Controllers, Step(c)
      PROVE  pApi' \in Host /\ pCache' \in Host /\ pWatch' \in Seq(Host) /\ Chained(pCache, pWatch, pApi)'
  <2>1. pCache' = pCache
    BY <1>7 DEF Step, ReadHost, ReadVirtual, DeleteVirtual, ReversePatch, ApplyPatches, RecordMappings,
       DeletePhysical, Annotate, CreateVirtual, RemoveAnnotations, outside
  <2>2. UNCHANGED host \/ \E p \in Host : WriteHost(p)
    BY <1>1, <1>7, WorkerWrites
  <2> QED BY <1>2, <1>3, <2>1, <2>2 DEF host
<1>8. CASE Outside \/ \E c \in Controllers : DeleteFunc(c) \/ enqueueVirtual(c)
  <2>1. pCache' = pCache \/ Crash
    BY <1>8 DEF Outside, HostCreate, HostUpdate, HostDelete, UserCreate, UserUpdate, UserDelete, ParentChange,
       Resync, CallFails, HandlerFails, DeleteFunc, enqueueVirtual, inside
  <2>2. UNCHANGED host \/ Crash \/ \E p \in Host : WriteHost(p)
    BY <1>1, <1>8, OtherWrites
  <2> QED BY <1>2, <1>3, <1>5, <2>1, <2>2 DEF host
<1> QED BY <1>4, <1>6, <1>7, <1>8 DEF Next

\* The virtual object, likewise.
LEMMA VirtualNext ==
  ASSUME Inv, Next
  PROVE  vApi' \in Virtual /\ vCache' \in Virtual /\ vWatch' \in Seq(Virtual) /\ Chained(vCache, vWatch, vApi)'
<1>1. TypeOK /\ WatchesChained /\ Holding
  BY DEF Inv
<1>2. CASE UNCHANGED <<vApi, vWatch, vCache>>
  BY <1>1, <1>2 DEF TypeOK, WatchesChained, Chained
<1>3. ASSUME NEW v \in Virtual, WriteVirtual(v), vCache' = vCache
      PROVE  vApi' \in Virtual /\ vCache' \in Virtual /\ vWatch' \in Seq(Virtual) /\ Chained(vCache, vWatch, vApi)'
  BY <1>1, <1>3, VirtualWritten
<1>4. CASE VirtualInformer
  <2>1. vWatch # <<>> /\ vCache' = Head(vWatch) /\ vWatch' = Tail(vWatch) /\ vApi' = vApi
    BY <1>4 DEF VirtualInformer
  <2>2. vWatch \in Seq(Virtual) /\ vApi \in Virtual /\ Chained(vCache, vWatch, vApi)
    BY <1>1 DEF TypeOK, WatchesChained
  <2>3. Head(vWatch) \in Virtual /\ Tail(vWatch) \in Seq(Virtual) /\ Chained(Head(vWatch), Tail(vWatch), vApi)
    BY <2>1, <2>2, ChainShrinks
  <2> QED BY <2>1, <2>2, <2>3
<1>5. CASE Crash
  BY <1>1, <1>5 DEF Crash, TypeOK, Chained
<1>6. CASE HostInformer \/ NameCacheChange \/ \E c \in Controllers : Take(c)
  BY <1>2, <1>6 DEF HostInformer, NameCacheChange, Take, virtual, outside
<1>7. ASSUME NEW c \in Controllers, Step(c)
      PROVE  vApi' \in Virtual /\ vCache' \in Virtual /\ vWatch' \in Seq(Virtual) /\ Chained(vCache, vWatch, vApi)'
  <2>1. vCache' = vCache
    BY <1>7 DEF Step, ReadHost, ReadVirtual, DeleteVirtual, ReversePatch, ApplyPatches, RecordMappings,
       DeletePhysical, Annotate, CreateVirtual, RemoveAnnotations, outside
  <2>2. UNCHANGED virtual \/ \E v \in Virtual : WriteVirtual(v)
    BY <1>1, <1>7, WorkerWrites
  <2> QED BY <1>2, <1>3, <2>1, <2>2 DEF virtual
<1>8. CASE Outside \/ \E c \in Controllers : DeleteFunc(c) \/ enqueueVirtual(c)
  <2>1. vCache' = vCache \/ Crash
    BY <1>8 DEF Outside, HostCreate, HostUpdate, HostDelete, UserCreate, UserUpdate, UserDelete, ParentChange,
       Resync, CallFails, HandlerFails, DeleteFunc, enqueueVirtual, inside
  <2>2. UNCHANGED virtual \/ Crash \/ \E v \in Virtual : WriteVirtual(v)
    BY <1>1, <1>8, OtherWrites
  <2> QED BY <1>2, <1>3, <1>5, <2>1, <2>2 DEF virtual
<1> QED BY <1>4, <1>6, <1>7, <1>8 DEF Next

HandlersTyped ==
  vNotif \in [Controllers -> Seq(BOOLEAN \X VirtualObjects)] /\ pDeleted \in [Controllers -> Seq(HostObjects)]

\* The event handlers are handed objects: the last state of one that is gone.
LEMMA HandlersNext == ASSUME Inv, Next PROVE HandlersTyped'
<1>1. HandlersTyped /\ pCache \in Host /\ vCache \in Virtual /\ pWatch \in Seq(Host) /\ vWatch \in Seq(Virtual)
  BY DEF Inv, TypeOK, HandlersTyped
<1>2. CASE UNCHANGED handlers
  BY <1>1, <1>2 DEF handlers, HandlersTyped
<1>3. ASSUME NEW x \in BOOLEAN \X VirtualObjects, vNotif' = Append2All(vNotif, x), pDeleted' = pDeleted
      PROVE  HandlersTyped'
  BY <1>1, <1>3 DEF Append2All, HandlersTyped
<1>4. ASSUME NEW p \in HostObjects, pDeleted' = Append2All(pDeleted, p), vNotif' = vNotif PROVE HandlersTyped'
  BY <1>1, <1>4 DEF Append2All, HandlersTyped
<1>5. CASE HostInformer
  <2>1. CASE Head(pWatch) = Absent
    <3>1. pCache # Absent
      BY <1>1, <1>5, <2>1, ChainShrinks DEF HostInformer, Inv, WatchesChained
    <3>2. pCache \in HostObjects
      BY <1>1, <3>1 DEF Host
    <3> QED BY <1>4, <1>5, <2>1, <3>2 DEF HostInformer
  <2>2. CASE Head(pWatch) # Absent
    BY <1>2, <1>5, <2>2 DEF HostInformer, handlers
  <2> QED BY <2>1, <2>2
<1>6. CASE VirtualInformer
  <2>1. CASE Head(vWatch) = Absent
    <3>1. vCache # Absent
      BY <1>1, <1>6, <2>1, ChainShrinks DEF VirtualInformer, Inv, WatchesChained
    <3>2. <<TRUE, vCache>> \in BOOLEAN \X VirtualObjects
      BY <1>1, <3>1 DEF Virtual
    <3> QED BY <1>3, <1>6, <2>1, <3>2 DEF VirtualInformer
  <2>2. CASE Head(vWatch) # Absent
    <3>1. Head(vWatch) \in Virtual
      BY <1>1, <1>6, ChainShrinks DEF VirtualInformer, Inv, WatchesChained
    <3>2. <<FALSE, Head(vWatch)>> \in BOOLEAN \X VirtualObjects
      BY <2>2, <3>1 DEF Virtual
    <3> QED BY <1>3, <1>6, <2>2, <3>2 DEF VirtualInformer
  <2> QED BY <2>1, <2>2
<1>7. ASSUME NEW c \in Controllers, DeleteFunc(c) \/ enqueueVirtual(c) \/ HandlerFails(c) PROVE HandlersTyped'
  <2>1. (pDeleted' = [pDeleted EXCEPT ![c] = Tail(@)] /\ pDeleted[c] # <<>>) \/ pDeleted' = pDeleted
    BY <1>7 DEF DeleteFunc, enqueueVirtual, HandlerFails
  <2>2. (vNotif' = [vNotif EXCEPT ![c] = Tail(@)] /\ vNotif[c] # <<>>) \/ vNotif' = vNotif
    BY <1>7 DEF DeleteFunc, enqueueVirtual, HandlerFails
  <2>3. pDeleted' \in [Controllers -> Seq(HostObjects)]
    <3>1. pDeleted[c] \in Seq(HostObjects)
      BY <1>1 DEF HandlersTyped
    <3>2. pDeleted[c] # <<>> => Tail(pDeleted[c]) \in Seq(HostObjects)
      BY <3>1
    <3> QED BY <1>1, <2>1, <3>2 DEF HandlersTyped
  <2>4. vNotif' \in [Controllers -> Seq(BOOLEAN \X VirtualObjects)]
    <3>1. vNotif[c] \in Seq(BOOLEAN \X VirtualObjects)
      BY <1>1 DEF HandlersTyped
    <3>2. vNotif[c] # <<>> => Tail(vNotif[c]) \in Seq(BOOLEAN \X VirtualObjects)
      BY <3>1
    <3> QED BY <1>1, <2>2, <3>2 DEF HandlersTyped
  <2> QED BY <2>3, <2>4 DEF HandlersTyped
<1>8. CASE Resync
  <2>1. CASE vCache = Absent
    BY <1>2, <1>8, <2>1 DEF Resync, handlers
  <2>2. CASE vCache # Absent
    <3>1. <<FALSE, vCache>> \in BOOLEAN \X VirtualObjects
      BY <1>1, <2>2 DEF Virtual
    <3> QED BY <1>3, <1>8, <2>2, <3>1 DEF Resync
  <2> QED BY <2>1, <2>2
<1>9. CASE Crash
  <2> DEFINE first == IF vApi = Absent THEN <<>> ELSE << <<FALSE, vApi>> >>
  <2>1. vApi # Absent => <<FALSE, vApi>> \in BOOLEAN \X VirtualObjects
    BY DEF Inv, TypeOK, Virtual
  <2>2. first \in Seq(BOOLEAN \X VirtualObjects)
    <3>1. \A S : <<>> \in Seq(S) /\ \A x \in S : <<x>> \in Seq(S)
      OBVIOUS
    <3>2. CASE vApi = Absent
      BY <3>1, <3>2
    <3>3. CASE vApi # Absent
      BY <2>1, <3>1, <3>3
    <3> QED BY <3>2, <3>3
  <2>3. vNotif' = [c \in Controllers |-> first] /\ pDeleted' = [c \in Controllers |-> <<>>]
    BY <1>9 DEF Crash
  <2> HIDE DEF first
  <2> QED BY <2>2, <2>3 DEF HandlersTyped
<1>10. \/ UNCHANGED handlers \/ HostInformer \/ VirtualInformer \/ Resync \/ Crash
       \/ \E c \in Controllers : DeleteFunc(c) \/ enqueueVirtual(c) \/ HandlerFails(c)
  BY DEF Next, NameCacheChange, Take, Step, ReadHost, ReadVirtual, DeleteVirtual, ReversePatch, ApplyPatches,
     RecordMappings, DeletePhysical, Annotate, CreateVirtual, RemoveAnnotations, outside, Outside, HostCreate,
     HostUpdate, HostDelete, UserCreate, UserUpdate, UserDelete, ParentChange, CallFails, inside, handlers
<1> QED BY <1>2, <1>5, <1>6, <1>7, <1>8, <1>9, <1>10

\* The workers and their queues.
LEMMA WorkersNext ==
  ASSUME Inv, Next
  PROVE  pc' \in [Controllers -> Records] /\ Holding' /\ pending' \subseteq Controllers
<1>1. TypeOK /\ Holding /\ pc \in [Controllers -> Records] /\ pending \subseteq Controllers
  BY DEF Inv, TypeOK, Records
<1>2. ASSUME NEW c \in Controllers, Step(c) \/ Take(c) \/ CallFails(c)
      PROVE  pc' \in [Controllers -> Records] /\ Holding' /\ pending' \subseteq Controllers
  BY <1>1, <1>2, WorkerHolds
<1>3. ASSUME pc' = pc, pending' \subseteq Controllers
      PROVE  pc' \in [Controllers -> Records] /\ Holding' /\ pending' \subseteq Controllers
  BY <1>1, <1>3 DEF Holding
<1>4. CASE Crash
  <2>1. Idle \in Records
    BY DEF Idle, Records, Places, Host, Virtual
  <2>2. pc' = [c \in Controllers |-> Idle] /\ pending' \subseteq Controllers
    BY <1>4 DEF Crash
  <2>3. Holding'
    BY <2>2 DEF Holding, Idle
  <2> QED BY <2>1, <2>2, <2>3
<1>5. CASE HostInformer \/ VirtualInformer \/ NameCacheChange \/ \E c \in Controllers : DeleteFunc(c) \/ enqueueVirtual(c)
  BY <1>1, <1>3, <1>5 DEF HostInformer, VirtualInformer, NameCacheChange, DeleteFunc, enqueueVirtual
<1>6. CASE \/ HostCreate \/ HostUpdate \/ HostDelete \/ UserCreate \/ UserUpdate \/ UserDelete \/ ParentChange
           \/ Resync \/ \E c \in Controllers : HandlerFails(c)
  BY <1>1, <1>3, <1>6 DEF HostCreate, HostUpdate, HostDelete, UserCreate, UserUpdate, UserDelete, ParentChange,
     Resync, HandlerFails, inside
<1> QED BY <1>2, <1>4, <1>5, <1>6 DEF Next, Outside

\* The names, the history and the bounds.
LEMMA RestNext ==
  ASSUME Inv, Next
  PROVE  /\ parent' \in BOOLEAN /\ known' \in BOOLEAN
         /\ userDeleted' \subseteq Nat /\ excused' \subseteq {"handler_error", "name_taken"}
         /\ created' \in Nat /\ moves' \in Nat
<1>1. /\ parent \in BOOLEAN /\ known \in BOOLEAN
      /\ userDeleted \subseteq Nat /\ excused \subseteq {"handler_error", "name_taken"}
      /\ created \in Nat /\ moves \in Nat
  BY DEF Inv, TypeOK
<1>2. CASE Outside
  <2>1. moves' \in Nat
    <3>1. \E kind : Move(kind)
      BY <1>2, Zenon DEF Outside, HostCreate, HostUpdate, HostDelete, UserCreate, UserUpdate, UserDelete,
         ParentChange, Resync, Crash, CallFails, HandlerFails
    <3> QED BY <1>1, <3>1 DEF Move
  <2>2. created' \in Nat
    <3>1. CASE HostCreate
      BY <1>1, <3>1 DEF HostCreate
    <3>2. CASE ~HostCreate
      <4>1. created' = created
        BY <1>2, <3>2, Zenon DEF Outside, HostUpdate, HostDelete, UserCreate, UserUpdate, UserDelete,
           ParentChange, Resync, Crash, CallFails, HandlerFails
      <4> QED BY <1>1, <4>1
    <3> QED BY <3>1, <3>2
  <2>3. parent' \in BOOLEAN /\ known' \in BOOLEAN
    BY <1>1, <1>2 DEF Outside, HostCreate, HostUpdate, HostDelete, UserCreate, UserUpdate, UserDelete,
       ParentChange, Resync, Crash, CallFails, HandlerFails, inside, names
  <2>4. userDeleted' \subseteq Nat
    BY <1>1, <1>2 DEF Outside, HostCreate, HostUpdate, HostDelete, UserCreate, UserUpdate, UserDelete,
       ParentChange, Resync, Crash, CallFails, HandlerFails, history
  <2>5. excused' \subseteq {"handler_error", "name_taken"}
    BY <1>1, <1>2 DEF Outside, HostCreate, HostUpdate, HostDelete, UserCreate, UserUpdate, UserDelete,
       ParentChange, Resync, Crash, CallFails, HandlerFails, MadeUpFor, history
  <2> QED BY <2>1, <2>2, <2>3, <2>4, <2>5
<1>3. CASE HostInformer \/ VirtualInformer \/ NameCacheChange \/ \E c \in Controllers : DeleteFunc(c) \/ enqueueVirtual(c)
  BY <1>1, <1>3 DEF HostInformer, VirtualInformer, NameCacheChange, DeleteFunc, enqueueVirtual, history, names, bounds
<1>4. CASE \E c \in Controllers : Take(c) \/ Step(c)
  BY <1>1, <1>4 DEF Take, Step, ReadHost, ReadVirtual, DeleteVirtual, ReversePatch, ApplyPatches,
     RecordMappings, DeletePhysical, Annotate, CreateVirtual, RemoveAnnotations, outside, history
<1> QED BY <1>2, <1>3, <1>4 DEF Next

\* The inductive invariant holds throughout.
LEMMA Invariance == Spec => []Inv
<1>1. Init => Inv
  <2> SUFFICES ASSUME Init PROVE Inv
    OBVIOUS
  <2>1. Idle \in Records
    BY DEF Idle, Records, Places, Host, Virtual
  <2>2. pc \in [Controllers -> Records] /\ Holding
    BY <2>1 DEF Init, Holding, Idle
  <2>3. WatchesChained
    BY DEF Init, WatchesChained, Chained
  <2>4. vNotif \in [Controllers -> Seq(BOOLEAN \X VirtualObjects)] /\ pDeleted \in [Controllers -> Seq(HostObjects)]
    BY DEF Init
  <2>5. /\ pApi \in Host /\ pCache \in Host /\ pWatch \in Seq(Host)
        /\ vApi \in Virtual /\ vCache \in Virtual /\ vWatch \in Seq(Virtual)
    BY DEF Init, Host, Virtual
  <2>6. TypeOK
    BY <2>2, <2>4, <2>5 DEF Init, TypeOK, Records
  <2> QED BY <2>2, <2>3, <2>6 DEF Inv
<1>2. Inv /\ [Next]_vars => Inv'
  <2>1. ASSUME Inv, Next PROVE Inv'
    BY <2>1, HostNext, VirtualNext, HandlersNext, WorkersNext, RestNext
    DEF Inv, TypeOK, WatchesChained, HandlersTyped, Records
  <2>2. ASSUME Inv, UNCHANGED vars PROVE Inv'
    BY <2>2 DEF Inv, TypeOK, WatchesChained, Chained, Holding, vars
  <2> QED BY <2>1, <2>2
<1> QED BY <1>1, <1>2, PTL DEF Spec

\* For any number of controllers, whatever happens outside, the state keeps its
\* types: no event handler is handed nothing, and no worker dereferences an
\* object that was not there.
THEOREM TypeCorrect == Spec => []TypeOK
<1>1. Inv => TypeOK
  BY DEF Inv
<1> QED BY <1>1, Invariance, PTL

\* For any number of controllers that write the same host object: none undoes a
\* change of the host's own fields, although each writes the whole object it
\* read from its cache.
THEOREM HostUpdatesAreKept == Spec => NoLostHostUpdate
<1>1. Inv /\ [Next]_vars =>
        [pApi # Absent /\ pApi' # Absent /\ moves' = moves => pApi'.data = pApi.data /\ pApi'.uid = pApi.uid]_vars
  <2> SUFFICES ASSUME Inv, Next, pApi # Absent, pApi' # Absent, moves' = moves
               PROVE  pApi'.data = pApi.data /\ pApi'.uid = pApi.uid
    OBVIOUS
  <2>1. TypeOK /\ Holding
    BY DEF Inv
  <2>2. CASE pApi' = pApi
    BY <2>2
  <2>3. ASSUME NEW c \in Controllers, Step(c) PROVE pApi'.data = pApi.data /\ pApi'.uid = pApi.uid
    BY <2>1, <2>2, <2>3, WorkerWrites DEF Gentle, WriteHost, host
  <2>4. CASE Outside \/ \E c \in Controllers : DeleteFunc(c) \/ enqueueVirtual(c)
    BY <2>1, <2>2, <2>4, OtherWrites DEF host, Crash
  <2>5. CASE HostInformer \/ VirtualInformer \/ NameCacheChange \/ \E c \in Controllers : Take(c)
    BY <2>2, <2>5 DEF HostInformer, VirtualInformer, NameCacheChange, Take, host
  <2> QED BY <2>3, <2>4, <2>5 DEF Next
<1> QED BY <1>1, Invariance, PTL DEF Spec, NoLostHostUpdate
=============================================================================
