------------------------ MODULE BackSyncerQuietProofs ------------------------
(***************************************************************************)
(* Host and virtual object agree when the back syncer comes to rest: for   *)
(* all contents, any number of outside events and any lag of the watches.  *)
(*                                                                         *)
(* CopiesAgree and NamedOrphansAreDeleted hold for any number of           *)
(* controllers and whatever fails.  That a host object has its copy needs  *)
(* one controller (Alone): of two, each may pass over a copy as the        *)
(* other's, and hear nothing when it goes.  That no copy outlives a host   *)
(* object no parent names needs that no failed syncUp takes annotations    *)
(* off again (Undisturbed): on a stale read it takes off those of an       *)
(* object that has a copy, which only the name cache can then find.  TLC   *)
(* finds the system resting in disagreement without either hypothesis.     *)
(*                                                                         *)
(* The invariant says, for each way in which the objects may disagree,     *)
(* what is on its way that will bring the controller back: a request in    *)
(* its queue, an event of a watch, or a notification for a handler.        *)
(***************************************************************************)
EXTENDS BackSyncerProofs

Undisturbed == ~NeedsName /\ "call_failure" \notin Environment
Alone == \E c \in Controllers : Controllers = {c}

Owns(c, v) == v # Absent /\ v.owner = c

\* enqueueVirtual is still to be told that c's object is there, or that it went.
Told(c) == \E i \in DOMAIN vNotif[c] : ~vNotif[c][i][1] /\ vNotif[c][i][2].owner = c
ToldGone(c) == \E i \in DOMAIN vNotif[c] : vNotif[c][i][1] /\ vNotif[c][i][2].owner = c

\* c's object is there, and nothing about it is on its way.
Copied(c) == Owns(c, vCache) /\ vWatch = <<>> /\ ~Told(c) /\ "handler_error" \notin excused

\* The annotations of a host object stay until it is deleted.
Keeps(p, q) == containsBackSyncNameAnnotations(p) /\ q # Absent => q.ann

Keeping(inCache, watch) ==
  /\ watch # <<>> => Keeps(inCache, watch[1])
  /\ \A i \in 1 .. Len(watch) - 1 : Keeps(watch[i], watch[i + 1])

AnnotationsStay == Keeping(pCache, pWatch) /\ \A c \in Controllers : pc[c].at # "unannotate"

\* A virtual object of c's has a host object, or it is about to be deleted.
HostRemembered(c) ==
  Owns(c, vCache) /\ "handler_error" \notin excused =>
     \/ vWatch # <<>>
     \/ Told(c)
     \/ containsBackSyncNameAnnotations(pCache)
     \/ \E i \in DOMAIN pDeleted[c] : pDeleted[c][i].ann

OrphanInv == AnnotationsStay /\ \A c \in Controllers : HostRemembered(c)

-----------------------------------------------------------------------------
\* A virtual object of the user's is known to be in the way.
UsersExcused == NameTaken => "name_taken" \in excused

\* What the worker read of the host object is still in the cache.
ReadsHost(c) ==
  /\ pc[c].at \in {"virtual", "delete_v", "reverse", "apply", "delete_p", "annotate"} => pc[c].p = pCache
  /\ pc[c].at = "record" => pc[c].p = pCache \/ pWatch # <<>>
  /\ pc[c].at \in {"create", "unannotate"} => pWatch # <<>>
  /\ pc[c].at \in {"virtual", "reverse", "apply", "annotate"} => PhysicalToVirtual(pc[c].p)
  /\ pc[c].at = "delete_v" => pc[c].p = Absent
  /\ pc[c].at = "annotate" => ~containsBackSyncNameAnnotations(pc[c].p)

\* What it read of the virtual object is too, or there is a notification.
ReadsVirtual(c) ==
  containsBackSyncNameAnnotations(pCache) /\ Owns(c, vCache) /\ ~Told(c) =>
     /\ pc[c].at = "reverse" => pc[c].v = vCache
     /\ pc[c].at = "apply" => vCache.back \in {NoField, pc[c].p.back}

\* No virtual object but the one controller's own is in the way.
Free == Alone /\ "name_taken" \notin excused

\* A managed host object without the annotations is being worked on.
Unmarked(c) ==
  /\ pCache # Absent /\ ~containsBackSyncNameAnnotations(pCache) /\ known
  /\ pWatch = <<>> /\ (Free \/ Copied(c))
  => pc[c].at \in {"host", "virtual", "reverse", "apply", "record", "annotate"}

\* One with the annotations has its virtual object, or is about to be deleted.
Uncopied(c) ==
  /\ containsBackSyncNameAnnotations(pCache) /\ vCache = Absent
  /\ pWatch = <<>> /\ vWatch = <<>> /\ Free /\ ~ToldGone(c)
  => pc[c].at \in {"host", "virtual", "delete_p"}

Agree(p, v) == v.data = p.data /\ v.back \in {NoField, p.back}

\* The two agree, or they are about to be compared.
Compared(c) ==
  /\ containsBackSyncNameAnnotations(pCache) /\ Owns(c, vCache)
  /\ pWatch = <<>> /\ vWatch = <<>> /\ ~Told(c)
  => Agree(pCache, vCache) \/ pc[c].at \in {"host", "virtual", "reverse", "apply", "delete_p"}

\* Unless there is a request that will make it look again.
Looked(c) ==
  c \notin pending =>
     ReadsHost(c) /\ ReadsVirtual(c) /\ Unmarked(c) /\ Uncopied(c) /\ Compared(c)

AgreeInv == UsersExcused /\ \A c \in Controllers : Looked(c)

-----------------------------------------------------------------------------
(***************************************************************************)
(* Sequences of events.                                                    *)
(***************************************************************************)
LEMMA InAppended ==
  ASSUME NEW S, NEW s \in Seq(S), NEW x \in S
  PROVE  /\ \A i \in DOMAIN s : i \in DOMAIN Append(s, x) /\ Append(s, x)[i] = s[i]
         /\ \E i \in DOMAIN Append(s, x) : Append(s, x)[i] = x
         /\ \A i \in DOMAIN Append(s, x) : Append(s, x)[i] = x \/ (i \in DOMAIN s /\ Append(s, x)[i] = s[i])
<1> DEFINE t == Append(s, x)
<1>1. /\ Len(s) \in Nat /\ DOMAIN s = 1 .. Len(s) /\ DOMAIN t = 1 .. Len(s) + 1
      /\ t[Len(s) + 1] = x /\ \A i \in 1 .. Len(s) : t[i] = s[i]
  OBVIOUS
<1> HIDE DEF t
<1>2. Len(s) + 1 \in DOMAIN t
  BY <1>1
<1>3. \A i \in DOMAIN t : i = Len(s) + 1 \/ i \in DOMAIN s
  BY <1>1
<1>4. \A i \in DOMAIN s : i \in DOMAIN t /\ t[i] = s[i]
  BY <1>1
<1> QED BY <1>1, <1>2, <1>3, <1>4 DEF t

LEMMA AppendedIsSome ==
  ASSUME NEW S, NEW s \in Seq(S), NEW x \in S PROVE Append(s, x) # <<>>
<1> DEFINE t == Append(s, x)
<1>1. Len(t) = Len(s) + 1 /\ Len(s) \in Nat
  OBVIOUS
<1> HIDE DEF t
<1>2. t # <<>>
  BY <1>1
<1> QED BY <1>2 DEF t

LEMMA InTail ==
  ASSUME NEW S, NEW s \in Seq(S), s # <<>>
  PROVE  /\ \A i \in DOMAIN s : s[i] = Head(s) \/ \E j \in DOMAIN Tail(s) : Tail(s)[j] = s[i]
         /\ \A j \in DOMAIN Tail(s) : \E i \in DOMAIN s : s[i] = Tail(s)[j]
         /\ 1 \in DOMAIN s /\ s[1] = Head(s)
<1> DEFINE t == Tail(s)
<1>1. /\ Len(s) \in Nat /\ Len(s) > 0 /\ DOMAIN s = 1 .. Len(s) /\ DOMAIN t = 1 .. Len(s) - 1
      /\ Head(s) = s[1] /\ \A i \in 1 .. Len(s) - 1 : t[i] = s[i + 1]
  BY EmptySeq
<1> HIDE DEF t
<1>2. ASSUME NEW i \in DOMAIN s PROVE s[i] = Head(s) \/ \E j \in DOMAIN t : t[j] = s[i]
  <2>1. CASE i = 1
    BY <1>1, <2>1
  <2>2. CASE i # 1
    <3>1. i - 1 \in DOMAIN t /\ t[i - 1] = s[i]
      BY <1>1, <2>2
    <3> QED BY <3>1
  <2> QED BY <2>1, <2>2
<1>3. ASSUME NEW j \in DOMAIN t PROVE \E i \in DOMAIN s : s[i] = t[j]
  <2>1. j + 1 \in DOMAIN s /\ s[j + 1] = t[j]
    BY <1>1
  <2> QED BY <2>1
<1> QED BY <1>1, <1>2, <1>3 DEF t

LEMMA KeepGrows ==
  ASSUME NEW watch \in Seq(Host), NEW inCache, NEW api, NEW p \in Host,
         Chained(inCache, watch, api), Keeping(inCache, watch), Keeps(api, p)
  PROVE  Keeping(inCache, Append(watch, p))
<1> DEFINE t == Append(watch, p)
<1>1. /\ Len(watch) \in Nat /\ Len(t) = Len(watch) + 1 /\ t # <<>>
      /\ t[Len(watch) + 1] = p /\ \A i \in 1 .. Len(watch) : t[i] = watch[i]
  OBVIOUS
<1>2. (watch = <<>> => Len(watch) = 0) /\ (watch # <<>> => Len(watch) > 0)
  BY EmptySeq
<1> HIDE DEF t, Keeps
<1>3. Keeps(inCache, t[1])
  BY <1>1, <1>2 DEF Chained, Keeping
<1>4. ASSUME NEW i \in 1 .. Len(t) - 1 PROVE Keeps(t[i], t[i + 1])
  <2>1. CASE i < Len(watch)
    BY <1>1, <2>1 DEF Keeping
  <2>2. CASE i = Len(watch)
    <3>1. watch # <<>> /\ watch[Len(watch)] = api
      BY <1>1, <1>2, <2>2 DEF Chained
    <3> QED BY <1>1, <1>2, <2>2, <3>1
  <2> QED BY <1>1, <2>1, <2>2
<1>5. Keeping(inCache, t)
  BY <1>3, <1>4 DEF Keeping
<1> QED BY <1>5 DEF t

LEMMA KeepShrinks ==
  ASSUME NEW watch \in Seq(Host), watch # <<>>, NEW inCache, Keeping(inCache, watch)
  PROVE  Keeps(inCache, Head(watch)) /\ Keeping(Head(watch), Tail(watch))
<1> DEFINE t == Tail(watch)
<1>1. /\ Len(watch) \in Nat /\ Len(watch) > 0 /\ t \in Seq(Host) /\ Len(t) = Len(watch) - 1
      /\ Head(watch) = watch[1] /\ \A i \in 1 .. Len(t) : t[i] = watch[i + 1]
  BY EmptySeq
<1>2. t # <<>> => Len(t) > 0
  BY <1>1, EmptySeq
<1> HIDE DEF t, Keeps
<1>3. Keeps(inCache, Head(watch)) /\ (t # <<>> => Keeps(Head(watch), t[1]))
  BY <1>1, <1>2 DEF Keeping
<1>4. ASSUME NEW i \in 1 .. Len(t) - 1 PROVE Keeps(t[i], t[i + 1])
  BY <1>1 DEF Keeping
<1>5. Keeping(Head(watch), t)
  BY <1>3, <1>4 DEF Keeping
<1> QED BY <1>3, <1>5 DEF t

-----------------------------------------------------------------------------
(***************************************************************************)
(* Watches and notifications.                                              *)
(***************************************************************************)
\* Only an informer, or a restart, takes events off a watch.
LEMMA WatchesGrow ==
  ASSUME Inv, Next
  PROVE  /\ pWatch # <<>> => pWatch' # <<>> \/ HostInformer \/ Crash
         /\ vWatch # <<>> => vWatch' # <<>> \/ VirtualInformer \/ Crash
<1>1. TypeOK /\ Holding /\ pWatch \in Seq(Host) /\ vWatch \in Seq(Virtual)
  BY DEF Inv, TypeOK
<1>2. ASSUME NEW p \in Host, WriteHost(p), pWatch # <<>> PROVE pWatch' # <<>>
  <2>1. Append(pWatch, p) # <<>>
    BY <1>1
  <2> QED BY <1>2, <2>1 DEF WriteHost
<1>3. ASSUME NEW v \in Virtual, WriteVirtual(v), vWatch # <<>> PROVE vWatch' # <<>>
  <2>1. Append(vWatch, v) # <<>>
    BY <1>1
  <2> QED BY <1>3, <2>1 DEF WriteVirtual
<1>4. ASSUME NEW c \in Controllers, Step(c)
      PROVE  (pWatch # <<>> => pWatch' # <<>>) /\ (vWatch # <<>> => vWatch' # <<>>)
  BY <1>1, <1>2, <1>3, <1>4, WorkerWrites DEF host, virtual
<1>5. CASE Outside \/ \E c \in Controllers : DeleteFunc(c) \/ enqueueVirtual(c)
  BY <1>1, <1>2, <1>3, <1>5, OtherWrites DEF host, virtual
<1>6. CASE HostInformer \/ VirtualInformer \/ NameCacheChange \/ \E c \in Controllers : Take(c)
  BY <1>6 DEF HostInformer, VirtualInformer, NameCacheChange, Take, host, virtual
<1> QED BY <1>4, <1>5, <1>6 DEF Next

\* A notification that is added, or taken.
LEMMA Notified ==
  ASSUME Inv, NEW x \in BOOLEAN \X VirtualObjects, vNotif' = Append2All(vNotif, x), NEW c \in Controllers
  PROVE  /\ Told(c) => Told(c)'
         /\ ToldGone(c) => ToldGone(c)'
         /\ ~x[1] /\ x[2].owner = c => Told(c)'
         /\ x[1] /\ x[2].owner = c => ToldGone(c)'
<1>1. vNotif[c] \in Seq(BOOLEAN \X VirtualObjects) /\ vNotif'[c] = Append(vNotif[c], x)
  BY DEF Inv, TypeOK, Append2All
<1>2. /\ \A i \in DOMAIN vNotif[c] : i \in DOMAIN vNotif'[c] /\ vNotif'[c][i] = vNotif[c][i]
      /\ \E i \in DOMAIN vNotif'[c] : vNotif'[c][i] = x
  BY <1>1, InAppended
<1> QED BY <1>2, Zenon DEF Told, ToldGone

LEMMA Handled ==
  ASSUME Inv, NEW d \in Controllers, vNotif[d] # <<>>, vNotif' = [vNotif EXCEPT ![d] = Tail(@)],
         NEW c \in Controllers
  PROVE  /\ Told(c) => Told(c)' \/ (c = d /\ ~Head(vNotif[d])[1] /\ Head(vNotif[d])[2].owner = c)
         /\ ToldGone(c) => ToldGone(c)' \/ (c = d /\ Head(vNotif[d])[1] /\ Head(vNotif[d])[2].owner = c)
<1>1. /\ vNotif[c] \in Seq(BOOLEAN \X VirtualObjects)
      /\ vNotif'[c] = IF c = d THEN Tail(vNotif[c]) ELSE vNotif[c]
  BY DEF Inv, TypeOK
<1>2. CASE c = d
  <2>1. \A i \in DOMAIN vNotif[c] : vNotif[c][i] = Head(vNotif[c]) \/ \E j \in DOMAIN vNotif'[c] : vNotif'[c][j] = vNotif[c][i]
    BY <1>1, <1>2, InTail
  <2>2. ASSUME NEW i \in DOMAIN vNotif[c], ~vNotif[c][i][1], vNotif[c][i][2].owner = c, vNotif[c][i] # Head(vNotif[c])
        PROVE  Told(c)'
    BY <2>1, <2>2 DEF Told
  <2>3. ASSUME NEW i \in DOMAIN vNotif[c], vNotif[c][i][1], vNotif[c][i][2].owner = c, vNotif[c][i] # Head(vNotif[c])
        PROVE  ToldGone(c)'
    BY <2>1, <2>3 DEF ToldGone
  <2>4. Told(c) => Told(c)' \/ (~Head(vNotif[c])[1] /\ Head(vNotif[c])[2].owner = c)
    BY <2>2 DEF Told
  <2>5. ToldGone(c) => ToldGone(c)' \/ (Head(vNotif[c])[1] /\ Head(vNotif[c])[2].owner = c)
    BY <2>3 DEF ToldGone
  <2> QED BY <1>2, <2>4, <2>5
<1>3. CASE c # d
  BY <1>1, <1>3, Zenon DEF Told, ToldGone
<1> QED BY <1>2, <1>3

\* A controller is told of its own object that comes into the cache.
LEMMA Heard ==
  ASSUME Inv, VirtualInformer \/ Resync \/ Crash, NEW c \in Controllers, Owns(c, vCache)'
  PROVE  Told(c)'
<1>1. vWatch \in Seq(Virtual) /\ vCache \in Virtual /\ vApi \in Virtual /\ Chained(vCache, vWatch, vApi)
  BY DEF Inv, TypeOK, WatchesChained
<1>2. ASSUME NEW v \in Virtual, v = vCache', vNotif' = Append2All(vNotif, <<FALSE, v>>) PROVE Told(c)'
  <2>1. <<FALSE, v>> \in BOOLEAN \X VirtualObjects
    BY <1>2 DEF Virtual, Owns
  <2>2. ~<<FALSE, v>>[1] /\ <<FALSE, v>>[2] = v
    OBVIOUS
  <2> QED BY <1>2, <2>1, <2>2, Notified DEF Owns
<1>3. CASE VirtualInformer
  <2>1. vWatch # <<>> /\ vCache' = Head(vWatch)
    BY <1>3 DEF VirtualInformer
  <2>2. Head(vWatch) \in Virtual
    BY <1>1, <2>1, ChainShrinks
  <2>3. vNotif' = Append2All(vNotif, <<FALSE, Head(vWatch)>>)
    BY <1>3, <2>1 DEF VirtualInformer, Owns
  <2> QED BY <1>2, <2>1, <2>2, <2>3
<1>4. CASE Resync
  <2>1. vCache' = vCache /\ vNotif' = Append2All(vNotif, <<FALSE, vCache>>)
    BY <1>4 DEF Resync, Owns
  <2> QED BY <1>1, <1>2, <2>1
<1>5. CASE Crash
  <2>1. \A x : 1 \in DOMAIN <<x>> /\ <<x>>[1] = x
    OBVIOUS
  <2>2. vCache' = vApi /\ vNotif'[c] = << <<FALSE, vApi>> >>
    BY <1>5 DEF Crash, Owns
  <2>3. 1 \in DOMAIN vNotif'[c] /\ vNotif'[c][1] = <<FALSE, vApi>>
    BY <2>1, <2>2
  <2>4. ~vNotif'[c][1][1] /\ vNotif'[c][1][2].owner = c
    BY <2>2, <2>3 DEF Owns
  <2> QED BY <2>3, <2>4 DEF Told
<1> QED BY <1>3, <1>4, <1>5

\* Everything else that has to do with c's object leaves something on its way.
LEMMA CopiedBefore ==
  ASSUME Inv, Inv', Next, ~HostInformer, NEW c \in Controllers, c \notin pending', Copied(c)'
  PROVE  Copied(c)
<1>1. ~VirtualInformer /\ ~Resync /\ ~Crash
  BY Heard DEF Copied
<1>2. ~\E d \in Controllers : HandlerFails(d)
  BY DEF HandlerFails, Copied
<1>3. vCache' = vCache /\ excused \subseteq excused'
  BY <1>1, <1>2 DEF Next, Outside, HostInformer, NameCacheChange, Take, Step, ReadHost, ReadVirtual, DeleteVirtual,
     ReversePatch, ApplyPatches, RecordMappings, DeletePhysical, Annotate, CreateVirtual, RemoveAnnotations, outside,
     HostCreate, HostUpdate, HostDelete, UserCreate, UserUpdate, UserDelete, ParentChange, CallFails, DeleteFunc,
     enqueueVirtual, inside, history
<1>4. vWatch = <<>>
  BY <1>1, WatchesGrow DEF Copied
<1>5. CASE vNotif' = vNotif
  BY <1>3, <1>4, <1>5 DEF Copied, Owns, Told
<1>6. ASSUME NEW d \in Controllers, enqueueVirtual(d) PROVE Copied(c)
  <2>1. vNotif[d] # <<>> /\ vNotif' = [vNotif EXCEPT ![d] = Tail(@)]
    BY <1>6 DEF enqueueVirtual
  <2>2. ASSUME d = c, ~Head(vNotif[c])[1], Head(vNotif[c])[2].owner = c PROVE FALSE
    <3>1. WriteVirtual(Absent)
      BY <1>6, <2>2 DEF enqueueVirtual, isExcluded
    <3>2. vApi' = Absent /\ vCache' # Absent /\ vWatch' = <<>>
      BY <3>1 DEF WriteVirtual, Copied, Owns
    <3> QED BY <3>2 DEF Inv, WatchesChained, Chained
  <2>3. ~Told(c)
    BY <2>1, <2>2, Handled DEF Copied
  <2> QED BY <1>3, <1>4, <2>3 DEF Copied, Owns
<1>7. vNotif' = vNotif \/ \E d \in Controllers : enqueueVirtual(d)
  BY <1>1, <1>2, Zenon DEF Next, Outside, HostInformer, NameCacheChange, Take, Step, ReadHost, ReadVirtual, DeleteVirtual,
     ReversePatch, ApplyPatches, RecordMappings, DeletePhysical, Annotate, CreateVirtual, RemoveAnnotations, outside,
     HostCreate, HostUpdate, HostDelete, UserCreate, UserUpdate, UserDelete, ParentChange, CallFails, DeleteFunc,
     inside, handlers
<1> QED BY <1>5, <1>6, <1>7

-----------------------------------------------------------------------------
(***************************************************************************)
(* Virtual objects whose host object is gone.                              *)
(***************************************************************************)
\* No step takes the annotations off a host object that stays.
LEMMA HostWritesKeep ==
  ASSUME Inv, Undisturbed, AnnotationsStay, Next
  PROVE  UNCHANGED host \/ HostInformer \/ Crash \/ \E p \in Host : WriteHost(p) /\ Keeps(pApi, p)
<1>1. /\ TypeOK /\ Holding /\ (pApi # Absent => pApi \in HostObjects)
      /\ \A c \in Controllers : pc[c].at # "unannotate"
  BY DEF Inv, TypeOK, Host, AnnotationsStay
<1>2. Absent \in Host /\ Keeps(pApi, Absent)
  BY DEF Host, Keeps
<1>3. ASSUME NEW c \in Controllers, Step(c)
      PROVE  UNCHANGED host \/ \E p \in Host : WriteHost(p) /\ Keeps(pApi, p)
  <2>1. UNCHANGED host \/ \E p \in Host : WriteHost(p)
    BY <1>1, <1>3, WorkerWrites
  <2>2. CASE ReadHost(c) \/ ReadVirtual(c) \/ DeleteVirtual(c) \/ ApplyPatches(c) \/ CreateVirtual(c)
    BY <2>2 DEF ReadHost, ReadVirtual, DeleteVirtual, ApplyPatches, CreateVirtual
  <2>3. CASE DeletePhysical(c)
    BY <1>2, <2>3 DEF DeletePhysical
  <2>4. CASE ReversePatch(c)
    <3> DEFINE q == [pc[c].p EXCEPT !.back = pc[c].v.back]
    <3>1. CASE UNCHANGED host
      BY <3>1
    <3>2. CASE ~(UNCHANGED host)
      <4>1. pApi = pc[c].p /\ WriteHost(q) /\ pc[c].p # Absent
        BY <1>1, <2>4, <3>2 DEF ReversePatch, Holding, At
      <4>2. q.ann = pApi.ann
        BY <1>1, <4>1 DEF HostObjects
      <4>3. \E p \in Host : WriteHost(p) /\ p = q
        BY <2>1, <3>2, <4>1 DEF WriteHost
      <4> HIDE DEF q
      <4> QED BY <4>2, <4>3 DEF Keeps, containsBackSyncNameAnnotations
    <3> QED BY <3>1, <3>2
  <2>5. ASSUME NEW q, WriteHost(q), pApi.ann => q.ann PROVE \E p \in Host : WriteHost(p) /\ Keeps(pApi, p)
    <3>1. q \in Host \/ UNCHANGED host
      BY <2>1, <2>5 DEF WriteHost
    <3>2. pApi' = q /\ pApi \in Host
      BY <2>5 DEF WriteHost, Inv, TypeOK
    <3> QED BY <2>5, <3>1, <3>2 DEF Keeps, host, containsBackSyncNameAnnotations
  <2>6. CASE RecordMappings(c) \/ Annotate(c)
    <3>1. pApi # Absent => (pApi.ann => Recorded(pc[c].p).ann) /\ Annotated(pc[c].p).ann
      BY <1>1 DEF HostObjects, Recorded, Annotated
    <3> QED BY <2>5, <2>6, <3>1 DEF RecordMappings, Annotate
  <2>7. ~RemoveAnnotations(c)
    BY <1>1 DEF RemoveAnnotations, At
  <2> QED BY <1>3, <2>2, <2>3, <2>4, <2>6, <2>7 DEF Step
<1>4. CASE (HostCreate \/ HostUpdate \/ HostDelete) /\ ~Crash
  <2>1. \E p \in Host : WriteHost(p)
    <3>1. Outside /\ ~Crash
      BY <1>4 DEF Outside
    <3>2. UNCHANGED host \/ \E p \in Host : WriteHost(p)
      BY <1>1, <3>1, OtherWrites
    <3>3. CASE UNCHANGED host
      <4>1. WriteHost(pApi)
        BY <3>3 DEF WriteHost, host
      <4> QED BY <1>1, <4>1 DEF TypeOK
    <3> QED BY <3>2, <3>3
  <2>2. WriteHost(pApi')
    BY <2>1 DEF WriteHost
  <2>3. pApi' \in Host
    BY <2>1 DEF WriteHost
  <2>4. Keeps(pApi, pApi')
    <3>1. CASE HostCreate
      BY <3>1 DEF HostCreate, Keeps, containsBackSyncNameAnnotations
    <3>2. CASE HostUpdate
      <4>1. PICK d \in Data : pApi' = [pApi EXCEPT !.data = d]
        BY <3>2 DEF HostUpdate, WriteHost
      <4>2. pApi'.ann = pApi.ann
        BY <1>1, <3>2, <4>1 DEF HostUpdate, HostObjects
      <4> QED BY <4>2 DEF Keeps, containsBackSyncNameAnnotations
    <3>3. CASE HostDelete
      BY <3>3 DEF HostDelete, WriteHost, Keeps
    <3> QED BY <1>4, <3>1, <3>2, <3>3
  <2> QED BY <2>2, <2>3, <2>4
<1>5. CASE \/ UserCreate \/ UserUpdate \/ UserDelete \/ ParentChange \/ Resync \/ VirtualInformer \/ NameCacheChange
           \/ \E c \in Controllers : CallFails(c) \/ HandlerFails(c) \/ Take(c) \/ DeleteFunc(c) \/ enqueueVirtual(c)
  BY <1>5 DEF UserCreate, UserUpdate, UserDelete, ParentChange, Resync, VirtualInformer, NameCacheChange, CallFails,
     HandlerFails, Take, DeleteFunc, enqueueVirtual
<1> QED BY <1>3, <1>4, <1>5, Zenon DEF Next, Outside

LEMMA AnnotationsNext ==
  ASSUME Inv, Undisturbed, AnnotationsStay, Next
  PROVE  AnnotationsStay'
<1>1. pWatch \in Seq(Host) /\ Chained(pCache, pWatch, pApi) /\ Keeping(pCache, pWatch)
  BY DEF Inv, TypeOK, WatchesChained, AnnotationsStay
<1>2. Keeping(pCache, pWatch)'
  <2>1. CASE HostInformer
    BY <1>1, <2>1, KeepShrinks DEF HostInformer
  <2>2. CASE Crash
    <3>1. pWatch' = <<>> /\ Len(<<>>) = 0
      BY <2>2 DEF Crash
    <3> QED BY <3>1 DEF Keeping
  <2>3. CASE ~HostInformer /\ ~Crash
    <3>1. pCache' = pCache
      BY <2>3 DEF Next, Outside, VirtualInformer, NameCacheChange, Take, Step, ReadHost, ReadVirtual, DeleteVirtual,
         ReversePatch, ApplyPatches, RecordMappings, DeletePhysical, Annotate, CreateVirtual, RemoveAnnotations,
         outside, HostCreate, HostUpdate, HostDelete, UserCreate, UserUpdate, UserDelete, ParentChange, Resync,
         CallFails, HandlerFails, DeleteFunc, enqueueVirtual, inside
    <3>2. CASE UNCHANGED host
      BY <1>1, <3>1, <3>2 DEF host, Keeping
    <3>3. ASSUME NEW p \in Host, WriteHost(p), Keeps(pApi, p) PROVE Keeping(pCache, pWatch)'
      <4>1. Keeping(pCache, Append(pWatch, p))
        BY <1>1, <3>3, KeepGrows
      <4>2. pWatch' = pWatch \/ pWatch' = Append(pWatch, p)
        BY <3>3 DEF WriteHost
      <4> QED BY <1>1, <3>1, <4>1, <4>2
    <3> QED BY <2>3, <3>2, <3>3, HostWritesKeep
  <2> QED BY <2>1, <2>2, <2>3
<1>3. ASSUME NEW c \in Controllers PROVE pc'[c].at # "unannotate"
  <2>1. pc[c].at # "unannotate" /\ pc \in [Controllers -> Records]
    BY DEF AnnotationsStay, Inv, TypeOK, Records
  <2>2. CASE pc' = pc
    BY <2>1, <2>2
  <2>3. CASE Crash
    BY <2>3 DEF Crash, Idle
  <2>4. ASSUME NEW d \in Controllers, Take(d) \/ Step(d) PROVE pc'[c].at # "unannotate"
    <3>1. TranslateName(FALSE)
      BY DEF TranslateName, Undisturbed
    <3>2. \/ Return(d)
          \/ pc' = [pc EXCEPT ![d].at = "host"]
          \/ \E place \in Places \ {"unannotate"} : Goto(d, place) \/ \E p : GotoWith(d, place, p)
          \/ \E v : pc' = [pc EXCEPT ![d].at = IF pc[d].p = Absent THEN "delete_v" ELSE "reverse", ![d].v = v]
      <4>1. CASE Take(d)
        BY <4>1 DEF Take
      <4>2. CASE ReadHost(d)
        BY <4>2 DEF ReadHost, ReturnOk, Places
      <4>3. CASE ReadVirtual(d)
        BY <4>3 DEF ReadVirtual, ReturnOk, Places
      <4>4. CASE DeleteVirtual(d) \/ DeletePhysical(d) \/ RecordMappings(d) \/ RemoveAnnotations(d)
        BY <4>4 DEF DeleteVirtual, DeletePhysical, RecordMappings, RemoveAnnotations, ReturnOk, ReturnError
      <4>5. CASE ReversePatch(d) \/ ApplyPatches(d) \/ CreateVirtual(d)
        BY <3>1, <4>5 DEF ReversePatch, ApplyPatches, CreateVirtual, ReturnOk, ReturnError, Places
      <4>6. CASE Annotate(d)
        BY <4>6 DEF Annotate, ReturnError, Places
      <4> QED BY <2>4, <4>1, <4>2, <4>3, <4>4, <4>5, <4>6 DEF Step
    <3>3. CASE c # d
      BY <2>1, <3>2, <3>3 DEF Return, Goto, GotoWith
    <3>4. CASE c = d
      <4>1. pc[c] \in Records
        BY <2>1
      <4>2. CASE Return(d)
        BY <2>1, <3>4, <4>2 DEF Return, Idle
      <4>3. ASSUME NEW place \in Places \ {"unannotate"}, Goto(d, place) \/ \E p : GotoWith(d, place, p)
            PROVE  pc'[c].at # "unannotate"
        BY <2>1, <3>4, <4>1, <4>3 DEF Goto, GotoWith, Records
      <4>4. CASE pc' = [pc EXCEPT ![d].at = "host"]
        BY <2>1, <3>4, <4>1, <4>4 DEF Records
      <4>5. ASSUME NEW v, pc' = [pc EXCEPT ![d].at = IF pc[d].p = Absent THEN "delete_v" ELSE "reverse", ![d].v = v]
            PROVE  pc'[c].at # "unannotate"
        BY <2>1, <3>4, <4>1, <4>5 DEF Records
      <4> QED BY <3>2, <4>2, <4>3, <4>4, <4>5
    <3> QED BY <3>3, <3>4
  <2>5. ~\E d \in Controllers : CallFails(d)
    BY DEF CallFails, Move, Undisturbed
  <2>6. pc' = pc \/ Crash \/ \E d \in Controllers : Take(d) \/ Step(d)
    BY <2>5, Zenon DEF Next, Outside, HostInformer, VirtualInformer, NameCacheChange, DeleteFunc, enqueueVirtual, HostCreate,
       HostUpdate, HostDelete, UserCreate, UserUpdate, UserDelete, ParentChange, Resync, HandlerFails, inside
  <2> QED BY <2>2, <2>3, <2>4, <2>6
<1> QED BY <1>2, <1>3 DEF AnnotationsStay

\* Steps that touch neither the caches nor the handlers' events.
LEMMA RememberedStays ==
  ASSUME NEW c \in Controllers, HostRemembered(c), UNCHANGED <<pCache, vCache, vNotif, pDeleted>>,
         vWatch # <<>> => vWatch' # <<>>, "handler_error" \in excused => "handler_error" \in excused'
  PROVE  HostRemembered(c)'
  BY Zenon DEF HostRemembered, Told, Owns, containsBackSyncNameAnnotations

LEMMA RememberedNext ==
  ASSUME Inv, Inv', Undisturbed, AnnotationsStay, NEW c \in Controllers, HostRemembered(c), Next
  PROVE  HostRemembered(c)'
<1>1. /\ pWatch \in Seq(Host) /\ vWatch \in Seq(Virtual) /\ vNotif[c] \in Seq(BOOLEAN \X VirtualObjects)
      /\ pDeleted \in [Controllers -> Seq(HostObjects)] /\ pDeleted[c] \in Seq(HostObjects)
      /\ vCache \in Virtual /\ vApi \in Virtual /\ pCache \in Host
      /\ Chained(vCache, vWatch, vApi) /\ Chained(vCache, vWatch, vApi)' /\ Chained(pCache, pWatch, pApi)
  BY DEF Inv, TypeOK, WatchesChained
<1>2. ASSUME vCache # Absent, vCache' = vCache, vApi' = Absent PROVE vWatch' # <<>>
  BY <1>1, <1>2 DEF Chained
<1>3. CASE HostInformer
  <2>1. /\ pWatch # <<>> /\ pCache' = Head(pWatch)
        /\ pDeleted' = IF Head(pWatch) = Absent THEN Append2All(pDeleted, pCache) ELSE pDeleted
        /\ UNCHANGED <<vCache, vWatch, vNotif, excused>>
    BY <1>3 DEF HostInformer, virtual, history
  <2>2. Keeps(pCache, Head(pWatch))
    BY <1>1, <2>1, KeepShrinks DEF AnnotationsStay
  <2>3. CASE Head(pWatch) # Absent
    <3>1. containsBackSyncNameAnnotations(pCache) => containsBackSyncNameAnnotations(pCache)'
      BY <2>1, <2>2, <2>3 DEF Keeps, containsBackSyncNameAnnotations
    <3>2. pDeleted' = pDeleted
      BY <2>1, <2>3
    <3> QED BY <2>1, <3>1, <3>2, Zenon DEF HostRemembered, Told, Owns
  <2>4. CASE Head(pWatch) = Absent
    <3>1. pDeleted'[c] = Append(pDeleted[c], pCache)
      BY <2>1, <2>4 DEF Append2All
    <3>2. pCache \in HostObjects
      <4>1. pCache # Absent
        BY <1>1, <2>1, <2>4, ChainShrinks
      <4> QED BY <1>1, <4>1 DEF Host
    <3>3. /\ \A i \in DOMAIN pDeleted[c] : i \in DOMAIN pDeleted'[c] /\ pDeleted'[c][i] = pDeleted[c][i]
          /\ \E i \in DOMAIN pDeleted'[c] : pDeleted'[c][i] = pCache
      <4> DEFINE t == Append(pDeleted[c], pCache)
      <4>1. /\ \A i \in DOMAIN pDeleted[c] : i \in DOMAIN t /\ t[i] = pDeleted[c][i]
            /\ \E i \in DOMAIN t : t[i] = pCache
        <5>1. pDeleted[c] \in Seq(HostObjects) /\ pCache \in HostObjects
          BY <1>1, <3>2
        <5> HIDE DEF HostObjects
        <5> QED BY <5>1, InAppended
      <4> HIDE DEF t
      <4> QED BY <3>1, <4>1, Zenon DEF t
    <3>4. containsBackSyncNameAnnotations(pCache) => pCache.ann
      BY DEF containsBackSyncNameAnnotations
    <3> QED BY <2>1, <3>3, <3>4, Zenon DEF HostRemembered, Told, Owns
  <2> QED BY <2>3, <2>4
<1>4. CASE VirtualInformer
  BY <1>4, Heard DEF HostRemembered
<1>5. ASSUME NEW d \in Controllers, DeleteFunc(d) PROVE HostRemembered(c)'
  <2>1. /\ pDeleted[d] # <<>> /\ pDeleted' = [pDeleted EXCEPT ![d] = Tail(@)]
        /\ UNCHANGED <<pCache, vCache, vNotif, excused>>
    BY <1>5 DEF DeleteFunc, history
  <2>2. vWatch # <<>> => vWatch' # <<>>
    <3>1. ASSUME WriteVirtual(Absent) PROVE vWatch # <<>> => vWatch' # <<>>
      <4>1. Append(vWatch, Absent) # <<>>
        <5>1. vWatch \in Seq(Virtual) /\ Absent \in Virtual
          BY <1>1 DEF Virtual
        <5> QED BY <5>1, AppendedIsSome
      <4> QED BY <3>1, <4>1 DEF WriteVirtual
    <3> QED BY <1>5, <3>1 DEF DeleteFunc, virtual
  <2>3. CASE d # c
    <3>1. pDeleted'[c] = pDeleted[c]
      BY <1>1, <2>1, <2>3
    <3> QED BY <2>1, <2>2, <3>1, Zenon DEF HostRemembered, Told, Owns, containsBackSyncNameAnnotations
  <2>4. CASE d = c
    <3>1. pDeleted'[c] = Tail(pDeleted[c])
      BY <1>1, <2>1, <2>4
    <3>2. \A i \in DOMAIN pDeleted[c] : pDeleted[c][i] = Head(pDeleted[c]) \/ \E j \in DOMAIN pDeleted'[c] : pDeleted'[c][j] = pDeleted[c][i]
      BY <1>1, <2>1, <2>4, <3>1, InTail
    <3>3. Head(pDeleted[c]).ann /\ Owns(c, vCache) => vWatch' # <<>>
      <4> SUFFICES ASSUME Head(pDeleted[c]).ann, Owns(c, vCache) PROVE vWatch' # <<>>
        OBVIOUS
      <4>1. Head(pDeleted[c]) # Absent
        <5>1. Head(pDeleted[c]) \in HostObjects
          BY <1>1, <2>1, <2>4
        <5> QED BY <5>1, AbsentAssumption
      <4>2. WriteVirtual(Absent)
        BY <1>5, <2>4, <4>1 DEF DeleteFunc, PhysicalToVirtual, containsBackSyncNameAnnotations, isExcluded, Owns
      <4> QED BY <1>2, <2>1, <4>2 DEF WriteVirtual, Owns
    <3> QED BY <2>1, <2>2, <3>2, <3>3, Zenon DEF HostRemembered, Told, Owns, containsBackSyncNameAnnotations
  <2> QED BY <2>3, <2>4
<1>6. ASSUME NEW d \in Controllers, enqueueVirtual(d) PROVE HostRemembered(c)'
  <2>1. /\ vNotif[d] # <<>> /\ vNotif' = [vNotif EXCEPT ![d] = Tail(@)]
        /\ UNCHANGED <<pCache, vCache, pDeleted, excused>>
    BY <1>6 DEF enqueueVirtual, history
  <2>2. vWatch # <<>> => vWatch' # <<>>
    <3>1. ASSUME WriteVirtual(Absent) PROVE vWatch # <<>> => vWatch' # <<>>
      <4>1. Append(vWatch, Absent) # <<>>
        <5>1. vWatch \in Seq(Virtual) /\ Absent \in Virtual
          BY <1>1 DEF Virtual
        <5> QED BY <5>1, AppendedIsSome
      <4> QED BY <3>1, <4>1 DEF WriteVirtual
    <3> QED BY <1>6, <3>1 DEF enqueueVirtual, virtual
  <2>3. Told(c) => Told(c)' \/ (c = d /\ ~Head(vNotif[d])[1] /\ Head(vNotif[d])[2].owner = c)
    BY <2>1, Handled
  <2>4. ASSUME c = d, ~Head(vNotif[d])[1], Head(vNotif[d])[2].owner = c, Owns(c, vCache)
        PROVE  containsBackSyncNameAnnotations(pCache) \/ vWatch' # <<>>
    <3>1. containsBackSyncNameAnnotations(pCache) \/ WriteVirtual(Absent)
      BY <1>6, <2>4 DEF enqueueVirtual, isExcluded
    <3> QED BY <1>2, <2>1, <2>4, <3>1 DEF WriteVirtual, Owns
  <2> QED BY <2>1, <2>2, <2>3, <2>4, Zenon DEF HostRemembered, Owns, containsBackSyncNameAnnotations
<1>7. CASE Resync
  BY <1>7, Heard DEF HostRemembered
<1>8. CASE Crash
  BY <1>8, Heard DEF HostRemembered
<1>9. ASSUME NEW d \in Controllers, HandlerFails(d) PROVE HostRemembered(c)'
  BY <1>9 DEF HandlerFails, HostRemembered
<1>10. CASE \/ NameCacheChange \/ HostCreate \/ HostUpdate \/ HostDelete \/ UserCreate \/ UserUpdate \/ UserDelete
            \/ ParentChange \/ \E d \in Controllers : Take(d) \/ Step(d)
  <2>1. UNCHANGED <<pCache, vCache, vNotif, pDeleted>>
    BY <1>10 DEF NameCacheChange, Take, Step, ReadHost, ReadVirtual, DeleteVirtual,
       ReversePatch, ApplyPatches, RecordMappings, DeletePhysical, Annotate, CreateVirtual, RemoveAnnotations,
       outside, HostCreate, HostUpdate, HostDelete, UserCreate, UserUpdate, UserDelete, ParentChange, inside, handlers
  <2>2. "handler_error" \in excused => "handler_error" \in excused'
    BY <1>10 DEF NameCacheChange, Take, Step, ReadHost, ReadVirtual, DeleteVirtual,
       ReversePatch, ApplyPatches, RecordMappings, DeletePhysical, Annotate, CreateVirtual, RemoveAnnotations,
       outside, HostCreate, HostUpdate, HostDelete, UserCreate, UserUpdate, UserDelete, ParentChange, history
  <2>3. CASE ~Crash /\ ~VirtualInformer
    BY <2>1, <2>2, <2>3, RememberedStays, WatchesGrow
  <2> QED BY <1>4, <1>8, <2>3
<1>11. ~\E d \in Controllers : CallFails(d)
  BY DEF CallFails, Move, Undisturbed
<1> QED BY <1>3, <1>4, <1>5, <1>6, <1>7, <1>8, <1>9, <1>10, <1>11, Zenon DEF Next, Outside

LEMMA OrphanInvariance == ASSUME Undisturbed PROVE Spec => []OrphanInv
<1>1. Init => OrphanInv
  <2> SUFFICES ASSUME Init PROVE OrphanInv
    OBVIOUS
  <2>1. Keeping(pCache, pWatch)
    BY DEF Init, Keeping
  <2>2. \A c \in Controllers : pc[c].at # "unannotate"
    BY DEF Init, Idle
  <2> QED BY <2>1, <2>2 DEF Init, OrphanInv, AnnotationsStay, HostRemembered, Owns
<1>2. Inv /\ Inv' /\ OrphanInv /\ [Next]_vars => OrphanInv'
  <2>1. ASSUME Inv, Inv', OrphanInv, Next PROVE OrphanInv'
    BY <2>1, AnnotationsNext, RememberedNext DEF OrphanInv
  <2>2. ASSUME OrphanInv, UNCHANGED vars PROVE OrphanInv'
    BY <2>2, Zenon DEF OrphanInv, AnnotationsStay, Keeping, Keeps, HostRemembered, Owns, Told,
       containsBackSyncNameAnnotations, vars
  <2> QED BY <2>1, <2>2
<1> QED BY <1>1, <1>2, Invariance, PTL DEF Spec

\* When the system is at rest, the caches and the API servers say the same.
LEMMA AtRest ==
  ASSUME Inv, Quiet
  PROVE  pCache = pApi /\ vCache = vApi /\ \A c \in Controllers : ~Told(c) /\ ~ToldGone(c) /\ pc[c].at = "idle"
<1>1. pCache = pApi /\ vCache = vApi
  BY DEF Inv, WatchesChained, Chained, Quiet
<1>2. ASSUME NEW c \in Controllers PROVE ~Told(c) /\ ~ToldGone(c) /\ pc[c].at = "idle"
  <2>1. vNotif[c] = <<>> /\ pc[c] = Idle
    BY DEF Quiet
  <2>2. DOMAIN vNotif[c] = {}
    BY <2>1
  <2> QED BY <2>1, <2>2 DEF Told, ToldGone, Idle
<1> QED BY <1>1, <1>2

LEMMA OrphansAtRest ==
  ASSUME Inv, OrphanInv, Quiet, Owned, "handler_error" \notin excused
  PROVE  pApi # Absent /\ pApi.ann
<1>1. vApi.owner \in Controllers /\ vApi # Absent
  BY DEF Owned, Inv, TypeOK, Virtual, VirtualObjects
<1>2. PICK c \in Controllers : vApi.owner = c
  BY <1>1
<1>3. vWatch = <<>> /\ ~Told(c) /\ vCache = vApi /\ pCache = pApi
  BY AtRest DEF Quiet
<1>4. DOMAIN pDeleted[c] = {}
  <2>1. pDeleted[c] = <<>>
    BY DEF Quiet
  <2> QED BY <2>1
<1> QED BY <1>1, <1>2, <1>3, <1>4 DEF OrphanInv, HostRemembered, Owns, containsBackSyncNameAnnotations

\* For any number of controllers of a kind and any outside events, restarts and
\* failed handlers included, but failed calls: a virtual object of theirs does
\* not outlive its host object, unless a handler's deletion failed.
THEOREM OrphansAreDeleted ==
  ASSUME Undisturbed PROVE Spec => [](Quiet => CopyHasHost)
<1>1. Inv /\ OrphanInv => (Quiet => CopyHasHost)
  BY OrphansAtRest DEF CopyHasHost
<1> QED BY <1>1, Invariance, OrphanInvariance, PTL

-----------------------------------------------------------------------------
(***************************************************************************)
(* Virtual objects of the user's.                                          *)
(***************************************************************************)
Users(v) == v # Absent /\ v.owner = User

LEMMA NameIsTaken ==
  NameTaken <=> Users(vApi) \/ Users(vCache) \/ \E i \in DOMAIN vWatch : Users(vWatch[i])
  BY DEF NameTaken, Users

\* Only the user creates an object of the user's.
LEMMA VirtualWrites ==
  ASSUME Inv, Next
  PROVE  UNCHANGED virtual \/ VirtualInformer \/ Crash \/ UserCreate
         \/ \E v \in Virtual : WriteVirtual(v) /\ (Users(v) => Users(vApi))
<1>1. TypeOK /\ Holding /\ (vApi # Absent => vApi \in VirtualObjects)
  BY DEF Inv, TypeOK, Virtual
<1>2. Absent \in Virtual /\ ~Users(Absent)
  BY DEF Virtual, Users
<1>3. ASSUME NEW c \in Controllers, Step(c)
      PROVE  UNCHANGED virtual \/ \E v \in Virtual : WriteVirtual(v) /\ (Users(v) => Users(vApi))
  <2>1. UNCHANGED virtual \/ \E v \in Virtual : WriteVirtual(v)
    BY <1>1, <1>3, WorkerWrites
  <2>2. ~Users(Applied(c, pc[c].p))
    BY ValuesAssumption DEF Users, Applied
  <2>3. UNCHANGED virtual \/ WriteVirtual(Absent) \/ WriteVirtual(Applied(c, pc[c].p))
    BY <1>3 DEF Step, ReadHost, ReadVirtual, DeleteVirtual, ReversePatch, ApplyPatches, RecordMappings,
       DeletePhysical, Annotate, CreateVirtual, RemoveAnnotations
  <2>4. CASE WriteVirtual(Applied(c, pc[c].p)) /\ ~(UNCHANGED virtual)
    <3> HIDE DEF Applied
    <3>1. Applied(c, pc[c].p) \in Virtual
      BY <2>1, <2>4 DEF WriteVirtual
    <3> QED BY <2>2, <2>4, <3>1
  <2> QED BY <1>2, <2>3, <2>4
<1>4. CASE UserUpdate
  <2>1. PICK d \in Data, b \in BackData : WriteVirtual([vApi EXCEPT !.data = d, !.back = b])
    BY <1>4 DEF UserUpdate
  <2> DEFINE v == [vApi EXCEPT !.data = d, !.back = b]
  <2>2. vApi # Absent
    BY <1>4 DEF UserUpdate
  <2>3. v \in VirtualObjects /\ v.owner = vApi.owner
    BY <1>1, <2>1, <2>2 DEF VirtualObjects
  <2> HIDE DEF v
  <2>4. WriteVirtual(v)
    BY <2>1 DEF v
  <2> QED BY <2>2, <2>3, <2>4 DEF Virtual, Users
<1>5. CASE UserDelete \/ \E c \in Controllers : DeleteFunc(c) \/ enqueueVirtual(c)
  BY <1>2, <1>5 DEF UserDelete, DeleteFunc, enqueueVirtual
<1>6. CASE \/ HostInformer \/ NameCacheChange \/ HostCreate \/ HostUpdate \/ HostDelete \/ ParentChange \/ Resync
           \/ \E c \in Controllers : CallFails(c) \/ HandlerFails(c) \/ Take(c)
  BY <1>6 DEF HostInformer, NameCacheChange, HostCreate, HostUpdate, HostDelete, ParentChange, Resync, CallFails,
     HandlerFails, Take
<1> QED BY <1>3, <1>4, <1>5, <1>6, Zenon DEF Next, Outside

LEMMA UsersNext == ASSUME Inv, UsersExcused, Next PROVE UsersExcused'
<1>1. vWatch \in Seq(Virtual) /\ vApi \in Virtual
  BY DEF Inv, TypeOK
<1>2. NameTaken' <=> Users(vApi') \/ Users(vCache') \/ \E i \in DOMAIN vWatch' : Users(vWatch'[i])
  BY DEF NameTaken, Users
<1>3. NameTaken <=> Users(vApi) \/ Users(vCache) \/ \E i \in DOMAIN vWatch : Users(vWatch[i])
  BY NameIsTaken
<1>4. NameTaken' => NameTaken \/ UserCreate
  <2>1. CASE VirtualInformer
    <3>1. vWatch # <<>> /\ vCache' = Head(vWatch) /\ vWatch' = Tail(vWatch) /\ vApi' = vApi
      BY <2>1 DEF VirtualInformer
    <3>2. /\ \A j \in DOMAIN Tail(vWatch) : \E i \in DOMAIN vWatch : vWatch[i] = Tail(vWatch)[j]
          /\ 1 \in DOMAIN vWatch /\ vWatch[1] = Head(vWatch)
      BY <1>1, <3>1, InTail
    <3> QED BY <1>2, <1>3, <3>1, <3>2, Zenon
  <2>2. CASE Crash
    <3>1. vCache' = vApi /\ vApi' = vApi /\ vWatch' = <<>>
      BY <2>2 DEF Crash
    <3>2. DOMAIN vWatch' = {}
      BY <3>1
    <3> QED BY <1>2, <1>3, <3>1, <3>2
  <2>3. CASE ~VirtualInformer /\ ~Crash
    <3>1. vCache' = vCache
      BY <2>3 DEF Next, Outside, HostInformer, NameCacheChange, Take, Step, ReadHost, ReadVirtual, DeleteVirtual,
         ReversePatch, ApplyPatches, RecordMappings, DeletePhysical, Annotate, CreateVirtual, RemoveAnnotations,
         outside, HostCreate, HostUpdate, HostDelete, UserCreate, UserUpdate, UserDelete, ParentChange, Resync,
         CallFails, HandlerFails, DeleteFunc, enqueueVirtual, inside
    <3>2. CASE UNCHANGED virtual
      BY <1>2, <1>3, <3>1, <3>2 DEF virtual
    <3>3. ASSUME NEW v \in Virtual, WriteVirtual(v), Users(v) => Users(vApi) PROVE NameTaken' => NameTaken
      <4>1. \A i \in DOMAIN Append(vWatch, v) : Append(vWatch, v)[i] = v \/ (i \in DOMAIN vWatch /\ Append(vWatch, v)[i] = vWatch[i])
        BY <1>1, InAppended
      <4>2. vApi' = v /\ (vWatch' = vWatch \/ vWatch' = Append(vWatch, v))
        BY <3>3 DEF WriteVirtual
      <4>3. \A i \in DOMAIN vWatch' : vWatch'[i] = v \/ (i \in DOMAIN vWatch /\ vWatch'[i] = vWatch[i])
        BY <4>1, <4>2, Zenon
      <4> QED BY <1>2, <1>3, <3>1, <3>3, <4>2, <4>3, Zenon
    <3> QED BY <2>3, <3>2, <3>3, VirtualWrites
  <2> QED BY <2>1, <2>2, <2>3
<1>5. NameTaken /\ "name_taken" \in excused => "name_taken" \in excused'
  BY DEF Next, Outside, HostInformer, VirtualInformer, NameCacheChange, Take, Step, ReadHost, ReadVirtual, DeleteVirtual,
     ReversePatch, ApplyPatches, RecordMappings, DeletePhysical, Annotate, CreateVirtual, RemoveAnnotations,
     outside, HostCreate, HostUpdate, HostDelete, UserCreate, UserUpdate, UserDelete, ParentChange, Resync, Crash,
     CallFails, HandlerFails, DeleteFunc, enqueueVirtual, MadeUpFor, history
<1>6. UserCreate => "name_taken" \in excused'
  BY DEF UserCreate
<1> QED BY <1>4, <1>5, <1>6 DEF UsersExcused

-----------------------------------------------------------------------------
(***************************************************************************)
(* Host and virtual object are compared until they agree.                  *)
(***************************************************************************)
\* Where a step leaves the worker.
LEMMA Moved ==
  ASSUME Inv, NEW c \in Controllers
  PROVE  /\ Return(c) => pc'[c].at = "idle"
         /\ \A place : Goto(c, place) => pc'[c].at = place /\ pc'[c].p = pc[c].p /\ pc'[c].v = pc[c].v
         /\ \A place, p : GotoWith(c, place, p) => pc'[c].at = place /\ pc'[c].p = p
<1>1. pc \in [Controllers -> Records] /\ pc[c] \in Records
  BY DEF Inv, TypeOK, Records
<1>2. Return(c) => pc'[c].at = "idle"
  BY <1>1 DEF Return, Idle
<1>3. \A place : Goto(c, place) => pc'[c].at = place /\ pc'[c].p = pc[c].p /\ pc'[c].v = pc[c].v
  BY <1>1 DEF Goto, Records
<1>4. \A place, p : GotoWith(c, place, p) => pc'[c].at = place /\ pc'[c].p = p
  BY <1>1 DEF GotoWith, Records
<1> QED BY <1>2, <1>3, <1>4

\* The worker is done: there is nothing for it to look at any more.
LEMMA Done ==
  ASSUME NEW c \in Controllers, pc'[c].at = "idle", (Unmarked(c) /\ Uncopied(c) /\ Compared(c))'
  PROVE  Looked(c)'
  BY DEF Looked, ReadsHost, ReadsVirtual

\* An event of the host object is on its way, and with it a request.
LEMMA HostEventComes ==
  ASSUME NEW c, (pWatch # <<>>)' PROVE (Unmarked(c) /\ Uncopied(c) /\ Compared(c))'
  BY DEF Unmarked, Uncopied, Compared

LEMMA NoHostInCache ==
  ASSUME NEW c, (pCache = Absent)' PROVE (Unmarked(c) /\ Uncopied(c) /\ Compared(c) /\ ReadsVirtual(c))'
  BY DEF Unmarked, Uncopied, Compared, ReadsVirtual, containsBackSyncNameAnnotations

LEMMA ReaderLooks ==
  ASSUME Inv, UsersExcused, NEW c \in Controllers, Looked(c), c \notin pending',
         Take(c) \/ ReadHost(c) \/ ReadVirtual(c)
  PROVE  Looked(c)'
<1>1. /\ pc \in [Controllers -> Records] /\ pc[c] \in Records /\ vCache \in Virtual /\ pCache \in Host
      /\ UNCHANGED <<pCache, vCache, pWatch, vWatch, vApi, pApi, known, vNotif, excused>>
  BY DEF Inv, TypeOK, Records, Take, ReadHost, ReadVirtual, host, virtual, outside, history
<1>2. CASE Take(c)
  <2>1. pc'[c].at = "host"
    BY <1>1, <1>2 DEF Take, Records
  <2> QED BY <2>1 DEF Looked, ReadsHost, ReadsVirtual, Unmarked, Uncopied, Compared
<1>3. CASE ReadHost(c)
  <2>1. CASE PhysicalToVirtual(pCache)
    <3>1. pc'[c].at = "virtual" /\ pc'[c].p = pCache
      BY <1>3, <2>1, Moved DEF ReadHost
    <3>2. PhysicalToVirtual(pCache)'
      BY <1>1, <2>1 DEF PhysicalToVirtual, containsBackSyncNameAnnotations
    <3>3. ReadsHost(c)' /\ ReadsVirtual(c)'
      BY <1>1, <3>1, <3>2 DEF ReadsHost, ReadsVirtual
    <3> QED BY <3>1, <3>3 DEF Looked, Unmarked, Uncopied, Compared
  <2>2. CASE ~PhysicalToVirtual(pCache)
    <3>1. pc'[c].at = "idle"
      BY <1>3, <2>2, Moved DEF ReadHost, ReturnOk
    <3>2. (Unmarked(c) /\ Uncopied(c) /\ Compared(c))'
      BY <1>1, <2>2 DEF PhysicalToVirtual, Unmarked, Uncopied, Compared, containsBackSyncNameAnnotations
    <3> QED BY <3>1, <3>2, Done
  <2> QED BY <2>1, <2>2
<1>4. CASE ReadVirtual(c)
  <2>1. pc[c].at = "virtual" /\ c \notin pending
    BY <1>4 DEF ReadVirtual, At, ReturnOk, Goto
  <2>2. pc[c].p = pCache /\ PhysicalToVirtual(pCache)
    BY <2>1 DEF Looked, ReadsHost
  <2>3. PhysicalToVirtual(pCache)'
    BY <1>1, <2>2 DEF PhysicalToVirtual, containsBackSyncNameAnnotations
  <2>4. CASE vCache = Absent /\ pCache = Absent
    <3>1. pc'[c].at = "idle" /\ pCache' = Absent
      BY <1>1, <1>4, <2>2, <2>4, Moved DEF ReadVirtual, ReturnOk
    <3> QED BY <3>1, Done, NoHostInCache
  <2>5. CASE vCache = Absent /\ pCache # Absent
    <3> DEFINE place == IF containsBackSyncNameAnnotations(pCache) THEN "delete_p" ELSE "annotate"
    <3>1. pc'[c].at = place /\ pc'[c].p = pCache
      BY <1>4, <2>2, <2>5, Moved DEF ReadVirtual
    <3>2. ReadsHost(c)' /\ ReadsVirtual(c)'
      BY <1>1, <2>3, <3>1 DEF ReadsHost, ReadsVirtual, containsBackSyncNameAnnotations
    <3>3. (Unmarked(c) /\ Uncopied(c) /\ Compared(c))'
      BY <1>1, <2>5, <3>1 DEF Unmarked, Uncopied, Compared, Owns, containsBackSyncNameAnnotations
    <3> QED BY <3>2, <3>3 DEF Looked
  <2>6. CASE vCache # Absent /\ isExcluded(c, vCache)
    <3>1. pc'[c].at = "idle"
      BY <1>4, <2>6, Moved DEF ReadVirtual, ReturnOk
    <3>2. Alone => vCache.owner = User
      BY <1>1, <2>6 DEF Alone, isExcluded, Virtual, VirtualObjects
    <3>3. ~Free
      BY <2>6, <3>2, NameIsTaken DEF Free, UsersExcused, Users
    <3>4. (Unmarked(c) /\ Uncopied(c) /\ Compared(c))'
      BY <1>1, <2>6, <3>3 DEF Unmarked, Uncopied, Compared, Copied, Free, Owns, isExcluded
    <3> QED BY <3>1, <3>4, Done
  <2>7. CASE vCache # Absent /\ ~isExcluded(c, vCache)
    <3>1. /\ pc'[c].at = IF pCache = Absent THEN "delete_v" ELSE "reverse"
          /\ pc'[c].p = pCache /\ pc'[c].v = vCache
      BY <1>1, <1>4, <2>2, <2>7 DEF ReadVirtual, Records
    <3>2. ReadsHost(c)' /\ ReadsVirtual(c)'
      BY <1>1, <2>3, <3>1 DEF ReadsHost, ReadsVirtual
    <3>3. (Unmarked(c) /\ Uncopied(c) /\ Compared(c))'
      BY <1>1, <2>7, <3>1 DEF Unmarked, Uncopied, Compared, containsBackSyncNameAnnotations
    <3> QED BY <3>2, <3>3 DEF Looked
  <2> QED BY <2>4, <2>5, <2>6, <2>7
<1> QED BY <1>2, <1>3, <1>4

LEMMA WriterLooks ==
  ASSUME Inv, Inv', NEW c \in Controllers, Looked(c), c \notin pending', Step(c),
         ~ReadHost(c), ~ReadVirtual(c),
         pWatch # <<>> => pWatch' # <<>>, vWatch # <<>> => vWatch' # <<>>
  PROVE  Looked(c)'
<1>1. /\ vCache \in Virtual /\ pCache \in Host /\ pApi \in Host /\ vApi \in Virtual
      /\ Chained(pCache, pWatch, pApi) /\ Chained(pCache, pWatch, pApi)'
      /\ Chained(vCache, vWatch, vApi) /\ Chained(vCache, vWatch, vApi)'
  BY DEF Inv, TypeOK, WatchesChained
<1>2. UNCHANGED <<pCache, vCache, known, vNotif, excused>>
  BY DEF Step, DeleteVirtual, ReversePatch, ApplyPatches, RecordMappings, DeletePhysical, Annotate, CreateVirtual,
     RemoveAnnotations, outside, history
<1>3. c \notin pending
  BY DEF Step, DeleteVirtual, ReversePatch, ApplyPatches, RecordMappings, DeletePhysical, Annotate, CreateVirtual,
     RemoveAnnotations, ReturnOk, ReturnError, Goto, GotoWith
<1>4. ReadsHost(c) /\ ReadsVirtual(c) /\ Unmarked(c) /\ Uncopied(c) /\ Compared(c)
  BY <1>3 DEF Looked
<1>5. ~ReturnError(c)
  BY DEF ReturnError
<1>6. pApi' # pCache => pWatch' # <<>>
  BY <1>1, <1>2 DEF Chained
<1>7. CASE DeleteVirtual(c)
  <2>1. pc'[c].at = "idle" /\ pCache' = Absent
    BY <1>2, <1>4, <1>7, Moved DEF DeleteVirtual, ReturnOk, At, ReadsHost
  <2> QED BY <2>1, Done, NoHostInCache
<1>8. CASE ReversePatch(c)
  <2> DEFINE p == pc[c].p
             back == pc[c].v.back
  <2>1. pc[c].at = "reverse" /\ p = pCache /\ PhysicalToVirtual(p)
    BY <1>4, <1>8 DEF ReversePatch, At, ReadsHost
  <2>2. CASE back = NoField \/ back = p.back
    <3>1. pc'[c].at = "apply" /\ pc'[c].p = p /\ UNCHANGED <<host, virtual>>
      BY <1>8, <2>2, Moved DEF ReversePatch
    <3>2. PhysicalToVirtual(p)'
      BY <1>2, <2>1, <3>1 DEF PhysicalToVirtual, containsBackSyncNameAnnotations
    <3>3. ReadsHost(c)'
      BY <1>2, <2>1, <3>1, <3>2 DEF ReadsHost, PhysicalToVirtual
    <3>4. (Told(c) <=> Told(c)') /\ (ToldGone(c) <=> ToldGone(c)')
      BY <1>2 DEF Told, ToldGone
    <3>5. ReadsVirtual(c)'
      BY <1>2, <1>4, <2>1, <2>2, <3>1, <3>4 DEF ReadsVirtual, Owns, containsBackSyncNameAnnotations
    <3>6. (Unmarked(c) /\ Uncopied(c) /\ Compared(c))'
      BY <1>2, <1>4, <2>1, <3>1, <3>4 DEF Unmarked, Uncopied, Compared, Free, containsBackSyncNameAnnotations, host, virtual
    <3> QED BY <3>3, <3>5, <3>6 DEF Looked
  <2>3. CASE ~(back = NoField \/ back = p.back)
    <3>1. pApi = p /\ WriteHost([p EXCEPT !.back = back]) /\ ReturnOk(c)
      BY <1>5, <1>8, <2>3 DEF ReversePatch
    <3>2. pApi \in HostObjects
      <4>1. pApi # Absent
        BY <2>1, <3>1 DEF Inv, Holding
      <4> QED BY <1>1, <4>1 DEF Host
    <3>3. pApi'.back = back
      BY <3>1, <3>2 DEF WriteHost, HostObjects
    <3>4. pWatch' # <<>>
      BY <1>6, <2>1, <2>3, <3>3
    <3>5. pc'[c].at = "idle"
      BY <3>1, Moved DEF ReturnOk
    <3> QED BY <3>4, <3>5, Done, HostEventComes
  <2> QED BY <2>2, <2>3
<1>9. CASE ApplyPatches(c)
  <2> DEFINE p == pc[c].p
  <2>1. pc[c].at = "apply" /\ p = pCache /\ PhysicalToVirtual(p)
    BY <1>4, <1>9 DEF ApplyPatches, At, ReadsHost
  <2>2. WriteVirtual(Applied(c, p)) /\ Goto(c, "record") /\ UNCHANGED host
    BY <1>5, <1>9, <2>1 DEF ApplyPatches
  <2>3. pc'[c].at = "record" /\ pc'[c].p = p
    BY <2>2, Moved
  <2>4. ReadsHost(c)' /\ ReadsVirtual(c)'
    BY <1>2, <2>1, <2>3 DEF ReadsHost, ReadsVirtual
  <2>5. /\ vApi' = Applied(c, p) /\ vApi'.data = p.data
        /\ vApi'.back = IF vApi = Absent THEN NoField ELSE vApi.back
    BY <2>2 DEF WriteVirtual, Applied
  <2>6. vApi' # Absent
    <3>1. vApi' \in Virtual /\ p \in HostObjects
      BY <1>1, <2>1 DEF Inv, TypeOK, Holding, Host
    <3>2. Applied(c, p) \in VirtualObjects
      BY <1>1, <3>1 DEF Applied, VirtualObjects, HostObjects, Virtual
    <3> QED BY <2>5, <3>2, AbsentAssumption
  <2>7. Unmarked(c)'
    BY <2>3 DEF Unmarked
  <2>8. Uncopied(c)'
    BY <1>1, <2>6 DEF Uncopied, Chained
  <2>9. Compared(c)'
    <3> SUFFICES ASSUME containsBackSyncNameAnnotations(pCache)', Owns(c, vCache)', (vWatch = <<>>)', ~Told(c)'
                 PROVE  Agree(pCache, vCache)'
      BY DEF Compared
    <3>1. vCache = vApi' /\ vApi = vCache
      BY <1>1, <1>2 DEF Chained
    <3>2. vCache.back \in {NoField, p.back}
      BY <1>2, <1>4, <2>1 DEF ReadsVirtual, Told, Owns, containsBackSyncNameAnnotations
    <3> QED BY <1>2, <2>1, <2>5, <3>1, <3>2 DEF Agree
  <2> QED BY <2>4, <2>7, <2>8, <2>9 DEF Looked
<1>10. CASE RecordMappings(c)
  <2> DEFINE p == pc[c].p
  <2>1. pc[c].at = "record" /\ (p = pCache \/ pWatch # <<>>)
    BY <1>4, <1>10 DEF RecordMappings, At, ReadsHost
  <2>2. ReturnOk(c) /\ UNCHANGED virtual
    BY <1>5, <1>10 DEF RecordMappings
  <2>3. pc'[c].at = "idle"
    BY <2>2, Moved DEF ReturnOk
  <2>4. CASE pWatch # <<>>
    BY <2>3, <2>4, Done, HostEventComes
  <2>5. CASE pWatch = <<>> /\ p.ann /\ p.saved = NeedsName
    <3>1. p = pCache /\ UNCHANGED host /\ p # Absent
      BY <1>10, <2>1, <2>5 DEF RecordMappings, Inv, Holding
    <3>2. (Told(c) <=> Told(c)') /\ (ToldGone(c) <=> ToldGone(c)')
      BY <1>2 DEF Told, ToldGone
    <3>3. (Unmarked(c) /\ Uncopied(c) /\ Compared(c))'
      BY <1>2, <1>4, <2>1, <2>2, <2>5, <3>1, <3>2
      DEF Unmarked, Uncopied, Compared, Copied, Free, Agree, Owns, containsBackSyncNameAnnotations, host, virtual
    <3> QED BY <2>3, <3>3, Done
  <2>6. CASE pWatch = <<>> /\ ~(p.ann /\ p.saved = NeedsName)
    <3>1. pApi # Absent /\ pApi' = Recorded(p)
      BY <1>5, <1>10, <2>6 DEF RecordMappings, WriteHost
    <3>2. p = pApi
      BY <1>1, <2>1, <2>6 DEF Chained
    <3>3. pApi'.ann /\ pApi'.saved = NeedsName
      BY <1>1, <3>1, <3>2 DEF Recorded, Host, HostObjects
    <3>4. pApi' # pCache
      BY <2>1, <2>6, <3>3
    <3> QED BY <1>6, <2>3, <3>4, Done, HostEventComes
  <2> QED BY <2>4, <2>5, <2>6
<1>11. CASE DeletePhysical(c)
  <2>1. pc'[c].at = "idle" /\ pApi' = Absent
    BY <1>5, <1>11, Moved DEF DeletePhysical, ReturnOk, WriteHost
  <2>2. CASE pCache = Absent
    BY <1>2, <2>1, <2>2, Done, NoHostInCache
  <2>3. CASE pCache # Absent
    BY <1>6, <2>1, <2>3, Done, HostEventComes
  <2> QED BY <2>2, <2>3
<1>12. CASE Annotate(c)
  <2> DEFINE q == Annotated(pc[c].p)
  <2>1. ~containsBackSyncNameAnnotations(pCache)
    BY <1>4, <1>12 DEF Annotate, At, ReadsHost
  <2>2. pApi # Absent /\ WriteHost(q) /\ GotoWith(c, "create", q)
    BY <1>5, <1>12 DEF Annotate
  <2>3. q \in HostObjects /\ q.ann /\ pApi' = q
    BY <1>1, <2>2 DEF Annotated, WriteHost, Host, HostObjects
  <2> HIDE DEF q
  <2>4. pWatch' # <<>>
    BY <1>6, <2>1, <2>3, AbsentAssumption DEF containsBackSyncNameAnnotations
  <2>5. pc'[c].at = "create"
    BY <2>2, Moved
  <2>6. ReadsHost(c)' /\ ReadsVirtual(c)'
    BY <2>4, <2>5 DEF ReadsHost, ReadsVirtual
  <2> QED BY <2>4, <2>6, HostEventComes DEF Looked
<1>13. CASE CreateVirtual(c)
  <2>1. pWatch # <<>>
    BY <1>4, <1>13 DEF CreateVirtual, At, ReadsHost
  <2>2. pc'[c].at \in {"record", "unannotate"}
    BY <1>13, Moved DEF CreateVirtual
  <2>3. ReadsHost(c)' /\ ReadsVirtual(c)'
    BY <2>1, <2>2 DEF ReadsHost, ReadsVirtual
  <2> QED BY <2>1, <2>3, HostEventComes DEF Looked
<1>14. ~RemoveAnnotations(c)
  BY <1>5 DEF RemoveAnnotations
<1> QED BY <1>7, <1>8, <1>9, <1>10, <1>11, <1>12, <1>13, <1>14 DEF Step

\* A controller's worker does not touch another's.
LEMMA Apart ==
  ASSUME Inv, NEW c \in Controllers, NEW d \in Controllers, d # c, Take(d) \/ Step(d) \/ CallFails(d)
  PROVE  pc'[c] = pc[c] /\ (c \in pending => c \in pending')
<1>1. pc \in [Controllers -> Records]
  BY DEF Inv, TypeOK, Records
<1> QED BY <1>1 DEF Take, Step, CallFails, ReadHost, ReadVirtual, DeleteVirtual, ReversePatch, ApplyPatches,
     RecordMappings, DeletePhysical, Annotate, CreateVirtual, RemoveAnnotations, Return, ReturnOk, ReturnError, Goto,
     GotoWith

\* Steps that leave the caches and the worker alone.
LEMMA LookedStays ==
  ASSUME NEW c \in Controllers, Looked(c), UNCHANGED <<pCache, vCache, known, pc[c]>>, c \in pending => c \in pending',
         pWatch # <<>> => pWatch' # <<>>, vWatch # <<>> => vWatch' # <<>>,
         "name_taken" \in excused => "name_taken" \in excused',
         Copied(c)' => Copied(c),
         containsBackSyncNameAnnotations(pCache) => (Told(c) => Told(c)') /\ (ToldGone(c) => ToldGone(c)')
  PROVE  Looked(c)'
<1> SUFFICES ASSUME c \notin pending' PROVE (ReadsHost(c) /\ ReadsVirtual(c) /\ Unmarked(c) /\ Uncopied(c) /\ Compared(c))'
  BY DEF Looked
<1>1. ReadsHost(c) /\ ReadsVirtual(c) /\ Unmarked(c) /\ Uncopied(c) /\ Compared(c)
  BY DEF Looked
<1>2. ReadsHost(c)'
  BY <1>1 DEF ReadsHost, PhysicalToVirtual, containsBackSyncNameAnnotations
<1>3. ReadsVirtual(c)'
  BY <1>1 DEF ReadsVirtual, Owns, containsBackSyncNameAnnotations
<1>4. (Unmarked(c) /\ Uncopied(c))'
  BY <1>1 DEF Unmarked, Uncopied, Free, containsBackSyncNameAnnotations
<1>5. Compared(c)'
  BY <1>1 DEF Compared, Agree, Owns, containsBackSyncNameAnnotations
<1> QED BY <1>2, <1>3, <1>4, <1>5

LEMMA LookedNext ==
  ASSUME Inv, Inv', UsersExcused, NEW c \in Controllers, Looked(c), Next
  PROVE  Looked(c)'
<1>1. /\ vWatch \in Seq(Virtual) /\ vCache \in Virtual /\ Chained(vCache, vWatch, vApi)
  BY DEF Inv, TypeOK, WatchesChained
<1>2. c \in pending' => Looked(c)'
  BY DEF Looked
<1>3. CASE HostInformer \/ NameCacheChange
  BY <1>2, <1>3 DEF HostInformer, NameCacheChange
<1>4. CASE Crash
  <2>1. CASE pApi = Absent
    <3>1. pCache' = Absent /\ pc'[c].at = "idle"
      BY <1>4, <2>1 DEF Crash, Idle
    <3> QED BY <3>1, Done, NoHostInCache
  <2>2. CASE pApi # Absent
    BY <1>2, <1>4, <2>2 DEF Crash
  <2> QED BY <2>1, <2>2
<1>5. CASE VirtualInformer
  <2>1. /\ vWatch # <<>> /\ vCache' = Head(vWatch) /\ Head(vWatch) \in Virtual /\ Head(vWatch) # vCache
        /\ vNotif' = IF Head(vWatch) = Absent THEN Append2All(vNotif, <<TRUE, vCache>>)
                     ELSE Append2All(vNotif, <<FALSE, Head(vWatch)>>)
        /\ UNCHANGED <<pCache, pWatch, known, pc, pending, excused>>
    BY <1>1, <1>5, ChainShrinks DEF VirtualInformer, host, names, history
  <2> SUFFICES ASSUME c \notin pending PROVE Looked(c)'
    BY <1>2, <2>1
  <2>2. ReadsHost(c) /\ Unmarked(c) /\ ~Copied(c)'
    BY <1>5, Heard DEF Looked, Copied
  <2>3. ReadsHost(c)' /\ Unmarked(c)'
    BY <2>1, <2>2 DEF ReadsHost, Unmarked, Free, PhysicalToVirtual, containsBackSyncNameAnnotations
  <2>4. CASE Head(vWatch) # Absent
    <3>1. Owns(c, vCache)' => Told(c)'
      BY <1>5, Heard
    <3>2. (ReadsVirtual(c) /\ Uncopied(c) /\ Compared(c))'
      BY <2>1, <2>4, <3>1 DEF ReadsVirtual, Uncopied, Compared
    <3> QED BY <2>3, <3>2 DEF Looked
  <2>5. CASE Head(vWatch) = Absent
    <3>1. vCache \in VirtualObjects
      BY <1>1, <2>1, <2>5 DEF Virtual
    <3>2. <<TRUE, vCache>> \in BOOLEAN \X VirtualObjects /\ <<TRUE, vCache>>[1] /\ <<TRUE, vCache>>[2] = vCache
      BY <3>1
    <3>3. vCache.owner = c => ToldGone(c)'
      BY <2>1, <2>5, <3>2, Notified
    <3>4. vCache.owner # c => ~Free
      <4>1. Alone /\ vCache.owner # c => Users(vCache)
        BY <2>1, <2>5, <3>1 DEF Alone, VirtualObjects, Users
      <4> QED BY <4>1, NameIsTaken DEF Free, UsersExcused
    <3>5. (ReadsVirtual(c) /\ Uncopied(c) /\ Compared(c))'
      BY <2>1, <2>5, <3>3, <3>4 DEF ReadsVirtual, Uncopied, Compared, Free, Owns
    <3> QED BY <2>3, <3>5 DEF Looked
  <2> QED BY <2>4, <2>5
<1>6. CASE ~HostInformer /\ ~VirtualInformer /\ ~Crash
  <2>1. (pWatch # <<>> => pWatch' # <<>>) /\ (vWatch # <<>> => vWatch' # <<>>)
    BY <1>6, WatchesGrow
  <2>2. CASE Take(c) \/ Step(c)
    BY <1>2, <2>1, <2>2, ReaderLooks, WriterLooks
  <2>3. CASE DeleteFunc(c)
    <3>1. UNCHANGED <<pCache, vCache, known, pc, pending, vNotif, excused>>
      BY <2>3 DEF DeleteFunc, names, history
    <3>2. Copied(c)' => Copied(c)
      BY <2>1, <3>1 DEF Copied, Owns, Told
    <3> QED BY <2>1, <3>1, <3>2, LookedStays DEF Told, ToldGone
  <2>4. CASE enqueueVirtual(c)
    <3>1. /\ vNotif[c] # <<>> /\ vNotif' = [vNotif EXCEPT ![c] = Tail(@)]
          /\ UNCHANGED <<pCache, vCache, known, pc, excused>>
      BY <2>4 DEF enqueueVirtual, names, history
    <3> SUFFICES ASSUME c \notin pending' PROVE Looked(c)'
      BY <1>2
    <3>2. pending' = pending /\ (Head(vNotif[c])[2].owner # c \/ ~containsBackSyncNameAnnotations(pCache))
      BY <2>4 DEF enqueueVirtual, isExcluded
    <3>3. containsBackSyncNameAnnotations(pCache) => (Told(c) => Told(c)') /\ (ToldGone(c) => ToldGone(c)')
      BY <3>1, <3>2, Handled
    <3>4. Copied(c)' => Copied(c)
      BY <1>6, <2>4, CopiedBefore
    <3> QED BY <2>1, <3>1, <3>2, <3>3, <3>4, LookedStays
  <2>5. CASE HandlerFails(c)
    <3>1. /\ UNCHANGED <<pCache, vCache, known, pc, pending>>
          /\ excused' = excused \cup {"handler_error"}
          /\ vNotif' = vNotif \/ ~containsBackSyncNameAnnotations(pCache)
      BY <2>5 DEF HandlerFails, names
    <3>2. containsBackSyncNameAnnotations(pCache) => (Told(c) => Told(c)') /\ (ToldGone(c) => ToldGone(c)')
      BY <3>1 DEF Told, ToldGone
    <3> QED BY <2>1, <3>1, <3>2, LookedStays DEF Copied
  <2>6. CASE Resync
    <3>1. CASE pCache # Absent
      BY <1>2, <2>6, <3>1 DEF Resync
    <3>2. CASE pCache = Absent
      <4>1. pCache' = Absent /\ UNCHANGED <<pCache, pWatch, known, pc, pending>>
        BY <2>6, <3>2 DEF Resync, host, names
      <4> SUFFICES ASSUME c \notin pending PROVE Looked(c)'
        BY <1>2, <4>1
      <4>2. ReadsHost(c)'
        BY <4>1 DEF Looked, ReadsHost, PhysicalToVirtual, containsBackSyncNameAnnotations
      <4> QED BY <4>1, <4>2, NoHostInCache DEF Looked
    <3> QED BY <3>1, <3>2
  <2>7. CASE HostCreate \/ HostUpdate \/ HostDelete \/ UserCreate \/ UserUpdate \/ UserDelete \/ ParentChange
    <3>1. UNCHANGED <<pCache, vCache, known, pc, pending, vNotif>>
      BY <2>7 DEF HostCreate, HostUpdate, HostDelete, UserCreate, UserUpdate, UserDelete, ParentChange, inside, handlers
    <3>2. "name_taken" \in excused => "name_taken" \in excused'
      BY <2>7 DEF HostCreate, HostUpdate, HostDelete, UserCreate, UserUpdate, UserDelete, ParentChange, history
    <3> SUFFICES ASSUME c \notin pending' PROVE Looked(c)'
      BY <1>2
    <3>3. Copied(c)' => Copied(c)
      BY <1>6, CopiedBefore
    <3> QED BY <2>1, <3>1, <3>2, <3>3, LookedStays DEF Told, ToldGone
  <2>8. CASE CallFails(c)
    <3>1. pending' = pending \cup {c} \/ (At(c, "create") /\ Goto(c, "unannotate"))
      BY <2>8 DEF CallFails, ReturnError
    <3>2. CASE At(c, "create") /\ Goto(c, "unannotate") /\ c \notin pending
      <4>1. pWatch # <<>>
        BY <3>2 DEF At, Looked, ReadsHost
      <4>2. pc'[c].at = "unannotate"
        BY <3>2, Moved
      <4>3. ReadsHost(c)' /\ ReadsVirtual(c)'
        BY <2>1, <4>1, <4>2 DEF ReadsHost, ReadsVirtual
      <4> QED BY <2>1, <4>1, <4>3, HostEventComes DEF Looked
    <3> QED BY <1>2, <3>1, <3>2 DEF Goto
  <2>9. ASSUME NEW d \in Controllers, d # c,
               Take(d) \/ Step(d) \/ DeleteFunc(d) \/ enqueueVirtual(d) \/ CallFails(d) \/ HandlerFails(d)
        PROVE  Looked(c)'
    <3> SUFFICES ASSUME c \notin pending' PROVE Looked(c)'
      BY <1>2
    <3>1. UNCHANGED <<pCache, vCache, known>> /\ ("name_taken" \in excused => "name_taken" \in excused')
      BY <2>9 DEF Take, Step, ReadHost, ReadVirtual, DeleteVirtual, ReversePatch, ApplyPatches, RecordMappings,
         DeletePhysical, Annotate, CreateVirtual, RemoveAnnotations, outside, DeleteFunc, enqueueVirtual, CallFails,
         HandlerFails, names, history
    <3>2. pc'[c] = pc[c] /\ (c \in pending => c \in pending')
      <4>1. CASE Take(d) \/ Step(d) \/ CallFails(d)
        BY <2>9, <4>1, Apart
      <4>2. CASE DeleteFunc(d) \/ enqueueVirtual(d) \/ HandlerFails(d)
        BY <4>2 DEF DeleteFunc, enqueueVirtual, HandlerFails
      <4> QED BY <2>9, <4>1, <4>2
    <3>3. (Told(c) => Told(c)') /\ (ToldGone(c) => ToldGone(c)')
      <4>1. \/ vNotif' = vNotif
            \/ vNotif[d] # <<>> /\ vNotif' = [vNotif EXCEPT ![d] = Tail(@)]
        BY <2>9 DEF Take, Step, ReadHost, ReadVirtual, DeleteVirtual, ReversePatch, ApplyPatches, RecordMappings,
           DeletePhysical, Annotate, CreateVirtual, RemoveAnnotations, outside, DeleteFunc, enqueueVirtual, CallFails,
           HandlerFails, handlers
      <4>2. CASE vNotif' = vNotif
        BY <4>2 DEF Told, ToldGone
      <4>3. CASE vNotif[d] # <<>> /\ vNotif' = [vNotif EXCEPT ![d] = Tail(@)]
        BY <2>9, <4>3, Handled
      <4> QED BY <4>1, <4>2, <4>3
    <3>4. Copied(c)' => Copied(c)
      BY <1>6, CopiedBefore
    <3> QED BY <2>1, <3>1, <3>2, <3>3, <3>4, LookedStays
  <2>10. ASSUME NEW d \in Controllers, Take(d) \/ Step(d) \/ DeleteFunc(d) \/ enqueueVirtual(d) \/ CallFails(d) \/ HandlerFails(d)
        PROVE  Looked(c)'
    <3>1. CASE d = c
      <4>1. Take(c) \/ Step(c) \/ DeleteFunc(c) \/ enqueueVirtual(c) \/ CallFails(c) \/ HandlerFails(c)
        BY <2>10, <3>1, Zenon
      <4> QED BY <2>2, <2>3, <2>4, <2>5, <2>8, <4>1
    <3> QED BY <2>9, <2>10, <3>1
  <2> QED BY <1>3, <1>6, <2>6, <2>7, <2>10, Zenon DEF Next, Outside
<1> QED BY <1>3, <1>4, <1>5, <1>6

LEMMA AgreeInvariance == Spec => []AgreeInv
<1>1. Init => AgreeInv
  <2> SUFFICES ASSUME Init PROVE AgreeInv
    OBVIOUS
  <2>1. UsersExcused
    <3>1. DOMAIN vWatch = {}
      BY DEF Init
    <3> QED BY <3>1, NameIsTaken DEF Init, UsersExcused, Users
  <2>2. ASSUME NEW c \in Controllers PROVE Looked(c)
    <3>1. pCache = Absent /\ pc[c].at = "idle"
      BY DEF Init, Idle
    <3> QED BY <3>1 DEF Looked, ReadsHost, ReadsVirtual, Unmarked, Uncopied, Compared, containsBackSyncNameAnnotations
  <2> QED BY <2>1, <2>2 DEF AgreeInv
<1>2. Inv /\ Inv' /\ AgreeInv /\ [Next]_vars => AgreeInv'
  <2>1. ASSUME Inv, Inv', AgreeInv, Next PROVE AgreeInv'
    <3>1. ASSUME NEW c \in Controllers PROVE Looked(c)'
      BY <2>1, <3>1, LookedNext DEF AgreeInv
    <3>2. UsersExcused'
      BY <2>1, UsersNext DEF AgreeInv
    <3> QED BY <3>1, <3>2 DEF AgreeInv
  <2>2. ASSUME AgreeInv, UNCHANGED vars PROVE AgreeInv'
    <3>1. UsersExcused'
      BY <2>2 DEF AgreeInv, UsersExcused, NameTaken, vars
    <3>2. ASSUME NEW c \in Controllers PROVE Looked(c)'
      <4>1. UNCHANGED <<pCache, vCache, known, pc, pending, pWatch, vWatch, excused, vNotif>> /\ Looked(c)
        BY <2>2 DEF vars, AgreeInv
      <4>2. Copied(c)' => Copied(c)
        BY <4>1 DEF Copied, Owns, Told
      <4> QED BY <4>1, <4>2, LookedStays DEF Told, ToldGone
    <3> QED BY <3>1, <3>2 DEF AgreeInv
  <2> QED BY <2>1, <2>2
<1> QED BY <1>1, <1>2, Invariance, PTL DEF Spec

-----------------------------------------------------------------------------
(***************************************************************************)
(* Virtual objects whose host object is gone, with its annotations or      *)
(* without: the name cache still knows the name.                           *)
(***************************************************************************)
\* c's object has a host object, or c is about to see that it has none.
Abandoned(c) ==
  c \notin pending /\ known /\ Copied(c) =>
     \/ pCache # Absent
     \/ pDeleted[c] # <<>>
     \/ pc[c].at = "host"
     \/ pc[c].at = "virtual" /\ pc[c].p = Absent
     \/ pc[c].at = "delete_v"

LEMMA AbandonedNext ==
  ASSUME Inv, Inv', NEW c \in Controllers, Abandoned(c), Next
  PROVE  Abandoned(c)'
<1> SUFFICES ASSUME c \notin pending', known', Copied(c)', pCache' = Absent
             PROVE  (pDeleted[c] # <<>> \/ pc[c].at = "host" \/ (pc[c].at = "virtual" /\ pc[c].p = Absent) \/ pc[c].at = "delete_v")'
  BY DEF Abandoned
<1>1. ~HostInformer /\ ~NameCacheChange /\ ~Crash
  BY DEF HostInformer, NameCacheChange, Crash
<1>2. Copied(c) /\ vCache' # Absent /\ vWatch' = <<>> /\ vCache # Absent
  BY <1>1, CopiedBefore DEF Copied, Owns
<1>3. ~VirtualInformer /\ ~Resync /\ ~\E d \in Controllers : HandlerFails(d)
  BY Heard DEF Copied, HandlerFails
<1>4. ~WriteVirtual(Absent)
  BY <1>2 DEF WriteVirtual, Inv, WatchesChained, Chained
<1>5. UNCHANGED <<pCache, vCache, known>>
  BY <1>1, <1>3 DEF Next, Outside, Take, Step, ReadHost, ReadVirtual, DeleteVirtual,
     ReversePatch, ApplyPatches, RecordMappings, DeletePhysical, Annotate, CreateVirtual, RemoveAnnotations, outside,
     HostCreate, HostUpdate, HostDelete, UserCreate, UserUpdate, UserDelete, ParentChange, CallFails, DeleteFunc,
     enqueueVirtual, inside, names
<1>6. /\ pc \in [Controllers -> Records] /\ pc[c] \in Records /\ pDeleted \in [Controllers -> Seq(HostObjects)]
  BY DEF Inv, TypeOK, Records
<1>7. CASE Take(c)
  BY <1>6, <1>7 DEF Take, Records
<1>8. ASSUME c \notin pending, pDeleted[c] # <<>> PROVE pDeleted'[c] # <<>>
  <2>1. ASSUME NEW d \in Controllers, DeleteFunc(d) PROVE pDeleted'[c] = pDeleted[c]
    <3>1. d # c
      BY <1>2, <1>4, <1>5, <2>1 DEF DeleteFunc, PhysicalToVirtual, isExcluded, Copied, Owns
    <3> QED BY <1>6, <2>1, <3>1 DEF DeleteFunc
  <2>2. pDeleted' = pDeleted \/ \E d \in Controllers : DeleteFunc(d)
    BY <1>1, <1>3, Zenon DEF Next, Outside, Take, Step, ReadHost, ReadVirtual, DeleteVirtual,
       ReversePatch, ApplyPatches, RecordMappings, DeletePhysical, Annotate, CreateVirtual, RemoveAnnotations, outside,
       HostCreate, HostUpdate, HostDelete, UserCreate, UserUpdate, UserDelete, ParentChange, CallFails,
       enqueueVirtual, inside, handlers
  <2> QED BY <1>8, <2>1, <2>2
<1>9. CASE Step(c)
  <2>1. pDeleted' = pDeleted /\ c \notin pending
    BY <1>9 DEF Step, ReadHost, ReadVirtual, DeleteVirtual, ReversePatch, ApplyPatches, RecordMappings, DeletePhysical,
       Annotate, CreateVirtual, RemoveAnnotations, outside, ReturnOk, ReturnError, Goto, GotoWith
  <2>2. CASE ReadHost(c)
    BY <1>5, <2>2, Moved DEF ReadHost, PhysicalToVirtual
  <2>3. CASE ReadVirtual(c) /\ pc[c].p = Absent
    <3>1. vCache # Absent /\ ~isExcluded(c, vCache)
      BY <1>2 DEF Copied, Owns, isExcluded
    <3>2. pc' = [pc EXCEPT ![c].at = "delete_v", ![c].v = vCache]
      BY <2>3, <3>1 DEF ReadVirtual
    <3>3. pc'[c].at = "delete_v"
      BY <1>6, <3>2 DEF Records
    <3> QED BY <3>3
  <2>4. ~DeleteVirtual(c)
    BY <1>4 DEF DeleteVirtual
  <2>5. CASE pDeleted[c] # <<>>
    BY <2>1, <2>5
  <2>6. CASE ~ReadHost(c) /\ ~(ReadVirtual(c) /\ pc[c].p = Absent)
    <3>1. ~(pc[c].at = "host" \/ (pc[c].at = "virtual" /\ pc[c].p = Absent) \/ pc[c].at = "delete_v")
      BY <1>9, <2>4, <2>6 DEF Step, At, ReadVirtual, ReversePatch, ApplyPatches, RecordMappings, DeletePhysical,
         Annotate, CreateVirtual, RemoveAnnotations
    <3> QED BY <1>2, <1>5, <2>1, <3>1 DEF Abandoned
  <2> QED BY <2>2, <2>3, <2>6
<1>10. CASE pc'[c] = pc[c] /\ c \notin pending
  BY <1>2, <1>5, <1>8, <1>10 DEF Abandoned
<1>11. CASE CallFails(c)
  <2>1. c \notin pending /\ At(c, "create") /\ pDeleted' = pDeleted
    BY <1>11 DEF CallFails, ReturnError, Goto, handlers
  <2> QED BY <1>2, <1>5, <2>1 DEF Abandoned, At
<1>12. ASSUME NEW d \in Controllers, d # c, Take(d) \/ Step(d) \/ CallFails(d) PROVE pc'[c] = pc[c] /\ c \notin pending
  BY <1>12, Apart
<1>13. CASE \/ HostCreate \/ HostUpdate \/ HostDelete \/ UserCreate \/ UserUpdate \/ UserDelete \/ ParentChange
            \/ \E d \in Controllers : DeleteFunc(d) \/ enqueueVirtual(d)
  BY <1>10, <1>13 DEF HostCreate, HostUpdate, HostDelete, UserCreate, UserUpdate, UserDelete, ParentChange,
     DeleteFunc, enqueueVirtual, inside
<1> QED BY <1>1, <1>3, <1>7, <1>9, <1>10, <1>11, <1>12, <1>13, Zenon DEF Next, Outside

LEMMA AbandonedInvariance == Spec => []\A c \in Controllers : Abandoned(c)
<1> DEFINE J == \A c \in Controllers : Abandoned(c)
<1>1. Init => J
  BY DEF Init, Abandoned
<1>2. Inv /\ Inv' /\ J /\ [Next]_vars => J'
  <2>1. ASSUME Inv, Inv', J, Next PROVE J'
    BY <2>1, AbandonedNext
  <2>2. ASSUME J, UNCHANGED vars PROVE J'
    BY <2>2, Zenon DEF Abandoned, Copied, Told, Owns, vars
  <2> QED BY <2>1, <2>2
<1> QED BY <1>1, <1>2, Invariance, PTL DEF Spec

LEMMA NamedAtRest ==
  ASSUME Inv, \A c \in Controllers : Abandoned(c), Quiet, parent
  PROVE  CopyHasHost
<1> SUFFICES ASSUME Owned, "handler_error" \notin excused PROVE pApi # Absent
  BY DEF CopyHasHost
<1>1. vApi.owner \in Controllers /\ vApi # Absent
  BY DEF Owned, Inv, TypeOK, Virtual, VirtualObjects
<1>2. PICK c \in Controllers : vApi.owner = c
  BY <1>1
<1>3. vWatch = <<>> /\ ~Told(c) /\ vCache = vApi /\ pCache = pApi /\ pc[c].at = "idle"
  BY AtRest DEF Quiet
<1>4. known /\ c \notin pending /\ pDeleted[c] = <<>>
  BY DEF Quiet
<1> QED BY <1>1, <1>2, <1>3, <1>4 DEF Abandoned, Copied, Owns

\* For any number of controllers of a kind and any outside events at all, failed
\* calls and unresolved names included: while a parent names the host object, a
\* virtual object of theirs does not outlive it, unless a handler's deletion failed.
THEOREM NamedOrphansAreDeleted == Spec => [](Quiet /\ parent => CopyHasHost)
<1>1. Inv /\ (\A c \in Controllers : Abandoned(c)) => (Quiet /\ parent => CopyHasHost)
  BY NamedAtRest
<1> QED BY <1>1, Invariance, AbandonedInvariance, PTL

-----------------------------------------------------------------------------
\* At rest a copy agrees with its host object, whichever controller owns it.
LEMMA AgreedAtRest == ASSUME Inv, AgreeInv, Quiet PROVE CopyAgrees
<1> SUFFICES ASSUME Owned, Managed, "handler_error" \notin excused
             PROVE  pApi.ann /\ vApi.data = pApi.data /\ vApi.back \in {NoField, pApi.back}
  BY DEF CopyAgrees
<1>1. PICK c \in Controllers : vApi.owner = c
  BY DEF Owned, Inv, TypeOK, Virtual, VirtualObjects
<1>2. /\ pCache = pApi /\ vCache = vApi /\ ~Told(c) /\ pc[c].at = "idle"
      /\ pWatch = <<>> /\ vWatch = <<>> /\ known = parent
  BY AtRest DEF Quiet
<1>3. Unmarked(c) /\ Compared(c)
  BY DEF AgreeInv, Looked, Quiet
<1>4. Owns(c, vCache) /\ Copied(c)
  BY <1>1, <1>2 DEF Owned, Owns, Copied
<1>5. pApi # Absent /\ pApi.ann
  BY <1>2, <1>3, <1>4 DEF Unmarked, Managed, containsBackSyncNameAnnotations
<1> QED BY <1>2, <1>3, <1>4, <1>5 DEF Compared, Agree, containsBackSyncNameAnnotations

LEMMA CopiedAtRest == ASSUME Alone, Inv, AgreeInv, Quiet PROVE HostIsCopied
<1> SUFFICES ASSUME Managed, "name_taken" \notin excused PROVE vApi # Absent
  BY DEF HostIsCopied
<1>1. PICK c \in Controllers : TRUE
  BY DEF Alone
<1>2. /\ pCache = pApi /\ vCache = vApi /\ ~ToldGone(c) /\ pc[c].at = "idle"
      /\ pWatch = <<>> /\ vWatch = <<>> /\ known = parent
  BY AtRest DEF Quiet
<1>3. Unmarked(c) /\ Uncopied(c) /\ Free
  BY DEF AgreeInv, Looked, Quiet, Free
<1> QED BY <1>2, <1>3 DEF Managed, Unmarked, Uncopied, containsBackSyncNameAnnotations

\* For any number of controllers of a kind, each with its own stale reads, and any
\* outside events at all, failed calls, unresolved names, restarts and changing
\* parents included: when everything is handled, a virtual object of any of them
\* has the managed host object's data, and the host object the annotations and
\* the virtual object's reverse-patched fields.
THEOREM CopiesAgree == Spec => [](Quiet => CopyAgrees)
<1>1. Inv /\ AgreeInv => (Quiet => CopyAgrees)
  BY AgreedAtRest
<1> QED BY <1>1, Invariance, AgreeInvariance, PTL

\* For one controller, all contents, any outside events and any lag of the
\* watches, with calls that fail, names that do not resolve and restarts between
\* any two steps: when everything is handled, a managed host object has its
\* virtual object, the two agree in both directions, and while a parent names the
\* host object the virtual one does not outlive it.
THEOREM RestMeansSettled ==
  ASSUME Alone PROVE Spec => []QuietMeansSettled
<1>1. Inv /\ AgreeInv /\ (\A c \in Controllers : Abandoned(c)) => QuietMeansSettled
  BY CopiedAtRest, AgreedAtRest, NamedAtRest DEF QuietMeansSettled, Settled
<1> QED BY <1>1, Invariance, AgreeInvariance, AbandonedInvariance, PTL

\* With no failed calls and no names to translate, whether or not a parent names
\* the host object: the virtual object does not outlive it either.
THEOREM RestMeansConsistent ==
  ASSUME Undisturbed, Alone PROVE Spec => []QuietMeansConsistent
<1>1. Inv /\ OrphanInv /\ AgreeInv => QuietMeansConsistent
  BY CopiedAtRest, AgreedAtRest, OrphansAtRest DEF QuietMeansConsistent, Consistent, CopyHasHost
<1> QED BY <1>1, Invariance, OrphanInvariance, AgreeInvariance, PTL
=============================================================================
