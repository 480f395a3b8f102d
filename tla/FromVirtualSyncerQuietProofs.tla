-------------------- MODULE FromVirtualSyncerQuietProofs --------------------
(***************************************************************************)
(* What FromVirtualSyncer has reached when nothing is on its way, for any  *)
(* number of mappings: no host object is left behind, and the host object  *)
(* of a virtual object that is to be synced is in step with it, if the     *)
(* selectors are as the code wants them (SelectorsExclude).  Neither is    *)
(* inductive: both are about states in which everything has been        *)
(* handled.  The invariant below says of every state that what is not yet  *)
(* right will still be seen by the controller that has to act on it.       *)
(***************************************************************************)
EXTENDS FromVirtualSyncerProofs

\* The last event of a watch is the object as the API server has it, and with
\* no event on its way the cache has it.
Following ==
  /\ IF vWatch = <<>> THEN vCache = vApi ELSE vWatch[Len(vWatch)] = vApi
  /\ IF pWatch = <<>> THEN pCache = pApi ELSE pWatch[Len(pWatch)] = pApi

\* What the worker of c read is what the caches hold, or its request is queued
\* again.  Of host objects c is told only if it manages them.
Fresh(c) ==
  c \notin pending =>
     /\ pc[c].at \notin {"idle", "virtual"} => pc[c].v = vCache
     /\ pc[c].at \notin {"idle", "virtual", "host"} /\ pCache # Absent /\ pCache.by = c
          => pc[c].p = pCache

\* A worker writes for a virtual object that objectMatches lets it take, and
\* deletes for one that is gone or not to be taken.
Purposeful(c) ==
  /\ pc[c].at \in {"reverse", "status", "apply"} =>
       pc[c].v # Absent /\ ~isControlled(pc[c].v) /\ objectMatches(c, pc[c].v)
  /\ pc[c].at = "delete" =>
       pc[c].v = Absent \/ (~isControlled(pc[c].v) /\ ~objectMatches(c, pc[c].v))

\* The mappings that the code has sync the virtual object.
Taking == {c \in Controllers : vApi # Absent /\ ~isControlled(vApi) /\ objectMatches(c, vApi)}

Owns(c) == pApi # Absent /\ pApi.by = c

Untaken(c) == vApi = Absent \/ (~isControlled(vApi) /\ ~objectMatches(c, vApi))

Coming == vWatch # <<>> \/ pWatch # <<>>

\* A host object c is to remove will be looked at by c.
LeftoverSeen(c) ==
  Owns(c) /\ Untaken(c) =>
     Coming \/ c \in pending \/ pc[c].at \in {"virtual", "host", "delete"}

Reversed == /\ vApi.back = Copied(vApi.back, pApi.back)
            /\ StatusReversed => vApi.status = Copied(vApi.status, pApi.status)

StatusApplied == ~StatusReversed /\ vApi.status # NoField => pApi.status = vApi.status

\* The three calls of Sync come in this order, so what a worker has passed is
\* done, and if c is at rest all of it is.
DifferenceSeen(c) ==
  Owns(c) /\ c \in Taking =>
     \/ Coming \/ c \in pending \/ pc[c].at \in {"virtual", "host", "reverse"}
     \/ pc[c].at = "status" /\ Reversed
     \/ pc[c].at = "apply" /\ Reversed /\ StatusApplied
     \/ Reversed /\ StatusApplied /\ pApi.data = vApi.data

\* An event for which enqueuePhysical will queue the request of c.
WillHear(c) ==
  \/ \E i \in DOMAIN pWatch : pWatch[i] # Absent /\ pWatch[i].by = c
  \/ pWatch # <<>> /\ Head(pWatch) = Absent /\ pCache # Absent /\ pCache.by = c

\* A host object that c is to create or take over: c is at it or will hear.
AbsenceSeen(c) ==
  c \in Taking /\ c \notin blocked =>
     \/ Owns(c) \/ vWatch # <<>> \/ c \in pending
     \/ pc[c].at \in {"virtual", "host", "reverse", "status", "apply"}
     \/ WillHear(c)

Seen(c) == Fresh(c) /\ Purposeful(c) /\ LeftoverSeen(c) /\ DifferenceSeen(c) /\ AbsenceSeen(c)

QuietInv == Inv /\ Following /\ \A c \in Controllers : Seen(c)

-----------------------------------------------------------------------------
(***************************************************************************)
(* Watches.                                                                *)
(***************************************************************************)
\* The ends of a queue of events.
LEMMA QueueEnds ==
  ASSUME NEW S, NEW s \in Seq(S)
  PROVE  /\ \A x \in S : LET t == Append(s, x)
                         IN  /\ t # <<>> /\ t[Len(t)] = x
                             /\ DOMAIN t = DOMAIN s \cup {Len(s) + 1}
                             /\ \A i \in DOMAIN s : t[i] = s[i]
                             /\ Head(t) = IF s = <<>> THEN x ELSE Head(s)
         /\ s # <<>> => LET t == Tail(s)
                        IN  /\ IF t = <<>> THEN s[Len(s)] = Head(s) ELSE t[Len(t)] = s[Len(s)]
                            /\ \A i \in DOMAIN s : (i = 1 /\ s[i] = Head(s)) \/ (i - 1 \in DOMAIN t /\ t[i - 1] = s[i])
<1>1. ASSUME NEW x \in S
      PROVE  LET t == Append(s, x)
             IN  /\ t # <<>> /\ t[Len(t)] = x
                 /\ DOMAIN t = DOMAIN s \cup {Len(s) + 1}
                 /\ \A i \in DOMAIN s : t[i] = s[i]
                 /\ Head(t) = IF s = <<>> THEN x ELSE Head(s)
  <2> DEFINE t == Append(s, x)
  <2>1. t \in Seq(S) /\ Len(t) = Len(s) + 1 /\ t # <<>> /\ t[Len(t)] = x
    OBVIOUS
  <2>2. \A i \in DOMAIN s : t[i] = s[i]
    OBVIOUS
  <2>3. DOMAIN t = DOMAIN s \cup {Len(s) + 1}
    OBVIOUS
  <2>4. Head(t) = IF s = <<>> THEN x ELSE Head(s)
    OBVIOUS
  <2> QED BY <2>1, <2>2, <2>3, <2>4
<1>2. ASSUME s # <<>>
      PROVE  LET t == Tail(s)
             IN  /\ IF t = <<>> THEN s[Len(s)] = Head(s) ELSE t[Len(t)] = s[Len(s)]
                 /\ \A i \in DOMAIN s : (i = 1 /\ s[i] = Head(s)) \/ (i - 1 \in DOMAIN t /\ t[i - 1] = s[i])
  <2> DEFINE t == Tail(s)
  <2>1. t \in Seq(S) /\ Len(t) = Len(s) - 1 /\ Len(s) > 0 /\ \A i \in 1 .. Len(t) : t[i] = s[i + 1]
    BY <1>2
  <2>2. IF t = <<>> THEN s[Len(s)] = Head(s) ELSE t[Len(t)] = s[Len(s)]
    <3>1. CASE t = <<>>
      <4>1. Len(s) = 1
        BY <2>1, <3>1
      <4> QED BY <3>1, <4>1
    <3>2. CASE t # <<>>
      <4>1. Len(t) \in 1 .. Len(t) /\ Len(t) + 1 = Len(s)
        BY <2>1, <3>2
      <4> QED BY <2>1, <3>2, <4>1
    <3> QED BY <3>1, <3>2
  <2>3. \A i \in DOMAIN s : (i = 1 /\ s[i] = Head(s)) \/ (i - 1 \in DOMAIN t /\ t[i - 1] = s[i])
    BY <2>1
  <2> QED BY <2>2, <2>3
<1> QED BY <1>1, <1>2

\* A write at the end of a watch, or none: what the cache follows stays so.
LEMMA WriteFollowed ==
  ASSUME TypeOK, Following
  PROVE  /\ \A v \in Virtual : WriteVirtual(v) /\ vCache' = vCache =>
              IF vWatch' = <<>> THEN vCache' = vApi' ELSE vWatch'[Len(vWatch')] = vApi'
         /\ \A p \in Host : WriteHost(p) /\ pCache' = pCache =>
              IF pWatch' = <<>> THEN pCache' = pApi' ELSE pWatch'[Len(pWatch')] = pApi'
         /\ \A v \in Virtual : WriteVirtual(v) => UNCHANGED virtual \/ vWatch' # <<>>
         /\ \A p \in Host : WriteHost(p) => UNCHANGED host \/ pWatch' # <<>>
<1>1. vWatch \in Seq(Virtual) /\ pWatch \in Seq(Host)
  BY DEF TypeOK
<1>2. ASSUME NEW v \in Virtual, WriteVirtual(v)
      PROVE  /\ UNCHANGED virtual \/ vWatch' # <<>>
             /\ vCache' = vCache =>
                  IF vWatch' = <<>> THEN vCache' = vApi' ELSE vWatch'[Len(vWatch')] = vApi'
  <2>1. CASE v = vApi
    BY <1>2, <2>1 DEF WriteVirtual, virtual, Following
  <2>2. CASE v # vApi
    BY <1>1, <1>2, <2>2, QueueEnds DEF WriteVirtual
  <2> QED BY <2>1, <2>2
<1>3. ASSUME NEW p \in Host, WriteHost(p)
      PROVE  /\ UNCHANGED host \/ pWatch' # <<>>
             /\ pCache' = pCache =>
                  IF pWatch' = <<>> THEN pCache' = pApi' ELSE pWatch'[Len(pWatch')] = pApi'
  <2>1. CASE p = pApi
    BY <1>3, <2>1 DEF WriteHost, host, Following
  <2>2. CASE p # pApi
    BY <1>1, <1>3, <2>2, QueueEnds DEF WriteHost
  <2> QED BY <2>1, <2>2
<1> QED BY <1>2, <1>3

\* A mapping whose host object goes, or stays its own, keeps it or hears of it.
LEMMA LossIsHeard ==
  ASSUME TypeOK, Following, NEW c \in Controllers, NEW p \in Host,
         WriteHost(p), pCache' = pCache,
         Owns(c) => p = Absent \/ p.by = c,
         Owns(c) \/ WillHear(c)
  PROVE  Owns(c)' \/ WillHear(c)'
<1>1. pWatch \in Seq(Host)
  BY DEF TypeOK
<1>2. CASE p = pApi
  BY <1>2 DEF WriteHost, Owns, WillHear
<1>3. CASE p # pApi
  <2>1. /\ pWatch' # <<>> /\ DOMAIN pWatch' = DOMAIN pWatch \cup {Len(pWatch) + 1}
        /\ \A i \in DOMAIN pWatch : pWatch'[i] = pWatch[i]
        /\ Head(pWatch') = IF pWatch = <<>> THEN p ELSE Head(pWatch)
        /\ pApi' = p
    BY <1>1, <1>3, QueueEnds DEF WriteHost
  <2>2. CASE WillHear(c)
    BY <2>1, <2>2 DEF WillHear
  <2>3. CASE Owns(c) /\ p = Absent
    <3>1. CASE pWatch = <<>>
      BY <2>1, <2>3, <3>1 DEF Following, Owns, WillHear
    <3>2. CASE pWatch # <<>>
      <4>1. Len(pWatch) \in DOMAIN pWatch /\ pWatch[Len(pWatch)] = pApi
        BY <1>1, <3>2 DEF Following
      <4> QED BY <2>1, <2>3, <4>1 DEF Owns, WillHear
    <3> QED BY <3>1, <3>2
  <2>4. CASE Owns(c) /\ p # Absent
    BY <2>1, <2>4 DEF Owns
  <2> QED BY <2>2, <2>3, <2>4
<1> QED BY <1>2, <1>3

-----------------------------------------------------------------------------
(***************************************************************************)
(* Steps that leave a controller alone.                                    *)
(***************************************************************************)
\* Writes of others are events, which c sees or hears of.
LEMMA BystanderSees ==
  ASSUME NEW c \in Controllers, Seen(c),
         pc'[c] = pc[c], c \in pending => c \in pending', c \in blocked => c \in blocked',
         vCache' = vCache, pCache' = pCache,
         UNCHANGED virtual \/ vWatch' # <<>>,
         UNCHANGED host \/ pWatch' # <<>>,
         Owns(c) \/ WillHear(c) => Owns(c)' \/ WillHear(c)' \/ c \in blocked'
  PROVE  Seen(c)'
<1>1. Fresh(c)'
  BY DEF Seen, Fresh
<1>2. Purposeful(c)'
  BY DEF Seen, Purposeful, isControlled, objectMatches
<1>3. CASE UNCHANGED virtual /\ UNCHANGED host
  <2>1. LeftoverSeen(c)'
    BY <1>3 DEF Seen, LeftoverSeen, Owns, Untaken, Coming, virtual, host, isControlled, objectMatches
  <2>2. DifferenceSeen(c)'
    BY <1>3 DEF Seen, DifferenceSeen, Owns, Coming, virtual, host, Reversed, StatusApplied, Taking,
                isControlled, objectMatches, Copied
  <2>3. AbsenceSeen(c)'
    BY <1>3 DEF Seen, AbsenceSeen, Taking, virtual, host, isControlled, objectMatches
  <2> QED BY <1>1, <1>2, <2>1, <2>2, <2>3 DEF Seen
<1>4. CASE vWatch' # <<>>
  BY <1>1, <1>2, <1>4 DEF Seen, LeftoverSeen, DifferenceSeen, AbsenceSeen, Coming
<1>5. CASE UNCHANGED virtual /\ pWatch' # <<>>
  <2>1. LeftoverSeen(c)' /\ DifferenceSeen(c)'
    BY <1>5 DEF LeftoverSeen, DifferenceSeen, Coming
  <2>2. AbsenceSeen(c)'
    BY <1>5 DEF Seen, AbsenceSeen, Taking, virtual, isControlled, objectMatches
  <2> QED BY <1>1, <1>2, <2>1, <2>2 DEF Seen
<1> QED BY <1>3, <1>4, <1>5

\* Outside events that write an object.
LEMMA MovesAreSeen ==
  ASSUME QuietInv, NEW kind
  PROVE  /\ \A v \in Virtual : MoveVirtual(kind, v) => QuietInv'
         /\ \A p \in Host : /\ MoveHost(kind, p)
                           /\ (pApi # Absent => p = Absent \/ p.by = pApi.by)
                           => QuietInv'
<1> USE DEF QuietInv
<1>1. TypeOK
  BY DEF Inv
<1>2. ASSUME NEW v \in Virtual, MoveVirtual(kind, v) PROVE QuietInv'
  <2>1. Inv'
    BY <1>2, MovesTyped
  <2>2. WriteVirtual(v) /\ UNCHANGED <<vCache, host, pCache, pending, pc, blocked>>
    BY <1>2 DEF MoveVirtual
  <2>3. Following'
    BY <1>1, <2>2, WriteFollowed DEF Following, host
  <2>4. ASSUME NEW c \in Controllers PROVE Seen(c)'
    <3>1. Owns(c) \/ WillHear(c) => Owns(c)' \/ WillHear(c)'
      BY <2>2 DEF Owns, WillHear, host
    <3> QED BY <1>1, <2>2, <3>1, WriteFollowed, BystanderSees
  <2> QED BY <2>1, <2>3, <2>4
<1>3. ASSUME NEW p \in Host, MoveHost(kind, p), pApi # Absent => p = Absent \/ p.by = pApi.by
      PROVE  QuietInv'
  <2>1. Inv'
    BY <1>3, MovesTyped
  <2>2. WriteHost(p) /\ UNCHANGED <<virtual, vCache, pCache, pending, pc, blocked>>
    BY <1>3 DEF MoveHost
  <2>3. Following'
    BY <1>1, <2>2, WriteFollowed DEF Following, virtual
  <2>4. ASSUME NEW c \in Controllers PROVE Seen(c)'
    <3>1. Owns(c) => p = Absent \/ p.by = c
      BY <1>3 DEF Owns
    <3>2. Owns(c) \/ WillHear(c) => Owns(c)' \/ WillHear(c)'
      BY <1>1, <2>2, <3>1, LossIsHeard
    <3> QED BY <1>1, <2>2, <3>2, WriteFollowed, BystanderSees
  <2> QED BY <2>1, <2>3, <2>4
<1> QED BY <1>2, <1>3

\* What users and other controllers do.
LEMMA OutsideIsSeen ==
  ASSUME QuietInv,
         \/ UserCreate \/ BackSyncerCreate \/ UserUpdate \/ UserRelabel \/ StatusSet \/ UserDelete
         \/ HostUpdate \/ HostDelete \/ HostForeign
  PROVE  QuietInv'
<1>1. /\ vApi # Absent => vApi \in VirtualObjects
      /\ pApi # Absent => pApi \in HostObjects
      /\ Absent \in Virtual /\ Absent \in Host
  BY DEF QuietInv, Inv, TypeOK, Virtual, Host
<1>2. CASE UserCreate \/ BackSyncerCreate
  <2>1. \A controlled \in BOOLEAN, l \in Labels, d \in Data : New(controlled, l, d) \in Virtual
    BY DEF New, Virtual, VirtualObjects
  <2> QED BY <1>2, <2>1, MovesAreSeen DEF UserCreate, BackSyncerCreate
<1>3. CASE UserUpdate \/ UserRelabel \/ StatusSet
  <2>1. vApi \in VirtualObjects
    BY <1>1, <1>3 DEF UserUpdate, UserRelabel, StatusSet
  <2>2. /\ \A d \in Data : [vApi EXCEPT !.data = d] \in Virtual
        /\ \A l \in Labels : [vApi EXCEPT !.label = l] \in Virtual
        /\ \A t \in Statuses : [vApi EXCEPT !.status = t] \in Virtual
    BY <2>1 DEF Virtual, VirtualObjects
  <2> QED BY <1>3, <2>2, MovesAreSeen DEF UserUpdate, UserRelabel, StatusSet
<1>4. CASE UserDelete
  BY <1>1, <1>4, MovesAreSeen DEF UserDelete
<1>5. CASE HostUpdate
  <2>1. pApi \in HostObjects
    BY <1>1, <1>5 DEF HostUpdate
  <2>2. /\ \A d \in Data : [pApi EXCEPT !.data = d] \in Host /\ [pApi EXCEPT !.data = d].by = pApi.by
        /\ \A b \in BackData : [pApi EXCEPT !.back = b] \in Host /\ [pApi EXCEPT !.back = b].by = pApi.by
        /\ \A t \in Statuses : [pApi EXCEPT !.status = t] \in Host /\ [pApi EXCEPT !.status = t].by = pApi.by
    BY <2>1 DEF Host, HostObjects
  <2> QED BY <1>5, <2>2, MovesAreSeen DEF HostUpdate
<1>6. CASE HostDelete
  BY <1>1, <1>6, MovesAreSeen DEF HostDelete
<1>7. CASE HostForeign
  <2>1. PICK d \in Data :
          MoveHost("host_foreign", [by |-> Nobody, data |-> d, back |-> NoField, status |-> NoField])
    BY <1>7 DEF HostForeign
  <2>2. [by |-> Nobody, data |-> d, back |-> NoField, status |-> NoField] \in Host
    BY DEF Host, HostObjects
  <2>3. pApi = Absent
    BY <1>7 DEF HostForeign
  <2> DEFINE new == [by |-> Nobody, data |-> d, back |-> NoField, status |-> NoField]
  <2>4. new \in Host /\ MoveHost("host_foreign", new)
    BY <2>1, <2>2
  <2> HIDE DEF new
  <2> QED BY <2>3, <2>4, MovesAreSeen
<1> QED BY <1>2, <1>3, <1>4, <1>5, <1>6, <1>7

\* The informers and a restart queue every request that may have to be looked at.
LEMMA InformersTell ==
  ASSUME QuietInv, VirtualInformer \/ HostInformer \/ Restart
  PROVE  QuietInv'
<1> USE DEF QuietInv
<1>1. Inv' /\ TypeOK
  BY ProcessKeepsInv DEF Inv
<1>2. vWatch \in Seq(Virtual) /\ pWatch \in Seq(Host)
  BY <1>1 DEF TypeOK
<1>3. CASE VirtualInformer
  <2>1. Following'
    BY <1>2, <1>3, QueueEnds DEF VirtualInformer, Following, host
  <2>2. ASSUME NEW c \in Controllers PROVE Seen(c)'
    <3>1. pc' = pc /\ c \in pending'
      BY <1>3 DEF VirtualInformer
    <3> QED BY <3>1 DEF Seen, Fresh, Purposeful, LeftoverSeen, DifferenceSeen, AbsenceSeen, isControlled, objectMatches
  <2> QED BY <1>1, <2>1, <2>2
<1>4. CASE HostInformer
  <2>1. Following'
    BY <1>2, <1>4, QueueEnds DEF HostInformer, Following, virtual
  <2>2. ASSUME NEW c \in Controllers, c \notin pending' PROVE Seen(c)'
    <3>1. /\ c \notin pending /\ pc' = pc /\ UNCHANGED <<pApi, virtual, vCache, blocked>>
          /\ pWatch # <<>> /\ pCache' = Head(pWatch) /\ pWatch' = Tail(pWatch)
          /\ ~(pCache' # Absent /\ pCache'.by = c)
          /\ ~(Head(pWatch) = Absent /\ pCache # Absent /\ pCache.by = c)
      BY <1>4, <2>2 DEF HostInformer, Managing, isExcluded, bounds
    <3>2. Fresh(c)' /\ Purposeful(c)'
      BY <3>1 DEF Seen, Fresh, Purposeful, isControlled, objectMatches
    <3>3. Owns(c)' => Coming'
      BY <2>1, <3>1 DEF Following, Owns, Coming
    <3>4. WillHear(c) => WillHear(c)'
      <4> SUFFICES ASSUME WillHear(c) PROVE WillHear(c)'
        OBVIOUS
      <4>1. PICK i \in DOMAIN pWatch : pWatch[i] # Absent /\ pWatch[i].by = c
        BY <3>1 DEF WillHear
      <4>2. i - 1 \in DOMAIN pWatch' /\ pWatch'[i - 1] = pWatch[i]
        BY <1>2, <3>1, <4>1, QueueEnds
      <4> QED BY <4>1, <4>2 DEF WillHear
    <3>5. AbsenceSeen(c)'
      BY <3>1, <3>4 DEF Seen, AbsenceSeen, Taking, Owns, virtual, isControlled, objectMatches
    <3> QED BY <3>2, <3>3, <3>5 DEF Seen, LeftoverSeen, DifferenceSeen
  <2>3. ASSUME NEW c \in Controllers, c \in pending' PROVE Seen(c)'
    <3>1. pc' = pc
      BY <1>4 DEF HostInformer
    <3> QED BY <2>3, <3>1
         DEF Seen, Fresh, Purposeful, LeftoverSeen, DifferenceSeen, AbsenceSeen, isControlled, objectMatches
  <2> QED BY <1>1, <2>1, <2>2, <2>3
<1>5. CASE Restart
  <2>1. Following'
    BY <1>5 DEF Restart, Following
  <2>2. ASSUME NEW c \in Controllers PROVE Seen(c)'
    <3>1. /\ pc'[c].at = "idle" /\ UNCHANGED <<vApi, pApi>>
          /\ vApi # Absent \/ Owns(c) => c \in pending'
      BY <1>5 DEF Restart, Idle, Managing, isExcluded, Owns
    <3>2. Fresh(c)' /\ Purposeful(c)'
      BY <3>1 DEF Fresh, Purposeful
    <3>3. LeftoverSeen(c)' /\ DifferenceSeen(c)' /\ AbsenceSeen(c)'
      BY <3>1 DEF LeftoverSeen, DifferenceSeen, AbsenceSeen, Taking, Owns
    <3> QED BY <3>2, <3>3 DEF Seen
  <2> QED BY <1>1, <2>1, <2>2
<1> QED BY <1>3, <1>4, <1>5
-----------------------------------------------------------------------------
(***************************************************************************)
(* Steps of a worker.                                                      *)
(***************************************************************************)
\* A worker's step writes at most one object on each side, at the end of its
\* watch, and takes the host object from another mapping only by displacing it.
LEMMA WorkerWrites ==
  ASSUME QuietInv, NEW c \in Controllers, Take(c) \/ Work(c) \/ CallFails(c)
  PROVE  /\ vApi' \in Virtual /\ WriteVirtual(vApi') /\ vCache' = vCache
         /\ pApi' \in Host /\ WriteHost(pApi') /\ pCache' = pCache
         /\ \A d \in Controllers \ {c} :
              /\ pc'[d] = pc[d] /\ (d \in pending => d \in pending') /\ (d \in blocked => d \in blocked')
              /\ Owns(d) => pApi' = Absent \/ pApi'.by = d \/ d \in blocked'
<1> USE DEF QuietInv
<1>1. Inv' /\ pApi \in Host /\ pc \in [Controllers -> [at : Places, v : Virtual, p : Host]]
  BY WorkKeepsInv DEF Inv, TypeOK
<1>2. vApi' \in Virtual /\ pApi' \in Host /\ (pApi # Absent => pApi \in HostObjects)
  BY <1>1 DEF Inv, TypeOK, Host
<1>3. /\ UNCHANGED virtual => WriteVirtual(vApi')
      /\ UNCHANGED host => WriteHost(pApi') /\ \A d : Owns(d) => pApi'.by = d
      /\ \A v : WriteVirtual(v) => v = vApi'
      /\ \A p : WriteHost(p) => p = pApi'
      /\ \A at, v, p : Goto(c, at, v, p) => \A d \in Controllers \ {c} : pc'[d] = pc[d]
      /\ Done(c) \/ ReturnError(c) => \A d \in Controllers \ {c} : pc'[d] = pc[d] /\ (d \in pending => d \in pending')
  BY <1>1 DEF WriteVirtual, WriteHost, virtual, host, Owns, Goto, Done, ReturnError
<1>4. CASE Take(c)
  BY <1>2, <1>3, <1>4 DEF Take, bounds
<1>5. CASE GetVirtual(c)
  BY <1>2, <1>3, <1>5 DEF GetVirtual, bounds
<1>6. CASE GetHost(c)
  <2>1. \E at, v, p : Done(c) \/ (Goto(c, at, v, p) /\ pending' = pending)
    BY <1>6 DEF GetHost
  <2>2. \A d \in Controllers \ {c} : d \in blocked => d \in blocked'
    BY <1>6 DEF GetHost, Blocked
  <2>3. UNCHANGED <<virtual, vCache, host, pCache>>
    BY <1>6 DEF GetHost
  <2> QED BY <1>2, <1>3, <2>1, <2>2, <2>3
<1>7. CASE DeletePhysical(c)
  <2>1. WriteHost(Absent) /\ UNCHANGED <<virtual, vCache, pCache, bounds>> /\ (Done(c) \/ ReturnError(c))
    BY <1>7 DEF DeletePhysical
  <2>2. pApi' = Absent
    BY <1>3, <2>1
  <2> QED BY <1>2, <1>3, <2>1, <2>2 DEF bounds
<1>8. CASE ApplyReversePatches(c)
  <2>1. \E at, v, p, new :
          \/ Goto(c, at, v, p) /\ UNCHANGED <<virtual, pending>>
          \/ ReturnError(c) /\ UNCHANGED virtual
          \/ WriteVirtual(new) /\ Done(c)
    BY <1>8 DEF ApplyReversePatches
  <2>2. UNCHANGED <<vCache, host, pCache, bounds>>
    BY <1>8 DEF ApplyReversePatches
  <2>3. WriteVirtual(vApi')
    BY <1>3, <2>1
  <2> QED BY <1>2, <1>3, <2>1, <2>2, <2>3 DEF bounds
<1>9. CASE ApplyStatus(c)
  <2>1. UNCHANGED <<virtual, vCache, pCache, bounds>>
    BY <1>9 DEF ApplyStatus
  <2>2. CASE pApi = Absent
    BY <1>2, <1>3, <1>9, <2>1, <2>2 DEF ApplyStatus, bounds
  <2>3. CASE pApi # Absent
    <3>1. /\ WriteHost([pApi EXCEPT !.status = pc[c].v.status])
          /\ Goto(c, "apply", pc[c].v, pc[c].p) /\ pending' = pending
      BY <1>9, <2>3 DEF ApplyStatus
    <3>2. pApi' = [pApi EXCEPT !.status = pc[c].v.status]
      BY <1>3, <3>1
    <3>3. WriteHost(pApi') /\ pApi'.by = pApi.by
      BY <1>2, <2>3, <3>1, <3>2 DEF HostObjects
    <3> QED BY <1>2, <1>3, <2>1, <3>1, <3>3 DEF bounds, Owns
  <2> QED BY <2>2, <2>3
<1>10. CASE ApplyPatches(c)
  <2>1. UNCHANGED <<virtual, vCache, pCache>> /\ Done(c) /\ blocked' = Displaced(c)
    BY <1>10 DEF ApplyPatches
  <2>2. \E p : WriteHost(p)
    BY <1>10 DEF ApplyPatches
  <2>3. WriteHost(pApi')
    BY <1>3, <2>2
  <2>4. \A d \in Controllers \ {c} : (d \in blocked => d \in blocked') /\ (Owns(d) => d \in blocked')
    BY <2>1, ValuesAssumption DEF Displaced, Owns
  <2> QED BY <1>2, <1>3, <2>1, <2>3, <2>4
<1>11. CASE CallFails(c)
  BY <1>2, <1>3, <1>11 DEF CallFails
<1> QED BY <1>4, <1>5, <1>6, <1>7, <1>8, <1>9, <1>10, <1>11 DEF Work

\* A worker that is queued again, or at the start of a Reconcile, sees all.
LEMMA QueuedSees ==
  ASSUME NEW c \in Controllers
  PROVE  /\ c \in pending' /\ pc'[c].at \in {"idle", "virtual"} => Seen(c)'
         /\ pc'[c].at = "virtual" => Seen(c)'
BY DEF Seen, Fresh, Purposeful, LeftoverSeen, DifferenceSeen, AbsenceSeen

\* What a worker holds is what the API servers have, if nothing is coming.
LEMMA HoldsCurrent ==
  ASSUME QuietInv, NEW c \in Controllers, c \notin pending
  PROVE  /\ vWatch = <<>> /\ pc[c].at \notin {"idle", "virtual"} => pc[c].v = vApi
         /\ pWatch = <<>> /\ pc[c].at \notin {"idle", "virtual", "host"} /\ Owns(c) => pc[c].p = pApi
BY DEF QuietInv, Following, Seen, Fresh, Owns

\* The host object was read: whatever the worker does, or leaves, is right.
LEMMA GetHostSees ==
  ASSUME QuietInv, NEW c \in Controllers, GetHost(c)
  PROVE  Seen(c)'
<1> DEFINE v == pc[c].v
           p == pCache
           at == IF v = Absent /\ p = Absent THEN "idle"
                 ELSE IF v = Absent THEN SyncUp(c, p)
                 ELSE IF p = Absent THEN SyncDown(c, v)
                 ELSE Sync(c, v, p)
<1>1. /\ IF at = "idle" THEN Done(c) ELSE Goto(c, at, v, p) /\ pending' = pending
      /\ blocked' = Blocked(c, v, p)
      /\ UNCHANGED <<virtual, vCache, host, pCache>>
      /\ pc[c].at = "host"
  BY DEF GetHost, At
<1>2. pc \in [Controllers -> [at : Places, v : Virtual, p : Host]] /\ pApi \in Host /\ vApi \in Virtual
  BY DEF QuietInv, Inv, TypeOK
<1>3. /\ at = "idle" =>
           \/ v = Absent /\ (p = Absent \/ p.by # c)
           \/ v # Absent /\ isControlled(v)
           \/ v # Absent /\ p # Absent /\ p.by # c
           \/ v # Absent /\ p = Absent /\ ~objectMatches(c, v)
      /\ at \in {"reverse", "status", "apply"} => v # Absent /\ ~isControlled(v) /\ objectMatches(c, v)
      /\ at = "delete" => v = Absent \/ (~isControlled(v) /\ ~objectMatches(c, v))
      /\ at \in {"status", "apply"} => p = Absent
      /\ at \in {"idle", "reverse", "status", "apply", "delete"}
  BY DEF SyncUp, SyncDown, Sync, ApplyPlace, isExcluded
<1> HIDE DEF at
<1>4. /\ pc'[c].at = at /\ pending' = pending
      /\ at # "idle" => pc'[c].v = v /\ pc'[c].p = p
  BY <1>1, <1>2 DEF Goto, Done, Idle
<1>5. CASE c \in pending
  <2>1. c \in pending'
    BY <1>4, <1>5
  <2>2. Purposeful(c)'
    BY <1>3, <1>4 DEF Purposeful, isControlled, objectMatches
  <2> QED BY <2>1, <2>2 DEF Seen, Fresh, LeftoverSeen, DifferenceSeen, AbsenceSeen
<1>6. CASE c \notin pending
  <2>1. v = vCache /\ (vWatch = <<>> => v = vApi) /\ (pWatch = <<>> => p = pApi)
    BY <1>1, <1>6 DEF QuietInv, Seen, Fresh, Following
  <2>2. Fresh(c)' /\ Purposeful(c)'
    BY <1>1, <1>3, <1>4, <2>1 DEF Fresh, Purposeful, isControlled, objectMatches
  <2>3. LeftoverSeen(c)'
    BY <1>1, <1>3, <1>4, <2>1 DEF LeftoverSeen, Owns, Untaken, Coming, virtual, host, isControlled, objectMatches
  <2>4. DifferenceSeen(c)'
    BY <1>1, <1>3, <1>4, <2>1 DEF DifferenceSeen, Owns, Taking, Coming, virtual, host, isControlled, objectMatches
  <2>5. AbsenceSeen(c)'
    <3>1. SUFFICES ASSUME at \in {"idle", "delete"}, vWatch = <<>>, c \in Taking PROVE c \in blocked'
      BY <1>1, <1>3, <1>4 DEF AbsenceSeen, Taking, virtual, isControlled, objectMatches
    <3>2. v # Absent /\ ~isControlled(v) /\ objectMatches(c, v)
      BY <2>1, <3>1 DEF Taking
    <3>3. p # Absent /\ p.by # c
      BY <1>3, <3>1, <3>2
    <3> QED BY <1>1, <3>2, <3>3 DEF Blocked, isExcluded
  <2> QED BY <2>2, <2>3, <2>4, <2>5 DEF Seen
<1> QED BY <1>5, <1>6

\* Reverse patches: there was nothing to copy, the request is queued again, or
\* the update brings an event.
LEMMA ReverseSees ==
  ASSUME QuietInv, NEW c \in Controllers, ApplyReversePatches(c)
  PROVE  Seen(c)'
<1> DEFINE v == pc[c].v
           p == pc[c].p
           status == IF StatusReversed THEN Copied(v.status, p.status) ELSE v.status
           back == Copied(v.back, p.back)
           new == IF status # v.status THEN [v EXCEPT !.status = status] ELSE [v EXCEPT !.back = back]
<1>1. pc \in [Controllers -> [at : Places, v : Virtual, p : Host]] /\ pc[c].at = "reverse"
  BY DEF QuietInv, Inv, TypeOK, ApplyReversePatches, At
<1>2. /\ v # Absent /\ v \in VirtualObjects /\ p \in HostObjects
      /\ ~isControlled(v) /\ objectMatches(c, v)
  BY <1>1 DEF QuietInv, Inv, Holding, Seen, Purposeful, Virtual, Host
<1>3. CASE status = v.status /\ back = v.back
  <2>1. Goto(c, ApplyPlace(v), v, p) /\ UNCHANGED <<virtual, pending, vCache, host, pCache>>
    BY <1>3 DEF ApplyReversePatches
  <2>2. /\ pc'[c].at \in {"status", "apply"} /\ pc'[c].v = v /\ pc'[c].p = p
        /\ pc'[c].at = "apply" => v.status = NoField \/ StatusReversed
    BY <1>1, <2>1 DEF Goto, ApplyPlace
  <2>3. Fresh(c)' /\ Purposeful(c)'
    BY <1>1, <1>2, <2>1, <2>2 DEF QuietInv, Seen, Fresh, Purposeful, isControlled, objectMatches
  <2>4. AbsenceSeen(c)'
    BY <2>2 DEF AbsenceSeen
  <2>5. ASSUME c \notin pending, vWatch = <<>>, pWatch = <<>>, Owns(c)
        PROVE  /\ ~Untaken(c) /\ Reversed
               /\ pc'[c].at = "apply" => StatusApplied
    <3>1. v = vApi /\ p = pApi
      BY <1>1, <2>5, HoldsCurrent
    <3> QED BY <1>2, <1>3, <2>2, <3>1 DEF Untaken, Reversed, StatusApplied
  <2>6. LeftoverSeen(c)'
    BY <2>1, <2>5 DEF LeftoverSeen, Coming, Owns, Untaken, virtual, host, isControlled, objectMatches
  <2>7. DifferenceSeen(c)'
    BY <2>1, <2>2, <2>5 DEF DifferenceSeen, Coming, Owns, Taking, Reversed, StatusApplied, virtual, host
  <2> QED BY <2>3, <2>4, <2>6, <2>7 DEF Seen
<1>4. CASE ~(status = v.status /\ back = v.back) /\ vApi # v
  <2>1. ReturnError(c)
    BY <1>4 DEF ApplyReversePatches
  <2>2. c \in pending' /\ pc'[c].at = "idle"
    BY <1>1, <2>1 DEF ReturnError, Idle
  <2> QED BY <2>2, QueuedSees
<1>5. CASE ~(status = v.status /\ back = v.back) /\ vApi = v
  <2>1. WriteVirtual(new) /\ Done(c)
    BY <1>5 DEF ApplyReversePatches
  <2>2. new # vApi
    <3>1. CASE status # v.status
      <4>1. new.status = status
        BY <1>2, <3>1 DEF VirtualObjects
      <4> QED BY <1>5, <3>1, <4>1
    <3>2. CASE status = v.status
      <4>1. new.back = back
        BY <1>2, <3>2 DEF VirtualObjects
      <4> QED BY <1>5, <3>2, <4>1
    <3> QED BY <3>1, <3>2
  <2>3. vWatch' # <<>>
    <3>1. new \in Virtual
      BY <1>2 DEF Virtual, VirtualObjects, HostObjects, Copied
    <3>2. vWatch \in Seq(Virtual)
      BY DEF QuietInv, Inv, TypeOK
    <3> HIDE DEF new
    <3> QED BY <2>1, <2>2, <3>1, <3>2, QueueEnds DEF WriteVirtual
  <2>4. pc'[c].at = "idle"
    BY <1>1, <2>1 DEF Done, Idle
  <2> QED BY <2>3, <2>4 DEF Seen, Fresh, Purposeful, LeftoverSeen, DifferenceSeen, AbsenceSeen, Coming
<1> QED BY <1>3, <1>4, <1>5

\* Status: it is there now, or the write brings an event.
LEMMA StatusSees ==
  ASSUME QuietInv, NEW c \in Controllers, ApplyStatus(c)
  PROVE  Seen(c)'
<1> DEFINE v == pc[c].v
<1>1. /\ pc \in [Controllers -> [at : Places, v : Virtual, p : Host]] /\ pc[c].at = "status"
      /\ pApi # Absent => pApi \in HostObjects
  BY DEF QuietInv, Inv, TypeOK, ApplyStatus, At, Host
<1>2. CASE pApi = Absent
  <2>1. c \in pending' /\ pc'[c].at = "idle"
    BY <1>1, <1>2 DEF ApplyStatus, ReturnError, Idle
  <2> QED BY <2>1, QueuedSees
<1>3. CASE pApi # Absent
  <2>1. /\ WriteHost([pApi EXCEPT !.status = v.status])
        /\ Goto(c, "apply", v, pc[c].p) /\ pending' = pending
        /\ UNCHANGED <<virtual, vCache, pCache>>
    BY <1>3 DEF ApplyStatus
  <2>2. pApi' = [pApi EXCEPT !.status = v.status]
    BY <2>1 DEF WriteHost
  <2>3. pApi'.status = v.status
    BY <1>1, <1>3, <2>2 DEF HostObjects
  <2>4. pc'[c].at = "apply" /\ pc'[c].v = v /\ pc'[c].p = pc[c].p
    BY <1>1, <2>1 DEF Goto
  <2>5. v # Absent /\ ~isControlled(v) /\ objectMatches(c, v)
    BY <1>1 DEF QuietInv, Seen, Purposeful
  <2>6. Fresh(c)' /\ Purposeful(c)' /\ AbsenceSeen(c)'
    BY <1>1, <2>1, <2>4, <2>5
       DEF QuietInv, Seen, Fresh, Purposeful, AbsenceSeen, isControlled, objectMatches
  <2>7. ASSUME c \notin pending', vWatch' = <<>>, pWatch' = <<>>, Owns(c)'
        PROVE  UNCHANGED <<virtual, host>> /\ v = vApi /\ Owns(c) /\ ~Untaken(c)
    <3>1. UNCHANGED <<virtual, host>>
      BY <2>1, <2>2, <2>7, WorkerWrites, WriteFollowed DEF QuietInv, Inv, Work
    <3>2. v = vApi
      BY <1>1, <2>1, <2>7, <3>1, HoldsCurrent DEF virtual
    <3> QED BY <2>5, <2>7, <3>1, <3>2 DEF Owns, Untaken, host
  <2>8. LeftoverSeen(c)'
    BY <2>1, <2>7 DEF LeftoverSeen, Coming, Untaken, virtual, isControlled, objectMatches
  <2>9. DifferenceSeen(c)'
    <3>1. SUFFICES ASSUME c \notin pending', vWatch' = <<>>, pWatch' = <<>>, Owns(c)', c \in Taking'
                   PROVE  Reversed' /\ StatusApplied'
      BY <2>4 DEF DifferenceSeen, Coming
    <3>2. UNCHANGED <<virtual, host>> /\ v = vApi /\ Owns(c)
      BY <2>7, <3>1
    <3>3. c \in Taking /\ c \notin pending /\ ~Coming
      BY <2>1, <3>1, <3>2 DEF Taking, Coming, virtual, host, isControlled, objectMatches
    <3>4. Reversed
      BY <1>1, <3>2, <3>3 DEF QuietInv, Seen, DifferenceSeen
    <3> QED BY <2>3, <3>2, <3>4 DEF Reversed, StatusApplied, virtual, host, Copied
  <2> QED BY <2>6, <2>8, <2>9 DEF Seen
<1> QED BY <1>2, <1>3

\* The object itself: it is there now and is c's.
LEMMA PatchesSee ==
  ASSUME QuietInv, NEW c \in Controllers, ApplyPatches(c)
  PROVE  Seen(c)'
<1> DEFINE v == pc[c].v
           new == IF pApi = Absent
                  THEN [by |-> c, data |-> v.data, back |-> NoField, status |-> NoField]
                  ELSE [pApi EXCEPT !.by = c, !.data = v.data]
<1>1. /\ pc \in [Controllers -> [at : Places, v : Virtual, p : Host]] /\ pc[c].at = "apply"
      /\ pApi # Absent => pApi \in HostObjects
  BY DEF QuietInv, Inv, TypeOK, ApplyPatches, At, Host
<1>2. v # Absent /\ v \in VirtualObjects /\ ~isControlled(v) /\ objectMatches(c, v)
  BY <1>1 DEF QuietInv, Seen, Purposeful, Virtual
<1>3. WriteHost(new) /\ Done(c) /\ UNCHANGED <<virtual, vCache, pCache>>
  BY DEF ApplyPatches
<1>4. new \in HostObjects /\ new.by = c /\ new.data = v.data
  BY <1>1, <1>2 DEF HostObjects, VirtualObjects
<1> HIDE DEF new
<1>5. pApi' = new /\ Owns(c)' /\ pApi'.data = v.data
  BY <1>3, <1>4, AbsentAssumption DEF WriteHost, Owns
<1>6. pc'[c].at = "idle" /\ pending' = pending
  BY <1>1, <1>3 DEF Done, Idle
<1>7. Fresh(c)' /\ Purposeful(c)' /\ AbsenceSeen(c)'
  BY <1>5, <1>6 DEF Fresh, Purposeful, AbsenceSeen
<1>8. ASSUME c \notin pending', vWatch' = <<>>, pWatch' = <<>>
      PROVE  UNCHANGED <<virtual, host>> /\ v = vApi /\ Owns(c) /\ ~Untaken(c)
  <2>1. UNCHANGED <<virtual, host>>
    BY <1>3, <1>5, <1>8, WorkerWrites, WriteFollowed DEF QuietInv, Inv, Work
  <2>2. v = vApi
    BY <1>1, <1>6, <1>8, <2>1, HoldsCurrent DEF virtual
  <2> QED BY <1>2, <1>5, <2>1, <2>2 DEF Owns, Untaken, host
<1>9. LeftoverSeen(c)'
  BY <1>3, <1>8 DEF LeftoverSeen, Coming, Untaken, virtual, isControlled, objectMatches
<1>10. DifferenceSeen(c)'
  <2>1. SUFFICES ASSUME c \notin pending', vWatch' = <<>>, pWatch' = <<>>, c \in Taking'
                 PROVE  Reversed' /\ StatusApplied' /\ pApi'.data = vApi'.data
    BY DEF DifferenceSeen, Coming
  <2>2. UNCHANGED <<virtual, host>> /\ v = vApi /\ Owns(c)
    BY <1>8, <2>1
  <2>3. c \in Taking /\ c \notin pending /\ ~Coming
    BY <1>6, <2>1, <2>2 DEF Taking, Coming, virtual, host, isControlled, objectMatches
  <2>4. Reversed /\ StatusApplied
    BY <1>1, <2>2, <2>3 DEF QuietInv, Seen, DifferenceSeen
  <2> QED BY <1>5, <2>2, <2>4 DEF Reversed, StatusApplied, virtual, host, Copied
<1> QED BY <1>7, <1>9, <1>10 DEF Seen

\* The deletion of a host object: it was not wanted, or the request is queued.
LEMMA DeleteSees ==
  ASSUME QuietInv, NEW c \in Controllers, DeletePhysical(c)
  PROVE  Seen(c)'
<1>1. /\ pc \in [Controllers -> [at : Places, v : Virtual, p : Host]] /\ pc[c].at = "delete"
      /\ pApi' = Absent /\ UNCHANGED virtual
      /\ Done(c) \/ ReturnError(c)
  BY DEF QuietInv, Inv, TypeOK, DeletePhysical, At, WriteHost
<1>2. pc'[c].at = "idle" /\ (c \in pending => c \in pending')
  BY <1>1 DEF Done, ReturnError, Idle
<1>3. Fresh(c)' /\ Purposeful(c)' /\ LeftoverSeen(c)' /\ DifferenceSeen(c)'
  BY <1>1, <1>2 DEF Fresh, Purposeful, LeftoverSeen, DifferenceSeen, Owns
<1>4. AbsenceSeen(c)'
  <2>1. c \notin pending /\ vWatch = <<>> => c \notin Taking
    BY <1>1, HoldsCurrent DEF QuietInv, Seen, Purposeful, Taking
  <2> QED BY <1>1, <1>2, <2>1 DEF AbsenceSeen, Taking, virtual, isControlled, objectMatches
<1> QED BY <1>3, <1>4 DEF Seen

\* Every step of a worker.
LEMMA WorkIsSeen ==
  ASSUME QuietInv, NEW c \in Controllers, Take(c) \/ Work(c) \/ CallFails(c)
  PROVE  QuietInv'
<1>1. Inv' /\ TypeOK /\ Following
  BY WorkKeepsInv DEF QuietInv, Inv
<1>2. Following'
  BY <1>1, WorkerWrites, WriteFollowed DEF Following
<1>3. ASSUME NEW d \in Controllers \ {c} PROVE Seen(d)'
  <2>1. Owns(d) \/ WillHear(d) => Owns(d)' \/ WillHear(d)' \/ d \in blocked'
    BY <1>1, <1>3, WorkerWrites, LossIsHeard
  <2> QED BY <1>1, <1>3, <2>1, WorkerWrites, WriteFollowed, BystanderSees DEF QuietInv
<1>4. Seen(c)'
  <2>1. pc \in [Controllers -> [at : Places, v : Virtual, p : Host]]
    BY <1>1 DEF TypeOK
  <2>2. CASE Take(c)
    <3>1. pc'[c].at = "virtual"
      BY <2>1, <2>2 DEF Take, Goto
    <3> QED BY <3>1, QueuedSees
  <2>3. CASE GetVirtual(c)
    <3>1. pc'[c].at = "host" /\ pc'[c].v = vCache /\ vCache' = vCache
      BY <2>1, <2>3 DEF GetVirtual, Goto
    <3> QED BY <3>1 DEF Seen, Fresh, Purposeful, LeftoverSeen, DifferenceSeen, AbsenceSeen
  <2>4. CASE CallFails(c)
    <3>1. c \in pending' /\ pc'[c].at = "idle"
      BY <2>1, <2>4 DEF CallFails, ReturnError, Idle
    <3> QED BY <3>1, QueuedSees
  <2> QED BY <2>2, <2>3, <2>4, GetHostSees, ReverseSees, StatusSees, PatchesSee, DeleteSees DEF Work
<1> QED BY <1>1, <1>2, <1>3, <1>4 DEF QuietInv

\* The invariant is inductive.
LEMMA QuietInvInit == Init => QuietInv
<1> SUFFICES ASSUME Init PROVE QuietInv
  OBVIOUS
<1>1. Inv
  BY InvInit
<1>2. Following
  BY DEF Init, Following
<1>3. ASSUME NEW c \in Controllers PROVE Seen(c)
  <2>1. pc[c].at = "idle" /\ pApi = Absent /\ vApi = Absent
    BY DEF Init, Idle
  <2> QED BY <2>1 DEF Seen, Fresh, Purposeful, LeftoverSeen, DifferenceSeen, AbsenceSeen, Owns, Taking
<1> QED BY <1>1, <1>2, <1>3 DEF QuietInv

LEMMA QuietInvNext == QuietInv /\ [Next]_vars => QuietInv'
<1> SUFFICES ASSUME QuietInv, [Next]_vars PROVE QuietInv'
  OBVIOUS
<1>1. CASE UNCHANGED vars
  <2>1. Inv' /\ Following'
    BY <1>1, InvNext DEF QuietInv, Following, vars
  <2>2. ASSUME NEW c \in Controllers PROVE Seen(c)'
    BY <1>1, BystanderSees DEF QuietInv, vars, virtual, host, Owns, WillHear
  <2> QED BY <2>1, <2>2 DEF QuietInv
<1>2. CASE Next
  BY <1>2, OutsideIsSeen, InformersTell, WorkIsSeen DEF Next
<1> QED BY <1>1, <1>2

-----------------------------------------------------------------------------
\* With such selectors, objectMatches takes the objects that are wanted.
LEMMA TakesWhatIsWanted ==
  ASSUME SelectorsExclude, NEW c \in Controllers, NEW v \in VirtualObjects
  PROVE  objectMatches(c, v) <=> v.label \in Wanted[c]
BY DEF SelectorsExclude, VirtualObjects, objectMatches

\* When all is quiet no mapping has left a host object behind for a virtual
\* object it is not meant to sync, for any number of mappings, any division of
\* the objects and after any sequence of edits, deletions, failed calls and
\* restarts.  The selectors must match what is not to be synced.
THEOREM NothingIsLeftBehind ==
  ASSUME SelectorsExclude PROVE Spec => []QuietMeansNoLeftover
<1>1. QuietInv => QuietMeansNoLeftover
  <2> SUFFICES ASSUME QuietInv, Quiet, pApi # Absent, pApi.by # Nobody
               PROVE  vApi # Absent /\ (isControlled(vApi) \/ objectMatches(pApi.by, vApi))
    BY TakesWhatIsWanted DEF QuietMeansNoLeftover, QuietInv, Inv, TypeOK, Host, HostObjects, Virtual
  <2>1. pApi.by \in Controllers
    BY DEF QuietInv, Inv, TypeOK, Host, HostObjects
  <2>2. LeftoverSeen(pApi.by) /\ Owns(pApi.by)
    BY <2>1 DEF QuietInv, Seen, Owns
  <2> QED BY <2>1, <2>2 DEF LeftoverSeen, Untaken, Coming, Quiet, Idle
<1> QED BY <1>1, QuietInvInit, QuietInvNext, PTL DEF Spec

\* When all is quiet the host object of a virtual object that is to be synced
\* is there, belongs to a mapping that is meant to sync it, and agrees with it in
\* both directions, whatever the order of edits, stale reads and partial updates.
\* The selectors must match what is not to be synced.
THEOREM InStepWhenQuiet ==
  ASSUME SelectorsExclude PROVE Spec => []QuietMeansInStep
<1>1. QuietInv => QuietMeansInStep
  <2> SUFFICES ASSUME QuietInv, Quiet, NEW c \in Wanting \ blocked PROVE InStep
    BY DEF QuietMeansInStep
  <2>1. c \in Controllers /\ vApi \in VirtualObjects /\ vApi.label \in Wanted[c] /\ Seen(c)
    BY DEF QuietInv, Inv, TypeOK, Virtual, Wanting
  <2>2. c \in Taking
    BY <2>1, TakesWhatIsWanted DEF Taking, Wanting
  <2>3. Owns(c)
    BY <2>1, <2>2 DEF Seen, AbsenceSeen, WillHear, Quiet, Idle
  <2>4. Reversed /\ StatusApplied /\ pApi.data = vApi.data
    BY <2>1, <2>2, <2>3 DEF Seen, DifferenceSeen, Coming, Quiet, Idle
  <2> QED BY <2>1, <2>3, <2>4 DEF InStep, Owns, Reversed, StatusApplied
<1> QED BY <1>1, QuietInvInit, QuietInvNext, PTL DEF Spec
=============================================================================
