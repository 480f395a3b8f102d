--------------------- MODULE BlockingCacheClientProofs ---------------------
(***************************************************************************)
(* A write that returned without an error is visible in the cache, for     *)
(* every number of polls and every history of the object.                  *)
(*                                                                         *)
(* The polling compares what the cache shows with the object at hand, and  *)
(* nothing else; that this tells earlier from later states is due to the   *)
(* order of the log: versions grow, the states of one object are next to   *)
(* each other, and a deletion timestamp stays.                             *)
(***************************************************************************)
EXTENDS BlockingCacheClient, TLAPS

Positions == 1..Len(log)

\* No state of the log is newer than the API server's revision.
Bounded == \A i \in Positions :
  log[i] # Absent => log[i].uid <= revision /\ log[i].version <= revision

VersionsGrow == \A i, j \in Positions :
  i < j /\ log[i] # Absent /\ log[j] # Absent => log[i].version < log[j].version

\* Between two states of one object there are only states of that object.
Contiguous == \A i, j, k \in Positions :
  i <= k /\ k <= j /\ log[i] # Absent /\ log[j] # Absent /\ log[i].uid = log[j].uid
    => log[k] # Absent /\ log[k].uid = log[i].uid

DeletionStays == \A i, j \in Positions :
  i < j /\ log[i] # Absent /\ log[j] # Absent /\ log[i].uid = log[j].uid /\ log[i].deleting
    => log[j].deleting

LogOrder == Bounded /\ VersionsGrow /\ Contiguous /\ DeletionStays

\* What the write left in the log.
Made == CASE call.op = "create" -> call.at >= 2 /\ log[call.at - 1] = Absent
          [] call.op = "update" -> /\ log[call.at] # Absent
                                   /\ log[call.at].uid = call.uid
                                   /\ log[call.at].version = call.version
          [] call.op = "delete" -> /\ call.at >= 2 /\ log[call.at - 1] # Absent
                                   /\ log[call.at - 1].uid = call.uid
                                   /\ ~log[call.at - 1].deleting

\* What the cache shows while it does not show the write.
Before == CASE call.op = "create" -> seen = call.at - 1
            [] call.op = "update" -> /\ cache # Absent /\ cache.uid = call.uid
                                     /\ SameLength(cache.version, call.version)
            [] call.op = "delete" -> cache # Absent /\ cache.uid = call.uid

Waiting == /\ call.at \in Positions
           /\ Made
           /\ seen < call.at => Before

WaitsSoundly == blocking /\ call.promised /\ result = "polling" => Waiting

IInv == TypeOK /\ LogOrder /\ WaitsSoundly /\ BlocksUntilVisible

-----------------------------------------------------------------------------
\* Of two versions with as many digits, the greater number is the greater
\* string.
LEMMA StringOrder ==
  ASSUME NEW m \in 1..99, NEW n \in 1..99, m < n, SameLength(m, n)
  PROVE  ~StringAtLeast(m, n)
<1>1. CASE n < 10
  BY <1>1 DEF StringAtLeast, SameLength, FirstDigit
<1>2. CASE n >= 10
  <2>1. m >= 10
    BY <1>2 DEF SameLength
  <2>2. m = 10 * (m \div 10) + (m % 10) /\ n = 10 * (n \div 10) + (n % 10)
    OBVIOUS
  <2>3. m \div 10 \in Nat /\ n \div 10 \in Nat /\ m % 10 \in 0..9 /\ n % 10 \in 0..9
    OBVIOUS
  <2> QED
    BY <1>2, <2>1, <2>2, <2>3 DEF StringAtLeast, FirstDigit
<1> QED
  BY <1>1, <1>2

\* The three kinds of write the API server does keep the log in order.
LEMMA WriteKeepsOrder ==
  ASSUME TypeOK, LogOrder,
         NEW o, Write(o),
         \/ o = Absent
         \/ api = Absent /\ o = Fresh
         \/ api # Absent /\ o = Changed
         \/ api # Absent /\ o = [api EXCEPT !.version = NextRevision, !.deleting = TRUE]
  PROVE  /\ log' \in Seq(Objects \cup {Absent}) /\ log' # <<>>
         /\ revision' \in Revisions
         /\ Len(log') = Len(log) + 1
         /\ \A i \in Positions : log'[i] = log[i]
         /\ log'[Len(log) + 1] = o
         /\ LogOrder'
<1> USE DEF Positions
<1>1. /\ revision \in Nat /\ NextRevision = revision + 1 /\ NextRevision \in Revisions
      /\ revision' = revision + 1 /\ log' = Append(log, o)
  BY RevisionsAssumption DEF TypeOK, Write, NextRevision, Revisions
<1>2. api \in Objects \cup {Absent} /\ Len(log) \in Positions /\ Len(log) \in Nat
  BY DEF TypeOK, api
<1>3. o \in Objects \cup {Absent}
  <2>1. Fresh \in Objects
    BY <1>1 DEF Fresh, Objects
  <2>2. ASSUME api # Absent
        PROVE  Changed \in Objects /\ [api EXCEPT !.version = NextRevision, !.deleting = TRUE] \in Objects
    BY <1>1, <1>2, <2>2 DEF Changed, Objects
  <2> QED
    BY <2>1, <2>2
<1>4. Len(log') = Len(log) + 1 /\ log' \in Seq(Objects \cup {Absent}) /\ log' # <<>>
  BY <1>1, <1>3 DEF TypeOK
<1>5. (\A i \in Positions : log'[i] = log[i]) /\ log'[Len(log) + 1] = o
  BY <1>1, <1>2, <1>3 DEF TypeOK
<1>6. \A i \in Positions : log[i] \in Objects \cup {Absent}
  BY DEF TypeOK
<1>7. ASSUME o # Absent
      PROVE  /\ o.version = revision + 1
             /\ (api = Absent /\ o.uid = revision + 1) \/ (api # Absent /\ o.uid = api.uid)
  <2>1. CASE api = Absent /\ o = Fresh
    BY <2>1, <1>1 DEF Fresh
  <2>2. CASE api # Absent /\ o = Changed
    BY <2>2, <1>1, <1>2 DEF Changed, Objects
  <2>3. CASE api # Absent /\ o = [api EXCEPT !.version = NextRevision, !.deleting = TRUE]
    BY <2>3, <1>1, <1>2 DEF Objects
  <2> QED
    BY <1>7, <2>1, <2>2, <2>3
<1>8. \A i \in Positions : log[i] # Absent =>
        log[i].uid \in Nat /\ log[i].version \in Nat /\ log[i].uid <= revision /\ log[i].version <= revision
  BY <1>6 DEF LogOrder, Bounded, Objects, Revisions
<1>9. \A i \in Positions : log[i] # Absent /\ o # Absent /\ log[i].uid = o.uid =>
        api # Absent /\ log[i].uid = api.uid
  BY <1>1, <1>7, <1>8
<1>10. Bounded'
  BY <1>1, <1>2, <1>4, <1>5, <1>7, <1>8 DEF Bounded, api
<1>11. VersionsGrow'
  BY <1>1, <1>2, <1>4, <1>5, <1>7, <1>8 DEF LogOrder, VersionsGrow
<1>12. Contiguous'
  <2> SUFFICES ASSUME NEW i \in 1..(Len(log) + 1), NEW j \in 1..(Len(log) + 1), NEW k \in 1..(Len(log) + 1),
                      i <= k, k <= j, log'[i] # Absent, log'[j] # Absent, log'[i].uid = log'[j].uid
               PROVE  log'[k] # Absent /\ log'[k].uid = log'[i].uid
    BY <1>4 DEF Contiguous
  <2>1. CASE j \in Positions
    BY <2>1, <1>2, <1>5 DEF LogOrder, Contiguous
  <2>2. CASE j = Len(log) + 1 /\ k \in Positions
    <3>1. i \in Positions
      BY <2>2, <1>2
    <3>2. api # Absent /\ log[i].uid = api.uid
      BY <1>5, <1>9, <2>2, <3>1
    <3> QED
      BY <2>2, <3>1, <3>2, <1>2, <1>5 DEF LogOrder, Contiguous, api
  <2>3. CASE k = Len(log) + 1
    BY <2>3, <1>2
  <2> QED
    BY <2>1, <2>2, <2>3, <1>2
<1>13. DeletionStays'
  <2> SUFFICES ASSUME NEW i \in 1..(Len(log) + 1), NEW j \in 1..(Len(log) + 1),
                      i < j, log'[i] # Absent, log'[j] # Absent, log'[i].uid = log'[j].uid, log'[i].deleting
               PROVE  log'[j].deleting
    BY <1>4 DEF DeletionStays
  <2>0. i \in Positions
    BY <1>2
  <2>1. CASE j \in Positions
    BY <2>0, <2>1, <1>5 DEF LogOrder, DeletionStays
  <2>2. CASE j = Len(log) + 1
    <3>1. api # Absent /\ log[i].uid = api.uid
      BY <1>5, <1>9, <2>0, <2>2
    <3>2. api.deleting
      <4>1. CASE i = Len(log)
        BY <4>1, <1>5, <2>0 DEF api
      <4>2. CASE i < Len(log)
        BY <4>2, <1>2, <1>5, <2>0, <3>1 DEF LogOrder, DeletionStays, api
      <4> QED
        BY <4>1, <4>2, <2>0, <1>2
    <3>3. o = Changed \/ o = [api EXCEPT !.version = NextRevision, !.deleting = TRUE]
      BY <2>2, <1>5, <3>1
    <3>4. o.deleting
      BY <3>1, <3>2, <3>3, <1>2 DEF Changed, Objects
    <3> QED
      BY <2>2, <3>4, <1>5
  <2> QED
    BY <2>1, <2>2, <1>2
<1> QED
  BY <1>1, <1>4, <1>5, <1>10, <1>11, <1>12, <1>13 DEF LogOrder

\* A write by others, or one before the caller's own: what the caller waits
\* for, and what it was promised, stays as it is.
LEMMA WriteKeepsWaiting ==
  ASSUME IInv, Len(log') = Len(log) + 1, \A i \in Positions : log'[i] = log[i],
         UNCHANGED <<seen, blocking, call, result>>
  PROVE  WaitsSoundly' /\ BlocksUntilVisible'
<1> USE DEF Positions
<1>1. Len(log) \in Nat /\ seen \in Positions /\ seen' = seen /\ cache' = cache
  BY DEF IInv, TypeOK, cache
<1>2. BlocksUntilVisible'
  BY DEF IInv, BlocksUntilVisible
<1>3. ASSUME Waiting
      PROVE  Waiting'
  <2>1. call.at \in Positions /\ call.at \in Nat /\ call' = call /\ call.at \in Positions'
    BY <1>1, <1>3 DEF Waiting
  <2>2. call.at >= 2 => call.at - 1 \in Positions
    BY <2>1, <1>1
  <2>3. Made'
    BY <1>3, <2>1, <2>2 DEF Waiting, Made
  <2>4. Before' = Before
    BY <1>1, <2>1 DEF Before
  <2> QED
    BY <1>1, <1>3, <2>1, <2>3, <2>4 DEF Waiting
<1> QED
  BY <1>2, <1>3 DEF IInv, WaitsSoundly

LEMMA OthersKeep == ASSUME IInv, OthersWrite PROVE IInv'
<1>1. PICK o : /\ Write(o)
               /\ \/ o = Absent
                  \/ api = Absent /\ o = Fresh
                  \/ api # Absent /\ o = Changed
                  \/ api # Absent /\ o = [api EXCEPT !.version = NextRevision, !.deleting = TRUE]
  BY DEF OthersWrite, Deleted
<1>2. /\ log' \in Seq(Objects \cup {Absent}) /\ log' # <<>> /\ revision' \in Revisions
      /\ Len(log') = Len(log) + 1 /\ \A i \in Positions : log'[i] = log[i]
      /\ LogOrder'
  BY <1>1, WriteKeepsOrder DEF IInv
<1>3. WaitsSoundly' /\ BlocksUntilVisible'
  BY <1>2, WriteKeepsWaiting DEF OthersWrite
<1>4. TypeOK'
  BY <1>2 DEF IInv, TypeOK, OthersWrite
<1> QED
  BY <1>2, <1>3, <1>4 DEF IInv

LEMMA InformerKeeps == ASSUME IInv, Informer PROVE IInv'
<1> USE DEF Positions
<1>1. PICK i \in (seen + 1)..Len(log) : seen' = i
  BY DEF Informer
<1>2. /\ Len(log) \in Nat /\ seen \in Positions /\ seen' \in Positions /\ seen < seen'
      /\ UNCHANGED <<log, revision, blocking, held, call, result>>
  BY <1>1 DEF IInv, TypeOK, Informer
<1>3. TypeOK' /\ LogOrder'
  BY <1>2 DEF IInv, TypeOK, LogOrder, Bounded, VersionsGrow, Contiguous, DeletionStays
<1>4. BlocksUntilVisible'
  BY <1>2 DEF IInv, TypeOK, Calls, BlocksUntilVisible
<1>5. ASSUME Waiting, seen' < call.at
      PROVE  Before'
  <2>1. call.at \in Positions /\ seen < call.at /\ Before /\ Made /\ call.op \in {"create", "update", "delete"}
    BY <1>2, <1>5 DEF Waiting, IInv, TypeOK, Calls
  <2>2. CASE call.op = "create"
    BY <1>2, <1>5, <2>1, <2>2 DEF Before
  <2>3. CASE call.op = "update"
    <3>1. /\ log[seen] # Absent /\ log[seen].uid = call.uid /\ SameLength(log[seen].version, call.version)
          /\ log[call.at] # Absent /\ log[call.at].uid = call.uid /\ log[call.at].version = call.version
      BY <2>1, <2>3 DEF Before, Made, cache
    <3>2. log[seen'] # Absent /\ log[seen'].uid = call.uid
      BY <1>2, <1>5, <2>1, <3>1 DEF IInv, LogOrder, Contiguous
    <3>3. log[seen].version < log[seen'].version /\ log[seen'].version < call.version
      BY <1>2, <1>5, <2>1, <3>1, <3>2 DEF IInv, LogOrder, VersionsGrow
    <3>4. log[seen] \in Objects /\ log[seen'] \in Objects /\ log[call.at] \in Objects
      BY <1>2, <2>1, <3>1, <3>2 DEF IInv, TypeOK
    <3>5. log[seen].version \in Nat /\ log[seen'].version \in Nat /\ call.version \in Nat
      <4>1. \A o \in Objects : o.version \in Nat
        BY DEF Objects, Revisions
      <4> QED
        BY <3>1, <3>4, <4>1
    <3>6. SameLength(log[seen'].version, call.version)
      BY <3>1, <3>3, <3>5 DEF SameLength
    <3> QED
      BY <1>2, <2>3, <3>2, <3>6 DEF Before, cache
  <2>4. CASE call.op = "delete"
    <3>1. /\ log[seen] # Absent /\ log[seen].uid = call.uid
          /\ call.at - 1 \in Positions
          /\ log[call.at - 1] # Absent /\ log[call.at - 1].uid = call.uid
      BY <1>2, <2>1, <2>4 DEF Before, Made, cache
    <3>2. log[seen'] # Absent /\ log[seen'].uid = call.uid
      BY <1>2, <1>5, <2>1, <3>1 DEF IInv, LogOrder, Contiguous
    <3> QED
      BY <1>2, <2>4, <3>2 DEF Before, cache
  <2> QED
    BY <2>1, <2>2, <2>3, <2>4
<1>6. ASSUME Waiting
      PROVE  Waiting'
  <2>1. Made'
    BY <1>2, <1>6 DEF Waiting, Made
  <2> QED
    BY <1>2, <1>5, <1>6, <2>1 DEF Waiting
<1> QED
  BY <1>2, <1>3, <1>4, <1>6 DEF IInv, WaitsSoundly

\* The heart of the matter: as long as the cache does not show the write, the
\* condition of the polling does not hold.
LEMMA ConditionIsSound ==
  ASSUME IInv, Waiting, Condition
  PROVE  seen >= call.at
<1> USE DEF Positions
<1> SUFFICES ASSUME seen < call.at PROVE FALSE
  BY DEF IInv, TypeOK, Waiting
<1>1. /\ call.at \in Positions /\ seen \in Positions /\ Len(log) \in Nat /\ Before /\ Made
      /\ call.op \in {"create", "update", "delete"}
  BY DEF IInv, TypeOK, Waiting, Calls
<1>2. CASE call.op = "create"
  BY <1>1, <1>2 DEF Condition, blockCreate, Before, Made, cache
<1>3. CASE call.op = "update"
  <2>1. /\ log[seen] # Absent /\ log[seen].uid = call.uid /\ SameLength(log[seen].version, call.version)
        /\ log[call.at] # Absent /\ log[call.at].version = call.version
        /\ StringAtLeast(log[seen].version, call.version)
    BY <1>1, <1>3 DEF Before, Made, cache, Condition, blockUpdate
  <2>2. log[seen].version < call.version
    BY <1>1, <2>1 DEF IInv, LogOrder, VersionsGrow
  <2>3. log[seen] \in Objects /\ log[call.at] \in Objects
    BY <1>1, <2>1 DEF IInv, TypeOK
  <2>4. log[seen].version \in 1..99 /\ call.version \in 1..99
    BY <2>1, <2>3, RevisionsAssumption DEF Objects, Revisions
  <2> QED
    BY <2>1, <2>2, <2>4, StringOrder
<1>4. CASE call.op = "delete"
  <2>1. /\ log[seen] # Absent /\ log[seen].uid = call.uid /\ log[seen].deleting
        /\ call.at - 1 \in Positions
        /\ log[call.at - 1] # Absent /\ log[call.at - 1].uid = call.uid /\ ~log[call.at - 1].deleting
    BY <1>1, <1>4 DEF Before, Made, cache, Condition, blockDelete
  <2>2. seen < call.at - 1 \/ seen = call.at - 1
    BY <1>1
  <2> QED
    BY <1>1, <2>1, <2>2 DEF IInv, LogOrder, DeletionStays
<1> QED
  BY <1>1, <1>2, <1>3, <1>4

LEMMA PollKeeps == ASSUME IInv, poll \/ pollFails PROVE IInv'
<1>1. UNCHANGED <<log, seen, revision, blocking, held>> /\ result = "polling"
  BY DEF poll, pollFails
<1>2. /\ call' \in Calls /\ result' \in Results
      /\ call'.op = call.op /\ call'.at = call.at /\ call'.uid = call.uid
      /\ call'.version = call.version /\ call'.promised = call.promised
  BY DEF poll, pollFails, IInv, TypeOK, Calls, Results
<1>3. TypeOK' /\ LogOrder'
  BY <1>1, <1>2 DEF IInv, TypeOK, LogOrder, Bounded, VersionsGrow, Contiguous, DeletionStays, Positions
<1>4. Waiting' = Waiting
  BY <1>1, <1>2 DEF Waiting, Made, Before, Positions, cache
<1>5. result' = "ok" => Condition
  BY <1>1 DEF poll, pollFails
<1>6. BlocksUntilVisible'
  BY <1>1, <1>2, <1>5, ConditionIsSound DEF IInv, WaitsSoundly, BlocksUntilVisible
<1> QED
  BY <1>1, <1>2, <1>3, <1>4, <1>6 DEF IInv, WaitsSoundly

\* A refused write changes nothing but the result.
LEMMA RefusedKeeps ==
  ASSUME IInv, Refused, UNCHANGED <<seen, blocking, held>>
  PROVE  IInv'
BY DEF IInv, Refused, TypeOK, Results, LogOrder, Bounded, VersionsGrow, Contiguous, DeletionStays,
       Positions, WaitsSoundly, BlocksUntilVisible

\* The caller's own write to state o, followed by the polling: what has to be
\* shown is that the write is in the log as the polling expects it.
LEMMA WriteBlockKeeps ==
  ASSUME IInv,
         NEW o, Write(o),
         \/ o = Absent
         \/ api = Absent /\ o = Fresh
         \/ api # Absent /\ o = Changed
         \/ api # Absent /\ o = [api EXCEPT !.version = NextRevision, !.deleting = TRUE],
         NEW op \in {"create", "update", "delete"}, NEW uid \in Revisions, NEW version \in Revisions,
         NEW promised \in BOOLEAN,
         Block(op, Len(log) + 1, uid, version, promised),
         UNCHANGED <<seen, blocking>>, held' \in Objects \cup {Absent},
         promised => /\ op = "create" => api = Absent /\ seen = Len(log)
                     /\ op = "update" => /\ o # Absent /\ o.uid = uid /\ o.version = version
                                         /\ cache # Absent /\ cache.uid = uid
                                         /\ SameLength(cache.version, version)
                     /\ op = "delete" => /\ api # Absent /\ api.uid = uid /\ ~api.deleting
                                         /\ cache # Absent /\ cache.uid = uid
  PROVE  IInv'
<1> USE DEF Positions
<1>1. /\ log' \in Seq(Objects \cup {Absent}) /\ log' # <<>> /\ revision' \in Revisions
      /\ Len(log') = Len(log) + 1
      /\ \A i \in Positions : log'[i] = log[i]
      /\ log'[Len(log) + 1] = o
      /\ LogOrder'
  BY WriteKeepsOrder DEF IInv
<1>2. Len(log) \in Positions /\ Len(log) \in Nat /\ seen \in Positions /\ cache' = cache
  BY <1>1 DEF IInv, TypeOK, cache
<1>3. /\ call'.op = op /\ call'.at = Len(log) + 1 /\ call'.uid = uid /\ call'.version = version
      /\ call'.promised = promised /\ call' \in Calls /\ result' \in {"polling", "ok"}
      /\ blocking => result' = "polling"
  BY <1>2 DEF Block, Calls
<1>4. TypeOK'
  BY <1>1, <1>2, <1>3 DEF IInv, TypeOK, Results
<1>5. BlocksUntilVisible'
  BY <1>3 DEF BlocksUntilVisible
<1>6. ASSUME promised
      PROVE  Waiting'
  <2>1. CASE op = "create"
    BY <1>1, <1>2, <1>3, <1>6, <2>1 DEF Waiting, Made, Before, api
  <2>2. CASE op = "update"
    BY <1>1, <1>2, <1>3, <1>6, <2>2 DEF Waiting, Made, Before
  <2>3. CASE op = "delete"
    BY <1>1, <1>2, <1>3, <1>6, <2>3 DEF Waiting, Made, Before, api
  <2> QED
    BY <2>1, <2>2, <2>3
<1> QED
  BY <1>1, <1>3, <1>4, <1>5, <1>6 DEF IInv, WaitsSoundly

LEMMA CreateKeeps == ASSUME IInv, Create PROVE IInv'
<1>1. CASE api # Absent
  BY <1>1, RefusedKeeps DEF Create
<1>2. CASE api = Absent
  <2>1. /\ Write(Fresh) /\ Block("create", Len(log) + 1, NextRevision, NextRevision, CacheCurrent)
        /\ UNCHANGED <<seen, blocking, held>>
    BY <1>2 DEF Create
  <2>2. NextRevision \in Revisions /\ held' \in Objects \cup {Absent} /\ CacheCurrent \in BOOLEAN
    BY <2>1, RevisionsAssumption DEF IInv, TypeOK, Write, NextRevision, Revisions, CacheCurrent
  <2> QED
    BY <1>2, <2>1, <2>2, WriteBlockKeeps DEF CacheCurrent
<1> QED
  BY <1>1, <1>2

\* An update that changes nothing waits for the state that is there already.
LEMMA ModifyKeeps ==
  ASSUME IInv, api # Absent, Modify, UNCHANGED <<seen, blocking, held>>
  PROVE  IInv'
<1> USE DEF Positions
<1>1. api \in Objects /\ Len(log) \in Positions /\ Len(log) \in Nat /\ seen \in Positions
  BY DEF IInv, TypeOK, api
<1>2. api.uid \in Revisions /\ api.version \in Revisions
  BY <1>1 DEF Objects
<1>3. CASE /\ Write(Changed)
           /\ Block("update", Len(log) + 1, api.uid, NextRevision, CacheFollows(NextRevision))
  <2>1. NextRevision \in Revisions /\ held' \in Objects \cup {Absent}
    BY <1>3, RevisionsAssumption DEF IInv, TypeOK, Write, NextRevision, Revisions
  <2>3. CacheFollows(NextRevision) \in BOOLEAN
    BY DEF CacheFollows
  <2>2. Changed # Absent /\ Changed.uid = api.uid /\ Changed.version = NextRevision
    BY <1>1, <2>1, AbsentAssumption DEF Changed, Objects
  <2> QED
    BY <1>2, <1>3, <2>1, <2>2, <2>3, WriteBlockKeeps DEF CacheFollows
<1>4. CASE /\ UNCHANGED <<log, revision>>
           /\ Block("update", Len(log), api.uid, api.version, CacheFollows(api.version))
  <2>1. /\ call'.op = "update" /\ call'.at = Len(log) /\ call'.uid = api.uid /\ call'.version = api.version
        /\ call'.promised = CacheFollows(api.version) /\ call' \in Calls /\ result' \in {"polling", "ok"}
        /\ blocking => result' = "polling"
    <3>1. CacheFollows(api.version) \in BOOLEAN
      BY DEF CacheFollows
    <3> QED
      BY <3>1, <1>1, <1>2, <1>4 DEF Block, Calls
  <2>2. TypeOK' /\ LogOrder' /\ BlocksUntilVisible'
    BY <1>4, <2>1 DEF IInv, TypeOK, LogOrder, Bounded, VersionsGrow, Contiguous, DeletionStays,
                      BlocksUntilVisible, Results
  <2>3. CacheFollows(api.version) => Waiting'
    BY <1>1, <1>4, <2>1 DEF CacheFollows, Waiting, Made, Before, cache, api
  <2> QED
    BY <2>1, <2>2, <2>3 DEF IInv, WaitsSoundly
<1> QED
  BY <1>3, <1>4 DEF Modify

LEMMA UpdateKeeps == ASSUME IInv, Update PROVE IInv'
<1>1. CASE api # held
  BY <1>1, RefusedKeeps DEF Update
<1>2. CASE api = held
  BY <1>2, ModifyKeeps DEF Update
<1> QED
  BY <1>1, <1>2

LEMMA PatchKeeps == ASSUME IInv, Patch PROVE IInv'
<1>1. CASE api # Absent /\ Modify
  BY <1>1, ModifyKeeps DEF Patch
<1>2. CASE Refused
  BY <1>2, RefusedKeeps DEF Patch
<1>3. CASE /\ api = Absent /\ Write(Fresh)
           /\ Block("update", Len(log) + 1, NextRevision, NextRevision, FALSE)
  <2>1. NextRevision \in Revisions /\ held' \in Objects \cup {Absent}
    BY <1>3, RevisionsAssumption DEF IInv, TypeOK, Write, NextRevision, Revisions, Patch
  <2> QED
    BY <1>3, <2>1, WriteBlockKeeps DEF Patch
<1> QED
  BY <1>1, <1>2, <1>3 DEF Patch

LEMMA DeleteKeeps == ASSUME IInv, Delete PROVE IInv'
<1> USE DEF Positions
<1>1. CASE api = Absent
  BY <1>1, RefusedKeeps DEF Delete
<1>2. held \in Objects /\ held.uid \in Revisions /\ held.version \in Revisions /\ UNCHANGED <<seen, blocking, held>>
  BY DEF Delete, IInv, TypeOK, Objects
<1>3. CASE api # Absent /\ ~api.deleting
  <2>1. PICK o \in Deleted : Write(o)
    BY <1>3 DEF Delete
  <2> DEFINE promised == cache # Absent /\ cache.uid = api.uid /\ held.uid = api.uid
  <2>2. Block("delete", Len(log) + 1, held.uid, held.version, promised)
    BY <1>3 DEF Delete
  <2> QED
    BY <1>2, <1>3, <2>1, <2>2, WriteBlockKeeps DEF Deleted
<1>4. CASE api # Absent /\ api.deleting
  <2>1. /\ UNCHANGED <<log, revision>>
        /\ Block("delete", Len(log), held.uid, held.version, FALSE)
    BY <1>4 DEF Delete
  <2>2. call'.promised = FALSE /\ call' \in Calls /\ result' \in Results
    BY <1>2, <2>1 DEF Block, Calls, Results, IInv, TypeOK
  <2> QED
    BY <1>2, <2>1, <2>2 DEF IInv, TypeOK, LogOrder, Bounded, VersionsGrow, Contiguous, DeletionStays,
                            WaitsSoundly, BlocksUntilVisible
<1> QED
  BY <1>1, <1>3, <1>4

\* Steps that change only the revision, or only what the caller holds.
LEMMA AsideKeeps == ASSUME IInv, OtherObjects \/ Get PROVE IInv'
<1> USE DEF Positions
<1>1. UNCHANGED <<log, seen, blocking, call, result>>
  BY DEF OtherObjects, Get
<1>2. revision \in Nat /\ revision' \in Revisions /\ revision' >= revision
  BY RevisionsAssumption DEF OtherObjects, Get, NextRevision, IInv, TypeOK, Revisions
<1>3. held' \in Objects \cup {Absent}
  BY DEF OtherObjects, Get, IInv, TypeOK, cache
<1>4. TypeOK' /\ VersionsGrow' /\ Contiguous' /\ DeletionStays' /\ BlocksUntilVisible'
  BY <1>1, <1>2, <1>3 DEF IInv, TypeOK, LogOrder, VersionsGrow, Contiguous, DeletionStays, BlocksUntilVisible
<1>5. Bounded'
  <2> SUFFICES ASSUME NEW i \in Positions, log[i] # Absent
               PROVE  log[i].uid <= revision' /\ log[i].version <= revision'
    BY <1>1 DEF Bounded
  <2>1. log[i] \in Objects /\ log[i].uid <= revision /\ log[i].version <= revision
    BY DEF IInv, TypeOK, LogOrder, Bounded
  <2>2. log[i].uid \in Nat /\ log[i].version \in Nat
    BY <2>1 DEF Objects, Revisions
  <2> QED
    BY <1>2, <2>1, <2>2 DEF Revisions
<1>6. WaitsSoundly'
  BY <1>1 DEF IInv, WaitsSoundly, Waiting, Made, Before, cache
<1> QED
  BY <1>4, <1>5, <1>6 DEF IInv, LogOrder

LEMMA InitHolds == Init => IInv
<1> SUFFICES ASSUME Init PROVE IInv
  OBVIOUS
<1>1. Len(log) = 1 /\ log[1] = Absent /\ call = NoCall
  BY DEF Init
<1>2. TypeOK
  BY <1>1, RevisionsAssumption DEF Init, TypeOK, Revisions, NoCall, Calls, Results
<1> QED
  BY <1>1, <1>2 DEF Init, IInv, LogOrder, Bounded, VersionsGrow, Contiguous, DeletionStays, Positions,
                    WaitsSoundly, BlocksUntilVisible, NoCall

LEMMA StepHolds == IInv /\ [Next]_vars => IInv'
<1> SUFFICES ASSUME IInv, [Next]_vars PROVE IInv'
  OBVIOUS
<1>1. CASE OthersWrite
  BY <1>1, OthersKeep
<1>2. CASE OtherObjects \/ Get
  BY <1>2, AsideKeeps
<1>3. CASE Informer
  BY <1>3, InformerKeeps
<1>4. CASE Create
  BY <1>4, CreateKeeps
<1>5. CASE Update \/ StatusUpdate
  BY <1>5, UpdateKeeps DEF StatusUpdate
<1>6. CASE Patch \/ StatusPatch
  BY <1>6, PatchKeeps DEF StatusPatch
<1>7. CASE Delete
  BY <1>7, DeleteKeeps
<1>8. CASE poll \/ pollFails
  BY <1>8, PollKeeps
<1>9. CASE UNCHANGED vars
  <2>1. TypeOK' /\ LogOrder'
    BY <1>9 DEF vars, IInv, TypeOK, LogOrder, Bounded, VersionsGrow, Contiguous, DeletionStays, Positions
  <2>2. WaitsSoundly' /\ BlocksUntilVisible'
    BY <1>9 DEF vars, IInv, WaitsSoundly, Waiting, Made, Before, Positions, cache, BlocksUntilVisible
  <2> QED
    BY <2>1, <2>2 DEF IInv
<1> QED
  BY <1>1, <1>2, <1>3, <1>4, <1>5, <1>6, <1>7, <1>8, <1>9 DEF Next

-----------------------------------------------------------------------------
\* The types of the client's state, for every number of polls and revisions.
THEOREM TypeCorrect == Spec => []TypeOK
<1>1. IInv => TypeOK
  BY DEF IInv
<1> QED
  BY InitHolds, StepHolds, <1>1, PTL DEF Spec

\* A write that returned without an error is visible in the cache, whatever
\* else is written meanwhile and however late the events come.
THEOREM WritesAreVisible == Spec => []BlocksUntilVisible
<1>1. IInv => BlocksUntilVisible
  BY DEF IInv
<1> QED
  BY InitHolds, StepHolds, <1>1, PTL DEF Spec
============================================================================
