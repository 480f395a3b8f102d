--------------------------- MODULE ForceSyncProofs ---------------------------
(***************************************************************************)
(* Proofs about ForceSync, for every set of kinds, paths and targets and   *)
(* every number of outside events.  What the controller may do wrong is to *)
(* act on an answer of the name cache that is no longer true when it       *)
(* writes; the invariants say what still has to happen before it rests.    *)
(***************************************************************************)
EXTENDS ForceSync, SequenceTheorems, TLAPS

Workers ==
  {Idle} \cup [at : {"get", "add", "remove"}, target : Targets]
  \cup [at : {"check"}, target : Targets, obj : {"plain", "marked"}, next : 1 .. Len(config) + 1]

\* The types of all but the history variables.
SystemTyped ==
  /\ parents \in [Parents -> Contents] /\ known \in [Parents -> Contents]
  /\ inbox \in [Parents -> Seq(Contents)]
  /\ api \in [Targets -> Objects] /\ cache \in [Targets -> Objects]
  /\ watch \in [Targets -> Seq(Objects)] /\ notif \in [Targets -> Seq(Objects)]
  /\ hooked \in BOOLEAN
  /\ queue \subseteq Targets
  /\ pc \in Workers
  /\ moves \in Nat

\* The worker is idle, at a call to the API server, or in shouldSync's loop.
LEMMA WorkerCases ==
  ASSUME SystemTyped
  PROVE  \/ pc = Idle /\ pc.at = "idle"
         \/ pc.at \in {"get", "add", "remove"} /\ pc.target \in Targets
         \/ /\ pc.at = "check" /\ pc.target \in Targets
            /\ pc.obj \in {"plain", "marked"} /\ pc.next \in 1 .. Len(config) + 1
BY DEF SystemTyped, Workers, Idle

\* The configuration is a finite list of a kind and a path each.
LEMMA ConfigTyped ==
  /\ Len(config) \in Nat /\ DOMAIN config = 1 .. Len(config)
  /\ \A i \in DOMAIN config : config[i].parent \in Parents /\ config[i].path \in Paths
<1>1. config \in Seq(ForceSyncConfigs)
  BY ConfigAssumption DEF config
<1>2. /\ Len(config) \in Nat /\ DOMAIN config = 1 .. Len(config)
      /\ \A i \in DOMAIN config : config[i] \in ForceSyncConfigs
  BY <1>1
<1> QED BY <1>2 DEF ForceSyncConfigs

\* A write leaves well-typed targets and events.
LEMMA WriteTyped ==
  ASSUME SystemTyped, NEW t \in Targets, NEW obj \in Objects, Write(t, obj)
  PROVE  api' \in [Targets -> Objects] /\ watch' \in [Targets -> Seq(Objects)]
BY DEF SystemTyped, Write

\* The initial states are well typed.
LEMMA InitTyped == Init => SystemTyped
<1> SUFFICES ASSUME Init PROVE SystemTyped
  OBVIOUS
<1>1. api \in [Targets -> Objects] /\ cache \in [Targets -> Objects]
  BY DEF Init, Objects
<1>2. \A t \in Targets : Listed(t) \in Seq(Objects)
  BY <1>1 DEF Listed
<1>3. watch \in [Targets -> Seq(Objects)] /\ notif \in [Targets -> Seq(Objects)]
  BY <1>2 DEF Init
<1>4. inbox \in [Parents -> Seq(Contents)] /\ known \in [Parents -> Contents]
  BY DEF Init, Contents, NothingNamed
<1> QED BY <1>1, <1>3, <1>4 DEF Init, SystemTyped, Workers

\* Every step keeps the types.
LEMMA StepTyped == SystemTyped /\ (Step \/ Restart) => SystemTyped'
<1> SUFFICES ASSUME SystemTyped, Step \/ Restart PROVE SystemTyped'
  OBVIOUS
<1> USE DEF names, informer
<1>1. ASSUME NEW g \in Parents, ParentChange(g) PROVE SystemTyped'
  <2>1. PICK content \in Contents : /\ parents' = [parents EXCEPT ![g] = content]
                                    /\ inbox' = [inbox EXCEPT ![g] = Append(@, content)]
    BY <1>1 DEF ParentChange
  <2>2. inbox' \in [Parents -> Seq(Contents)]
    BY <2>1 DEF SystemTyped
  <2> QED BY <1>1, <2>1, <2>2 DEF ParentChange, Move, SystemTyped
<1>2. ASSUME NEW g \in Parents, NameCacheChange(g) PROVE SystemTyped'
  <2>1. Head(inbox[g]) \in Contents /\ Tail(inbox[g]) \in Seq(Contents)
    BY <1>2 DEF NameCacheChange, SystemTyped
  <2>2. queue' \subseteq Targets
    BY <1>2 DEF NameCacheChange, HookedTargets, SystemTyped
  <2>3. inbox' \in [Parents -> Seq(Contents)] /\ known' \in [Parents -> Contents]
    BY <1>2, <2>1 DEF NameCacheChange, SystemTyped
  <2> QED BY <1>2, <2>2, <2>3 DEF NameCacheChange, SystemTyped
<1>3. ASSUME NEW t \in Targets, TargetChange(t) PROVE SystemTyped'
  <2>1. PICK obj \in Objects : Write(t, obj)
    BY <1>3 DEF TargetChange
  <2>2. api' \in [Targets -> Objects] /\ watch' \in [Targets -> Seq(Objects)]
    BY <2>1, WriteTyped
  <2> QED BY <1>3, <2>2 DEF TargetChange, Move, SystemTyped
<1>4. ASSUME NEW t \in Targets, Informer(t) PROVE SystemTyped'
  <2>1. Head(watch[t]) \in Objects /\ Tail(watch[t]) \in Seq(Objects)
    BY <1>4 DEF Informer, SystemTyped
  <2>2. \A obj \in Objects : Append(notif[t], obj) \in Seq(Objects)
    BY DEF SystemTyped
  <2>3. cache[t] \in Objects
    BY DEF SystemTyped
  <2>4. notif' \in [Targets -> Seq(Objects)]
    BY <1>4, <2>1, <2>2, <2>3 DEF Informer, SystemTyped
  <2>5. watch' \in [Targets -> Seq(Objects)] /\ cache' \in [Targets -> Objects]
    BY <1>4, <2>1 DEF Informer, SystemTyped
  <2> QED BY <1>4, <2>4, <2>5 DEF Informer, SystemTyped
<1>5. ASSUME NEW t \in Targets, ForEvent(t) PROVE SystemTyped'
  <2>1. Tail(notif[t]) \in Seq(Objects)
    BY <1>5 DEF ForEvent, SystemTyped
  <2> QED BY <1>5, <2>1 DEF ForEvent, SystemTyped
<1>6. ASSUME NEW t \in Targets, Take(t) PROVE SystemTyped'
  BY <1>6 DEF Take, SystemTyped, Workers
<1>7. CASE Start
  BY <1>7 DEF Start, SystemTyped
<1>8. CASE Get
  <2>1. pc.target \in Targets
    BY <1>8, WorkerCases DEF Get
  <2>2. cache[pc.target] # "absent" => cache[pc.target] \in {"plain", "marked"}
    BY <2>1 DEF SystemTyped, Objects
  <2>3. pc' \in Workers
    BY <1>8, <2>1, <2>2, ConfigTyped DEF Get, Workers
  <2> QED BY <1>8, <2>3 DEF Get, SystemTyped
<1>9. CASE CheckConfig
  <2>1. /\ pc \in [at : {"check"}, target : Targets, obj : {"plain", "marked"}, next : 1 .. Len(config) + 1]
        /\ Len(config) \in Nat
    BY <1>9, ConfigTyped DEF CheckConfig, SystemTyped, Workers, Idle
  <2>2. pc.next <= Len(config) => pc.next + 1 \in 1 .. Len(config) + 1
    BY <2>1
  <2>3. pc' \in Workers
    BY <1>9, <2>1, <2>2 DEF CheckConfig, Workers
  <2> QED BY <1>9, <2>3 DEF CheckConfig, SystemTyped
<1>10. ASSUME NEW obj \in Objects, PatchTarget(obj), pc.target \in Targets PROVE SystemTyped'
  <2>1. api' \in [Targets -> Objects] /\ watch' \in [Targets -> Seq(Objects)] /\ queue' \subseteq Targets
    BY <1>10, WriteTyped DEF PatchTarget, SystemTyped
  <2> QED BY <1>10, <2>1 DEF PatchTarget, SystemTyped, Workers
<1>11. CASE addAnnotationsToVirtualObject \/ removeAnnotationsFromVirtualObject
  <2>1. pc.target \in Targets
    BY <1>11, WorkerCases DEF addAnnotationsToVirtualObject, removeAnnotationsFromVirtualObject
  <2> QED BY <1>10, <1>11, <2>1 DEF addAnnotationsToVirtualObject, removeAnnotationsFromVirtualObject, Objects
<1>12. CASE CallFails
  <2>1. pc.target \in Targets
    BY <1>12, WorkerCases DEF CallFails
  <2> QED BY <1>12, <2>1 DEF CallFails, Move, SystemTyped, Workers
<1>13. CASE Restart
  <2>1. \A t \in Targets : Listed(t) \in Seq(Objects)
    BY DEF SystemTyped, Listed
  <2>2. watch' \in [Targets -> Seq(Objects)] /\ notif' \in [Targets -> Seq(Objects)] /\ cache' \in [Targets -> Objects]
    BY <1>13, <2>1 DEF Restart, SystemTyped
  <2>3. inbox' \in [Parents -> Seq(Contents)] /\ known' \in [Parents -> Contents]
    BY <1>13 DEF Restart, NothingNamed, Contents, SystemTyped
  <2>4. pc' \in Workers
    BY <1>13 DEF Restart, Workers
  <2>5. queue' \subseteq Targets /\ hooked' \in BOOLEAN
    BY <1>13 DEF Restart
  <2>6. moves' \in Nat
    BY <1>13 DEF Restart, Move, SystemTyped
  <2>7. parents' \in [Parents -> Contents] /\ api' \in [Targets -> Objects]
    BY <1>13 DEF Restart, SystemTyped
  <2> QED BY <2>2, <2>3, <2>4, <2>5, <2>6, <2>7 DEF SystemTyped
<1> QED
  BY <1>1, <1>2, <1>3, <1>4, <1>5, <1>6, <1>7, <1>8, <1>9, <1>11, <1>12, <1>13 DEF Step

\* So does every step of the specification.
LEMMA TypedNext == SystemTyped /\ [Next]_vars => SystemTyped'
BY StepTyped DEF Next, Observed, vars, SystemTyped

\* For every configuration, and whatever happens outside, the state keeps its types.
THEOREM TypeCorrect == Spec => []TypeOK
<1>1. TypeOK <=> SystemTyped /\ steady \subseteq Parents \X Targets /\ missed \subseteq Targets
  BY DEF TypeOK, SystemTyped, Workers
<1>2. Init => TypeOK
  BY <1>1, InitTyped DEF Init
<1>3. TypeOK /\ [Next]_vars => TypeOK'
  <2> SUFFICES ASSUME TypeOK, [Next]_vars PROVE TypeOK'
    OBVIOUS
  <2>1. CASE Observed(Step)
    <3>1. SystemTyped'
      BY <1>1, <2>1, StepTyped DEF Observed
    <3>2. steady' \subseteq Parents \X Targets /\ missed' \subseteq Targets
      BY <1>1, <2>1 DEF Observed, References, Unheard
    <3> QED BY <3>1, <3>2 DEF TypeOK, SystemTyped, Workers
  <2>2. CASE Restart
    <3>1. SystemTyped'
      BY <1>1, <2>2, StepTyped
    <3> QED BY <2>2, <3>1 DEF Restart, TypeOK, SystemTyped, Workers
  <2>3. CASE UNCHANGED vars
    BY <2>3 DEF vars, TypeOK
  <2> QED BY <2>1, <2>2, <2>3 DEF Next
<1> QED BY <1>2, <1>3, PTL DEF Spec

-----------------------------------------------------------------------------
(***************************************************************************)
(* A reference that stays is seen.                                         *)
(***************************************************************************)
\* The name cache will have caught up with object g when its inbox is empty.
Following ==
  \A g \in Parents : IF inbox[g] = <<>> THEN known[g] = parents[g]
                     ELSE inbox[g][Len(inbox[g])] = parents[g]

\* At first the inbox of each object holds it as it is.
LEMMA FollowingAtFirst == Init => Following
<1> SUFFICES ASSUME Init, NEW g \in Parents
             PROVE  inbox[g] # <<>> /\ inbox[g][Len(inbox[g])] = parents[g]
  BY DEF Following
<1>1. inbox[g] = <<parents[g]>>
  BY DEF Init
<1>2. \A x : <<x>> # <<>> /\ <<x>>[Len(<<x>>)] = x
  OBVIOUS
<1>3. <<parents[g]>> # <<>> /\ <<parents[g]>>[Len(<<parents[g]>>)] = parents[g]
  BY <1>2
<1> QED BY <1>1, <1>3, Zenon

OnePathPerParent ==
  \A i, j \in DOMAIN config : config[i].parent = config[j].parent => config[i].path = config[j].path

\* Whatever the name cache is told next, it will know object g to name t at p.
Holds(g, p, t) ==
  /\ t \in parents[g][p] /\ t \in known[g][p]
  /\ \A j \in DOMAIN inbox[g] : t \in inbox[g][j][p]

\* The worker has not passed config i by, and does not take the mark off t.
Spared(i, t) ==
  /\ pc.at = "remove" => pc.target # t
  /\ pc.at = "check" /\ pc.target = t => pc.next <= i

SteadyHolds ==
  \A g \in Parents, t \in Targets : <<g, t>> \in steady =>
     \E i \in DOMAIN config : config[i].parent = g /\ Holds(g, config[i].path, t) /\ Spared(i, t)

\* The last of a sequence is the element appended, and stays it until it leaves.
LEMMA LastStays ==
  ASSUME NEW S, NEW s \in Seq(S), NEW e \in S
  PROVE  /\ Append(s, e) # <<>> /\ Append(s, e)[Len(Append(s, e))] = e
         /\ s # <<>> => IF Tail(s) = <<>> THEN s[Len(s)] = Head(s)
                        ELSE Tail(s)[Len(Tail(s))] = s[Len(s)]
<1>1. Append(s, e) # <<>> /\ Append(s, e)[Len(Append(s, e))] = e
  OBVIOUS
<1>2. ASSUME s # <<>>, Tail(s) = <<>> PROVE s[Len(s)] = Head(s)
  <2>1. Len(s) \in Nat /\ Len(s) > 0 /\ Len(Tail(s)) = Len(s) - 1
    BY <1>2
  <2>2. Len(Tail(s)) = 0
    BY <1>2, EmptySeq
  <2> QED BY <1>2, <2>1, <2>2
<1>3. ASSUME s # <<>>, Tail(s) # <<>> PROVE Tail(s)[Len(Tail(s))] = s[Len(s)]
  BY <1>3
<1> QED BY <1>1, <1>2, <1>3

\* What holds of all elements of a sequence holds of its head and its tail, and
\* of it with one more element of which it holds.
LEMMA AllStay ==
  ASSUME NEW S, NEW s \in Seq(S), NEW e \in S
  PROVE  /\ s # <<>> => /\ 1 \in DOMAIN s /\ Head(s) = s[1]
                        /\ \A j \in DOMAIN Tail(s) : j + 1 \in DOMAIN s /\ Tail(s)[j] = s[j + 1]
         /\ \A j \in DOMAIN Append(s, e) : IF j \in DOMAIN s THEN Append(s, e)[j] = s[j] ELSE Append(s, e)[j] = e
OBVIOUS

\* The names change in the virtual cluster, or in the name cache, or not at all.
LEMMA NameSteps ==
  ASSUME Step
  PROVE  \/ \E g \in Parents : ParentChange(g) \/ NameCacheChange(g)
         \/ UNCHANGED names
BY DEF Step, TargetChange, Informer, ForEvent, Take, Start, Get, CheckConfig, PatchTarget,
       addAnnotationsToVirtualObject, removeAnnotationsFromVirtualObject, CallFails

\* The name cache keeps following the objects.
LEMMA FollowingNext == SystemTyped /\ Following /\ (Step \/ Restart) => Following'
<1> SUFFICES ASSUME SystemTyped, Following, Step \/ Restart, NEW h \in Parents
             PROVE  IF inbox'[h] = <<>> THEN known'[h] = parents'[h]
                    ELSE inbox'[h][Len(inbox'[h])] = parents'[h]
  BY DEF Following
<1>1. inbox[h] \in Seq(Contents) /\ parents[h] \in Contents
  BY DEF SystemTyped
<1>2. ASSUME inbox'[h] = inbox[h], known'[h] = known[h], parents'[h] = parents[h]
      PROVE  IF inbox'[h] = <<>> THEN known'[h] = parents'[h] ELSE inbox'[h][Len(inbox'[h])] = parents'[h]
  BY <1>2 DEF Following
<1>3. CASE Restart
  BY <1>3 DEF Restart
<1>4. CASE UNCHANGED names
  BY <1>2, <1>4 DEF names
<1>5. ASSUME NEW g \in Parents, ParentChange(g)
      PROVE  IF inbox'[h] = <<>> THEN known'[h] = parents'[h] ELSE inbox'[h][Len(inbox'[h])] = parents'[h]
  <2>1. PICK content \in Contents : /\ parents' = [parents EXCEPT ![g] = content]
                                    /\ inbox' = [inbox EXCEPT ![g] = Append(@, content)]
    BY <1>5 DEF ParentChange
  <2>2. CASE g # h
    BY <1>2, <1>5, <2>1, <2>2 DEF ParentChange, SystemTyped
  <2>3. CASE g = h
    <3>1. inbox'[h] = Append(inbox[h], content) /\ parents'[h] = content
      BY <2>1, <2>3 DEF SystemTyped
    <3> QED BY <1>1, <3>1, LastStays
  <2> QED BY <2>2, <2>3
<1>6. ASSUME NEW g \in Parents, NameCacheChange(g)
      PROVE  IF inbox'[h] = <<>> THEN known'[h] = parents'[h] ELSE inbox'[h][Len(inbox'[h])] = parents'[h]
  <2>1. CASE g # h
    BY <1>2, <1>6, <2>1 DEF NameCacheChange, SystemTyped
  <2>2. CASE g = h
    <3>1. /\ inbox[h] # <<>> /\ inbox'[h] = Tail(inbox[h]) /\ known'[h] = Head(inbox[h])
          /\ parents'[h] = parents[h]
      BY <1>6, <2>2 DEF NameCacheChange, SystemTyped
    <3>2. inbox[h][Len(inbox[h])] = parents[h]
      BY <3>1 DEF Following
    <3> QED BY <1>1, <3>1, <3>2, LastStays
  <2> QED BY <2>1, <2>2
<1> QED BY <1>3, <1>4, <1>5, <1>6, NameSteps

\* It does so throughout.
LEMMA FollowingStays == SystemTyped /\ Following /\ [Next]_vars => Following'
BY FollowingNext DEF Next, Observed, vars, Following

\* An object that names t at p and keeps doing so keeps the name cache at it.
LEMMA HoldsNext ==
  ASSUME SystemTyped, Step, NEW g \in Parents, NEW p \in Paths, NEW t \in Targets,
         Holds(g, p, t), t \in parents'[g][p]
  PROVE  Holds(g, p, t)'
<1>1. inbox[g] \in Seq(Contents)
  BY DEF SystemTyped
<1>2. CASE UNCHANGED names
  BY <1>2 DEF names, Holds
<1>3. ASSUME NEW h \in Parents, ParentChange(h) PROVE Holds(g, p, t)'
  <2>1. PICK content \in Contents : /\ parents' = [parents EXCEPT ![h] = content]
                                    /\ inbox' = [inbox EXCEPT ![h] = Append(@, content)]
    BY <1>3 DEF ParentChange
  <2>2. CASE g # h
    BY <1>3, <2>1, <2>2 DEF ParentChange, SystemTyped, Holds
  <2>3. CASE g = h
    <3>1. inbox'[g] = Append(inbox[g], content) /\ t \in content[p] /\ known' = known
      BY <1>3, <2>1, <2>3 DEF SystemTyped, ParentChange
    <3>2. \A j \in DOMAIN inbox'[g] : t \in inbox'[g][j][p]
      BY <1>1, <3>1, AllStay DEF Holds
    <3> QED BY <3>1, <3>2 DEF Holds
  <2> QED BY <2>2, <2>3
<1>4. ASSUME NEW h \in Parents, NameCacheChange(h) PROVE Holds(g, p, t)'
  <2>1. CASE g # h
    BY <1>4, <2>1 DEF NameCacheChange, SystemTyped, Holds
  <2>2. CASE g = h
    <3>1. /\ inbox[g] # <<>> /\ inbox'[g] = Tail(inbox[g]) /\ known'[g] = Head(inbox[g])
          /\ parents'[g] = parents[g]
      BY <1>4, <2>2 DEF NameCacheChange, SystemTyped
    <3>2. Head(inbox[g]) \in Contents
      BY <1>1, <3>1
    <3>3. t \in Head(inbox[g])[p] /\ \A j \in DOMAIN Tail(inbox[g]) : t \in Tail(inbox[g])[j][p]
      BY <1>1, <3>1, <3>2, AllStay DEF Holds
    <3> QED BY <3>1, <3>3 DEF Holds
  <2> QED BY <2>1, <2>2
<1> QED BY <1>2, <1>3, <1>4, NameSteps

\* The worker goes past no config that it finds to name t, and so does not come
\* to take the mark off.
LEMMA SparedNext ==
  ASSUME SystemTyped, Step, NEW i \in DOMAIN config, NEW t \in Targets,
         t \in known[config[i].parent][config[i].path], Spared(i, t)
  PROVE  Spared(i, t)'
<1>1. Len(config) \in Nat /\ i \in 1 .. Len(config)
  BY ConfigTyped
<1>2. CASE UNCHANGED pc
  BY <1>2 DEF Spared
<1>3. CASE pc' = Idle
  BY <1>3 DEF Spared, Idle
<1>4. ASSUME NEW u \in Targets, Take(u) PROVE Spared(i, t)'
  BY <1>4 DEF Take, Spared
<1>5. CASE Get
  <2>1. CASE pc' # Idle
    <3>1. pc'.at = "check" /\ pc'.next = 1
      BY <1>5, <2>1 DEF Get
    <3> QED BY <1>1, <3>1 DEF Spared
  <2> QED BY <1>3, <2>1
<1>6. CASE CheckConfig
  <2>1. /\ pc \in [at : {"check"}, target : Targets, obj : {"plain", "marked"}, next : 1 .. Len(config) + 1]
        /\ pc.at = "check"
    BY <1>6 DEF CheckConfig, SystemTyped, Workers, Idle
  <2> DEFINE c == config[pc.next]
  <2>2. CASE pc.next > Len(config)
    <3>1. pc.target # t
      BY <1>1, <2>1, <2>2 DEF Spared
    <3>2. pc' = Idle \/ pc' = [at |-> "remove", target |-> pc.target]
      BY <1>6, <2>2 DEF CheckConfig
    <3> QED BY <1>3, <3>1, <3>2 DEF Spared
  <2>3. CASE pc.next <= Len(config) /\ pc.target \notin known[c.parent][c.path]
    <3>1. pc' = [pc EXCEPT !.next = @ + 1]
      BY <1>1, <1>6, <2>1, <2>3 DEF CheckConfig
    <3>2. pc'.at = "check" /\ pc'.target = pc.target /\ pc'.next = pc.next + 1
      BY <2>1, <3>1
    <3>3. pc.target = t => pc.next <= i /\ pc.next # i
      BY <2>1, <2>3 DEF Spared
    <3> QED BY <1>1, <2>1, <3>2, <3>3 DEF Spared
  <2>4. CASE pc.next <= Len(config) /\ pc.target \in known[c.parent][c.path]
    <3>1. pc' = Idle \/ pc' = [at |-> "add", target |-> pc.target]
      BY <1>1, <1>6, <2>1, <2>4 DEF CheckConfig
    <3> QED BY <1>3, <3>1 DEF Spared
  <2> QED BY <1>1, <2>1, <2>2, <2>3, <2>4
<1>7. \/ UNCHANGED pc \/ pc' = Idle \/ Get \/ CheckConfig \/ \E u \in Targets : Take(u)
  BY DEF Step, ParentChange, NameCacheChange, TargetChange, Informer, ForEvent, Start, PatchTarget,
         addAnnotationsToVirtualObject, removeAnnotationsFromVirtualObject, CallFails
<1> QED BY <1>2, <1>3, <1>4, <1>5, <1>6, <1>7

\* What has been named since all was quiet keeps being held.
LEMMA SteadyNext ==
  ASSUME Kind = "Secret", OnePathPerParent
  PROVE  SystemTyped /\ Following /\ SteadyHolds /\ [Next]_vars => SteadyHolds'
<1> SUFFICES ASSUME SystemTyped, Following, SteadyHolds, [Next]_vars,
                    NEW g \in Parents, NEW t \in Targets, <<g, t>> \in steady'
             PROVE  \E i \in DOMAIN config :
                       config[i].parent = g /\ Holds(g, config[i].path, t)' /\ Spared(i, t)'
  BY DEF SteadyHolds, config
<1>1. CASE UNCHANGED vars
  BY <1>1 DEF vars, SteadyHolds, Holds, Spared
<1>2. CASE Restart
  BY <1>2 DEF Restart
<1>3. CASE Observed(Step)
  <2>1. Step /\ <<g, t>> \in References' /\ (Quiet' \/ <<g, t>> \in steady)
    BY <1>3 DEF Observed
  <2>2. PICK k \in DOMAIN config : config[k].parent = g /\ t \in parents'[g][config[k].path]
    BY <2>1 DEF References, Wanted, config
  <2>3. CASE Quiet'
    <3>1. inbox'[g] = <<>> /\ pc' = Idle
      BY <2>3 DEF Quiet
    <3>2. known'[g] = parents'[g]
      BY <2>1, <3>1, FollowingNext DEF Following
    <3>3. Holds(g, config[k].path, t)'
      BY <2>2, <3>1, <3>2 DEF Holds
    <3>4. Spared(k, t)'
      BY <3>1 DEF Spared, Idle
    <3> QED BY <2>2, <3>3, <3>4
  <2>4. CASE <<g, t>> \in steady
    <3>1. PICK i \in DOMAIN config : config[i].parent = g /\ Holds(g, config[i].path, t) /\ Spared(i, t)
      BY <2>4 DEF SteadyHolds
    <3>2. config[i].path = config[k].path /\ config[i].path \in Paths
      BY <2>2, <3>1, ConfigTyped DEF OnePathPerParent
    <3>3. Holds(g, config[i].path, t)'
      BY <2>1, <2>2, <3>1, <3>2, HoldsNext
    <3>4. Spared(i, t)'
      BY <2>1, <3>1, SparedNext DEF Holds
    <3> QED BY <3>1, <3>3, <3>4
  <2> QED BY <2>1, <2>3, <2>4
<1> QED BY <1>1, <1>2, <1>3 DEF Next

\* For Secrets, any number of kinds that name them at one path each, and
\* whatever happens meanwhile: a target that an object has named since a time
\* when all was quiet is not unmarked.
THEOREM MarksAreKept ==
  ASSUME Kind = "Secret", OnePathPerParent
  PROVE  Spec => NeverUnmarkedWhileReferenced
<1> DEFINE Inv == SystemTyped /\ Following /\ SteadyHolds
<1>1. Init => Inv
  <2>1. Init => Following
    BY FollowingAtFirst
  <2>2. Init => SteadyHolds
    BY DEF Init, SteadyHolds
  <2> QED BY <2>1, <2>2, InitTyped
<1>2. Inv /\ [Next]_vars => Inv'
  BY TypedNext, FollowingStays, SteadyNext
<1>3. Inv /\ [Next]_vars => [removeAnnotationsFromVirtualObject =>
                               \A g \in Parents : <<g, pc.target>> \notin steady]_vars
  <2> SUFFICES ASSUME Inv, removeAnnotationsFromVirtualObject, NEW g \in Parents, <<g, pc.target>> \in steady
               PROVE  FALSE
    OBVIOUS
  <2>1. pc.at = "remove" /\ pc.target \in Targets
    BY WorkerCases DEF removeAnnotationsFromVirtualObject
  <2> QED BY <2>1 DEF SteadyHolds, Spared
<1> QED BY <1>1, <1>2, <1>3, PTL DEF Spec, NeverUnmarkedWhileReferenced

-----------------------------------------------------------------------------
(***************************************************************************)
(* Nothing is left undone.                                                 *)
(***************************************************************************)
OnePath == \A i, j \in DOMAIN config : config[i].path = config[j].path

\* The informer's cache follows the API server, and the events the cache.
InformerFollows ==
  \A t \in Targets :
     /\ IF watch[t] = <<>> THEN cache[t] = api[t] ELSE watch[t][Len(watch[t])] = api[t]
     /\ notif[t] # <<>> /\ cache[t] # "absent" => notif[t][Len(notif[t])] = cache[t]

Working(t) == pc.at # "idle" /\ pc.target = t

\* What the worker has seen of the names is still so, or it will look again.
NamesSeen(t) ==
  Working(t) /\ t \notin queue =>
     /\ pc.at = "check" => \A i \in DOMAIN config : i < pc.next => t \notin known[config[i].parent][config[i].path]
     /\ pc.at = "add" => shouldSync(t)
     /\ pc.at = "remove" => ~shouldSync(t)

\* Nothing more will be said about t.
Silent(t) == t \notin queue /\ notif[t] = <<>> /\ watch[t] = <<>>

Done(t) ==
  \/ cache[t] = "absent"
  \/ cache[t] = "marked" /\ shouldSync(t)
  \/ cache[t] = "plain" /\ (shouldSync(t) => t \in missed)

\* A target of which nothing more will be said is as it should be, or the
\* worker, which holds it, will see that it is not.
ObjectSeen(t) ==
  Silent(t) =>
     /\ ~Working(t) => Done(t)
     /\ Working(t) /\ pc.at = "check" =>
           cache[t] \in {"absent", pc.obj} \/ (cache[t] = "plain" /\ ~shouldSync(t))
     /\ ~hooked => cache[t] # "marked"

WorkerStarted == ~hooked => pc = Idle

MarkingInv == InformerFollows /\ WorkerStarted /\ \A t \in Targets : NamesSeen(t) /\ ObjectSeen(t)

\* A write is followed by an event, unless it changes nothing.
LEMMA WriteFollowed ==
  ASSUME SystemTyped, InformerFollows, NEW t \in Targets, NEW obj \in Objects, Write(t, obj)
  PROVE  /\ api'[t] = obj
         /\ IF watch'[t] = <<>> THEN watch[t] = <<>> /\ cache[t] = obj ELSE watch'[t][Len(watch'[t])] = obj
         /\ \A u \in Targets : u # t => watch'[u] = watch[u] /\ api'[u] = api[u]
<1>1. watch[t] \in Seq(Objects) /\ api'[t] = obj /\ \A u \in Targets : u # t => api'[u] = api[u]
  BY DEF SystemTyped, Write
<1>2. CASE obj = api[t]
  BY <1>1, <1>2 DEF Write, InformerFollows
<1>3. CASE obj # api[t]
  <2>1. watch'[t] = Append(watch[t], obj) /\ \A u \in Targets : u # t => watch'[u] = watch[u]
    BY <1>3 DEF SystemTyped, Write
  <2> QED BY <1>1, <2>1, LastStays
<1> QED BY <1>2, <1>3

\* The informer keeps following.
LEMMA InformerNext == SystemTyped /\ InformerFollows /\ (Step \/ Restart) => InformerFollows'
<1> DEFINE Follows(t) ==
      /\ IF watch[t] = <<>> THEN cache[t] = api[t] ELSE watch[t][Len(watch[t])] = api[t]
      /\ notif[t] # <<>> /\ cache[t] # "absent" => notif[t][Len(notif[t])] = cache[t]
<1> SUFFICES ASSUME SystemTyped, InformerFollows, Step \/ Restart, NEW t \in Targets PROVE Follows(t)'
  BY DEF InformerFollows
<1>1. Follows(t)
  BY DEF InformerFollows
<1>2. watch[t] \in Seq(Objects) /\ notif[t] \in Seq(Objects) /\ cache[t] \in Objects /\ api[t] \in Objects
  BY DEF SystemTyped
<1>3. CASE UNCHANGED <<api, informer>>
  BY <1>1, <1>3 DEF informer
<1>4. ASSUME NEW u \in Targets, NEW obj \in Objects, Write(u, obj), UNCHANGED <<cache, notif>> PROVE Follows(t)'
  BY <1>1, <1>4, WriteFollowed
<1>5. ASSUME NEW u \in Targets, Informer(u) PROVE Follows(t)'
  <2>1. CASE u # t
    BY <1>1, <1>5, <2>1 DEF Informer, SystemTyped
  <2>2. CASE u = t
    <3> DEFINE e == IF Head(watch[t]) = "absent" THEN cache[t] ELSE Head(watch[t])
    <3>1. /\ watch[t] # <<>> /\ watch'[t] = Tail(watch[t]) /\ cache'[t] = Head(watch[t]) /\ api' = api
          /\ notif'[t] = Append(notif[t], e)
      BY <1>5, <2>2 DEF Informer, SystemTyped
    <3>2. e \in Objects /\ (cache'[t] # "absent" => e = cache'[t])
      BY <1>2, <3>1
    <3> HIDE DEF e
    <3>3. notif'[t][Len(notif'[t])] = e
      BY <1>2, <3>1, <3>2, LastStays
    <3>4. IF watch'[t] = <<>> THEN cache'[t] = api'[t] ELSE watch'[t][Len(watch'[t])] = api'[t]
      BY <1>1, <1>2, <3>1, LastStays
    <3> QED BY <3>2, <3>3, <3>4
  <2> QED BY <2>1, <2>2
<1>6. ASSUME NEW u \in Targets, ForEvent(u) PROVE Follows(t)'
  <2>1. CASE u # t
    BY <1>1, <1>6, <2>1 DEF ForEvent, SystemTyped, names
  <2>2. CASE u = t
    <3>1. notif[t] # <<>> /\ notif'[t] = Tail(notif[t]) /\ UNCHANGED <<api, watch, cache>>
      BY <1>6, <2>2 DEF ForEvent, SystemTyped
    <3> QED BY <1>1, <1>2, <3>1, LastStays
  <2> QED BY <2>1, <2>2
<1>7. CASE Restart
  <2>1. \A x : <<x>>[Len(<<x>>)] = x
    OBVIOUS
  <2> QED BY <1>7, <2>1 DEF Restart, Listed
<1>8. CASE addAnnotationsToVirtualObject \/ removeAnnotationsFromVirtualObject
  <2>1. PICK obj \in Objects : PatchTarget(obj) /\ pc.target \in Targets
    BY <1>8, WorkerCases DEF addAnnotationsToVirtualObject, removeAnnotationsFromVirtualObject, Objects
  <2>2. CASE Write(pc.target, obj)
    BY <1>4, <2>1, <2>2 DEF PatchTarget
  <2>3. CASE ~Write(pc.target, obj)
    BY <1>3, <2>1, <2>3 DEF PatchTarget, informer
  <2> QED BY <2>2, <2>3
<1>9. ASSUME NEW u \in Targets, TargetChange(u) PROVE Follows(t)'
  BY <1>4, <1>9 DEF TargetChange
<1> QED
  BY <1>3, <1>5, <1>6, <1>7, <1>8, <1>9
  DEF Step, ParentChange, NameCacheChange, Take, Start, Get, CheckConfig, CallFails

\* Until Start the worker rests.
LEMMA WorkerStartedNext == WorkerStarted /\ (Step \/ Restart) => WorkerStarted'
BY DEF WorkerStarted, Step, Restart, ParentChange, NameCacheChange, TargetChange, Informer, ForEvent, Take,
       Start, Get, CheckConfig, PatchTarget, addAnnotationsToVirtualObject,
       removeAnnotationsFromVirtualObject, CallFails, Idle

NamedBy(i, t) == t \in known[config[i].parent][config[i].path]

\* With one path, the last config's path is every config's, and the hooks miss
\* no target that a change of object g is about.
LEMMA HooksHear ==
  ASSUME OnePath, SystemTyped, NEW g \in Parents, NameCacheChange(g), NEW t \in Targets
  PROVE  \/ known'[g] # known[g] /\ t \in HookedTargets(g, known[g], known'[g])
         \/ \A i \in DOMAIN config : NamedBy(i, t)' <=> NamedBy(i, t)
<1> SUFFICES ASSUME NEW i \in DOMAIN config, ~(NamedBy(i, t)' <=> NamedBy(i, t))
             PROVE  known'[g] # known[g] /\ t \in HookedTargets(g, known[g], known'[g])
  BY DEF NamedBy
<1>1. config[i].parent \in Parents /\ Len(config) \in DOMAIN config
  BY ConfigTyped
<1>2. \A h \in Parents : h # g => known'[h] = known[h]
  BY DEF NameCacheChange, SystemTyped
<1>3. config[i].parent = g /\ known'[g] # known[g]
  BY <1>1, <1>2 DEF NamedBy, config
<1>4. config[Len(config)].path = config[i].path
  BY <1>1 DEF OnePath
<1>5. t \in known[g][config[i].path] \cup known'[g][config[i].path]
  BY <1>3 DEF NamedBy, config
<1> QED BY <1>3, <1>4, <1>5 DEF HookedTargets

\* A step that changes nothing about t that counts, or has it queued.
LEMMA Kept ==
  ASSUME NEW t \in Targets, NamesSeen(t), ObjectSeen(t), hooked' = hooked,
         pc' = pc \/ ~(Working(t) \/ Working(t)'),
         \A i \in DOMAIN config : NamedBy(i, t)' <=> NamedBy(i, t),
         t \notin queue' => t \notin queue,
         Silent(t)' => Silent(t) /\ cache'[t] = cache[t] /\ (t \in missed => t \in missed')
  PROVE  NamesSeen(t)' /\ ObjectSeen(t)'
<1>1. shouldSync(t)' <=> shouldSync(t)
  BY DEF shouldSync, NamedBy, config
<1>2. NamesSeen(t)'
  <2> SUFFICES ASSUME Working(t)', t \notin queue', pc' = pc
               PROVE  /\ pc'.at = "check" => \A i \in DOMAIN config : i < pc'.next => ~NamedBy(i, t)'
                      /\ pc'.at = "add" => shouldSync(t)'
                      /\ pc'.at = "remove" => ~shouldSync(t)'
    BY DEF NamesSeen, NamedBy, config
  <2>1. Working(t)
    BY DEF Working
  <2> QED BY <1>1, <2>1 DEF NamesSeen, NamedBy
<1>3. ObjectSeen(t)'
  <2> SUFFICES ASSUME Silent(t)', Silent(t), cache'[t] = cache[t], t \in missed => t \in missed'
               PROVE  ObjectSeen(t)'
    BY DEF ObjectSeen
  <2>1. ~Working(t) => Done(t)'
    BY <1>1 DEF ObjectSeen, Done
  <2>2. CASE pc' = pc
    BY <1>1, <2>1, <2>2 DEF ObjectSeen, Working
  <2>3. CASE ~(Working(t) \/ Working(t)')
    BY <2>1, <2>3 DEF ObjectSeen
  <2> QED BY <2>2, <2>3
<1> QED BY <1>2, <1>3

\* A target that is queued will be looked at again.
LEMMA Queued == ASSUME NEW t \in Targets, t \in queue' PROVE NamesSeen(t)' /\ ObjectSeen(t)'
BY DEF NamesSeen, ObjectSeen, Silent

\* The steps of the worker that holds t.
LEMMA WorkerMarks ==
  ASSUME SystemTyped, MarkingInv, NEW t \in Targets, Working(t),
         \/ Get \/ CheckConfig \/ CallFails
         \/ addAnnotationsToVirtualObject \/ removeAnnotationsFromVirtualObject
  PROVE  NamesSeen(t)' /\ ObjectSeen(t)'
<1> USE DEF names, informer
<1>1. /\ NamesSeen(t) /\ ObjectSeen(t) /\ hooked /\ hooked' = hooked
      /\ pc.target = t /\ known' = known /\ notif' = notif /\ cache' = cache
  BY DEF MarkingInv, WorkerStarted, Working, Get, CheckConfig, CallFails, PatchTarget,
         addAnnotationsToVirtualObject, removeAnnotationsFromVirtualObject, Idle
<1>2. shouldSync(t)' <=> shouldSync(t)
  BY <1>1 DEF shouldSync, config
<1>3. ASSUME Done(t)' \/ ~Silent(t)', pc' = Idle PROVE NamesSeen(t)' /\ ObjectSeen(t)'
  BY <1>1, <1>3 DEF NamesSeen, ObjectSeen, Working, Idle
<1>4. CASE Get
  <2>1. CASE cache[t] = "absent"
    BY <1>1, <1>3, <1>4, <2>1 DEF Get, Done
  <2>2. CASE cache[t] # "absent"
    <3>1. pc' = [at |-> "check", target |-> t, obj |-> cache[t], next |-> 1]
      BY <1>1, <1>4, <2>2 DEF Get
    <3>2. NamesSeen(t)'
      BY <3>1, ConfigTyped DEF NamesSeen, config
    <3>3. ObjectSeen(t)'
      BY <1>1, <3>1 DEF ObjectSeen, Working
    <3> QED BY <3>2, <3>3
  <2> QED BY <2>1, <2>2
<1>5. CASE CheckConfig
  <2>1. /\ pc \in [at : {"check"}, target : Targets, obj : {"plain", "marked"}, next : 1 .. Len(config) + 1]
        /\ pc.at = "check" /\ queue' = queue /\ watch' = watch
    BY <1>5 DEF CheckConfig, SystemTyped, Workers, Idle
  <2>2. Silent(t)' => Silent(t)
    BY <1>1, <2>1 DEF Silent
  <2>3. t \notin queue => \A i \in DOMAIN config : i < pc.next => ~NamedBy(i, t)
    BY <1>1, <2>1 DEF NamesSeen, Working, NamedBy
  <2>4. Silent(t) => cache[t] \in {"absent", pc.obj} \/ (cache[t] = "plain" /\ ~shouldSync(t))
    BY <1>1, <2>1 DEF ObjectSeen, Working
  <2>5. CASE pc.next > Len(config)
    <3>1. t \notin queue => ~shouldSync(t)
      BY <2>1, <2>3, <2>5, ConfigTyped DEF shouldSync, NamedBy
    <3>2. CASE pc.obj = "plain"
      <4>1. pc' = Idle
        BY <1>5, <2>5, <3>2 DEF CheckConfig
      <4>2. Silent(t)' => Done(t)'
        BY <1>1, <1>2, <2>2, <2>4, <3>1, <3>2 DEF Done, Silent
      <4> QED BY <1>3, <4>1, <4>2
    <3>3. CASE pc.obj # "plain"
      <4>1. pc' = [at |-> "remove", target |-> t]
        BY <1>1, <1>5, <2>5, <3>3 DEF CheckConfig
      <4> QED BY <1>1, <1>2, <2>1, <3>1, <4>1 DEF NamesSeen, ObjectSeen, Working
    <3> QED BY <3>2, <3>3
  <2>6. CASE pc.next <= Len(config) /\ ~NamedBy(pc.next, t)
    <3>1. pc' = [pc EXCEPT !.next = @ + 1]
      BY <1>1, <1>5, <2>1, <2>6, ConfigTyped DEF CheckConfig, NamedBy
    <3>2. pc'.at = "check" /\ pc'.target = t /\ pc'.next = pc.next + 1 /\ pc'.obj = pc.obj
      BY <1>1, <2>1, <3>1
    <3>3. t \notin queue => \A i \in DOMAIN config : i < pc'.next => ~NamedBy(i, t)
      BY <2>1, <2>3, <2>6, <3>2, ConfigTyped
    <3>4. NamesSeen(t)'
      BY <1>1, <2>1, <3>2, <3>3 DEF NamesSeen, NamedBy, config
    <3>5. ObjectSeen(t)'
      BY <1>1, <1>2, <2>2, <2>4, <3>2 DEF ObjectSeen, Working
    <3> QED BY <3>4, <3>5
  <2>7. CASE pc.next <= Len(config) /\ NamedBy(pc.next, t)
    <3>1. pc.next \in DOMAIN config
      BY <2>1, <2>7, ConfigTyped
    <3>2. shouldSync(t)
      BY <2>7, <3>1 DEF shouldSync, NamedBy
    <3>3. CASE pc.obj = "marked"
      <4>1. pc' = Idle
        BY <1>1, <1>5, <2>1, <2>7, <3>3, ConfigTyped DEF CheckConfig, NamedBy
      <4>2. Silent(t)' => Done(t)'
        BY <1>1, <1>2, <2>2, <2>4, <3>2, <3>3 DEF Done
      <4> QED BY <1>3, <4>1, <4>2
    <3>4. CASE pc.obj # "marked"
      <4>1. pc' = [at |-> "add", target |-> t]
        BY <1>1, <1>5, <2>1, <2>7, <3>4, ConfigTyped DEF CheckConfig, NamedBy
      <4> QED BY <1>1, <1>2, <2>1, <3>2, <4>1 DEF NamesSeen, ObjectSeen, Working
    <3> QED BY <3>3, <3>4
  <2> QED BY <2>1, <2>5, <2>6, <2>7, ConfigTyped
<1>6. ASSUME NEW obj \in Objects, PatchTarget(obj),
             t \notin queue => (obj = "marked" /\ shouldSync(t)) \/ (obj = "plain" /\ ~shouldSync(t))
      PROVE  NamesSeen(t)' /\ ObjectSeen(t)'
  <2>1. CASE api[t] = "absent"
    BY <1>1, <1>6, <2>1, Queued DEF PatchTarget
  <2>2. CASE api[t] # "absent"
    <3>1. pc' = Idle /\ queue' = queue /\ Write(t, obj)
      BY <1>1, <1>6, <2>2 DEF PatchTarget
    <3>2. watch'[t] = <<>> => cache[t] = obj
      BY <3>1, WriteFollowed DEF MarkingInv
    <3>3. Silent(t)' => Done(t)'
      BY <1>1, <1>2, <1>6, <3>1, <3>2 DEF Done, Silent
    <3> QED BY <1>3, <3>1, <3>3
  <2> QED BY <2>1, <2>2
<1>7. CASE addAnnotationsToVirtualObject \/ removeAnnotationsFromVirtualObject
  BY <1>1, <1>6, <1>7 DEF addAnnotationsToVirtualObject, removeAnnotationsFromVirtualObject, NamesSeen, Working, Objects
<1>8. CASE CallFails
  BY <1>1, <1>8, Queued DEF CallFails
<1> QED BY <1>4, <1>5, <1>7, <1>8

\* The history variable forgets no target that is not queued.
LEMMA MissedStays == ASSUME Observed(Step), NEW t \in missed, t \notin queue' PROVE t \in missed'
BY DEF Observed

\* Every step leaves each target done, or somebody to see to it.
LEMMA MarkingNext ==
  ASSUME OnePath
  PROVE  SystemTyped /\ MarkingInv /\ [Next]_vars => MarkingInv'
<1> SUFFICES ASSUME SystemTyped, MarkingInv, Next PROVE MarkingInv'
  BY DEF MarkingInv, InformerFollows, WorkerStarted, NamesSeen, ObjectSeen, Working, Silent, Done,
         shouldSync, vars, config
<1> USE DEF names, informer
<1>1. InformerFollows' /\ WorkerStarted'
  BY InformerNext, WorkerStartedNext DEF MarkingInv, Next, Observed
<1>2. ASSUME NEW t \in Targets PROVE NamesSeen(t)' /\ ObjectSeen(t)'
  <2>1. NamesSeen(t) /\ ObjectSeen(t) /\ (~hooked => pc = Idle)
    BY DEF MarkingInv, WorkerStarted
  <2>2. /\ t \in missed /\ t \notin queue' /\ Observed(Step) => t \in missed'
        /\ Silent(t)' => t \notin queue'
    BY MissedStays DEF Silent
  <2>3. ASSUME known' = known PROVE \A i \in DOMAIN config : NamedBy(i, t)' <=> NamedBy(i, t)
    BY <2>3 DEF NamedBy, config
  <2>4. CASE Restart
    <3>1. Silent(t)' => cache'[t] = "absent"
      BY <2>4 DEF Silent, Restart, Listed
    <3>2. pc' = Idle
      BY <2>4 DEF Restart
    <3> QED BY <3>1, <3>2 DEF NamesSeen, ObjectSeen, Working, Done, Idle
  <2>5. CASE Observed(Step)
    <3>1. ASSUME NEW g \in Parents, ParentChange(g) PROVE NamesSeen(t)' /\ ObjectSeen(t)'
      <4>1. known' = known /\ UNCHANGED <<pc, hooked, queue, cache, watch, notif>>
        BY <3>1 DEF ParentChange
      <4>2. Silent(t)' => Silent(t) /\ cache'[t] = cache[t] /\ (t \in missed => t \in missed')
        BY <2>2, <2>5, <4>1 DEF Silent
      <4> QED BY <2>1, <2>3, <4>1, <4>2, Kept
    <3>2. ASSUME NEW g \in Parents, NameCacheChange(g) PROVE NamesSeen(t)' /\ ObjectSeen(t)'
      <4>1. UNCHANGED <<pc, hooked, cache, watch, notif>> /\ queue \subseteq queue'
        BY <3>2 DEF NameCacheChange
      <4>2. Silent(t)' => Silent(t) /\ cache'[t] = cache[t] /\ (t \in missed => t \in missed')
        BY <2>2, <2>5, <4>1 DEF Silent
      <4>3. CASE \A i \in DOMAIN config : NamedBy(i, t)' <=> NamedBy(i, t)
        BY <2>1, <4>1, <4>2, <4>3, Kept
      <4>4. CASE known'[g] # known[g] /\ t \in HookedTargets(g, known[g], known'[g])
        <5>1. CASE hooked
          BY <3>2, <4>4, <5>1, Queued DEF NameCacheChange
        <5>2. CASE ~hooked
          <6>1. pc' = Idle
            BY <2>1, <4>1, <5>2
          <6>2. t \in Unheard
            BY <4>4 DEF Unheard
          <6>3. t \notin queue' => t \in missed'
            BY <2>5, <5>2, <6>2 DEF Observed
          <6>4. Silent(t)' => cache'[t] \in {"absent", "plain"} /\ t \in missed'
            BY <2>1, <2>2, <4>2, <5>2, <6>3 DEF ObjectSeen, SystemTyped, Objects
          <6> QED BY <6>1, <6>4 DEF NamesSeen, ObjectSeen, Working, Done, Idle
        <5> QED BY <5>1, <5>2
      <4> QED BY <3>2, <4>3, <4>4, HooksHear
    <3>3. ASSUME NEW u \in Targets, TargetChange(u) PROVE NamesSeen(t)' /\ ObjectSeen(t)'
      <4>1. known' = known /\ UNCHANGED <<pc, hooked, queue, cache, notif>>
        BY <3>3 DEF TargetChange
      <4>2. PICK obj \in Objects : Write(u, obj)
        BY <3>3 DEF TargetChange
      <4>3. watch'[t] = <<>> => watch[t] = <<>>
        BY <4>2, WriteFollowed DEF MarkingInv
      <4>4. Silent(t)' => Silent(t) /\ cache'[t] = cache[t] /\ (t \in missed => t \in missed')
        BY <2>2, <2>5, <4>1, <4>3 DEF Silent
      <4> QED BY <2>1, <2>3, <4>1, <4>4, Kept
    <3>4. ASSUME NEW u \in Targets, Informer(u) PROVE NamesSeen(t)' /\ ObjectSeen(t)'
      <4>1. known' = known /\ UNCHANGED <<pc, hooked, queue>>
        BY <3>4 DEF Informer
      <4>2. Silent(t)' => Silent(t) /\ cache'[t] = cache[t] /\ (t \in missed => t \in missed')
        <5>1. CASE u = t
          <6>1. PICK e : notif'[t] = Append(notif[t], e)
            BY <3>4, <5>1 DEF Informer, SystemTyped
          <6>2. notif[t] \in Seq(Objects)
            BY DEF SystemTyped
          <6>3. notif'[t] # <<>>
            BY <6>1, <6>2
          <6> QED BY <6>3 DEF Silent
        <5>2. CASE u # t
          BY <2>2, <2>5, <3>4, <5>2 DEF Informer, SystemTyped, Silent
        <5> QED BY <5>1, <5>2
      <4> QED BY <2>1, <2>3, <4>1, <4>2, Kept
    <3>5. ASSUME NEW u \in Targets, ForEvent(u) PROVE NamesSeen(t)' /\ ObjectSeen(t)'
      <4>1. known' = known /\ UNCHANGED <<pc, hooked, cache, watch>> /\ queue \subseteq queue'
        BY <3>5 DEF ForEvent
      <4>2. CASE u # t
        <5>1. Silent(t)' => Silent(t) /\ cache'[t] = cache[t] /\ (t \in missed => t \in missed')
          BY <2>2, <2>5, <3>5, <4>1, <4>2 DEF Silent, ForEvent, SystemTyped
        <5> QED BY <2>1, <2>3, <4>1, <5>1, Kept
      <4>3. CASE u = t /\ t \in queue'
        BY <4>3, Queued
      <4>4. CASE u = t /\ t \notin queue'
        <5>1. /\ ~shouldSync(t) /\ Head(notif[t]) # "marked" /\ t \notin queue
              /\ notif[t] # <<>> /\ notif'[t] = Tail(notif[t])
          BY <3>5, <4>4 DEF ForEvent, SystemTyped
        <5>2. ~shouldSync(t)'
          BY <4>1, <5>1 DEF shouldSync, config
        <5>3. NamesSeen(t)'
          BY <2>1, <4>1, <5>1, <5>2 DEF NamesSeen, Working, config
        <5>4. notif[t] \in Seq(Objects) /\ cache[t] \in Objects
          BY DEF SystemTyped
        <5>5. Silent(t)' => notif[t][Len(notif[t])] = Head(notif[t])
          BY <5>1, <5>4, LastStays DEF Silent
        <5>6. Silent(t)' => cache'[t] \in {"absent", "plain"}
          BY <4>1, <5>1, <5>4, <5>5 DEF MarkingInv, InformerFollows, Objects
        <5>7. ObjectSeen(t)'
          BY <5>2, <5>6 DEF ObjectSeen, Done
        <5> QED BY <5>3, <5>7
      <4> QED BY <4>2, <4>3, <4>4
    <3>6. ASSUME NEW u \in Targets, Take(u) PROVE NamesSeen(t)' /\ ObjectSeen(t)'
      <4>1. /\ known' = known /\ UNCHANGED <<hooked, cache, watch, notif>> /\ hooked
            /\ pc = Idle /\ pc' = [at |-> "get", target |-> u] /\ queue' = queue \ {u}
        BY <3>6 DEF Take
      <4>2. CASE u = t
        BY <4>1, <4>2 DEF NamesSeen, ObjectSeen, Working
      <4>3. CASE u # t
        <5>1. ~(Working(t) \/ Working(t)') /\ (t \notin queue' => t \notin queue)
          BY <4>1, <4>3 DEF Working, Idle
        <5>2. Silent(t)' => Silent(t) /\ cache'[t] = cache[t] /\ (t \in missed => t \in missed')
          BY <2>2, <2>5, <4>1, <5>1 DEF Silent
        <5> QED BY <2>1, <2>3, <4>1, <5>1, <5>2, Kept
      <4> QED BY <4>2, <4>3
    <3>7. CASE Start
      <4>1. known' = known /\ UNCHANGED <<pc, queue, cache, watch, notif>> /\ pc = Idle /\ hooked'
        BY <2>1, <3>7 DEF Start
      <4>2. ~Working(t) /\ ~Working(t)' /\ (Silent(t)' => Silent(t))
        BY <4>1 DEF Working, Silent, Idle
      <4>3. Silent(t)' => Done(t)'
        <5>1. shouldSync(t)' <=> shouldSync(t)
          BY <4>1 DEF shouldSync, config
        <5> QED BY <2>1, <2>2, <2>5, <4>1, <4>2, <5>1 DEF ObjectSeen, Done
      <4> QED BY <4>1, <4>2, <4>3 DEF NamesSeen, ObjectSeen
    <3>8. CASE \/ Get \/ CheckConfig \/ CallFails
               \/ addAnnotationsToVirtualObject \/ removeAnnotationsFromVirtualObject
      <4>1. CASE Working(t)
        BY <3>8, <4>1, WorkerMarks
      <4>2. CASE ~Working(t)
        <5>1. pc.at # "idle" /\ pc.target \in Targets /\ pc.target # t
          BY <3>8, <4>2, WorkerCases
          DEF Working, Get, CheckConfig, CallFails, addAnnotationsToVirtualObject, removeAnnotationsFromVirtualObject
        <5>2. known' = known /\ UNCHANGED <<hooked, cache, notif>> /\ (t \in queue' <=> t \in queue)
          BY <3>8, <5>1
          DEF Get, CheckConfig, CallFails, addAnnotationsToVirtualObject, removeAnnotationsFromVirtualObject, PatchTarget
        <5>3. watch'[t] = watch[t]
          <6>1. ASSUME NEW obj \in Objects, PatchTarget(obj) PROVE watch'[t] = watch[t]
            BY <5>1, <6>1, WriteFollowed DEF PatchTarget, MarkingInv
          <6> QED BY <3>8, <6>1
                  DEF Get, CheckConfig, CallFails, addAnnotationsToVirtualObject, removeAnnotationsFromVirtualObject, Objects
        <5>4. ~Working(t)'
          <6>1. CASE CheckConfig
            <7>1. pc \in [at : {"check"}, target : Targets, obj : {"plain", "marked"}, next : 1 .. Len(config) + 1]
              BY <6>1 DEF CheckConfig, SystemTyped, Workers, Idle
            <7>2. pc' = Idle \/ pc'.target = pc.target
              BY <6>1, <7>1 DEF CheckConfig
            <7> QED BY <5>1, <7>2 DEF Working, Idle
          <6>2. CASE Get
            BY <5>1, <6>2 DEF Get, Working, Idle
          <6>3. CASE pc' = Idle
            BY <6>3 DEF Working, Idle
          <6> QED BY <3>8, <6>1, <6>2, <6>3
                  DEF CallFails, addAnnotationsToVirtualObject, removeAnnotationsFromVirtualObject, PatchTarget
        <5>5. Silent(t)' => Silent(t) /\ cache'[t] = cache[t] /\ (t \in missed => t \in missed')
          BY <2>2, <2>5, <5>2, <5>3 DEF Silent
        <5> QED BY <2>1, <2>3, <4>2, <5>2, <5>4, <5>5, Kept
      <4> QED BY <4>1, <4>2
    <3> QED BY <2>5, <3>1, <3>2, <3>3, <3>4, <3>5, <3>6, <3>7, <3>8 DEF Observed, Step
  <2> QED BY <2>4, <2>5 DEF Next
<1> QED BY <1>1, <1>2 DEF MarkingInv

\* What the objects name and what the name cache knows is the same once it has
\* caught up.
LEMMA ReferencedIsKnown ==
  ASSUME Kind = "Secret", SystemTyped, Following, \A g \in Parents : inbox[g] = <<>>, NEW t \in Targets
  PROVE  Referenced(t) <=> shouldSync(t)
<1>1. \A g \in Parents : known[g] = parents[g]
  BY DEF Following
<1>2. Wanted = config
  BY DEF Wanted, config
<1>3. \A g \in Parents : <<g, t>> \in References <=>
         \E i \in DOMAIN config : config[i].parent = g /\ t \in parents[g][config[i].path]
  BY <1>2 DEF References
<1>4. ASSUME shouldSync(t) PROVE Referenced(t)
  <2>1. PICK i \in DOMAIN config : t \in known[config[i].parent][config[i].path]
    BY <1>4 DEF shouldSync
  <2>2. config[i].parent \in Parents
    BY ConfigTyped
  <2> QED BY <1>1, <1>3, <2>1, <2>2 DEF Referenced
<1>5. ASSUME Referenced(t) PROVE shouldSync(t)
  <2>1. PICK g \in Parents : <<g, t>> \in References
    BY <1>5 DEF Referenced
  <2>2. PICK i \in DOMAIN config : config[i].parent = g /\ t \in parents[g][config[i].path]
    BY <1>3, <2>1
  <2>3. t \in known[config[i].parent][config[i].path]
    BY <1>1, <2>2
  <2> QED BY <2>3 DEF shouldSync
<1> QED BY <1>4, <1>5

\* For Secrets that any number of kinds name at one and the same path: whenever
\* the system comes to rest, exactly the targets that are named have the mark,
\* save those whose names came before the hooks were registered.
THEOREM RestMeansMarked ==
  ASSUME Kind = "Secret", OnePath
  PROVE  Spec => []QuietMeansMarked
<1> DEFINE Inv == SystemTyped /\ Following /\ MarkingInv
<1>1. Init => Inv
  <2>1. \A x : <<x>> # <<>> /\ <<x>>[Len(<<x>>)] = x
    OBVIOUS
  <2>2. Init => Following
    BY FollowingAtFirst
  <2>3. Init => InformerFollows /\ WorkerStarted
    BY <2>1 DEF Init, InformerFollows, WorkerStarted, Listed
  <2>4. ASSUME Init, NEW t \in Targets PROVE NamesSeen(t) /\ ObjectSeen(t)
    <3>1. pc = Idle /\ (Silent(t) => cache[t] = "absent")
      BY <2>4 DEF Init, Silent, Listed
    <3> QED BY <3>1 DEF NamesSeen, ObjectSeen, Working, Done, Idle
  <2> QED BY <2>2, <2>3, <2>4, InitTyped DEF MarkingInv
<1>2. Inv /\ [Next]_vars => Inv'
  BY TypedNext, FollowingStays, MarkingNext
<1>3. Inv => QuietMeansMarked
  <2> SUFFICES ASSUME Inv, Quiet, NEW t \in Targets PROVE MarkedAsWanted(t)
    BY DEF QuietMeansMarked
  <2>1. Referenced(t) <=> shouldSync(t)
    BY ReferencedIsKnown DEF Quiet
  <2>2. cache[t] = api[t]
    BY DEF MarkingInv, InformerFollows, Quiet
  <2>3. Done(t)
    <3>1. Silent(t) /\ ~Working(t)
      BY DEF Quiet, Silent, Working, Idle
    <3> QED BY <3>1 DEF MarkingInv, ObjectSeen
  <2> QED BY <2>1, <2>2, <2>3 DEF MarkedAsWanted, Done
<1> QED BY <1>1, <1>2, <1>3, PTL DEF Spec
=============================================================================
