---------------------------- MODULE MultiRegion_proofs ----------------------------
(* Proofs about MultiRegion, for every value of its constants.              *)
EXTENDS MultiRegion, SequenceTheorems, FiniteSetTheorems, TLAPS

-----------------------------------------------------------------------------
(* The constants.                                                           *)

\* What the constants are.
LEMMA Bounds ==
    /\ Home \in [Workers -> Regions] /\ 1 \in Workers /\ \A w \in Workers : 1 <= w
    /\ IsFiniteSet(Regions) /\ IsFiniteSet(Updaters)
    /\ Hinted \subseteq Seq(Regions) \ {<<>>} /\ None \notin Hinted
    /\ MaxBroadcast \in Nat /\ MaxClients \in Nat \ {0} /\ MaxCalls \in Nat
<1> DEFINE n == Cardinality(Workers)
<1>1. n \in Nat
  BY RegionsOK, FS_CardinalityType DEF RegionsOK
<1>2. Workers = 1..n /\ Workers # {}
  BY RegionsOK DEF RegionsOK
<1> HIDE DEF n
<1>4. 1 \in Workers /\ \A w \in Workers : 1 <= w
  BY <1>1, <1>2
<1>3. QED
  BY <1>4, RegionsOK DEF RegionsOK

\* The first worker's region stands in for a recommendation.
LEMMA DefaultIsRegion == DefaultRegion \in Regions
<1>2. \E w \in Workers : \A v \in Workers : w <= v
  BY Bounds
<1>3. (CHOOSE w \in Workers : \A v \in Workers : w <= v) \in Workers
  BY <1>2
<1>4. QED
  BY <1>3, Bounds DEF DefaultRegion

\* The regions served are regions, and finitely many.
LEMMA ServedIs == Served \subseteq Regions /\ IsFiniteSet(Served)
<1>1. Served \subseteq Regions
  BY Bounds DEF Served
<1>2. IsFiniteSet(Served)
  BY <1>1, Bounds, FS_Subset
<1>3. QED
  BY <1>1, <1>2

\* A broadcast goes to no more regions than it may.
LEMMA NearestIsBounded ==
    ASSUME NEW rs, Nearest(rs) PROVE Cardinality(rs) <= MaxBroadcast
<1>1. Cardinality(Served) \in Nat
  BY ServedIs, FS_CardinalityType
<1>2. QED
  BY <1>1, Bounds DEF Nearest

\* What is left of a sequence of regions that is not empty.
LEMMA TailIs ==
    ASSUME NEW p \in Seq(Regions), p # <<>>
    PROVE  /\ Head(p) \in Regions /\ Tail(p) \in Seq(Regions)
           /\ {p[i] : i \in DOMAIN p} = {Head(p)} \cup {Tail(p)[i] : i \in DOMAIN Tail(p)}
<1>1. /\ Head(p) \in Regions /\ Tail(p) \in Seq(Regions)
      /\ Len(p) \in Nat \ {0} /\ Len(Tail(p)) = Len(p) - 1
      /\ Head(p) = p[1] /\ \A i \in 1..Len(Tail(p)) : Tail(p)[i] = p[i + 1]
  BY HeadTailProperties, EmptySeq
<1>2. DOMAIN p = 1..Len(p) /\ DOMAIN Tail(p) = 1..Len(Tail(p))
  BY <1>1
<1>3. ASSUME NEW i \in DOMAIN p
      PROVE  p[i] \in {Head(p)} \cup {Tail(p)[j] : j \in DOMAIN Tail(p)}
  <2>1. CASE i = 1
    BY <1>1, <2>1
  <2>2. CASE i # 1
    <3>1. i - 1 \in 1..Len(Tail(p)) /\ (i - 1) + 1 = i
      BY <1>1, <1>2, <2>2
    <3>2. Tail(p)[i - 1] = p[i]
      BY <1>1, <3>1
    <3>3. QED
      BY <1>2, <3>1, <3>2
  <2>3. QED
    BY <2>1, <2>2
<1>4. ASSUME NEW i \in DOMAIN Tail(p) PROVE Tail(p)[i] \in {p[j] : j \in DOMAIN p}
  <2>1. i + 1 \in 1..Len(p) /\ Tail(p)[i] = p[i + 1]
    BY <1>1, <1>2
  <2>2. QED
    BY <1>2, <2>1
<1>5. Head(p) \in {p[j] : j \in DOMAIN p}
  BY <1>1, <1>2
<1>6. QED
  BY <1>1, <1>3, <1>4, <1>5

-----------------------------------------------------------------------------
(* Types.  With them goes that a submission on its way has a region to try.  *)

Routed == {"checking", "selecting", "connecting", "inserting", "getting", "submitting"}

Planned == \A u \in Users : at[u] \in Routed => plan[u] # <<>>

TypeInv == TypeOK /\ Planned

\* A step that leaves the users' state alone.
LEMMA UsersStay ==
    ASSUME TypeInv, UNCHANGED <<flow, started, created>> PROVE UsersOK' /\ Planned'
BY DEF TypeInv, TypeOK, UsersOK, Planned, flow

\* A step of one user, which may have connected a client.
LEMMA OneUser ==
    ASSUME TypeInv, NEW u \in Users, NEW from, NEW to \in Step, Moves(u, from, to),
           plan' \in [Users -> Seq(Regions)], mine' \in [Users -> 0..created'],
           fan' \in [Users -> [Regions -> {"none", "out"}]],
           told' \in [Users -> SUBSET Regions], aim' \in [Users -> SUBSET Regions],
           started' \in 0..MaxCalls,
           \A v \in Users : v # u => plan'[v] = plan[v] /\ aim'[v] = aim[v],
           to \in Routed => plan'[u] # <<>>,
           to \in {"selecting", "connecting", "inserting"} => Head(plan'[u]) \in Served,
           to \in {"cloning", "awaiting"} => Cardinality(aim'[u]) <= MaxBroadcast
    PROVE  UsersOK' /\ Planned'
<1>1. at' \in [Users -> Step]
  BY DEF TypeInv, TypeOK, UsersOK, Moves
<1>2. at'[u] = to /\ \A v \in Users : v # u => at'[v] = at[v]
  BY DEF TypeInv, TypeOK, UsersOK, Moves
<1>3. ASSUME NEW v \in Users, at'[v] \in {"selecting", "connecting", "inserting"}
      PROVE  plan'[v] # <<>> /\ Head(plan'[v]) \in Served
  BY <1>2, <1>3 DEF TypeInv, TypeOK, UsersOK, Routed
<1>4. ASSUME NEW v \in Users, at'[v] \in {"cloning", "awaiting"}
      PROVE  Cardinality(aim'[v]) <= MaxBroadcast
  BY <1>2, <1>4 DEF TypeInv, TypeOK, UsersOK
<1>5. ASSUME NEW v \in Users, at'[v] \in Routed PROVE plan'[v] # <<>>
  BY <1>2, <1>5 DEF TypeInv, Planned
<1>6. UsersOK'
  BY <1>1, <1>3, <1>4 DEF UsersOK
<1>7. QED
  BY <1>5, <1>6 DEF Planned

\* The types hold of a new client.
LEMMA TypeInit == Init => TypeInv
<1> SUFFICES ASSUME Init PROVE TypeInv
  OBVIOUS
<1>1. SelectorOK
  BY DEF Init, SelectorInit, SelectorOK, Users
<1>2. RegistryOK
  BY Bounds DEF Init, RegistryOK
<1>3. RouteOK
  BY DEF Init, RouteOK
<1>4. UsersOK
  <2>1. at \in [Users -> Step] /\ \A u \in Users : at[u] = "idle"
    BY DEF Init, Step
  <2>2. <<>> \in Seq(Regions)
    OBVIOUS
  <2>3. plan \in [Users -> Seq(Regions)] /\ mine \in [Users -> 0..created]
    BY <2>2 DEF Init
  <2>4. fan \in [Users -> [Regions -> {"none", "out"}]]
    BY DEF Init
  <2>5. told \in [Users -> SUBSET Regions] /\ aim \in [Users -> SUBSET Regions]
    BY DEF Init
  <2>6. started \in 0..MaxCalls
    BY Bounds DEF Init
  <2>7. QED
    BY <2>1, <2>3, <2>4, <2>5, <2>6 DEF UsersOK
<1>5. Planned
  BY DEF Init, Planned, Routed
<1>6. QED
  BY <1>1, <1>2, <1>3, <1>4, <1>5 DEF TypeInv, TypeOK

-----------------------------------------------------------------------------
(* The types of the selector, the registry and the route, step by step.      *)

\* A call asks for a worker of a region.
LEMMA AskTyped ==
    ASSUME SelectorOK, NEW u \in Users, NEW r, Ask(u, WorkersOf(r)) PROVE SelectorOK'
<1> USE DEF SelectorOK, Ask, Users
<1>1. WorkersOf(r) \subseteq Workers
  BY DEF WorkersOf
<1>2. scope' \in [Users -> SUBSET Workers]
  BY <1>1
<1>3. asks' \in [Users -> {"no", "measuring", "choosing"}]
  OBVIOUS
<1>4. pings' \in [Users -> [Workers -> {"none", "out", "up", "down"}]]
  <2>1. CASE UNCHANGED pings
    BY <2>1
  <2>2. CASE pings' = [pings EXCEPT ![u] =
                          [w \in Workers |-> IF w \in WorkersOf(r) THEN "out" ELSE @[w]]]
    BY <2>2
  <2>3. QED
    BY <2>1, <2>2
<1>5. QED
  BY <1>2, <1>3, <1>4

\* The steps of the selector itself.
LEMMA SelectorTyped ==
    ASSUME SelectorOK,
           \/ \E u \in Users : Selecting(u) \/ Choose(u)
           \/ \E w \in Workers : Forget(w)
    PROVE  SelectorOK'
<1> USE DEF SelectorOK, Users
<1>1. ASSUME NEW u \in Users, NEW w \in Workers, PingEnds(u, w) PROVE SelectorOK'
  BY <1>1 DEF PingEnds
<1>2. ASSUME NEW u \in Users, NEW w \in Workers, PingStored(u, w) PROVE SelectorOK'
  <2>1. PICK rtt \in Rtts \cup {0} : cache' = [cache EXCEPT ![w] = rtt]
    BY <1>2 DEF PingStored
  <2>2. QED
    BY <1>2, <2>1 DEF PingStored
<1>3. ASSUME NEW u \in Users, Measured(u) PROVE SelectorOK'
  BY <1>3 DEF Measured
<1>4. ASSUME NEW u \in Users, Choose(u) PROVE SelectorOK'
  BY <1>4 DEF Choose
<1>5. ASSUME NEW w \in Workers, Forget(w) PROVE SelectorOK'
  BY <1>5 DEF Forget
<1>6. QED
  BY <1>1, <1>2, <1>3, <1>4, <1>5 DEF Selecting

\* The parts a step leaves alone.
LEMMA PartsStay ==
    ASSUME TypeInv
    PROVE  /\ UNCHANGED selector => SelectorOK'
           /\ UNCHANGED registry => RegistryOK'
           /\ UNCHANGED route => RouteOK'
BY DEF TypeInv, TypeOK, SelectorOK, RegistryOK, RouteOK, selector, registry, route

\* An action that changes no more than a user's own state.
LEMMA UserTyped ==
    ASSUME TypeInv, UNCHANGED <<selector, registry, route>>, UsersOK', Planned'
    PROVE  TypeInv'
BY PartsStay DEF TypeInv, TypeOK

-----------------------------------------------------------------------------
(* The types of the users, and of what else their steps change.             *)

\* What is recommended is not empty.
LEMMA RecommendedIs == TypeInv => Recommended \in Seq(Regions) /\ Recommended # <<>>
<1> SUFFICES ASSUME TypeInv PROVE Recommended \in Seq(Regions) /\ Recommended # <<>>
  OBVIOUS
<1>1. CASE routing = None
  <2>1. <<DefaultRegion>> \in Seq(Regions) /\ <<DefaultRegion>> # <<>>
    BY DefaultIsRegion
  <2>2. QED
    BY <1>1, <2>1 DEF Recommended
<1>2. CASE routing # None
  <2>1. routing \in Hinted
    BY <1>2 DEF TypeInv, TypeOK, RouteOK
  <2>2. QED
    BY <1>2, <2>1, Bounds DEF Recommended
<1>3. QED
  BY <1>1, <1>2

\* A call that is counted stays within its bound.
LEMMA CountTyped == ASSUME TypeInv, CountCall PROVE started' \in 0..MaxCalls
BY Bounds DEF TypeInv, TypeOK, UsersOK, CountCall

\* A submission sets out.
LEMMA SubmitStartTyped ==
    ASSUME TypeInv, NEW u \in Users, SubmitStart(u) PROVE TypeInv'
<1> USE DEF SubmitStart
<1>1. started' \in 0..MaxCalls
  BY CountTyped
<1>2. plan' = [plan EXCEPT ![u] = Recommended] /\ plan \in [Users -> Seq(Regions)]
  BY DEF TypeInv, TypeOK, UsersOK
<1>3. plan' \in [Users -> Seq(Regions)] /\ plan'[u] # <<>>
      /\ \A v \in Users : v # u => plan'[v] = plan[v]
  BY <1>2, RecommendedIs
<1>4. {Recommended[i] : i \in DOMAIN Recommended} \in SUBSET Regions
  BY RecommendedIs
<1>5. /\ aim' \in [Users -> SUBSET Regions] /\ told' \in [Users -> SUBSET Regions]
      /\ \A v \in Users : v # u => aim'[v] = aim[v]
  BY <1>4 DEF TypeInv, TypeOK, UsersOK
<1>6. /\ mine' \in [Users -> 0..created'] /\ fan' \in [Users -> [Regions -> {"none", "out"}]]
      /\ UNCHANGED <<selector, registry, route>>
  BY DEF TypeInv, TypeOK, UsersOK, registry
<1>7. UsersOK' /\ Planned'
  BY <1>1, <1>3, <1>5, <1>6, OneUser DEF Step
<1>8. QED
  BY <1>6, <1>7, UserTyped

\* A broadcast sets out.
LEMMA BroadcastStartTyped ==
    ASSUME TypeInv, NEW u \in Users, BroadcastStart(u) PROVE TypeInv'
<1> USE DEF BroadcastStart
<1>1. started' \in 0..MaxCalls
  BY CountTyped
<1>2. PICK rs \in SUBSET Served : Nearest(rs) /\ aim' = [aim EXCEPT ![u] = rs]
  OBVIOUS
<1>3. rs \in SUBSET Regions /\ Cardinality(rs) <= MaxBroadcast
  BY <1>2, ServedIs, NearestIsBounded
<1>4. /\ aim' \in [Users -> SUBSET Regions] /\ told' \in [Users -> SUBSET Regions]
      /\ aim'[u] = rs /\ \A v \in Users : v # u => aim'[v] = aim[v]
  BY <1>2, <1>3 DEF TypeInv, TypeOK, UsersOK
<1>5. /\ plan' \in [Users -> Seq(Regions)] /\ \A v \in Users : v # u => plan'[v] = plan[v]
      /\ mine' \in [Users -> 0..created'] /\ fan' \in [Users -> [Regions -> {"none", "out"}]]
      /\ UNCHANGED <<selector, registry, route>>
  BY DEF TypeInv, TypeOK, UsersOK, registry
<1>6. UsersOK' /\ Planned'
  BY <1>1, <1>3, <1>4, <1>5, OneUser DEF Step, Routed
<1>7. QED
  BY <1>5, <1>6, UserTyped

\* A step of a submission that keeps to its region.
LEMMA StageTyped ==
    ASSUME TypeInv, NEW u \in Users, NEW from \in Routed, NEW to \in Routed \cup {"done"},
           Moves(u, from, to), UNCHANGED <<plan, fan, told, aim, started>>,
           mine' \in [Users -> 0..created'],
           to \in {"selecting", "connecting", "inserting"} => Head(plan[u]) \in Served
    PROVE  UsersOK' /\ Planned'
<1>1. to \in Step /\ at[u] = from
  BY DEF Step, Routed, Moves
<1>2. plan[u] # <<>>
  BY <1>1 DEF TypeInv, Planned
<1>3. to \notin {"cloning", "awaiting"}
  BY DEF Routed
<1>4. /\ plan' \in [Users -> Seq(Regions)] /\ fan' \in [Users -> [Regions -> {"none", "out"}]]
      /\ told' \in [Users -> SUBSET Regions] /\ aim' \in [Users -> SUBSET Regions]
      /\ started' \in 0..MaxCalls
  BY DEF TypeInv, TypeOK, UsersOK
<1>5. QED
  BY <1>1, <1>2, <1>3, <1>4, OneUser

\* A region that failed.
LEMMA RegionFailsTyped ==
    ASSUME TypeInv, NEW u \in Users, NEW from \in Routed, RegionFails(u, from),
           UNCHANGED created
    PROVE  UsersOK' /\ Planned'
<1> USE DEF RegionFails
<1>1. /\ at[u] = from /\ plan[u] \in Seq(Regions) /\ plan[u] # <<>>
      /\ plan' = [plan EXCEPT ![u] = Tail(plan[u])] /\ plan \in [Users -> Seq(Regions)]
  BY DEF Moves, TypeInv, TypeOK, UsersOK, Planned, Fallbacks
<1>2. Head(plan[u]) \in Regions /\ Tail(plan[u]) \in Seq(Regions)
  BY <1>1, TailIs
<1>3. plan' \in [Users -> Seq(Regions)] /\ plan'[u] = Tail(plan[u])
      /\ \A v \in Users : v # u => plan'[v] = plan[v]
  BY <1>1, <1>2
<1>4. told' \in [Users -> SUBSET Regions]
  BY <1>2 DEF TypeInv, TypeOK, UsersOK
<1>5. mine' \in [Users -> 0..created']
  <2>1. 0 \in 0..created
    BY DEF TypeInv, TypeOK, RegistryOK
  <2>2. QED
    BY <2>1 DEF TypeInv, TypeOK, UsersOK
<1>6. /\ fan' \in [Users -> [Regions -> {"none", "out"}]] /\ aim' = aim
      /\ aim' \in [Users -> SUBSET Regions] /\ started' \in 0..MaxCalls
  BY DEF TypeInv, TypeOK, UsersOK
<1>7. CASE Tail(plan[u]) = <<>>
  <2>1. Moves(u, from, "failed")
    BY <1>7 DEF Fallbacks
  <2>2. QED
    BY <1>3, <1>4, <1>5, <1>6, <2>1, OneUser DEF Step, Routed
<1>8. CASE Tail(plan[u]) # <<>>
  <2>1. Moves(u, from, "checking")
    BY <1>8 DEF Fallbacks
  <2>2. QED
    BY <1>3, <1>4, <1>5, <1>6, <1>8, <2>1, OneUser DEF Step, Routed
<1>9. QED
  BY <1>7, <1>8

\* The region's turn fails, with nothing else changed.
LEMMA FailuresTyped ==
    ASSUME TypeInv, NEW u \in Users, EnsureRefuses(u) \/ EnsureFails(u) \/ SubmitFindsNone(u)
    PROVE  TypeInv'
<1>1. /\ \E from \in Routed : RegionFails(u, from)
      /\ UNCHANGED <<selector, registry, route>>
  BY DEF EnsureRefuses, EnsureFails, SubmitFindsNone, Routed
<1>2. UNCHANGED created
  BY <1>1 DEF registry
<1>3. QED
  BY <1>1, <1>2, RegionFailsTyped, UserTyped

\* The client is found, or a worker asked for and chosen.
LEMMA EnsureTyped ==
    ASSUME TypeInv, NEW u \in Users, EnsureFinds(u) \/ EnsureSelects(u) \/ EnsureChooses(u)
    PROVE  TypeInv'
<1>1. CASE EnsureFinds(u)
  <2>1. UNCHANGED <<selector, registry, route>> /\ mine' \in [Users -> 0..created']
    BY <1>1 DEF EnsureFinds, TypeInv, TypeOK, UsersOK, registry
  <2>2. UsersOK' /\ Planned'
    BY <1>1, <2>1, StageTyped DEF EnsureFinds, Routed
  <2>3. QED
    BY <2>1, <2>2, UserTyped
<1>2. CASE EnsureSelects(u)
  <2>1. UNCHANGED <<registry, route>> /\ mine' \in [Users -> 0..created']
    BY <1>2 DEF EnsureSelects, Released, TypeInv, TypeOK, UsersOK, registry
  <2>2. UsersOK' /\ Planned'
    BY <1>2, <2>1, StageTyped DEF EnsureSelects, HasWorkers, Routed
  <2>3. SelectorOK'
    BY <1>2, AskTyped DEF EnsureSelects, TypeInv, TypeOK
  <2>4. QED
    BY <2>1, <2>2, <2>3, PartsStay DEF TypeInv, TypeOK
<1>3. CASE EnsureChooses(u)
  <2>1. UNCHANGED <<registry, route>> /\ mine' \in [Users -> 0..created']
    BY <1>3 DEF EnsureChooses, TypeInv, TypeOK, UsersOK, registry
  <2>2. Head(plan[u]) \in Served
    BY <1>3 DEF EnsureChooses, Moves, TypeInv, TypeOK, UsersOK
  <2>3. UsersOK' /\ Planned'
    BY <1>3, <2>1, <2>2, StageTyped DEF EnsureChooses, Routed
  <2>4. SelectorOK'
    BY <1>3, SelectorTyped DEF EnsureChooses, TypeInv, TypeOK
  <2>5. QED
    BY <2>1, <2>3, <2>4, PartsStay DEF TypeInv, TypeOK
<1>4. QED
  BY <1>1, <1>2, <1>3

\* A client is connected.
LEMMA EnsureConnectsTyped ==
    ASSUME TypeInv, NEW u \in Users, EnsureConnects(u) PROVE TypeInv'
<1> USE DEF EnsureConnects
<1>1. created' = created + 1 /\ created \in 1..MaxClients /\ created < MaxClients
  BY DEF TypeInv, TypeOK, RegistryOK
<1>2. created' \in 1..MaxClients /\ 0..created \subseteq 0..created' /\ created' \in 0..created'
      /\ 1..created \subseteq 1..created' /\ created' \in 1..created'
  BY <1>1, Bounds
<1>3. RegistryOK'
  <2>1. clients' \in [Regions -> 0..created']
    BY <1>2 DEF TypeInv, TypeOK, RegistryOK
  <2>2. live' \subseteq 1..created'
    BY <1>2 DEF TypeInv, TypeOK, RegistryOK
  <2>3. QED
    BY <1>2, <2>1, <2>2 DEF TypeInv, TypeOK, RegistryOK
<1>4. mine' \in [Users -> 0..created']
  BY <1>2 DEF TypeInv, TypeOK, UsersOK
<1>5. Head(plan[u]) \in Served
  BY DEF Moves, TypeInv, TypeOK, UsersOK
<1>6. UsersOK' /\ Planned'
  BY <1>4, <1>5, StageTyped DEF Routed
<1>7. QED
  BY <1>3, <1>6, PartsStay DEF TypeInv, TypeOK

\* A client is inserted, and what was there before is dropped.
LEMMA EnsureInsertsTyped ==
    ASSUME TypeInv, NEW u \in Users, EnsureInserts(u) PROVE TypeInv'
<1> USE DEF EnsureInserts
<1>1. mine \in [Users -> 0..created] /\ created \in Nat
  BY Bounds DEF TypeInv, TypeOK, RegistryOK, UsersOK
<1>2. mine[u] \in 0..created /\ 0 \in 0..created
  BY <1>1
<1>3. RegistryOK'
  <2>1. clients' \in [Regions -> 0..created]
    BY <1>2 DEF TypeInv, TypeOK, RegistryOK
  <2>2. QED
    BY <2>1 DEF TypeInv, TypeOK, RegistryOK
<1>4. mine' \in [Users -> 0..created']
  BY <1>1, <1>2
<1>5. UsersOK' /\ Planned'
  BY <1>4, StageTyped DEF Routed
<1>6. QED
  BY <1>3, <1>5, PartsStay DEF TypeInv, TypeOK

\* A client submits, under the lock.
LEMMA SubmitSendsTyped ==
    ASSUME TypeInv, NEW u \in Users, SubmitSends(u) PROVE TypeInv'
<1> USE DEF SubmitSends
<1>1. /\ plan[u] \in Seq(Regions) /\ plan[u] # <<>>
  BY DEF Moves, TypeInv, TypeOK, UsersOK, Planned, Routed
<1>2. clients[Head(plan[u])] \in 0..created
  BY <1>1, TailIs DEF TypeInv, TypeOK, RegistryOK
<1>3. mine' \in [Users -> 0..created']
  BY <1>2 DEF TypeInv, TypeOK, UsersOK
<1>4. RegistryOK'
  BY DEF Held, TypeInv, TypeOK, RegistryOK
<1>5. UsersOK' /\ Planned'
  BY <1>3, StageTyped DEF Routed
<1>6. QED
  BY <1>4, <1>5, PartsStay DEF TypeInv, TypeOK

\* It answers.
LEMMA SubmitEndsTyped ==
    ASSUME TypeInv, NEW u \in Users, SubmitOk(u) \/ SubmitErr(u) PROVE TypeInv'
<1>1. RegistryOK'
  BY DEF SubmitOk, SubmitErr, TypeInv, TypeOK, RegistryOK
<1>2. CASE SubmitOk(u)
  <2>1. 0 \in 0..created
    BY DEF TypeInv, TypeOK, RegistryOK
  <2>2. mine' \in [Users -> 0..created']
    BY <1>2, <2>1 DEF SubmitOk, TypeInv, TypeOK, UsersOK
  <2>3. UsersOK' /\ Planned'
    BY <1>2, <2>2, StageTyped DEF SubmitOk, Routed
  <2>4. QED
    BY <1>1, <1>2, <2>3, PartsStay DEF SubmitOk, TypeInv, TypeOK
<1>3. CASE SubmitErr(u)
  <2>1. UsersOK' /\ Planned'
    BY <1>3, RegionFailsTyped DEF SubmitErr, Routed
  <2>2. QED
    BY <1>1, <1>3, <2>1, PartsStay DEF SubmitErr, TypeInv, TypeOK
<1>4. QED
  BY <1>2, <1>3

\* The caller has its result.
LEMMA ReturnsTyped ==
    ASSUME TypeInv, NEW u \in Users, Returns(u) PROVE TypeInv'
<1> USE DEF Returns
<1>1. UNCHANGED <<selector, registry, route>> /\ Moves(u, at[u], "idle")
  BY DEF Moves
<1>2. /\ plan' \in [Users -> Seq(Regions)] /\ aim' \in [Users -> SUBSET Regions]
      /\ told' \in [Users -> SUBSET Regions]
      /\ \A v \in Users : v # u => plan'[v] = plan[v] /\ aim'[v] = aim[v]
  BY DEF TypeInv, TypeOK, UsersOK
<1>3. /\ mine' \in [Users -> 0..created'] /\ fan' \in [Users -> [Regions -> {"none", "out"}]]
      /\ started' \in 0..MaxCalls
  BY DEF TypeInv, TypeOK, UsersOK, registry
<1>4. UsersOK' /\ Planned'
  BY <1>1, <1>2, <1>3, OneUser DEF Step, Routed
<1>5. QED
  BY <1>1, <1>4, UserTyped

\* A step of a broadcast on its way.
LEMMA BroadcastTyped ==
    ASSUME TypeInv, NEW u \in Users, NEW to \in {"cloning", "awaiting", "failed", "done"},
           at[u] \in {"cloning", "awaiting"}, at' = [at EXCEPT ![u] = to],
           fan' \in [Users -> [Regions -> {"none", "out"}]],
           told' \in [Users -> SUBSET Regions],
           UNCHANGED <<selector, registry, route, plan, mine, aim, started>>
    PROVE  TypeInv'
<1>1. Moves(u, at[u], to) /\ Cardinality(aim[u]) <= MaxBroadcast
  BY DEF Moves, TypeInv, TypeOK, UsersOK
<1>2. /\ plan' \in [Users -> Seq(Regions)] /\ aim' \in [Users -> SUBSET Regions]
      /\ mine' \in [Users -> 0..created'] /\ started' \in 0..MaxCalls
  BY DEF TypeInv, TypeOK, UsersOK, registry
<1>3. to \in Step /\ to \notin Routed
  BY DEF Step, Routed
<1>4. UsersOK' /\ Planned'
  BY <1>1, <1>2, <1>3, OneUser DEF Routed
<1>5. QED
  BY <1>4, UserTyped

\* A broadcast clones a client, or is told of a region without one.
LEMMA BroadcastClonesTyped ==
    ASSUME TypeInv, NEW u \in Users, NEW r \in Regions, BroadcastClones(u, r) PROVE TypeInv'
<1> USE DEF BroadcastClones
<1>1. at' = [at EXCEPT ![u] = "cloning"] /\ at[u] = "cloning"
  BY DEF TypeInv, TypeOK, UsersOK
<1>2. fan' \in [Users -> [Regions -> {"none", "out"}]]
  <2>1. fan \in [Users -> [Regions -> {"none", "out"}]]
    BY DEF TypeInv, TypeOK, UsersOK
  <2>2. fan' = [fan EXCEPT ![u][r] = "out"] \/ fan' = fan
    OBVIOUS
  <2>3. QED
    BY <2>1, <2>2
<1>3. told' \in [Users -> SUBSET Regions]
  <2>1. told \in [Users -> SUBSET Regions]
    BY DEF TypeInv, TypeOK, UsersOK
  <2>2. told' = told \/ told' = [told EXCEPT ![u] = told[u] \cup {r}]
    OBVIOUS
  <2>3. QED
    BY <2>1, <2>2
<1>4. QED
  BY <1>1, <1>2, <1>3, BroadcastTyped

\* One of its submissions fails.
LEMMA BroadcastErrTyped ==
    ASSUME TypeInv, NEW u \in Users, NEW r \in Regions, BroadcastErr(u, r) PROVE TypeInv'
<1> USE DEF BroadcastErr
<1>1. at' = [at EXCEPT ![u] = "awaiting"] /\ at[u] = "awaiting"
  BY DEF TypeInv, TypeOK, UsersOK
<1>2. fan' \in [Users -> [Regions -> {"none", "out"}]]
  BY DEF TypeInv, TypeOK, UsersOK
<1>3. told' \in [Users -> SUBSET Regions]
  BY DEF TypeInv, TypeOK, UsersOK
<1>4. QED
  BY <1>1, <1>2, <1>3, BroadcastTyped

\* One of them succeeds, all have failed, or they are awaited from now on.
LEMMA BroadcastMovesTyped ==
    ASSUME TypeInv, NEW u \in Users,
           BroadcastAwaits(u) \/ BroadcastFails(u) \/ \E r \in Regions : BroadcastOk(u, r)
    PROVE  TypeInv'
<1> USE DEF Moves
<1>1. fan' \in [Users -> [Regions -> {"none", "out"}]]
  <2>1. fan \in [Users -> [Regions -> {"none", "out"}]]
    BY DEF TypeInv, TypeOK, UsersOK
  <2>2. fan' = fan \/ fan' = [fan EXCEPT ![u] = [q \in Regions |-> "none"]]
    BY DEF BroadcastAwaits, BroadcastFails, BroadcastOk
  <2>3. QED
    BY <2>1, <2>2
<1>2. told' \in [Users -> SUBSET Regions]
  BY DEF BroadcastAwaits, BroadcastFails, BroadcastOk, TypeInv, TypeOK, UsersOK
<1>3. CASE BroadcastAwaits(u)
  BY <1>1, <1>2, <1>3, BroadcastTyped DEF BroadcastAwaits
<1>4. CASE BroadcastFails(u)
  BY <1>1, <1>2, <1>4, BroadcastTyped DEF BroadcastFails
<1>5. CASE \E r \in Regions : BroadcastOk(u, r)
  BY <1>1, <1>2, <1>5, BroadcastTyped DEF BroadcastOk
<1>6. QED
  BY <1>3, <1>4, <1>5

\* The hints.
LEMMA HintTyped ==
    ASSUME TypeInv, NEW h \in Updaters, HintPasses(h) \/ HintApplied(h) PROVE TypeInv'
<1>1. CASE HintPasses(h)
  <2>1. RouteOK'
    BY <1>1 DEF HintPasses, TypeInv, TypeOK, RouteOK
  <2>2. started' \in 0..MaxCalls
    BY <1>1, CountTyped DEF HintPasses
  <2>3. UsersOK' /\ Planned'
    BY <1>1, <2>2 DEF HintPasses, TypeInv, TypeOK, UsersOK, Planned, registry, flow
  <2>4. QED
    BY <1>1, <2>1, <2>3, PartsStay DEF HintPasses, TypeInv, TypeOK
<1>2. CASE HintApplied(h)
  <2>1. hint[h] \in Hinted /\ switches \in Nat
    BY <1>2 DEF HintApplied, TypeInv, TypeOK, RouteOK
  <2>2. routing' \in Hinted /\ hint' \in [Updaters -> Hinted \cup {None}]
    BY <1>2, <2>1 DEF HintApplied, TypeInv, TypeOK, RouteOK
  <2>3. cooling' \in BOOLEAN /\ switches' \in Nat
    <3>1. \/ cooling' = TRUE /\ switches' = switches + 1
          \/ UNCHANGED <<cooling, switches>>
      BY <1>2 DEF HintApplied
    <3>2. cooling \in BOOLEAN
      BY DEF TypeInv, TypeOK, RouteOK
    <3>3. cooling' \in BOOLEAN
      BY <3>1, <3>2
    <3>4. switches' \in Nat
      BY <2>1, <3>1
    <3>5. QED
      BY <3>3, <3>4
  <2>4. UsersOK' /\ Planned'
    BY <1>2, UsersStay DEF HintApplied, registry, users
  <2>5. QED
    BY <1>2, <2>2, <2>3, <2>4, PartsStay DEF HintApplied, TypeInv, TypeOK, RouteOK
<1>3. QED
  BY <1>1, <1>2

\* disconnect_all, the selector by itself, and the end of the cooldown.
LEMMA OthersTyped ==
    ASSUME TypeInv,
           \/ CooldownEnds \/ CloseStart \/ Closes
           \/ \E u \in Users : SelectorStep(u)
           \/ \E w \in Workers : WorkerForgotten(w)
    PROVE  TypeInv'
<1>1. CASE CooldownEnds
  <2>1. RouteOK'
    BY <1>1 DEF CooldownEnds, TypeInv, TypeOK, RouteOK
  <2>2. UsersOK' /\ Planned'
    BY <1>1, UsersStay DEF CooldownEnds, registry, users
  <2>3. QED
    BY <1>1, <2>1, <2>2, PartsStay DEF CooldownEnds, TypeInv, TypeOK
<1>2. CASE CloseStart
  <2>1. RegistryOK'
    BY <1>2 DEF CloseStart, TypeInv, TypeOK, RegistryOK
  <2>2. started' \in 0..MaxCalls
    BY <1>2, CountTyped DEF CloseStart
  <2>3. UsersOK' /\ Planned'
    BY <1>2, <2>2 DEF CloseStart, TypeInv, TypeOK, UsersOK, Planned, flow
  <2>4. QED
    BY <1>2, <2>1, <2>3, PartsStay DEF CloseStart, TypeInv, TypeOK
<1>3. CASE Closes
  <2>1. RegistryOK'
    <3>1. CASE CloseLocks \/ CloseReturns
      BY <3>1 DEF CloseLocks, CloseReturns, TypeInv, TypeOK, RegistryOK
    <3>2. ASSUME NEW r \in Regions, CloseOne(r) PROVE RegistryOK'
      <4>1. 0 \in 0..created
        BY DEF TypeInv, TypeOK, RegistryOK
      <4>2. clients' \in [Regions -> 0..created]
        BY <3>2, <4>1 DEF CloseOne, TypeInv, TypeOK, RegistryOK
      <4>3. QED
        BY <3>2, <4>2 DEF CloseOne, TypeInv, TypeOK, RegistryOK
    <3>3. QED
      BY <1>3, <3>1, <3>2 DEF Closes
  <2>2. UNCHANGED <<created, selector, route, users>>
    BY <1>3 DEF Closes, CloseLocks, CloseOne, CloseReturns
  <2>3. UsersOK' /\ Planned'
    BY <2>2, UsersStay DEF users
  <2>4. QED
    BY <2>1, <2>2, <2>3, PartsStay DEF TypeInv, TypeOK
<1>4. CASE \/ \E u \in Users : SelectorStep(u)
           \/ \E w \in Workers : WorkerForgotten(w)
  <2>1. UNCHANGED <<registry, route, users>> /\ SelectorOK'
    BY <1>4, SelectorTyped DEF SelectorStep, WorkerForgotten, TypeInv, TypeOK
  <2>2. UsersOK' /\ Planned'
    BY <2>1, UsersStay DEF registry, users
  <2>3. QED
    BY <2>1, <2>2, PartsStay DEF TypeInv, TypeOK
<1>5. QED
  BY <1>1, <1>2, <1>3, <1>4

\* Every step keeps the types.
LEMMA TypeStep == TypeInv /\ [Next]_vars => TypeInv'
<1> SUFFICES ASSUME TypeInv, [Next]_vars PROVE TypeInv'
  OBVIOUS
<1>1. ASSUME NEW u \in Users, SubmitStart(u) \/ BroadcastStart(u) PROVE TypeInv'
  BY <1>1, SubmitStartTyped, BroadcastStartTyped
<1>2. ASSUME NEW u \in Users, Proceeds(u) PROVE TypeInv'
  <2>1. CASE EnsureFinds(u) \/ EnsureSelects(u) \/ EnsureChooses(u)
    BY <2>1, EnsureTyped
  <2>2. CASE EnsureRefuses(u) \/ EnsureFails(u) \/ SubmitFindsNone(u)
    BY <2>2, FailuresTyped
  <2>3. CASE EnsureConnects(u)
    BY <2>3, EnsureConnectsTyped
  <2>4. CASE EnsureInserts(u)
    BY <2>4, EnsureInsertsTyped
  <2>5. CASE SubmitSends(u)
    BY <2>5, SubmitSendsTyped
  <2>6. CASE SubmitOk(u) \/ SubmitErr(u)
    BY <2>6, SubmitEndsTyped
  <2>7. CASE \E r \in Regions : BroadcastClones(u, r) \/ BroadcastErr(u, r)
    BY <2>7, BroadcastClonesTyped, BroadcastErrTyped
  <2>8. CASE BroadcastAwaits(u) \/ BroadcastFails(u) \/ \E r \in Regions : BroadcastOk(u, r)
    BY <2>8, BroadcastMovesTyped
  <2>9. CASE Returns(u)
    BY <2>9, ReturnsTyped
  <2>10. CASE SelectorStep(u)
    BY <2>10, OthersTyped
  <2>11. QED
    BY <1>2, <2>1, <2>2, <2>3, <2>4, <2>5, <2>6, <2>7, <2>8, <2>9, <2>10 DEF Proceeds, Advances, Answered
<1>3. ASSUME NEW h \in Updaters, HintPasses(h) \/ HintApplied(h) PROVE TypeInv'
  BY <1>3, HintTyped
<1>4. CASE CooldownEnds \/ CloseStart \/ Closes \/ \E w \in Workers : WorkerForgotten(w)
  BY <1>4, OthersTyped
<1>5. CASE UNCHANGED vars
  <2>1. UNCHANGED <<selector, registry, route, flow, started, created>>
    BY <1>5 DEF vars, users, registry
  <2>2. QED
    BY <2>1, UsersStay, UserTyped
<1>6. QED
  BY <1>1, <1>2, <1>3, <1>4, <1>5, Zenon DEF Next

\* The types hold in every reachable state.
LEMMA TypeHolds == Spec => []TypeInv
BY TypeInit, TypeStep, PTL DEF Spec

\* Every variable has its type: a client is connected only for a region that has a
\* worker, and a broadcast goes to no more regions than it may.
THEOREM TypeCorrect == Spec => []TypeOK
<1>1. TypeInv => TypeOK
  BY DEF TypeInv
<1>2. QED
  BY <1>1, TypeHolds, PTL
-----------------------------------------------------------------------------
(* Switches and the cooldown.                                               *)

\* The updaters whose hint has passed the cooldown's check and is not applied yet.
Holders == {h \in Updaters : hint[h] # None}

\* Each of them may still switch the region, and none has done so since.
SwitchInv ==
    /\ switches \in Nat
    /\ ~cooling => switches = 0
    /\ switches + Cardinality(Holders) <= Cardinality(Updaters)

\* The updaters with a hint are finitely many.
LEMMA HoldersAre ==
    /\ Cardinality(Updaters) \in Nat
    /\ IsFiniteSet(Holders) /\ Cardinality(Holders) \in Nat
    /\ Cardinality(Holders) <= Cardinality(Updaters)
<1>1. Holders \subseteq Updaters
  BY DEF Holders
<1>2. IsFiniteSet(Holders) /\ Cardinality(Holders) <= Cardinality(Updaters)
  BY <1>1, Bounds, FS_Subset
<1>3. QED
  BY <1>2, Bounds, FS_CardinalityType

\* An updater with a hint: there is room for one more switch.
LEMMA HintAppliedSwitch ==
    ASSUME TypeInv, SwitchInv, NEW h \in Updaters, HintApplied(h) PROVE SwitchInv'
<1> USE DEF SwitchInv
<1>1. h \in Holders
  BY DEF HintApplied, Holders
<1>2. Holders' = Holders \ {h}
  <2>1. hint' = [hint EXCEPT ![h] = None] /\ hint \in [Updaters -> Hinted \cup {None}]
    BY DEF HintApplied, TypeInv, TypeOK, RouteOK
  <2>2. QED
    BY <2>1 DEF Holders
<1>3. Cardinality(Holders') = Cardinality(Holders) - 1
  BY <1>1, <1>2, HoldersAre, FS_RemoveElement
<1>4. \/ cooling' = TRUE /\ switches' = switches + 1
      \/ cooling' = cooling /\ switches' = switches
  BY DEF HintApplied
<1>5. QED
  BY <1>3, <1>4, HoldersAre

\* Off cooldown, no switch counts yet, whoever has a hint.
LEMMA HintPassesSwitch ==
    ASSUME SwitchInv, NEW h \in Updaters, HintPasses(h) PROVE SwitchInv'
<1>1. switches' = 0 /\ cooling' = cooling
  BY DEF HintPasses, Cooled, SwitchInv
<1>2. Holders' \subseteq Updaters
  BY DEF Holders
<1>3. Cardinality(Holders') <= Cardinality(Updaters) /\ IsFiniteSet(Holders')
  BY <1>2, Bounds, FS_Subset
<1>4. Cardinality(Holders') \in Nat
  BY <1>3, FS_CardinalityType
<1>5. QED
  BY <1>1, <1>3, <1>4, HoldersAre DEF SwitchInv

\* The cooldown ends, and the count begins anew.
LEMMA CooldownEndsSwitch ==
    ASSUME SwitchInv, CooldownEnds PROVE SwitchInv'
<1>1. switches' = 0 /\ hint' = hint
  BY DEF CooldownEnds
<1>2. Holders' = Holders
  BY <1>1 DEF Holders
<1>3. QED
  BY <1>1, <1>2, HoldersAre DEF SwitchInv

\* All other steps leave the route alone.
LEMMA RouteStays ==
    ASSUME [Next]_vars, ~CooldownEnds,
           \A h \in Updaters : ~HintPasses(h) /\ ~HintApplied(h)
    PROVE  UNCHANGED route
<1>1. ASSUME NEW u \in Users, SubmitStart(u) \/ BroadcastStart(u) PROVE UNCHANGED route
  BY <1>1 DEF SubmitStart, BroadcastStart
<1>2. ASSUME NEW u \in Users, Proceeds(u) PROVE UNCHANGED route
  <2>1. CASE EnsureFinds(u) \/ EnsureSelects(u) \/ EnsureRefuses(u) \/ EnsureChooses(u)
    BY <2>1 DEF EnsureFinds, EnsureSelects, EnsureRefuses, EnsureChooses
  <2>2. CASE EnsureConnects(u) \/ EnsureFails(u) \/ EnsureInserts(u)
    BY <2>2 DEF EnsureConnects, EnsureFails, EnsureInserts
  <2>3. CASE SubmitSends(u) \/ SubmitFindsNone(u) \/ SubmitOk(u) \/ SubmitErr(u)
    BY <2>3 DEF SubmitSends, SubmitFindsNone, SubmitOk, SubmitErr
  <2>4. CASE \E r \in Regions : BroadcastClones(u, r) \/ BroadcastOk(u, r) \/ BroadcastErr(u, r)
    BY <2>4 DEF BroadcastClones, BroadcastOk, BroadcastErr
  <2>5. CASE BroadcastAwaits(u) \/ BroadcastFails(u) \/ Returns(u) \/ SelectorStep(u)
    BY <2>5 DEF BroadcastAwaits, BroadcastFails, Returns, SelectorStep
  <2>6. QED
    BY <1>2, <2>1, <2>2, <2>3, <2>4, <2>5 DEF Proceeds, Advances, Answered
<1>3. CASE \/ CloseStart \/ Closes
           \/ \E w \in Workers : WorkerForgotten(w)
  BY <1>3 DEF CloseStart, Closes, CloseLocks, CloseOne, CloseReturns, WorkerForgotten
<1>4. CASE UNCHANGED vars
  BY <1>4 DEF vars
<1>5. QED
  BY <1>1, <1>2, <1>3, <1>4, Zenon DEF Next

\* The invariant of the cooldown holds in every reachable state.
LEMMA SwitchHolds == Spec => []SwitchInv
<1>1. Init => SwitchInv
  <2> SUFFICES ASSUME Init PROVE SwitchInv
    OBVIOUS
  <2>1. switches = 0
    BY DEF Init
  <2>2. QED
    BY <2>1, HoldersAre DEF SwitchInv
<1>2. ASSUME TypeInv, SwitchInv, [Next]_vars PROVE SwitchInv'
  <2>1. CASE CooldownEnds
    BY <1>2, <2>1, CooldownEndsSwitch
  <2>2. CASE \E h \in Updaters : HintPasses(h) \/ HintApplied(h)
    BY <1>2, <2>2, HintPassesSwitch, HintAppliedSwitch
  <2>3. CASE UNCHANGED route
    <3>1. switches' = switches /\ cooling' = cooling /\ hint' = hint
      BY <2>3 DEF route
    <3>2. Holders' = Holders
      BY <3>1 DEF Holders
    <3>3. QED
      BY <1>2, <3>1, <3>2 DEF SwitchInv
  <2>4. QED
    BY <1>2, <2>1, <2>2, <2>3, RouteStays
<1>3. QED
  BY <1>1, <1>2, TypeHolds, PTL DEF Spec

\* Within one cooldown the region is switched at most once per updater, as the
\* cooldown is not read again once the routing lock is held.
THEOREM SwitchesAreBounded == Spec => []SwitchesBounded
<1>1. SwitchInv => SwitchesBounded
  <2> SUFFICES ASSUME SwitchInv PROVE SwitchesBounded
    OBVIOUS
  <2>1. QED
    BY HoldersAre DEF SwitchInv, SwitchesBounded
<1>2. QED
  BY <1>1, SwitchHolds, PTL

-----------------------------------------------------------------------------
(* The lock of region_clients, and what it protects.                        *)

\* The client that u has connected and not inserted yet is its own.
OwnsClient(u) ==
    /\ mine[u] \in live /\ mine[u] # 0
    /\ \A r \in Regions : clients[r] # mine[u]
    /\ \A v \in Users : v # u /\ at[v] = "inserting" => mine[v] # mine[u]

\* disconnect_all holds the lock alone while it disconnects; a submission holds it
\* for reading; the clients of the map are connected, and each serves one region.
LockInv ==
    /\ closing = "closing" => readers = {}
    /\ \A u \in Users : at[u] = "submitting" => u \in readers /\ mine[u] \in live
    /\ \A r \in Regions : clients[r] # 0 => clients[r] \in live
    /\ \A r, q \in Regions : clients[r] # 0 /\ clients[r] = clients[q] => r = q
    /\ \A u \in Users : at[u] = "inserting" => OwnsClient(u)

\* A step of user u that leaves the registry as it is.
LEMMA LockStays ==
    ASSUME LockInv, NEW u \in Users, UNCHANGED registry,
           at'[u] \notin {"submitting", "inserting"},
           \A v \in Users : v # u => at'[v] = at[v] /\ mine'[v] = mine[v]
    PROVE  LockInv'
<1> USE DEF registry
<1>1. ASSUME NEW v \in Users, at'[v] \in {"submitting", "inserting"}
      PROVE  v # u /\ at[v] = at'[v] /\ mine[v] = mine'[v]
  BY <1>1
<1>2. ASSUME NEW v \in Users, at'[v] = "inserting" PROVE OwnsClient(v)'
  BY <1>1, <1>2 DEF LockInv, OwnsClient
<1>3. QED
  BY <1>1, <1>2 DEF LockInv

\* A step that leaves at and mine alone, too.
LEMMA LockUntouched ==
    ASSUME LockInv, UNCHANGED <<registry, at, mine>> PROVE LockInv'
BY DEF LockInv, OwnsClient, registry

\* One that moves user u, to neither of the stages that the invariant is about.
LEMMA LockMoves ==
    ASSUME TypeInv, LockInv, NEW u \in Users, NEW to, UNCHANGED registry,
           at' = [at EXCEPT ![u] = to], to \notin {"submitting", "inserting"},
           mine' = mine \/ mine' = [mine EXCEPT ![u] = 0]
    PROVE  LockInv'
<1>1. at'[u] = to /\ \A v \in Users : v # u => at'[v] = at[v] /\ mine'[v] = mine[v]
  BY DEF TypeInv, TypeOK, UsersOK
<1>2. QED
  BY <1>1, LockStays

\* A region failed, the registry as it was.
LEMMA RegionFailsLock ==
    ASSUME TypeInv, LockInv, NEW u \in Users, NEW from, RegionFails(u, from), UNCHANGED registry
    PROVE  LockInv'
<1>1. (IF Fallbacks(u) = <<>> THEN "failed" ELSE "checking") \notin {"submitting", "inserting"}
  OBVIOUS
<1>2. QED
  BY <1>1, LockMoves DEF RegionFails, Moves

\* A client that has just connected is nobody else's.
LEMMA EnsureConnectsLock ==
    ASSUME TypeInv, LockInv, NEW u \in Users, EnsureConnects(u) PROVE LockInv'
<1> USE DEF EnsureConnects
<1>1. /\ created' = created + 1 /\ created \in Nat /\ live \subseteq 1..created
      /\ clients \in [Regions -> 0..created] /\ mine \in [Users -> 0..created]
  BY Bounds DEF TypeInv, TypeOK, RegistryOK, UsersOK
<1>2. /\ at'[u] = "inserting" /\ mine'[u] = created'
      /\ \A v \in Users : v # u => at'[v] = at[v] /\ mine'[v] = mine[v]
      /\ live' = live \cup {created'} /\ UNCHANGED <<clients, readers, closing>>
  BY <1>1 DEF Moves, TypeInv, TypeOK, UsersOK
<1>3. /\ created' # 0 /\ \A r \in Regions : clients[r] # created'
      /\ \A v \in Users : mine[v] # created'
  BY <1>1
<1>4. OwnsClient(u)'
  BY <1>2, <1>3 DEF OwnsClient
<1>5. ASSUME NEW v \in Users, v # u, at'[v] = "inserting" PROVE OwnsClient(v)'
  <2>1. OwnsClient(v)
    BY <1>2, <1>5 DEF LockInv
  <2>2. QED
    BY <1>2, <1>3, <1>5, <2>1 DEF OwnsClient
<1>6. \A v \in Users : at'[v] = "submitting" => v \in readers' /\ mine'[v] \in live'
  BY <1>2 DEF LockInv
<1>7. QED
  BY <1>2, <1>4, <1>5, <1>6 DEF LockInv

\* It takes the place of another client of its region, which stays connected.
LEMMA EnsureInsertsLock ==
    ASSUME TypeInv, LockInv, NEW u \in Users, EnsureInserts(u) PROVE LockInv'
<1> USE DEF EnsureInserts
<1>1. /\ at[u] = "inserting" /\ at'[u] = "getting"
      /\ \A v \in Users : v # u => at'[v] = at[v] /\ mine'[v] = mine[v]
      /\ UNCHANGED <<live, readers, closing>>
  BY DEF Moves, TypeInv, TypeOK, UsersOK
<1>2. OwnsClient(u)
  BY <1>1 DEF LockInv
<1>3. \A r \in Regions : clients'[r] = clients[r] \/ (r = Head(plan[u]) /\ clients'[r] = mine[u])
  BY DEF TypeInv, TypeOK, RegistryOK
<1>4. \A r \in Regions : clients'[r] # 0 => clients'[r] \in live
  BY <1>2, <1>3 DEF LockInv, OwnsClient
<1>5. \A r, q \in Regions : clients'[r] # 0 /\ clients'[r] = clients'[q] => r = q
  BY <1>2, <1>3 DEF LockInv, OwnsClient
<1>6. ASSUME NEW v \in Users, at'[v] = "inserting" PROVE OwnsClient(v)'
  <2>1. v # u /\ at[v] = "inserting" /\ OwnsClient(v)
    BY <1>1, <1>6 DEF LockInv
  <2>2. mine[u] # mine[v]
    BY <1>1, <2>1 DEF OwnsClient
  <2>3. \A r \in Regions : clients'[r] # mine[v]
    BY <1>3, <2>1, <2>2 DEF OwnsClient
  <2>4. QED
    BY <1>1, <2>1, <2>3 DEF OwnsClient
<1>7. \A v \in Users : at'[v] = "submitting" => v \in readers /\ mine'[v] \in live
  BY <1>1 DEF LockInv
<1>8. QED
  BY <1>1, <1>4, <1>5, <1>6, <1>7 DEF LockInv

\* A submission takes the lock, which disconnect_all does not hold, and its
\* client from the map.
LEMMA SubmitSendsLock ==
    ASSUME TypeInv, LockInv, NEW u \in Users, SubmitSends(u) PROVE LockInv'
<1> USE DEF SubmitSends
<1>1. /\ closing = "no" /\ \A v \in Users : at[v] # "inserting"
      /\ UNCHANGED <<clients, live, closing>> /\ readers' = readers \cup {u}
  BY DEF CanRead, WriterWaits, Held
<1>2. /\ plan[u] \in Seq(Regions) /\ plan[u] # <<>>
  BY DEF Moves, TypeInv, TypeOK, UsersOK, Planned, Routed
<1>3. Head(plan[u]) \in Regions
  BY <1>2, TailIs
<1>4. /\ at'[u] = "submitting" /\ mine'[u] = clients[Head(plan[u])]
      /\ \A v \in Users : v # u => at'[v] = at[v] /\ mine'[v] = mine[v]
  BY DEF Moves, TypeInv, TypeOK, UsersOK
<1>5. mine'[u] \in live
  BY <1>3, <1>4 DEF LockInv
<1>6. \A v \in Users : at'[v] = "submitting" => v \in readers' /\ mine'[v] \in live
  BY <1>1, <1>4, <1>5 DEF LockInv
<1>7. \A v \in Users : at'[v] # "inserting"
  BY <1>1, <1>4
<1>8. QED
  BY <1>1, <1>6, <1>7 DEF LockInv

\* It returns the lock, its own only.
LEMMA SubmitEndsLock ==
    ASSUME TypeInv, LockInv, NEW u \in Users, SubmitOk(u) \/ SubmitErr(u) PROVE LockInv'
<1>1. PICK to : to \notin {"submitting", "inserting"} /\ at' = [at EXCEPT ![u] = to]
  BY DEF SubmitOk, SubmitErr, RegionFails, Moves
<1>2. /\ UNCHANGED <<clients, live, closing>> /\ readers' = readers \ {u}
      /\ mine' = [mine EXCEPT ![u] = 0]
  BY DEF SubmitOk, SubmitErr, RegionFails
<1>3. at'[u] = to /\ \A v \in Users : v # u => at'[v] = at[v] /\ mine'[v] = mine[v]
  BY <1>1, <1>2 DEF TypeInv, TypeOK, UsersOK
<1>4. ASSUME NEW v \in Users, at'[v] \in {"submitting", "inserting"}
      PROVE  v # u /\ at[v] = at'[v] /\ mine[v] = mine'[v]
  BY <1>1, <1>3, <1>4
<1>5. ASSUME NEW v \in Users, at'[v] = "inserting" PROVE OwnsClient(v)'
  <2>1. v # u /\ OwnsClient(v) /\ mine'[v] = mine[v]
    BY <1>4, <1>5 DEF LockInv
  <2>2. \A w \in Users : at'[w] = "inserting" => at[w] = "inserting" /\ mine'[w] = mine[w]
    BY <1>4
  <2>3. QED
    BY <1>2, <2>1, <2>2 DEF OwnsClient
<1>6. ASSUME NEW v \in Users, at'[v] = "submitting" PROVE v \in readers' /\ mine'[v] \in live'
  BY <1>2, <1>4, <1>6 DEF LockInv
<1>7. closing' = "closing" => readers' = {}
  BY <1>2 DEF LockInv
<1>8. QED
  BY <1>2, <1>5, <1>6, <1>7 DEF LockInv

\* disconnect_all disconnects clients of the map, with no submission under way.
LEMMA ClosesLock ==
    ASSUME TypeInv, LockInv, CloseStart \/ Closes PROVE LockInv'
<1>1. CASE CloseStart \/ CloseReturns
  <2>1. UNCHANGED <<clients, live, readers, at, mine>> /\ closing' # "closing"
    BY <1>1 DEF CloseStart, CloseReturns, users, flow
  <2>2. QED
    BY <2>1 DEF LockInv, OwnsClient
<1>2. CASE CloseLocks
  <2>1. UNCHANGED <<clients, live, readers, at, mine>> /\ readers = {}
    BY <1>2 DEF CloseLocks, CanWrite, users, flow
  <2>2. QED
    BY <2>1 DEF LockInv, OwnsClient
<1>3. ASSUME NEW r \in Regions, CloseOne(r) PROVE LockInv'
  <2>1. /\ UNCHANGED <<readers, closing, at, mine>> /\ live' = live \ {clients[r]}
        /\ closing = "closing" /\ clients[r] \in live
    BY <1>3 DEF CloseOne, users, flow
  <2>2. /\ clients'[r] = 0 /\ \A q \in Regions : q # r => clients'[q] = clients[q]
        /\ clients[r] # 0
    BY <1>3, <2>1, Bounds DEF CloseOne, TypeInv, TypeOK, RegistryOK
  <2>3. \A u \in Users : at[u] # "submitting"
    BY <2>1 DEF LockInv
  <2>4. \A q \in Regions : clients'[q] # 0 => clients'[q] \in live'
    BY <2>1, <2>2 DEF LockInv
  <2>5. \A q, p \in Regions : clients'[q] # 0 /\ clients'[q] = clients'[p] => q = p
    BY <2>2 DEF LockInv
  <2>6. ASSUME NEW u \in Users, at'[u] = "inserting" PROVE OwnsClient(u)'
    <3>1. OwnsClient(u)
      BY <2>1, <2>6 DEF LockInv
    <3>2. QED
      BY <2>1, <2>2, <3>1 DEF OwnsClient
  <2>7. closing' = "closing" => readers' = {}
    BY <2>1 DEF LockInv
  <2>8. QED
    BY <2>1, <2>3, <2>4, <2>5, <2>6, <2>7 DEF LockInv
<1>4. QED
  BY <1>1, <1>2, <1>3 DEF Closes

\* Every step keeps the invariant of the lock.
LEMMA LockStep == TypeInv /\ LockInv /\ [Next]_vars => LockInv'
<1> SUFFICES ASSUME TypeInv, LockInv, [Next]_vars PROVE LockInv'
  OBVIOUS
<1> USE DEF Moves, flow, users
<1>1. ASSUME NEW u \in Users, SubmitStart(u) \/ BroadcastStart(u) PROVE LockInv'
  <2>1. /\ UNCHANGED <<registry, mine>>
        /\ at' = [at EXCEPT ![u] = "checking"] \/ at' = [at EXCEPT ![u] = "cloning"]
    BY <1>1 DEF SubmitStart, BroadcastStart
  <2>2. QED
    BY <2>1, LockMoves
<1>2. ASSUME NEW u \in Users, Proceeds(u) PROVE LockInv'
  <2>1. CASE EnsureFinds(u) \/ EnsureChooses(u)
    <3>1. /\ UNCHANGED <<registry, mine>>
          /\ at' = [at EXCEPT ![u] = "getting"] \/ at' = [at EXCEPT ![u] = "connecting"]
      BY <2>1 DEF EnsureFinds, EnsureChooses
    <3>2. QED
      BY <3>1, LockMoves
  <2>2. CASE EnsureSelects(u)
    <3>1. UNCHANGED <<registry, mine>> /\ at' = [at EXCEPT ![u] = "selecting"]
      BY <2>2 DEF EnsureSelects, Released, registry
    <3>2. QED
      BY <3>1, LockMoves
  <2>3. CASE EnsureRefuses(u) \/ EnsureFails(u) \/ SubmitFindsNone(u)
    BY <2>3, RegionFailsLock DEF EnsureRefuses, EnsureFails, SubmitFindsNone
  <2>4. CASE EnsureConnects(u)
    BY <2>4, EnsureConnectsLock
  <2>5. CASE EnsureInserts(u)
    BY <2>5, EnsureInsertsLock
  <2>6. CASE SubmitSends(u)
    BY <2>6, SubmitSendsLock
  <2>7. CASE SubmitOk(u) \/ SubmitErr(u)
    BY <2>7, SubmitEndsLock
  <2>8. CASE \E r \in Regions : BroadcastClones(u, r) \/ BroadcastErr(u, r)
    BY <2>8, LockUntouched DEF BroadcastClones, BroadcastErr
  <2>9. CASE \E r \in Regions : BroadcastOk(u, r)
    <3>1. UNCHANGED <<registry, mine>> /\ at' = [at EXCEPT ![u] = "done"]
      BY <2>9 DEF BroadcastOk
    <3>2. QED
      BY <3>1, LockMoves
  <2>10. CASE BroadcastAwaits(u) \/ BroadcastFails(u)
    <3>1. /\ UNCHANGED <<registry, mine>>
          /\ at' = [at EXCEPT ![u] = "awaiting"] \/ at' = [at EXCEPT ![u] = "failed"]
      BY <2>10 DEF BroadcastAwaits, BroadcastFails
    <3>2. QED
      BY <3>1, LockMoves
  <2>11. CASE Returns(u)
    <3>1. UNCHANGED <<registry, mine>> /\ at' = [at EXCEPT ![u] = "idle"]
      BY <2>11 DEF Returns
    <3>2. QED
      BY <3>1, LockMoves
  <2>12. CASE SelectorStep(u)
    BY <2>12, LockUntouched DEF SelectorStep
  <2>13. QED
    BY <1>2, <2>1, <2>2, <2>3, <2>4, <2>5, <2>6, <2>7, <2>8, <2>9, <2>10, <2>11, <2>12 DEF Proceeds, Advances, Answered
<1>3. CASE \E h \in Updaters : HintPasses(h) \/ HintApplied(h)
  BY <1>3, LockUntouched DEF HintPasses, HintApplied
<1>4. CASE CooldownEnds \/ \E w \in Workers : WorkerForgotten(w)
  BY <1>4, LockUntouched DEF CooldownEnds, WorkerForgotten
<1>5. CASE CloseStart \/ Closes
  BY <1>5, ClosesLock
<1>6. CASE UNCHANGED vars
  BY <1>6, LockUntouched DEF vars
<1>7. QED
  BY <1>1, <1>2, <1>3, <1>4, <1>5, <1>6, Zenon DEF Next

\* The invariant of the lock holds in every reachable state.
LEMMA LockHolds == Spec => []LockInv
<1>1. Init => LockInv
  <2> SUFFICES ASSUME Init PROVE LockInv
    OBVIOUS
  <2>1. closing = "no" /\ live = {1} /\ \A u \in Users : at[u] = "idle"
    BY DEF Init
  <2>2. \A r \in Regions : clients[r] = IF r = Home[Best(Workers)] THEN 1 ELSE 0
    BY DEF Init
  <2>3. QED
    BY <2>1, <2>2 DEF LockInv
<1>2. QED
  BY <1>1, LockStep, TypeHolds, PTL DEF Spec

\* No client is disconnected under a submission, also not one that another call
\* has meanwhile put a newer client in the place of.
THEOREM NeverCutOff == Spec => []NotCutOff
<1>1. LockInv => NotCutOff
  BY DEF LockInv, NotCutOff
<1>2. QED
  BY <1>1, LockHolds, PTL
-----------------------------------------------------------------------------
(* What a submission has tried.                                             *)

\* A routed submission has still to try what it set out for and has not tried; a
\* broadcast has a submission under way for it, once all its clients are cloned.
FlowOf(u) ==
    /\ at[u] \in Routed => aim[u] = told[u] \cup {plan[u][i] : i \in DOMAIN plan[u]}
    /\ \A r \in Regions : fan[u][r] = "out" => at[u] \in {"cloning", "awaiting"} /\ r \in aim[u]
    /\ at[u] \in {"cloning", "awaiting"} => told[u] \subseteq aim[u]
    /\ at[u] = "awaiting" => \A r \in aim[u] : fan[u][r] = "out" \/ r \in told[u]
    /\ at[u] = "failed" => told[u] = aim[u]

FlowInv == \A u \in Users : FlowOf(u)

\* A step of one user leaves the others where they were.
LEMMA FlowOne ==
    ASSUME TypeInv, FlowInv, NEW u \in Users, FlowOf(u)',
           \A v \in Users : v # u => /\ at'[v] = at[v] /\ plan'[v] = plan[v]
                                     /\ fan'[v] = fan[v]
                                     /\ told'[v] = told[v] /\ aim'[v] = aim[v]
    PROVE  FlowInv'
<1>1. ASSUME NEW v \in Users, v # u PROVE FlowOf(v)'
  BY <1>1 DEF FlowInv, FlowOf
<1>2. QED
  BY <1>1 DEF FlowInv

\* Nothing of the flow changes.
LEMMA FlowStays == ASSUME FlowInv, UNCHANGED flow PROVE FlowInv'
BY DEF FlowInv, FlowOf, flow

\* A submission sets out for all that is recommended.
LEMMA SubmitStartFlow ==
    ASSUME TypeInv, FlowInv, NEW u \in Users, SubmitStart(u) PROVE FlowInv'
<1> USE DEF SubmitStart, Moves
<1>1. /\ at[u] = "idle" /\ at'[u] = "checking" /\ plan'[u] = Recommended /\ fan' = fan
      /\ told'[u] = {} /\ aim'[u] = {Recommended[i] : i \in DOMAIN Recommended}
  BY DEF TypeInv, TypeOK, UsersOK
<1>2. \A r \in Regions : fan[u][r] # "out"
  BY <1>1 DEF FlowInv, FlowOf
<1>3. FlowOf(u)'
  BY <1>1, <1>2 DEF FlowOf
<1>4. QED
  BY <1>3, FlowOne DEF TypeInv, TypeOK, UsersOK

\* A broadcast sets out, with no submission under way yet.
LEMMA BroadcastStartFlow ==
    ASSUME TypeInv, FlowInv, NEW u \in Users, BroadcastStart(u) PROVE FlowInv'
<1> USE DEF BroadcastStart, Moves
<1>1. /\ at[u] = "idle" /\ at'[u] = "cloning" /\ fan' = fan /\ told'[u] = {}
  BY DEF TypeInv, TypeOK, UsersOK
<1>2. \A r \in Regions : fan[u][r] # "out"
  BY <1>1 DEF FlowInv, FlowOf
<1>3. FlowOf(u)'
  BY <1>1, <1>2 DEF FlowOf, Routed
<1>4. QED
  BY <1>3, FlowOne DEF TypeInv, TypeOK, UsersOK

\* A submission goes on with its region, or is done.
LEMMA StageFlow ==
    ASSUME TypeInv, FlowInv, NEW u \in Users, NEW from \in Routed, NEW to \in Routed \cup {"done"},
           Moves(u, from, to), UNCHANGED <<plan, fan, told, aim>>
    PROVE  FlowInv'
<1> USE DEF Moves
<1>1. at[u] = from /\ at'[u] = to
  BY DEF TypeInv, TypeOK, UsersOK
<1>2. from \notin {"cloning", "awaiting"} /\ to \notin {"cloning", "awaiting", "failed"}
  BY DEF Routed
<1>3. FlowOf(u)'
  BY <1>1, <1>2 DEF FlowInv, FlowOf, Routed
<1>4. QED
  BY <1>3, FlowOne DEF TypeInv, TypeOK, UsersOK

\* A region that failed counts as tried; it fails with the last one only.
LEMMA RegionFailsFlow ==
    ASSUME TypeInv, FlowInv, NEW u \in Users, NEW from \in Routed, RegionFails(u, from)
    PROVE  FlowInv'
<1>1. /\ at[u] = from /\ fan' = fan /\ aim' = aim
      /\ plan'[u] = Tail(plan[u]) /\ told'[u] = told[u] \cup {Head(plan[u])}
      /\ at'[u] = IF Tail(plan[u]) = <<>> THEN "failed" ELSE "checking"
  BY DEF RegionFails, Fallbacks, Moves, TypeInv, TypeOK, UsersOK
<1>2. \A v \in Users : v # u => at'[v] = at[v] /\ plan'[v] = plan[v] /\ told'[v] = told[v]
  BY DEF RegionFails, Moves, TypeInv, TypeOK, UsersOK
<1>3. plan[u] \in Seq(Regions) /\ plan[u] # <<>>
  BY <1>1 DEF TypeInv, TypeOK, UsersOK, Planned
<1>4. aim'[u] = told'[u] \cup {plan'[u][i] : i \in DOMAIN plan'[u]}
  <2>1. aim[u] = told[u] \cup {plan[u][i] : i \in DOMAIN plan[u]}
    BY <1>1 DEF FlowInv, FlowOf
  <2>2. aim[u] = told'[u] \cup {Tail(plan[u])[i] : i \in DOMAIN Tail(plan[u])}
    BY <1>1, <1>3, <2>1, TailIs
  <2>3. QED
    BY <1>1, <2>2
<1>5. \A r \in Regions : fan'[u][r] # "out"
  BY <1>1 DEF FlowInv, FlowOf, Routed
<1>6. at'[u] \notin {"cloning", "awaiting"}
  BY <1>1
<1>7. at'[u] = "failed" => told'[u] = aim'[u]
  <2> SUFFICES ASSUME at'[u] = "failed" PROVE told'[u] = aim'[u]
    OBVIOUS
  <2>1. plan'[u] = <<>>
    BY <1>1
  <2>2. {plan'[u][i] : i \in DOMAIN plan'[u]} = {}
    BY <2>1
  <2>3. QED
    BY <1>4, <2>2
<1>8. FlowOf(u)'
  BY <1>4, <1>5, <1>6, <1>7 DEF FlowOf
<1>9. QED
  BY <1>1, <1>2, <1>8, FlowOne

\* The result is returned.
LEMMA ReturnsFlow ==
    ASSUME TypeInv, FlowInv, NEW u \in Users, Returns(u) PROVE FlowInv'
<1> USE DEF Returns
<1>1. at[u] \in {"failed", "done"} /\ at'[u] = "idle" /\ fan' = fan
  BY DEF TypeInv, TypeOK, UsersOK
<1>2. \A r \in Regions : fan[u][r] # "out"
  BY <1>1 DEF FlowInv, FlowOf
<1>3. FlowOf(u)'
  BY <1>1, <1>2 DEF FlowOf, Routed
<1>4. QED
  BY <1>3, FlowOne DEF TypeInv, TypeOK, UsersOK

\* A region's client is cloned and submits, or there is none and the region has failed.
LEMMA BroadcastClonesFlow ==
    ASSUME TypeInv, FlowInv, NEW u \in Users, NEW r \in Regions, BroadcastClones(u, r)
    PROVE  FlowInv'
<1> USE DEF BroadcastClones
<1>1. at' = at /\ aim' = aim /\ plan' = plan /\ at[u] = "cloning" /\ r \in aim[u]
  OBVIOUS
<1>2. \/ told' = told /\ fan' = [fan EXCEPT ![u][r] = "out"]
      \/ fan' = fan /\ told' = [told EXCEPT ![u] = told[u] \cup {r}]
  OBVIOUS
<1>3. /\ \A q \in Regions : fan'[u][q] = "out" => q = r \/ fan[u][q] = "out"
      /\ told'[u] \subseteq told[u] \cup {r}
      /\ \A v \in Users : v # u => fan'[v] = fan[v] /\ told'[v] = told[v]
  BY <1>2 DEF TypeInv, TypeOK, UsersOK
<1>4. FlowOf(u)'
  BY <1>1, <1>3 DEF FlowInv, FlowOf, Routed
<1>5. QED
  BY <1>1, <1>3, <1>4, FlowOne

\* One of a broadcast's submissions fails: its region has been tried.
LEMMA BroadcastErrFlow ==
    ASSUME TypeInv, FlowInv, NEW u \in Users, NEW r \in Regions, BroadcastErr(u, r)
    PROVE  FlowInv'
<1> USE DEF BroadcastErr
<1>1. at' = at /\ aim' = aim /\ plan' = plan /\ at[u] = "awaiting" /\ fan[u][r] = "out"
  OBVIOUS
<1>2. /\ \A q \in Regions : q # r => fan'[u][q] = fan[u][q]
      /\ fan'[u][r] = "none" /\ told'[u] = told[u] \cup {r}
      /\ \A v \in Users : v # u => fan'[v] = fan[v] /\ told'[v] = told[v]
  BY DEF TypeInv, TypeOK, UsersOK
<1>3. aim[u] \subseteq Regions /\ r \in aim[u]
  BY <1>1 DEF FlowInv, FlowOf, TypeInv, TypeOK, UsersOK
<1>4. FlowOf(u)'
  BY <1>1, <1>2, <1>3 DEF FlowInv, FlowOf, Routed
<1>5. QED
  BY <1>1, <1>2, <1>4, FlowOne

\* All clients are cloned; one submission is Ok; or none is left, and none was.
LEMMA BroadcastMovesFlow ==
    ASSUME TypeInv, FlowInv, NEW u \in Users,
           BroadcastAwaits(u) \/ BroadcastFails(u) \/ \E r \in Regions : BroadcastOk(u, r)
    PROVE  FlowInv'
<1> USE DEF Moves
<1>1. CASE BroadcastAwaits(u)
  <2>1. /\ at[u] = "cloning" /\ at'[u] = "awaiting" /\ UNCHANGED <<plan, fan, told, aim>>
        /\ \A r \in aim[u] : fan[u][r] = "out" \/ r \in told[u]
        /\ \A v \in Users : v # u => at'[v] = at[v]
    BY <1>1 DEF BroadcastAwaits, TypeInv, TypeOK, UsersOK
  <2>2. FlowOf(u)'
    BY <2>1 DEF FlowInv, FlowOf, Routed
  <2>3. QED
    BY <2>1, <2>2, FlowOne
<1>2. CASE BroadcastFails(u)
  <2>1. /\ at[u] = "awaiting" /\ at'[u] = "failed" /\ UNCHANGED <<plan, fan, told, aim>>
        /\ \A r \in Regions : fan[u][r] = "none"
        /\ \A v \in Users : v # u => at'[v] = at[v]
    BY <1>2 DEF BroadcastFails, TypeInv, TypeOK, UsersOK
  <2>2. aim[u] \subseteq Regions
    BY DEF TypeInv, TypeOK, UsersOK
  <2>3. told[u] = aim[u]
    BY <2>1, <2>2 DEF FlowInv, FlowOf
  <2>4. FlowOf(u)'
    BY <2>1, <2>3 DEF FlowOf, Routed
  <2>5. QED
    BY <2>1, <2>4, FlowOne
<1>3. ASSUME NEW r \in Regions, BroadcastOk(u, r) PROVE FlowInv'
  <2>1. /\ at'[u] = "done" /\ \A q \in Regions : fan'[u][q] = "none"
        /\ UNCHANGED <<plan, told, aim>>
        /\ \A v \in Users : v # u => at'[v] = at[v] /\ fan'[v] = fan[v]
    BY <1>3 DEF BroadcastOk, TypeInv, TypeOK, UsersOK
  <2>2. FlowOf(u)'
    BY <2>1 DEF FlowOf, Routed
  <2>3. QED
    BY <2>1, <2>2, FlowOne
<1>4. QED
  BY <1>1, <1>2, <1>3

\* Every step keeps the invariant of the flow.
LEMMA FlowStep == TypeInv /\ FlowInv /\ [Next]_vars => FlowInv'
<1> SUFFICES ASSUME TypeInv, FlowInv, [Next]_vars PROVE FlowInv'
  OBVIOUS
<1>1. ASSUME NEW u \in Users, SubmitStart(u) \/ BroadcastStart(u) PROVE FlowInv'
  BY <1>1, SubmitStartFlow, BroadcastStartFlow
<1>2. ASSUME NEW u \in Users, Proceeds(u) PROVE FlowInv'
  <2>1. CASE EnsureFinds(u) \/ EnsureSelects(u) \/ EnsureChooses(u)
    BY <2>1, StageFlow DEF EnsureFinds, EnsureSelects, EnsureChooses, Routed
  <2>2. CASE EnsureConnects(u) \/ EnsureInserts(u)
    BY <2>2, StageFlow DEF EnsureConnects, EnsureInserts, Routed
  <2>3. CASE SubmitSends(u) \/ SubmitOk(u)
    BY <2>3, StageFlow DEF SubmitSends, SubmitOk, Routed
  <2>4. CASE EnsureRefuses(u) \/ EnsureFails(u) \/ SubmitFindsNone(u) \/ SubmitErr(u)
    BY <2>4, RegionFailsFlow DEF EnsureRefuses, EnsureFails, SubmitFindsNone, SubmitErr, Routed
  <2>5. CASE \E r \in Regions : BroadcastClones(u, r) \/ BroadcastErr(u, r)
    BY <2>5, BroadcastClonesFlow, BroadcastErrFlow
  <2>6. CASE BroadcastAwaits(u) \/ BroadcastFails(u) \/ \E r \in Regions : BroadcastOk(u, r)
    BY <2>6, BroadcastMovesFlow
  <2>7. CASE Returns(u)
    BY <2>7, ReturnsFlow
  <2>8. CASE SelectorStep(u)
    BY <2>8, FlowStays DEF SelectorStep, users
  <2>9. QED
    BY <1>2, <2>1, <2>2, <2>3, <2>4, <2>5, <2>6, <2>7, <2>8 DEF Proceeds, Advances, Answered
<1>3. CASE \E h \in Updaters : HintPasses(h) \/ HintApplied(h)
  BY <1>3, FlowStays DEF HintPasses, HintApplied, users
<1>4. CASE CooldownEnds \/ \E w \in Workers : WorkerForgotten(w)
  BY <1>4, FlowStays DEF CooldownEnds, WorkerForgotten, users
<1>5. CASE CloseStart \/ Closes
  BY <1>5, FlowStays DEF CloseStart, Closes, CloseLocks, CloseOne, CloseReturns, users
<1>6. CASE UNCHANGED vars
  BY <1>6, FlowStays DEF vars, users
<1>7. QED
  BY <1>1, <1>2, <1>3, <1>4, <1>5, <1>6, Zenon DEF Next

\* The invariant of the flow holds in every reachable state.
LEMMA FlowHolds == Spec => []FlowInv
<1>1. Init => FlowInv
  BY DEF Init, FlowInv, FlowOf, Routed
<1>2. QED
  BY <1>1, FlowStep, TypeHolds, PTL DEF Spec

\* No region of a recommendation, or of a broadcast, is left untried when the
\* submission fails.
THEOREM FailsOnlyAfterAll == Spec => []FailsAfterAll
<1>1. FlowInv => FailsAfterAll
  BY DEF FlowInv, FlowOf, FailsAfterAll
<1>2. QED
  BY <1>1, FlowHolds, PTL
=============================================================================
