---------------------------- MODULE Connecting_proofs ----------------------------
(* Proofs about Connecting, for every value of its constants.               *)
EXTENDS Connecting, FiniteSetTheorems, TLAPS

\* There is a first worker, and the bounds are numbers.
LEMMA Bounds ==
    /\ 1 \in Workers /\ IsFiniteSet(Workers)
    /\ MaxReconnects \in Nat /\ MaxFailures \in Nat
<1>1. Cardinality(Workers) \in Nat \ {0} /\ Workers = 1..Cardinality(Workers)
  BY DirectoryOK DEF DirectoryOK
<1>2. IsFiniteSet(1..Cardinality(Workers))
  BY <1>1, FS_Interval
<1>3. QED
  BY <1>1, <1>2, DirectoryOK DEF DirectoryOK

-----------------------------------------------------------------------------
(* What the operators return.                                               *)

\* The ladder has each protocol once.
LEMMA LadderIs ==
    /\ DOMAIN Ladder = 1..4 /\ Len(Ladder) = 4
    /\ \A i \in 1..4 : Ladder[i] \in Protocols
    /\ \A p \in Protocols : \E i \in 1..4 : Ladder[i] = p
    /\ \A i, j \in 1..4 : Ladder[i] = Ladder[j] => i = j
<1>1. DOMAIN Ladder = 1..4 /\ Len(Ladder) = 4
  BY DEF Ladder
<1>2. \A i \in 1..4 : Ladder[i] \in Protocols
  BY DEF Ladder, Protocols, ToSet
<1>3. \A p \in Protocols : \E i \in 1..4 : Ladder[i] = p
  BY <1>1 DEF Protocols, ToSet
<1>4. \A i, j \in 1..4 : Ladder[i] = Ladder[j] => i = j
  BY DEF Ladder
<1>5. QED
  BY <1>1, <1>2, <1>3, <1>4

\* A set of rungs that is not empty has a first one.
LEMMA FirstOf ==
    ASSUME NEW js \in SUBSET (1..4), js # {}
    PROVE  \E j \in js : \A k \in js : j <= k
<1>1. CASE 1 \in js
  BY <1>1
<1>2. CASE 1 \notin js /\ 2 \in js
  BY <1>2
<1>3. CASE 1 \notin js /\ 2 \notin js /\ 3 \in js
  BY <1>3
<1>4. CASE 1 \notin js /\ 2 \notin js /\ 3 \notin js
  <2>1. \A k \in js : k = 4
    BY <1>4
  <2>2. 4 \in js
    BY <2>1
  <2>3. QED
    BY <2>1, <2>2
<1>5. QED
  BY <1>1, <1>2, <1>3, <1>4

\* The next rung is the first one above that the worker offers; there is none
\* under a preferred protocol, or when nothing above is offered.
LEMMA NextRungIs ==
    ASSUME NEW w \in Workers, NEW i \in 0..4
    PROVE  /\ NextRung(w, i) \in 0..4
           /\ preferred # None => NextRung(w, i) = 0
           /\ preferred = None /\ NextRung(w, i) = 0 =>
                \A j \in 1..4 : j > i => ~Offered(w, j)
           /\ preferred = None /\ NextRung(w, i) # 0 =>
                \A j \in 1..4 : j > i /\ j < NextRung(w, i) => ~Offered(w, j)
<1> DEFINE js == {j \in DOMAIN Ladder : j > i /\ Offered(w, j)}
<1>1. js = {j \in 1..4 : j > i /\ Offered(w, j)} /\ js \in SUBSET (1..4)
  BY LadderIs
<1>2. CASE preferred # None \/ js = {}
  <2>1. NextRung(w, i) = 0
    BY <1>2 DEF NextRung
  <2>2. QED
    BY <1>1, <1>2, <2>1
<1>3. CASE preferred = None /\ js # {}
  <2>1. NextRung(w, i) = CHOOSE j \in js : \A k \in js : j <= k
    BY <1>3 DEF NextRung
  <2> HIDE DEF js
  <2>2. \E j \in js : \A k \in js : j <= k
    BY <1>1, <1>3, FirstOf
  <2>3. NextRung(w, i) \in js /\ \A k \in js : NextRung(w, i) <= k
    BY <2>1, <2>2
  <2>4. QED
    BY <1>1, <1>3, <2>3
<1>4. QED
  BY <1>2, <1>3

\* A preferred protocol's rung is its own; otherwise the first one is the first
\* that the worker offers.
LEMMA FirstRungIs ==
    ASSUME NEW w \in Workers, preferred \in Protocols \cup {None}
    PROVE  /\ FirstRung(w) \in 0..4
           /\ preferred # None => FirstRung(w) # 0 /\ Ladder[FirstRung(w)] = preferred
           /\ preferred = None /\ FirstRung(w) = 0 => \A j \in 1..4 : ~Offered(w, j)
           /\ preferred = None /\ FirstRung(w) # 0 =>
                \A j \in 1..4 : j < FirstRung(w) => ~Offered(w, j)
<1>1. CASE preferred # None
  <2>1. FirstRung(w) = CHOOSE i \in 1..4 : Ladder[i] = preferred
    BY <1>1, LadderIs DEF FirstRung
  <2>2. \E i \in 1..4 : Ladder[i] = preferred
    BY <1>1, LadderIs
  <2>3. FirstRung(w) \in 1..4 /\ Ladder[FirstRung(w)] = preferred
    BY <2>1, <2>2
  <2>4. QED
    BY <1>1, <2>3
<1>2. CASE preferred = None
  <2>1. FirstRung(w) = NextRung(w, 0)
    BY <1>2 DEF FirstRung
  <2>2. QED
    BY <1>2, <2>1, NextRungIs
<1>3. QED
  BY <1>1, <1>2

\* A ranking is a sequence of all workers ranked, and of no others.
LEMMA RankedIs ==
    ASSUME NEW ws \in SUBSET Workers, NEW rtt, NEW q \in Ranked(ws, rtt)
    PROVE  q \in Seq(Workers) /\ ToSet(q) = ws
<1> DEFINE n == Cardinality(ws)
<1>1. IsFiniteSet(ws) /\ n \in Nat
  BY Bounds, FS_Subset, FS_CardinalityType
<1>2. q \in [1..n -> ws] /\ \A i, j \in 1..n : i # j => q[i] # q[j]
  BY DEF Ranked, SetToSeqs
<1>3. q \in Injection(1..n, ws)
  BY <1>2 DEF Injection, IsInjective
<1>4. IsFiniteSet(1..n) /\ Cardinality(1..n) = n
  BY <1>1, FS_Interval
<1>5. q \in Surjection(1..n, ws)
  BY <1>1, <1>3, <1>4, FS_Injection
<1>6. \A w \in ws : \E i \in 1..n : q[i] = w
  BY <1>5, Zenon DEF Surjection
<1>7. DOMAIN q = 1..n /\ \A i \in 1..n : q[i] \in ws
  BY <1>2
<1>8. ToSet(q) = ws
  BY <1>6, <1>7 DEF ToSet
<1>9. q \in Seq(Workers)
  BY <1>1, <1>2
<1>10. QED
  BY <1>8, <1>9

\* There is a ranking, whatever was measured, so that discovery never leaves
\* connect() without a list to try: the place of a worker is the number of those
\* that do not come after it.
THEOREM RankingExists ==
    ASSUME NEW ws \in SUBSET Workers, NEW rtt \in [ws -> Nat]
    PROVE  Ranked(ws, rtt) # {}
<1> DEFINE Before(v, w) == rtt[v] < rtt[w] \/ (rtt[v] = rtt[w] /\ v < w)
           UpTo(w) == {v \in ws : v = w \/ Before(v, w)}
           n == Cardinality(ws)
           place == [w \in ws |-> Cardinality(UpTo(w))]
<1>1. IsFiniteSet(ws) /\ n \in Nat
  BY Bounds, FS_Subset, FS_CardinalityType
<1>2. /\ \A v, w \in ws : v = w \/ Before(v, w) \/ Before(w, v)
      /\ \A v, w \in ws : Before(v, w) => v # w /\ ~Before(w, v)
      /\ \A u, v, w \in ws : Before(u, v) /\ Before(v, w) => Before(u, w)
  <2>1. ws \subseteq Int /\ \A w \in ws : rtt[w] \in Nat
    BY DirectoryOK DEF DirectoryOK
  <2>2. QED
    BY <2>1
<1> HIDE DEF Before
<1>3. \A w \in ws : IsFiniteSet(UpTo(w)) /\ place[w] \in 1..n
  <2> SUFFICES ASSUME NEW w \in ws PROVE IsFiniteSet(UpTo(w)) /\ place[w] \in 1..n
    OBVIOUS
  <2>1. UpTo(w) \in SUBSET ws /\ w \in UpTo(w)
    OBVIOUS
  <2>2. IsFiniteSet(UpTo(w)) /\ Cardinality(UpTo(w)) <= n /\ Cardinality(UpTo(w)) \in Nat
    BY <1>1, <2>1, FS_Subset, FS_CardinalityType
  <2>3. Cardinality(UpTo(w)) # 0
    BY <2>1, <2>2, FS_EmptySet
  <2>4. QED
    BY <1>1, <2>2, <2>3
<1>4. \A v, w \in ws : Before(v, w) => place[v] < place[w]
  <2> SUFFICES ASSUME NEW v \in ws, NEW w \in ws, Before(v, w) PROVE place[v] < place[w]
    OBVIOUS
  <2>1. UpTo(v) \in SUBSET UpTo(w)
    BY <1>2
  <2>2. w \in UpTo(w) /\ w \notin UpTo(v)
    BY <1>2
  <2> HIDE DEF UpTo
  <2>3. Cardinality(UpTo(v)) <= Cardinality(UpTo(w)) /\ Cardinality(UpTo(v)) # Cardinality(UpTo(w))
    BY <1>3, <2>1, <2>2, FS_Subset
  <2>4. place[v] = Cardinality(UpTo(v)) /\ place[w] = Cardinality(UpTo(w))
    OBVIOUS
  <2>5. QED
    BY <1>1, <1>3, <2>3, <2>4
<1> HIDE DEF UpTo
<1>5. place \in Injection(ws, 1..n)
  <2>1. place \in [ws -> 1..n]
    BY <1>3
  <2>2. \A v, w \in ws : place[v] = place[w] => v = w
    <3> HIDE DEF place
    <3>1. QED
      BY <1>1, <1>2, <1>3, <1>4
  <2>3. QED
    BY <2>1, <2>2 DEF Injection, IsInjective
<1>6. place \in Surjection(ws, 1..n)
  BY <1>1, <1>5, FS_Interval, FS_Injection
<1>7. \A i \in 1..n : \E w \in ws : place[w] = i
  BY <1>6, Zenon DEF Surjection
<1> DEFINE q == [i \in 1..n |-> CHOOSE w \in ws : place[w] = i]
<1>8. \A i \in 1..n : q[i] \in ws /\ place[q[i]] = i
  <2> HIDE DEF place
  <2>1. QED
    BY <1>7
<1> HIDE DEF place
<1>9. q \in SetToSeqs(ws)
  <2>1. q \in [1..n -> ws]
    BY <1>8
  <2>2. \A i, j \in 1..n : i # j => q[i] # q[j]
    BY <1>8
  <2>3. QED
    BY <2>1, <2>2 DEF SetToSeqs
<1>10. \A i, j \in 1..n : i < j => Before(q[i], q[j])
  <2> SUFFICES ASSUME NEW i \in 1..n, NEW j \in 1..n, i < j PROVE Before(q[i], q[j])
    OBVIOUS
  <2>1. q[i] \in ws /\ q[j] \in ws /\ place[q[i]] < place[q[j]]
    BY <1>1, <1>8
  <2> HIDE DEF q
  <2>2. q[i] # q[j] /\ ~Before(q[j], q[i])
    BY <1>1, <1>3, <1>4, <2>1
  <2>3. QED
    BY <1>2, <2>1, <2>2
<1>11. DOMAIN q = 1..n
  OBVIOUS
<1>12. q \in Ranked(ws, rtt)
  <2> HIDE DEF q
  <2>1. QED
    BY <1>9, <1>10, <1>11 DEF Ranked, Before
<1>13. QED
  BY <1>12

\* A dial decides what its port answers, if nothing has before, and changes no
\* other answer.
LEMMA DialIs ==
    ASSUME TypeOK, NEW w \in Workers, NEW p \in Ports, NEW outcome \in Answers,
           Dial(w, p, outcome)
    PROVE  /\ answer' \in [Workers -> [Ports -> Answers \cup {None}]]
           /\ answer'[w][p] = outcome
           /\ answer[w][p] # None => answer[w][p] = outcome
           /\ \A v \in Workers, q \in Ports : <<v, q>> # <<w, p>> => answer'[v][q] = answer[v][q]
<1>1. answer' = [answer EXCEPT ![w][p] = outcome] /\ (answer[w][p] # None => answer[w][p] = outcome)
  BY DEF Dial
<1>2. answer \in [Workers -> [Ports -> Answers \cup {None}]]
  BY DEF TypeOK
<1> HIDE DEF Ports, Answers
<1>3. QED
  BY <1>1, <1>2

\* The ports of a rung.
LEMMA PortsOf ==
    ASSUME rung \in 1..4
    PROVE  /\ Primary \in Ports /\ Legacy \in Ports /\ Primary # None /\ Legacy # None
           /\ Primary[1] = Ladder[rung] /\ Legacy[1] = Ladder[rung]
<1>1. Ladder[rung] \in Protocols
  BY LadderIs
<1>2. Primary \in Ports /\ Legacy \in Ports
  BY <1>1 DEF Primary, Legacy, Ports
<1>3. QED
  BY <1>2, DirectoryOK DEF DirectoryOK, Primary, Legacy

-----------------------------------------------------------------------------
(* Types.                                                                   *)

Delays == <<2000, 4000, 8000, 16000, 32000, 60000>>

\* The delay doubles, and is at its cap from the sixth attempt on.
LEMMA BaseIs ==
    ASSUME NEW n \in Nat \ {0}
    PROVE  Base(n) = IF n < 6 THEN Delays[n] ELSE Delays[6]
<1> DEFINE k == MinOf(n, 6)
           power == 2^k
<1>1. Base(n) = MinOf(1000 * power, 60000)
  BY DEF Base
<1>2. k \in {1, 2, 3, 4, 5, 6} /\ (n < 6 => k = n) /\ (n >= 6 => k = 6)
  BY DEF MinOf
<1> HIDE DEF k
<1>3. /\ (k = 1 => power = 2) /\ (k = 2 => power = 4) /\ (k = 3 => power = 8)
      /\ (k = 4 => power = 16) /\ (k = 5 => power = 32) /\ (k = 6 => power = 64)
  <2>1. 2^1 = 2 /\ 2^2 = 4 /\ 2^3 = 8 /\ 2^4 = 16 /\ 2^5 = 32 /\ 2^6 = 64
    OBVIOUS
  <2>2. QED
    BY <2>1
<1> HIDE DEF power
<1>4. Base(n) = Delays[k]
  BY <1>1, <1>2, <1>3 DEF MinOf, Delays
<1>5. QED
  BY <1>2, <1>4

\* A quarter of each delay.
LEMMA QuarterOf ==
    ASSUME NEW b \in {2000, 4000, 8000, 16000, 32000, 60000}
    PROVE  /\ b \in Nat /\ b > 0 /\ b <= 60000
           /\ b \div 4 \in Nat /\ 4 * (b \div 4) = b
<1>1. /\ 2000 \div 4 = 500 /\ 4000 \div 4 = 1000 /\ 8000 \div 4 = 2000
      /\ 16000 \div 4 = 4000 /\ 32000 \div 4 = 8000 /\ 60000 \div 4 = 15000
  OBVIOUS
<1>2. QED
  BY <1>1

\* The jitter is a quarter of the delay at most; the longest wait is the cap with
\* the longest jitter.
LEMMA BackoffsAre ==
    ASSUME NEW n \in Nat \ {0}, NEW x \in Backoffs(n)
    PROVE  /\ x \in Nat /\ x > 0 /\ x < 75000
           /\ Base(n) \in Nat /\ 4 * x >= 3 * Base(n) /\ 4 * x < 5 * Base(n)
<1> DEFINE b == Base(n)
           d == b \div 4
<1>1. b \in {2000, 4000, 8000, 16000, 32000, 60000}
  BY BaseIs DEF Delays
<1>2. x \in {b - d, b, b + d - 1}
  BY DEF Backoffs
<1> HIDE DEF b
<1>3. d \in Nat /\ 4 * d = b /\ b \in Nat /\ b > 0 /\ b <= 60000
  BY <1>1, QuarterOf
<1> HIDE DEF d
<1>4. x \in Nat /\ x > 0 /\ x < 75000 /\ 4 * x >= 3 * b /\ 4 * x < 5 * b
  BY <1>2, <1>3
<1>5. QED
  BY <1>3, <1>4 DEF b

\* A new client has its types.
LEMMA TypeOKInit == Init => TypeOK
<1> SUFFICES ASSUME Init PROVE TypeOK
  OBVIOUS
<1>1. queue \in Seq(Workers) /\ worker \in Workers
  BY Bounds DEF Init
<1>2. answer \in [Workers -> [Ports -> Answers \cup {None}]]
  BY DEF Init, Untouched
<1>3. phase \in Phases /\ phase \notin {"primary", "legacy", "again", "connected"}
  BY DEF Init, Phases
<1>4. QED
  BY <1>1, <1>2, <1>3, Bounds, LadderIs DEF Init, TypeOK

\* What discovery finds is a set of workers, in a region or none.
LEMMA DiscoveryTyped ==
    ASSUME TypeOK, DiscoverNothing \/ Discover
    PROVE  TypeOK'
<1>1. \A well \in SUBSET Workers, r \in Regions \cup {None} : BestRegion(well, r) \in Regions \cup {None}
  BY DEF BestRegion, TypeOK
<1>2. healthy' \subseteq Workers /\ region' \in Regions \cup {None}
  BY <1>1 DEF DiscoverNothing, Discover, TypeOK
<1>3. phase' \in {"failed", "measuring"} /\ UNCHANGED <<config, direct, answer, monitor, queue, worker, rung, via>>
  BY DEF DiscoverNothing, Discover
<1>4. phase' \in Phases
  BY <1>3 DEF Phases
<1>5. QED
  BY <1>2, <1>3, <1>4 DEF TypeOK, config, monitor

\* The queue is a ranking of the region's workers.
LEMMA MeasureTyped ==
    ASSUME TypeOK, Measure
    PROVE  TypeOK' /\ ToSet(queue') = Regional(region, healthy)
<1>1. Regional(region, healthy) \in SUBSET Workers
  BY DEF TypeOK, Regional
<1>2. queue' \in Seq(Workers) /\ ToSet(queue') = Regional(region, healthy)
  BY <1>1, RankedIs DEF Measure
<1>3. phase' = "trying" /\ UNCHANGED <<config, choice, answer, monitor, worker, rung, via>>
  BY DEF Measure
<1>4. phase' \in Phases
  BY <1>3 DEF Phases
<1>5. QED
  BY <1>2, <1>3, <1>4 DEF TypeOK, config, choice, monitor

\* Whatever fails leads to a phase without a rung.
LEMMA GiveUpIs ==
    ASSUME NEW more \in BOOLEAN, GiveUp(more)
    PROVE  /\ phase' \in Phases /\ phase' \in {"backoff", "trying", "failed"}
           /\ phase' = "failed" => ~more /\ ~(reconnects > 0)
           /\ phase' = "backoff" => reconnects > 0
           /\ phase' = "trying" => more
BY DEF GiveUp, Phases

\* The next worker of the queue starts at its first rung.
LEMMA NextWorkerTyped ==
    ASSUME TypeOK, NextWorker PROVE TypeOK'
<1>1. worker' \in Workers /\ queue' \in Seq(Workers) /\ worker' = Head(queue)
  BY DEF NextWorker, TypeOK
<1>2. rung' = FirstRung(worker') /\ rung' \in 0..4
  <2>1. rung' = FirstRung(Head(queue))
    BY DEF NextWorker
  <2>2. Head(queue) \in Workers /\ preferred \in Protocols \cup {None}
    BY <1>1 DEF TypeOK
  <2>3. QED
    BY <1>1, <2>1, <2>2, FirstRungIs
<1>3. /\ phase' \in Phases
      /\ phase' \in {"primary", "legacy", "again"} => rung' # 0
      /\ phase' \notin {"again", "connected"}
  <2>1. CASE rung' = 0
    BY <2>1, GiveUpIs DEF NextWorker
  <2>2. CASE rung' # 0
    BY <2>2 DEF NextWorker, Phases
  <2>3. QED
    BY <2>1, <2>2
<1>4. UNCHANGED <<config, choice, answer, monitor, via>>
  BY DEF NextWorker
<1>5. QED
  BY <1>1, <1>2, <1>3, <1>4, LadderIs DEF TypeOK, config, choice, monitor

\* Descend, as both dials use it.
LEMMA DescendIs ==
    ASSUME TypeOK, Descend
    PROVE  /\ rung' = NextRung(worker, rung) /\ rung' \in 0..4
           /\ phase' \in Phases
           /\ rung' # 0 => phase' = "primary"
           /\ rung' = 0 => GiveUp(queue # <<>>) /\ phase' \in {"backoff", "trying", "failed"}
<1>1. rung \in 0..4 /\ worker \in Workers
  BY LadderIs DEF TypeOK
<1>2. rung' = NextRung(worker, rung) /\ rung' \in 0..4
  BY <1>1, NextRungIs DEF Descend
<1>3. rung' # 0 => phase' = "primary"
  BY DEF Descend
<1>4. rung' = 0 => GiveUp(queue # <<>>) /\ phase' \in Phases /\ phase' \in {"backoff", "trying", "failed"}
  BY GiveUpIs DEF Descend
<1>5. QED
  BY <1>2, <1>3, <1>4 DEF Phases

\* What a dial over port p of the present rung leads to.
LEMMA DialTyped ==
    ASSUME TypeOK, rung # 0, NEW p \in {Primary, Legacy}, NEW outcome \in Answers,
           Dial(worker, p, outcome),
           \/ Connects(p)
           \/ phase' = "legacy" /\ UNCHANGED <<rung, via>>
           \/ Descend /\ UNCHANGED via,
           UNCHANGED <<config, choice, monitor, queue, worker>>
    PROVE  TypeOK'
<1>1. rung \in 1..4 /\ worker \in Workers
  BY LadderIs DEF TypeOK
<1>2. p \in Ports /\ p # None
  BY <1>1, PortsOf
<1>3. answer' \in [Workers -> [Ports -> Answers \cup {None}]]
  BY <1>1, <1>2, DialIs
<1>4. /\ rung' \in 0..4 /\ phase' \in Phases /\ via' \in Ports \cup {None}
      /\ phase' \in {"primary", "legacy", "again"} => rung' # 0
      /\ phase' \in {"again", "connected"} => via' # None
  <2>1. CASE Connects(p)
    BY <1>1, <1>2, <2>1 DEF Connects, Phases
  <2>2. CASE phase' = "legacy" /\ UNCHANGED <<rung, via>>
    BY <1>1, <2>2 DEF TypeOK, Phases
  <2>3. CASE Descend /\ UNCHANGED via
    BY <2>3, DescendIs DEF TypeOK
  <2>4. QED
    BY <2>1, <2>2, <2>3
<1>5. QED
  BY <1>3, <1>4, LadderIs DEF TypeOK, config, choice, monitor

\* Both dials of the chain.
LEMMA DialsTyped ==
    ASSUME TypeOK, DialPrimary \/ DialLegacy PROVE TypeOK'
<1>1. rung # 0
  BY DEF TypeOK, DialPrimary, DialLegacy
<1>2. CASE DialPrimary
  <2>1. PICK outcome \in Answers :
            /\ Dial(worker, Primary, outcome)
            /\ \/ Connects(Primary)
               \/ phase' = "legacy" /\ UNCHANGED <<rung, via>>
               \/ Descend /\ UNCHANGED via
    BY <1>2 DEF DialPrimary
  <2>2. UNCHANGED <<config, choice, monitor, queue, worker>>
    BY <1>2 DEF DialPrimary
  <2>3. QED
    BY <1>1, <2>1, <2>2, DialTyped
<1>3. CASE DialLegacy
  <2>1. PICK outcome \in Answers :
            /\ Dial(worker, Legacy, outcome)
            /\ Connects(Legacy) \/ (Descend /\ UNCHANGED via)
    BY <1>3 DEF DialLegacy
  <2>2. UNCHANGED <<config, choice, monitor, queue, worker>>
    BY <1>3 DEF DialLegacy
  <2>3. QED
    BY <1>1, <2>1, <2>2, DialTyped
<1>4. QED
  BY <1>2, <1>3

\* The second connect().
LEMMA AgainTyped ==
    ASSUME TypeOK, AgainOverQuic \/ AgainDials PROVE TypeOK'
<1>1. via \in Ports /\ via # None /\ rung # 0 /\ worker \in Workers
  BY DEF TypeOK, AgainOverQuic, AgainDials
<1>2. UNCHANGED <<config, choice, reconnects, queue, worker, rung, via>>
  BY DEF AgainOverQuic, AgainDials
<1>3. CASE AgainOverQuic
  <2>1. phase' \in Phases /\ UNCHANGED answer /\ failures' \in 0..MaxFailures /\ waited' \in Nat /\ waited' < 75000
    BY <1>3, Bounds DEF AgainOverQuic, Done, Phases
  <2>2. QED
    BY <1>1, <1>2, <2>1 DEF TypeOK, config, choice
<1>4. CASE AgainDials
  <2>1. PICK outcome \in Answers :
            /\ Dial(worker, <<via[1], "primary">>, outcome)
            /\ \/ Done
               \/ GiveUp(queue # <<>>) /\ UNCHANGED <<failures, waited>>
    BY <1>4 DEF AgainDials
  <2>2. <<via[1], "primary">> \in Ports
    BY <1>1 DEF Ports
  <2>3. answer' \in [Workers -> [Ports -> Answers \cup {None}]]
    BY <1>1, <2>1, <2>2, DialIs
  <2>4. phase' \in Phases /\ failures' \in 0..MaxFailures /\ waited' \in Nat /\ waited' < 75000
    <3>1. CASE Done
      BY <3>1, Bounds DEF Done, Phases
    <3>2. CASE GiveUp(queue # <<>>) /\ UNCHANGED <<failures, waited>>
      <4>1. phase' \in Phases
        BY <3>2, GiveUpIs
      <4>2. QED
        BY <3>2, <4>1 DEF TypeOK
    <3>3. QED
      BY <2>1, <3>1, <3>2
  <2>5. QED
    BY <1>1, <1>2, <2>3, <2>4 DEF TypeOK, config, choice
<1>5. QED
  BY <1>3, <1>4

\* Each attempt to reconnect.
LEMMA ReconnectTyped ==
    ASSUME TypeOK, Reconnect \/ Backoff PROVE TypeOK'
<1>1. /\ phase' = "trying" /\ queue' = <<worker>> /\ direct' = TRUE /\ answer' = Untouched /\ via' = None
      /\ UNCHANGED <<config, region, healthy, worker, rung>>
  BY DEF Reconnect, Backoff, StartReconnect
<1>2. queue' \in Seq(Workers) /\ answer' \in [Workers -> [Ports -> Answers \cup {None}]]
  BY <1>1 DEF TypeOK, Untouched
<1>3. failures' \in 0..MaxFailures /\ waited' \in Nat /\ waited' < 75000 /\ reconnects' \in 0..MaxReconnects
  <2>1. CASE Reconnect
    BY <2>1, Bounds DEF Reconnect, TypeOK
  <2>2. CASE Backoff
    <3>1. failures + 1 \in Nat \ {0} /\ failures' = failures + 1 /\ waited' \in Backoffs(failures + 1)
      BY <2>2, Bounds DEF Backoff, TypeOK
    <3>2. waited' \in Nat /\ waited' < 75000
      BY <3>1, BackoffsAre
    <3>3. QED
      BY <2>2, <3>1, <3>2, Bounds DEF Backoff, TypeOK
  <2>3. QED
    BY <2>1, <2>2
<1>4. phase' \in Phases
  BY <1>1 DEF Phases
<1>5. QED
  BY <1>1, <1>2, <1>3, <1>4 DEF TypeOK, config

\* Every step keeps the types.
LEMMA TypeOKStep == TypeOK /\ [Next]_vars => TypeOK'
<1> SUFFICES ASSUME TypeOK, [Next]_vars PROVE TypeOK'
  OBVIOUS
<1>1. CASE UNCHANGED vars
  BY <1>1 DEF TypeOK, vars, config, choice, monitor
<1>2. QED
  BY <1>1, DiscoveryTyped, MeasureTyped, NextWorkerTyped, DialsTyped, AgainTyped, ReconnectTyped
     DEF Next

\* Every variable has its type: there is a rung, a worker and a port whenever the
\* chain is at work, and no delay is longer than the cap and its jitter.
THEOREM TypeCorrect == Spec => []TypeOK
BY TypeOKInit, TypeOKStep, PTL DEF Spec

-----------------------------------------------------------------------------
(* What has been tried.                                                     *)

\* Where there is a queue, and when a client is past its first connect().
Placed ==
    /\ phase \in {"discovering", "measuring", "failed"} => queue = <<>>
    /\ phase = "discovering" => healthy = {}
    /\ reconnects > 0 \/ phase = "backoff" => direct

\* All that is below the present rung is closed, and a preferred protocol has
\* only its own.
Passed ==
    phase \in {"primary", "legacy", "again", "connected"} =>
        /\ rung # 0
        /\ preferred # None => Ladder[rung] = preferred
        /\ preferred = None => \A i \in 1..4 :
                i < rung /\ Offered(worker, i) => Closed(worker, Ladder[i])

\* The answers that brought the chain to its legacy port, or to its end.
Answered ==
    /\ phase = "legacy" => answer[worker][Primary] = "down"
    /\ phase \in {"again", "connected"} => via[1] = Ladder[rung]
    /\ phase = "again" => answer[worker][via] = "ok"

Wanted(w) == IF preferred # None THEN {preferred} ELSE advert[w].offers

Tried(w) == Dropped(w) \/ \A p \in Wanted(w) : Closed(w, p)

\* Each healthy worker of the region is still to come, has its turn, or was tried.
Seen ==
    ~direct /\ phase \notin {"discovering", "measuring"} =>
        \A w \in Regional(region, healthy) :
            \/ w \in ToSet(queue)
            \/ w = worker /\ phase \in {"primary", "legacy", "again", "connected"}
            \/ Tried(w)

ConnectInv == TypeOK /\ Placed /\ Passed /\ Answered /\ Seen

\* What has been answered stays so.
Grows == \A w \in Workers, p \in Ports : answer[w][p] # None => answer'[w][p] = answer[w][p]

\* Each protocol has its ports, and each worker only protocols.
LEMMA WantedIs ==
    ASSUME TypeOK, NEW w \in Workers
    PROVE  /\ \A p \in Protocols, kind \in {"primary", "legacy"} : <<p, kind>> \in Ports
           /\ Wanted(w) \subseteq Protocols
           /\ None \notin {"ok", "down", "denied"}
<1>1. \A p \in Protocols, kind \in {"primary", "legacy"} : <<p, kind>> \in Ports
  BY DEF Ports
<1>2. advert[w] \in Adverts /\ preferred \in Protocols \cup {None}
  BY DEF TypeOK
<1>3. Wanted(w) \subseteq Protocols
  BY <1>2, AdvertsOK DEF AdvertsOK, Wanted
<1>4. QED
  BY <1>1, <1>3, DirectoryOK DEF DirectoryOK, Answers

\* What is closed stays closed, what was lost stays lost.
LEMMA StaysTried ==
    ASSUME TypeOK, UNCHANGED <<advert, preferred>>, Grows, NEW w \in Workers
    PROVE  /\ \A p \in Protocols : Closed(w, p) => Closed(w, p)'
           /\ Tried(w) => Tried(w)'
<1>1. \A p \in Protocols : Closed(w, p) => Closed(w, p)'
  <2> SUFFICES ASSUME NEW p \in Protocols, Closed(w, p) PROVE Closed(w, p)'
    OBVIOUS
  <2>1. <<p, "primary">> \in Ports /\ <<p, "legacy">> \in Ports /\ None \notin {"ok", "down", "denied"}
    BY WantedIs
  <2>2. answer'[w][<<p, "primary">>] = answer[w][<<p, "primary">>]
    BY <2>1 DEF Closed, Grows
  <2>3. answer[w][<<p, "legacy">>] # None => answer'[w][<<p, "legacy">>] = answer[w][<<p, "legacy">>]
    BY <2>1 DEF Grows
  <2>4. QED
    BY <2>1, <2>2, <2>3 DEF Closed
<1>2. Dropped(w) => Dropped(w)'
  <2> SUFFICES ASSUME NEW i \in DOMAIN Ladder, DroppedAt(w, i) PROVE DroppedAt(w, i)'
    BY DEF Dropped
  <2>1. \A j \in DOMAIN Ladder : Ladder[j] \in Protocols
    BY LadderIs
  <2>2. /\ <<Ladder[i], "primary">> \in Ports /\ <<Ladder[i], "legacy">> \in Ports
        /\ None \notin {"ok", "down", "denied"}
    BY <2>1, WantedIs
  <2>3. /\ answer'[w][<<Ladder[i], "legacy">>] = answer[w][<<Ladder[i], "legacy">>]
        /\ answer'[w][<<Ladder[i], "primary">>] = answer[w][<<Ladder[i], "primary">>]
    BY <2>2 DEF Grows, DroppedAt
  <2>4. \A j \in DOMAIN Ladder : Offered(w, j) /\ Closed(w, Ladder[j]) =>
                                  Offered(w, j)' /\ Closed(w, Ladder[j])'
    BY <1>1, <2>1 DEF Offered
  <2>5. \A j \in DOMAIN Ladder : Offered(w, j)' = Offered(w, j)
    BY DEF Offered
  <2>6. QED
    BY <2>3, <2>4, <2>5 DEF DroppedAt
<1>3. Wanted(w)' = Wanted(w) /\ Wanted(w) \subseteq Protocols
  BY WantedIs DEF Wanted
<1>4. QED
  BY <1>1, <1>2, <1>3 DEF Tried

\* A dial forgets nothing.
LEMMA DialGrows ==
    ASSUME TypeOK, NEW w \in Workers, NEW p \in Ports, NEW outcome \in Answers,
           Dial(w, p, outcome)
    PROVE  Grows
BY DialIs DEF Grows

\* The invariant holds of a new client.
LEMMA ConnectInvInit == Init => ConnectInv
<1> SUFFICES ASSUME Init PROVE ConnectInv
  OBVIOUS
<1>1. TypeOK
  BY TypeOKInit
<1>2. Placed /\ Passed /\ Answered
  BY DEF Init, Placed, Passed, Answered
<1>3. Seen
  BY DEF Init, Seen
<1>4. QED
  BY <1>1, <1>2, <1>3 DEF ConnectInv

\* A region without workers leaves nothing to be tried.
LEMMA DiscoverNothingKeeps ==
    ASSUME ConnectInv, DiscoverNothing PROVE ConnectInv'
<1>1. TypeOK'
  BY DiscoveryTyped DEF ConnectInv
<1>2. /\ phase = "discovering" /\ phase' = "failed"
      /\ UNCHANGED <<config, direct, answer, monitor, queue, worker, rung, via>>
  BY DEF DiscoverNothing
<1>3. Regional(region, healthy)' = {}
  <2>1. CASE UNCHANGED <<region, healthy>>
    BY <1>2, <2>1 DEF ConnectInv, Placed, Regional
  <2>2. CASE \E well \in SUBSET Workers : \E recommended \in Regions \cup {None} :
                /\ Regional(BestRegion(well, recommended), well) = {}
                /\ region' = BestRegion(well, recommended)
                /\ healthy' = well
    BY <2>2 DEF Regional
  <2>3. QED
    BY <2>1, <2>2 DEF DiscoverNothing
<1>4. Placed' /\ Passed' /\ Answered' /\ Seen'
  BY <1>2, <1>3 DEF ConnectInv, Placed, Passed, Answered, Seen, monitor
<1>5. QED
  BY <1>1, <1>4 DEF ConnectInv

\* The region's workers are known, and not ranked yet.
LEMMA DiscoverKeeps ==
    ASSUME ConnectInv, Discover PROVE ConnectInv'
<1>1. TypeOK'
  BY DiscoveryTyped DEF ConnectInv
<1>2. /\ phase = "discovering" /\ phase' = "measuring"
      /\ UNCHANGED <<config, direct, answer, monitor, queue, worker, rung, via>>
  BY DEF Discover
<1>3. Placed' /\ Passed' /\ Answered' /\ Seen'
  BY <1>2 DEF ConnectInv, Placed, Passed, Answered, Seen, monitor
<1>4. QED
  BY <1>1, <1>3 DEF ConnectInv

\* The queue has them all.
LEMMA MeasureKeeps ==
    ASSUME ConnectInv, Measure PROVE ConnectInv'
<1>1. TypeOK' /\ ToSet(queue') = Regional(region, healthy)
  BY MeasureTyped DEF ConnectInv
<1>2. phase = "measuring" /\ phase' = "trying" /\ UNCHANGED <<config, choice, answer, monitor, worker, rung, via>>
  BY DEF Measure
<1>3. Placed' /\ Passed' /\ Answered'
  BY <1>2 DEF ConnectInv, Placed, Passed, Answered, monitor, choice
<1>4. Regional(region, healthy)' = Regional(region, healthy)
  BY <1>2 DEF choice, Regional
<1>5. Seen'
  BY <1>1, <1>4 DEF Seen
<1>6. QED
  BY <1>1, <1>3, <1>5 DEF ConnectInv

\* The worker that the queue gives up is the next to have its turn; one that
\* offers nothing has had it.
LEMMA NextWorkerKeeps ==
    ASSUME ConnectInv, NextWorker PROVE ConnectInv'
<1>1. TypeOK /\ TypeOK'
  BY NextWorkerTyped DEF ConnectInv
<1>2. /\ phase = "trying" /\ queue # <<>> /\ queue \in Seq(Workers)
      /\ worker' = Head(queue) /\ queue' = Tail(queue) /\ worker' \in Workers
      /\ UNCHANGED <<config, choice, answer, monitor, via>>
  BY <1>1 DEF NextWorker, TypeOK
<1>3. /\ rung' = FirstRung(worker') /\ rung' \in 0..4
      /\ preferred # None => rung' # 0 /\ Ladder[rung'] = preferred
      /\ preferred = None /\ rung' = 0 => \A j \in 1..4 : ~Offered(worker', j)
      /\ preferred = None /\ rung' # 0 => \A j \in 1..4 : j < rung' => ~Offered(worker', j)
  <2>1. rung' = FirstRung(worker')
    BY <1>2 DEF NextWorker
  <2>2. preferred \in Protocols \cup {None}
    BY <1>1 DEF TypeOK
  <2>3. QED
    BY <1>2, <2>1, <2>2, FirstRungIs
<1>4. ToSet(queue) \subseteq ToSet(queue') \cup {worker'}
  <2>1. \A i \in 1..Len(queue) : i = 1 \/ i - 1 \in 1..Len(Tail(queue))
    BY <1>2
  <2>2. \A i \in 1..Len(queue) : i # 1 => Tail(queue)[i - 1] = queue[i]
    BY <1>2
  <2>3. DOMAIN queue = 1..Len(queue) /\ DOMAIN queue' = 1..Len(Tail(queue)) /\ worker' = queue[1]
    BY <1>2
  <2>4. QED
    BY <1>2, <2>1, <2>2, <2>3 DEF ToSet
<1>5. UNCHANGED <<advert, preferred, direct, region, healthy, answer, reconnects>>
  BY <1>2 DEF config, choice, monitor
<1>6. \A w \in Regional(region, healthy) : w \in Workers /\ (Tried(w) => Tried(w)')
  <2>1. Regional(region, healthy) \subseteq Workers /\ Grows
    BY <1>1, <1>5 DEF TypeOK, Regional, Grows
  <2>2. QED
    BY <1>1, <1>5, <2>1, StaysTried
<1>7. \A w \in Regional(region, healthy) : ~direct => w \in ToSet(queue) \/ Tried(w)
  BY <1>2 DEF ConnectInv, Seen
<1>8. CASE rung' = 0
  <2>1. /\ phase' \in {"backoff", "trying", "failed"}
        /\ phase' = "failed" => queue' = <<>>
        /\ phase' = "backoff" => reconnects > 0
    <3>1. GiveUp(Tail(queue) # <<>>)
      BY <1>8 DEF NextWorker
    <3>2. QED
      BY <1>2, <3>1, GiveUpIs
  <2>2. Placed' /\ Passed' /\ Answered'
    BY <1>5, <2>1 DEF ConnectInv, Placed, Passed, Answered
  <2>3. \A w \in Workers : w = worker' => Tried(w)'
    <3> SUFFICES ASSUME NEW w \in Workers, w = worker' PROVE Tried(w)'
      OBVIOUS
    <3>1. preferred = None /\ \A j \in 1..4 : Ladder[j] \notin advert[w].offers
      BY <1>3, <1>8 DEF Offered
    <3>2. advert[w].offers \subseteq Protocols
      BY <1>1, AdvertsOK DEF AdvertsOK, TypeOK
    <3>3. advert[w].offers = {}
      BY <3>1, <3>2, LadderIs
    <3>4. QED
      BY <1>5, <3>1, <3>3 DEF Tried, Wanted
  <2>4. Seen'
    BY <1>2, <1>4, <1>5, <1>6, <1>7, <2>3 DEF Seen, Regional
  <2>5. QED
    BY <1>1, <2>2, <2>4 DEF ConnectInv
<1>9. CASE rung' # 0
  <2>1. phase' = "primary"
    BY <1>9 DEF NextWorker
  <2>2. Placed' /\ Answered'
    BY <1>5, <2>1 DEF ConnectInv, Placed, Answered
  <2>3. Passed'
    BY <1>3, <1>5, <1>9, <2>1 DEF Passed, Offered
  <2>4. Seen'
    BY <1>4, <1>5, <1>6, <1>7, <2>1 DEF Seen, Regional
  <2>5. QED
    BY <1>1, <2>2, <2>3, <2>4 DEF ConnectInv
<1>10. QED
  BY <1>8, <1>9

\* The present rung is closed, and the ladder goes on: below the next rung all
\* that the worker offers is closed, and if there is none the worker was tried.
LEMMA DescendKeeps ==
    ASSUME ConnectInv, TypeOK', Grows, phase \in {"primary", "legacy"}, Descend,
           \A p \in Protocols : p = Ladder[rung] => Closed(worker, p)',
           UNCHANGED <<config, choice, monitor, queue, worker, via>>
    PROVE  ConnectInv'
<1>1. /\ rung \in 1..4 /\ worker \in Workers /\ TypeOK
      /\ UNCHANGED <<advert, preferred, direct, region, healthy, reconnects, worker, queue>>
  BY LadderIs DEF ConnectInv, TypeOK, config, choice, monitor
<1>2. /\ rung' = NextRung(worker, rung) /\ rung' \in 0..4
      /\ rung' # 0 => phase' = "primary"
      /\ rung' = 0 => GiveUp(queue # <<>>)
  BY <1>1, DescendIs
<1>3. /\ preferred # None => rung' = 0 /\ Ladder[rung] = preferred
      /\ preferred = None /\ rung' = 0 => \A j \in 1..4 : j > rung => ~Offered(worker, j)
      /\ preferred = None /\ rung' # 0 =>
            \A j \in 1..4 : j > rung /\ j < rung' => ~Offered(worker, j)
  BY <1>1, <1>2, NextRungIs DEF ConnectInv, Passed
<1>4. \A i \in 1..4 : i = rung => Closed(worker, Ladder[i])'
  BY <1>1, LadderIs
<1>5. preferred = None =>
        \A i \in 1..4 : i < rung /\ Offered(worker, i) => Closed(worker, Ladder[i])'
  <2>1. preferred = None =>
            \A i \in 1..4 : i < rung /\ Offered(worker, i) => Closed(worker, Ladder[i])
    BY DEF ConnectInv, Passed
  <2>2. \A p \in Protocols : Closed(worker, p) => Closed(worker, p)'
    BY <1>1, StaysTried
  <2>3. QED
    BY <2>1, <2>2, LadderIs
<1>6. \A w \in Regional(region, healthy) : w \in Workers /\ (Tried(w) => Tried(w)')
  <2>1. Regional(region, healthy) \subseteq Workers
    BY <1>1 DEF TypeOK, Regional
  <2>2. QED
    BY <1>1, <2>1, StaysTried
<1>7. \A w \in Regional(region, healthy) :
            ~direct => w \in ToSet(queue) \/ w = worker \/ Tried(w)
  BY DEF ConnectInv, Seen
<1>8. CASE rung' = 0
  <2>1. /\ phase' \in {"backoff", "trying", "failed"}
        /\ phase' = "failed" => queue = <<>>
        /\ phase' = "backoff" => reconnects > 0
    BY <1>2, <1>8, GiveUpIs
  <2>2. Placed' /\ Passed' /\ Answered'
    BY <1>1, <2>1 DEF ConnectInv, Placed, Passed, Answered
  <2>3. \A p \in Wanted(worker) : Closed(worker, p)'
    <3>1. CASE preferred # None
      <4>1. Wanted(worker) = {Ladder[rung]}
        BY <1>3, <3>1 DEF Wanted
      <4>2. QED
        BY <1>1, <1>4, <4>1
    <3>2. CASE preferred = None
      <4> SUFFICES ASSUME NEW p \in advert[worker].offers PROVE Closed(worker, p)'
        BY <3>2 DEF Wanted
      <4>1. p \in Protocols
        BY <1>1, AdvertsOK DEF AdvertsOK, TypeOK
      <4>2. PICK i \in 1..4 : Ladder[i] = p
        BY <4>1, LadderIs
      <4>3. Offered(worker, i)
        BY <4>2 DEF Offered
      <4>4. i < rung \/ i = rung
        BY <1>1, <1>3, <1>8, <3>2, <4>2, <4>3
      <4>5. Closed(worker, Ladder[i])'
        BY <1>4, <1>5, <3>2, <4>2, <4>3, <4>4
      <4>6. QED
        BY <4>2, <4>5
    <3>3. QED
      BY <3>1, <3>2
  <2>4. Tried(worker)'
    BY <1>1, <2>3 DEF Tried, Wanted
  <2>5. Seen'
    BY <1>1, <1>6, <1>7, <2>4 DEF Seen, Regional
  <2>6. QED
    BY <2>2, <2>5 DEF ConnectInv
<1>9. CASE rung' # 0
  <2>1. phase' = "primary" /\ preferred = None
    BY <1>2, <1>3, <1>9
  <2>2. Placed' /\ Answered'
    BY <1>1, <2>1 DEF ConnectInv, Placed, Answered
  <2>3. \A i \in 1..4 : i < rung' /\ Offered(worker, i) => Closed(worker, Ladder[i])'
    <3> SUFFICES ASSUME NEW i \in 1..4, i < rung', Offered(worker, i)
                 PROVE  Closed(worker, Ladder[i])'
      OBVIOUS
    <3>1. i < rung \/ i = rung
      BY <1>1, <1>2, <1>3, <1>9, <2>1
    <3>2. QED
      BY <1>4, <1>5, <2>1, <3>1
  <2>4. Passed'
    BY <1>1, <1>9, <2>1, <2>3 DEF Passed, Offered
  <2>5. Seen'
    BY <1>1, <1>6, <1>7, <2>1 DEF Seen, Regional
  <2>6. QED
    BY <2>2, <2>4, <2>5 DEF ConnectInv
<1>10. QED
  BY <1>8, <1>9

\* Either dial leads over its port, or leaves the rung closed unless the legacy
\* port may help.
LEMMA DialPrimaryKeeps ==
    ASSUME ConnectInv, DialPrimary PROVE ConnectInv'
<1>1. TypeOK /\ TypeOK' /\ phase = "primary" /\ rung \in 1..4 /\ worker \in Workers
  BY DialsTyped, LadderIs DEF ConnectInv, TypeOK, DialPrimary
<1>2. UNCHANGED <<config, choice, monitor, queue, worker>>
  BY DEF DialPrimary
<1>3. UNCHANGED <<advert, preferred, direct, region, healthy, reconnects, worker, queue>>
  BY <1>2 DEF config, choice, monitor
<1>4. PICK outcome \in Answers :
        /\ Dial(worker, Primary, outcome)
        /\ \/ outcome = "ok" /\ Connects(Primary)
           \/ LegacyHelps(outcome) /\ phase' = "legacy" /\ UNCHANGED <<rung, via>>
           \/ outcome # "ok" /\ ~LegacyHelps(outcome) /\ Descend /\ UNCHANGED via
  BY DEF DialPrimary
<1>5. Primary \in Ports /\ Primary[1] = Ladder[rung]
  BY <1>1, PortsOf
<1>6. Grows /\ answer'[worker][Primary] = outcome
  BY <1>1, <1>4, <1>5, DialIs, DialGrows
<1>7. rung' = rung /\ phase' \in {"legacy", "again"} => Placed' /\ Passed' /\ Seen'
  <2> SUFFICES ASSUME rung' = rung, phase' \in {"legacy", "again"} PROVE Placed' /\ Passed' /\ Seen'
    OBVIOUS
  <2>1. Placed'
    BY <1>1, <1>3 DEF ConnectInv, Placed
  <2>2. \A p \in Protocols : Closed(worker, p) => Closed(worker, p)'
    BY <1>1, <1>3, <1>6, StaysTried
  <2>3. Passed'
    BY <1>1, <1>3, <2>2, LadderIs DEF ConnectInv, Passed, Offered
  <2>4. \A w \in Regional(region, healthy) : w \in Workers /\ (Tried(w) => Tried(w)')
    <3>1. Regional(region, healthy) \subseteq Workers
      BY <1>1 DEF TypeOK, Regional
    <3>2. QED
      BY <1>1, <1>3, <1>6, <3>1, StaysTried
  <2>5. Seen'
    BY <1>1, <1>3, <2>4 DEF ConnectInv, Seen, Regional
  <2>6. QED
    BY <2>1, <2>3, <2>5
<1>8. CASE outcome = "ok" /\ Connects(Primary)
  <2>1. rung' = rung /\ phase' = "again" /\ via' = Primary
    BY <1>8 DEF Connects
  <2>2. Answered'
    BY <1>3, <1>5, <1>6, <1>8, <2>1 DEF Answered
  <2>3. QED
    BY <1>1, <1>7, <2>1, <2>2 DEF ConnectInv
<1>9. CASE LegacyHelps(outcome) /\ phase' = "legacy" /\ UNCHANGED <<rung, via>>
  <2>1. Primary' = Primary /\ outcome = "down"
    BY <1>9 DEF Primary, LegacyHelps
  <2>2. Answered'
    BY <1>3, <1>6, <1>9, <2>1 DEF Answered
  <2>3. QED
    BY <1>1, <1>7, <1>9, <2>2 DEF ConnectInv
<1>10. CASE outcome # "ok" /\ ~LegacyHelps(outcome) /\ Descend /\ UNCHANGED via
  <2>1. \A p \in Protocols : p = Ladder[rung] => Closed(worker, p)'
    <3>1. outcome \in {"down", "denied"}
      BY <1>10 DEF Answers
    <3>2. outcome = "down" => Ladder[rung] \notin advert[worker].legacy
      BY <1>10 DEF LegacyHelps
    <3>3. answer'[worker][<<Ladder[rung], "primary">>] = outcome
      BY <1>6 DEF Primary
    <3>4. QED
      BY <1>3, <3>1, <3>2, <3>3 DEF Closed
  <2>2. QED
    BY <1>1, <1>2, <1>6, <1>10, <2>1, DescendKeeps
<1>11. QED
  BY <1>4, <1>8, <1>9, <1>10

\* The legacy port's failure closes the rung: the primary port was found down.
LEMMA DialLegacyKeeps ==
    ASSUME ConnectInv, DialLegacy PROVE ConnectInv'
<1>1. TypeOK /\ TypeOK' /\ phase = "legacy" /\ rung \in 1..4 /\ worker \in Workers
  BY DialsTyped, LadderIs DEF ConnectInv, TypeOK, DialLegacy
<1>2. UNCHANGED <<config, choice, monitor, queue, worker>>
  BY DEF DialLegacy
<1>3. UNCHANGED <<advert, preferred, direct, region, healthy, reconnects, worker, queue>>
  BY <1>2 DEF config, choice, monitor
<1>4. PICK outcome \in Answers :
        /\ Dial(worker, Legacy, outcome)
        /\ \/ outcome = "ok" /\ Connects(Legacy)
           \/ outcome # "ok" /\ Descend /\ UNCHANGED via
  BY DEF DialLegacy
<1>5. Legacy \in Ports /\ Primary \in Ports /\ Legacy[1] = Ladder[rung]
  BY <1>1, PortsOf
<1>6. Grows /\ answer'[worker][Legacy] = outcome
  BY <1>1, <1>4, <1>5, DialIs, DialGrows
<1>7. answer'[worker][Primary] = "down"
  BY <1>1, <1>5, <1>6, WantedIs DEF ConnectInv, Answered, Grows
<1>8. CASE outcome = "ok" /\ Connects(Legacy)
  <2>1. rung' = rung /\ phase' = "again" /\ via' = Legacy
    BY <1>8 DEF Connects
  <2>2. Placed'
    BY <1>1, <1>3, <2>1 DEF ConnectInv, Placed
  <2>3. \A p \in Protocols : Closed(worker, p) => Closed(worker, p)'
    BY <1>1, <1>3, <1>6, StaysTried
  <2>4. Passed'
    BY <1>1, <1>3, <2>1, <2>3, LadderIs DEF ConnectInv, Passed, Offered
  <2>5. \A w \in Regional(region, healthy) : w \in Workers /\ (Tried(w) => Tried(w)')
    <3>1. Regional(region, healthy) \subseteq Workers
      BY <1>1 DEF TypeOK, Regional
    <3>2. QED
      BY <1>1, <1>3, <1>6, <3>1, StaysTried
  <2>6. Seen'
    BY <1>1, <1>3, <2>1, <2>5 DEF ConnectInv, Seen, Regional
  <2>7. Answered'
    BY <1>3, <1>5, <1>6, <1>8, <2>1 DEF Answered
  <2>8. QED
    BY <1>1, <2>2, <2>4, <2>6, <2>7 DEF ConnectInv
<1>9. CASE outcome # "ok" /\ Descend /\ UNCHANGED via
  <2>1. \A p \in Protocols : p = Ladder[rung] => Closed(worker, p)'
    <3>1. outcome \in {"down", "denied"}
      BY <1>9 DEF Answers
    <3>2. /\ answer'[worker][<<Ladder[rung], "primary">>] = "down"
          /\ answer'[worker][<<Ladder[rung], "legacy">>] = outcome
      BY <1>6, <1>7 DEF Primary, Legacy
    <3>3. QED
      BY <1>3, <3>1, <3>2 DEF Closed
  <2>2. QED
    BY <1>1, <1>2, <1>6, <1>9, <2>1, DescendKeeps
<1>10. QED
  BY <1>4, <1>8, <1>9

\* The second connect() keeps the chain's port, or its worker counts as lost: only
\* a legacy port can have answered when the primary one does not.
LEMMA AgainKeeps ==
    ASSUME ConnectInv, AgainOverQuic \/ AgainDials PROVE ConnectInv'
<1>1. /\ TypeOK /\ TypeOK' /\ phase = "again" /\ worker \in Workers /\ via \in Ports
      /\ via[1] \in Protocols /\ answer[worker][via] = "ok"
  <2>1. TypeOK /\ TypeOK' /\ phase = "again"
    BY AgainTyped DEF ConnectInv, AgainOverQuic, AgainDials
  <2>2. via \in Ports /\ worker \in Workers
    BY <2>1 DEF TypeOK
  <2>3. via[1] \in Protocols
    BY <2>2 DEF Ports
  <2>4. answer[worker][via] = "ok"
    BY <2>1 DEF ConnectInv, Answered
  <2>5. QED
    BY <2>1, <2>2, <2>3, <2>4
<1>2. UNCHANGED <<advert, preferred, direct, region, healthy, reconnects, queue, worker, rung, via>>
  BY DEF AgainOverQuic, AgainDials, config, choice
<1>3. Grows
  <2>1. CASE AgainOverQuic
    BY <2>1 DEF AgainOverQuic, Grows
  <2>2. CASE AgainDials
    <3>1. PICK outcome \in Answers : Dial(worker, <<via[1], "primary">>, outcome)
      BY <2>2 DEF AgainDials
    <3>2. <<via[1], "primary">> \in Ports
      BY <1>1 DEF Ports
    <3>3. QED
      BY <1>1, <3>1, <3>2, DialGrows
  <2>3. QED
    BY <2>1, <2>2
<1>4. \A w \in Regional(region, healthy) : w \in Workers /\ (Tried(w) => Tried(w)')
  <2>1. Regional(region, healthy) \subseteq Workers
    BY <1>1 DEF TypeOK, Regional
  <2>2. QED
    BY <1>1, <1>2, <1>3, <2>1, StaysTried
<1>5. CASE phase' = "connected"
  <2>1. Placed' /\ Answered'
    BY <1>1, <1>2, <1>5 DEF ConnectInv, Placed, Answered
  <2>2. \A p \in Protocols : Closed(worker, p) => Closed(worker, p)'
    BY <1>1, <1>2, <1>3, StaysTried
  <2>3. Passed'
    BY <1>1, <1>2, <1>5, <2>2, LadderIs DEF ConnectInv, Passed, Offered
  <2>4. Seen'
    BY <1>1, <1>2, <1>4, <1>5 DEF ConnectInv, Seen, Regional
  <2>5. QED
    BY <1>1, <2>1, <2>3, <2>4 DEF ConnectInv
<1>6. CASE phase' # "connected"
  <2>1. PICK outcome \in Answers :
          /\ Dial(worker, <<via[1], "primary">>, outcome)
          /\ outcome # "ok" /\ GiveUp(queue # <<>>)
    BY <1>6 DEF AgainOverQuic, AgainDials, Done
  <2>2. /\ phase' \in {"backoff", "trying", "failed"}
        /\ phase' = "failed" => queue = <<>>
        /\ phase' = "backoff" => reconnects > 0
    BY <2>1, GiveUpIs
  <2>3. Placed' /\ Passed' /\ Answered'
    BY <1>1, <1>2, <2>2 DEF ConnectInv, Placed, Passed, Answered
  <2>4. DroppedAt(worker, rung)'
    <3>1. /\ <<via[1], "primary">> \in Ports /\ via[1] # "quic"
          /\ via[1] = Ladder[rung]
      BY <1>1, <1>6 DEF Ports, AgainOverQuic, AgainDials, Done, ConnectInv, Answered
    <3>2. answer'[worker][<<via[1], "primary">>] = outcome /\ outcome \in {"down", "denied"}
      BY <1>1, <2>1, <3>1, DialIs DEF Answers
    <3>3. answer'[worker][via] = "ok"
      BY <1>1, <1>3, WantedIs DEF Grows
    <3>4. via = <<via[1], "primary">> \/ via = <<via[1], "legacy">>
      BY <1>1 DEF Ports
    <3>5. answer'[worker][<<via[1], "legacy">>] = "ok"
      BY <3>2, <3>3, <3>4
    <3>6. preferred # None => Ladder[rung] = preferred
      BY <1>1 DEF ConnectInv, Passed
    <3>7. preferred = None => \A j \in DOMAIN Ladder :
                                 j < rung /\ Offered(worker, j) => Closed(worker, Ladder[j])'
      <4>1. preferred = None => \A j \in DOMAIN Ladder :
                                 j < rung /\ Offered(worker, j) => Closed(worker, Ladder[j])
        BY <1>1, LadderIs DEF ConnectInv, Passed
      <4>2. \A j \in DOMAIN Ladder : Closed(worker, Ladder[j]) => Closed(worker, Ladder[j])'
        BY <1>1, <1>2, <1>3, StaysTried, LadderIs
      <4>3. QED
        BY <4>1, <4>2
    <3>8. \A j \in DOMAIN Ladder : Offered(worker, j)' = Offered(worker, j)
      BY <1>2 DEF Offered
    <3>9. QED
      BY <1>2, <3>1, <3>2, <3>5, <3>6, <3>7, <3>8 DEF DroppedAt
  <2>5. \A w \in Workers : w = worker => Tried(w)'
    <3>1. rung \in DOMAIN Ladder
      BY <1>1, LadderIs DEF TypeOK
    <3>2. Dropped(worker)'
      BY <1>2, <2>4, <3>1 DEF Dropped
    <3>3. QED
      BY <1>2, <3>2 DEF Tried
  <2>6. Seen'
    BY <1>1, <1>2, <1>4, <2>5 DEF ConnectInv, Seen, Regional
  <2>7. QED
    BY <1>1, <2>3, <2>6 DEF ConnectInv
<1>7. QED
  BY <1>5, <1>6

\* Each attempt to reconnect dials the configured worker alone.
LEMMA ReconnectKeeps ==
    ASSUME ConnectInv, Reconnect \/ Backoff PROVE ConnectInv'
<1>1. TypeOK'
  BY ReconnectTyped DEF ConnectInv
<1>2. phase' = "trying" /\ direct' = TRUE
  BY DEF Reconnect, Backoff, StartReconnect
<1>3. Placed' /\ Passed' /\ Answered' /\ Seen'
  BY <1>2 DEF Placed, Passed, Answered, Seen
<1>4. QED
  BY <1>1, <1>3 DEF ConnectInv

\* Every step keeps the invariant.
LEMMA ConnectInvStep == ConnectInv /\ [Next]_vars => ConnectInv'
<1> SUFFICES ASSUME ConnectInv, [Next]_vars PROVE ConnectInv'
  OBVIOUS
<1>1. CASE UNCHANGED vars
  <2>1. UNCHANGED <<advert, preferred, direct, region, healthy, phase, queue, worker, rung,
                    answer, via, reconnects>>
    BY <1>1 DEF vars, config, choice, monitor
  <2>2. TypeOK'
    BY TypeOKStep DEF ConnectInv
  <2>3. Placed' /\ Answered'
    BY <2>1 DEF ConnectInv, Placed, Answered, Primary
  <2>4. Passed'
    BY <2>1 DEF ConnectInv, Passed, Offered, Closed
  <2>5. Seen'
    BY <2>1 DEF ConnectInv, Seen, Regional, Tried, Dropped, DroppedAt, Offered, Wanted, Closed
  <2>6. QED
    BY <2>2, <2>3, <2>4, <2>5 DEF ConnectInv
<1>2. QED
  BY <1>1, DiscoverNothingKeeps, DiscoverKeeps, MeasureKeeps, NextWorkerKeeps, DialPrimaryKeeps,
     DialLegacyKeeps, AgainKeeps, ReconnectKeeps DEF Next

\* The invariant of the chain.
THEOREM Invariant == Spec => []ConnectInv
BY ConnectInvInit, ConnectInvStep, PTL DEF Spec

\* The session is over the first protocol of the ladder that answers, and over no
\* other than the preferred one.
THEOREM LadderInOrder == Spec => []FirstThatAnswers
<1>1. ConnectInv => FirstThatAnswers
  <2> SUFFICES ASSUME ConnectInv, phase \in {"again", "connected"} PROVE FirstThatAnswers
    BY DEF FirstThatAnswers
  <2>1. via[1] = Ladder[rung]
    BY DEF ConnectInv, Answered
  <2>2. preferred # None => via[1] = preferred
    BY <2>1 DEF ConnectInv, Passed
  <2>3. preferred = None => \A i \in DOMAIN Ladder :
                i < rung /\ Offered(worker, i) => Closed(worker, Ladder[i])
    BY LadderIs DEF ConnectInv, Passed
  <2>4. QED
    BY <2>2, <2>3 DEF FirstThatAnswers
<1>2. QED
  BY <1>1, Invariant, PTL

\* connect() fails only when every healthy worker of the region was dialed in
\* vain: on every protocol it offers, or, of one that was dropped in the second
\* connect() after it had answered on a legacy port, on every protocol up to that one.
THEOREM AllWorkersTried == Spec => []NoneLeftUntried
<1>1. ConnectInv => NoneLeftUntried
  <2> SUFFICES ASSUME ConnectInv, phase = "failed", ~direct,
                      NEW w \in Regional(region, healthy)
               PROVE  Dropped(w) \/ \A p \in Wanted(w) : Closed(w, p)
    BY DEF NoneLeftUntried, Wanted
  <2>1. queue = <<>>
    BY DEF ConnectInv, Placed
  <2>2. ToSet(queue) = {}
    BY <2>1 DEF ToSet
  <2>3. Tried(w)
    BY <2>2 DEF ConnectInv, Seen
  <2>4. QED
    BY <2>3 DEF Tried
<1>2. QED
  BY <1>1, Invariant, PTL

-----------------------------------------------------------------------------
(* The backoff.                                                             *)

\* The last wait is the one of the last failure.
Paced ==
    waited = 0 \/ (failures # 0 /\ waited \in Backoffs(failures))

\* It starts without, and each step keeps or resets both, or waits once more.
LEMMA PacedStep ==
    ASSUME TypeOK, Paced, [Next]_vars
    PROVE  /\ Paced'
           /\ \/ waited' = 0
              \/ waited' = waited
              \/ failures' = failures + 1 /\ waited' \in Backoffs(failures + 1)
<1>1. failures \in Nat
  BY Bounds DEF TypeOK
<1>2. \/ failures' = 0 /\ waited' = 0
      \/ UNCHANGED <<failures, waited>>
      \/ failures' = failures + 1 /\ waited' \in Backoffs(failures + 1)
  BY DEF Next, DiscoverNothing, Discover, Measure, NextWorker, DialPrimary, DialLegacy,
         AgainOverQuic, AgainDials, Done, Reconnect, Backoff, vars, monitor
<1>3. CASE failures' = 0 /\ waited' = 0
  BY <1>3 DEF Paced
<1>4. CASE UNCHANGED <<failures, waited>>
  BY <1>4 DEF Paced, Backoffs, Base
<1>5. CASE failures' = failures + 1 /\ waited' \in Backoffs(failures + 1)
  <2>1. failures' # 0 /\ waited' \in Backoffs(failures')
    BY <1>1, <1>5
  <2>2. QED
    BY <1>5, <2>1 DEF Paced, Backoffs, Base
<1>6. QED
  BY <1>2, <1>3, <1>4, <1>5

\* The longest wait is shorter than the shortest one after it, below the cap.
LEMMA NextIsLonger ==
    ASSUME NEW n \in Nat \ {0}, NEW x \in Backoffs(n), NEW y \in Backoffs(n + 1)
    PROVE  y > x \/ y >= 45000
<1>1. n + 1 \in Nat \ {0}
  OBVIOUS
<1>2. /\ x \in Nat /\ 4 * x < 5 * Base(n) /\ Base(n) \in Nat
      /\ y \in Nat /\ 4 * y >= 3 * Base(n + 1) /\ Base(n + 1) \in Nat
  BY <1>1, BackoffsAre
<1>3. Base(n + 1) = 60000 \/ Base(n + 1) >= 2 * Base(n) 
  <2>1. Base(n) = (IF n < 6 THEN Delays[n] ELSE Delays[6])
        /\ Base(n + 1) = (IF n + 1 < 6 THEN Delays[n + 1] ELSE Delays[6])
    BY <1>1, BaseIs
  <2>2. n = 1 \/ n = 2 \/ n = 3 \/ n = 4 \/ n >= 5
    OBVIOUS
  <2>3. QED
    BY <2>1, <2>2 DEF Delays
<1>4. QED
  BY <1>2, <1>3

\* The first wait, and every one after it, is longer than the one before, until
\* the delay is at its cap.
THEOREM BackoffsGrow == Spec => BackoffGrows
<1>1. Init => Paced
  BY DEF Init, Paced
<1>2. TypeOK /\ Paced /\ [Next]_vars => Paced'
  BY PacedStep
<1>3. TypeOK /\ Paced /\ [Next]_vars =>
        [waited' # 0 /\ waited' # waited => waited' > waited \/ waited' >= 45000]_vars
  <2> SUFFICES ASSUME TypeOK, Paced, [Next]_vars, waited' # 0, waited' # waited
               PROVE  waited' > waited \/ waited' >= 45000
    OBVIOUS
  <2>1. failures \in Nat /\ failures' = failures + 1 /\ waited' \in Backoffs(failures + 1)
    BY PacedStep, Bounds DEF TypeOK
  <2>2. CASE waited = 0
    <3>1. waited' \in Nat /\ waited' > 0
      BY <2>1, BackoffsAre
    <3>2. QED
      BY <2>2, <3>1
  <2>3. CASE failures # 0 /\ waited \in Backoffs(failures)
    BY <2>1, <2>3, NextIsLonger
  <2>4. QED
    BY <2>2, <2>3 DEF Paced
<1>4. QED
  BY <1>1, <1>2, <1>3, TypeCorrect, PTL DEF Spec, BackoffGrows
=============================================================================
