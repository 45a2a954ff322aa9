-------------------------- MODULE Scheduler_proofs --------------------------
(***************************************************************************)
(* The safety properties of Scheduler, for any table of nodes, any steps   *)
(* and constraints, any limits and priorities and any heartbeats.          *)
(***************************************************************************)
EXTENDS Scheduler, TLAPS, FiniteSetTheorems

Fields == { "cpu", "memory", "disk", "thermal", "battery", "jobs", "ffmpeg", "whisper" }
Counts == { "jobs", "whisper", "ffmpeg" }

\* What the pass decides by is no smaller than what it was, and the rest the same.
Busier(m, r) ==
    /\ \A f \in Fields \ Counts : r[f] = m[f]
    /\ \A f \in Counts : r[f] >= m[f]
-----------------------------------------------------------------------------
(***************************************************************************)
(* Metrics.                                                                *)
(***************************************************************************)
LEMMA FieldsOf ==
    ASSUME NEW m \in Metrics
    PROVE  /\ DOMAIN m = Fields
           /\ m.cpu \in Int /\ m.memory \in Int /\ m.disk \in Nat /\ m.thermal \in Thermals
           /\ m.battery \in BOOLEAN
           /\ \A f \in Counts : m[f] \in Nat
BY DEF Metrics, Fields, Counts

\* A function on the fields that differs from metrics in the counts only, and
\* there in naturals, is metrics.
LEMMA MetricsAgain ==
    ASSUME NEW m \in Metrics, NEW r, r = [f \in Fields |-> r[f]],
           \A f \in Fields \ Counts : r[f] \in { m[f] },
           \A f \in Counts : r[f] \in Nat
    PROVE  r \in Metrics
<1>1. r.cpu = m.cpu /\ r.memory = m.memory /\ r.disk = m.disk /\ r.thermal = m.thermal /\ r.battery = m.battery
  BY DEF Fields, Counts
<1>2. r.jobs \in Nat /\ r.ffmpeg \in Nat /\ r.whisper \in Nat
  BY DEF Counts
<1>3. m.cpu \in 0 .. 100 /\ m.memory \in 0 .. 100 /\ m.disk \in Nat /\ m.thermal \in Thermals /\ m.battery \in BOOLEAN
  BY DEF Metrics
<1> QED
  BY <1>1, <1>2, <1>3 DEF Metrics, Fields

\* The counts a kind of step raises.
LEMMA CountsOfKind ==
    ASSUME NEW kind \in Kinds
    PROVE  /\ CountsOf(kind) \subseteq Counts
           /\ SameType(kind) \in Counts
           /\ SameType(kind) \in CountsOf(kind)
           /\ "jobs" \in CountsOf(kind)
           /\ kind # "pipeline" => kind \in Counts /\ kind \in CountsOf(kind) /\ SameType(kind) = kind
BY DEF Kinds, CountsOf, SameType, Counts

\* Metrics after one more step of a kind.
LEMMA RaisedIs ==
    ASSUME NEW m \in Metrics, NEW kind \in Kinds
    PROVE  /\ Raised(m, kind) \in Metrics
           /\ Busier(m, Raised(m, kind))
           /\ \A f \in CountsOf(kind) : Raised(m, kind)[f] = m[f] + 1
           /\ \A f \in Fields \ CountsOf(kind) : Raised(m, kind)[f] = m[f]
<1> DEFINE r == Raised(m, kind)
<1>1. CountsOf(kind) \subseteq Counts /\ Counts \subseteq Fields
  BY CountsOfKind DEF Fields, Counts
<1>2. DOMAIN m = Fields /\ \A f \in Counts : m[f] \in Nat
  BY FieldsOf
<1>3. r = [f \in Fields |-> IF f \in CountsOf(kind) THEN m[f] + 1 ELSE m[f]]
  BY <1>2 DEF Raised
<1>4. /\ \A f \in CountsOf(kind) : r[f] = m[f] + 1
      /\ \A f \in Fields \ CountsOf(kind) : r[f] = m[f]
  BY <1>1, <1>3
<1>5. \A f \in Counts : r[f] \in Nat /\ r[f] >= m[f]
  BY <1>1, <1>2, <1>4
<1>6. \A f \in Fields \ Counts : r[f] = m[f]
  BY <1>1, <1>4
<1>7. r = [f \in Fields |-> r[f]]
  BY <1>3
<1>8. r \in Metrics
  <2> HIDE DEF r
  <2> QED
    BY <1>5, <1>6, <1>7, MetricsAgain
<1> QED
  BY <1>4, <1>5, <1>6, <1>8 DEF Busier

\* A busier node is eligible for nothing it was not eligible for, and dearer.
LEMMA BusierIsWorse ==
    ASSUME TablesAssumption, NEW m \in Metrics, NEW r \in Metrics, Busier(m, r),
           NEW s \in StepIds, NEW n \in NodeIds
    PROVE  /\ Eligible(s, n, r) => Eligible(s, n, m)
           /\ Cost(Kind[s], n, m) \in Int
           /\ Cost(Kind[s], n, m) <= Cost(Kind[s], n, r)
<1>1. Kind[s] \in Kinds /\ Priority[n] \in Int
  BY DEF TablesAssumption
<1>2. /\ r.cpu = m.cpu /\ r.memory = m.memory /\ r.disk = m.disk
      /\ r.thermal = m.thermal /\ r.battery = m.battery
  BY DEF Busier, Fields, Counts
<1>3. \A f \in Counts : r[f] >= m[f] /\ r[f] \in Nat /\ m[f] \in Nat
  BY FieldsOf DEF Busier
<1>4. Kind[s] # "pipeline" => Limit(n, Kind[s]) \in Int
  BY DEF TablesAssumption, Limit
<1>5. ASSUME Eligible(s, n, r)
      PROVE  Eligible(s, n, m)
  <2>1. Kind[s] # "pipeline" => m[Kind[s]] < Limit(n, Kind[s])
    BY <1>1, <1>3, <1>4, <1>5, CountsOfKind DEF Eligible
  <2> QED
    BY <1>2, <1>5, <2>1 DEF Eligible, Healthy
<1>6. /\ m.cpu \in Int /\ m.memory \in Int /\ m.thermal \in Thermals
      /\ m[SameType(Kind[s])] \in Int /\ r[SameType(Kind[s])] \in Int
      /\ r[SameType(Kind[s])] >= m[SameType(Kind[s])]
  BY <1>1, <1>3, FieldsOf, CountsOfKind
<1>7. ThermalPenalty[m.thermal] \in Int
  BY <1>6 DEF ThermalPenalty, Thermals
<1> DEFINE cm == m[SameType(Kind[s])]
           cr == r[SameType(Kind[s])]
           tp == ThermalPenalty[m.thermal]
<1>8. /\ Cost(Kind[s], n, m) = 30 * m.cpu + 20 * m.memory + 15 * cm + 10 * tp - 100 * Priority[n]
      /\ Cost(Kind[s], n, r) = 30 * m.cpu + 20 * m.memory + 15 * cr + 10 * tp - 100 * Priority[n]
  BY <1>2 DEF Cost
<1>9. cm \in Int /\ cr \in Int /\ tp \in Int /\ cr >= cm
  BY <1>6, <1>7
<1> HIDE DEF cm, cr, tp
<1> QED
  BY <1>1, <1>5, <1>6, <1>8, <1>9

\* What one more step of a kind costs.
LEMMA RaisedCost ==
    ASSUME TablesAssumption, NEW m \in Metrics, NEW kind \in Kinds,
           NEW s \in StepIds, NEW n \in NodeIds
    PROVE  Cost(Kind[s], n, Raised(m, kind)) =
             Cost(Kind[s], n, m) + (IF SameType(Kind[s]) \in CountsOf(kind) THEN 15 ELSE 0)
<1> DEFINE r == Raised(m, kind)
<1>1. Kind[s] \in Kinds /\ Priority[n] \in Int
  BY DEF TablesAssumption
<1>2. /\ r.cpu = m.cpu /\ r.memory = m.memory /\ r.thermal = m.thermal
  BY RaisedIs DEF Busier, Fields, Counts
<1>3. /\ m.cpu \in Int /\ m.memory \in Int /\ m.thermal \in Thermals
      /\ m[SameType(Kind[s])] \in Int
      /\ SameType(Kind[s]) \in Fields
  BY <1>1, FieldsOf, CountsOfKind DEF Counts, Fields
<1>4. ThermalPenalty[m.thermal] \in Int
  BY <1>3 DEF ThermalPenalty, Thermals
<1> DEFINE cm == m[SameType(Kind[s])]
           cr == r[SameType(Kind[s])]
           tp == ThermalPenalty[m.thermal]
<1>5. cr = IF SameType(Kind[s]) \in CountsOf(kind) THEN cm + 1 ELSE cm
  BY <1>3, RaisedIs
<1>6. /\ Cost(Kind[s], n, m) = 30 * m.cpu + 20 * m.memory + 15 * cm + 10 * tp - 100 * Priority[n]
      /\ Cost(Kind[s], n, r) = 30 * m.cpu + 20 * m.memory + 15 * cr + 10 * tp - 100 * Priority[n]
  BY <1>2 DEF Cost
<1>7. cm \in Int /\ tp \in Int
  BY <1>3, <1>4
<1> HIDE DEF cm, cr, tp
<1> QED
  BY <1>1, <1>3, <1>5, <1>6, <1>7
-----------------------------------------------------------------------------
(***************************************************************************)
(* Selection.  A finite set of nodes ordered by cost and id has a first    *)
(* one: otherwise the number of nodes before each would put as many nodes  *)
(* into one place fewer.                                                   *)
(***************************************************************************)
LEMMA NoRoom ==
    ASSUME NEW S, NEW T, NEW f \in [S -> T], IsFiniteSet(S), IsFiniteSet(T),
           \A x, y \in S : x # y => f[x] # f[y]
    PROVE  ~(Cardinality(T) < Cardinality(S))
BY FS_PigeonHole

\* Of finitely many nodes, one comes first by cost and id.
LEMMA FirstByCost ==
    ASSUME NEW S, IsFiniteSet(S), S # {}, S \subseteq Int, NEW c \in [S -> Int]
    PROVE  \E n \in S : \A m \in S : c[n] < c[m] \/ (c[n] = c[m] /\ n <= m)
<1> DEFINE Before(m, n) == c[m] < c[n] \/ (c[m] = c[n] /\ m < n)
           Ahead(n) == { m \in S : Before(m, n) }
           rank == [n \in S |-> Cardinality(Ahead(n))]
           size == Cardinality(S)
<1> SUFFICES ASSUME \A n \in S : \E m \in S : Before(m, n)
             PROVE  FALSE
  <2> SUFFICES ASSUME \A n \in S : \E m \in S : ~(c[n] < c[m] \/ (c[n] = c[m] /\ n <= m))
               PROVE  \A n \in S : \E m \in S : Before(m, n)
    OBVIOUS
  <2> TAKE n \in S
  <2>1. PICK m \in S : ~(c[n] < c[m] \/ (c[n] = c[m] /\ n <= m))
    OBVIOUS
  <2>2. n \in Int /\ m \in Int /\ c[n] \in Int /\ c[m] \in Int
    OBVIOUS
  <2>3. Before(m, n)
    BY <2>1, <2>2
  <2> QED
    BY <2>3
<1>1. \A n \in S : n \in Int /\ c[n] \in Int
  OBVIOUS
<1>2. size \in Nat /\ \A n \in S : IsFiniteSet(Ahead(n)) /\ Cardinality(Ahead(n)) \in Nat
  BY FS_CardinalityType, FS_Subset
<1>3. \A n \in S : Cardinality(Ahead(n)) \in 1 .. size - 1
  <2> TAKE n \in S
  <2>1. Ahead(n) # {} /\ n \notin Ahead(n)
    BY <1>1
  <2>2. Cardinality(Ahead(n)) # 0
    BY <1>2, <2>1, FS_EmptySet
  <2>3. Cardinality(Ahead(n)) <= size /\ Cardinality(Ahead(n)) # size
    BY <2>1, FS_Subset
  <2> HIDE DEF Ahead, size
  <2> QED
    BY <1>2, <2>2, <2>3
<1>4. \A n, m \in S : Before(m, n) => Cardinality(Ahead(m)) # Cardinality(Ahead(n))
  <2> TAKE n, m \in S
  <2> HAVE Before(m, n)
  <2>1. Ahead(m) \subseteq Ahead(n)
    <3> SUFFICES ASSUME NEW k \in S, Before(k, m)
                 PROVE  Before(k, n)
      OBVIOUS
    <3>1. c[k] \in Int /\ c[m] \in Int /\ c[n] \in Int /\ k \in Int /\ m \in Int /\ n \in Int
      BY <1>1
    <3> QED
      BY <3>1
  <2>2. m \in Ahead(n) /\ m \notin Ahead(m)
    BY <1>1
  <2>3. IsFiniteSet(Ahead(n))
    BY <1>2
  <2> HIDE DEF Ahead
  <2> QED
    BY <2>1, <2>2, <2>3, FS_Subset
<1>5. \A n, m \in S : n # m => Before(m, n) \/ Before(n, m)
  BY <1>1
<1>6. \A n, m \in S : n # m => rank[n] # rank[m]
  BY <1>4, <1>5
<1>7. rank \in [S -> 1 .. size - 1]
  BY <1>3
<1>8. IsFiniteSet(1 .. size - 1) /\ Cardinality(1 .. size - 1) < size
  <2>1. size # 0
    BY FS_EmptySet
  <2> HIDE DEF size
  <2>2. /\ IsFiniteSet(1 .. size - 1)
        /\ Cardinality(1 .. size - 1) = IF 1 > size - 1 THEN 0 ELSE size - 1 - 1 + 1
    BY <1>2, FS_Interval
  <2> QED
    BY <1>2, <2>1, <2>2
<1> DEFINE places == 1 .. size - 1
<1>9. IsFiniteSet(S) /\ IsFiniteSet(places) /\ Cardinality(places) < Cardinality(S) /\ rank \in [S -> places]
  BY <1>7, <1>8
<1> HIDE DEF rank, places
<1> QED
  BY <1>6, <1>9, NoRoom
-----------------------------------------------------------------------------
(***************************************************************************)
(* The inductive invariant.                                                *)
(***************************************************************************)
\* A step is queued, or a node has it; what the pass in progress gave comes
\* before what it has to do.
StepsInv ==
    /\ \A s \in queued : assigned[s] = NoNode
    /\ \A n \in NodeIds : IsFiniteSet(since[n])
    /\ \A n \in NodeIds : \A s \in since[n] : assigned[s] # NoNode
    /\ \A s \in pass.gave : assigned[s] # NoNode
    /\ \A s \in pass.gave : \A u \in pass.todo : s < u

\* The node whose heartbeat holds the lock has no other one waiting, and the
\* Session's copy of its counts covers what it was given in the pass.
PassInv ==
    /\ Unlocked => pass = NoPass
    /\ \A n \in NodeIds : n = pass.node =>
         /\ ~beat[n].waiting
         /\ \A f \in Counts : pass.mine[f] >= reported[n][f] + Given(n, f)

\* While a heartbeat waits, passes of others only raise its node's counts over
\* what it loaded.
BeatInv ==
    \A n \in NodeIds : beat[n].waiting =>
        \A f \in Counts : row[n].metrics[f] >= beat[n].loaded[f]

\* What a pass left queued nobody can take, while it goes on too.
PassedOver == ~Unlocked => \A s \in queued \ pass.todo : Candidates(s) = {}

IInv ==
    /\ TypeOK /\ StepsInv /\ PassInv /\ BeatInv
    /\ CountsCover /\ LimitsHold /\ PassedOver /\ NoCheaperNode
-----------------------------------------------------------------------------
\* What a pass sees of a node is a row of metrics.
LEMMA ViewType ==
    ASSUME TypeOK, NEW n \in NodeIds
    PROVE  View(n) \in Metrics /\ row[n].metrics \in Metrics /\ row[n].fresh \in BOOLEAN
BY DEF TypeOK, View

\* Every step is of a known kind.
LEMMA KindOfStep ==
    ASSUME TablesAssumption, NEW s \in StepIds
    PROVE  Kind[s] \in Kinds
BY DEF TablesAssumption

\* The selected node is a candidate, and no other is cheaper.
LEMMA SelectedIsFirst ==
    ASSUME TypeOK, TablesAssumption, NEW s \in StepIds, Candidates(s) # {}
    PROVE  /\ Selected(s) \in Candidates(s)
           /\ \A n \in Candidates(s) :
                Cost(Kind[s], Selected(s), View(Selected(s))) <= Cost(Kind[s], n, View(n))
<1> DEFINE S == Candidates(s)
           c == [n \in S |-> Cost(Kind[s], n, View(n))]
<1>1. S \subseteq NodeIds /\ IsFiniteSet(S)
  BY FS_Subset DEF TablesAssumption, Candidates
<1>2. S \subseteq Int
  <2> HIDE DEF S
  <2> QED
    BY <1>1, NodeIdsAssumption
<1>3. \A n \in S : Cost(Kind[s], n, View(n)) \in Int
  <2> TAKE n \in S
  <2>1. n \in NodeIds /\ View(n) \in Metrics
    BY <1>1, ViewType
  <2>2. Busier(View(n), View(n))
    BY <2>1, FieldsOf DEF Busier
  <2> QED
    BY <2>1, <2>2, BusierIsWorse
<1>4. c \in [S -> Int]
  BY <1>3
<1>5. \E n \in S : \A m \in S : c[n] < c[m] \/ (c[n] = c[m] /\ n <= m)
  <2> HIDE DEF S, c
  <2> QED
    BY <1>1, <1>2, <1>4, FirstByCost DEF S
<1>6. \E n \in Candidates(s) : \A m \in Candidates(s) :
        LET cn == Cost(Kind[s], n, View(n))
            cm == Cost(Kind[s], m, View(m))
        IN  cn < cm \/ (cn = cm /\ n <= m)
  BY <1>5
<1>7. /\ Selected(s) \in Candidates(s)
      /\ \A m \in Candidates(s) :
           LET cn == Cost(Kind[s], Selected(s), View(Selected(s)))
               cm == Cost(Kind[s], m, View(m))
           IN  cn < cm \/ (cn = cm /\ Selected(s) <= m)
  BY <1>6 DEF Selected
<1> QED
  BY <1>3, <1>7
-----------------------------------------------------------------------------
\* An empty queue, and rows as registration writes them, satisfy the invariant.
THEOREM InitIInv == Init => IInv
<1> SUFFICES ASSUME Init PROVE IInv
  OBVIOUS
<1> USE DEF Init
<1>1. FreshMetrics \in Metrics /\ \A f \in Counts : FreshMetrics[f] = 0
  BY DEF FreshMetrics, Metrics, Thermals, Counts
<1>2. \A n \in NodeIds : row[n].metrics = FreshMetrics /\ reported[n] = FreshMetrics /\ since[n] = {}
  OBVIOUS
<1>3. \A n \in NodeIds, f \in Counts : Given(n, f) = 0
  <2> TAKE n \in NodeIds, f \in Counts
  <2>1. { s \in since[n] : f \in CountsOf(Kind[s]) } = {}
    BY <1>2
  <2> QED
    BY <2>1, FS_EmptySet DEF Given
<1>4. TypeOK
  BY <1>1 DEF TypeOK, NoBeat, NoPass
<1>5. StepsInv
  BY <1>2, FS_EmptySet DEF StepsInv, NoPass
<1>6. PassInv
  BY NodeIdsAssumption DEF PassInv, NoPass, NodeIdsAssumption
<1>7. BeatInv
  BY DEF BeatInv, NoBeat
<1>8. CountsCover
  BY <1>1, <1>2, <1>3 DEF CountsCover, Counts
<1>9. LimitsHold
  BY <1>3 DEF LimitsHold, Counts
<1>10. PassedOver /\ NoCheaperNode
  BY DEF PassedOver, Unlocked, NoCheaperNode, NoPass
<1> QED
  BY <1>4, <1>5, <1>6, <1>7, <1>8, <1>9, <1>10 DEF IInv
-----------------------------------------------------------------------------
(***************************************************************************)
(* Preservation: the steps outside a pass.                                 *)
(***************************************************************************)
LEMMA GivenStays ==
    ASSUME NEW n \in NodeIds, since'[n] = since[n], NEW f
    PROVE  Given(n, f)' = Given(n, f)
BY DEF Given

\* What is said of the pass holds between two passes.
LEMMA BetweenPasses ==
    ASSUME pass' = NoPass
    PROVE  PassedOver' /\ NoCheaperNode'
BY DEF PassedOver, Unlocked, NoCheaperNode, NoPass

\* Counts that are left alone, or reported anew with no steps given since.
LEMMA CountsStay ==
    ASSUME CountsCover, LimitsHold, row' = row, reported' = reported, since' = since
    PROVE  CountsCover' /\ LimitsHold'
BY DEF CountsCover, LimitsHold, Given

\* Without the lock there is no pass.
LEMMA UnlockedPass ==
    ASSUME PassInv, Unlocked
    PROVE  pass = NoPass
BY DEF PassInv

\* create_job queues a step.
LEMMA SubmitIInv == ASSUME IInv, NEW s \in StepIds, Submit(s) PROVE IInv'
<1> USE DEF IInv
<1>1. pass = NoPass /\ pass' = NoPass
  BY UnlockedPass DEF Submit
<1>2. TypeOK'
  BY <1>1 DEF TypeOK, Submit, NoPass
<1>3. StepsInv'
  BY <1>1 DEF StepsInv, Submit, NoPass
<1>4. PassInv'
  BY DEF PassInv, Submit, Unlocked, Given
<1>5. BeatInv'
  BY DEF BeatInv, Submit
<1>6. CountsCover' /\ LimitsHold'
  BY CountsStay DEF Submit
<1> QED
  BY <1>1, <1>2, <1>3, <1>4, <1>5, <1>6, BetweenPasses

\* A heartbeat grows too old.
LEMMA ExpireIInv == ASSUME IInv, NEW n \in NodeIds, Expire(n) PROVE IInv'
<1> USE DEF IInv
<1>1. pass = NoPass /\ pass' = NoPass
  BY UnlockedPass DEF Expire
<1>2. /\ \A k \in NodeIds : row'[k].metrics = row[k].metrics
      /\ row' \in [NodeIds -> [fresh : BOOLEAN, metrics : Metrics]]
  BY DEF Expire, TypeOK
<1>3. TypeOK'
  BY <1>2 DEF TypeOK, Expire
<1>4. StepsInv'
  BY DEF StepsInv, Expire
<1>5. PassInv'
  BY DEF PassInv, Expire, Unlocked, Given
<1>6. BeatInv'
  BY <1>2 DEF BeatInv, Expire
<1>7. CountsCover' /\ LimitsHold'
  BY <1>2 DEF CountsCover, LimitsHold, Given, Expire
<1> QED
  BY <1>1, <1>3, <1>4, <1>5, <1>6, <1>7, BetweenPasses

\* heartbeat_node reads its node's row before it waits for the lock.
LEMMA LoadIInv == ASSUME IInv, NEW n \in NodeIds, NEW body \in Bodies, Load(n, body) PROVE IInv'
<1> USE DEF IInv
<1>1. pass = NoPass /\ pass' = NoPass
  BY UnlockedPass DEF Load
<1>2. body \in Metrics /\ row[n].metrics \in Metrics
  BY TablesAssumption DEF TypeOK
<1>3. TypeOK'
  BY <1>2 DEF TypeOK, Load
<1>4. StepsInv'
  BY DEF StepsInv, Load
<1>5. PassInv'
  BY <1>1, NodeIdsAssumption DEF PassInv, NoPass
<1>6. BeatInv'
  <2> SUFFICES ASSUME NEW k \in NodeIds, beat'[k].waiting, NEW f \in Counts
               PROVE  row'[k].metrics[f] >= beat'[k].loaded[f]
    BY DEF BeatInv
  <2>1. CASE k = n
    <3>1. beat'[n].loaded = row[n].metrics /\ row' = row
      BY DEF Load, TypeOK
    <3>2. row[n].metrics[f] \in Nat
      BY <1>2, FieldsOf
    <3> QED
      BY <2>1, <3>1, <3>2
  <2>2. CASE k # n
    BY <2>2 DEF BeatInv, Load, TypeOK
  <2> QED
    BY <2>1, <2>2
<1>7. CountsCover' /\ LimitsHold'
  BY CountsStay DEF Load
<1> QED
  BY <1>1, <1>3, <1>4, <1>5, <1>6, <1>7, BetweenPasses

\* A pass commits.
LEMMA EndPassIInv == ASSUME IInv, EndPass PROVE IInv'
<1> USE DEF IInv
<1>1. pass' = NoPass
  BY DEF EndPass
<1>2. TypeOK'
  <2>1. NoPass \in [ node : NodeIds \cup {NoNode}, mine : Metrics,
                     todo : SUBSET queued, gave : SUBSET (StepIds \ queued) ]
    BY DEF NoPass, FreshMetrics, Metrics, Thermals
  <2> QED
    BY <1>1, <2>1 DEF TypeOK, EndPass
<1>3. StepsInv'
  BY DEF StepsInv, EndPass, NoPass
<1>4. PassInv'
  BY <1>1, NodeIdsAssumption DEF PassInv, NoPass
<1>5. BeatInv'
  BY DEF BeatInv, EndPass
<1>6. CountsCover' /\ LimitsHold'
  BY CountsStay DEF EndPass
<1> QED
  BY <1>1, <1>2, <1>3, <1>4, <1>5, <1>6, BetweenPasses
-----------------------------------------------------------------------------
(***************************************************************************)
(* The flush and the begin of a pass.                                      *)
(***************************************************************************)
\* Metrics of which each field is taken from one of two.
LEMMA MixOfMetrics ==
    ASSUME NEW m \in Metrics, NEW r \in Metrics, NEW w, w = [f \in Fields |-> w[f]],
           \A f \in Fields : w[f] \in { m[f], r[f] }
    PROVE  w \in Metrics
<1>1. /\ w.cpu \in { m.cpu, r.cpu } /\ w.memory \in { m.memory, r.memory }
      /\ w.disk \in { m.disk, r.disk } /\ w.thermal \in { m.thermal, r.thermal }
      /\ w.battery \in { m.battery, r.battery } /\ w.jobs \in { m.jobs, r.jobs }
      /\ w.ffmpeg \in { m.ffmpeg, r.ffmpeg } /\ w.whisper \in { m.whisper, r.whisper }
  BY DEF Fields
<1> QED
  BY <1>1 DEF Metrics, Fields

\* The UPDATE of a heartbeat: each column is the one reported or the one there.
LEMMA FlushedIs ==
    ASSUME TypeOK, NEW n \in NodeIds
    PROVE  /\ Flushed(n) \in Metrics
           /\ \A f \in Fields : Flushed(n)[f] = IF beat[n].body[f] # beat[n].loaded[f]
                                                THEN beat[n].body[f] ELSE row[n].metrics[f]
<1> DEFINE w == Flushed(n)
<1>1. beat[n].body \in Metrics /\ row[n].metrics \in Metrics
  BY DEF TypeOK
<1>2. DOMAIN beat[n].body = Fields
  BY <1>1, FieldsOf
<1>3. w = [f \in Fields |-> IF beat[n].body[f] # beat[n].loaded[f]
                            THEN beat[n].body[f] ELSE row[n].metrics[f]]
  BY <1>2 DEF Flushed
<1>4. \A f \in Fields : w[f] = IF beat[n].body[f] # beat[n].loaded[f]
                               THEN beat[n].body[f] ELSE row[n].metrics[f]
  BY <1>3
<1>5. w = [f \in Fields |-> w[f]] /\ \A f \in Fields : w[f] \in { beat[n].body[f], row[n].metrics[f] }
  BY <1>3, <1>4
<1> HIDE DEF w
<1>6. w \in Metrics
  BY <1>1, <1>5, MixOfMetrics
<1> QED
  BY <1>4, <1>6 DEF w

\* A pass that begins has given nothing yet.
LEMMA NothingGiven ==
    ASSUME NEW n \in NodeIds, since'[n] = {}, NEW f
    PROVE  Given(n, f)' = 0
<1>1. { s \in since'[n] : f \in CountsOf(Kind[s]) } = {}
  OBVIOUS
<1> QED
  BY <1>1, FS_EmptySet DEF Given

\* A waiting heartbeat's write never lowers a count below what it reports: a
\* column it leaves out has what it reports at least.
LEMMA BeginPassIInv == ASSUME IInv, NEW n \in NodeIds, BeginPass(n) PROVE IInv'
<1> USE DEF IInv
<1> DEFINE b == beat[n]
           w == Flushed(n)
<1>1. /\ row' \in [NodeIds -> [fresh : BOOLEAN, metrics : Metrics]]
      /\ row'[n].metrics = w
      /\ \A k \in NodeIds \ {n} : row'[k] = row[k]
  BY FlushedIs DEF BeginPass, TypeOK
<1>2. b.body \in Metrics /\ b.loaded \in Metrics /\ row[n].metrics \in Metrics /\ w \in Metrics
  BY FlushedIs DEF TypeOK
<1>3. /\ beat'[n] = NoBeat /\ reported'[n] = b.body /\ since'[n] = {}
      /\ \A k \in NodeIds \ {n} : beat'[k] = beat[k] /\ reported'[k] = reported[k] /\ since'[k] = since[k]
  BY DEF BeginPass, TypeOK
<1>4. pass' = [node |-> n, mine |-> b.body, todo |-> queued, gave |-> {}]
  BY DEF BeginPass
<1>5. NoBeat \in [waiting : BOOLEAN, body : Metrics, loaded : Metrics]
  BY DEF NoBeat, FreshMetrics, Metrics, Thermals
<1>6. TypeOK'
  BY <1>1, <1>2, <1>4, <1>5 DEF TypeOK, BeginPass
<1>7. StepsInv'
  <2>1. \A k \in NodeIds : IsFiniteSet(since'[k]) /\ \A s \in since'[k] : assigned[s] # NoNode
    BY <1>3, FS_EmptySet DEF StepsInv
  <2> QED
    BY <1>4, <2>1 DEF StepsInv, BeginPass
<1>8. \A f \in Counts : b.body[f] \in Nat /\ Given(n, f)' = 0
  BY <1>2, <1>3, FieldsOf, NothingGiven
<1>9. PassInv'
  <2>1. n # NoNode
    BY NodeIdsAssumption
  <2> QED
    BY <1>3, <1>4, <1>8, <2>1 DEF PassInv, Unlocked, NoBeat
<1>10. BeatInv'
  BY <1>1, <1>3 DEF BeatInv, NoBeat
<1>11. CountsCover'
  <2> SUFFICES ASSUME NEW k \in NodeIds, NEW f \in Counts
               PROVE  row'[k].metrics[f] >= reported'[k][f] + Given(k, f)'
    BY DEF CountsCover, Counts
  <2>1. CASE k = n
    <3>1. b.waiting
      BY DEF BeginPass
    <3>2. row[n].metrics[f] >= b.loaded[f] /\ row[n].metrics[f] \in Nat /\ b.loaded[f] \in Nat
      BY <1>2, <3>1, FieldsOf DEF BeatInv
    <3>3. w[f] = IF b.body[f] # b.loaded[f] THEN b.body[f] ELSE row[n].metrics[f]
      BY FlushedIs DEF Counts, Fields
    <3> HIDE DEF b, w
    <3> QED
      BY <1>1, <1>3, <1>8, <2>1, <3>2, <3>3
  <2>2. CASE k # n
    <3>1. Given(k, f)' = Given(k, f)
      BY <1>3, <2>2, GivenStays
    <3> QED
      BY <1>1, <1>3, <2>2, <3>1 DEF CountsCover, Counts
  <2> QED
    BY <2>1, <2>2
<1>12. LimitsHold'
  <2> SUFFICES ASSUME NEW k \in NodeIds, NEW kind \in { "whisper", "ffmpeg" }, Given(k, kind)' > 0
               PROVE  reported'[k][kind] + Given(k, kind)' <= Limit(k, kind)
    BY DEF LimitsHold, Limit
  <2>1. k # n
    BY <1>8 DEF Counts
  <2>2. Given(k, kind)' = Given(k, kind)
    BY <1>3, <2>1, GivenStays
  <2> QED
    BY <1>3, <2>1, <2>2 DEF LimitsHold
<1>13. PassedOver'
  BY <1>4 DEF PassedOver, BeginPass
<1>14. NoCheaperNode'
  BY <1>4 DEF NoCheaperNode
<1> QED
  BY <1>6, <1>7, <1>9, <1>10, <1>11, <1>12, <1>13, <1>14
-----------------------------------------------------------------------------
(***************************************************************************)
(* The steps of a pass.                                                    *)
(***************************************************************************)
\* The step a pass is at: the first it has to do.
AtStep(s) == s \in pass.todo /\ \A u \in pass.todo : s <= u

\* A pass holds the lock.
LEMMA PassLocked ==
    ASSUME PassInv, NEW s \in pass.todo
    PROVE  ~Unlocked
BY DEF PassInv, NoPass

\* A pass leaves a step queued that no node can take.
LEMMA PassOverIInv ==
    ASSUME IInv, NEW s, AtStep(s), PassOver(s), UNCHANGED << beat, reported >>
    PROVE  IInv'
<1> USE DEF IInv
<1>1. /\ pass' = [pass EXCEPT !.todo = @ \ {s}]
      /\ row' = row /\ queued' = queued /\ assigned' = assigned /\ since' = since
      /\ beat' = beat /\ reported' = reported
  BY DEF PassOver
<1>2. /\ pass'.node = pass.node /\ pass'.mine = pass.mine /\ pass'.gave = pass.gave
      /\ pass'.todo = pass.todo \ {s}
      /\ pass' \in [ node : NodeIds \cup {NoNode}, mine : Metrics,
                     todo : SUBSET queued, gave : SUBSET (StepIds \ queued) ]
  BY <1>1 DEF TypeOK
<1>3. TypeOK'
  BY <1>1, <1>2 DEF TypeOK
<1>4. StepsInv'
  BY <1>1, <1>2 DEF StepsInv
<1>5. ~Unlocked /\ ~Unlocked'
  BY <1>2, PassLocked DEF AtStep, Unlocked
<1>6. PassInv'
  BY <1>1, <1>2, <1>5 DEF PassInv, Given
<1>7. BeatInv'
  BY <1>1 DEF BeatInv
<1>8. CountsCover' /\ LimitsHold'
  BY <1>1, CountsStay
<1>9. \A u : Candidates(u)' = Candidates(u)
  BY <1>1, <1>2 DEF Candidates, View
<1>10. PassedOver'
  BY <1>1, <1>2, <1>5, <1>9 DEF PassedOver, PassOver
<1>11. NoCheaperNode'
  <2>1. \A n : View(n)' = View(n)
    BY <1>1, <1>2 DEF View
  <2>2. \A u : LastOfItsCount(u)' = LastOfItsCount(u)
    BY <1>1, <1>2 DEF LastOfItsCount
  <2> QED
    BY <1>1, <1>2, <1>9, <2>1, <2>2 DEF NoCheaperNode
<1> QED
  BY <1>3, <1>4, <1>6, <1>7, <1>8, <1>10, <1>11

\* What Give(s) does, with the selected node as n: the pass sees one more step
\* there, and the same as before elsewhere.
LEMMA GiveIs ==
    ASSUME TypeOK, TablesAssumption, NEW s \in StepIds, Give(s), NEW n, n = Selected(s)
    PROVE  /\ n \in NodeIds /\ n \in Candidates(s)
           /\ row' \in [NodeIds -> [fresh : BOOLEAN, metrics : Metrics]]
           /\ \A k \in NodeIds : row'[k].fresh = row[k].fresh
           /\ \A k \in NodeIds \ {n} : row'[k].metrics = row[k].metrics
           /\ \A f \in Counts : row'[n].metrics[f] =
                IF f \in CountsOf(Kind[s]) THEN View(n)[f] + 1 ELSE row[n].metrics[f]
           /\ pass'.node = pass.node
           /\ pass'.mine = IF n = pass.node THEN Raised(pass.mine, Kind[s]) ELSE pass.mine
           /\ \A k \in NodeIds : View(k)' = IF k = n THEN Raised(View(n), Kind[s]) ELSE View(k)
<1> DEFINE m == Raised(View(n), Kind[s])
           old == row[n].metrics
           w == [f \in DOMAIN old |-> IF f \in CountsOf(Kind[s]) THEN m[f] ELSE old[f]]
<1>1. n \in Candidates(s) /\ n \in NodeIds
  BY SelectedIsFirst DEF Give, Candidates
<1>2. View(n) \in Metrics /\ old \in Metrics /\ Kind[s] \in Kinds
  BY <1>1, ViewType, KindOfStep
<1>3. /\ m \in Metrics
      /\ \A f \in CountsOf(Kind[s]) : m[f] = View(n)[f] + 1
      /\ \A f \in Fields \ CountsOf(Kind[s]) : m[f] = View(n)[f]
  BY <1>2, RaisedIs
<1>4. DOMAIN old = Fields /\ DOMAIN m = Fields /\ CountsOf(Kind[s]) \subseteq Counts /\ Counts \subseteq Fields
  BY <1>2, <1>3, FieldsOf, CountsOfKind DEF Counts, Fields
<1>5. w = [f \in Fields |-> IF f \in CountsOf(Kind[s]) THEN m[f] ELSE old[f]]
  BY <1>4
<1>6. w \in Metrics
  <2>1. w = [f \in Fields |-> w[f]] /\ \A f \in Fields : w[f] \in { m[f], old[f] }
    BY <1>5
  <2> HIDE DEF w, m, old
  <2> QED
    BY <1>2, <1>3, <2>1, MixOfMetrics
<1>7. row' = [row EXCEPT ![n].metrics = w]
  BY DEF Give
<1>8. /\ pass'.node = pass.node
      /\ pass'.mine = IF n = pass.node THEN m ELSE pass.mine
  BY DEF Give, TypeOK
<1>9. n # pass.node => w = m
  <2> SUFFICES ASSUME n # pass.node PROVE w = m
    OBVIOUS
  <2>1. View(n) = old
    BY DEF View
  <2>2. \A f \in Fields : w[f] = m[f]
    BY <1>3, <1>5, <2>1
  <2>3. m = [f \in Fields |-> m[f]] /\ w = [f \in Fields |-> w[f]]
    BY <1>4, <1>5, <1>3 DEF Raised
  <2> HIDE DEF w, m
  <2> QED
    BY <2>2, <2>3
<1>10. \A f \in Counts : w[f] = IF f \in CountsOf(Kind[s]) THEN View(n)[f] + 1 ELSE old[f]
  BY <1>3, <1>4, <1>5
<1> HIDE DEF w, m
<1>11. /\ row' \in [NodeIds -> [fresh : BOOLEAN, metrics : Metrics]]
       /\ \A k \in NodeIds : row'[k].fresh = row[k].fresh
       /\ row'[n].metrics = w
       /\ \A k \in NodeIds \ {n} : row'[k].metrics = row[k].metrics
  <2> DEFINE r == [row[n] EXCEPT !.metrics = w]
  <2>1. row \in [NodeIds -> [fresh : BOOLEAN, metrics : Metrics]]
    BY DEF TypeOK
  <2>2. r \in [fresh : BOOLEAN, metrics : Metrics] /\ r.metrics = w /\ r.fresh = row[n].fresh
    BY <1>1, <1>6, <2>1
  <2>3. row' = [row EXCEPT ![n] = r]
    BY <1>7
  <2> HIDE DEF r
  <2>4. row'[n] = r /\ \A k \in NodeIds \ {n} : row'[k] = row[k]
    BY <1>1, <2>1, <2>3
  <2>5. row' \in [NodeIds -> [fresh : BOOLEAN, metrics : Metrics]]
    BY <2>1, <2>2, <2>3
  <2> QED
    BY <2>2, <2>4, <2>5
<1>12. \A k \in NodeIds : View(k)' = IF k = n THEN m ELSE View(k)
  BY <1>8, <1>9, <1>11 DEF View
<1>13. n = pass.node => m = Raised(pass.mine, Kind[s])
  BY DEF m, View
<1> QED
  BY <1>1, <1>8, <1>10, <1>11, <1>12, <1>13 DEF m

\* One more step counts for one more wherever its kind counts.
LEMMA GivenOneMore ==
    ASSUME NEW n \in NodeIds, IsFiniteSet(since[n]), NEW s, s \notin since[n],
           since'[n] = since[n] \cup {s}, NEW f
    PROVE  /\ Given(n, f) \in Nat
           /\ Given(n, f)' = IF f \in CountsOf(Kind[s]) THEN Given(n, f) + 1 ELSE Given(n, f)
<1> DEFINE G == { u \in since[n] : f \in CountsOf(Kind[u]) }
           H == { u \in since'[n] : f \in CountsOf(Kind[u]) }
<1>1. IsFiniteSet(G) /\ s \notin G
  BY FS_Subset
<1>2. H = IF f \in CountsOf(Kind[s]) THEN G \cup {s} ELSE G
  OBVIOUS
<1>3. Given(n, f) = Cardinality(G) /\ Given(n, f)' = Cardinality(H)
  BY DEF Given
<1> HIDE DEF G, H
<1>4. Cardinality(G) \in Nat /\ Cardinality(G \cup {s}) = Cardinality(G) + 1
  BY <1>1, FS_CardinalityType, FS_AddElement
<1> QED
  BY <1>2, <1>3, <1>4

\* A pass gives a step to the cheapest node.
LEMMA GiveIInv ==
    ASSUME IInv, NEW s, AtStep(s), Give(s), UNCHANGED << beat, reported >>
    PROVE  IInv'
<1> USE DEF IInv
<1>0. PICK n : n = Selected(s)
  OBVIOUS
<1>1. /\ s \in pass.todo /\ s \in queued /\ s \in StepIds /\ s \notin pass.gave
      /\ Kind[s] \in Kinds
  BY KindOfStep, TablesAssumption DEF AtStep, TypeOK
<1>2. /\ n \in NodeIds /\ n \in Candidates(s)
      /\ row' \in [NodeIds -> [fresh : BOOLEAN, metrics : Metrics]]
      /\ \A k \in NodeIds : row'[k].fresh = row[k].fresh
      /\ \A k \in NodeIds \ {n} : row'[k].metrics = row[k].metrics
      /\ \A f \in Counts : row'[n].metrics[f] =
           IF f \in CountsOf(Kind[s]) THEN View(n)[f] + 1 ELSE row[n].metrics[f]
      /\ pass'.node = pass.node
      /\ pass'.mine = IF n = pass.node THEN Raised(pass.mine, Kind[s]) ELSE pass.mine
      /\ \A k \in NodeIds : View(k)' = IF k = n THEN Raised(View(n), Kind[s]) ELSE View(k)
  BY <1>0, <1>1, GiveIs, TablesAssumption
<1>3. /\ assigned' = [assigned EXCEPT ![s] = n] /\ queued' = queued \ {s}
      /\ since' = [since EXCEPT ![n] = @ \cup {s}]
      /\ pass'.todo = pass.todo \ {s} /\ pass'.gave = pass.gave \cup {s}
      /\ pass' = [pass EXCEPT !.mine = pass'.mine, !.todo = pass.todo \ {s}, !.gave = pass.gave \cup {s}]
      /\ beat' = beat /\ reported' = reported
  BY <1>0 DEF Give, AssignStep, TypeOK
<1>4. \A k \in NodeIds : View(k) \in Metrics /\ row[k].metrics \in Metrics /\ View(k)' \in Metrics
  <2>1. \A k \in NodeIds : View(k) \in Metrics /\ row[k].metrics \in Metrics
    BY ViewType
  <2>2. Raised(View(n), Kind[s]) \in Metrics
    BY <1>1, <1>2, <2>1, RaisedIs
  <2> QED
    BY <1>2, <2>1, <2>2
<1>5. n # NoNode /\ assigned'[s] = n /\ \A t \in StepIds \ {s} : assigned'[t] = assigned[t]
  BY <1>1, <1>2, <1>3, NodeIdsAssumption DEF TypeOK
<1>6. /\ since'[n] = since[n] \cup {s} /\ s \notin since[n] /\ IsFiniteSet(since[n])
      /\ \A k \in NodeIds \ {n} : since'[k] = since[k]
  BY <1>1, <1>2, <1>3 DEF TypeOK, StepsInv
<1>7. ~Unlocked /\ ~Unlocked' /\ pass.node \in NodeIds
  BY <1>1, <1>2, PassLocked DEF Unlocked, TypeOK
<1>8. TypeOK'
  <2>1. pass'.mine \in Metrics
    BY <1>1, <1>2, RaisedIs DEF TypeOK
  <2>2. pass' \in [ node : NodeIds \cup {NoNode}, mine : Metrics,
                    todo : SUBSET queued', gave : SUBSET (StepIds \ queued') ]
    BY <1>1, <1>3, <2>1 DEF TypeOK
  <2> QED
    BY <1>1, <1>2, <1>3, <2>2 DEF TypeOK
<1>9. StepsInv'
  <2>1. \A t \in queued' : assigned'[t] = NoNode
    BY <1>3, <1>5 DEF StepsInv, TypeOK
  <2>2. \A k \in NodeIds : IsFiniteSet(since'[k])
    BY <1>6, FS_AddElement DEF StepsInv
  <2>3. \A k \in NodeIds : \A t \in since'[k] : assigned'[t] # NoNode
    BY <1>1, <1>5, <1>6 DEF StepsInv, TypeOK
  <2>4. \A t \in pass'.gave : assigned'[t] # NoNode
    BY <1>3, <1>5 DEF StepsInv, TypeOK
  <2>5. \A t \in pass'.gave : \A u \in pass'.todo : t < u
    <3> SUFFICES ASSUME NEW t \in pass'.gave, NEW u \in pass'.todo PROVE t < u
      OBVIOUS
    <3>1. u \in pass.todo /\ u # s
      BY <1>3
    <3>2. CASE t = s
      <4>1. s \in Nat /\ u \in Nat
        BY <1>1, <3>1, StepIdsAssumption DEF TypeOK
      <4> QED
        BY <3>1, <3>2, <4>1 DEF AtStep
    <3>3. CASE t # s
      BY <1>3, <3>1, <3>3 DEF StepsInv
    <3> QED
      BY <3>2, <3>3
  <2> QED
    BY <2>1, <2>2, <2>3, <2>4, <2>5 DEF StepsInv
\* The counts of the node, as it will be seen, and what it was given.
<1>10. \A k \in NodeIds, f \in Counts :
         /\ reported[k][f] \in Nat /\ row[k].metrics[f] \in Nat /\ View(k)[f] \in Nat
         /\ Given(k, f)' = IF k = n /\ f \in CountsOf(Kind[s]) THEN Given(k, f) + 1 ELSE Given(k, f)
         /\ View(k)[f] >= reported[k][f] + Given(k, f)
  <2> TAKE k \in NodeIds, f \in Counts
  <2>1. reported[k][f] \in Nat /\ row[k].metrics[f] \in Nat /\ View(k)[f] \in Nat
    BY <1>4, FieldsOf DEF TypeOK
  <2>2. Given(k, f)' = IF k = n /\ f \in CountsOf(Kind[s]) THEN Given(k, f) + 1 ELSE Given(k, f)
    BY <1>2, <1>6, GivenOneMore, GivenStays
  <2>3. View(k)[f] >= reported[k][f] + Given(k, f)
    BY DEF View, PassInv, CountsCover, Counts
  <2> QED
    BY <2>1, <2>2, <2>3
<1>11. \A f \in Counts : Given(n, f) \in Nat
  BY <1>2, <1>6, GivenOneMore
<1>12. PassInv'
  <2> SUFFICES ASSUME NEW k \in NodeIds, k = pass.node, NEW f \in Counts
               PROVE  ~beat[k].waiting /\ pass'.mine[f] >= reported[k][f] + Given(k, f)'
    BY <1>2, <1>3, <1>7 DEF PassInv
  <2>1. ~beat[k].waiting
    BY DEF PassInv
  <2>2. pass.mine \in Metrics /\ pass.mine[f] \in Nat /\ pass.mine[f] = View(k)[f] /\ f \in Fields
    BY FieldsOf DEF TypeOK, View, Counts, Fields
  <2>3. CASE k = n
    <3>1. pass'.mine[f] = IF f \in CountsOf(Kind[s]) THEN pass.mine[f] + 1 ELSE pass.mine[f]
      BY <1>1, <1>2, <2>2, <2>3, RaisedIs
    <3>2. /\ pass.mine[f] >= reported[k][f] + Given(k, f) /\ pass.mine[f] \in Nat
          /\ reported[k][f] \in Nat /\ Given(k, f) \in Nat
          /\ Given(k, f)' = IF f \in CountsOf(Kind[s]) THEN Given(k, f) + 1 ELSE Given(k, f)
      BY <1>10, <1>11, <2>2, <2>3
    <3> QED
      BY <2>1, <3>1, <3>2
  <2>4. CASE k # n
    BY <1>2, <1>10, <2>1, <2>2, <2>4
  <2> QED
    BY <2>3, <2>4
<1>13. BeatInv'
  <2> SUFFICES ASSUME NEW k \in NodeIds, beat[k].waiting, NEW f \in Counts
               PROVE  row'[k].metrics[f] >= beat[k].loaded[f]
    BY <1>3 DEF BeatInv
  <2>1. row[k].metrics[f] >= beat[k].loaded[f] /\ beat[k].loaded[f] \in Nat /\ k # pass.node
    BY FieldsOf DEF BeatInv, PassInv, TypeOK
  <2>2. View(k) = row[k].metrics
    BY <2>1 DEF View
  <2>3. row[k].metrics[f] \in Nat
    BY <1>10
  <2> QED
    BY <1>2, <2>1, <2>2, <2>3
<1>14. CountsCover'
  <2> SUFFICES ASSUME NEW k \in NodeIds, NEW f \in Counts
               PROVE  row'[k].metrics[f] >= reported[k][f] + Given(k, f)'
    BY <1>3 DEF CountsCover, Counts
  <2>1. row[k].metrics[f] >= reported[k][f] + Given(k, f)
    BY DEF CountsCover, Counts
  <2>2. CASE k = n /\ f \in CountsOf(Kind[s])
    BY <1>2, <1>10, <1>11, <2>2
  <2>3. CASE ~(k = n /\ f \in CountsOf(Kind[s]))
    BY <1>2, <1>10, <2>1, <2>3
  <2> QED
    BY <2>2, <2>3
<1>15. LimitsHold'
  <2> SUFFICES ASSUME NEW k \in NodeIds, NEW kind \in { "whisper", "ffmpeg" }, Given(k, kind)' > 0
               PROVE  reported[k][kind] + Given(k, kind)' <= Limit(k, kind)
    BY <1>3 DEF LimitsHold, Limit
  <2>1. kind \in Counts /\ Limit(k, kind) \in Int
    BY TablesAssumption DEF Counts, Limit, TablesAssumption
  <2>2. CASE k = n /\ kind \in CountsOf(Kind[s])
    <3>1. Kind[s] = kind
      BY <2>2 DEF CountsOf
    <3>2. View(n)[kind] < Limit(n, kind)
      BY <1>2, <3>1 DEF Candidates, Eligible
    <3> QED
      BY <1>10, <1>11, <2>1, <2>2, <3>2
  <2>3. CASE ~(k = n /\ kind \in CountsOf(Kind[s]))
    <3>1. Given(k, kind)' = Given(k, kind)
      BY <1>10, <2>1, <2>3
    <3> QED
      BY <3>1 DEF LimitsHold
  <2> QED
    BY <2>2, <2>3
\* No node can take more than before, or has become cheaper.
<1>16. \A k \in NodeIds : Busier(View(k), View(k)')
  <2>1. Busier(View(n), Raised(View(n), Kind[s]))
    BY <1>1, <1>2, <1>4, RaisedIs
  <2>2. \A k \in NodeIds : Busier(View(k), View(k))
    BY <1>4, FieldsOf DEF Busier
  <2> QED
    BY <1>2, <2>1, <2>2
<1>17. \A t \in StepIds : Candidates(t)' \subseteq Candidates(t)
  <2> SUFFICES ASSUME NEW t \in StepIds, NEW k \in NodeIds, row'[k].fresh, Eligible(t, k, View(k)')
               PROVE  k \in Candidates(t)
    BY DEF Candidates
  <2>1. Eligible(t, k, View(k))
    BY <1>4, <1>16, BusierIsWorse, TablesAssumption
  <2> QED
    BY <1>2, <2>1 DEF Candidates
<1>18. \A t \in StepIds, k \in NodeIds :
         /\ Cost(Kind[t], k, View(k)) \in Int /\ Cost(Kind[t], k, View(k)') \in Int
         /\ Cost(Kind[t], k, View(k)) <= Cost(Kind[t], k, View(k)')
  <2> TAKE t \in StepIds, k \in NodeIds
  <2>1. Busier(View(k)', View(k)')
    BY <1>4, FieldsOf DEF Busier
  <2> QED
    BY <1>4, <1>16, <2>1, BusierIsWorse, TablesAssumption
<1>19. PassedOver'
  BY <1>3, <1>7, <1>17 DEF PassedOver, TypeOK
<1>20. NoCheaperNode'
  <2> SUFFICES ASSUME NEW t \in pass'.gave, LastOfItsCount(t)', NEW k \in Candidates(t)'
               PROVE  Cost(Kind[t], assigned[t], View(assigned[t]))' - 15 <= Cost(Kind[t], k, View(k)')
    BY DEF NoCheaperNode
  <2>1. t \in StepIds /\ k \in Candidates(t) /\ k \in NodeIds
    BY <1>1, <1>3, <1>17 DEF TypeOK, Candidates
  <2>2. CASE t = s
    <3>1. Cost(Kind[s], n, View(n)') = Cost(Kind[s], n, View(n)) + 15
      BY <1>1, <1>2, <1>4, RaisedCost, CountsOfKind, TablesAssumption
    <3>2. Cost(Kind[s], n, View(n)) <= Cost(Kind[s], k, View(k))
      BY <1>0, <1>1, <2>1, <2>2, SelectedIsFirst, TablesAssumption
    <3>3. Cost(Kind[t], assigned[t], View(assigned[t]))' = Cost(Kind[s], n, View(n)')
      BY <1>5, <2>2
    <3> QED
      BY <1>1, <1>2, <1>18, <2>1, <2>2, <3>1, <3>2, <3>3
  <2>3. CASE t # s
    <3>0. PICK m : m = assigned[t]
      OBVIOUS
    <3>1. t \in pass.gave /\ assigned'[t] = m /\ m \in NodeIds
      BY <1>3, <1>5, <2>1, <2>3, <3>0 DEF StepsInv, TypeOK
    <3>2. LastOfItsCount(t)
      BY <1>1, <1>3, <1>5, <3>0, <3>1 DEF LastOfItsCount, TypeOK
    <3>3. Cost(Kind[t], m, View(m)) - 15 <= Cost(Kind[t], k, View(k))
      BY <2>1, <3>0, <3>1, <3>2 DEF NoCheaperNode
    <3>4. m = n => SameType(Kind[t]) \notin CountsOf(Kind[s])
      <4>1. t < s /\ t \in Nat /\ s \in Nat
        BY <1>1, <2>1, <3>1, StepIdsAssumption DEF StepsInv
      <4> QED
        BY <1>3, <1>5, <3>1, <4>1 DEF LastOfItsCount
    <3>5. Cost(Kind[t], m, View(m)') = Cost(Kind[t], m, View(m))
      <4>1. CASE m = n
        <5>1. Cost(Kind[t], n, Raised(View(n), Kind[s])) = Cost(Kind[t], n, View(n)) + 0
          BY <1>1, <1>2, <1>4, <2>1, <3>4, <4>1, RaisedCost, TablesAssumption
        <5>2. Cost(Kind[t], n, View(n)) \in Int
          BY <1>2, <1>18, <2>1
        <5> QED
          BY <1>2, <4>1, <5>1, <5>2
      <4>2. CASE m # n
        <5> QED
          BY <1>2, <3>1, <4>2
      <4> QED
        BY <4>1, <4>2
    <3>6. Cost(Kind[t], assigned[t], View(assigned[t]))' = Cost(Kind[t], m, View(m)')
      BY <3>1
    <3> QED
      BY <1>18, <2>1, <3>1, <3>3, <3>5, <3>6
  <2> QED
    BY <2>2, <2>3
<1> QED
  BY <1>8, <1>9, <1>12, <1>13, <1>14, <1>15, <1>19, <1>20
-----------------------------------------------------------------------------
\* Every step keeps the invariant.
LEMMA NextIInv == IInv /\ [Next]_vars => IInv'
<1> SUFFICES ASSUME IInv, [Next]_vars PROVE IInv'
  OBVIOUS
<1>1. ASSUME NEW s \in StepIds, Submit(s) PROVE IInv'
  BY <1>1, SubmitIInv
<1>2. ASSUME NEW n \in NodeIds, Expire(n) PROVE IInv'
  BY <1>2, ExpireIInv
<1>3. ASSUME NEW n \in NodeIds, BeginPass(n) PROVE IInv'
  BY <1>3, BeginPassIInv
<1>4. ASSUME NEW n \in NodeIds, NEW body \in Bodies, Load(n, body) PROVE IInv'
  BY <1>4, LoadIInv
<1>5. CASE AssignBestNode
  BY <1>5, PassOverIInv, GiveIInv DEF AssignBestNode, AtStep
<1>6. CASE EndPass
  BY <1>6, EndPassIInv
<1>7. CASE UNCHANGED vars
  BY <1>7 DEF vars, IInv, TypeOK, StepsInv, PassInv, BeatInv, CountsCover, LimitsHold, PassedOver,
              NoCheaperNode, LastOfItsCount, Given, Unlocked, Candidates, View
<1> QED
  BY <1>1, <1>2, <1>3, <1>4, <1>5, <1>6, <1>7 DEF Next

\* The scheduler's invariant, in every reachable state, for any node table and
\* queue.
THEOREM SchedulerInvariant == Spec => []IInv
BY InitIInv, NextIInv, PTL DEF Spec

\* The rows stay well-formed, and a pass has to do only what is queued and
\* gave only what is not (assign_best_node and its flushes).
THEOREM TypeCorrect == Spec => []TypeOK
BY SchedulerInvariant, PTL DEF IInv

\* A row's counts cover the last report and what was given since, however many
\* heartbeats load their rows before they get the lock (heartbeat_node).
THEOREM CountsAlwaysCover == Spec => []CountsCover
BY SchedulerInvariant, PTL DEF IInv

\* Between two heartbeats of a node no sequence of passes, its own and those of
\* other nodes, gives it more whisper or ffmpeg steps than its limit leaves room
\* for over what it reported (is_node_eligible on counts raised by
\* assign_best_node).  Nothing is said across heartbeats: each replaces the
\* counts by what it reports, and the worker reports 0, so that the passes of
\* two heartbeats together do give a node more than its limit.
THEOREM LimitsHoldBetweenHeartbeats == Spec => []LimitsHold
BY SchedulerInvariant, PTL DEF IInv

\* A pass that ends leaves no step behind that a node could take
\* (schedule_queued_steps).
THEOREM NobodyLeftBehind == Spec => []NoStepLeftBehind
<1>1. IInv => NoStepLeftBehind
  BY DEF IInv, PassedOver, NoStepLeftBehind
<1> QED
  BY <1>1, SchedulerInvariant, PTL

\* Of the nodes that could still take it, none would have been cheaper for the
\* last step that a node got of a kind (select_node_for_step).
THEOREM SelectionIsCheapest == Spec => []NoCheaperNode
BY SchedulerInvariant, PTL DEF IInv
-----------------------------------------------------------------------------
(***************************************************************************)
(* Plain steps: the scheduler implements the giving of StepLedger.         *)
(***************************************************************************)
\* The nodes that take steps; a pass does not change which they are.
Open == { n \in NodeIds : row[n].fresh /\ n \in SameRoot /\ Healthy(View(n)) }

\* While a node is open a pass gives all it comes to, and else nothing.
AllOrNone == ~Unlocked => IF Open # {} THEN queued = pass.todo ELSE pass.gave = {}

\* A plain step goes to any open node.
LEMMA OpenTakesAll ==
    ASSUME Plain, NEW s \in StepIds
    PROVE  Candidates(s) = Open
<1>1. Kind[s] = "pipeline" /\ Avoid[s] = {} /\ Minutes[s] <= 20
  BY DEF Plain
<1>2. \A n \in NodeIds : Eligible(s, n, View(n)) <=> n \in SameRoot /\ Healthy(View(n))
  BY <1>1 DEF Eligible
<1> QED
  BY <1>2 DEF Candidates, Open

\* One more step leaves a node as healthy as it was.
LEMMA StaysOpen ==
    ASSUME IInv, NEW s, AtStep(s), Give(s)
    PROVE  Open' = Open
<1>1. s \in StepIds /\ Kind[s] \in Kinds
  BY KindOfStep, TablesAssumption DEF AtStep, IInv, TypeOK
<1>2. PICK n : n = Selected(s)
  OBVIOUS
<1>3. /\ n \in NodeIds
      /\ \A k \in NodeIds : row'[k].fresh = row[k].fresh
      /\ \A k \in NodeIds : View(k)' = IF k = n THEN Raised(View(n), Kind[s]) ELSE View(k)
  BY <1>1, <1>2, GiveIs, TablesAssumption DEF IInv
<1>4. View(n) \in Metrics
  BY <1>3, ViewType DEF IInv
<1>5. Busier(View(n), Raised(View(n), Kind[s]))
  BY <1>1, <1>4, RaisedIs
<1>6. PICK m : m = Raised(View(n), Kind[s])
  OBVIOUS
<1>7. m.cpu = View(n).cpu /\ m.memory = View(n).memory /\ m.disk = View(n).disk
      /\ m.thermal = View(n).thermal
  BY <1>5, <1>6 DEF Busier, Fields, Counts
<1>8. Healthy(m) <=> Healthy(View(n))
  BY <1>7 DEF Healthy
<1>9. \A k \in NodeIds : Healthy(View(k))' <=> Healthy(View(k))
  BY <1>3, <1>6, <1>8 DEF Healthy
<1> QED
  BY <1>3, <1>9 DEF Open

\* Every step of plain passes keeps AllOrNone.
LEMMA AllOrNoneStays ==
    ASSUME Plain, IInv, AllOrNone, [Next]_vars
    PROVE  AllOrNone'
<1>1. ASSUME NEW s \in StepIds, Submit(s) PROVE AllOrNone'
  BY <1>1 DEF Submit, AllOrNone, Unlocked
<1>2. ASSUME NEW n \in NodeIds, Expire(n) PROVE AllOrNone'
  BY <1>2 DEF Expire, AllOrNone, Unlocked
<1>3. ASSUME NEW n \in NodeIds, BeginPass(n) PROVE AllOrNone'
  BY <1>3 DEF BeginPass, AllOrNone
<1>4. ASSUME NEW n \in NodeIds, NEW body \in Bodies, Load(n, body) PROVE AllOrNone'
  BY <1>4 DEF Load, AllOrNone, Unlocked
<1>5. ASSUME NEW s, AtStep(s), PassOver(s) PROVE AllOrNone'
  <2>1. s \in StepIds /\ ~Unlocked
    BY <1>5, PassLocked DEF AtStep, IInv, TypeOK
  <2>2. Open = {} /\ pass.gave = {}
    BY <1>5, <2>1, OpenTakesAll DEF PassOver, AllOrNone
  <2>3. pass'.gave = pass.gave /\ pass'.node = pass.node /\ pass'.mine = pass.mine /\ row' = row
    BY <1>5 DEF PassOver, IInv, TypeOK
  <2>4. Open' = Open
    BY <2>3 DEF Open, View
  <2> QED
    BY <2>2, <2>3, <2>4 DEF AllOrNone
<1>6. ASSUME NEW s, AtStep(s), Give(s) PROVE AllOrNone'
  <2>1. s \in StepIds /\ ~Unlocked
    BY <1>6, PassLocked DEF AtStep, IInv, TypeOK
  <2>2. Open # {} /\ queued = pass.todo
    BY <1>6, <2>1, OpenTakesAll DEF Give, AllOrNone
  <2>3. queued' = queued \ {s} /\ pass'.todo = pass.todo \ {s}
    BY <1>6 DEF Give, AssignStep, IInv, TypeOK
  <2>4. Open' = Open
    BY <1>6, StaysOpen
  <2> QED
    BY <2>2, <2>3, <2>4 DEF AllOrNone
<1>7. CASE AssignBestNode
  BY <1>5, <1>6, <1>7 DEF AssignBestNode, AtStep
<1>8. CASE EndPass
  BY <1>8 DEF EndPass, AllOrNone, Unlocked, NoPass
<1>9. CASE UNCHANGED vars
  BY <1>9 DEF vars, AllOrNone, Unlocked, Open, View
<1> QED
  BY <1>1, <1>2, <1>3, <1>4, <1>7, <1>8, <1>9 DEF Next

\* The entry of one step.
EntryOf(s) ==
    [ state  |-> IF s \in queued \cup pass.gave THEN "waiting"
                 ELSE IF assigned[s] = NoNode THEN "none" ELSE "given",
      holder |-> Holder(s),
      epoch  |-> IF Holder(s) = NoNode THEN 0 ELSE 1,
      leased |-> FALSE ]

Entry ==
    [ state : Ledger!State, holder : NodeIds \cup {NoNode}, epoch : Nat, leased : BOOLEAN ]

\* An entry when its step is submitted, and when it is given.
Submitted(e)    == [e EXCEPT !.state = "waiting"]
GivenTo(e, n)   == [e EXCEPT !.state = "given", !.holder = n, !.epoch = @ + 1]

LEMMA SubmittedIs ==
    ASSUME NEW e \in Entry
    PROVE  /\ Submitted(e) \in Entry /\ Submitted(e).state = "waiting"
           /\ Submitted(e).holder = e.holder /\ Submitted(e).epoch = e.epoch
           /\ Submitted(e).leased = e.leased
BY DEF Entry, Submitted, Ledger!State

LEMMA GivenToIs ==
    ASSUME NEW e \in Entry, NEW n \in NodeIds
    PROVE  /\ GivenTo(e, n) \in Entry /\ GivenTo(e, n).state = "given"
           /\ GivenTo(e, n).holder = n /\ GivenTo(e, n).epoch = e.epoch + 1
           /\ GivenTo(e, n).leased = e.leased
<1> DEFINE k == e.epoch + 1
           g == [e EXCEPT !.state = "given", !.holder = n, !.epoch = k]
<1>1. k \in Nat
  BY DEF Entry
<1>2. GivenTo(e, n) = g
  BY DEF GivenTo
<1> HIDE DEF k
<1>3. g \in Entry
  BY <1>1 DEF Entry, Ledger!State
<1>4. g.state = "given" /\ g.holder = n /\ g.epoch = k /\ g.leased = e.leased
  BY DEF Entry
<1> HIDE DEF g
<1> QED
  BY <1>2, <1>3, <1>4 DEF k

\* Entries are equal if their fields are.
LEMMA EntryEqual ==
    ASSUME NEW e \in Entry, NEW f \in Entry, e.state = f.state, e.holder = f.holder,
           e.epoch = f.epoch, e.leased = f.leased
    PROVE  e = f
BY DEF Entry

\* A step's entry is one.
LEMMA EntryOfStep ==
    ASSUME TypeOK, NEW s \in StepIds
    PROVE  EntryOf(s) \in Entry
<1>1. Holder(s) \in NodeIds \cup {NoNode}
  BY DEF TypeOK, Holder
<1> QED
  BY <1>1 DEF EntryOf, Entry, Ledger!State

\* Steps that are as queued and as held as before are the same entries.
LEMMA SameView ==
    ASSUME \A s \in StepIds : /\ s \in queued' \cup pass'.gave <=> s \in queued \cup pass.gave
                              /\ Holder(s)' = Holder(s)
                              /\ s \notin queued \cup pass.gave => assigned'[s] = assigned[s]
    PROVE  LedgerView' = LedgerView
<1>1. \A s \in StepIds : EntryOf(s)' = EntryOf(s)
  BY DEF EntryOf
<1> QED
  BY <1>1 DEF LedgerView, EntryOf

\* create_job is StepLedger's Submit.
LEMMA SubmitsEntry ==
    ASSUME IInv, NEW s \in StepIds, Submit(s)
    PROVE  Ledger!Submit(s)
<1>1. pass = NoPass /\ pass' = NoPass
  BY UnlockedPass DEF Submit, IInv
<1>2. s \notin queued /\ assigned[s] = NoNode /\ queued' = queued \cup {s} /\ assigned' = assigned
  BY DEF Submit
<1>3. \A u \in StepIds : Holder(u)' = Holder(u)
  BY <1>1, <1>2 DEF Holder
<1>4. EntryOf(s).state = "none" /\ EntryOf(s)' = Submitted(EntryOf(s))
  <2>1. TypeOK /\ TypeOK'
    BY SubmitIInv DEF IInv
  <2>2. EntryOf(s) \in Entry /\ EntryOf(s)' \in Entry
    <3>1. Holder(s)' \in NodeIds \cup {NoNode}
      BY <2>1 DEF TypeOK, Holder
    <3>2. EntryOf(s)' \in Entry
      BY <3>1 DEF EntryOf, Entry, Ledger!State
    <3> QED
      BY <2>1, <3>2, EntryOfStep
  <2>3. /\ EntryOf(s).state = "none" /\ EntryOf(s)'.state = "waiting"
        /\ EntryOf(s)'.holder = EntryOf(s).holder /\ EntryOf(s)'.epoch = EntryOf(s).epoch
        /\ EntryOf(s)'.leased = EntryOf(s).leased
    BY <1>1, <1>2, <1>3 DEF EntryOf, NoPass
  <2> HIDE DEF EntryOf
  <2> QED
    BY <2>2, <2>3, SubmittedIs, EntryEqual
<1>5. \A u \in StepIds \ {s} : EntryOf(u)' = EntryOf(u)
  BY <1>1, <1>2, <1>3 DEF EntryOf, NoPass
<1>6. LedgerView = [u \in StepIds |-> EntryOf(u)] /\ LedgerView' = [u \in StepIds |-> EntryOf(u)']
  BY DEF LedgerView, EntryOf
<1> HIDE DEF EntryOf
<1>7. LedgerView' = [LedgerView EXCEPT ![s].state = "waiting"]
  BY <1>4, <1>5, <1>6 DEF Submitted
<1> QED
  BY <1>4, <1>6, <1>7 DEF Ledger!Submit

\* The commit of a pass is StepLedger's GiveWaiting, or nothing at all.
LEMMA CommitGives ==
    ASSUME IInv, AllOrNone, EndPass
    PROVE  Ledger!GiveWaiting \/ LedgerView' = LedgerView
<1>1. /\ ~Unlocked /\ pass.todo = {} /\ pass'.gave = {}
      /\ queued' = queued /\ assigned' = assigned
  BY DEF EndPass, NoPass
<1>2. CASE pass.gave = {}
  <2>1. \A s \in StepIds : Holder(s)' = Holder(s)
    BY <1>1, <1>2 DEF Holder
  <2> QED
    BY <1>1, <1>2, <2>1, SameView
<1>3. CASE pass.gave # {}
  <2>1. queued = {}
    BY <1>1, <1>3 DEF AllOrNone
  <2>2. pass.gave \subseteq StepIds /\ \A s \in pass.gave : assigned[s] \in NodeIds
    BY DEF IInv, TypeOK, StepsInv
  <2>3. PICK n \in NodeIds : TRUE
    BY <1>3, <2>2
  <2> DEFINE target == [s \in StepIds |-> IF s \in pass.gave THEN assigned[s] ELSE n]
  <2>4. target \in [StepIds -> NodeIds]
    BY <2>2
  <2>5. ASSUME NEW s \in StepIds
        PROVE  EntryOf(s)' = IF EntryOf(s).state = "waiting"
                             THEN GivenTo(EntryOf(s), target[s]) ELSE EntryOf(s)
    <3>1. CASE s \in pass.gave
      <4>1. assigned[s] # NoNode /\ target[s] = assigned[s]
        BY <2>2, <3>1, NodeIdsAssumption
      <4>2. EntryOf(s).state = "waiting" /\ EntryOf(s).epoch = 0 /\ EntryOf(s).leased = FALSE
        BY <3>1 DEF EntryOf, Holder
      <4>3. /\ EntryOf(s)'.state = "given" /\ EntryOf(s)'.holder = assigned[s]
            /\ EntryOf(s)'.epoch = 1 /\ EntryOf(s)'.leased = FALSE
        BY <1>1, <2>1, <4>1 DEF EntryOf, Holder
      <4>4. TypeOK /\ TypeOK'
        BY EndPassIInv DEF IInv
      <4>5. EntryOf(s) \in Entry /\ EntryOf(s)' \in Entry
        <5>1. Holder(s)' \in NodeIds \cup {NoNode}
          BY <4>4 DEF TypeOK, Holder
        <5>2. EntryOf(s)' \in Entry
          BY <5>1 DEF EntryOf, Entry, Ledger!State
        <5> QED
          BY <4>4, <5>2, EntryOfStep
      <4> HIDE DEF EntryOf, target
      <4>6. EntryOf(s)' = GivenTo(EntryOf(s), target[s])
        <5>1. target[s] \in NodeIds
          BY <2>2, <3>1, <4>1
        <5>2. /\ GivenTo(EntryOf(s), target[s]) \in Entry
              /\ GivenTo(EntryOf(s), target[s]).state = "given"
              /\ GivenTo(EntryOf(s), target[s]).holder = assigned[s]
              /\ GivenTo(EntryOf(s), target[s]).epoch = 1
              /\ GivenTo(EntryOf(s), target[s]).leased = FALSE
          BY <4>1, <4>2, <4>5, <5>1, GivenToIs
        <5> QED
          BY <4>3, <4>5, <5>2, EntryEqual
      <4> QED
        BY <4>2, <4>6
    <3>2. CASE s \notin pass.gave
      <4>1. Holder(s)' = Holder(s)
        BY <1>1, <3>2 DEF Holder
      <4> QED
        BY <1>1, <2>1, <3>2, <4>1 DEF EntryOf
    <3> QED
      BY <3>1, <3>2
  <2>6. LedgerView = [u \in StepIds |-> EntryOf(u)] /\ LedgerView' = [u \in StepIds |-> EntryOf(u)']
    BY DEF LedgerView, EntryOf
  <2> HIDE DEF EntryOf, target
  <2>7. LedgerView' = [s \in StepIds |->
                         IF LedgerView[s].state = "waiting"
                         THEN [LedgerView[s] EXCEPT !.state = "given", !.holder = target[s],
                                                    !.epoch = @ + 1]
                         ELSE LedgerView[s]]
    BY <2>5, <2>6 DEF GivenTo
  <2> QED
    BY <2>4, <2>7 DEF Ledger!GiveWaiting
<1> QED
  BY <1>2, <1>3

\* Until the commit nobody else sees what a pass gives.
LEMMA PassUnseen ==
    ASSUME IInv, NEW s, AtStep(s), PassOver(s) \/ Give(s)
    PROVE  LedgerView' = LedgerView
<1>1. s \in queued /\ s \in StepIds /\ s \notin pass.gave /\ assigned[s] = NoNode
  BY DEF AtStep, IInv, TypeOK, StepsInv
<1>2. CASE PassOver(s)
  <2>1. pass'.gave = pass.gave /\ queued' = queued /\ assigned' = assigned
    BY <1>2 DEF PassOver, IInv, TypeOK
  <2>2. \A u \in StepIds : Holder(u)' = Holder(u)
    BY <2>1 DEF Holder
  <2> QED
    BY <2>1, <2>2, SameView
<1>3. CASE Give(s)
  <2>1. /\ pass'.gave = pass.gave \cup {s} /\ queued' = queued \ {s}
        /\ \A u \in StepIds \ {s} : assigned'[u] = assigned[u]
    BY <1>1, <1>3 DEF Give, AssignStep, IInv, TypeOK
  <2>2. \A u \in StepIds : Holder(u)' = Holder(u)
    BY <1>1, <2>1 DEF Holder
  <2> QED
    BY <1>1, <2>1, <2>2, SameView
<1> QED
  BY <1>2, <1>3

\* Nothing is given before anything is submitted.
LEMMA EntriesInit ==
    Init => Ledger!Init /\ AllOrNone
<1> SUFFICES ASSUME Init PROVE Ledger!Init /\ AllOrNone
  OBVIOUS
<1>1. \A s \in StepIds : EntryOf(s) = Ledger!Nothing
  BY DEF Init, EntryOf, Holder, NoPass, Ledger!Nothing
<1>2. LedgerView = [s \in StepIds |-> Ledger!Nothing]
  BY <1>1 DEF LedgerView, EntryOf
<1>3. AllOrNone
  BY DEF Init, AllOrNone, Unlocked, NoPass
<1> QED
  BY <1>2, <1>3 DEF Ledger!Init

\* Every step of the scheduler is a step of StepLedger, or none.
LEMMA EntriesNext ==
    ASSUME Plain, IInv, AllOrNone, [Next]_vars
    PROVE  Ledger!Next \/ LedgerView' = LedgerView
<1>1. ASSUME NEW s \in StepIds, Submit(s) PROVE Ledger!Next
  BY <1>1, SubmitsEntry DEF Ledger!Next
<1>2. CASE EndPass
  BY <1>2, CommitGives DEF Ledger!Next
<1>3. CASE AssignBestNode
  BY <1>3, PassUnseen DEF AssignBestNode, AtStep
<1>4. ASSUME NEW n \in NodeIds, BeginPass(n) PROVE LedgerView' = LedgerView
  <2>1. pass.gave = {} /\ pass'.gave = {} /\ queued' = queued /\ assigned' = assigned
    BY <1>4, UnlockedPass DEF BeginPass, IInv, NoPass
  <2>2. \A u \in StepIds : Holder(u)' = Holder(u)
    BY <2>1 DEF Holder
  <2> QED
    BY <2>1, <2>2, SameView
<1>5. ASSUME UNCHANGED << pass, queued, assigned >> PROVE LedgerView' = LedgerView
  BY <1>5, SameView DEF Holder
<1>6. ASSUME NEW n \in NodeIds, Expire(n) PROVE LedgerView' = LedgerView
  BY <1>5, <1>6 DEF Expire
<1>7. ASSUME NEW n \in NodeIds, NEW body \in Bodies, Load(n, body) PROVE LedgerView' = LedgerView
  BY <1>5, <1>7 DEF Load
<1>8. CASE UNCHANGED vars
  BY <1>5, <1>8 DEF vars
<1> QED
  BY <1>1, <1>2, <1>3, <1>4, <1>6, <1>7, <1>8 DEF Next

\* With the steps that create_job makes, the detailed scheduling implements what
\* Controller.tla abstracts it to: a pass gives every waiting step to some node or
\* gives none, and nothing but a commit changes what the others see of a step.
THEOREM PlainStepsKeepLedger == ASSUME Plain PROVE Spec => LedgerSpec
<1>1. Init => Ledger!Init /\ AllOrNone
  BY EntriesInit
<1>2. IInv /\ AllOrNone /\ [Next]_vars => AllOrNone'
  BY AllOrNoneStays
<1>3. IInv /\ AllOrNone /\ [Next]_vars => [Ledger!Next]_LedgerView
  BY EntriesNext
<1> QED
  BY <1>1, <1>2, <1>3, SchedulerInvariant, PTL DEF Spec, LedgerSpec, Ledger!Spec
=============================================================================
