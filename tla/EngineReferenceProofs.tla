----------------------- MODULE EngineReferenceProofs -----------------------
(***************************************************************************)
(* The event-driven engine agrees with fixed-priority execution simulated  *)
(* tick by tick, for every valid configuration: it skips ticks in which    *)
(* nothing is pending, and the reference does nothing in them; and what    *)
(* its loops do inside a tick adds up to the one step of the reference.    *)
(***************************************************************************)
EXTENDS EngineHistoryProofs

-----------------------------------------------------------------------------
(* The reference, one tick at a time. *)

\* State of the reference after tick n, where no tick precedes tick 0.
RefAt(c, n) == IF n < 0 THEN Before ELSE ReferenceAt(c, n)

\* state is the run of the reference through tick n.
Runs(c, n, state) ==
    state = [k \in 0 .. n |-> TickAfter(c, IF k = 0 THEN Before ELSE state[k - 1], k)]

\* The reference is defined by a run.
LEMMA ReferenceMeans ==
    ASSUME NEW c, NEW n
    PROVE  ReferenceAt(c, n) = (CHOOSE state : Runs(c, n, state))[n]
    BY DEF ReferenceAt, Runs

\* Runs agree on the ticks they share.
LEMMA ReferenceUnique ==
    ASSUME NEW c, NEW n \in Nat, NEW m \in Nat, NEW f, NEW g, Runs(c, n, f), Runs(c, m, g)
    PROVE  \A k \in (0 .. n) \cap (0 .. m) : f[k] = g[k]
    <1>. DEFINE differ == {k \in (0 .. n) \cap (0 .. m) : f[k] # g[k]}
    <1>1. SUFFICES ASSUME differ # {} PROVE FALSE
        OBVIOUS
    <1>2. PICK k \in differ : \A l \in differ : k <= l
        <2>1. differ \in SUBSET Nat
            OBVIOUS
        <2>. HIDE DEF differ
        <2>. QED  BY <1>1, <2>1, LeastNumber
    <1>3. k \in 0 .. n /\ k \in 0 .. m /\ f[k] # g[k]
        OBVIOUS
    <1>4. k # 0 => f[k - 1] = g[k - 1]
        <2>1. SUFFICES ASSUME k # 0, f[k - 1] # g[k - 1] PROVE FALSE
            OBVIOUS
        <2>2. k - 1 \in differ /\ ~ (k <= k - 1)
            BY <1>3, <2>1
        <2>. QED  BY <1>2, <2>2
    <1>5. /\ f[k] = TickAfter(c, IF k = 0 THEN Before ELSE f[k - 1], k)
          /\ g[k] = TickAfter(c, IF k = 0 THEN Before ELSE g[k - 1], k)
        BY <1>3 DEF Runs
    <1>. QED  BY <1>3, <1>4, <1>5

\* There is a run through every tick.
LEMMA ReferenceExists ==
    ASSUME NEW c, NEW n \in Nat
    PROVE  \E state : Runs(c, n, state)
    <1>. DEFINE bad == {k \in Nat : ~ \E state : Runs(c, k, state)}
    <1>1. SUFFICES ASSUME bad # {} PROVE FALSE
        OBVIOUS
    <1>2. PICK m \in bad : \A l \in bad : m <= l
        BY <1>1, LeastNumber
    <1>3. CASE m = 0
        <2>. DEFINE f == [k \in 0 .. 0 |-> TickAfter(c, Before, k)]
        <2>1. Runs(c, 0, f)
            BY DEF Runs
        <2>. QED  BY <1>2, <1>3, <2>1
    <1>4. CASE m # 0
        <2>1. m - 1 \in Nat /\ m \in Nat
            BY <1>4
        <2>2. m - 1 \notin bad
            BY <1>2, <2>1
        <2>3. PICK h : Runs(c, m - 1, h)
            BY <2>1, <2>2
        <2>. DEFINE f == [k \in 0 .. m |-> IF k = m THEN TickAfter(c, h[m - 1], m) ELSE h[k]]
        <2>4. \A k \in 0 .. m : f[k] = TickAfter(c, IF k = 0 THEN Before ELSE f[k - 1], k)
            <3>1. SUFFICES ASSUME NEW k \in 0 .. m
                           PROVE  f[k] = TickAfter(c, IF k = 0 THEN Before ELSE f[k - 1], k)
                OBVIOUS
            <3>2. k # 0 => k - 1 \in 0 .. m /\ f[k - 1] = h[k - 1]
                BY <2>1
            <3>3. CASE k = m
                BY <1>4, <2>1, <3>2, <3>3
            <3>4. CASE k # m
                <4>1. k \in 0 .. m - 1
                    BY <2>1, <3>4
                <4>2. h[k] = TickAfter(c, IF k = 0 THEN Before ELSE h[k - 1], k)
                    BY <2>3, <4>1 DEF Runs
                <4>. QED  BY <3>2, <3>4, <4>2
            <3>. QED  BY <3>3, <3>4
        <2>5. f = [k \in 0 .. m |-> f[k]]
            OBVIOUS
        <2>. HIDE DEF f
        <2>6. Runs(c, m, f)
            BY <2>4, <2>5 DEF Runs
        <2>. QED  BY <1>2, <2>6
    <1>. QED  BY <1>3, <1>4

\* Each tick of the reference follows from the one before.
LEMMA ReferenceStep ==
    ASSUME NEW c, NEW n \in Nat
    PROVE  RefAt(c, n) = TickAfter(c, RefAt(c, n - 1), n)
    <1>. DEFINE f == CHOOSE state : Runs(c, n, state)
                g == CHOOSE state : Runs(c, n - 1, state)
    <1>1. Runs(c, n, f)
        BY ReferenceExists
    <1>2. RefAt(c, n) = f[n]
        BY ReferenceMeans DEF RefAt
    <1>3. f[n] = TickAfter(c, IF n = 0 THEN Before ELSE f[n - 1], n)
        <2>. HIDE DEF f
        <2>1. n \in 0 .. n
            OBVIOUS
        <2>. QED  BY <1>1, <2>1 DEF Runs
    <1>4. CASE n = 0
        BY <1>2, <1>3, <1>4 DEF RefAt
    <1>5. CASE n # 0
        <2>1. n - 1 \in Nat
            BY <1>5
        <2>2. Runs(c, n - 1, g)
            BY <2>1, ReferenceExists
        <2>3. RefAt(c, n - 1) = g[n - 1]
            BY <2>1, ReferenceMeans DEF RefAt
        <2>. HIDE DEF f, g
        <2>4. n - 1 \in (0 .. n) \cap (0 .. n - 1)
            BY <2>1
        <2>5. f[n - 1] = g[n - 1]
            BY <1>1, <2>1, <2>2, <2>4, ReferenceUnique
        <2>. QED  BY <1>2, <1>3, <1>5, <2>3, <2>5
    <1>. QED  BY <1>4, <1>5

\* What a tick that follows state s accounts, finds and decides.
Worked(s) == {s.owner[r] : r \in ResourceIds} \ {Nobody}
LeftOver(s) == [t \in TaskIds |-> IF t \in Worked(s) THEN s.left[t] - 1 ELSE s.left[t]]
Finishing(s) == {t \in Worked(s) : LeftOver(s)[t] = 0}
Late(c, s, n) == {t \in TaskIds : /\ LeftOver(s)[t] > 0
                                  /\ LatestRelease(c, s.count, t) + c.task[t].deadline = n}
Fresh(c, n) == {t \in TaskIds : ReleasesAt(c, t, n)}
CountAt(c, s, n) == [t \in TaskIds |-> IF t \in Fresh(c, n) THEN s.count[t] + 1 ELSE s.count[t]]
NeedAt(c, s, n) == [t \in TaskIds |-> IF t \in Fresh(c, n) THEN Demand(c, t) ELSE LeftOver(s)[t]]
Incumbent(s, r) == IF s.owner[r] \in Finishing(s) THEN Nobody ELSE s.owner[r]
OwnerAt(c, s, n, r) == OwnerAfter(c, CountAt(c, s, n), NeedAt(c, s, n), r, Incumbent(s, r))

\* The reference steps from tick n - 1 to tick n in these parts.
LEMMA TickFields ==
    ASSUME NEW c, NEW n \in Nat
    PROVE  LET s == RefAt(c, n - 1)
               u == RefAt(c, n)
           IN  /\ u.count = CountAt(c, s, n) /\ u.left = NeedAt(c, s, n)
               /\ u.owner = [r \in ResourceIds |-> OwnerAt(c, s, n, r)]
               /\ u.done = s.done \cup {<<t, s.count[t], n>> : t \in Finishing(s)}
               /\ u.missed = s.missed \cup {<<t, s.count[t]>> : t \in Late(c, s, n)}
               /\ u.overlap = (s.overlap \/ \E t \in Fresh(c, n) : LeftOver(s)[t] > 0)
    <1>. DEFINE s == RefAt(c, n - 1)
    <1>1. RefAt(c, n) = TickAfter(c, s, n)
        BY ReferenceStep
    <1>. HIDE DEF s
    <1>2. LET u == TickAfter(c, s, n)
          IN  /\ u.count = CountAt(c, s, n) /\ u.left = NeedAt(c, s, n)
              /\ u.owner = [r \in ResourceIds |-> OwnerAt(c, s, n, r)]
              /\ u.done = s.done \cup {<<t, s.count[t], n>> : t \in Finishing(s)}
              /\ u.missed = s.missed \cup {<<t, s.count[t]>> : t \in Late(c, s, n)}
              /\ u.overlap = (s.overlap \/ \E t \in Fresh(c, n) : LeftOver(s)[t] > 0)
        BY DEF TickAfter, CountAt, NeedAt, OwnerAt, Finishing, Late, Fresh, LeftOver, Worked, Incumbent
    <1>. QED  BY <1>1, <1>2 DEF s

-----------------------------------------------------------------------------
(* How many releases a tick has seen. *)

\* Multiples of a period.
LEMMA Multiples ==
    ASSUME NEW p \in Nat, NEW k \in Int
    PROVE  /\ k * p \in Int /\ (k + 1) * p = k * p + p /\ (k - 1) * p = k * p - p
           /\ k >= 0 => k * p >= 0
    OBVIOUS

\* Multiples of a period lie a period apart.
LEMMA MultiplesApart ==
    ASSUME NEW p \in Nat, NEW k \in Int, NEW m \in Int, k < m
    PROVE  k * p + p <= m * p
    OBVIOUS

\* The times of a task are natural numbers, its period is not zero.
LEMMA TaskTimes ==
    ASSUME NEW c, ValidConfig(c), NEW t \in TaskIds
    PROVE  /\ c.task[t].period \in Nat /\ c.task[t].period > 0
           /\ c.task[t].offset \in Nat /\ c.task[t].deadline \in Nat /\ c.task[t].deadline > 0
           /\ c.task[t].priority \in Nat /\ t \in Nat
    <1>1. c \in Config /\ ValidTaskSpec(c.task[t]) /\ Tick \subseteq Nat
        BY ConfigAssumption DEF ValidConfig, Tick
    <1>2. c.task \in [TaskIds -> TaskSpec]
        BY <1>1 DEF Config
    <1>3. c.task[t] \in TaskSpec
        BY <1>2
    <1>. QED  BY <1>1, <1>3, ConfigAssumption DEF TaskSpec, ValidTaskSpec

\* t has k releases up to tick n.
Planned(c, t, k, n) ==
    LET spec == c.task[t]
    IN  /\ k \in Nat
        /\ k > 0 => spec.offset + (k - 1) * spec.period <= n
        /\ n < spec.offset + k * spec.period

\* The number is unique.
LEMMA PlannedOnce ==
    ASSUME NEW c, ValidConfig(c), NEW t \in TaskIds, NEW n \in Int, NEW k, NEW m,
           Planned(c, t, k, n), Planned(c, t, m, n)
    PROVE  k = m
    <1>. DEFINE p == c.task[t].period
                o == c.task[t].offset
    <1>1. p \in Nat /\ o \in Nat
        BY TaskTimes
    <1>2. /\ k \in Nat /\ m \in Nat /\ n < o + k * p /\ n < o + m * p
          /\ k > 0 => o + (k - 1) * p <= n
          /\ m > 0 => o + (m - 1) * p <= n
        BY DEF Planned
    <1>. HIDE DEF p, o
    <1>3. k * p \in Int /\ m * p \in Int /\ (k - 1) * p = k * p - p /\ (m - 1) * p = m * p - p
        BY <1>1, <1>2, Multiples
    <1>4. ASSUME k < m PROVE FALSE
        BY <1>1, <1>2, <1>3, <1>4, MultiplesApart
    <1>5. ASSUME m < k PROVE FALSE
        BY <1>1, <1>2, <1>3, <1>5, MultiplesApart
    <1>. QED  BY <1>2, <1>4, <1>5

\* The number grows by one exactly in the ticks of the releases.
LEMMA PlannedNext ==
    ASSUME NEW c, ValidConfig(c), NEW t \in TaskIds, NEW n \in Nat, NEW k,
           Planned(c, t, k, n - 1)
    PROVE  IF ReleasesAt(c, t, n) THEN Planned(c, t, k + 1, n) /\ n = c.task[t].offset + k * c.task[t].period
                                  ELSE Planned(c, t, k, n)
    <1>. DEFINE p == c.task[t].period
                o == c.task[t].offset
    <1>1. p \in Nat /\ p > 0 /\ o \in Nat
        BY TaskTimes
    <1>2. k \in Nat /\ n - 1 < o + k * p /\ (k > 0 => o + (k - 1) * p <= n - 1)
        BY DEF Planned
    <1>3. ReleasesAt(c, t, n) <=> n >= o /\ (n - o) % p = 0
        BY DEF ReleasesAt
    <1>4. Planned(c, t, k, n) <=> (k > 0 => o + (k - 1) * p <= n) /\ n < o + k * p
        BY <1>2 DEF Planned
    <1>5. Planned(c, t, k + 1, n) <=> o + k * p <= n /\ n < o + (k + 1) * p
        BY <1>2 DEF Planned
    <1>. HIDE DEF p, o
    <1>6. /\ k * p \in Int /\ (k - 1) * p = k * p - p /\ (k + 1) * p = k * p + p /\ k * p >= 0
        BY <1>1, <1>2, Multiples
    <1>7. CASE n = o + k * p
        <2>1. n >= o /\ (n - o) = k * p
            BY <1>1, <1>6, <1>7
        <2>2. (k * p) % p = 0
            BY <1>1, <1>2
        <2>3. ReleasesAt(c, t, n)
            BY <1>3, <2>1, <2>2
        <2>4. Planned(c, t, k + 1, n)
            BY <1>1, <1>5, <1>6, <1>7
        <2>. QED  BY <1>7, <2>3, <2>4 DEF p, o
    <1>8. CASE n # o + k * p
        <2>1. n < o + k * p
            BY <1>1, <1>2, <1>6, <1>8
        <2>2. ASSUME ReleasesAt(c, t, n) PROVE FALSE
            <3>1. n - o \in Nat /\ (n - o) % p = 0
                BY <1>1, <1>3, <2>2
            <3>2. PICK m \in Nat : n - o = m * p
                BY <1>1, <3>1
            <3>3. m * p \in Int /\ n = o + m * p
                BY <1>1, <3>2
            <3>4. CASE k <= m
                <4>1. k * p <= m * p
                    BY <1>1, <1>2, <1>6, <3>3, <3>4, MultiplesApart
                <4>. QED  BY <1>1, <1>6, <2>1, <3>3, <4>1
            <3>5. CASE m < k
                <4>1. m * p + p <= k * p
                    BY <1>1, <1>2, <3>5, MultiplesApart
                <4>. QED  BY <1>1, <1>2, <1>6, <3>3, <3>5, <4>1
            <3>. QED  BY <1>2, <3>4, <3>5
        <2>3. Planned(c, t, k, n)
            BY <1>1, <1>2, <1>4, <1>6, <2>1
        <2>. QED  BY <2>2, <2>3
    <1>. QED  BY <1>7, <1>8

\* The reference counts the releases.
LEMMA ReferenceCounts ==
    ASSUME NEW c, ValidConfig(c), NEW n \in Nat \cup {-1}, NEW t \in TaskIds
    PROVE  Planned(c, t, RefAt(c, n).count[t], n)
    <1>. DEFINE bad == {k \in Nat : ~ Planned(c, t, RefAt(c, k).count[t], k)}
    <1>1. Planned(c, t, RefAt(c, -1).count[t], -1)
        <2>1. RefAt(c, -1).count[t] = 0
            BY DEF RefAt, Before
        <2>2. c.task[t].offset \in Nat /\ c.task[t].period \in Nat /\ 0 * c.task[t].period = 0
            BY TaskTimes
        <2>. QED  BY <2>1, <2>2 DEF Planned
    <1>2. bad = {}
        <2>1. SUFFICES ASSUME bad # {} PROVE FALSE
            OBVIOUS
        <2>2. PICK m \in bad : \A l \in bad : m <= l
            <3>1. bad \in SUBSET Nat
                OBVIOUS
            <3>. HIDE DEF bad
            <3>. QED  BY <2>1, <3>1, LeastNumber
        <2>3. m \in Nat /\ ~ Planned(c, t, RefAt(c, m).count[t], m) /\ m - 1 \notin bad
            BY <2>2
        <2>4. Planned(c, t, RefAt(c, m - 1).count[t], m - 1)
            BY <1>1, <2>3
        <2>5. RefAt(c, m).count[t] = IF ReleasesAt(c, t, m) THEN RefAt(c, m - 1).count[t] + 1
                                                            ELSE RefAt(c, m - 1).count[t]
            <3>. DEFINE s == RefAt(c, m - 1)
            <3>1. RefAt(c, m).count = CountAt(c, s, m)
                BY <2>3, TickFields
            <3>. HIDE DEF s
            <3>2. CountAt(c, s, m)[t] = IF ReleasesAt(c, t, m) THEN s.count[t] + 1 ELSE s.count[t]
                BY DEF CountAt, Fresh
            <3>. QED  BY <3>1, <3>2 DEF s
        <2>. QED  BY <2>3, <2>4, <2>5, PlannedNext
    <1>. QED  BY <1>1, <1>2

-----------------------------------------------------------------------------
(* Whom the reference lets own a resource. *)

\* The tasks of resource r with work left.
Needy(c, left, r) == {t \in TaskIds : c.assignment[t] = r /\ left[t] > 0}

\* The first of the tasks S.
First(c, count, S) == CHOOSE t \in S : \A s \in S : ~ Outranks(c, count, s, t)

\* Whom the reference chooses: nobody, the incumbent, or the first of the needy tasks.
LEMMA OwnerCases ==
    ASSUME NEW c, NEW count, NEW left, NEW r, NEW i
    PROVE  LET S == Needy(c, left, r)
               keeps == c.mode = "NonPreemptive" \/ c.task[i].priority <= c.task[First(c, count, S)].priority
           IN  /\ S = {} => OwnerAfter(c, count, left, r, i) = Nobody
               /\ S # {} /\ i \in S /\ keeps => OwnerAfter(c, count, left, r, i) = i
               /\ S # {} /\ ~ (i \in S /\ keeps) => OwnerAfter(c, count, left, r, i) = First(c, count, S)
    <1>. DEFINE S == Needy(c, left, r)
                best == First(c, count, S)
                keeps == c.mode = "NonPreemptive" \/ c.task[i].priority <= c.task[best].priority
    <1>1. OwnerAfter(c, count, left, r, i) = CASE S = {} -> Nobody
                                               [] i \in S /\ keeps -> i
                                               [] OTHER -> best
        BY DEF OwnerAfter, Needy, First
    <1>. HIDE DEF S, best, keeps
    <1>2. S = {} => OwnerAfter(c, count, left, r, i) = Nobody
        <2>1. S = {} => i \notin S
            OBVIOUS
        <2>. QED  BY <1>1, <2>1
    <1>3. S # {} /\ i \in S /\ keeps => OwnerAfter(c, count, left, r, i) = i
        BY <1>1
    <1>4. S # {} /\ ~ (i \in S /\ keeps) => OwnerAfter(c, count, left, r, i) = best
        BY <1>1
    <1>. QED  BY <1>2, <1>3, <1>4 DEF S, best, keeps

\* The release of a counted job, and the order of two tasks.
LEMMA ReleaseType ==
    ASSUME NEW c, ValidConfig(c), NEW count \in [TaskIds -> Nat], NEW t \in TaskIds
    PROVE  /\ LatestRelease(c, count, t) \in Int
           /\ LatestRelease(c, count, t) + c.task[t].period \in Nat
    <1>. DEFINE p == c.task[t].period
                o == c.task[t].offset
                k == count[t]
    <1>1. p \in Nat /\ o \in Nat /\ k \in Nat
        BY TaskTimes
    <1>2. LatestRelease(c, count, t) = o + (k - 1) * p
        BY DEF LatestRelease
    <1>. HIDE DEF p, o, k
    <1>3. (k - 1) * p = k * p - p /\ k * p \in Int /\ k * p >= 0
        BY <1>1, Multiples
    <1>. QED  BY <1>1, <1>2, <1>3 DEF p

\* Of two tasks one outranks the other.
LEMMA OutranksTotal ==
    ASSUME NEW c, ValidConfig(c), NEW count \in [TaskIds -> Nat], NEW s \in TaskIds, NEW t \in TaskIds,
           s # t
    PROVE  Outranks(c, count, s, t) \/ Outranks(c, count, t, s)
    <1>1. /\ LatestRelease(c, count, s) \in Int /\ LatestRelease(c, count, t) \in Int
          /\ c.task[s].priority \in Nat /\ c.task[t].priority \in Nat /\ s \in Nat /\ t \in Nat
        BY ReleaseType, TaskTimes
    <1>. QED  BY <1>1 DEF Outranks

\* A nonempty set of tasks has exactly one first task.
LEMMA FirstIsUnique ==
    ASSUME NEW c, ValidConfig(c), NEW count \in [TaskIds -> Nat], NEW S \in SUBSET TaskIds,
           NEW b \in S, \A s \in S : ~ Outranks(c, count, s, b)
    PROVE  First(c, count, S) = b
    <1>. DEFINE f == First(c, count, S)
    <1>1. f \in S /\ \A s \in S : ~ Outranks(c, count, s, f)
        BY DEF First
    <1>. HIDE DEF f
    <1>2. f # b => Outranks(c, count, f, b) \/ Outranks(c, count, b, f)
        BY <1>1, OutranksTotal
    <1>. QED  BY <1>1, <1>2 DEF f

\* Some task of a non-empty set is outranked by none of them.
LEMMA FirstExists ==
    ASSUME NEW c, ValidConfig(c), NEW count, NEW S \in SUBSET TaskIds, S # {},
           \A t \in S : LatestRelease(c, count, t) \in Nat
    PROVE  /\ First(c, count, S) \in S
           /\ \A s \in S : ~ Outranks(c, count, s, First(c, count, S))
    <1>. DEFINE rank(t) == c.task[t].priority
                late(t) == LatestRelease(c, count, t)
                ranks == {rank(t) : t \in S}
    <1>1. \A t \in S : rank(t) \in Nat /\ t \in Nat /\ late(t) \in Nat
        BY TaskTimes
    <1>2. \A s, t \in S : Outranks(c, count, s, t) <=>
              rank(s) < rank(t) \/ (rank(s) = rank(t) /\ (late(s) < late(t) \/ (late(s) = late(t) /\ s < t)))
        BY DEF Outranks
    <1>. HIDE DEF rank, late
    <1>3. PICK a \in ranks : \A k \in ranks : a <= k
        <2>1. ranks \in SUBSET Nat /\ ranks # {}
            BY <1>1
        <2>. HIDE DEF ranks
        <2>. QED  BY <2>1, LeastNumber
    <1>. DEFINE top == {t \in S : rank(t) = a}
                ticks == {late(t) : t \in top}
    <1>4. a \in Nat /\ top # {} /\ \A t \in S : a <= rank(t)
        BY <1>1, <1>3
    <1>5. PICK x \in ticks : \A k \in ticks : x <= k
        <2>1. ticks \in SUBSET Nat /\ ticks # {}
            BY <1>1, <1>4
        <2>. HIDE DEF ticks
        <2>. QED  BY <2>1, LeastNumber
    <1>. DEFINE tops == {t \in top : late(t) = x}
    <1>6. x \in Nat /\ tops # {} /\ \A t \in top : x <= late(t)
        BY <1>1, <1>5
    <1>7. PICK b \in tops : \A k \in tops : b <= k
        <2>1. tops \in SUBSET Nat
            BY <1>1
        <2>. HIDE DEF tops
        <2>. QED  BY <1>6, <2>1, LeastNumber
    <1>8. b \in S /\ rank(b) = a /\ late(b) = x
        OBVIOUS
    <1>9. ASSUME NEW s \in S PROVE ~ Outranks(c, count, s, b)
        <2>1. a <= rank(s) /\ (rank(s) = a => x <= late(s)) /\ (rank(s) = a /\ late(s) = x => b <= s)
            BY <1>4, <1>6, <1>7
        <2>2. rank(s) \in Nat /\ late(s) \in Nat /\ s \in Nat /\ b \in Nat
            BY <1>1, <1>8
        <2>. QED  BY <1>2, <1>4, <1>6, <1>8, <2>1, <2>2
    <1>10. \E t \in S : \A s \in S : ~ Outranks(c, count, s, t)
        BY <1>8, <1>9
    <1>. QED  BY <1>10 DEF First

\* The incumbent stays if nothing outranks it that may replace it.
LEMMA IncumbentStays ==
    ASSUME NEW c, ValidConfig(c), NEW count, NEW left, NEW r, NEW i \in Needy(c, left, r),
           \A t \in Needy(c, left, r) : LatestRelease(c, count, t) \in Nat,
           \/ c.mode = "NonPreemptive"
           \/ \A t \in Needy(c, left, r) : c.task[i].priority <= c.task[t].priority
    PROVE  OwnerAfter(c, count, left, r, i) = i
    <1>. DEFINE S == Needy(c, left, r)
    <1>1. S \in SUBSET TaskIds /\ S # {}
        BY DEF Needy
    <1>2. First(c, count, S) \in S
        BY <1>1, FirstExists
    <1>. QED  BY <1>1, <1>2, OwnerCases

\* The first of the needy tasks takes a resource that it may take.
LEMMA FirstTakes ==
    ASSUME NEW c, ValidConfig(c), NEW count \in [TaskIds -> Nat], NEW left, NEW r, NEW i,
           NEW b \in Needy(c, left, r), \A s \in Needy(c, left, r) : ~ Outranks(c, count, s, b),
           \/ i \notin Needy(c, left, r)
           \/ /\ c.mode # "NonPreemptive" /\ i \in TaskIds
              /\ c.task[b].priority < c.task[i].priority
    PROVE  OwnerAfter(c, count, left, r, i) = b
    <1>. DEFINE S == Needy(c, left, r)
    <1>1. S \in SUBSET TaskIds /\ S # {} /\ b \in S
        BY DEF Needy
    <1>2. First(c, count, S) = b
        BY <1>1, FirstIsUnique
    <1>3. i \in TaskIds => c.task[i].priority \in Nat /\ c.task[b].priority \in Nat
        BY <1>1, TaskTimes
    <1>. QED  BY <1>1, <1>2, <1>3, OwnerCases

\* Nobody owns a resource nobody needs.
LEMMA NobodyTakes ==
    ASSUME NEW c, NEW count, NEW left, NEW r, NEW i, Needy(c, left, r) = {}
    PROVE  OwnerAfter(c, count, left, r, i) = Nobody
    BY OwnerCases

-----------------------------------------------------------------------------
(* What a job still needs, and the steps that leave it as it is. *)

\* Nothing is changed that is planned of a job, whether it is complete, or what it needs.
SameWork ==
    /\ UNCHANGED <<config, tick>> /\ Released' = Released
    /\ \A k \in Released :
           /\ jobs'[k].resource = jobs[k].resource /\ jobs'[k].priority = jobs[k].priority
           /\ jobs'[k].release = jobs[k].release /\ jobs'[k].deadline = jobs[k].deadline
           /\ jobs'[k].finish = jobs[k].finish
           /\ Active(k)' <=> Active(k)
           /\ LeftAt(k, tick)' = LeftAt(k, tick)

\* Released jobs are identities, none of them stands for an idle resource.
LEMMA JobFacts ==
    ASSUME TypeOK, NEW j \in Released
    PROVE  /\ j \in JobIdentity /\ j # NoJob /\ j = <<j[1], j[2]>> /\ j[1] \in TaskIds /\ j[2] \in Nat
           /\ jobs[j] \in JobState /\ jobs[j].resource \in ResourceIds /\ jobs[j].remaining \in Nat
           /\ jobs[j].release \in Nat /\ jobs[j].deadline \in Nat /\ jobs[j].finish \in Int
           /\ jobs[j].priority \in Nat /\ jobs[j].missed \in BOOLEAN /\ tick \in Nat
    BY NoJobAssumption DEF TypeOK, JobIdentity, JobState

\* A step that leaves jobs and resources alone does no work.
LEMMA WorkUntouched ==
    ASSUME UNCHANGED <<config, tick, jobs, resource>>
    PROVE  SameWork
    BY DEF SameWork, Released, Active, LeftAt

\* A deadline check marks a job, and changes nothing of its work.
LEMMA CheckDeadlineWork ==
    ASSUME KernelInv, NEW e \in queue.events, CheckDeadline(e)
    PROVE  SameWork
    <1>. DEFINE j == DeadlineOf(e)
    <1>1. jobs \in [Released -> JobState] /\ UNCHANGED <<config, tick, resource>>
        BY DEF KernelInv, StateInv, TypeOK, CheckDeadline
    <1>2. CASE UNCHANGED jobs
        BY <1>1, <1>2, WorkUntouched
    <1>3. CASE jobs' # jobs
        <2>1. j \in Released /\ jobs' = [jobs EXCEPT ![j].missed = TRUE]
            BY <1>3 DEF CheckDeadline, DeadlineMatches
        <2>. HIDE DEF j
        <2>2. jobs[j] \in JobState
            BY <1>1, <2>1
        <2>3. /\ Released' = Released /\ \A k \in Released : k # j => jobs'[k] = jobs[k]
              /\ jobs'[j].resource = jobs[j].resource /\ jobs'[j].priority = jobs[j].priority
              /\ jobs'[j].release = jobs[j].release /\ jobs'[j].deadline = jobs[j].deadline
              /\ jobs'[j].finish = jobs[j].finish /\ jobs'[j].lifecycle = jobs[j].lifecycle
              /\ jobs'[j].remaining = jobs[j].remaining
            BY <1>1, <2>1, <2>2 DEF Released, JobState
        <2>4. \A k \in Released :
                  /\ jobs'[k].resource = jobs[k].resource /\ jobs'[k].priority = jobs[k].priority
                  /\ jobs'[k].release = jobs[k].release /\ jobs'[k].deadline = jobs[k].deadline
                  /\ jobs'[k].finish = jobs[k].finish /\ jobs'[k].lifecycle = jobs[k].lifecycle
                  /\ jobs'[k].remaining = jobs[k].remaining
            BY <2>3
        <2>. QED  BY <1>1, <2>3, <2>4 DEF SameWork, Active, LeftAt
    <1>. QED  BY <1>2, <1>3

\* A dispatched job has done nothing yet in its tick.
LEMMA DispatchWork ==
    ASSUME KernelInv, NEW r \in ResourceIds, NEW j \in ready[r], Dispatch(r, j)
    PROVE  SameWork
    <1>1. TypeOK /\ MembershipAgrees
        BY DEF KernelInv, StateInv
    <1>2. /\ UNCHANGED <<config, tick>> /\ Idle(r) /\ jobs[j].resource = r /\ jobs[j].lifecycle = "Ready"
          /\ j \in Released
        BY DispatchEffect
    <1>3. CASE UNCHANGED <<jobs, resource>>
        BY <1>2, <1>3, WorkUntouched
    <1>4. CASE ~ UNCHANGED <<jobs, resource>>
        <2>1. /\ OnlyJob(j) /\ OnlyResource(r)
              /\ jobs'[j].lifecycle = "Running" /\ jobs'[j].remaining = jobs[j].remaining
              /\ jobs'[j].finish = jobs[j].finish /\ resource'[r].running = j
              /\ resource'[r].since = tick
            BY <1>4, DispatchEffect
        <2>2. JobProgress
            BY DispatchProgress
        <2>3. /\ Released' = Released /\ \A k \in Released : k # j => jobs'[k] = jobs[k]
              /\ jobs'[j].resource = r /\ jobs'[j].priority = jobs[j].priority
              /\ jobs'[j].release = jobs[j].release /\ jobs'[j].deadline = jobs[j].deadline
            BY <1>2, <2>1, <2>2 DEF OnlyJob, JobProgress
        <2>4. Active(j) /\ Active(j)'
            BY <1>2, <2>1 DEF Active
        <2>5. LeftAt(j, tick) = jobs[j].remaining /\ LeftAt(j, tick)' = jobs[j].remaining
            <3>1. jobs[j].remaining \in Nat /\ tick \in Nat /\ j # NoJob
                BY <1>1, <1>2, JobFacts
            <3>2. resource[r].running # j
                BY <1>2, <3>1 DEF Idle
            <3>. QED  BY <1>2, <2>1, <2>3, <3>1, <3>2 DEF LeftAt
        <2>6. ASSUME NEW k \in Released, k # j
              PROVE  LeftAt(k, tick)' = LeftAt(k, tick)
            <3>1. k # NoJob /\ jobs'[k] = jobs[k] /\ jobs[k].resource \in ResourceIds
                BY <1>1, <2>3, <2>6, JobFacts
            <3>2. CASE jobs[k].resource = r
                <4>1. resource[r].running # k /\ resource'[r].running # k
                    BY <1>2, <2>1, <2>6, <3>1 DEF Idle
                <4>. QED  BY <1>2, <3>1, <3>2, <4>1 DEF LeftAt
            <3>3. CASE jobs[k].resource # r
                <4>1. resource'[jobs[k].resource] = resource[jobs[k].resource]
                    BY <2>1, <3>1, <3>3 DEF OnlyResource
                <4>. QED  BY <1>2, <3>1, <4>1 DEF LeftAt
            <3>. QED  BY <3>2, <3>3
        <2>7. \A k \in Released :
                  /\ jobs'[k].resource = jobs[k].resource /\ jobs'[k].priority = jobs[k].priority
                  /\ jobs'[k].release = jobs[k].release /\ jobs'[k].deadline = jobs[k].deadline
                  /\ jobs'[k].finish = jobs[k].finish
            BY <1>2, <2>1, <2>3
        <2>8. \A k \in Released : Active(k)' <=> Active(k)
            BY <2>3, <2>4 DEF Active
        <2>9. \A k \in Released : LeftAt(k, tick)' = LeftAt(k, tick)
            BY <2>5, <2>6
        <2>. QED  BY <1>2, <2>3, <2>7, <2>8, <2>9 DEF SameWork
    <1>. QED  BY <1>3, <1>4

\* A preempted job keeps what it had left when it lost the resource.
LEMMA PreemptWork ==
    ASSUME KernelInv, NEW r \in ResourceIds, NEW j \in ready[r], Preempt(r, j)
    PROVE  SameWork
    <1>0. PICK p : p = resource[r].running
        OBVIOUS
    <1>1. TypeOK /\ MembershipAgrees /\ IntervalsExact
        BY DEF KernelInv, StateInv
    <1>2. /\ UNCHANGED <<config, tick>> /\ ~ Idle(r) /\ j \in Released /\ p \in Released /\ p # j
          /\ Released' = Released /\ \A k \in Released : k \notin {j, p} => jobs'[k] = jobs[k]
          /\ jobs[j].resource = r /\ jobs[j].lifecycle = "Ready"
          /\ jobs[p].resource = r /\ jobs[p].lifecycle = "Running"
          /\ jobs'[j].resource = r /\ jobs'[p].resource = r
          /\ jobs'[j].lifecycle = "Running" /\ jobs'[j].remaining = jobs[j].remaining
          /\ jobs'[j].finish = jobs[j].finish /\ jobs'[p].finish = jobs[p].finish
          /\ jobs'[p].lifecycle = "Ready"
          /\ jobs'[p].remaining = jobs[p].remaining - (tick - resource[r].since)
          /\ OnlyResource(r) /\ resource'[r].running = j /\ resource'[r].since = tick
        BY <1>0, PreemptEffect
    <1>3. JobProgress
        BY PreemptProgress
    <1>4. \A k \in Released : /\ jobs'[k].priority = jobs[k].priority
                              /\ jobs'[k].release = jobs[k].release /\ jobs'[k].deadline = jobs[k].deadline
        BY <1>3 DEF JobProgress
    <1>5. \A k \in Released : Active(k)' <=> Active(k)
        BY <1>2 DEF Active
    <1>6. LeftAt(j, tick)' = LeftAt(j, tick)
        <2>1. jobs[j].remaining \in Nat /\ tick \in Nat
            BY <1>1, <1>2, JobFacts
        <2>. QED  BY <1>0, <1>2, <2>1 DEF LeftAt
    <1>7. LeftAt(p, tick)' = LeftAt(p, tick)
        BY <1>0, <1>2 DEF LeftAt
    <1>8. ASSUME NEW k \in Released, k \notin {j, p}
          PROVE  LeftAt(k, tick)' = LeftAt(k, tick)
        <2>1. jobs'[k] = jobs[k] /\ jobs[k].resource \in ResourceIds
            BY <1>1, <1>2, <1>8, JobFacts
        <2>2. CASE jobs[k].resource = r
            BY <1>0, <1>2, <1>8, <2>1, <2>2 DEF LeftAt
        <2>3. CASE jobs[k].resource # r
            <3>1. resource'[jobs[k].resource] = resource[jobs[k].resource]
                BY <1>2, <2>1, <2>3 DEF OnlyResource
            <3>. QED  BY <1>2, <2>1, <3>1 DEF LeftAt
        <2>. QED  BY <2>2, <2>3
    <1>9. \A k \in Released : jobs'[k].resource = jobs[k].resource /\ jobs'[k].finish = jobs[k].finish
        BY <1>2
    <1>10. \A k \in Released : LeftAt(k, tick)' = LeftAt(k, tick)
        BY <1>6, <1>7, <1>8
    <1>. QED  BY <1>2, <1>4, <1>5, <1>9, <1>10 DEF SameWork

-----------------------------------------------------------------------------
(* Jobs and releases follow the plan of the configuration. *)

\* The jobs of t are numbered from 1 to n.
NumberedTo(t, n) ==
    /\ \A j \in Released : j[1] = t => j[2] \in 1 .. n
    /\ \A k \in 1 .. n : <<t, k>> \in Released

\* Every job is the one its task's specification plans for its number, and only the latest
\* job of a task may be incomplete.
JobsPlanned ==
    \A j \in Released :
        LET spec == config.task[j[1]]
        IN  /\ j[2] >= 1
            /\ jobs[j].release = spec.offset + (j[2] - 1) * spec.period
            /\ jobs[j].deadline = jobs[j].release + spec.deadline
            /\ jobs[j].priority = spec.priority /\ jobs[j].resource = config.assignment[j[1]]
            /\ ~ Active(j) => jobs[j].finish <= tick
            /\ Active(j) => \A k \in Released : k[1] = j[1] => k[2] <= j[2]

\* A task waits for the release after its latest job, until that lies beyond the horizon.
ReleasePlanned(t) ==
    LET spec == config.task[t]
        n == release[t].job
    IN  /\ n >= 1 /\ release[t].tick = spec.offset + (n - 1) * spec.period
        /\ release[t].pending # Absent => NumberedTo(t, n - 1)
        /\ release[t].pending = Absent =>
               \/ stage = "initialize" /\ t \in todo /\ NumberedTo(t, 0) /\ n = 1
               \/ spec.offset > config.stop /\ NumberedTo(t, 0) /\ n = 1
               \/ release[t].tick + spec.period > config.stop /\ NumberedTo(t, n)

\* Until the engine fails every task waits for the release it is due.
ReleasesPlanned == stage # "failed" => \A t \in TaskIds : ReleasePlanned(t)

\* A step that changes no work keeps the plan of the jobs.
LEMMA JobsPlannedKept == ASSUME JobsPlanned, SameWork PROVE JobsPlanned'
    <1>1. \A j \in Released : Active(j)' <=> Active(j)
        BY DEF SameWork
    <1>. QED  BY <1>1 DEF JobsPlanned, SameWork

\* Time alone keeps the plan of the jobs.
LEMMA JobsPlannedAdvance ==
    ASSUME TypeOK, JobsPlanned, UNCHANGED <<config, jobs>>, tick' \in Nat, tick <= tick'
    PROVE  JobsPlanned'
    <1>1. \A j \in Released : jobs[j].finish \in Int /\ tick \in Nat
        BY JobFacts
    <1>. QED  BY <1>1 DEF JobsPlanned, Released, Active

\* A completion ends one job in the current tick.
LEMMA AcceptCompletionPlanned ==
    ASSUME KernelInv, JobsPlanned, NEW e \in queue.events, AcceptCompletion(e)
    PROVE  JobsPlanned'
    <1>0. PICK j : j = JobOf(e)
        OBVIOUS
    <1>1. /\ OnlyJob(j) /\ jobs'[j].lifecycle = "Completed" /\ jobs'[j].finish = tick
          /\ UNCHANGED <<config, tick>>
        BY <1>0, CompletionEffect
    <1>2. JobProgress /\ TypeOK
        BY AcceptCompletionProgress DEF KernelInv, StateInv
    <1>3. /\ Released' = Released /\ \A k \in Released : k # j => jobs'[k] = jobs[k]
          /\ \A k \in Released :
                 /\ jobs'[k].resource = jobs[k].resource /\ jobs'[k].priority = jobs[k].priority
                 /\ jobs'[k].release = jobs[k].release /\ jobs'[k].deadline = jobs[k].deadline
        BY <1>1, <1>2 DEF OnlyJob, JobProgress
    <1>4. \A k \in Released : /\ Active(k)' => Active(k)
                              /\ ~ Active(k)' => k = j \/ ~ Active(k)
        BY <1>1, <1>3 DEF Active
    <1>5. tick \in Nat
        BY <1>2 DEF TypeOK
    <1>6. \A k \in Released : ~ Active(k)' => jobs'[k].finish <= tick
        BY <1>1, <1>3, <1>4, <1>5 DEF JobsPlanned
    <1>. QED  BY <1>1, <1>3, <1>4, <1>6 DEF JobsPlanned

\* The job of an accepted release is the next one of its task.
LEMMA NextJob ==
    ASSUME KernelInv, ReleasesPlanned, stage = "release", NEW e \in batch
    PROVE  LET t == e.entities.task
               k == e.entities.job
           IN  /\ t \in TaskIds /\ k \in Nat /\ k >= 1 /\ NumberedTo(t, k - 1)
               /\ k = release[t].job /\ release[t].tick = tick
               /\ tick = config.task[t].offset + (k - 1) * config.task[t].period
    <1>. DEFINE t == e.entities.task
    <1>1. /\ t \in TaskIds /\ release[t] \in ReleaseState /\ release[t].tick = tick
          /\ release[t].job = e.entities.job /\ release[t].pending = config.assignment[t]
        BY BatchRelease
    <1>2. release[t].pending # Absent
        <2>1. config.assignment[t] \in Nat
            BY <1>1, ConfigType DEF KernelInv, StateInv
        <2>. QED  BY <1>1, <2>1 DEF Absent
    <1>3. release[t].job \in Nat
        BY <1>1 DEF ReleaseState
    <1>. HIDE DEF t
    <1>. QED  BY <1>1, <1>2, <1>3 DEF ReleasesPlanned, ReleasePlanned, t

\* A release adds the next job of its task, and plans the one after it.
LEMMA ReleaseJobPlanned ==
    ASSUME KernelInv, JobsPlanned, ReleasesPlanned, NEW e \in batch, ReleaseJob(e)
    PROVE  JobsPlanned' /\ ReleasesPlanned'
    <1>0. PICK j, t, n : j = JobOf(e) /\ t = e.entities.task /\ n = e.entities.job
        OBVIOUS
    <1>1. /\ UNCHANGED <<config, tick, resource>> /\ stage = "release" /\ t \in TaskIds /\ j \notin Released
          /\ release' = [release EXCEPT ![t] = ReleaseAfter(t)]
        BY <1>0, ReleaseEffect
    <1>2. /\ n \in Nat /\ n >= 1 /\ NumberedTo(t, n - 1) /\ n = release[t].job /\ release[t].tick = tick
          /\ tick = config.task[t].offset + (n - 1) * config.task[t].period
        BY <1>0, <1>1, NextJob
    <1>3. TypeOK /\ ValidConfig(config) /\ tick \in Nat /\ j = <<t, n>>
        BY <1>0 DEF KernelInv, StateInv, TypeOK, JobOf
    <1>4. CASE stage' = "failed"
        <2>1. UNCHANGED jobs
            BY <1>0, <1>4, ReleaseEffect
        <2>. QED  BY <1>1, <1>3, <1>4, <2>1, JobsPlannedAdvance DEF ReleasesPlanned
    <1>5. CASE stage' # "failed"
        <2>1. /\ Released' = Released \cup {j} /\ \A k \in Released : jobs'[k] = jobs[k]
              /\ ~ HasActiveJob(t)
              /\ jobs'[j].resource = config.assignment[t] /\ jobs'[j].lifecycle = "Ready"
              /\ jobs'[j].release = tick /\ jobs'[j].priority = config.task[t].priority
              /\ jobs'[j].deadline = tick + config.task[t].deadline
              /\ stage' \in {"settle", "release"}
            BY <1>0, <1>5, ReleaseEffect
        <2>2. Active(j)' /\ \A k \in Released : Active(k)' <=> Active(k)
            BY <2>1 DEF Active
        <2>3. JobsPlanned'
            <3>1. ASSUME NEW k \in Released
                  PROVE  LET spec == config.task[k[1]]
                         IN  /\ k[2] >= 1
                             /\ jobs'[k].release = spec.offset + (k[2] - 1) * spec.period
                             /\ jobs'[k].deadline = jobs'[k].release + spec.deadline
                             /\ jobs'[k].priority = spec.priority /\ jobs'[k].resource = config.assignment[k[1]]
                             /\ ~ Active(k)' => jobs'[k].finish <= tick
                             /\ Active(k)' => \A l \in Released' : l[1] = k[1] => l[2] <= k[2]
                <4>1. Active(k) => k[1] # t
                    BY <2>1 DEF HasActiveJob
                <4>. QED  BY <1>3, <2>1, <2>2, <4>1 DEF JobsPlanned
            <3>2. \A l \in Released' : l[1] = t => l[2] <= n
                BY <1>2, <1>3, <2>1 DEF NumberedTo
            <3>3. LET spec == config.task[j[1]]
                  IN  /\ j[2] >= 1
                      /\ jobs'[j].release = spec.offset + (j[2] - 1) * spec.period
                      /\ jobs'[j].deadline = jobs'[j].release + spec.deadline
                      /\ jobs'[j].priority = spec.priority /\ jobs'[j].resource = config.assignment[j[1]]
                      /\ ~ Active(j)' => jobs'[j].finish <= tick
                      /\ Active(j)' => \A l \in Released' : l[1] = j[1] => l[2] <= j[2]
                BY <1>2, <1>3, <2>1, <2>2, <3>2
            <3>. QED  BY <1>1, <2>1, <3>1, <3>3 DEF JobsPlanned
        <2>4. ASSUME NEW s \in TaskIds PROVE ReleasePlanned(s)'
            <3>1. \A l \in Released' : l \in Released \/ l = j
                BY <2>1
            <3>2. stage # "failed" /\ stage # "initialize" /\ stage' # "initialize"
                BY <1>1, <2>1
            <3>3. CASE s # t
                <4>1. \A m : NumberedTo(s, m) => NumberedTo(s, m)'
                    BY <1>3, <2>1, <3>3 DEF NumberedTo
                <4>2. release'[s] = release[s]
                    BY <1>1, <1>3, <3>3 DEF TypeOK
                <4>3. ReleasePlanned(s)
                    BY <3>2 DEF ReleasesPlanned
                <4>. QED  BY <1>1, <3>2, <4>1, <4>2, <4>3 DEF ReleasePlanned
            <3>4. CASE s = t
                <4>1. NumberedTo(t, n)'
                    BY <1>2, <1>3, <2>1 DEF NumberedTo
                <4>2. release'[t] = ReleaseAfter(t) /\ release[t] \in ReleaseState
                    BY <1>1, <1>3 DEF TypeOK
                <4>3. PICK p, o : p = config.task[t].period /\ o = config.task[t].offset
                    OBVIOUS
                <4>4. p \in Nat /\ o \in Nat /\ config.stop \in Nat /\ config.assignment[t] \in Nat
                    BY <1>1, <1>3, <4>3, ConfigType
                <4>5. n * p \in Int /\ (n - 1) * p = n * p - p /\ tick = o + (n - 1) * p
                    <5>1. n \in Int
                        BY <1>2
                    <5>. QED  BY <1>2, <4>3, <4>4, <5>1, Multiples
                <4>6. CASE HasSuccessor(t)
                    <5>1. /\ release'[t].tick = tick + p /\ release'[t].job = n + 1
                          /\ release'[t].pending = config.assignment[t]
                        BY <1>2, <4>2, <4>3, <4>6 DEF ReleaseAfter, SuccessorTick
                    <5>2. n + 1 >= 1 /\ (n + 1) - 1 = n /\ config.assignment[t] # Absent
                        BY <1>2, <4>4 DEF Absent
                    <5>3. tick + p = o + n * p
                        BY <1>3, <4>4, <4>5
                    <5>. QED  BY <1>1, <3>4, <4>1, <4>3, <5>1, <5>2, <5>3 DEF ReleasePlanned
                <4>7. CASE ~ HasSuccessor(t)
                    <5>1. /\ release'[t].tick = tick /\ release'[t].job = n /\ release'[t].pending = Absent
                        BY <1>2, <4>2, <4>7 DEF ReleaseAfter, ReleaseState
                    <5>2. tick + p > config.stop
                        BY <1>2, <1>3, <4>3, <4>4, <4>7 DEF HasSuccessor
                    <5>. QED  BY <1>1, <1>2, <3>4, <4>1, <4>3, <4>5, <5>1, <5>2 DEF ReleasePlanned
                <4>. QED  BY <4>6, <4>7
            <3>. QED  BY <3>3, <3>4
        <2>. QED  BY <2>3, <2>4 DEF ReleasesPlanned
    <1>. QED  BY <1>4, <1>5

\* A step that releases nothing keeps the plan of the releases.
LEMMA ReleasesPlannedKept ==
    ASSUME ReleasesPlanned, UNCHANGED <<config, release>>, Released' = Released,
           stage \notin {"initialize", "failed"}, stage' # "initialize"
    PROVE  ReleasesPlanned'
    <1>1. \A t, n : NumberedTo(t, n) => NumberedTo(t, n)'
        BY DEF NumberedTo
    <1>. QED  BY <1>1 DEF ReleasesPlanned, ReleasePlanned

\* Nothing is planned for an engine that failed.
LEMMA ReleasesPlannedFail == ASSUME stage' = "failed" PROVE ReleasesPlanned'
    BY DEF ReleasesPlanned

\* Initialization queues the first release of a task, if the horizon reaches it.
LEMMA QueueFirstReleasePlanned ==
    ASSUME KernelInv, ReleasesPlanned, NEW t \in TaskIds, QueueFirstRelease(t)
    PROVE  ReleasesPlanned'
    <1>1. /\ stage = "initialize" /\ t \in todo /\ todo' = todo \ {t}
          /\ release' = [release EXCEPT ![t].pending = config.assignment[t]]
          /\ UNCHANGED <<config, stage, jobs>> /\ TypeOK
        BY DEF QueueFirstRelease, ScheduleCurrentRelease, KernelInv, StateInv
    <1>2. Released = {} /\ Released' = {}
        BY <1>1, NothingReleasedYet DEF Released
    <1>3. release[t].pending = Absent
        BY <1>1 DEF KernelInv, ReleasesSound
    <1>4. \A s \in TaskIds : ReleasePlanned(s)
        BY <1>1 DEF ReleasesPlanned
    <1>5. ASSUME NEW s \in TaskIds PROVE ReleasePlanned(s)'
        <2>1. CASE s # t
            <3>1. release'[s] = release[s]
                BY <1>1, <2>1 DEF TypeOK
            <3>2. \A n : NumberedTo(s, n) => NumberedTo(s, n)'
                BY <1>2 DEF NumberedTo
            <3>. QED  BY <1>1, <1>4, <2>1, <3>1, <3>2 DEF ReleasePlanned
        <2>2. CASE s = t
            <3>1. release[t] \in ReleaseState
                BY <1>1 DEF TypeOK
            <3>2. /\ release'[t].pending = config.assignment[t]
                  /\ release'[t].tick = release[t].tick /\ release'[t].job = release[t].job
                BY <1>1, <3>1 DEF TypeOK, ReleaseState
            <3>3. config.assignment[t] \in Nat /\ config.assignment[t] # Absent
                BY <1>1, ConfigType DEF Absent
            <3>4. release[t].job \in Nat
                BY <3>1 DEF ReleaseState
            <3>5. release[t].job = 1
                <4>1. ~ NumberedTo(t, release[t].job)
                    <5>1. release[t].job >= 1
                        BY <1>4 DEF ReleasePlanned
                    <5>2. 1 \in 1 .. release[t].job
                        BY <3>4, <5>1
                    <5>. QED  BY <1>2, <5>2 DEF NumberedTo
                <4>. QED  BY <1>3, <1>4, <4>1 DEF ReleasePlanned
            <3>6. NumberedTo(t, 0)'
                BY <1>2 DEF NumberedTo
            <3>. QED  BY <1>1, <1>4, <2>2, <3>2, <3>3, <3>5, <3>6 DEF ReleasePlanned
        <2>. QED  BY <2>1, <2>2
    <1>. QED  BY <1>5 DEF ReleasesPlanned

\* The plan survives the end of initialization.
LEMMA InitializedPlanned ==
    ASSUME ReleasesPlanned, Initialized
    PROVE  ReleasesPlanned'
    <1>1. stage = "initialize" /\ todo = {} /\ stage' = "between" /\ UNCHANGED <<config, release, jobs>>
        BY DEF Initialized
    <1>2. \A t, n : NumberedTo(t, n) => NumberedTo(t, n)'
        BY <1>1 DEF NumberedTo, Released
    <1>3. \A t \in TaskIds : ReleasePlanned(t)
        BY <1>1 DEF ReleasesPlanned
    <1>4. \A t \in TaskIds : ReleasePlanned(t)'
        BY <1>1, <1>2, <1>3 DEF ReleasePlanned
    <1>. QED  BY <1>4 DEF ReleasesPlanned

\* The steps that leave the work alone; only a deadline check may touch a job.
LEMMA QuietWork ==
    ASSUME KernelInv,
           \/ \E e \in queue.events : \/ IgnoreStaleCompletion(e) \/ DeliverMessage(e) \/ CheckDeadline(e)
                                      \/ RecordDecision(e) \/ SendMessage(e)
           \/ \E d \in TaskIds : PublishRoute(d)
           \/ CollectReleases
    PROVE  SameWork /\ UNCHANGED <<release, resource, ready>> /\ stage \notin {"initialize", "failed"}
           /\ stage' # "initialize"
    <1>1. CASE \E e \in queue.events : IgnoreStaleCompletion(e)
        BY <1>1, WorkUntouched DEF IgnoreStaleCompletion, Settling
    <1>2. CASE \E e \in queue.events : DeliverMessage(e)
        BY <1>2, WorkUntouched DEF DeliverMessage, Settling, Throw
    <1>3. ASSUME NEW e \in queue.events, CheckDeadline(e)
          PROVE  SameWork /\ UNCHANGED <<release, resource, ready>> /\ stage \notin {"initialize", "failed"}
                 /\ stage' # "initialize"
        <2>1. SameWork
            BY <1>3, CheckDeadlineWork
        <2>. QED  BY <1>3, <2>1 DEF CheckDeadline, Settling, Throw
    <1>4. CASE \E e \in queue.events : RecordDecision(e)
        BY <1>4, WorkUntouched DEF RecordDecision
    <1>5. CASE \E e \in queue.events : SendMessage(e)
        BY <1>5, WorkUntouched DEF SendMessage, Throw
    <1>6. ASSUME NEW d \in TaskIds, PublishRoute(d)
          PROVE  SameWork /\ UNCHANGED <<release, resource, ready>> /\ stage \notin {"initialize", "failed"}
                 /\ stage' # "initialize"
        <2>1. /\ UNCHANGED <<config, tick, jobs, resource, release, ready>> /\ stage = "publish"
              /\ stage' \in {"settle", "publish", "failed"}
            BY <1>6 DEF PublishRoute, Throw
        <2>. QED  BY <2>1, WorkUntouched
    <1>7. CASE CollectReleases
        BY <1>7, WorkUntouched DEF CollectReleases
    <1>. QED  BY <1>1, <1>2, <1>3, <1>4, <1>5, <1>6, <1>7

\* Every step keeps the plan.
LEMMA NextPlanned == KernelInv /\ JobsPlanned /\ ReleasesPlanned /\ [Next]_vars => JobsPlanned' /\ ReleasesPlanned'
    <1>. SUFFICES ASSUME KernelInv, JobsPlanned, ReleasesPlanned, [Next]_vars
                  PROVE  JobsPlanned' /\ ReleasesPlanned'
        OBVIOUS
    <1>0. TypeOK /\ tick \in Nat
        BY DEF KernelInv, StateInv, TypeOK
    <1>1. CASE \E t \in TaskIds : QueueFirstRelease(t)
        <2>1. ReleasesPlanned' /\ UNCHANGED <<config, tick, jobs>>
            BY <1>1, QueueFirstReleasePlanned DEF QueueFirstRelease
        <2>. QED  BY <1>0, <2>1, JobsPlannedAdvance
    <1>2. CASE Initialized
        <2>1. ReleasesPlanned' /\ UNCHANGED <<config, tick, jobs>>
            BY <1>2, InitializedPlanned DEF Initialized
        <2>. QED  BY <1>0, <2>1, JobsPlannedAdvance
    <1>3. CASE (\E e \in queue.events : BeginTick(e)) \/ FinishEmpty \/ EndTick
        <2>1. /\ UNCHANGED <<config, release, jobs>> /\ stage \notin {"initialize", "failed"}
              /\ stage' # "initialize"
            BY <1>3 DEF BeginTick, FinishEmpty, EndTick, Throw
        <2>2. tick' \in Nat /\ tick <= tick'
            BY <1>0, <1>3, PendingFields DEF BeginTick, FinishEmpty, EndTick, InHorizon, IsNextEvent
        <2>. QED  BY <1>0, <2>1, <2>2, JobsPlannedAdvance, ReleasesPlannedKept DEF Released
    <1>4. CASE \E e \in queue.events : AcceptCompletion(e)
        <2>1. PICK e \in queue.events : AcceptCompletion(e)
            BY <1>4
        <2>2. Released' = Released /\ UNCHANGED <<config, release>> /\ stage' \in {"settle", "publish"}
            BY <2>1, CompletionEffect DEF OnlyJob
        <2>3. stage = "settle"
            BY <2>1 DEF AcceptCompletion, Settling
        <2>. QED  BY <2>1, <2>2, <2>3, AcceptCompletionPlanned, ReleasesPlannedKept
    <1>5. CASE \/ \E e \in queue.events : \/ IgnoreStaleCompletion(e) \/ DeliverMessage(e) \/ CheckDeadline(e)
                                          \/ RecordDecision(e) \/ SendMessage(e)
               \/ \E d \in TaskIds : PublishRoute(d)
               \/ CollectReleases
        <2>1. SameWork /\ UNCHANGED release /\ stage \notin {"initialize", "failed"} /\ stage' # "initialize"
            BY <1>5, QuietWork
        <2>. QED  BY <2>1, JobsPlannedKept, ReleasesPlannedKept DEF SameWork
    <1>6. CASE \E e \in batch : ReleaseJob(e)
        BY <1>6, ReleaseJobPlanned
    <1>7. CASE \E e \in batch : ReleaseRefused(e)
        <2>1. stage' = "failed" /\ UNCHANGED <<config, tick, jobs>>
            BY <1>7 DEF ReleaseRefused, Throw
        <2>. QED  BY <1>0, <2>1, JobsPlannedAdvance, ReleasesPlannedFail
    <1>8. CASE Schedule
        <2>1. stage = "schedule" /\ UNCHANGED <<config, release>> /\ stage' # "initialize"
            BY <1>8 DEF Schedule, LeaveResource, Dispatch, Preempt, Visiting, Visited, Throw
        <2>2. SameWork
            <3>1. PICK r \in ResourceIds : LeaveResource(r) \/ \E j \in ready[r] : Dispatch(r, j) \/ Preempt(r, j)
                BY <1>8 DEF Schedule
            <3>2. LeaveResource(r) => SameWork
                BY WorkUntouched DEF LeaveResource
            <3>. QED  BY <3>1, <3>2, DispatchWork, PreemptWork
        <2>. QED  BY <2>1, <2>2, JobsPlannedKept, ReleasesPlannedKept DEF SameWork
    <1>9. CASE StepAfterEnd \/ UNCHANGED vars
        <2>1. UNCHANGED vars
            BY <1>9 DEF StepAfterEnd
        <2>2. UNCHANGED <<config, stage, tick, jobs, release, todo>>
            BY <2>1 DEF vars
        <2>3. \A t, n : NumberedTo(t, n) => NumberedTo(t, n)'
            BY <2>2 DEF NumberedTo, Released
        <2>4. ReleasesPlanned'
            BY <2>2, <2>3 DEF ReleasesPlanned, ReleasePlanned
        <2>. QED  BY <1>0, <2>2, <2>4, JobsPlannedAdvance
    <1>. QED  BY <1>1, <1>2, <1>3, <1>4, <1>5, <1>6, <1>7, <1>8, <1>9 DEF Next, Settle, ProcessReleases, Act

\* Initially nothing is released.
LEMMA InitPlanned == Init => JobsPlanned /\ ReleasesPlanned
    <1>. SUFFICES ASSUME Init PROVE JobsPlanned /\ ReleasesPlanned
        OBVIOUS
    <1>1. /\ Released = {} /\ release = InitialRelease(config) /\ todo = ReleasingTasks(config)
          /\ stage = "initialize" /\ ValidConfig(config)
        BY ConfigAssumption DEF Init, Released
    <1>2. ASSUME NEW t \in TaskIds PROVE ReleasePlanned(t)
        <2>1. release[t].tick = config.task[t].offset /\ release[t].job = 1 /\ release[t].pending = Absent
            BY <1>1 DEF InitialRelease
        <2>2. config.task[t].offset \in Nat /\ config.task[t].period \in Nat /\ config.stop \in Nat
            <3>1. config.stop \in Nat
                BY <1>1, ConfigAssumption DEF ValidConfig, Config, Tick
            <3>. QED  BY <1>1, <3>1, TaskTimes
        <2>3. NumberedTo(t, 0)
            BY <1>1 DEF NumberedTo
        <2>4. t \in todo \/ config.task[t].offset > config.stop
            BY <1>1, <2>2 DEF ReleasingTasks
        <2>. QED  BY <1>1, <2>1, <2>2, <2>3, <2>4 DEF ReleasePlanned
    <1>. QED  BY <1>1, <1>2 DEF JobsPlanned, ReleasesPlanned

-----------------------------------------------------------------------------
(* The engine has released what the reference counts. *)

\* The invariant of the engine together with the plan of its jobs and releases.
PlanInv == KernelInv /\ JobsPlanned /\ ReleasesPlanned

\* The number of jobs of a task, and when the next one comes.
LEMMA EngineCounts ==
    ASSUME PlanInv, stage \notin {"initialize", "failed"}, NEW t \in TaskIds
    PROVE  \E k \in Nat :
               LET next == config.task[t].offset + k * config.task[t].period
               IN  /\ NumberedTo(t, k)
                   /\ k > 0 => config.task[t].offset + (k - 1) * config.task[t].period <= tick
                   /\ \/ next > config.stop
                      \/ \E e \in queue.events \cup batch :
                             e.phase = "JobRelease" /\ e.tick = next /\ e.tick >= tick
    <1>0. PICK p, o, n : p = config.task[t].period /\ o = config.task[t].offset /\ n = release[t].job
        OBVIOUS
    <1>1. TypeOK /\ KernelInv /\ JobsPlanned /\ ReleasePlanned(t)
        BY DEF PlanInv, KernelInv, StateInv, ReleasesPlanned
    <1>2. p \in Nat /\ o \in Nat /\ tick \in Nat /\ config.stop \in Nat /\ n \in Nat
        <2>1. release[t] \in ReleaseState /\ tick \in Nat
            BY <1>1 DEF TypeOK
        <2>. QED  BY <1>0, <1>1, <2>1, ConfigType DEF ReleaseState
    <1>3. \A k \in Nat : k > 0 /\ NumberedTo(t, k) => o + (k - 1) * p <= tick
        <2>1. SUFFICES ASSUME NEW k \in Nat, k > 0, NumberedTo(t, k) PROVE o + (k - 1) * p <= tick
            OBVIOUS
        <2>2. <<t, k>> \in Released
            <3>1. k \in 1 .. k
                BY <2>1
            <3>. QED  BY <2>1, <3>1 DEF NumberedTo
        <2>3. jobs[<<t, k>>].release = o + (k - 1) * p /\ jobs[<<t, k>>].release <= tick
            <3>1. \A j \in Released : jobs[j].release <= tick
                BY <1>1 DEF KernelInv, JobsSound
            <3>. QED  BY <1>0, <1>1, <2>2, <3>1 DEF JobsPlanned
        <2>. QED  BY <2>3
    <1>4. CASE release[t].pending # Absent
        <2>1. NumberedTo(t, n - 1) /\ n - 1 \in Nat /\ release[t].tick = o + (n - 1) * p
            BY <1>0, <1>1, <1>2, <1>4 DEF ReleasePlanned
        <2>2. PICK e \in HeldReleases : e.entities.task = t
            BY <1>1, <1>4 DEF KernelInv, ReleasesSound
        <2>3. ReleaseMatches(e)
            BY <1>1, <2>2 DEF KernelInv, ReleasesSound
        <2>4. e.tick = release[t].tick /\ e \in queue.events \cup batch /\ e.phase = "JobRelease"
            BY <1>1, <2>2, <2>3 DEF ReleaseMatches, HeldReleases, Of, KernelInv, PositionSound
        <2>5. e.tick >= tick
            BY <1>1, <1>2, <2>4 DEF KernelInv, PositionSound, NothingInThePast
        <2>. QED  BY <1>0, <1>2, <1>3, <2>1, <2>4, <2>5
    <1>5. CASE release[t].pending = Absent
        <2>1. \/ o > config.stop /\ NumberedTo(t, 0) /\ n = 1
              \/ release[t].tick + p > config.stop /\ NumberedTo(t, n)
            BY <1>0, <1>1, <1>5 DEF ReleasePlanned
        <2>2. release[t].tick = o + (n - 1) * p
            BY <1>0, <1>1 DEF ReleasePlanned
        <2>3. /\ n * p \in Int /\ (n - 1) * p = n * p - p /\ 0 * p = 0
            BY <1>2, Multiples
        <2>4. CASE o > config.stop /\ NumberedTo(t, 0)
            BY <1>0, <1>2, <1>3, <2>3, <2>4
        <2>5. CASE release[t].tick + p > config.stop /\ NumberedTo(t, n)
            <3>1. o + n * p > config.stop
                BY <1>2, <2>2, <2>3, <2>5
            <3>. QED  BY <1>0, <1>2, <1>3, <2>5, <3>1
        <2>. QED  BY <2>1, <2>4, <2>5
    <1>. QED  BY <1>4, <1>5

\* The jobs of a task determine how many there are.
LEMMA NumberedOnce ==
    ASSUME NEW t, NEW k \in Nat, NEW m \in Nat, NumberedTo(t, k), NumberedTo(t, m)
    PROVE  k = m
    <1>1. \A a, b \in Nat : NumberedTo(t, a) /\ NumberedTo(t, b) => ~ (a < b)
        <2>1. SUFFICES ASSUME NEW a \in Nat, NEW b \in Nat, NumberedTo(t, a), NumberedTo(t, b), a < b
                       PROVE  FALSE
            OBVIOUS
        <2>2. b \in 1 .. b
            BY <2>1
        <2>3. <<t, b>> \in Released
            BY <2>1, <2>2 DEF NumberedTo
        <2>4. b \in 1 .. a
            BY <2>1, <2>3 DEF NumberedTo
        <2>. QED  BY <2>1, <2>4
    <1>. QED  BY <1>1

\* As long as no release is due, the jobs are those the reference counts.
LEMMA NumberedThrough ==
    ASSUME PlanInv, stage \notin {"initialize", "failed"}, NEW n \in Nat, n <= config.stop,
           tick <= n \/ Released = {},
           \A e \in queue.events \cup batch : e.phase = "JobRelease" => e.tick > n,
           NEW t \in TaskIds
    PROVE  NumberedTo(t, RefAt(config, n).count[t])
    <1>0. PICK p, o : p = config.task[t].period /\ o = config.task[t].offset
        OBVIOUS
    <1>1. TypeOK /\ ValidConfig(config)
        BY DEF PlanInv, KernelInv, StateInv, TypeOK
    <1>2. p \in Nat /\ o \in Nat /\ tick \in Nat /\ config.stop \in Nat
        BY <1>0, <1>1, ConfigType DEF TypeOK
    <1>3. PICK k \in Nat : /\ NumberedTo(t, k) /\ (k > 0 => o + (k - 1) * p <= tick)
                           /\ \/ o + k * p > config.stop
                              \/ \E e \in queue.events \cup batch :
                                     e.phase = "JobRelease" /\ e.tick = o + k * p /\ e.tick >= tick
        BY <1>0, EngineCounts
    <1>4. k > 0 => o + (k - 1) * p <= tick /\ tick <= n
        <2>1. k > 0 => Released # {}
            <3>1. k > 0 => 1 \in 1 .. k
                BY <1>3
            <3>. QED  BY <1>3, <3>1 DEF NumberedTo
        <2>. QED  BY <1>3, <2>1
    <1>5. k * p \in Int /\ (k - 1) * p = k * p - p
        BY <1>2, Multiples
    <1>6. n < o + k * p /\ (k > 0 => o + (k - 1) * p <= n)
        BY <1>2, <1>3, <1>5, <1>4
    <1>7. Planned(config, t, k, n)
        BY <1>0, <1>6 DEF Planned
    <1>8. Planned(config, t, RefAt(config, n).count[t], n)
        BY <1>1, ReferenceCounts
    <1>9. k = RefAt(config, n).count[t]
        BY <1>1, <1>7, <1>8, PlannedOnce
    <1>. QED  BY <1>3, <1>9

\* What the reference had counted before the tick is what was released before it.
LEMMA CountedBefore ==
    ASSUME PlanInv, stage \notin {"initialize", "failed"}
    PROVE  LET s == RefAt(config, tick - 1)
           IN  /\ \A t \in TaskIds : s.count[t] \in Nat /\ \A k \in 1 .. s.count[t] : <<t, k>> \in Released
               /\ \A j \in Released : jobs[j].release < tick <=> j[2] <= s.count[j[1]]
    <1>0. PICK s : s = RefAt(config, tick - 1)
        OBVIOUS
    <1>1. TypeOK /\ ValidConfig(config) /\ tick \in Nat /\ config.stop \in Nat /\ tick <= config.stop
        BY ConfigType DEF PlanInv, KernelInv, StateInv, TypeOK, PositionSound
    <1>2. \A t \in TaskIds : Planned(config, t, s.count[t], tick - 1)
        <2>1. tick - 1 \in Nat \cup {-1}
            BY <1>1
        <2>. QED  BY <1>0, <1>1, <2>1, ReferenceCounts
    <1>3. ASSUME NEW t \in TaskIds, NEW k \in 1 .. s.count[t]
          PROVE  <<t, k>> \in Released
        <2>0. PICK p, o, c : p = config.task[t].period /\ o = config.task[t].offset /\ c = s.count[t]
            OBVIOUS
        <2>1. p \in Nat /\ o \in Nat /\ c \in Nat /\ k \in 1 .. c
            BY <1>1, <1>2, <2>0, ConfigType DEF Planned
        <2>2. o + (c - 1) * p <= tick - 1
            BY <1>2, <2>0, <2>1 DEF Planned
        <2>3. PICK m \in Nat : /\ NumberedTo(t, m)
                               /\ \/ o + m * p > config.stop
                                  \/ \E e \in queue.events \cup batch :
                                         e.phase = "JobRelease" /\ e.tick = o + m * p /\ e.tick >= tick
            BY <2>0, EngineCounts
        <2>4. o + m * p >= tick
            <3>1. m * p \in Int
                BY <2>1, Multiples
            <3>. QED  BY <1>1, <2>1, <2>3, <3>1
        <2>5. ~ (m < c)
            <3>1. SUFFICES ASSUME m < c PROVE FALSE
                OBVIOUS
            <3>2. m * p \in Int /\ c * p \in Int /\ (c - 1) * p = c * p - p
                BY <2>1, Multiples
            <3>3. m * p + p <= c * p
                BY <2>1, <3>1, MultiplesApart
            <3>. QED  BY <1>1, <2>1, <2>2, <2>4, <3>2, <3>3
        <2>6. k \in 1 .. m
            BY <2>1, <2>5
        <2>. QED  BY <2>3, <2>6 DEF NumberedTo
    <1>4. ASSUME NEW j \in Released
          PROVE  jobs[j].release < tick <=> j[2] <= s.count[j[1]]
        <2>0. PICK p, o, c, k : /\ p = config.task[j[1]].period /\ o = config.task[j[1]].offset
                                /\ c = s.count[j[1]] /\ k = j[2]
            OBVIOUS
        <2>1. j[1] \in TaskIds /\ k \in Nat
            BY <1>1, <2>0, JobFacts
        <2>2. p \in Nat /\ o \in Nat /\ c \in Nat
            BY <1>1, <1>2, <2>0, <2>1, ConfigType DEF Planned
        <2>3. (c > 0 => o + (c - 1) * p <= tick - 1) /\ tick - 1 < o + c * p
            BY <1>2, <2>0, <2>1 DEF Planned
        <2>4. jobs[j].release = o + (k - 1) * p /\ k >= 1
            BY <2>0 DEF PlanInv, JobsPlanned
        <2>5. /\ k * p \in Int /\ c * p \in Int /\ (k - 1) * p = k * p - p /\ (c - 1) * p = c * p - p
            BY <2>1, <2>2, Multiples
        <2>6. CASE k <= c
            <3>1. k * p <= c * p
                BY <2>1, <2>2, <2>5, <2>6, MultiplesApart
            <3>. QED  BY <1>1, <2>0, <2>1, <2>2, <2>3, <2>4, <2>5, <2>6, <3>1
        <2>7. CASE c < k
            <3>0. PICK x, y : x = k * p /\ y = c * p
                OBVIOUS
            <3>1. y + p <= x
                BY <2>1, <2>2, <2>7, <3>0, MultiplesApart
            <3>2. x \in Int /\ y \in Int /\ (k - 1) * p = x - p
                BY <2>5, <3>0
            <3>3. tick - 1 < o + y /\ jobs[j].release = o + (x - p)
                BY <2>3, <2>4, <3>0, <3>2
            <3>4. ~ (jobs[j].release < tick)
                BY <1>1, <2>2, <3>1, <3>2, <3>3
            <3>5. ~ (j[2] <= s.count[j[1]])
                BY <2>0, <2>1, <2>2, <2>7
            <3>. QED  BY <3>4, <3>5
        <2>8. k <= c \/ c < k
            BY <2>1, <2>2
        <2>. QED  BY <2>6, <2>7, <2>8, Zenon
    <1>5. \A t \in TaskIds : s.count[t] \in Nat
        BY <1>2 DEF Planned
    <1>. QED  BY <1>0, <1>3, <1>4, <1>5

\* An incomplete job is the latest of its task.
LEMMA LatestNumber ==
    ASSUME TypeOK, JobsPlanned, NEW j \in Released, Active(j), NEW k \in Nat, NumberedTo(j[1], k)
    PROVE  j[2] = k
    <1>1. j[2] \in 1 .. k /\ j[1] \in TaskIds /\ j[2] \in Nat
        BY JobFacts DEF NumberedTo
    <1>2. k \in 1 .. k
        BY <1>1
    <1>3. <<j[1], k>> \in Released
        BY <1>2 DEF NumberedTo
    <1>4. k <= j[2]
        BY <1>3 DEF JobsPlanned
    <1>. QED  BY <1>1, <1>4

\* A task has one incomplete job at most.
LEMMA OneActiveJob ==
    ASSUME TypeOK, JobsPlanned, NEW j \in Released, NEW k \in Released, Active(j), Active(k), j[1] = k[1]
    PROVE  j = k
    <1>1. j = <<j[1], j[2]>> /\ k = <<k[1], k[2]>> /\ j[2] \in Nat /\ k[2] \in Nat
        BY JobFacts
    <1>2. j[2] <= k[2] /\ k[2] <= j[2]
        BY DEF JobsPlanned
    <1>3. j[2] = k[2]
        BY <1>1, <1>2
    <1>. QED  BY <1>1, <1>3
-----------------------------------------------------------------------------
(* Agreement of the engine's state with the reference's. *)

\* The task that runs on resource r.
OwnerOf(r) == IF Idle(r) THEN Nobody ELSE resource[r].running[1]

\* Jobs that completed, and what the reference records of one.
Finished == {j \in Released : ~ Active(j)}
FinishOf(j) == <<j[1], j[2], jobs[j].finish>>

\* left is the work that the incomplete jobs among J still need at tick n.
WorkSound(left, J, n) ==
    /\ left \in [TaskIds -> Nat]
    /\ \A j \in J : Active(j) => left[j[1]] = LeftAt(j, n)
    /\ \A t \in TaskIds : left[t] > 0 => \E j \in J : j[1] = t /\ Active(j)

\* The engine's state is the reference's after tick n.
Agrees(n) ==
    LET s == RefAt(config, n)
    IN  /\ ~ s.overlap
        /\ \A t \in TaskIds : NumberedTo(t, s.count[t])
        /\ WorkSound(s.left, Released, n)
        /\ s.done = {FinishOf(j) : j \in Finished}
        /\ s.missed = {j \in Released : jobs[j].missed}
        /\ \A r \in ResourceIds : s.owner[r] = OwnerOf(r)

\* Within a tick the engine has done a part of the step that the reference takes from s.
Earlier == {j \in Released : jobs[j].release < tick}

\* The jobs of earlier ticks need what the reference has left over, new ones their full demand.
WorkWithin(s) ==
    /\ WorkSound(LeftOver(s), Earlier, tick)
    /\ \A j \in Released \ Earlier : Active(j) /\ LeftAt(j, tick) = Demand(config, j[1])

\* Jobs that completed before this tick are the recorded ones; those that complete in it, and
\* only those, are the ones the reference finds finishing.
FinishesWithin(s) ==
    /\ s.done = {FinishOf(j) : j \in {k \in Finished : jobs[k].finish < tick}}
    /\ \A j \in Finished : jobs[j].finish = tick => j[1] \in Finishing(s) /\ j[2] = s.count[j[1]]
    /\ \A t \in Finishing(s) :
           LET j == <<t, s.count[t]>>
           IN  j \in Released /\ (Active(j) \/ jobs[j].finish = tick)

\* The misses of earlier ticks are the recorded ones.
MissesWithin(s) == s.missed = {j \in Released : jobs[j].missed /\ jobs[j].deadline < tick}

\* Until its decision a resource holds the owner of the last tick; after it, the new one.
OwnerWithin(s, r) ==
    /\ Undecided(r) =>
           /\ Idle(r) => s.owner[r] = Nobody \/ s.owner[r] \in Finishing(s)
           /\ ~ Idle(r) => s.owner[r] = resource[r].running[1] /\ jobs[resource[r].running].release < tick
    /\ Decided(r) => OwnerAt(config, s, tick, r) = OwnerOf(r)

\* The parts of the agreement inside of a tick.
Within(s) ==
    /\ ~ s.overlap /\ WorkWithin(s) /\ FinishesWithin(s) /\ MissesWithin(s)
    /\ \A r \in ResourceIds : OwnerWithin(s, r)

\* The stages of a tick.
TickStages == {"settle", "publish", "release", "schedule", "act"}

\* Between ticks and at the end the two states are the same.
AgreesBetween ==
    /\ stage = "between" /\ trace # <<>> => Agrees(tick)
    /\ stage = "finished" => Agrees(config.stop)

\* Within a tick the engine is on its way from the last tick's state.
AgreesWithin == stage \in TickStages => Within(RefAt(config, tick - 1))

\* The engine stops for an overlap only where the reference has one.
OverlapAgrees == fault = "self_overlap" => stage = "failed" /\ RefAt(config, tick).overlap

\* The inductive invariant of the agreement.
AgreementInv == AgreesBetween /\ AgreesWithin /\ OverlapAgrees
-----------------------------------------------------------------------------
(* The reference decides as the engine does, given the same incomplete jobs. *)

\* count and left name the incomplete jobs: each is the last counted one of its task and
\* has work left.
Tracks(count, left) ==
    /\ count \in [TaskIds -> Nat]
    /\ \A j \in Released : Active(j) => j[2] = count[j[1]] /\ left[j[1]] > 0
    /\ \A t \in TaskIds : left[t] > 0 => \E j \in Released : j[1] = t /\ Active(j)

\* A task in need of r has an incomplete job on r, released when the count says.
LEMMA NeedyJob ==
    ASSUME TypeOK, JobsPlanned, NEW count, NEW left, Tracks(count, left), NEW r, NEW t \in Needy(config, left, r)
    PROVE  \E j \in Released : /\ j[1] = t /\ Active(j) /\ jobs[j].resource = r
                               /\ LatestRelease(config, count, t) = jobs[j].release
                               /\ config.task[t].priority = jobs[j].priority
    <1>1. t \in TaskIds /\ config.assignment[t] = r /\ left[t] > 0
        BY DEF Needy
    <1>2. PICK j \in Released : j[1] = t /\ Active(j)
        BY <1>1 DEF Tracks
    <1>3. j[2] = count[t]
        BY <1>2 DEF Tracks
    <1>4. jobs[j].resource = r /\ jobs[j].release = LatestRelease(config, count, t)
        BY <1>1, <1>2, <1>3 DEF JobsPlanned, LatestRelease
    <1>5. jobs[j].priority = config.task[t].priority
        BY <1>2 DEF JobsPlanned
    <1>. QED  BY <1>2, <1>4, <1>5

\* The task of an incomplete job needs the resource of the job.
LEMMA JobNeeds ==
    ASSUME TypeOK, JobsPlanned, NEW count, NEW left, Tracks(count, left), NEW j \in Released, Active(j)
    PROVE  /\ j[1] \in Needy(config, left, jobs[j].resource)
           /\ LatestRelease(config, count, j[1]) = jobs[j].release
           /\ config.task[j[1]].priority = jobs[j].priority
    <1>1. j[1] \in TaskIds
        BY JobFacts
    <1>2. j[2] = count[j[1]] /\ left[j[1]] > 0
        BY DEF Tracks
    <1>3. config.assignment[j[1]] = jobs[j].resource
        BY DEF JobsPlanned
    <1>4. jobs[j].release = LatestRelease(config, count, j[1])
        BY <1>2 DEF JobsPlanned, LatestRelease
    <1>5. jobs[j].priority = config.task[j[1]].priority
        BY DEF JobsPlanned
    <1>. QED  BY <1>1, <1>2, <1>3, <1>4, <1>5 DEF Needy

\* An incomplete job waits for its resource or runs on it.
LEMMA ActiveWhere ==
    ASSUME TypeOK, MembershipAgrees, NEW j \in Released, Active(j)
    PROVE  j \in ready[jobs[j].resource] \/ resource[jobs[j].resource].running = j
    <1>1. jobs[j].resource \in ResourceIds /\ jobs[j].lifecycle \in JobLifecycle
        BY JobFacts DEF JobState
    <1>. QED  BY <1>1 DEF MembershipAgrees, Active, JobLifecycle

\* Nobody waits and nothing runs: nobody needs the resource.
LEMMA IdleIsNobodys ==
    ASSUME TypeOK, MembershipAgrees, JobsPlanned, NEW count, NEW left, Tracks(count, left),
           NEW r \in ResourceIds, Idle(r), ready[r] = {}, NEW i
    PROVE  OwnerAfter(config, count, left, r, i) = Nobody
    <1>1. Needy(config, left, r) = {}
        <2>1. SUFFICES ASSUME NEW t \in Needy(config, left, r) PROVE FALSE
            OBVIOUS
        <2>2. PICK j \in Released : Active(j) /\ jobs[j].resource = r
            BY <2>1, NeedyJob
        <2>3. j # NoJob
            BY JobFacts
        <2>. QED  BY <2>2, <2>3, ActiveWhere DEF Idle
    <1>. QED  BY <1>1, NobodyTakes

\* What runs stays the owner if the mode or its priority protects it.
LEMMA RunningStays ==
    ASSUME TypeOK, MembershipAgrees, JobsPlanned, NEW count, NEW left, Tracks(count, left),
           NEW r \in ResourceIds, ~ Idle(r),
           \/ config.mode = "NonPreemptive"
           \/ \A j \in ready[r] : jobs[resource[r].running].priority <= jobs[j].priority
    PROVE  OwnerAfter(config, count, left, r, resource[r].running[1]) = resource[r].running[1]
    <1>0. PICK p : p = resource[r].running
        OBVIOUS
    <1>1. p \in Released /\ jobs[p].resource = r /\ Active(p)
        BY <1>0 DEF MembershipAgrees, Active
    <1>2. /\ p[1] \in Needy(config, left, r) /\ config.task[p[1]].priority = jobs[p].priority
          /\ jobs[p].priority \in Nat
        BY <1>1, JobNeeds, JobFacts
    <1>3. ASSUME NEW t \in Needy(config, left, r)
          PROVE  /\ LatestRelease(config, count, t) \in Nat
                 /\ config.mode = "NonPreemptive" \/ config.task[p[1]].priority <= config.task[t].priority
        <2>1. PICK j \in Released : /\ j[1] = t /\ Active(j) /\ jobs[j].resource = r
                                    /\ LatestRelease(config, count, t) = jobs[j].release
                                    /\ config.task[t].priority = jobs[j].priority
            BY <1>3, NeedyJob
        <2>2. jobs[j].release \in Nat
            BY JobFacts
        <2>3. CASE j = p
            BY <1>2, <2>1, <2>2, <2>3
        <2>4. CASE j # p
            <3>1. j \in ready[r]
                BY <1>0, <2>1, <2>4, ActiveWhere
            <3>. QED  BY <1>0, <1>2, <2>1, <2>2, <3>1
        <2>. QED  BY <2>3, <2>4
    <1>4. ValidConfig(config)
        BY DEF TypeOK
    <1>5. config.mode = "NonPreemptive" \/ \A t \in Needy(config, left, r) : config.task[p[1]].priority <= config.task[t].priority
        BY <1>3
    <1>6. OwnerAfter(config, count, left, r, p[1]) = p[1]
        BY <1>2, <1>3, <1>4, <1>5, IncumbentStays
    <1>. QED  BY <1>0, <1>6

\* The selected job takes a resource that is idle or whose job it outranks.
LEMMA SelectedTakes ==
    ASSUME TypeOK, MembershipAgrees, JobsPlanned, NEW count, NEW left, Tracks(count, left),
           NEW r \in ResourceIds, NEW j \in Released, Selected(r, j), NEW i,
           \/ Idle(r) /\ i = Nobody
           \/ /\ ~ Idle(r) /\ i = resource[r].running[1]
              /\ config.mode # "NonPreemptive" /\ ShouldPreempt(resource[r].running, j)
    PROVE  OwnerAfter(config, count, left, r, i) = j[1]
    <1>1. ValidConfig(config) /\ count \in [TaskIds -> Nat]
        BY DEF TypeOK, Tracks
    <1>2. Active(j) /\ jobs[j].resource = r
        BY DEF Selected, MembershipAgrees, Active
    <1>3. /\ j[1] \in Needy(config, left, r) /\ LatestRelease(config, count, j[1]) = jobs[j].release
          /\ config.task[j[1]].priority = jobs[j].priority
        BY <1>2, JobNeeds
    <1>4. jobs[j].priority \in Nat /\ jobs[j].release \in Nat
        BY JobFacts
    <1>5. ASSUME NEW t \in Needy(config, left, r)
          PROVE  ~ Outranks(config, count, t, j[1])
        <2>1. PICK k \in Released : /\ k[1] = t /\ Active(k) /\ jobs[k].resource = r
                                    /\ LatestRelease(config, count, t) = jobs[k].release
                                    /\ config.task[t].priority = jobs[k].priority
            BY <1>5, NeedyJob
        <2>2. jobs[k].release \in Nat /\ jobs[k].priority \in Nat
            BY JobFacts
        <2>3. Outranks(config, count, t, j[1]) <=>
                  \/ jobs[k].priority < jobs[j].priority
                  \/ /\ jobs[k].priority = jobs[j].priority
                     /\ \/ jobs[k].release < jobs[j].release
                        \/ jobs[k].release = jobs[j].release /\ k[1] < j[1]
            BY <1>3, <2>1 DEF Outranks
        <2>4. CASE k \in ready[r]
            <3>1. ~ ComesBefore(k, j)
                BY <2>4 DEF Selected
            <3>. QED  BY <2>3, <3>1 DEF ComesBefore
        <2>5. CASE resource[r].running = k
            <3>1. ~ Idle(r)
                BY <2>5, JobFacts DEF Idle
            <3>2. jobs[j].priority < jobs[k].priority
                BY <2>5, <3>1 DEF ShouldPreempt
            <3>. QED  BY <1>4, <2>2, <2>3, <3>2
        <2>. QED  BY <2>1, <2>4, <2>5, ActiveWhere
    <1>6. \/ i \notin Needy(config, left, r)
          \/ config.mode # "NonPreemptive" /\ i \in TaskIds /\ config.task[j[1]].priority < config.task[i].priority
        <2>1. CASE Idle(r) /\ i = Nobody
            <3>1. Nobody \notin TaskIds
                BY ConfigAssumption DEF Nobody
            <3>. QED  BY <2>1, <3>1 DEF Needy
        <2>2. CASE /\ ~ Idle(r) /\ i = resource[r].running[1]
                   /\ config.mode # "NonPreemptive" /\ ShouldPreempt(resource[r].running, j)
            <3>0. PICK p : p = resource[r].running
                OBVIOUS
            <3>1. p \in Released /\ jobs[p].resource = r /\ Active(p)
                BY <2>2, <3>0 DEF MembershipAgrees, Active
            <3>2. p[1] \in TaskIds /\ config.task[p[1]].priority = jobs[p].priority
                BY <3>1, JobFacts DEF JobsPlanned
            <3>3. jobs[j].priority < jobs[p].priority
                BY <2>2, <3>0 DEF ShouldPreempt
            <3>. QED  BY <1>3, <2>2, <3>0, <3>2, <3>3
        <2>. QED  BY <2>1, <2>2
    <1>. QED  BY <1>1, <1>3, <1>5, <1>6, FirstTakes
-----------------------------------------------------------------------------
(* Ticks in which nothing is pending. *)

\* What executes on a busy resource.
LEMMA RunningFacts ==
    ASSUME KernelInv, NEW r \in ResourceIds, ~ Idle(r)
    PROVE  LET p == resource[r].running
           IN  /\ p \in Released /\ Active(p) /\ jobs[p].resource = r
               /\ p[1] \in TaskIds /\ p[1] # Nobody
               /\ resource[r].since \in Int /\ resource[r].expected \in Int
               /\ resource[r].expected = resource[r].since + jobs[p].remaining
               /\ jobs[p].remaining \in Nat
               /\ \A n \in Int : LeftAt(p, n) = resource[r].expected - n
    <1>0. PICK p, a, b, m : p = resource[r].running /\ a = resource[r].since /\ b = resource[r].expected
                            /\ m = jobs[p].remaining
        OBVIOUS
    <1>1. TypeOK /\ MembershipAgrees /\ IntervalsExact
        BY DEF KernelInv, StateInv
    <1>2. p \in Released /\ Active(p) /\ jobs[p].resource = r
        BY <1>0, <1>1 DEF MembershipAgrees, Active
    <1>3. p[1] \in TaskIds /\ m \in Nat
        BY <1>0, <1>1, <1>2, JobFacts
    <1>4. p[1] # Nobody
        BY <1>3, ConfigAssumption DEF Nobody
    <1>5. a \in Int /\ b \in Int /\ b = a + m
        BY <1>0, <1>1 DEF IntervalsExact, TypeOK, ResourceState
    <1>6. ASSUME NEW n \in Int PROVE LeftAt(p, n) = b - n
        <2>1. LeftAt(p, n) = m - (n - a)
            BY <1>0, <1>2 DEF LeftAt
        <2>. QED  BY <2>1, <1>3, <1>5
    <1>. QED  BY <1>0, <1>2, <1>3, <1>4, <1>5, <1>6

\* The work of the open interval after one more tick.
LEMMA Elapse ==
    ASSUME KernelInv, JobsPlanned, NEW n \in Int, NEW s, WorkSound(s.left, Released, n - 1),
           \A r \in ResourceIds : s.owner[r] = OwnerOf(r),
           \A r \in ResourceIds : ~ Idle(r) => resource[r].expected >= n
    PROVE  /\ WorkSound(LeftOver(s), Released, n)
           /\ \A t \in Finishing(s) :
                  \E r \in ResourceIds : /\ ~ Idle(r) /\ t = resource[r].running[1]
                                         /\ resource[r].expected = n
    <1>0. TypeOK /\ MembershipAgrees /\ n - 1 \in Int
        BY DEF KernelInv, StateInv
    <1>1. s.left \in [TaskIds -> Nat]
        BY DEF WorkSound
    <1>2. ASSUME NEW r \in ResourceIds, ~ Idle(r)
          PROVE  LET t == resource[r].running[1]
                 IN  /\ t \in Worked(s) /\ t \in TaskIds /\ s.left[t] = resource[r].expected - (n - 1)
                     /\ LeftOver(s)[t] = resource[r].expected - n
        <2>0. PICK p, b : p = resource[r].running /\ b = resource[r].expected
            OBVIOUS
        <2>1. p \in Released /\ Active(p) /\ p[1] \in TaskIds /\ p[1] # Nobody /\ b \in Int
            BY <1>2, <2>0, RunningFacts
        <2>2. LeftAt(p, n - 1) = b - (n - 1)
            BY <1>0, <1>2, <2>0, RunningFacts
        <2>3. s.owner[r] = p[1]
            BY <1>2, <2>0 DEF OwnerOf
        <2>4. p[1] \in Worked(s)
            BY <2>1, <2>3 DEF Worked
        <2>5. s.left[p[1]] = b - (n - 1)
            BY <2>1, <2>2 DEF WorkSound
        <2>6. LeftOver(s)[p[1]] = b - n
            BY <2>1, <2>4, <2>5 DEF LeftOver
        <2>. QED  BY <2>0, <2>1, <2>4, <2>5, <2>6
    <1>3. ASSUME NEW t \in Worked(s)
          PROVE  \E r \in ResourceIds : ~ Idle(r) /\ t = resource[r].running[1]
        <2>1. PICK r \in ResourceIds : t = s.owner[r] /\ t # Nobody
            BY <1>3 DEF Worked
        <2>2. OwnerOf(r) # Nobody /\ t = OwnerOf(r)
            BY <2>1
        <2>. QED  BY <2>1, <2>2 DEF OwnerOf
    <1>4. ASSUME NEW t \in TaskIds
          PROVE  LeftOver(s)[t] \in Nat /\ (LeftOver(s)[t] > 0 => s.left[t] > 0)
        <2>1. CASE t \in Worked(s)
            <3>1. PICK r \in ResourceIds : ~ Idle(r) /\ t = resource[r].running[1]
                BY <1>3, <2>1
            <3>2. PICK b : b = resource[r].expected
                OBVIOUS
            <3>3. b \in Int /\ b >= n
                BY <3>1, <3>2, RunningFacts
            <3>4. s.left[t] = b - (n - 1) /\ LeftOver(s)[t] = b - n
                BY <1>2, <3>1, <3>2
            <3>. QED  BY <3>3, <3>4
        <2>2. CASE t \notin Worked(s)
            BY <1>1, <2>2 DEF LeftOver
        <2>. QED  BY <2>1, <2>2
    <1>5. LeftOver(s) \in [TaskIds -> Nat]
        <2>1. LeftOver(s) = [t \in TaskIds |-> LeftOver(s)[t]]
            BY DEF LeftOver
        <2>. QED  BY <1>4, <2>1
    <1>6. ASSUME NEW j \in Released, Active(j)
          PROVE  LeftOver(s)[j[1]] = LeftAt(j, n)
        <2>0. PICK r : r = jobs[j].resource
            OBVIOUS
        <2>1. r \in ResourceIds /\ j # NoJob /\ j[1] \in TaskIds
            BY <1>0, <2>0, JobFacts
        <2>2. CASE resource[r].running = j
            <3>1. ~ Idle(r)
                BY <2>1, <2>2 DEF Idle
            <3>2. LeftAt(j, n) = resource[r].expected - n
                BY <2>1, <2>2, <3>1, RunningFacts
            <3>. QED  BY <1>2, <2>1, <2>2, <3>1, <3>2
        <2>3. CASE resource[r].running # j
            <3>1. j[1] \notin Worked(s)
                <4>1. SUFFICES ASSUME j[1] \in Worked(s) PROVE FALSE
                    OBVIOUS
                <4>2. PICK q \in ResourceIds : ~ Idle(q) /\ j[1] = resource[q].running[1]
                    BY <1>3, <4>1
                <4>3. /\ resource[q].running \in Released /\ Active(resource[q].running)
                      /\ jobs[resource[q].running].resource = q
                    BY <4>2, RunningFacts
                <4>4. resource[q].running = j
                    BY <1>0, <1>6, <4>2, <4>3, OneActiveJob
                <4>. QED  BY <2>0, <2>3, <4>3, <4>4
            <3>2. LeftOver(s)[j[1]] = s.left[j[1]]
                BY <2>1, <3>1 DEF LeftOver
            <3>3. s.left[j[1]] = LeftAt(j, n - 1)
                BY <1>6 DEF WorkSound
            <3>4. LeftAt(j, n - 1) = LeftAt(j, n)
                BY <2>0, <2>3 DEF LeftAt
            <3>. QED  BY <3>2, <3>3, <3>4
        <2>. QED  BY <2>2, <2>3
    <1>7. ASSUME NEW t \in TaskIds, LeftOver(s)[t] > 0
          PROVE  \E j \in Released : j[1] = t /\ Active(j)
        BY <1>4, <1>7 DEF WorkSound
    <1>8. ASSUME NEW t \in Finishing(s)
          PROVE  \E r \in ResourceIds : ~ Idle(r) /\ t = resource[r].running[1] /\ resource[r].expected = n
        <2>1. t \in Worked(s) /\ LeftOver(s)[t] = 0
            BY <1>8 DEF Finishing
        <2>2. PICK r \in ResourceIds : ~ Idle(r) /\ t = resource[r].running[1]
            BY <1>3, <2>1
        <2>3. resource[r].expected - n = 0 /\ resource[r].expected \in Int
            BY <1>2, <2>1, <2>2, RunningFacts
        <2>. QED  BY <2>2, <2>3
    <1>9. WorkSound(LeftOver(s), Released, n)
        BY <1>5, <1>6, <1>7 DEF WorkSound
    <1>. QED  BY <1>8, <1>9

\* Work of the incomplete jobs, none of which ends now, tracks them.
LEMMA WorkTracks ==
    ASSUME KernelInv, JobsPlanned, NEW n \in Int, NEW left, WorkSound(left, Released, n),
           NEW count \in [TaskIds -> Nat], \A t \in TaskIds : NumberedTo(t, count[t]),
           \A r \in ResourceIds : ~ Idle(r) => resource[r].expected > n
    PROVE  /\ Tracks(count, left)
           /\ \A j \in Released : Active(j) => LeftAt(j, n) > 0
    <1>1. TypeOK
        BY DEF KernelInv, StateInv
    <1>2. ASSUME NEW j \in Released, Active(j)
          PROVE  LeftAt(j, n) > 0 /\ j[2] = count[j[1]]
        <2>0. PICK r : r = jobs[j].resource
            OBVIOUS
        <2>1. j[1] \in TaskIds /\ r \in ResourceIds /\ j # NoJob
            BY <1>1, <2>0, JobFacts
        <2>2. count[j[1]] \in Nat /\ NumberedTo(j[1], count[j[1]])
            BY <2>1
        <2>3. j[2] = count[j[1]]
            BY <1>1, <1>2, <2>2, LatestNumber
        <2>4. CASE resource[r].running = j
            <3>1. ~ Idle(r)
                BY <2>1, <2>4 DEF Idle
            <3>2. LeftAt(j, n) = resource[r].expected - n /\ resource[r].expected \in Int
                BY <2>1, <2>4, <3>1, RunningFacts
            <3>3. resource[r].expected > n
                BY <2>1, <3>1
            <3>. QED  BY <2>3, <3>2, <3>3
        <2>5. CASE resource[r].running # j
            <3>1. LeftAt(j, n) = jobs[j].remaining
                BY <2>0, <2>5 DEF LeftAt
            <3>2. jobs[j].remaining > 0
                BY <1>2 DEF KernelInv, JobsSound
            <3>. QED  BY <2>3, <3>1, <3>2
        <2>. QED  BY <2>4, <2>5
    <1>3. \A j \in Released : Active(j) => left[j[1]] > 0
        BY <1>2 DEF WorkSound
    <1>. QED  BY <1>2, <1>3 DEF Tracks, WorkSound

\* The decision that stands is the one the reference takes again.
LEMMA DecisionStands ==
    ASSUME KernelInv, JobsPlanned, NEW count, NEW left, Tracks(count, left), NEW r \in ResourceIds, Decided(r)
    PROVE  OwnerAfter(config, count, left, r, OwnerOf(r)) = OwnerOf(r)
    <1>1. TypeOK /\ MembershipAgrees /\ ScheduleSound
        BY DEF KernelInv, StateInv
    <1>2. CASE Idle(r)
        <2>1. ready[r] = {}
            BY <1>1, <1>2 DEF ScheduleSound
        <2>2. OwnerAfter(config, count, left, r, OwnerOf(r)) = Nobody
            BY <1>1, <1>2, <2>1, IdleIsNobodys
        <2>. QED  BY <1>2, <2>2 DEF OwnerOf
    <1>3. CASE ~ Idle(r)
        <2>1. \/ config.mode = "NonPreemptive"
              \/ \A j \in ready[r] : jobs[resource[r].running].priority <= jobs[j].priority
            <3>1. config.mode \in {"Preemptive", "NonPreemptive"}
                BY <1>1 DEF TypeOK, ValidConfig, Config, PreemptionMode
            <3>2. CASE config.mode = "Preemptive"
                <4>1. ASSUME NEW j \in ready[r]
                      PROVE  jobs[resource[r].running].priority <= jobs[j].priority
                    <5>1. j \in Released /\ resource[r].running \in Released
                        BY <1>1, <1>3 DEF MembershipAgrees
                    <5>2. jobs[j].priority \in Nat /\ jobs[resource[r].running].priority \in Nat
                        BY <1>1, <5>1, JobFacts
                    <5>3. ~ (jobs[j].priority < jobs[resource[r].running].priority)
                        BY <1>1, <1>3, <3>2 DEF ScheduleSound
                    <5>. QED  BY <5>2, <5>3
                <4>. QED  BY <4>1
            <3>. QED  BY <3>1, <3>2
        <2>2. OwnerAfter(config, count, left, r, resource[r].running[1]) = resource[r].running[1]
            BY <1>1, <1>3, <2>1, RunningStays
        <2>. QED  BY <1>3, <2>2 DEF OwnerOf
    <1>. QED  BY <1>2, <1>3

\* A busy resource runs past every tick before the next pending event.
LEMMA RunsOn ==
    ASSUME KernelInv, NEW n \in Int, n <= config.stop, \A e \in queue.events : e.tick > n,
           NEW r \in ResourceIds, ~ Idle(r)
    PROVE  resource[r].expected > n
    <1>1. TypeOK /\ CompletionsSound
        BY DEF KernelInv, StateInv
    <1>2. resource[r].expected \in Int /\ config.stop \in Nat
        BY <1>1, RunningFacts, ConfigType
    <1>3. CASE resource[r].expected <= config.stop
        BY <1>1, <1>3, EndIsPending
    <1>4. CASE resource[r].expected > config.stop
        BY <1>2, <1>4
    <1>. QED  BY <1>2, <1>3, <1>4

\* In a tick in which nothing is pending the reference does nothing but work.
LEMMA GapTick ==
    ASSUME PlanInv, stage \in {"act", "between"}, NEW n \in Nat, n <= config.stop, tick <= n - 1 \/ Released = {},
           Agrees(n - 1), \A e \in queue.events : e.tick > n
    PROVE  Agrees(n)
    <1>0. PICK s, u : s = RefAt(config, n - 1) /\ u = RefAt(config, n)
        OBVIOUS
    <1>1. /\ KernelInv /\ TypeOK /\ MembershipAgrees /\ JobsPlanned /\ ValidConfig(config)
          /\ tick \in Nat /\ config.stop \in Nat /\ batch = {} /\ n - 1 \in Int
        BY ConfigType DEF PlanInv, KernelInv, StateInv, TypeOK, PositionSound
    <1>2. /\ ~ s.overlap /\ \A t \in TaskIds : NumberedTo(t, s.count[t])
          /\ WorkSound(s.left, Released, n - 1)
          /\ s.done = {FinishOf(j) : j \in Finished} /\ s.missed = {j \in Released : jobs[j].missed}
          /\ \A r \in ResourceIds : s.owner[r] = OwnerOf(r)
        BY <1>0 DEF Agrees
    <1>3. /\ u.count = CountAt(config, s, n) /\ u.left = NeedAt(config, s, n)
          /\ u.owner = [r \in ResourceIds |-> OwnerAt(config, s, n, r)]
          /\ u.done = s.done \cup {<<t, s.count[t], n>> : t \in Finishing(s)}
          /\ u.missed = s.missed \cup {<<t, s.count[t]>> : t \in Late(config, s, n)}
          /\ u.overlap = (s.overlap \/ \E t \in Fresh(config, n) : LeftOver(s)[t] > 0)
        BY <1>0, TickFields
    <1>4. \A r \in ResourceIds : ~ Idle(r) => resource[r].expected > n
        BY <1>1, RunsOn
    <1>5. /\ WorkSound(LeftOver(s), Released, n)
          /\ \A t \in Finishing(s) :
                 \E r \in ResourceIds : ~ Idle(r) /\ t = resource[r].running[1] /\ resource[r].expected = n
        <2>1. \A r \in ResourceIds : ~ Idle(r) => resource[r].expected >= n
            BY <1>1, <1>4, RunningFacts
        <2>2. n \in Int
            OBVIOUS
        <2>. QED  BY <1>1, <1>2, <2>1, <2>2, Elapse
    <1>6. Finishing(s) = {}
        BY <1>4, <1>5
    <1>7. \A t \in TaskIds : NumberedTo(t, u.count[t])
        <2>1. \A e \in queue.events \cup batch : e.phase = "JobRelease" => e.tick > n
            BY <1>1
        <2>2. stage \notin {"initialize", "failed"} /\ (tick <= n \/ Released = {})
            BY <1>1
        <2>. QED  BY <1>0, <1>1, <2>1, <2>2, NumberedThrough
    <1>8. \A t \in TaskIds : s.count[t] \in Nat /\ u.count[t] \in Nat
        <2>1. n - 1 \in Nat \cup {-1} /\ n \in Nat \cup {-1}
            OBVIOUS
        <2>. QED  BY <1>0, <1>1, <2>1, ReferenceCounts DEF Planned
    <1>9. Fresh(config, n) = {}
        <2>1. SUFFICES ASSUME NEW t \in Fresh(config, n) PROVE FALSE
            OBVIOUS
        <2>2. t \in TaskIds
            BY DEF Fresh
        <2>3. u.count[t] = s.count[t] + 1
            BY <1>3, <2>1, <2>2 DEF CountAt
        <2>4. u.count[t] = s.count[t]
            BY <1>2, <1>7, <1>8, <2>2, NumberedOnce
        <2>. QED  BY <1>8, <2>2, <2>3, <2>4
    <1>10. Late(config, s, n) = {}
        <2>1. SUFFICES ASSUME NEW t \in Late(config, s, n) PROVE FALSE
            OBVIOUS
        <2>2. t \in TaskIds /\ LeftOver(s)[t] > 0 /\ LatestRelease(config, s.count, t) + config.task[t].deadline = n
            BY <2>1 DEF Late
        <2>3. PICK j \in Released : j[1] = t /\ Active(j)
            BY <1>5, <2>2 DEF WorkSound
        <2>4. j[2] = s.count[t]
            BY <1>1, <1>2, <1>8, <2>2, <2>3, LatestNumber
        <2>5. jobs[j].deadline = n
            <3>1. jobs[j].release = LatestRelease(config, s.count, t)
                BY <1>1, <2>3, <2>4 DEF JobsPlanned, LatestRelease
            <3>2. jobs[j].deadline = jobs[j].release + config.task[t].deadline
                BY <1>1, <2>3 DEF JobsPlanned
            <3>. QED  BY <2>2, <3>1, <3>2
        <2>6. tick <= n - 1
            BY <2>3
        <2>7. ~ Judged(j)
            BY <1>1, <2>5, <2>6 DEF Judged
        <2>8. Open(j)
            BY <1>1, <2>7 DEF KernelInv, DeadlinesSound
        <2>9. PICK e \in Of(queue, "DeadlineCheck") : JobOf(e) = j
            BY <2>5, <2>8 DEF Open
        <2>10. e.tick = n /\ e \in queue.events
            BY <1>1, <2>5, <2>9 DEF KernelInv, DeadlinesSound, Of
        <2>. QED  BY <2>10
    <1>11. u.left = LeftOver(s)
        <2>1. NeedAt(config, s, n) = [t \in TaskIds |-> LeftOver(s)[t]]
            BY <1>9 DEF NeedAt
        <2>2. LeftOver(s) = [t \in TaskIds |-> LeftOver(s)[t]]
            BY DEF LeftOver
        <2>. QED  BY <1>3, <2>1, <2>2
    <1>12. Tracks(u.count, u.left)
        <2>1. u.count \in [TaskIds -> Nat]
            <3>1. u.count = [t \in TaskIds |-> u.count[t]]
                BY <1>3 DEF CountAt
            <3>. QED  BY <1>8, <3>1
        <2>. QED  BY <1>1, <1>4, <1>5, <1>7, <1>11, <2>1, WorkTracks
    <1>13. ASSUME NEW r \in ResourceIds
           PROVE  u.owner[r] = OwnerOf(r)
        <2>1. Incumbent(s, r) = OwnerOf(r)
            BY <1>2, <1>6 DEF Incumbent
        <2>2. u.owner[r] = OwnerAfter(config, u.count, u.left, r, OwnerOf(r))
            BY <1>3, <2>1 DEF OwnerAt
        <2>3. Decided(r)
            BY DEF Decided
        <2>. QED  BY <1>1, <1>12, <2>2, <2>3, DecisionStands
    <1>14. u.done = s.done /\ u.missed = s.missed /\ ~ u.overlap
        <2>1. {<<t, s.count[t], n>> : t \in Finishing(s)} = {} /\ {<<t, s.count[t]>> : t \in Late(config, s, n)} = {}
            BY <1>6, <1>10
        <2>. QED  BY <1>2, <1>3, <1>9, <2>1
    <1>15. WorkSound(u.left, Released, n)
        BY <1>5, <1>11
    <1>. QED  BY <1>0, <1>2, <1>7, <1>13, <1>14, <1>15 DEF Agrees

\* Before its first release the engine is what the reference starts from.
LEMMA AgreesBeforeTicks ==
    ASSUME KernelInv, Released = {}
    PROVE  Agrees(-1)
    <1>0. PICK s : s = RefAt(config, -1)
        OBVIOUS
    <1>1. s = Before
        BY <1>0 DEF RefAt
    <1>2. ~ s.overlap /\ s.done = {} /\ s.missed = {} /\ s.count = [t \in TaskIds |-> 0]
          /\ s.left = [t \in TaskIds |-> 0] /\ s.owner = [r \in ResourceIds |-> Nobody]
        BY <1>1 DEF Before
    <1>3. ASSUME NEW t \in TaskIds PROVE NumberedTo(t, s.count[t])
        <2>1. s.count[t] = 0
            BY <1>2
        <2>2. NumberedTo(t, 0)
            BY DEF NumberedTo
        <2>. QED  BY <2>1, <2>2
    <1>4. WorkSound(s.left, Released, -1)
        BY <1>2 DEF WorkSound
    <1>5. s.done = {FinishOf(j) : j \in Finished} /\ s.missed = {j \in Released : jobs[j].missed}
        BY <1>2 DEF Finished
    <1>6. ASSUME NEW r \in ResourceIds
          PROVE  s.owner[r] = OwnerOf(r)
        <2>1. Idle(r)
            BY DEF KernelInv, StateInv, MembershipAgrees
        <2>. QED  BY <1>2, <2>1 DEF OwnerOf
    <1>. QED  BY <1>0, <1>2, <1>3, <1>4, <1>5, <1>6 DEF Agrees

\* After a tick the engine agrees with the reference until the next pending event.
LEMMA AgreesUntil ==
    ASSUME PlanInv, stage \in {"act", "between"}, trace # <<>> => Agrees(tick), NEW n \in Nat \cup {-1}, n <= config.stop,
           trace # <<>> => tick <= n, \A e \in queue.events : e.tick > n
    PROVE  Agrees(n)
    <1>0. PICK m : m = IF trace = <<>> THEN -1 ELSE tick
        OBVIOUS
    <1>1. KernelInv /\ tick \in Nat /\ config.stop \in Nat /\ (trace = <<>> => Released = {})
        BY ConfigType DEF PlanInv, KernelInv, StateInv, TypeOK, PositionSound
    <1>2. m \in Nat \cup {-1} /\ m <= n /\ (Released = {} \/ m = tick)
        BY <1>0, <1>1
    <1>3. Agrees(m)
        <2>1. CASE trace = <<>>
            BY <1>0, <1>1, <2>1, AgreesBeforeTicks
        <2>2. CASE trace # <<>>
            BY <1>0, <2>2
        <2>. QED  BY <2>1, <2>2
    <1>4. SUFFICES ASSUME ~ Agrees(n) PROVE FALSE
        OBVIOUS
    <1>. DEFINE S == {k \in Nat : k > m /\ k <= n /\ ~ Agrees(k)}
    <1>5. n \in S
        <2>1. n # m
            BY <1>3, <1>4
        <2>. QED  BY <1>2, <1>4, <2>1
    <1>6. S \in SUBSET Nat /\ \A k \in S : k \in Nat /\ k > m /\ k <= n /\ ~ Agrees(k)
        OBVIOUS
    <1>7. \A k \in Nat : k > m /\ k <= n /\ ~ Agrees(k) => k \in S
        OBVIOUS
    <1>. HIDE DEF S
    <1>8. PICK k \in S : \A i \in S : k <= i
        <2>1. S # {}
            BY <1>5
        <2>. QED  BY <1>6, <2>1, LeastNumber
    <1>9. k \in Nat /\ k > m /\ k <= n /\ ~ Agrees(k)
        BY <1>6
    <1>10. Agrees(k - 1)
        <2>1. CASE k - 1 = m
            BY <1>3, <2>1
        <2>2. CASE k - 1 # m
            <3>1. k - 1 \in Nat /\ k - 1 > m /\ k - 1 <= n /\ ~ (k <= k - 1)
                BY <1>2, <1>9, <2>2
            <3>2. k - 1 \notin S
                BY <1>8, <3>1
            <3>. QED  BY <1>7, <3>1, <3>2
        <2>. QED  BY <2>1, <2>2
    <1>11. k <= config.stop /\ (tick <= k - 1 \/ Released = {})
        BY <1>1, <1>2, <1>9
    <1>12. \A e \in queue.events : e.tick > k
        <2>1. \A e \in queue.events : e.tick \in Nat
            BY DEF PlanInv, KernelInv, StateInv, TypeOK, EventQueueState, Event
        <2>. QED  BY <1>2, <1>9, <2>1
    <1>13. Agrees(k)
        BY <1>9, <1>10, <1>11, <1>12, GapTick
    <1>. QED  BY <1>9, <1>13
-----------------------------------------------------------------------------
(* The tick begins with what the reference's tick begins with. *)

\* The reference reaches the next pending tick with the state the engine begins it with.
LEMMA BeginTickAgrees ==
    ASSUME PlanInv, AgreesBetween, NEW e \in queue.events, BeginTick(e)
    PROVE  AgreesWithin' /\ AgreesBetween'
    <1>1. /\ KernelInv /\ TypeOK /\ MembershipAgrees /\ JobsPlanned /\ ValidConfig(config)
          /\ tick \in Nat /\ config.stop \in Nat /\ e.tick \in Nat
        BY ConfigType DEF PlanInv, KernelInv, StateInv, TypeOK, EventQueueState, Event
    <1>2. stage = "between" /\ IsNextEvent(queue, e) /\ e.tick <= config.stop
          /\ UNCHANGED <<config, queue, trace, release, jobs, resource, ready>>
        BY DEF BeginTick, InHorizon
    <1>3. CASE e.tick < tick
        BY <1>3 DEF BeginTick, Throw, AgreesWithin, AgreesBetween, TickStages
    <1>4. CASE ~ (e.tick < tick)
        <2>1. stage' = "settle" /\ tick' = e.tick
            BY <1>4 DEF BeginTick
        <2>2. trace # <<>> => tick < e.tick
            BY <1>1, <1>2 DEF KernelInv, NothingInThePast
        <2>3. \A f \in queue.events : f.tick \in Nat /\ f.tick > e.tick - 1
            <3>1. \A f \in queue.events : f.tick \in Nat /\ ~ LaterEvent(e, f)
                BY <1>1, <1>2 DEF TypeOK, EventQueueState, Event, IsNextEvent
            <3>. QED  BY <1>1, <3>1 DEF LaterEvent
        <2>4. PICK n : n = e.tick - 1
            OBVIOUS
        <2>5. n \in Nat \cup {-1} /\ n \in Int /\ n <= config.stop /\ e.tick - 1 = n /\ (trace # <<>> => tick <= n)
            BY <1>1, <1>2, <2>2, <2>4
        <2>6. Agrees(n)
            BY <1>2, <2>3, <2>4, <2>5, AgreesUntil DEF AgreesBetween
        <2>7. PICK s : s = RefAt(config, n)
            OBVIOUS
        <2>8. /\ ~ s.overlap /\ \A t \in TaskIds : NumberedTo(t, s.count[t])
              /\ WorkSound(s.left, Released, n)
              /\ s.done = {FinishOf(j) : j \in Finished} /\ s.missed = {j \in Released : jobs[j].missed}
              /\ \A r \in ResourceIds : s.owner[r] = OwnerOf(r)
            BY <2>6, <2>7 DEF Agrees
        <2>9. \A r \in ResourceIds : ~ Idle(r) => resource[r].expected >= e.tick
            <3>1. ASSUME NEW r \in ResourceIds, ~ Idle(r) PROVE resource[r].expected >= e.tick
                <4>1. resource[r].expected > n
                    BY <1>1, <2>3, <2>4, <2>5, <3>1, RunsOn
                <4>2. resource[r].expected \in Int
                    BY <1>1, <3>1, RunningFacts
                <4>. QED  BY <1>1, <2>4, <4>1, <4>2
            <3>. QED  BY <3>1
        <2>10. /\ WorkSound(LeftOver(s), Released, e.tick)
               /\ \A t \in Finishing(s) : \E r \in ResourceIds : ~ Idle(r) /\ t = resource[r].running[1]
            BY <1>1, <2>5, <2>8, <2>9, Elapse
        <2>11. \A j \in Released : /\ jobs[j].release < e.tick /\ (~ Active(j) => jobs[j].finish < e.tick)
                                   /\ tick < e.tick
            <3>1. SUFFICES ASSUME NEW j \in Released
                           PROVE  /\ jobs[j].release < e.tick /\ (~ Active(j) => jobs[j].finish < e.tick)
                                  /\ tick < e.tick
                OBVIOUS
            <3>2. tick < e.tick
                BY <1>1, <2>2 DEF KernelInv, PositionSound
            <3>3. jobs[j].release <= tick /\ (~ Active(j) => jobs[j].finish <= tick)
                BY <1>1 DEF KernelInv, JobsSound, JobsPlanned
            <3>4. jobs[j].release \in Nat /\ jobs[j].finish \in Int
                BY <1>1, JobFacts
            <3>. QED  BY <1>1, <3>2, <3>3, <3>4
        <2>12. Earlier' = Released /\ Released' = Released
            BY <1>2, <2>1, <2>11 DEF Earlier, Released
        <2>13. WorkWithin(s)'
            <3>1. WorkSound(LeftOver(s), Earlier, tick)'
                BY <1>2, <2>1, <2>10, <2>12 DEF WorkSound, Active, LeftAt
            <3>. QED  BY <2>12, <3>1 DEF WorkWithin
        <2>14. FinishesWithin(s)'
            <3>1. {FinishOf(j) : j \in {k \in Finished : jobs[k].finish < tick}}' = {FinishOf(j) : j \in Finished}
                BY <1>2, <2>1, <2>11 DEF Released, Finished, FinishOf, Active
            <3>2. \A j \in Finished' : jobs'[j].finish # tick'
                BY <1>1, <1>2, <2>1, <2>11, JobFacts DEF Released, Finished, Active
            <3>3. ASSUME NEW t \in Finishing(s)
                  PROVE  <<t, s.count[t]>> \in Released /\ Active(<<t, s.count[t]>>)
                <4>1. PICK r \in ResourceIds : ~ Idle(r) /\ t = resource[r].running[1]
                    BY <2>10, <3>3
                <4>2. PICK p : p = resource[r].running
                    OBVIOUS
                <4>3. p \in Released /\ Active(p) /\ p[1] = t /\ t \in TaskIds
                    BY <1>1, <4>1, <4>2, RunningFacts
                <4>4. s.count[t] \in Nat
                    BY <1>1, <2>5, <2>7, <4>3, ReferenceCounts DEF Planned
                <4>5. p[2] = s.count[t]
                    BY <1>1, <2>8, <4>3, <4>4, LatestNumber
                <4>6. p = <<t, s.count[t]>>
                    BY <1>1, <4>3, <4>5, JobFacts
                <4>. QED  BY <4>3, <4>6
            <3>4. \A t \in Finishing(s) : <<t, s.count[t]>> \in Released' /\ Active(<<t, s.count[t]>>)'
                BY <1>2, <3>3 DEF Released, Active
            <3>. QED  BY <2>8, <3>1, <3>2, <3>4 DEF FinishesWithin
        <2>15. MissesWithin(s)'
            <3>1. \A j \in Released : jobs[j].missed => jobs[j].deadline < e.tick
                <4>1. SUFFICES ASSUME NEW j \in Released, jobs[j].missed PROVE jobs[j].deadline < e.tick
                    OBVIOUS
                <4>2. jobs[j].deadline <= tick
                    BY <1>1, <1>2, <4>1, VerdictsAreGiven DEF DeadlineVerdicts
                <4>3. jobs[j].deadline \in Nat /\ tick < e.tick
                    BY <1>1, <2>11, JobFacts
                <4>. QED  BY <1>1, <4>2, <4>3
            <3>. QED  BY <1>2, <2>1, <2>8, <3>1 DEF Released, MissesWithin
        <2>16. ASSUME NEW r \in ResourceIds
               PROVE  OwnerWithin(s, r)'
            <3>1. ~ Decided(r)'
                BY <2>1 DEF Decided
            <3>2. s.owner[r] = OwnerOf(r)
                BY <2>8
            <3>3. ~ Idle(r) => jobs[resource[r].running].release < e.tick
                BY <1>1, <2>11, RunningFacts
            <3>. QED  BY <1>2, <2>1, <3>1, <3>2, <3>3 DEF OwnerWithin, OwnerOf, Idle
        <2>17. Within(s)'
            BY <2>8, <2>13, <2>14, <2>15, <2>16 DEF Within
        <2>18. s = RefAt(config', tick' - 1)
            BY <1>2, <2>1, <2>4, <2>7
        <2>. QED  BY <2>1, <2>17, <2>18 DEF AgreesWithin, AgreesBetween
    <1>. QED  BY <1>3, <1>4

\* Nothing that agreement speaks of changes.
LEMMA AgreesKept ==
    ASSUME UNCHANGED <<config, jobs, resource>>, NEW n, Agrees(n)
    PROVE  Agrees(n)'
    <1>0. PICK s : s = RefAt(config, n)
        OBVIOUS
    <1>1. s = RefAt(config', n)
        BY <1>0
    <1>2. /\ ~ s.overlap /\ \A t \in TaskIds : NumberedTo(t, s.count[t])
          /\ WorkSound(s.left, Released, n)
          /\ s.done = {FinishOf(j) : j \in Finished} /\ s.missed = {j \in Released : jobs[j].missed}
          /\ \A r \in ResourceIds : s.owner[r] = OwnerOf(r)
        BY <1>0 DEF Agrees
    <1>3. \A t \in TaskIds : NumberedTo(t, s.count[t])'
        BY <1>2 DEF Released, NumberedTo
    <1>4. WorkSound(s.left, Released, n)'
        BY <1>2 DEF Released, WorkSound, Active, LeftAt
    <1>5. s.done = {FinishOf(j) : j \in Finished}' /\ s.missed = {j \in Released : jobs[j].missed}'
        BY <1>2 DEF Released, FinishOf, Finished, Active
    <1>6. \A r \in ResourceIds : s.owner[r] = OwnerOf(r)'
        BY <1>2 DEF OwnerOf, Idle
    <1>. QED  BY <1>1, <1>2, <1>3, <1>4, <1>5, <1>6 DEF Agrees

\* Without anything left in the horizon the engine agrees with the reference to the end.
LEMMA FinishEmptyAgrees ==
    ASSUME PlanInv, AgreesBetween, FinishEmpty
    PROVE  AgreesWithin' /\ AgreesBetween'
    <1>1. TypeOK /\ config.stop \in Nat /\ tick <= config.stop
        BY ConfigType DEF PlanInv, KernelInv, StateInv, PositionSound
    <1>2. /\ stage = "between" /\ stage' = "finished" /\ UNCHANGED <<config, jobs, resource>>
          /\ NothingInHorizon
        BY DEF FinishEmpty
    <1>3. \A e \in queue.events : e.tick > config.stop
        BY <1>1, <1>2, BeyondHorizon
    <1>4. PICK n : n = config.stop
        OBVIOUS
    <1>5. n \in Nat \cup {-1} /\ n <= config.stop /\ (trace # <<>> => tick <= n) /\ \A e \in queue.events : e.tick > n
        BY <1>1, <1>3, <1>4
    <1>6. Agrees(n)
        BY <1>2, <1>5, AgreesUntil DEF AgreesBetween
    <1>7. Agrees(n)'
        BY <1>2, <1>6, AgreesKept
    <1>. QED  BY <1>2, <1>4, <1>7 DEF AgreesWithin, AgreesBetween, TickStages

-----------------------------------------------------------------------------
(* Steps inside a tick that leave the work alone. *)

\* A step that changes no work, and no miss of an earlier tick, keeps three parts of the agreement.
LEMMA WorkKept ==
    ASSUME TypeOK, SameWork, NEW s, WorkWithin(s), FinishesWithin(s), MissesWithin(s),
           \A j \in Released : jobs[j].deadline < tick => (jobs'[j].missed <=> jobs[j].missed)
    PROVE  WorkWithin(s)' /\ FinishesWithin(s)' /\ MissesWithin(s)'
    <1>1. Released' = Released /\ UNCHANGED <<config, tick>>
        BY DEF SameWork
    <1>2. \A k \in Released : /\ jobs'[k].release = jobs[k].release /\ jobs'[k].deadline = jobs[k].deadline
                              /\ jobs'[k].finish = jobs[k].finish /\ (Active(k)' <=> Active(k))
                              /\ LeftAt(k, tick)' = LeftAt(k, tick)
        BY DEF SameWork
    <1>3. Earlier' = Earlier /\ Earlier \subseteq Released
        BY <1>1, <1>2 DEF Earlier
    <1>4. Finished' = Finished /\ Finished \subseteq Released /\ \A j \in Finished : FinishOf(j)' = FinishOf(j)
        BY <1>1, <1>2 DEF Finished, FinishOf
    <1>5. WorkSound(LeftOver(s), Earlier, tick)'
        BY <1>1, <1>2, <1>3 DEF WorkWithin, WorkSound
    <1>6. WorkWithin(s)'
        <2>1. \A j \in Released \ Earlier : Active(j)' /\ LeftAt(j, tick)' = Demand(config, j[1])
            BY <1>2 DEF WorkWithin
        <2>. QED  BY <1>1, <1>3, <1>5, <2>1 DEF WorkWithin
    <1>7. FinishesWithin(s)'
        <2>1. {k \in Finished : jobs[k].finish < tick}' = {k \in Finished : jobs[k].finish < tick}
            BY <1>1, <1>2, <1>4
        <2>2. {FinishOf(j) : j \in {k \in Finished : jobs[k].finish < tick}}'
                  = {FinishOf(j) : j \in {k \in Finished : jobs[k].finish < tick}}
            BY <1>4, <2>1
        <2>3. \A j \in Finished' : jobs'[j].finish = tick' => j[1] \in Finishing(s) /\ j[2] = s.count[j[1]]
            BY <1>1, <1>2, <1>4 DEF FinishesWithin
        <2>4. \A t \in Finishing(s) :
                  LET j == <<t, s.count[t]>>
                  IN  j \in Released' /\ (Active(j)' \/ jobs'[j].finish = tick')
            BY <1>1, <1>2 DEF FinishesWithin
        <2>. QED  BY <2>2, <2>3, <2>4 DEF FinishesWithin
    <1>8. MissesWithin(s)'
        <2>1. {j \in Released : jobs[j].missed /\ jobs[j].deadline < tick}'
                  = {j \in Released : jobs[j].missed /\ jobs[j].deadline < tick}
            BY <1>1, <1>2
        <2>. QED  BY <2>1 DEF MissesWithin
    <1>. QED  BY <1>6, <1>7, <1>8

\* A step that leaves a resource and its decision alone keeps the fourth.
LEMMA OwnerKept ==
    ASSUME TypeOK, MembershipAgrees, SameWork, NEW s, NEW r \in ResourceIds, resource'[r] = resource[r],
           OwnerWithin(s, r), Decided(r)' => Decided(r), Undecided(r)' => Undecided(r)
    PROVE  OwnerWithin(s, r)'
    <1>1. UNCHANGED <<config, tick>> /\ (Idle(r)' <=> Idle(r)) /\ OwnerOf(r)' = OwnerOf(r)
        BY DEF SameWork, OwnerOf, Idle
    <1>2. ~ Idle(r) => jobs'[resource[r].running].release = jobs[resource[r].running].release
        BY DEF MembershipAgrees, SameWork
    <1>3. Decided(r)' => OwnerAt(config, s, tick, r)' = OwnerOf(r)'
        BY <1>1 DEF OwnerWithin
    <1>4. Undecided(r)' => /\ Idle(r)' => s.owner[r] = Nobody \/ s.owner[r] \in Finishing(s)
                           /\ (~ Idle(r))' => /\ s.owner[r] = resource'[r].running[1]
                                              /\ jobs'[resource'[r].running].release < tick'
        BY <1>1, <1>2 DEF OwnerWithin
    <1>. QED  BY <1>3, <1>4 DEF OwnerWithin

\* The stages a quiet step leads through, and the verdicts it gives.
LEMMA QuietStages ==
    ASSUME KernelInv,
           \/ \E e \in queue.events : \/ IgnoreStaleCompletion(e) \/ DeliverMessage(e) \/ CheckDeadline(e)
                                      \/ RecordDecision(e) \/ SendMessage(e)
           \/ \E d \in TaskIds : PublishRoute(d)
           \/ CollectReleases
    PROVE  /\ stage \in TickStages /\ stage' \in TickStages \cup {"failed"}
           /\ \A r \in ResourceIds : (Decided(r)' => Decided(r)) /\ (Undecided(r)' => Undecided(r))
           /\ \A j \in Released : jobs[j].deadline < tick => (jobs'[j].missed <=> jobs[j].missed)
    <1>1. CASE \E e \in queue.events : \/ IgnoreStaleCompletion(e) \/ DeliverMessage(e)
                                       \/ RecordDecision(e) \/ SendMessage(e)
        <2>1. /\ UNCHANGED <<jobs, todo>>
              /\ \/ stage \in {"settle", "act"} /\ stage' \in {stage, "failed"}
            BY <1>1 DEF IgnoreStaleCompletion, DeliverMessage, RecordDecision, SendMessage, Settling, Throw
        <2>. QED  BY <2>1 DEF TickStages, Decided, Undecided
    <1>2. ASSUME NEW e \in queue.events, CheckDeadline(e)
          PROVE  /\ stage \in TickStages /\ stage' \in TickStages \cup {"failed"}
                 /\ \A r \in ResourceIds : (Decided(r)' => Decided(r)) /\ (Undecided(r)' => Undecided(r))
                 /\ \A j \in Released : jobs[j].deadline < tick => (jobs'[j].missed <=> jobs[j].missed)
        <2>0. PICK k : k = DeadlineOf(e)
            OBVIOUS
        <2>1. stage = "settle" /\ e.tick = tick /\ stage' \in {"settle", "failed"} /\ todo' = todo
            BY <1>2 DEF CheckDeadline, Settling, IsDue, Throw
        <2>2. \/ jobs' = jobs
              \/ k \in Released /\ jobs[k].deadline = tick /\ jobs' = [jobs EXCEPT ![k].missed = TRUE]
            BY <1>2, <2>0, <2>1 DEF CheckDeadline, DeadlineMatches
        <2>3. tick \in Nat
            BY DEF KernelInv, StateInv, TypeOK
        <2>4. \A j \in Released : jobs[j].deadline < tick => (jobs'[j].missed <=> jobs[j].missed)
            BY <2>2, <2>3 DEF Released
        <2>. QED  BY <2>1, <2>4 DEF TickStages, Decided, Undecided
    <1>3. ASSUME NEW d \in TaskIds, PublishRoute(d)
          PROVE  /\ stage \in TickStages /\ stage' \in TickStages \cup {"failed"}
                 /\ \A r \in ResourceIds : (Decided(r)' => Decided(r)) /\ (Undecided(r)' => Undecided(r))
                 /\ \A j \in Released : jobs[j].deadline < tick => (jobs'[j].missed <=> jobs[j].missed)
        <2>1. jobs' = jobs /\ stage = "publish" /\ stage' \in {"settle", "publish", "failed"}
            BY <1>3 DEF PublishRoute, Throw
        <2>. QED  BY <2>1 DEF TickStages, Decided, Undecided
    <1>4. CASE CollectReleases
        <2>1. /\ jobs' = jobs /\ stage = "settle"
              /\ \/ stage' = "release"
                 \/ stage' = "schedule" /\ todo' = ResourceIds
            BY <1>4 DEF CollectReleases
        <2>. QED  BY <2>1 DEF TickStages, Decided, Undecided
    <1>. QED  BY <1>1, <1>2, <1>3, <1>4

\* Messages, deadline checks, decisions and stale completions change nothing the reference has.
LEMMA QuietAgrees ==
    ASSUME PlanInv, AgreesWithin,
           \/ \E e \in queue.events : \/ IgnoreStaleCompletion(e) \/ DeliverMessage(e) \/ CheckDeadline(e)
                                      \/ RecordDecision(e) \/ SendMessage(e)
           \/ \E d \in TaskIds : PublishRoute(d)
           \/ CollectReleases
    PROVE  AgreesWithin' /\ AgreesBetween'
    <1>0. PICK s : s = RefAt(config, tick - 1)
        OBVIOUS
    <1>1. KernelInv /\ TypeOK /\ MembershipAgrees
        BY DEF PlanInv, KernelInv, StateInv
    <1>2. /\ stage \in TickStages /\ stage' \in TickStages \cup {"failed"}
          /\ \A r \in ResourceIds : (Decided(r)' => Decided(r)) /\ (Undecided(r)' => Undecided(r))
          /\ \A j \in Released : jobs[j].deadline < tick => (jobs'[j].missed <=> jobs[j].missed)
        BY <1>1, QuietStages
    <1>3. SameWork /\ resource' = resource /\ UNCHANGED <<config, tick>>
        <2>1. SameWork /\ UNCHANGED <<release, resource, ready>>
            BY <1>1, QuietWork
        <2>. QED  BY <2>1 DEF SameWork
    <1>4. Within(s)
        BY <1>0, <1>2 DEF AgreesWithin
    <1>5. WorkWithin(s)' /\ FinishesWithin(s)' /\ MissesWithin(s)'
        BY <1>1, <1>2, <1>3, <1>4, WorkKept DEF Within
    <1>6. \A r \in ResourceIds : OwnerWithin(s, r)'
        BY <1>1, <1>2, <1>3, <1>4, OwnerKept DEF Within
    <1>7. Within(s)'
        BY <1>4, <1>5, <1>6 DEF Within
    <1>8. s = RefAt(config', tick' - 1)
        BY <1>0, <1>3
    <1>. QED  BY <1>2, <1>7, <1>8 DEF AgreesWithin, AgreesBetween, TickStages

-----------------------------------------------------------------------------
(* The completions of a tick are those of the reference. *)

\* The job whose completion is accepted is one the reference finds finishing.
LEMMA AcceptCompletionAgrees ==
    ASSUME PlanInv, AgreesWithin, NEW e \in queue.events, AcceptCompletion(e)
    PROVE  AgreesWithin' /\ AgreesBetween'
    <1>0. PICK s, j, r : s = RefAt(config, tick - 1) /\ j = JobOf(e) /\ r = e.entities.resource
        OBVIOUS
    <1>1. /\ KernelInv /\ TypeOK /\ MembershipAgrees /\ JobsPlanned /\ tick \in Nat
        BY DEF PlanInv, KernelInv, StateInv, TypeOK
    <1>2. /\ OnlyJob(j) /\ OnlyResource(r) /\ resource[r].running = j /\ jobs[j].resource = r
          /\ jobs[j].lifecycle = "Running" /\ jobs'[j].lifecycle = "Completed"
          /\ jobs'[j].finish = tick /\ jobs'[j].missed = jobs[j].missed
          /\ jobs'[j].release = jobs[j].release /\ resource'[r].running = NoJob
          /\ jobs[j].remaining = tick - resource[r].since
          /\ UNCHANGED <<config, tick>> /\ stage' \in {"settle", "publish"}
        BY <1>0, <1>1, CompletionEffect
    <1>3. stage = "settle"
        BY DEF AcceptCompletion, Settling
    <1>4. jobs'[j].deadline = jobs[j].deadline
        <2>1. jobs' = [jobs EXCEPT ![j] = CompletedJob(@)]
            BY <1>0, <1>2 DEF AcceptCompletion, Throw, JobOf
        <2>2. jobs'[j] = CompletedJob(jobs[j])
            BY <1>2, <2>1 DEF OnlyJob
        <2>. QED  BY <1>1, <1>2, <2>2, JobFacts DEF CompletedJob, OnlyJob, JobState
    <1>5. /\ j \in Released /\ r \in ResourceIds /\ j # NoJob /\ j[1] \in TaskIds /\ j[2] \in Nat /\ ~ Idle(r)
          /\ Active(j) /\ ~ Active(j)' /\ j = <<j[1], j[2]>>
        <2>1. j \in Released /\ r \in ResourceIds
            BY <1>2 DEF OnlyJob, OnlyResource
        <2>2. j # NoJob /\ j[1] \in TaskIds /\ j[2] \in Nat /\ j = <<j[1], j[2]>>
            BY <1>1, <2>1, JobFacts
        <2>. QED  BY <1>2, <2>1, <2>2 DEF Idle, Active
    <1>6. Within(s)
        BY <1>0, <1>3 DEF AgreesWithin, TickStages
    <1>7. s.owner[r] = j[1] /\ jobs[j].release < tick
        BY <1>2, <1>3, <1>5, <1>6 DEF Within, OwnerWithin, Undecided
    <1>8. j \in Earlier /\ Earlier \subseteq Released
        BY <1>5, <1>7 DEF Earlier
    <1>9. LeftAt(j, tick) = 0
        <2>1. resource[r].since \in Int
            BY <1>1, <1>5, RunningFacts
        <2>. QED  BY <1>1, <1>2, <2>1 DEF LeftAt
    <1>10. LeftOver(s)[j[1]] = 0 /\ j[1] \in Finishing(s)
        <2>1. LeftOver(s)[j[1]] = 0
            BY <1>5, <1>6, <1>8, <1>9 DEF Within, WorkWithin, WorkSound
        <2>2. j[1] # Nobody
            BY <1>5, ConfigAssumption DEF Nobody
        <2>3. j[1] \in Worked(s)
            BY <1>5, <1>7, <2>2 DEF Worked
        <2>. QED  BY <2>1, <2>3 DEF Finishing
    <1>11. j[2] = s.count[j[1]]
        <2>1. /\ s.count[j[1]] \in Nat /\ \A k \in 1 .. s.count[j[1]] : <<j[1], k>> \in Released
              /\ j[2] <= s.count[j[1]]
            BY <1>0, <1>3, <1>5, <1>7, CountedBefore
        <2>2. j[2] >= 1
            BY <1>1, <1>5 DEF JobsPlanned
        <2>3. <<j[1], s.count[j[1]]>> \in Released
            BY <1>5, <2>1, <2>2
        <2>4. s.count[j[1]] <= j[2]
            BY <1>1, <1>5, <2>3 DEF JobsPlanned
        <2>. QED  BY <1>5, <2>1, <2>4
    <1>12. Released' = Released /\ Earlier' = Earlier /\ \A k \in Released : k # j => jobs'[k] = jobs[k]
        <2>1. Released' = Released /\ \A k \in Released : k # j => jobs'[k] = jobs[k]
            BY <1>2 DEF OnlyJob
        <2>2. \A k \in Released : jobs'[k].release = jobs[k].release
            BY <1>2, <2>1
        <2>. QED  BY <1>2, <2>1, <2>2 DEF Earlier
    <1>13. ASSUME NEW k \in Released, k # j
           PROVE  (Active(k)' <=> Active(k)) /\ LeftAt(k, tick)' = LeftAt(k, tick)
        <2>1. jobs'[k] = jobs[k]
            BY <1>12, <1>13
        <2>2. jobs[k].resource \in ResourceIds /\ k # NoJob
            BY <1>1, JobFacts
        <2>3. CASE jobs[k].resource = r
            BY <1>2, <1>13, <2>1, <2>2, <2>3 DEF LeftAt, Active
        <2>4. CASE jobs[k].resource # r
            <3>1. resource'[jobs[k].resource] = resource[jobs[k].resource]
                BY <1>2, <2>2, <2>4 DEF OnlyResource
            <3>. QED  BY <1>2, <2>1, <3>1 DEF LeftAt, Active
        <2>. QED  BY <2>3, <2>4
    <1>14. WorkWithin(s)'
        <2>1. LeftOver(s) \in [TaskIds -> Nat]
            BY <1>6 DEF Within, WorkWithin, WorkSound
        <2>2. ASSUME NEW k \in Earlier, Active(k)'
              PROVE  LeftOver(s)[k[1]] = LeftAt(k, tick)'
            <3>1. k # j /\ k \in Released
                BY <1>5, <1>8, <2>2
            <3>2. LeftOver(s)[k[1]] = LeftAt(k, tick)
                BY <1>6, <1>13, <2>2, <3>1 DEF Within, WorkWithin, WorkSound
            <3>. QED  BY <1>13, <3>1, <3>2
        <2>3. ASSUME NEW t \in TaskIds, LeftOver(s)[t] > 0
              PROVE  \E k \in Earlier : k[1] = t /\ Active(k)'
            <3>1. PICK k \in Earlier : k[1] = t /\ Active(k)
                BY <1>6, <2>3 DEF Within, WorkWithin, WorkSound
            <3>2. k # j /\ k \in Released
                BY <1>8, <1>10, <2>3, <3>1
            <3>. QED  BY <1>13, <3>1, <3>2
        <2>4. WorkSound(LeftOver(s), Earlier, tick)'
            BY <1>2, <1>12, <2>1, <2>2, <2>3 DEF WorkSound
        <2>5. ASSUME NEW k \in Released \ Earlier
              PROVE  Active(k)' /\ LeftAt(k, tick)' = Demand(config, k[1])
            <3>1. k # j /\ k \in Released
                BY <1>8, <2>5
            <3>2. Active(k) /\ LeftAt(k, tick) = Demand(config, k[1])
                BY <1>6, <2>5 DEF Within, WorkWithin
            <3>. QED  BY <1>13, <3>1, <3>2
        <2>. QED  BY <1>2, <1>12, <2>4, <2>5 DEF WorkWithin
    <1>15. FinishesWithin(s)'
        <2>1. {k \in Finished : jobs[k].finish < tick}' = {k \in Finished : jobs[k].finish < tick}
            <3>1. ASSUME NEW k \in Released
                  PROVE  (~ Active(k)' /\ jobs'[k].finish < tick') <=> (~ Active(k) /\ jobs[k].finish < tick)
                <4>1. CASE k = j
                    BY <1>1, <1>2, <1>5, <4>1
                <4>2. CASE k # j
                    BY <1>2, <1>12, <1>13, <4>2
                <4>. QED  BY <4>1, <4>2
            <3>. QED  BY <1>12, <3>1 DEF Finished
        <2>2. {FinishOf(k) : k \in {k \in Finished : jobs[k].finish < tick}}'
                  = {FinishOf(k) : k \in {k \in Finished : jobs[k].finish < tick}}
            <3>1. \A k \in {k \in Finished : jobs[k].finish < tick} : FinishOf(k)' = FinishOf(k)
                BY <1>5, <1>12 DEF Finished, FinishOf
            <3>. QED  BY <2>1, <3>1
        <2>3. ASSUME NEW k \in Finished', jobs'[k].finish = tick'
              PROVE  k[1] \in Finishing(s) /\ k[2] = s.count[k[1]]
            <3>1. k \in Released /\ ~ Active(k)'
                BY <1>12, <2>3 DEF Finished
            <3>2. CASE k = j
                BY <1>10, <1>11, <3>2
            <3>3. CASE k # j
                <4>1. k \in Finished /\ jobs[k].finish = tick
                    BY <1>2, <1>12, <1>13, <2>3, <3>1, <3>3 DEF Finished
                <4>. QED  BY <1>6, <4>1 DEF Within, FinishesWithin
            <3>. QED  BY <3>2, <3>3
        <2>4. ASSUME NEW t \in Finishing(s)
              PROVE  LET k == <<t, s.count[t]>>
                     IN  k \in Released' /\ (Active(k)' \/ jobs'[k].finish = tick')
            <3>1. PICK k : k = <<t, s.count[t]>>
                OBVIOUS
            <3>2. k \in Released /\ (Active(k) \/ jobs[k].finish = tick)
                BY <1>6, <2>4, <3>1 DEF Within, FinishesWithin
            <3>3. k \in Released' /\ (Active(k)' \/ jobs'[k].finish = tick')
                BY <1>2, <1>12, <1>13, <3>2
            <3>. QED  BY <3>1, <3>3
        <2>5. s.done = {FinishOf(k) : k \in {k \in Finished : jobs[k].finish < tick}}
            BY <1>6 DEF Within, FinishesWithin
        <2>. QED  BY <2>2, <2>3, <2>4, <2>5 DEF FinishesWithin
    <1>16. MissesWithin(s)'
        <2>1. \A k \in Released : jobs'[k].missed = jobs[k].missed /\ jobs'[k].deadline = jobs[k].deadline
            BY <1>2, <1>4, <1>12
        <2>2. s.missed = {k \in Released : jobs[k].missed /\ jobs[k].deadline < tick}
            BY <1>6 DEF Within, MissesWithin
        <2>. QED  BY <1>2, <1>12, <2>1, <2>2 DEF MissesWithin
    <1>17. ASSUME NEW x \in ResourceIds
           PROVE  OwnerWithin(s, x)'
        <2>1. ~ Decided(x)' /\ Undecided(x)
            BY <1>2, <1>3 DEF Decided, Undecided
        <2>2. CASE x = r
            BY <1>2, <1>7, <1>10, <2>1, <2>2 DEF OwnerWithin, Idle
        <2>3. CASE x # r
            <3>1. resource'[x] = resource[x]
                BY <1>2, <2>3 DEF OnlyResource
            <3>2. ~ Idle(x) => jobs'[resource[x].running].release = jobs[resource[x].running].release
                <4>1. ~ Idle(x) => resource[x].running \in Released
                    BY <1>1 DEF MembershipAgrees
                <4>. QED  BY <1>2, <1>12, <4>1
            <3>3. OwnerWithin(s, x)
                BY <1>6 DEF Within
            <3>. QED  BY <1>2, <2>1, <3>1, <3>2, <3>3 DEF OwnerWithin, Idle
        <2>. QED  BY <2>2, <2>3
    <1>18. Within(s)'
        BY <1>6, <1>14, <1>15, <1>16, <1>17 DEF Within
    <1>19. s = RefAt(config', tick' - 1)
        BY <1>0, <1>2
    <1>. QED  BY <1>2, <1>18, <1>19 DEF AgreesWithin, AgreesBetween

-----------------------------------------------------------------------------
(* After the releases of a tick the reference needs what the jobs need. *)

\* Once all is settled and released the reference and the engine need the same work.
LEMMA NeedIsWork ==
    ASSUME PlanInv, stage \in {"schedule", "act"}, NEW s, s = RefAt(config, tick - 1), Within(s)
    PROVE  /\ CountAt(config, s, tick) \in [TaskIds -> Nat]
           /\ \A t \in TaskIds : NumberedTo(t, CountAt(config, s, tick)[t])
           /\ WorkSound(NeedAt(config, s, tick), Released, tick)
           /\ Tracks(CountAt(config, s, tick), NeedAt(config, s, tick))
           /\ \A j \in Released : Active(j) => LeftAt(j, tick) > 0
    <1>0. PICK count, need : count = CountAt(config, s, tick) /\ need = NeedAt(config, s, tick)
        OBVIOUS
    <1>1. /\ KernelInv /\ TypeOK /\ MembershipAgrees /\ JobsPlanned /\ ValidConfig(config)
          /\ tick \in Nat /\ config.stop \in Nat /\ batch = {} /\ tick <= config.stop
        BY ConfigType DEF PlanInv, KernelInv, StateInv, TypeOK, PositionSound
    <1>2. count = RefAt(config, tick).count
        BY <1>0, <1>1, TickFields
    <1>3. \A t \in TaskIds : NumberedTo(t, count[t])
        <2>1. \A e \in queue.events \cup batch : e.phase = "JobRelease" => e.tick > tick
            <3>1. SUFFICES ASSUME NEW e \in queue.events, e.phase = "JobRelease" PROVE e.tick > tick
                BY <1>1
            <3>2. e.tick \in Nat /\ e.tick >= tick
                BY <1>1 DEF KernelInv, NothingInThePast, TypeOK, EventQueueState, Event
            <3>3. e.tick # tick
                BY <1>1, <3>1, Precedences DEF KernelInv, NothingInThePast
            <3>. QED  BY <1>1, <3>2, <3>3
        <2>. QED  BY <1>1, <1>2, <2>1, NumberedThrough
    <1>4. \A t \in TaskIds : count[t] \in Nat
        BY <1>1, <1>2, ReferenceCounts DEF Planned
    <1>5. count \in [TaskIds -> Nat]
        <2>1. count = [t \in TaskIds |-> count[t]]
            BY <1>0 DEF CountAt
        <2>. QED  BY <1>4, <2>1
    <1>6. /\ LeftOver(s) \in [TaskIds -> Nat]
          /\ \A j \in Earlier : Active(j) => LeftOver(s)[j[1]] = LeftAt(j, tick)
          /\ \A t \in TaskIds : LeftOver(s)[t] > 0 => \E j \in Earlier : j[1] = t /\ Active(j)
          /\ \A j \in Released \ Earlier : Active(j) /\ LeftAt(j, tick) = Demand(config, j[1])
        BY DEF Within, WorkWithin, WorkSound
    <1>7. /\ \A t \in TaskIds : s.count[t] \in Nat
          /\ \A j \in Released : jobs[j].release < tick <=> j[2] <= s.count[j[1]]
        BY CountedBefore
    <1>8. ASSUME NEW t \in TaskIds, t \in Fresh(config, tick)
          PROVE  \E j \in Released : j[1] = t /\ Active(j) /\ need[t] = LeftAt(j, tick) /\ need[t] = Demand(config, t)
        <2>1. count[t] = s.count[t] + 1 /\ need[t] = Demand(config, t)
            BY <1>0, <1>8 DEF CountAt, NeedAt
        <2>2. PICK j : j = <<t, count[t]>>
            OBVIOUS
        <2>3. count[t] \in 1 .. count[t]
            BY <1>7, <2>1
        <2>4. j \in Released /\ j[1] = t /\ j[2] = count[t]
            BY <1>3, <2>2, <2>3 DEF NumberedTo
        <2>5. ~ (jobs[j].release < tick)
            BY <1>7, <2>1, <2>4
        <2>6. j \in Released \ Earlier
            BY <2>4, <2>5 DEF Earlier
        <2>. QED  BY <1>6, <2>1, <2>4, <2>6
    <1>9. ASSUME NEW j \in Released, j[1] \notin Fresh(config, tick)
          PROVE  j \in Earlier /\ need[j[1]] = LeftOver(s)[j[1]]
        <2>1. j[1] \in TaskIds /\ j[2] \in Nat
            BY <1>1, JobFacts
        <2>2. count[j[1]] = s.count[j[1]] /\ need[j[1]] = LeftOver(s)[j[1]]
            BY <1>0, <1>9, <2>1 DEF CountAt, NeedAt
        <2>3. j[2] <= s.count[j[1]]
            BY <1>3, <1>7, <2>1, <2>2 DEF NumberedTo
        <2>4. jobs[j].release < tick
            BY <1>7, <2>3
        <2>. QED  BY <2>2, <2>4 DEF Earlier
    <1>10. ASSUME NEW j \in Released, Active(j)
           PROVE  need[j[1]] = LeftAt(j, tick)
        <2>1. j[1] \in TaskIds
            BY <1>1, JobFacts
        <2>2. CASE j[1] \in Fresh(config, tick)
            <3>1. PICK k \in Released : k[1] = j[1] /\ Active(k) /\ need[j[1]] = LeftAt(k, tick)
                BY <1>8, <2>1, <2>2
            <3>2. k = j
                BY <1>1, <1>10, <3>1, OneActiveJob
            <3>. QED  BY <3>1, <3>2
        <2>3. CASE j[1] \notin Fresh(config, tick)
            BY <1>6, <1>9, <1>10, <2>3
        <2>. QED  BY <2>2, <2>3
    <1>11. ASSUME NEW t \in TaskIds
           PROVE  need[t] \in Nat /\ (need[t] > 0 => \E j \in Released : j[1] = t /\ Active(j))
        <2>1. CASE t \in Fresh(config, tick)
            <3>1. Demand(config, t) \in Nat
                BY <1>1, ConfigType, DemandType DEF Demand
            <3>. QED  BY <1>8, <2>1, <3>1
        <2>2. CASE t \notin Fresh(config, tick)
            <3>1. need[t] = LeftOver(s)[t]
                BY <1>0, <2>2 DEF NeedAt
            <3>. QED  BY <1>6, <3>1 DEF Earlier
        <2>. QED  BY <2>1, <2>2
    <1>12. need \in [TaskIds -> Nat]
        <2>1. need = [t \in TaskIds |-> need[t]]
            BY <1>0 DEF NeedAt
        <2>. QED  BY <1>11, <2>1
    <1>13. WorkSound(need, Released, tick)
        BY <1>10, <1>11, <1>12 DEF WorkSound
    <1>14. \A r \in ResourceIds : ~ Idle(r) => resource[r].expected > tick
        BY <1>1, NoIntervalEndsNow DEF KernelInv
    <1>15. tick \in Int
        BY <1>1
    <1>16. Tracks(count, need) /\ \A j \in Released : Active(j) => LeftAt(j, tick) > 0
        BY <1>1, <1>3, <1>5, <1>13, <1>14, <1>15, WorkTracks
    <1>. QED  BY <1>0, <1>3, <1>5, <1>13, <1>16

-----------------------------------------------------------------------------
(* The decisions of a tick are those of the reference. *)

\* Whom the reference finds on a resource that is not decided yet.
LEMMA IncumbentIsOwner ==
    ASSUME PlanInv, stage = "schedule", NEW s, s = RefAt(config, tick - 1), Within(s),
           NEW r \in ResourceIds, r \in todo
    PROVE  Incumbent(s, r) = OwnerOf(r)
    <1>1. KernelInv
        BY DEF PlanInv
    <1>2. /\ Idle(r) => s.owner[r] = Nobody \/ s.owner[r] \in Finishing(s)
          /\ ~ Idle(r) => s.owner[r] = resource[r].running[1] /\ jobs[resource[r].running].release < tick
        BY DEF Within, OwnerWithin, Undecided
    <1>3. CASE Idle(r)
        BY <1>2, <1>3 DEF Incumbent, OwnerOf
    <1>4. CASE ~ Idle(r)
        <2>0. PICK p : p = resource[r].running
            OBVIOUS
        <2>1. p \in Released /\ Active(p)
            BY <1>1, <1>4, <2>0, RunningFacts
        <2>2. LeftAt(p, tick) > 0
            BY <2>1, NeedIsWork
        <2>3. p \in Earlier
            BY <1>2, <1>4, <2>0, <2>1 DEF Earlier
        <2>4. LeftOver(s)[p[1]] = LeftAt(p, tick)
            BY <2>1, <2>3 DEF Within, WorkWithin, WorkSound
        <2>5. p[1] \notin Finishing(s)
            BY <2>2, <2>4 DEF Finishing
        <2>. QED  BY <1>2, <1>4, <2>0, <2>5 DEF Incumbent, OwnerOf
    <1>. QED  BY <1>3, <1>4

\* A visit that decides as the reference does.
LEMMA VisitAgrees ==
    ASSUME PlanInv, AgreesWithin, NEW r \in ResourceIds, stage = "schedule", r \in todo, Visited(r),
           SameWork, OnlyResource(r), \A j \in Released : jobs'[j].missed <=> jobs[j].missed,
           OwnerAt(config, RefAt(config, tick - 1), tick, r) = OwnerOf(r)'
    PROVE  AgreesWithin' /\ AgreesBetween'
    <1>0. PICK s : s = RefAt(config, tick - 1)
        OBVIOUS
    <1>1. TypeOK /\ MembershipAgrees /\ UNCHANGED <<config, tick>>
        BY DEF PlanInv, KernelInv, StateInv, SameWork
    <1>2. Within(s)
        BY <1>0 DEF AgreesWithin, TickStages
    <1>3. WorkWithin(s)' /\ FinishesWithin(s)' /\ MissesWithin(s)'
        BY <1>1, <1>2, WorkKept DEF Within
    <1>4. todo' = todo \ {r} /\ stage' = IF todo = {r} THEN "act" ELSE "schedule"
        BY DEF Visited
    <1>5. ASSUME NEW x \in ResourceIds
          PROVE  OwnerWithin(s, x)'
        <2>1. CASE x = r
            <3>1. ~ Undecided(x)'
                BY <1>4, <2>1 DEF Undecided
            <3>2. OwnerAt(config, s, tick, x)' = OwnerOf(x)'
                BY <1>0, <1>1, <2>1
            <3>. QED  BY <3>1, <3>2 DEF OwnerWithin
        <2>2. CASE x # r
            <3>1. resource'[x] = resource[x]
                BY <2>2 DEF OnlyResource
            <3>2. (Decided(x)' => Decided(x)) /\ (Undecided(x)' => Undecided(x))
                BY <1>4, <2>2 DEF Decided, Undecided
            <3>3. OwnerWithin(s, x)
                BY <1>2 DEF Within
            <3>. QED  BY <1>1, <3>1, <3>2, <3>3, OwnerKept
        <2>. QED  BY <2>1, <2>2
    <1>6. Within(s)'
        BY <1>2, <1>3, <1>5 DEF Within
    <1>7. s = RefAt(config', tick' - 1)
        BY <1>0, <1>1
    <1>. QED  BY <1>4, <1>6, <1>7 DEF AgreesWithin, AgreesBetween

\* The reference's decision about r, from what the jobs track.
LEMMA ReferenceDecides ==
    ASSUME PlanInv, AgreesWithin, stage = "schedule", NEW r \in ResourceIds, r \in todo
    PROVE  \E count, left : /\ Tracks(count, left)
                            /\ OwnerAt(config, RefAt(config, tick - 1), tick, r)
                                   = OwnerAfter(config, count, left, r, OwnerOf(r))
    <1>0. PICK s : s = RefAt(config, tick - 1)
        OBVIOUS
    <1>1. Within(s)
        BY <1>0 DEF AgreesWithin, TickStages
    <1>2. Tracks(CountAt(config, s, tick), NeedAt(config, s, tick))
        BY <1>0, <1>1, NeedIsWork
    <1>3. Incumbent(s, r) = OwnerOf(r)
        BY <1>0, <1>1, IncumbentIsOwner
    <1>. QED  BY <1>0, <1>2, <1>3 DEF OwnerAt

\* A resource that is left as it is, is left so by the reference.
LEMMA LeaveResourceAgrees ==
    ASSUME PlanInv, AgreesWithin, NEW r \in ResourceIds, LeaveResource(r)
    PROVE  AgreesWithin' /\ AgreesBetween'
    <1>1. TypeOK /\ MembershipAgrees /\ JobsPlanned
        BY DEF PlanInv, KernelInv, StateInv
    <1>2. /\ stage = "schedule" /\ r \in todo /\ Undisturbed(r) /\ Visited(r)
          /\ UNCHANGED <<config, tick, jobs, resource>>
        BY DEF LeaveResource, Visiting, Least
    <1>3. PICK count, left : /\ Tracks(count, left)
                             /\ OwnerAt(config, RefAt(config, tick - 1), tick, r)
                                    = OwnerAfter(config, count, left, r, OwnerOf(r))
        BY <1>2, ReferenceDecides
    <1>4. OwnerAfter(config, count, left, r, OwnerOf(r)) = OwnerOf(r)
        <2>1. CASE Idle(r)
            <3>1. ready[r] = {}
                BY <1>2, <2>1 DEF Undisturbed
            <3>2. OwnerAfter(config, count, left, r, OwnerOf(r)) = Nobody
                BY <1>1, <1>3, <2>1, <3>1, IdleIsNobodys
            <3>. QED  BY <2>1, <3>2 DEF OwnerOf
        <2>2. CASE ~ Idle(r)
            <3>1. \/ config.mode = "NonPreemptive"
                  \/ \A k \in ready[r] : jobs[resource[r].running].priority <= jobs[k].priority
                <4>1. CASE ready[r] = {} \/ config.mode = "NonPreemptive"
                    BY <4>1
                <4>2. CASE \E j \in ready[r] : Selected(r, j) /\ ~ ShouldPreempt(resource[r].running, j)
                    <5>1. PICK j \in ready[r] : Selected(r, j) /\ ~ ShouldPreempt(resource[r].running, j)
                        BY <4>2
                    <5>2. PICK p : p = resource[r].running
                        OBVIOUS
                    <5>3. j \in Released /\ p \in Released /\ \A k \in ready[r] : k \in Released
                        BY <1>1, <2>2, <5>2 DEF MembershipAgrees
                    <5>4. \A k \in Released : jobs[k].priority \in Nat
                        BY <1>1, JobFacts
                    <5>5. \A k \in ready[r] : ~ (jobs[k].priority < jobs[j].priority)
                        BY <5>1 DEF Selected, ComesBefore
                    <5>6. ~ (jobs[j].priority < jobs[p].priority)
                        BY <5>1, <5>2 DEF ShouldPreempt
                    <5>7. \A k \in ready[r] : jobs[p].priority <= jobs[k].priority
                        BY <5>3, <5>4, <5>5, <5>6
                    <5>. QED  BY <5>2, <5>7
                <4>. QED  BY <1>2, <4>1, <4>2 DEF Undisturbed
            <3>2. OwnerAfter(config, count, left, r, resource[r].running[1]) = resource[r].running[1]
                BY <1>1, <1>3, <2>2, <3>1, RunningStays
            <3>. QED  BY <2>2, <3>2 DEF OwnerOf
        <2>. QED  BY <2>1, <2>2
    <1>5. OwnerAt(config, RefAt(config, tick - 1), tick, r) = OwnerOf(r)'
        BY <1>2, <1>3, <1>4 DEF OwnerOf, Idle
    <1>6. SameWork /\ OnlyResource(r) /\ \A j \in Released : jobs'[j].missed <=> jobs[j].missed
        BY <1>2, WorkUntouched DEF OnlyResource
    <1>. QED  BY <1>2, <1>5, <1>6, VisitAgrees

\* An idle resource takes the job of the task the reference chooses.
LEMMA DispatchAgrees ==
    ASSUME PlanInv, AgreesWithin, NEW r \in ResourceIds, NEW j \in ready[r], Dispatch(r, j)
    PROVE  AgreesWithin' /\ AgreesBetween'
    <1>1. KernelInv /\ TypeOK /\ MembershipAgrees /\ JobsPlanned
        BY DEF PlanInv, KernelInv, StateInv
    <1>2. /\ stage = "schedule" /\ r \in todo /\ Idle(r) /\ Selected(r, j)
        BY DEF Dispatch, Visiting, Least
    <1>3. CASE stage' = "failed"
        BY <1>3 DEF AgreesWithin, AgreesBetween, TickStages
    <1>4. CASE stage' # "failed"
        <2>1. /\ OnlyJob(j) /\ OnlyResource(r) /\ jobs'[j].missed = jobs[j].missed
              /\ resource'[r].running = j /\ Visited(r) /\ j \in Released
            BY <1>1, <1>4, DispatchEffect
        <2>2. \A k \in Released : jobs'[k].missed <=> jobs[k].missed
            BY <2>1 DEF OnlyJob
        <2>3. PICK count, left : /\ Tracks(count, left)
                                 /\ OwnerAt(config, RefAt(config, tick - 1), tick, r)
                                        = OwnerAfter(config, count, left, r, OwnerOf(r))
            BY <1>2, ReferenceDecides
        <2>4. OwnerOf(r) = Nobody
            BY <1>2 DEF OwnerOf
        <2>5. OwnerAfter(config, count, left, r, Nobody) = j[1]
            BY <1>1, <1>2, <2>1, <2>3, SelectedTakes
        <2>6. OwnerOf(r)' = j[1]
            BY <1>1, <2>1, JobFacts DEF OwnerOf, Idle
        <2>7. SameWork
            BY <1>1, DispatchWork
        <2>. QED  BY <1>2, <2>1, <2>2, <2>3, <2>4, <2>5, <2>6, <2>7, VisitAgrees
    <1>. QED  BY <1>3, <1>4

\* A job is preempted by the job of the task the reference chooses.
LEMMA PreemptAgrees ==
    ASSUME PlanInv, AgreesWithin, NEW r \in ResourceIds, NEW j \in ready[r], Preempt(r, j)
    PROVE  AgreesWithin' /\ AgreesBetween'
    <1>0. PICK p : p = resource[r].running
        OBVIOUS
    <1>1. KernelInv /\ TypeOK /\ MembershipAgrees /\ JobsPlanned
        BY DEF PlanInv, KernelInv, StateInv
    <1>2. /\ stage = "schedule" /\ r \in todo /\ ~ Idle(r) /\ Selected(r, j) /\ ShouldPreempt(p, j)
          /\ config.mode # "NonPreemptive"
        BY <1>0 DEF Preempt, Visiting, Least
    <1>3. /\ j \in Released /\ p \in Released /\ \A k \in Released : k \notin {j, p} => jobs'[k] = jobs[k]
          /\ jobs'[j].missed = jobs[j].missed /\ jobs'[p].missed = jobs[p].missed
          /\ OnlyResource(r) /\ resource'[r].running = j /\ Visited(r)
        BY <1>0, <1>1, PreemptEffect
    <1>4. \A k \in Released : jobs'[k].missed <=> jobs[k].missed
        BY <1>3
    <1>5. PICK count, left : /\ Tracks(count, left)
                             /\ OwnerAt(config, RefAt(config, tick - 1), tick, r)
                                    = OwnerAfter(config, count, left, r, OwnerOf(r))
        BY <1>2, ReferenceDecides
    <1>6. OwnerOf(r) = resource[r].running[1]
        BY <1>2 DEF OwnerOf
    <1>7. OwnerAfter(config, count, left, r, resource[r].running[1]) = j[1]
        BY <1>0, <1>1, <1>2, <1>3, <1>5, SelectedTakes
    <1>8. OwnerOf(r)' = j[1]
        BY <1>1, <1>3, JobFacts DEF OwnerOf, Idle
    <1>9. SameWork
        BY <1>1, PreemptWork
    <1>. QED  BY <1>2, <1>3, <1>4, <1>5, <1>6, <1>7, <1>8, <1>9, VisitAgrees

-----------------------------------------------------------------------------
(* The releases of a tick are those of the reference. *)

\* The reference releases the job whose release is processed.
LEMMA ReleaseIsFresh ==
    ASSUME PlanInv, stage = "release", NEW e \in batch
    PROVE  LET t == e.entities.task
               count == RefAt(config, tick - 1).count
           IN  /\ t \in TaskIds /\ t \in Fresh(config, tick) /\ e.entities.job = count[t] + 1
               /\ count[t] \in Nat /\ NumberedTo(t, count[t])
    <1>0. PICK t, k, p, o, s : /\ t = e.entities.task /\ k = e.entities.job
                               /\ p = config.task[t].period /\ o = config.task[t].offset
                               /\ s = RefAt(config, tick - 1)
        OBVIOUS
    <1>1. KernelInv /\ TypeOK /\ ValidConfig(config) /\ ReleasesPlanned /\ tick \in Nat
        BY DEF PlanInv, KernelInv, StateInv, TypeOK
    <1>2. t \in TaskIds /\ k \in Nat /\ k >= 1 /\ NumberedTo(t, k - 1) /\ tick = o + (k - 1) * p
        BY <1>0, <1>1, NextJob
    <1>3. p \in Nat /\ o \in Nat /\ p > 0
        BY <1>0, <1>1, <1>2, TaskTimes
    <1>4. k - 1 \in Int /\ (k - 1) * p \in Int /\ k * p = (k - 1) * p + p /\ ((k - 1) - 1) * p = (k - 1) * p - p
          /\ k * p \in Int /\ ((k - 1) - 1) * p \in Int
        BY <1>2, <1>3, Multiples
    <1>5. Planned(config, t, k, tick)
        <2>1. o + (k - 1) * p <= tick /\ tick < o + k * p
            BY <1>1, <1>2, <1>3, <1>4
        <2>. QED  BY <1>0, <1>2, <2>1 DEF Planned
    <1>6. Planned(config, t, k - 1, tick - 1)
        <2>1. k - 1 \in Nat /\ o + ((k - 1) - 1) * p <= tick - 1 /\ tick - 1 < o + (k - 1) * p
            BY <1>1, <1>2, <1>3, <1>4
        <2>. QED  BY <1>0, <2>1 DEF Planned
    <1>7. s.count[t] = k - 1
        <2>1. tick - 1 \in Nat \cup {-1} /\ tick - 1 \in Int
            BY <1>1
        <2>2. Planned(config, t, s.count[t], tick - 1)
            BY <1>0, <1>1, <1>2, <2>1, ReferenceCounts
        <2>. QED  BY <1>1, <1>2, <1>6, <2>1, <2>2, PlannedOnce
    <1>8. RefAt(config, tick).count[t] = k
        <2>1. Planned(config, t, RefAt(config, tick).count[t], tick)
            BY <1>1, <1>2, ReferenceCounts
        <2>2. tick \in Int
            BY <1>1
        <2>. QED  BY <1>1, <1>2, <1>5, <2>1, <2>2, PlannedOnce
    <1>9. t \in Fresh(config, tick)
        <2>1. RefAt(config, tick).count = CountAt(config, s, tick)
            BY <1>0, <1>1, TickFields
        <2>2. t \notin Fresh(config, tick) => CountAt(config, s, tick)[t] = s.count[t]
            BY <1>2 DEF CountAt
        <2>. QED  BY <1>2, <1>7, <1>8, <2>1, <2>2
    <1>10. /\ s.count[t] \in Nat /\ NumberedTo(t, s.count[t]) /\ k = s.count[t] + 1
        BY <1>2, <1>7
    <1>11. s.count = RefAt(config, tick - 1).count
        BY <1>0
    <1>. QED  BY <1>0, <1>2, <1>9, <1>10, <1>11

\* An incomplete job needs work after the completions of a tick.
LEMMA ActiveNeeds ==
    ASSUME KernelInv, NEW n \in Int, \A r \in ResourceIds : ~ Idle(r) => resource[r].expected > n,
           NEW j \in Released, Active(j)
    PROVE  LeftAt(j, n) > 0
    <1>0. PICK r : r = jobs[j].resource
        OBVIOUS
    <1>1. r \in ResourceIds /\ j # NoJob
        BY <1>0, JobFacts DEF KernelInv, StateInv
    <1>2. CASE resource[r].running = j
        <2>1. ~ Idle(r)
            BY <1>1, <1>2 DEF Idle
        <2>2. LeftAt(j, n) = resource[r].expected - n /\ resource[r].expected \in Int
            BY <1>1, <1>2, <2>1, RunningFacts
        <2>3. resource[r].expected > n
            BY <1>1, <2>1
        <2>. QED  BY <2>2, <2>3
    <1>3. CASE resource[r].running # j
        <2>1. LeftAt(j, n) = jobs[j].remaining
            BY <1>0, <1>3 DEF LeftAt
        <2>. QED  BY <2>1 DEF KernelInv, JobsSound
    <1>. QED  BY <1>2, <1>3

\* A release that finds an incomplete job is one that the reference finds, too.
LEMMA OverlapIsReferences ==
    ASSUME PlanInv, AgreesWithin, stage = "release", NEW e \in batch, HasActiveJob(e.entities.task)
    PROVE  RefAt(config, tick).overlap
    <1>0. PICK s, t : s = RefAt(config, tick - 1) /\ t = e.entities.task
        OBVIOUS
    <1>1. KernelInv /\ TypeOK /\ tick \in Nat
        BY DEF PlanInv, KernelInv, StateInv, TypeOK
    <1>2. t \in TaskIds /\ t \in Fresh(config, tick) /\ NumberedTo(t, s.count[t])
        BY <1>0, ReleaseIsFresh
    <1>3. PICK j \in Released : j[1] = t /\ Active(j)
        BY <1>0 DEF HasActiveJob
    <1>4. j[2] <= s.count[t]
        <2>1. j[2] \in 1 .. s.count[t]
            BY <1>2, <1>3 DEF NumberedTo
        <2>2. s.count[t] \in Nat
            BY <1>0, ReleaseIsFresh
        <2>. QED  BY <2>1, <2>2
    <1>5. j \in Earlier
        <2>1. jobs[j].release < tick
            BY <1>0, <1>3, <1>4, CountedBefore
        <2>. QED  BY <2>1 DEF Earlier
    <1>6. LeftAt(j, tick) > 0
        <2>1. \A r \in ResourceIds : ~ Idle(r) => resource[r].expected > tick
            BY <1>1, NoIntervalEndsNow DEF KernelInv
        <2>. QED  BY <1>1, <1>3, <2>1, ActiveNeeds
    <1>7. LeftOver(s)[t] > 0
        BY <1>0, <1>3, <1>5, <1>6 DEF AgreesWithin, TickStages, Within, WorkWithin, WorkSound
    <1>8. RefAt(config, tick).overlap = (s.overlap \/ \E x \in Fresh(config, tick) : LeftOver(s)[x] > 0)
        BY <1>0, <1>1, TickFields
    <1>. QED  BY <1>2, <1>7, <1>8

\* A released job is fresh in the reference as well.
LEMMA ReleaseJobAgrees ==
    ASSUME PlanInv, AgreesWithin, NEW e \in batch, ReleaseJob(e), stage' # "failed"
    PROVE  AgreesWithin' /\ AgreesBetween'
    <1>0. PICK s, j, t : s = RefAt(config, tick - 1) /\ j = JobOf(e) /\ t = e.entities.task
        OBVIOUS
    <1>1. /\ KernelInv /\ TypeOK /\ MembershipAgrees /\ tick \in Nat
        BY DEF PlanInv, KernelInv, StateInv, TypeOK
    <1>2. UNCHANGED <<config, tick, resource>> /\ stage = "release" /\ t \in TaskIds /\ j \notin Released
        BY <1>0, <1>1, ReleaseEffect
    <1>3. /\ Released' = Released \cup {j} /\ \A k \in Released : jobs'[k] = jobs[k]
          /\ jobs'[j].lifecycle = "Ready" /\ jobs'[j].remaining = Demand(config, t)
          /\ jobs'[j].release = tick /\ jobs'[j].missed = FALSE
          /\ jobs'[j].resource = config.assignment[t] /\ stage' \in {"settle", "release"}
        BY <1>0, <1>1, ReleaseEffect
    <1>4. Within(s)
        BY <1>0, <1>2 DEF AgreesWithin, TickStages
    <1>5. j # NoJob /\ j[1] = t
        <2>1. e.entities.job \in Nat
            BY <1>1, <1>2, NextJob DEF PlanInv
        <2>. QED  BY <1>0, <1>2, <2>1, NoJobAssumption DEF JobOf
    <1>6. \A k \in Released : k # j /\ (Active(k)' <=> Active(k)) /\ LeftAt(k, tick)' = LeftAt(k, tick)
        BY <1>2, <1>3 DEF Active, LeftAt
    <1>7. Active(j)' /\ LeftAt(j, tick)' = Demand(config, t)
        <2>1. config.assignment[t] \in ResourceIds
            BY <1>1, <1>2, ConfigType
        <2>2. resource[config.assignment[t]].running # j
            BY <1>1, <1>2, <1>5, <2>1 DEF MembershipAgrees, Idle
        <2>. QED  BY <1>2, <1>3, <2>2 DEF Active, LeftAt
    <1>8. Earlier' = Earlier /\ Earlier \subseteq Released
        <2>1. \A k \in Released' : jobs'[k].release < tick' <=> k \in Released /\ jobs[k].release < tick
            BY <1>1, <1>2, <1>3, <1>6
        <2>. QED  BY <1>3, <2>1 DEF Earlier
    <1>9. WorkWithin(s)'
        <2>1. WorkSound(LeftOver(s), Earlier, tick)
            BY <1>4 DEF Within, WorkWithin
        <2>2. WorkSound(LeftOver(s), Earlier, tick)'
            BY <1>2, <1>6, <1>8, <2>1 DEF WorkSound
        <2>3. ASSUME NEW k \in Released' \ Earlier
              PROVE  Active(k)' /\ LeftAt(k, tick)' = Demand(config, k[1])
            <3>1. CASE k = j
                BY <1>5, <1>7, <3>1
            <3>2. CASE k # j
                BY <1>3, <1>4, <1>6, <2>3, <3>2 DEF Within, WorkWithin
            <3>. QED  BY <3>1, <3>2
        <2>. QED  BY <1>2, <1>8, <2>2, <2>3 DEF WorkWithin
    <1>10. Finished' = Finished /\ Finished \subseteq Released /\ \A k \in Finished : jobs'[k] = jobs[k]
        <2>1. \A k \in Released' : ~ Active(k)' <=> k \in Released /\ ~ Active(k)
            BY <1>3, <1>6, <1>7
        <2>. QED  BY <1>3, <2>1 DEF Finished
    <1>11. FinishesWithin(s)'
        <2>1. {FinishOf(k) : k \in {k \in Finished : jobs[k].finish < tick}}'
                  = {FinishOf(k) : k \in {k \in Finished : jobs[k].finish < tick}}
            <3>1. {k \in Finished : jobs[k].finish < tick}' = {k \in Finished : jobs[k].finish < tick}
                BY <1>2, <1>10
            <3>2. \A k \in Finished : FinishOf(k)' = FinishOf(k)
                BY <1>10 DEF FinishOf
            <3>. QED  BY <3>1, <3>2
        <2>2. \A k \in Finished' : jobs'[k].finish = tick' => k[1] \in Finishing(s) /\ k[2] = s.count[k[1]]
            BY <1>2, <1>4, <1>10 DEF Within, FinishesWithin
        <2>3. ASSUME NEW x \in Finishing(s)
              PROVE  LET k == <<x, s.count[x]>> IN k \in Released' /\ (Active(k)' \/ jobs'[k].finish = tick')
            <3>1. PICK k : k = <<x, s.count[x]>>
                OBVIOUS
            <3>2. k \in Released /\ (Active(k) \/ jobs[k].finish = tick)
                BY <1>4, <2>3, <3>1 DEF Within, FinishesWithin
            <3>3. k \in Released' /\ (Active(k)' \/ jobs'[k].finish = tick')
                BY <1>2, <1>3, <1>6, <3>2
            <3>. QED  BY <3>1, <3>3
        <2>4. s.done = {FinishOf(k) : k \in {k \in Finished : jobs[k].finish < tick}}
            BY <1>4 DEF Within, FinishesWithin
        <2>. QED  BY <2>1, <2>2, <2>3, <2>4 DEF FinishesWithin
    <1>12. MissesWithin(s)'
        <2>1. \A k \in Released' : (jobs'[k].missed /\ jobs'[k].deadline < tick')
                                       <=> k \in Released /\ jobs[k].missed /\ jobs[k].deadline < tick
            BY <1>2, <1>3, <1>6
        <2>2. s.missed = {k \in Released : jobs[k].missed /\ jobs[k].deadline < tick}
            BY <1>4 DEF Within, MissesWithin
        <2>. QED  BY <1>3, <2>1, <2>2 DEF MissesWithin
    <1>13. ASSUME NEW r \in ResourceIds
           PROVE  OwnerWithin(s, r)'
        <2>1. ~ Decided(r)' /\ Undecided(r)
            BY <1>2, <1>3 DEF Decided, Undecided
        <2>2. ~ Idle(r) => jobs'[resource[r].running].release = jobs[resource[r].running].release
            BY <1>1, <1>3 DEF MembershipAgrees
        <2>3. OwnerWithin(s, r)
            BY <1>4 DEF Within
        <2>. QED  BY <1>2, <2>1, <2>2, <2>3 DEF OwnerWithin, Idle
    <1>14. Within(s)'
        BY <1>4, <1>9, <1>11, <1>12, <1>13 DEF Within
    <1>15. s = RefAt(config', tick' - 1)
        BY <1>0, <1>2
    <1>. QED  BY <1>3, <1>14, <1>15 DEF AgreesWithin, AgreesBetween

-----------------------------------------------------------------------------
(* After a tick the engine has done what the reference's tick does. *)

\* The job of a task that the reference counted before this tick and still owes work.
LEMMA EarlierIsCounted ==
    ASSUME PlanInv, stage \in TickStages, NEW s, s = RefAt(config, tick - 1), NEW j \in Earlier, Active(j)
    PROVE  j \in Released /\ j[1] \in TaskIds /\ s.count[j[1]] \in Nat /\ j = <<j[1], s.count[j[1]]>>
    <1>1. TypeOK /\ JobsPlanned /\ stage \notin {"initialize", "failed"}
        BY DEF PlanInv, KernelInv, StateInv, TickStages
    <1>2. j \in Released /\ jobs[j].release < tick
        BY DEF Earlier
    <1>3. j[1] \in TaskIds /\ j[2] \in Nat /\ j = <<j[1], j[2]>> /\ j[2] >= 1
        BY <1>1, <1>2, JobFacts DEF JobsPlanned
    <1>4. /\ s.count[j[1]] \in Nat /\ \A k \in 1 .. s.count[j[1]] : <<j[1], k>> \in Released
          /\ j[2] <= s.count[j[1]]
        BY <1>1, <1>2, <1>3, CountedBefore
    <1>5. <<j[1], s.count[j[1]]>> \in Released
        BY <1>3, <1>4
    <1>6. s.count[j[1]] <= j[2]
        BY <1>1, <1>2, <1>5 DEF JobsPlanned
    <1>. QED  BY <1>2, <1>3, <1>4, <1>6

\* A tick whose decisions are made is a whole step of the reference.
LEMMA TickEnds ==
    ASSUME PlanInv, AgreesWithin, stage = "act"
    PROVE  Agrees(tick)
    <1>0. PICK s, u : s = RefAt(config, tick - 1) /\ u = RefAt(config, tick)
        OBVIOUS
    <1>1. KernelInv /\ TypeOK /\ JobsPlanned /\ tick \in Nat
        BY DEF PlanInv, KernelInv, StateInv, TypeOK
    <1>2. Within(s) /\ stage \in TickStages
        BY <1>0 DEF AgreesWithin, TickStages
    <1>3. /\ u.count = CountAt(config, s, tick) /\ u.left = NeedAt(config, s, tick)
          /\ u.owner = [r \in ResourceIds |-> OwnerAt(config, s, tick, r)]
          /\ u.done = s.done \cup {<<t, s.count[t], tick>> : t \in Finishing(s)}
          /\ u.missed = s.missed \cup {<<t, s.count[t]>> : t \in Late(config, s, tick)}
          /\ u.overlap = (s.overlap \/ \E t \in Fresh(config, tick) : LeftOver(s)[t] > 0)
        BY <1>0, <1>1, TickFields
    <1>4. /\ \A t \in TaskIds : NumberedTo(t, u.count[t])
          /\ WorkSound(u.left, Released, tick)
          /\ \A j \in Released : Active(j) => LeftAt(j, tick) > 0
          /\ u.count \in [TaskIds -> Nat]
        BY <1>0, <1>2, <1>3, NeedIsWork
    <1>5. /\ \A j \in Earlier : Active(j) => LeftOver(s)[j[1]] = LeftAt(j, tick)
          /\ \A t \in TaskIds : LeftOver(s)[t] > 0 => \E j \in Earlier : j[1] = t /\ Active(j)
        BY <1>2 DEF Within, WorkWithin, WorkSound
    <1>6. ~ u.overlap
        <2>1. SUFFICES ASSUME NEW t \in Fresh(config, tick), LeftOver(s)[t] > 0 PROVE FALSE
            BY <1>2, <1>3 DEF Within
        <2>2. t \in TaskIds
            BY DEF Fresh
        <2>3. PICK j \in Earlier : j[1] = t /\ Active(j)
            BY <1>5, <2>1, <2>2
        <2>4. j \in Released /\ s.count[t] \in Nat /\ j = <<t, s.count[t]>>
            BY <1>0, <1>2, <2>3, EarlierIsCounted
        <2>5. u.count[t] = s.count[t] + 1 /\ u.count[t] \in Nat
            BY <1>3, <1>4, <2>2 DEF CountAt
        <2>6. j[2] = u.count[t]
            BY <1>1, <1>4, <2>2, <2>3, <2>4, <2>5, LatestNumber
        <2>. QED  BY <2>4, <2>5, <2>6
    <1>7. u.done = {FinishOf(j) : j \in Finished}
        <2>1. s.done = {FinishOf(j) : j \in {k \in Finished : jobs[k].finish < tick}}
            BY <1>2 DEF Within, FinishesWithin
        <2>2. ASSUME NEW t \in Finishing(s)
              PROVE  \E j \in Finished : <<t, s.count[t], tick>> = FinishOf(j)
            <3>1. PICK j : j = <<t, s.count[t]>>
                OBVIOUS
            <3>2. j \in Released /\ (Active(j) \/ jobs[j].finish = tick)
                BY <1>2, <2>2, <3>1 DEF Within, FinishesWithin
            <3>3. ~ Active(j)
                <4>1. SUFFICES ASSUME Active(j) PROVE FALSE
                    OBVIOUS
                <4>2. t \in TaskIds /\ j[1] = t /\ j[2] = s.count[t]
                    BY <1>1, <3>1, <3>2, JobFacts
                <4>3. j[2] <= s.count[j[1]]
                    BY <1>1, <3>2, <4>2, JobFacts
                <4>4. jobs[j].release < tick
                    BY <1>0, <1>2, <3>2, <4>3, CountedBefore
                <4>5. j \in Earlier
                    BY <3>2, <4>4 DEF Earlier
                <4>6. LeftOver(s)[t] > 0
                    BY <1>4, <1>5, <3>2, <4>1, <4>2, <4>5
                <4>. QED  BY <2>2, <4>6 DEF Finishing
            <3>. QED  BY <3>1, <3>2, <3>3 DEF Finished, FinishOf
        <2>3. ASSUME NEW j \in Finished
              PROVE  FinishOf(j) \in u.done
            <3>1. j \in Released /\ jobs[j].finish <= tick /\ jobs[j].finish \in Int
                BY <1>1, JobFacts DEF Finished, JobsPlanned
            <3>2. CASE jobs[j].finish < tick
                BY <1>3, <2>1, <3>2
            <3>3. CASE jobs[j].finish = tick
                <4>1. j[1] \in Finishing(s) /\ j[2] = s.count[j[1]]
                    BY <1>2, <3>3 DEF Within, FinishesWithin
                <4>. QED  BY <1>3, <3>3, <4>1 DEF FinishOf
            <3>. QED  BY <1>1, <3>1, <3>2, <3>3
        <2>4. \A x \in u.done : \E j \in Finished : x = FinishOf(j)
            BY <1>3, <2>1, <2>2
        <2>. QED  BY <2>3, <2>4
    <1>8. u.missed = {j \in Released : jobs[j].missed}
        <2>1. s.missed = {j \in Released : jobs[j].missed /\ jobs[j].deadline < tick}
            BY <1>2 DEF Within, MissesWithin
        <2>2. \A j \in Released : jobs[j].missed <=> jobs[j].deadline <= tick /\ (Active(j) \/ jobs[j].finish > jobs[j].deadline)
            BY <1>1, VerdictsAreGiven DEF DeadlineVerdicts
        <2>3. \A j \in Earlier : Active(j) =>
                  /\ j \in Released /\ j[1] \in TaskIds /\ j = <<j[1], s.count[j[1]]>>
                  /\ jobs[j].deadline = LatestRelease(config, s.count, j[1]) + config.task[j[1]].deadline
            <3>1. SUFFICES ASSUME NEW j \in Earlier, Active(j)
                           PROVE  /\ j \in Released /\ j[1] \in TaskIds /\ j = <<j[1], s.count[j[1]]>>
                                  /\ jobs[j].deadline = LatestRelease(config, s.count, j[1]) + config.task[j[1]].deadline
                OBVIOUS
            <3>2. j \in Released /\ j[1] \in TaskIds /\ j = <<j[1], s.count[j[1]]>>
                BY <1>0, <1>2, <3>1, EarlierIsCounted
            <3>3. j[2] = s.count[j[1]]
                BY <3>2
            <3>4. jobs[j].deadline = jobs[j].release + config.task[j[1]].deadline
                BY <1>1, <3>2 DEF JobsPlanned
            <3>5. jobs[j].release = LatestRelease(config, s.count, j[1])
                BY <1>1, <3>2, <3>3 DEF JobsPlanned, LatestRelease
            <3>. QED  BY <3>2, <3>4, <3>5
        <2>4. ASSUME NEW t \in Late(config, s, tick)
              PROVE  <<t, s.count[t]>> \in {j \in Released : jobs[j].missed}
            <3>1. t \in TaskIds /\ LeftOver(s)[t] > 0 /\ LatestRelease(config, s.count, t) + config.task[t].deadline = tick
                BY <2>4 DEF Late
            <3>2. PICK j \in Earlier : j[1] = t /\ Active(j)
                BY <1>5, <3>1
            <3>3. j \in Released /\ j = <<t, s.count[t]>> /\ jobs[j].deadline = tick
                BY <2>3, <3>1, <3>2
            <3>4. jobs[j].missed
                BY <1>1, <2>2, <3>2, <3>3
            <3>. QED  BY <3>3, <3>4
        <2>5. ASSUME NEW j \in Released, jobs[j].missed
              PROVE  j \in u.missed
            <3>1. jobs[j].deadline <= tick /\ (Active(j) \/ jobs[j].finish > jobs[j].deadline)
                  /\ jobs[j].deadline \in Nat /\ jobs[j].finish \in Int /\ jobs[j].release \in Nat
                BY <1>1, <2>2, <2>5, JobFacts
            <3>2. CASE jobs[j].deadline < tick
                BY <1>3, <2>1, <2>5, <3>2
            <3>3. CASE jobs[j].deadline = tick
                <4>1. Active(j)
                    <5>1. ~ Active(j) => jobs[j].finish <= tick
                        BY <1>1 DEF JobsPlanned
                    <5>. QED  BY <1>1, <3>1, <3>3, <5>1
                <4>2. jobs[j].release < tick
                    BY <1>1, <3>3 DEF KernelInv, JobsSound
                <4>3. j \in Earlier
                    BY <4>2 DEF Earlier
                <4>4. LeftOver(s)[j[1]] > 0
                    BY <1>4, <1>5, <4>1, <4>3
                <4>5. j[1] \in Late(config, s, tick) /\ j = <<j[1], s.count[j[1]]>>
                    BY <2>3, <3>3, <4>1, <4>3, <4>4 DEF Late
                <4>. QED  BY <1>3, <4>5
            <3>. QED  BY <1>1, <3>1, <3>2, <3>3
        <2>6. \A x \in u.missed : x \in {j \in Released : jobs[j].missed}
            BY <1>3, <2>1, <2>4
        <2>. QED  BY <2>5, <2>6
    <1>9. ASSUME NEW r \in ResourceIds
          PROVE  u.owner[r] = OwnerOf(r)
        <2>1. Decided(r)
            BY DEF Decided
        <2>2. OwnerAt(config, s, tick, r) = OwnerOf(r)
            BY <1>2, <2>1 DEF Within, OwnerWithin
        <2>. QED  BY <1>3, <2>2
    <1>. QED  BY <1>0, <1>4, <1>6, <1>7, <1>8, <1>9 DEF Agrees

\* The end of a tick, and of the run with it.
LEMMA EndTickAgrees ==
    ASSUME PlanInv, AgreesWithin, EndTick
    PROVE  AgreesWithin' /\ AgreesBetween'
    <1>1. TypeOK /\ config.stop \in Nat /\ tick <= config.stop
        BY ConfigType DEF PlanInv, KernelInv, StateInv, PositionSound
    <1>2. /\ stage = "act" /\ UNCHANGED <<config, tick, trace, jobs, resource>>
          /\ stage' = IF NothingInHorizon THEN "finished" ELSE "between"
        BY DEF EndTick
    <1>3. Agrees(tick)
        BY <1>2, TickEnds
    <1>4. CASE ~ NothingInHorizon
        <2>1. Agrees(tick)'
            <3>1. PICK n : n = tick
                OBVIOUS
            <3>2. Agrees(n)'
                BY <1>2, <1>3, <3>1, AgreesKept
            <3>. QED  BY <1>2, <3>1, <3>2
        <2>. QED  BY <1>2, <1>4, <2>1 DEF AgreesWithin, AgreesBetween, TickStages
    <1>5. CASE NothingInHorizon
        <2>1. PICK n : n = config.stop
            OBVIOUS
        <2>2. \A e \in queue.events : e.tick > n
            BY <1>1, <1>5, <2>1, BeyondHorizon
        <2>3. n \in Nat \cup {-1} /\ n <= config.stop /\ (trace # <<>> => tick <= n)
            BY <1>1, <2>1
        <2>4. Agrees(n)
            BY <1>2, <1>3, <2>2, <2>3, AgreesUntil
        <2>5. Agrees(n)'
            BY <1>2, <2>4, AgreesKept
        <2>. QED  BY <1>2, <1>5, <2>1, <2>5 DEF AgreesWithin, AgreesBetween, TickStages
    <1>. QED  BY <1>4, <1>5

-----------------------------------------------------------------------------
(* The agreement is an invariant. *)

\* Only a release that finds an incomplete job stops the engine for an overlap.
LEMMA OverlapKept ==
    ASSUME PlanInv, AgreementInv, [Next]_vars
    PROVE  OverlapAgrees'
    <1>1. KernelInv
        BY DEF PlanInv
    <1>2. OverlapAgrees
        BY DEF AgreementInv
    <1>3. CASE \E e \in batch : ReleaseJob(e)
        <2>1. PICK e \in batch : ReleaseJob(e)
            BY <1>3
        <2>2. UNCHANGED <<config, tick>> /\ stage = "release"
            BY <1>1, <2>1, ReleaseEffect
        <2>3. CASE stage' = "failed"
            <3>1. HasActiveJob(e.entities.task)
                BY <1>1, <2>1, <2>3, ReleaseEffect
            <3>2. PICK s : s = RefAt(config, tick)
                OBVIOUS
            <3>3. s.overlap
                BY <2>2, <3>1, <3>2, OverlapIsReferences DEF AgreementInv
            <3>4. s = RefAt(config', tick')
                BY <2>2, <3>2
            <3>. QED  BY <2>3, <3>3, <3>4 DEF OverlapAgrees
        <2>4. CASE stage' # "failed"
            <3>1. fault' = fault
                BY <1>1, <2>1, <2>4, ReleaseEffect
            <3>. QED  BY <1>2, <2>2, <3>1 DEF OverlapAgrees
        <2>. QED  BY <2>3, <2>4
    <1>4. CASE stage # "failed" /\ fault' \in {fault, "inconsistent", "zero_delay", "tick_overflow"}
        BY <1>2, <1>4 DEF OverlapAgrees
    <1>5. CASE UNCHANGED vars
        <2>1. UNCHANGED <<config, stage, fault, tick>>
            BY <1>5 DEF vars
        <2>2. PICK s : s = RefAt(config, tick)
            OBVIOUS
        <2>3. s = RefAt(config', tick')
            BY <2>1, <2>2
        <2>. QED  BY <1>2, <2>1, <2>2, <2>3 DEF OverlapAgrees
    <1>6. CASE \/ \E t \in TaskIds : QueueFirstRelease(t)
               \/ Initialized
               \/ \E e \in queue.events : BeginTick(e)
               \/ FinishEmpty
        <2>1. stage # "failed" /\ fault' \in {fault, "inconsistent"}
            BY <1>6 DEF QueueFirstRelease, Initialized, BeginTick, FinishEmpty, Throw
        <2>. QED  BY <1>4, <2>1
    <1>7. CASE Settle
        <2>1. stage # "failed" /\ fault' \in {fault, "inconsistent"}
            BY <1>7 DEF Settle, AcceptCompletion, IgnoreStaleCompletion, DeliverMessage, CheckDeadline,
                        Settling, Throw
        <2>. QED  BY <1>4, <2>1
    <1>8. CASE \E d \in TaskIds : PublishRoute(d)
        <2>1. stage # "failed" /\ fault' \in {fault, "zero_delay", "tick_overflow"}
            BY <1>8 DEF PublishRoute, Throw
        <2>. QED  BY <1>4, <2>1
    <1>9. CASE CollectReleases \/ \E e \in batch : ReleaseRefused(e)
        <2>1. stage # "failed" /\ fault' \in {fault, "inconsistent", "tick_overflow"}
            BY <1>9 DEF CollectReleases, ReleaseRefused, Throw
        <2>. QED  BY <1>4, <2>1
    <1>10. CASE Schedule
        <2>1. stage # "failed" /\ fault' \in {fault, "inconsistent", "tick_overflow"}
            BY <1>10 DEF Schedule, LeaveResource, Dispatch, Preempt, Visiting, Visited, Throw
        <2>. QED  BY <1>4, <2>1
    <1>11. CASE Act
        <2>1. stage # "failed" /\ fault' \in {fault, "inconsistent"}
            BY <1>11 DEF Act, EndTick, RecordDecision, SendMessage, Throw
        <2>. QED  BY <1>4, <2>1
    <1>. QED  BY <1>3, <1>5, <1>6, <1>7, <1>8, <1>9, <1>10, <1>11 DEF Next, ProcessReleases, StepAfterEnd

\* Every step keeps the agreement.
LEMMA NextAgrees == PlanInv /\ AgreementInv /\ [Next]_vars => AgreementInv'
    <1>. SUFFICES ASSUME PlanInv, AgreementInv, [Next]_vars
                  PROVE  AgreesWithin' /\ AgreesBetween'
        BY OverlapKept DEF AgreementInv
    <1>0. AgreesBetween /\ AgreesWithin
        BY DEF AgreementInv
    <1>1. CASE \E t \in TaskIds : QueueFirstRelease(t)
        BY <1>1 DEF QueueFirstRelease, AgreesWithin, AgreesBetween, TickStages
    <1>2. CASE Initialized
        <2>1. stage' = "between" /\ trace' = <<>>
            BY <1>2 DEF Initialized, PlanInv, KernelInv, PositionSound
        <2>. QED  BY <2>1 DEF AgreesWithin, AgreesBetween, TickStages
    <1>3. CASE \E e \in queue.events : BeginTick(e)
        BY <1>0, <1>3, BeginTickAgrees
    <1>4. CASE FinishEmpty
        BY <1>0, <1>4, FinishEmptyAgrees
    <1>5. CASE \E e \in queue.events : AcceptCompletion(e)
        BY <1>0, <1>5, AcceptCompletionAgrees
    <1>6. CASE \/ \E e \in queue.events : \/ IgnoreStaleCompletion(e) \/ DeliverMessage(e) \/ CheckDeadline(e)
                                          \/ RecordDecision(e) \/ SendMessage(e)
               \/ \E d \in TaskIds : PublishRoute(d)
               \/ CollectReleases
        BY <1>0, <1>6, QuietAgrees
    <1>7. CASE \E e \in batch : ReleaseJob(e)
        <2>1. CASE stage' = "failed"
            BY <2>1 DEF AgreesWithin, AgreesBetween, TickStages
        <2>2. CASE stage' # "failed"
            BY <1>0, <1>7, <2>2, ReleaseJobAgrees
        <2>. QED  BY <2>1, <2>2
    <1>8. CASE \E e \in batch : ReleaseRefused(e)
        BY <1>8 DEF ReleaseRefused, Throw, AgreesWithin, AgreesBetween, TickStages
    <1>9. CASE Schedule
        BY <1>0, <1>9, LeaveResourceAgrees, DispatchAgrees, PreemptAgrees DEF Schedule
    <1>10. CASE EndTick
        BY <1>0, <1>10, EndTickAgrees
    <1>11. CASE StepAfterEnd \/ UNCHANGED vars
        <2>1. UNCHANGED <<config, stage, tick, trace, jobs, resource, todo>>
            BY <1>11 DEF StepAfterEnd, vars
        <2>2. AgreesBetween'
            <3>1. PICK n, m : n = tick /\ m = config.stop
                OBVIOUS
            <3>2. (Agrees(n) => Agrees(n)') /\ (Agrees(m) => Agrees(m)')
                BY <2>1, AgreesKept
            <3>. QED  BY <1>0, <2>1, <3>1, <3>2 DEF AgreesBetween
        <2>3. AgreesWithin'
            <3>1. SUFFICES ASSUME stage \in TickStages PROVE AgreesWithin'
                BY <2>1 DEF AgreesWithin
            <3>2. PICK s : s = RefAt(config, tick - 1)
                OBVIOUS
            <3>3. Within(s)
                BY <1>0, <3>1, <3>2 DEF AgreesWithin
            <3>4. SameWork /\ TypeOK /\ MembershipAgrees /\ \A j \in Released : jobs'[j].missed <=> jobs[j].missed
                BY <2>1, WorkUntouched DEF PlanInv, KernelInv, StateInv
            <3>5. WorkWithin(s)' /\ FinishesWithin(s)' /\ MissesWithin(s)'
                BY <3>3, <3>4, WorkKept DEF Within
            <3>6. ASSUME NEW r \in ResourceIds PROVE OwnerWithin(s, r)'
                <4>1. (Decided(r)' => Decided(r)) /\ (Undecided(r)' => Undecided(r)) /\ resource'[r] = resource[r]
                    BY <2>1 DEF Decided, Undecided
                <4>. QED  BY <3>3, <3>4, <4>1, OwnerKept DEF Within
            <3>7. Within(s)'
                BY <3>3, <3>5, <3>6 DEF Within
            <3>8. s = RefAt(config', tick' - 1)
                BY <2>1, <3>2
            <3>. QED  BY <3>7, <3>8 DEF AgreesWithin
        <2>. QED  BY <2>2, <2>3
    <1>. QED  BY <1>1, <1>2, <1>3, <1>4, <1>5, <1>6, <1>7, <1>8, <1>9, <1>10, <1>11 DEF Next, Settle, ProcessReleases, Act

\* What agreement says, in the terms of the property.
LEMMA AgreementTells ==
    ASSUME PlanInv, AgreementInv
    PROVE  MatchesTickReference
    <1>1. TypeOK /\ tick \in Nat /\ config.stop \in Nat
        BY ConfigType DEF PlanInv, KernelInv, StateInv, TypeOK
    <1>2. ASSUME Inspectable
          PROVE  LET ref == ReferenceAt(config, Covered)
                 IN  /\ ~ ref.overlap
                     /\ Released = UNION {{<<t, k>> : k \in 1 .. ref.count[t]} : t \in TaskIds}
                     /\ ref.done = {<<j[1], j[2], jobs[j].finish>> : j \in {k \in Released : ~ Active(k)}}
                     /\ ref.missed = {j \in Released : jobs[j].missed}
                     /\ \A j \in Released : Active(j) => LeftAt(j, Covered) = ref.left[j[1]]
                     /\ \A r \in ResourceIds :
                            ref.owner[r] = IF Idle(r) THEN Nobody ELSE resource[r].running[1]
        <2>1. Agrees(Covered) /\ Covered \in Nat
            BY <1>1, <1>2 DEF AgreementInv, AgreesBetween, Inspectable, Covered
        <2>2. PICK s : s = ReferenceAt(config, Covered)
            OBVIOUS
        <2>3. s = RefAt(config, Covered)
            BY <2>1, <2>2 DEF RefAt
        <2>4. /\ ~ s.overlap
              /\ \A t \in TaskIds : NumberedTo(t, s.count[t])
              /\ WorkSound(s.left, Released, Covered)
              /\ s.done = {FinishOf(j) : j \in Finished}
              /\ s.missed = {j \in Released : jobs[j].missed}
              /\ \A r \in ResourceIds : s.owner[r] = OwnerOf(r)
            BY <2>1, <2>3 DEF Agrees
        <2>5. Released = UNION {{<<t, k>> : k \in 1 .. s.count[t]} : t \in TaskIds}
            <3>1. ASSUME NEW j \in Released
                  PROVE  \E t \in TaskIds : j \in {<<t, k>> : k \in 1 .. s.count[t]}
                <4>1. j[1] \in TaskIds /\ j = <<j[1], j[2]>>
                    BY <1>1, JobFacts
                <4>2. j[2] \in 1 .. s.count[j[1]]
                    BY <2>4, <4>1 DEF NumberedTo
                <4>. QED  BY <4>1, <4>2
            <3>2. ASSUME NEW t \in TaskIds, NEW k \in 1 .. s.count[t]
                  PROVE  <<t, k>> \in Released
                BY <2>4 DEF NumberedTo
            <3>. QED  BY <3>1, <3>2
        <2>6. s.done = {<<j[1], j[2], jobs[j].finish>> : j \in {k \in Released : ~ Active(k)}}
            BY <2>4 DEF FinishOf, Finished
        <2>7. \A j \in Released : Active(j) => LeftAt(j, Covered) = s.left[j[1]]
            BY <2>4 DEF WorkSound
        <2>8. \A r \in ResourceIds : s.owner[r] = IF Idle(r) THEN Nobody ELSE resource[r].running[1]
            BY <2>4 DEF OwnerOf
        <2>. QED  BY <2>2, <2>4, <2>5, <2>6, <2>7, <2>8
    <1>3. ASSUME fault = "self_overlap"
          PROVE  ReferenceAt(config, tick).overlap
        BY <1>1, <1>3 DEF AgreementInv, OverlapAgrees, RefAt
    <1>. QED  BY <1>2, <1>3 DEF MatchesTickReference

\* Before initialization there is nothing to agree about.
LEMMA InitAgrees == Init => AgreementInv
    BY DEF Init, AgreementInv, AgreesBetween, AgreesWithin, OverlapAgrees, TickStages

\* For every valid configuration the event-driven engine computes what fixed-priority
\* execution simulated tick by tick computes: at every tick it can be inspected the same
\* releases, completions, misses, owners and remaining work, nothing skipped up to the
\* inclusive horizon, and a self-overlap only where the reference has one
\* (simulation_engine.cpp:262-309, scheduler.cpp:133-262).
THEOREM TickReferenceAgrees == Spec => []MatchesTickReference
    <1>1. KernelInv /\ JobsPlanned /\ ReleasesPlanned /\ [Next]_vars => JobsPlanned' /\ ReleasesPlanned'
        BY NextPlanned
    <1>2. PlanInv <=> KernelInv /\ JobsPlanned /\ ReleasesPlanned
        BY DEF PlanInv
    <1>3. PlanInv /\ AgreementInv /\ [Next]_vars => AgreementInv'
        BY NextAgrees
    <1>4. PlanInv /\ AgreementInv => MatchesTickReference
        BY AgreementTells
    <1>. QED  BY <1>1, <1>2, <1>3, <1>4, InitPlanned, InitAgrees, KernelInvariance, PTL DEF Spec
=============================================================================
