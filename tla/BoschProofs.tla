---------------------------- MODULE BoschProofs ----------------------------
(***************************************************************************)
(* Proofs about a nominal run of the Bosch case study: the adapter tells   *)
(* the instance exactly the batch of one tick, and the lateral-motion FMU, *)
(* stepped over those pulses, shows the signals a schedule implies.  The   *)
(* instance is shown to track the ideal run part by part: the stages of    *)
(* its computation chain, the packets in its two networks, the sampling    *)
(* windows of its metrics.                                                 *)
(***************************************************************************)
EXTENDS BoschRun, FiniteSetTheorems, SequenceTheorems, WellFoundedInduction, TLAPS

-----------------------------------------------------------------------------
(* Least numbers, counting up, and sequences of steps. *)

\* A nonempty set of natural numbers has a least element.
LEMMA LeastNumber ==
  ASSUME NEW D \in SUBSET Nat, D # {}
  PROVE  \E n \in D : \A m \in D : n <= m
  <1>1. \E n \in D : \A m \in D : ~ (<<m, n>> \in OpToRel(<, Nat))
    BY NatLessThanWellFounded, WFMin
  <1>2. PICK n \in D : \A m \in D : ~ (<<m, n>> \in OpToRel(<, Nat))
    BY <1>1
  <1>3. ASSUME NEW m \in D PROVE n <= m
    <2>1. m \in Nat /\ n \in Nat
      OBVIOUS
    <2>2. ~ (m < n)
      BY <1>2, <2>1 DEF OpToRel
    <2> QED
      BY <2>1, <2>2
  <1> QED
    BY <1>3

\* A set that contains 0 and with a number below N the next one contains all of them.
LEMMA Counting ==
  ASSUME NEW N \in Nat, NEW S, 0 \in S, \A n \in 1 .. N : n - 1 \in S => n \in S
  PROVE  0 .. N \subseteq S
  <1> DEFINE T == (0 .. N) \ S
  <1>1. SUFFICES ASSUME T # {} PROVE FALSE
    OBVIOUS
  <1>2. PICK m \in T : \A n \in T : m <= n
    <2>1. T \in SUBSET Nat
      OBVIOUS
    <2> HIDE DEF T
    <2> QED
      BY <1>1, <2>1, LeastNumber
  <1>3. m \in 0 .. N /\ m \notin S /\ m # 0
    OBVIOUS
  <1>4. m - 1 \in 0 .. N /\ m - 1 \notin S
    BY <1>3
  <1> QED
    BY <1>2, <1>3, <1>4

\* The function f holds the results of the first k steps.
Steps(f, start, step, k) == f[0] = start /\ \A n \in 1 .. k : f[n] = step[n][f[n - 1]]

\* Whatever each step does to the values of V, the results of the first N steps are a function.
LEMMA Built ==
  ASSUME NEW V, NEW N \in Nat, NEW start \in V, NEW step \in [1 .. N -> [V -> V]]
  PROVE  \E f \in [0 .. N -> V] : Steps(f, start, step, N)
  <1> DEFINE S == {k \in 0 .. N : \E f \in [0 .. k -> V] : Steps(f, start, step, k)}
  <1>1. 0 \in S
    <2> DEFINE f == [k \in 0 .. 0 |-> start]
    <2>1. f \in [0 .. 0 -> V] /\ Steps(f, start, step, 0)
      BY DEF Steps
    <2> HIDE DEF f
    <2> QED
      BY <2>1
  <1>2. ASSUME NEW n \in 1 .. N, n - 1 \in S PROVE n \in S
    <2>1. PICK f \in [0 .. n - 1 -> V] : Steps(f, start, step, n - 1)
      BY <1>2
    <2> DEFINE g == [k \in 0 .. n |-> IF k = n THEN step[n][f[n - 1]] ELSE f[k]]
    <2>2. n - 1 \in 0 .. n - 1 /\ f[n - 1] \in V /\ step[n][f[n - 1]] \in V
      BY <2>1
    <2>3. g \in [0 .. n -> V]
      BY <2>1, <2>2
    <2>4. g[0] = start
      BY <2>1 DEF Steps
    <2>5. ASSUME NEW k \in 1 .. n PROVE g[k] = step[k][g[k - 1]]
      <3>1. g[k - 1] = f[k - 1]
        OBVIOUS
      <3>2. CASE k = n
        BY <3>1, <3>2
      <3>3. CASE k # n
        BY <2>1, <3>1, <3>3 DEF Steps
      <3> QED
        BY <3>2, <3>3
    <2> HIDE DEF g
    <2>6. Steps(g, start, step, n)
      BY <2>4, <2>5 DEF Steps
    <2> QED
      BY <2>3, <2>6
  <1>3. 0 .. N \subseteq S
    <2> HIDE DEF S
    <2> QED
      BY <1>1, <1>2, Counting
  <1>4. N \in S
    BY <1>3
  <1> QED
    BY <1>4

\* The members of a finite set in the order of their keys, from place 1.
Ranked(S, key, place) ==
    /\ IsFiniteSet(S)
    /\ key \in [S -> Int] /\ \A x, y \in S : key[x] = key[y] => x = y
    /\ place \in [S -> Int] /\ \A x \in S : place[x] = 1 + Cardinality({y \in S : key[y] < key[x]})

\* They have different places, and no place is left out.
LEMMA Places ==
  ASSUME NEW S, NEW key, NEW place, Ranked(S, key, place)
  PROVE  /\ \A x \in S : place[x] \in 1 .. Cardinality(S)
         /\ \A x, y \in S : place[x] = place[y] => x = y
         /\ \A i \in 1 .. Cardinality(S) : \E x \in S : place[x] = i
  <1> DEFINE below(x) == {y \in S : key[y] < key[x]}
             N == Cardinality(S)
  <1>0. IsFiniteSet(S)
    BY DEF Ranked
  <1>1. N \in Nat
    BY <1>0, FS_CardinalityType
  <1>2. ASSUME NEW x \in S PROVE place[x] \in 1 .. N
    <2>1. below(x) \in SUBSET S /\ x \notin below(x)
      BY DEF Ranked
    <2>2. IsFiniteSet(below(x)) /\ Cardinality(below(x)) <= N /\ (N = Cardinality(below(x)) => S = below(x))
      <3> HIDE DEF below
      <3> QED
        BY <1>0, <2>1, FS_Subset
    <2>3. Cardinality(below(x)) \in Nat
      BY <2>2, FS_CardinalityType
    <2>4. Cardinality(below(x)) # N
      BY <2>1, <2>2
    <2>5. place[x] = 1 + Cardinality(below(x))
      BY DEF Ranked
    <2> HIDE DEF below, N
    <2> QED
      BY <1>1, <2>2, <2>3, <2>4, <2>5
  <1>3. ASSUME NEW x \in S, NEW y \in S, key[x] < key[y] PROVE place[x] < place[y]
    <2>1. below(x) \in SUBSET below(y) /\ x \in below(y) /\ x \notin below(x) /\ below(y) \in SUBSET S
      BY <1>3 DEF Ranked
    <2>2. place[x] = 1 + Cardinality(below(x)) /\ place[y] = 1 + Cardinality(below(y))
      BY DEF Ranked
    <2> HIDE DEF below
    <2>3. IsFiniteSet(below(y))
      BY <1>0, <2>1, FS_Subset
    <2>4. /\ IsFiniteSet(below(x)) /\ Cardinality(below(x)) <= Cardinality(below(y))
          /\ (Cardinality(below(y)) = Cardinality(below(x)) => below(y) = below(x))
      BY <2>1, <2>3, FS_Subset
    <2>5. Cardinality(below(x)) \in Nat /\ Cardinality(below(y)) \in Nat
      BY <2>3, <2>4, FS_CardinalityType
    <2> QED
      BY <2>1, <2>2, <2>4, <2>5
  <1>4. ASSUME NEW x \in S, NEW y \in S, place[x] = place[y] PROVE x = y
    <2>1. key[x] \in Int /\ key[y] \in Int /\ place[x] \in Int /\ (key[x] = key[y] => x = y)
      BY DEF Ranked
    <2> QED
      BY <1>3, <1>4, <2>1
  <1>5. place \in Injection(S, 1 .. N)
    BY <1>2, <1>4 DEF Injection, IsInjective, Ranked
  <1>6. IsFiniteSet(1 .. N) /\ Cardinality(1 .. N) = N
    <2>1. 1 \in Int /\ N \in Int
      BY <1>1
    <2> HIDE DEF N
    <2> QED
      BY <1>1, <2>1, FS_Interval
  <1>7. place \in Surjection(S, 1 .. N)
    BY <1>5, <1>6, FS_Injection
  <1> QED
    BY <1>2, <1>4, <1>7 DEF Surjection

\* A list by place, and what it has: every member, and nothing else.
ByPlace(list, S, place) ==
    /\ DOMAIN list = 1 .. Cardinality(S)
    /\ \A i \in 1 .. Cardinality(S) : list[i] = CHOOSE x \in S : place[x] = i
Lists(list, S) ==
    /\ Cardinality(S) \in Nat /\ list \in Seq(S) /\ Len(list) = Cardinality(S)
    /\ \A x \in S : \E i \in 1 .. Len(list) : list[i] = x

\* A list in the order of places has every member of a ranked set once.
LEMMA InOrderLists ==
  ASSUME NEW S, NEW key, NEW place, Ranked(S, key, place), NEW list, ByPlace(list, S, place),
         list = [i \in DOMAIN list |-> list[i]]
  PROVE  Lists(list, S)
  <1> DEFINE N == Cardinality(S)
  <1>1. /\ \A x \in S : place[x] \in 1 .. N
        /\ \A x, y \in S : place[x] = place[y] => x = y
        /\ \A i \in 1 .. N : \E x \in S : place[x] = i
    BY Places
  <1> HIDE DEF N
  <1>2. ASSUME NEW i \in 1 .. N PROVE list[i] \in S /\ place[list[i]] = i
    <2>1. list[i] = CHOOSE x \in S : place[x] = i
      BY DEF N, ByPlace
    <2> QED
      BY <1>1, <2>1
  <1>3. ASSUME NEW x \in S PROVE list[place[x]] = x /\ place[x] \in 1 .. N
    BY <1>1, <1>2
  <1>4. N \in Nat
    BY FS_CardinalityType DEF N, Ranked
  <1>5. list \in [1 .. N -> S]
    <2>1. list = [i \in 1 .. N |-> list[i]]
      BY DEF N, ByPlace
    <2> QED
      BY <1>2, <2>1
  <1>6. list \in Seq(S) /\ Len(list) = N
    BY <1>4, <1>5
  <1> QED
    BY <1>3, <1>4, <1>6 DEF N, Lists
-----------------------------------------------------------------------------
(* The variable table. *)

\* A table of N blocks.
Table(blocks, N) == DOMAIN blocks = 1 .. N /\ \A i \in 1 .. N : blocks[i].size \in Nat \ {0}

\* The variables of a table of N blocks, laid one after another from the references start.
Variable(blocks, start, i, k) == [ref |-> start[i] + k, name |-> blocks[i].name, index |-> k]
LaidFrom(first, blocks, N, start) ==
    /\ start[1] = first
    /\ \A i \in 2 .. N : start[i] = start[i - 1] + blocks[i - 1].size
    /\ \A v \in Laid(first, blocks) : \E i \in 1 .. N : \E k \in 0 .. blocks[i].size - 1 :
                                           v = Variable(blocks, start, i, k)
    /\ \A i \in 1 .. N : \A k \in 0 .. blocks[i].size - 1 :
           Variable(blocks, start, i, k) \in Laid(first, blocks)

\* The first references of the blocks exist: laid one after the other, no two overlap.
LEMMA Starting ==
  ASSUME NEW first \in Int, NEW N \in Nat \ {0}, NEW blocks, Table(blocks, N)
  PROVE  \E start \in [1 .. N -> Int] : LaidFrom(first, blocks, N, start)
  <1> DEFINE Next(f) == [i \in DOMAIN blocks |-> IF i = 1 THEN first ELSE f[i - 1] + blocks[i - 1].size]
             step == [n \in 1 .. N - 1 |-> [v \in Int |-> v + blocks[n].size]]
  <1>1. N - 1 \in Nat /\ step \in [1 .. N - 1 -> [Int -> Int]]
    BY DEF Table
  <1>2. PICK g \in [0 .. N - 1 -> Int] : Steps(g, first, step, N - 1)
    <2> HIDE DEF step
    <2> QED
      BY <1>1, Built
  <1> DEFINE f == [i \in 1 .. N |-> g[i - 1]]
  <1>3. f \in [1 .. N -> Int] /\ f[1] = first
    BY <1>2 DEF Steps
  <1>4. ASSUME NEW i \in 2 .. N PROVE f[i] = f[i - 1] + blocks[i - 1].size
    <2>1. i - 1 \in 1 .. N - 1 /\ i - 1 - 1 \in 0 .. N - 1 /\ i \in 1 .. N /\ i - 1 \in 1 .. N
      OBVIOUS
    <2>2. g[i - 1] = step[i - 1][g[i - 1 - 1]] /\ g[i - 1 - 1] \in Int
      BY <1>2, <2>1 DEF Steps
    <2> QED
      BY <2>1, <2>2
  <1> HIDE DEF f, step
  <1>5. f = Next(f)
    <2>1. DOMAIN f = DOMAIN blocks /\ DOMAIN f = 1 .. N
      BY <1>3 DEF Table
    <2>2. ASSUME NEW i \in 1 .. N PROVE f[i] = Next(f)[i]
      <3>1. CASE i = 1
        BY <1>3, <2>1, <3>1
      <3>2. CASE i # 1
        <4>1. i \in 2 .. N
          BY <3>2
        <4> QED
          BY <1>4, <2>1, <3>2, <4>1
      <3> QED
        BY <3>1, <3>2
    <2>3. f = [i \in DOMAIN f |-> f[i]]
      BY <1>3
    <2> QED
      BY <2>1, <2>2, <2>3
  <1> DEFINE start == CHOOSE h : h = Next(h)
  <1>6. start = Next(start)
    <2> HIDE DEF Next
    <2> QED
      BY <1>5
  <1>7. Laid(first, blocks) = UNION {{[ref |-> start[i] + k, name |-> blocks[i].name, index |-> k] :
                                          k \in 0 .. blocks[i].size - 1} : i \in 1 .. N}
    <2>1. Laid(first, blocks) = UNION {{[ref |-> start[i] + k, name |-> blocks[i].name, index |-> k] :
                                            k \in 0 .. blocks[i].size - 1} : i \in DOMAIN blocks}
      BY DEF Laid
    <2>2. DOMAIN blocks = 1 .. N
      BY DEF Table
    <2> QED
      BY <2>1, <2>2
  <1> HIDE DEF start
  <1>8. DOMAIN start = 1 .. N /\ start[1] = first
    BY <1>6 DEF Table
  <1>9. ASSUME NEW i \in 2 .. N PROVE start[i] = start[i - 1] + blocks[i - 1].size
    <2>1. i \in 1 .. N /\ i # 1
      OBVIOUS
    <2>2. i \in DOMAIN blocks
      BY <2>1 DEF Table
    <2> QED
      BY <1>6, <2>1, <2>2
  <1>10. start \in [1 .. N -> Int]
    <2> DEFINE S == {n \in 0 .. N - 1 : start[n + 1] \in Int}
    <2>1. 0 \in S
      BY <1>1, <1>8
    <2>2. ASSUME NEW n \in 1 .. N - 1, n - 1 \in S PROVE n \in S
      <3>1. n + 1 \in 2 .. N /\ n + 1 - 1 = n /\ n - 1 + 1 = n /\ n \in 1 .. N /\ n \in 0 .. N - 1
        OBVIOUS
      <3>2. start[n] \in Int
        BY <2>2, <3>1
      <3>3. start[n + 1] = start[n] + blocks[n].size
        BY <1>9, <3>1
      <3>4. blocks[n].size \in Nat
        BY <3>1 DEF Table
      <3> QED
        BY <3>1, <3>2, <3>3, <3>4
    <2>3. 0 .. N - 1 \subseteq S
      <3> HIDE DEF S
      <3> QED
        BY <1>1, <2>1, <2>2, Counting
    <2>4. ASSUME NEW i \in 1 .. N PROVE start[i] \in Int
      <3>1. i - 1 \in S
        <4>1. i - 1 \in 0 .. N - 1
          BY <1>1
        <4> HIDE DEF S
        <4> QED
          BY <2>3, <4>1
      <3> QED
        BY <3>1
    <2>5. start = [i \in 1 .. N |-> start[i]]
      BY <1>6, <1>8
    <2> QED
      BY <2>4, <2>5
  <1>11. ASSUME NEW v \in Laid(first, blocks)
        PROVE  \E i \in 1 .. N : \E k \in 0 .. blocks[i].size - 1 : v = Variable(blocks, start, i, k)
    BY <1>7 DEF Variable
  <1>12. ASSUME NEW i \in 1 .. N, NEW k \in 0 .. blocks[i].size - 1
        PROVE  Variable(blocks, start, i, k) \in Laid(first, blocks)
    BY <1>7 DEF Variable
  <1>13. LaidFrom(first, blocks, N, start)
    BY <1>8, <1>9, <1>11, <1>12 DEF LaidFrom
  <1> QED
    BY <1>10, <1>13

\* Blocks laid one after another do not overlap: a reference stands for one variable.
LEMMA OneVariable ==
  ASSUME NEW first \in Int, NEW N \in Nat \ {0}, NEW blocks, Table(blocks, N),
         NEW v \in Laid(first, blocks), NEW w \in Laid(first, blocks), v.ref = w.ref
  PROVE  v = w
  <1>1. PICK start \in [1 .. N -> Int] : LaidFrom(first, blocks, N, start)
    BY Starting
  <1> DEFINE size(i) == blocks[i].size
             S == {n \in 0 .. N : \A i \in 1 .. N : i < n => start[i] + size(i) <= start[n]}
  <1>2. ASSUME NEW i \in 1 .. N PROVE size(i) \in Nat \ {0}
    BY DEF Table
  <1>3. 0 .. N \subseteq S
    <2>1. 0 \in S
      OBVIOUS
    <2>2. ASSUME NEW n \in 1 .. N, n - 1 \in S PROVE n \in S
      <3>1. ASSUME NEW i \in 1 .. N, i < n PROVE start[i] + size(i) <= start[n]
        <4>1. n \in 2 .. N /\ n - 1 \in 1 .. N
          BY <3>1
        <4>2. start[n] = start[n - 1] + size(n - 1)
          BY <1>1, <4>1 DEF LaidFrom
        <4>3. CASE i = n - 1
          BY <4>2, <4>3, <4>1, <1>2
        <4>4. CASE i # n - 1
          <5>1. i < n - 1
            BY <3>1, <4>4
          <5>2. start[i] + size(i) <= start[n - 1]
            BY <2>2, <5>1
          <5>3. size(i) \in Nat /\ size(n - 1) \in Nat /\ start[n - 1] \in Int /\ start[i] \in Int
            BY <1>1, <1>2, <4>1
          <5> HIDE DEF size
          <5> QED
            BY <4>2, <5>2, <5>3
        <4> QED
          BY <4>3, <4>4
      <3> QED
        BY <3>1
    <2> HIDE DEF S
    <2> QED
      BY <2>1, <2>2, Counting
  <1>4. PICK i \in 1 .. N : \E k \in 0 .. size(i) - 1 : v = Variable(blocks, start, i, k)
    BY <1>1 DEF LaidFrom
  <1>5. PICK k \in 0 .. size(i) - 1 : v = Variable(blocks, start, i, k)
    BY <1>4
  <1>6. PICK j \in 1 .. N : \E m \in 0 .. size(j) - 1 : w = Variable(blocks, start, j, m)
    BY <1>1 DEF LaidFrom
  <1>8. PICK m \in 0 .. size(j) - 1 : w = Variable(blocks, start, j, m)
    BY <1>6
  <1>9. start[i] + k = start[j] + m
    BY <1>5, <1>8 DEF Variable
  <1>10. /\ start[i] \in Int /\ start[j] \in Int /\ size(i) \in Nat /\ size(j) \in Nat
         /\ k \in 0 .. size(i) - 1 /\ m \in 0 .. size(j) - 1 /\ i \in Int /\ j \in Int
    BY <1>1, <1>2
  <1>11. /\ i < j => start[i] + size(i) <= start[j]
         /\ j < i => start[j] + size(j) <= start[i]
    <2>1. i \in S /\ j \in S
      <3>1. i \in 0 .. N /\ j \in 0 .. N
        OBVIOUS
      <3> HIDE DEF S
      <3> QED
        BY <1>3, <3>1
    <2> QED
      BY <2>1
  <1> HIDE DEF size
  <1>12. i = j
    <2>1. ASSUME i < j PROVE FALSE
      <3>1. start[i] + size(i) <= start[j] /\ k <= size(i) - 1 /\ m >= 0
        BY <1>10, <1>11, <2>1
      <3> QED
        BY <1>9, <1>10, <3>1
    <2>2. ASSUME j < i PROVE FALSE
      <3>1. start[j] + size(j) <= start[i] /\ m <= size(j) - 1 /\ k >= 0
        BY <1>10, <1>11, <2>2
      <3> QED
        BY <1>9, <1>10, <3>1
    <2> QED
      BY <1>10, <2>1, <2>2
  <1>13. k = m
    BY <1>9, <1>10, <1>12
  <1> QED
    BY <1>5, <1>8, <1>12, <1>13

\* The parameters have the references 1 to 34, the velocity the last of them.
LEMMA ParameterTable ==
  /\ Table(Parameters, 8)
  /\ \A v \in Laid(1, Parameters) : /\ v = [ref |-> v.ref, name |-> v.name, index |-> v.index]
                                    /\ v.ref \in 1 .. 34 /\ v.name \notin {"FF_REF", "VELOCITY"}
                                    /\ v.index \in Nat
  /\ \A r \in 1 .. 34 : \E v \in Laid(1, Parameters) : v.ref = r
  /\ \A v \in Laid(1, Parameters) : v.ref = 34 <=> v.name = "V0"
  <1>0. /\ Parameters[1] = Block("K_TRC_FB", 6) /\ Parameters[2] = Block("K_TRC_FF", 2)
        /\ Parameters[3] = Block("K_YRC_X", 6) /\ Parameters[4] = Block("K_YRC_PSI", 1)
        /\ Parameters[5] = Block("X0", 6) /\ Parameters[6] = Block("NOISE_MEAN", 6)
        /\ Parameters[7] = Block("NOISE_STD_DEV", 6) /\ Parameters[8] = Block("V0", 1)
    BY DEF Parameters
  <1>1. Table(Parameters, 8)
    <2>1. DOMAIN Parameters = 1 .. 8
      BY DEF Parameters
    <2>2. ASSUME NEW i \in 1 .. 8 PROVE Parameters[i].size \in Nat \ {0}
      <3>1. i \in {1, 2, 3, 4, 5, 6, 7, 8}
        OBVIOUS
      <3> QED
        BY <1>0, <3>1 DEF Block
    <2> QED
      BY <2>1, <2>2 DEF Table
  <1>2. PICK start \in [1 .. 8 -> Int] : LaidFrom(1, Parameters, 8, start)
    <2>1. 1 \in Int /\ 8 \in Nat \ {0}
      OBVIOUS
    <2> QED
      BY <1>1, <2>1, Starting
  <1>3. /\ start[2] = start[1] + Parameters[1].size /\ start[3] = start[2] + Parameters[2].size
        /\ start[4] = start[3] + Parameters[3].size /\ start[5] = start[4] + Parameters[4].size
        /\ start[6] = start[5] + Parameters[5].size /\ start[7] = start[6] + Parameters[6].size
        /\ start[8] = start[7] + Parameters[7].size
    BY <1>2 DEF LaidFrom
  <1>5. /\ start[1] = 1 /\ start[2] = 7 /\ start[3] = 9 /\ start[4] = 15 /\ start[5] = 16
        /\ start[6] = 22 /\ start[7] = 28 /\ start[8] = 34
    BY <1>2, <1>3, <1>0 DEF Block, LaidFrom
  <1> DEFINE at(i, k) == Variable(Parameters, start, i, k)
  <1>6. ASSUME NEW i \in 1 .. 8, NEW k \in 0 .. Parameters[i].size - 1
        PROVE  /\ at(i, k).ref \in 1 .. 34 /\ at(i, k).name \notin {"FF_REF", "VELOCITY"}
               /\ at(i, k).index \in Nat
               /\ at(i, k).ref = 34 <=> at(i, k).name = "V0"
    <2>1. i \in {1, 2, 3, 4, 5, 6, 7, 8}
      OBVIOUS
    <2>2. /\ at(i, k).ref = start[i] + k /\ at(i, k).name = Parameters[i].name /\ at(i, k).index = k
      BY DEF Variable
    <2> HIDE DEF at
    <2> QED
      BY <1>0, <1>5, <2>1, <2>2 DEF Block
  <1>7. ASSUME NEW v \in Laid(1, Parameters)
        PROVE  \E i \in 1 .. 8 : \E k \in 0 .. Parameters[i].size - 1 : v = at(i, k)
    BY <1>2 DEF LaidFrom
  <1>8. ASSUME NEW i \in 1 .. 8, NEW k \in 0 .. Parameters[i].size - 1 PROVE at(i, k) \in Laid(1, Parameters)
    BY <1>2 DEF LaidFrom
  <1>9. ASSUME NEW r \in 1 .. 34 PROVE \E v \in Laid(1, Parameters) : v.ref = r
    <2>1. \E i \in 1 .. 8 : start[i] <= r /\ r < start[i] + Parameters[i].size
      BY <1>0, <1>5 DEF Block
    <2>2. PICK i \in 1 .. 8 : start[i] <= r /\ r < start[i] + Parameters[i].size
      BY <2>1
    <2>3. r - start[i] \in 0 .. Parameters[i].size - 1 /\ start[i] + (r - start[i]) = r
      BY <1>1, <1>2, <2>2 DEF Table
    <2>4. at(i, r - start[i]) \in Laid(1, Parameters)
      BY <1>8, <2>3
    <2> QED
      BY <2>3, <2>4 DEF Variable
  <1> HIDE DEF at
  <1>10. ASSUME NEW v \in Laid(1, Parameters)
        PROVE  /\ v = [ref |-> v.ref, name |-> v.name, index |-> v.index]
               /\ v.ref \in 1 .. 34 /\ v.name \notin {"FF_REF", "VELOCITY"}
               /\ v.index \in Nat
               /\ v.ref = 34 <=> v.name = "V0"
    <2>1. PICK i \in 1 .. 8 : \E k \in 0 .. Parameters[i].size - 1 : v = at(i, k)
      BY <1>7
    <2>2. PICK k \in 0 .. Parameters[i].size - 1 : v = at(i, k)
      BY <2>1
    <2>3. v = [ref |-> v.ref, name |-> v.name, index |-> v.index]
      BY <2>2 DEF at, Variable
    <2> QED
      BY <1>6, <2>2, <2>3
  <1> QED
    BY <1>1, <1>9, <1>10

\* The trigger inputs have the references 100 to 115, in their order; the trajectory follows.
LEMMA InputTable ==
  /\ Table(Inputs, 18)
  /\ \A v \in Laid(100, Inputs) : v.ref \in 100 .. 118
  /\ \A i \in 1 .. 16 : \E v \in Laid(100, Inputs) : v.ref = 99 + i /\ v.name = TriggerInputs[i]
  /\ \E v \in Laid(100, Inputs) : v.ref = 116 /\ v.name = "FF_REF"
  /\ \E v \in Laid(100, Inputs) : v.ref = 117 /\ v.name = "FF_REF"
  /\ \E v \in Laid(100, Inputs) : v.ref = 118 /\ v.name = "VELOCITY"
  <1> DEFINE triggers == [i \in DOMAIN TriggerInputs |-> Block(TriggerInputs[i], 1)]
             others == <<Block("FF_REF", 2), Block("VELOCITY", 1)>>
             X == {Block(TriggerInputs[i], 1) : i \in 1 .. 16} \cup {Block("FF_REF", 2), Block("VELOCITY", 1)}
  <1>1. DOMAIN TriggerInputs = 1 .. 16
    BY DEF TriggerInputs
  <1>2. triggers \in Seq(X) /\ Len(triggers) = 16 /\ \A i \in 1 .. 16 : triggers[i] = Block(TriggerInputs[i], 1)
    <2>1. triggers \in [1 .. 16 -> X]
      BY <1>1
    <2> HIDE DEF X
    <2> QED
      BY <1>1, <2>1
  <1>3. others \in Seq(X) /\ Len(others) = 2 /\ others[1] = Block("FF_REF", 2) /\ others[2] = Block("VELOCITY", 1)
    OBVIOUS
  <1>4. Inputs = triggers \o others
    BY DEF Inputs
  <1> HIDE DEF triggers, others, X
  <1>5. /\ Inputs \in Seq(X) /\ Len(Inputs) = 18
        /\ \A i \in 1 .. 16 : Inputs[i] = Block(TriggerInputs[i], 1)
        /\ Inputs[17] = Block("FF_REF", 2) /\ Inputs[18] = Block("VELOCITY", 1)
    <2>1. Inputs \in Seq(X) /\ Len(Inputs) = Len(triggers) + Len(others)
      BY <1>2, <1>3, <1>4, ConcatProperties
    <2>2. \A i \in 1 .. Len(triggers) + Len(others) :
              Inputs[i] = IF i <= Len(triggers) THEN triggers[i] ELSE others[i - Len(triggers)]
      BY <1>2, <1>3, <1>4, ConcatProperties
    <2>3. ASSUME NEW i \in 1 .. 16 PROVE Inputs[i] = Block(TriggerInputs[i], 1)
      BY <1>2, <1>3, <2>2
    <2>4. Inputs[17] = Block("FF_REF", 2) /\ Inputs[18] = Block("VELOCITY", 1)
      BY <1>2, <1>3, <2>2
    <2> QED
      BY <1>2, <1>3, <2>1, <2>3, <2>4
  <1>0. /\ \A i \in 1 .. 16 : Inputs[i].size = 1 /\ Inputs[i].name = TriggerInputs[i]
        /\ Inputs[17].size = 2 /\ Inputs[17].name = "FF_REF" /\ Inputs[18].size = 1 /\ Inputs[18].name = "VELOCITY"
    <2>1. \A name, size : Block(name, size).size = size /\ Block(name, size).name = name
      BY DEF Block
    <2>2. ASSUME NEW i \in 1 .. 16 PROVE Inputs[i].size = 1 /\ Inputs[i].name = TriggerInputs[i]
      BY <1>5, <2>1
    <2> QED
      BY <1>5, <2>2 DEF Block
  <1>6. Table(Inputs, 18)
    <2>1. ASSUME NEW i \in 1 .. 18 PROVE Inputs[i].size \in {1, 2}
      <3>1. i \in 1 .. 16 \/ i = 17 \/ i = 18
        OBVIOUS
      <3> QED
        BY <1>0, <3>1
    <2>2. DOMAIN Inputs = 1 .. 18
      BY <1>5
    <2> QED
      BY <2>1, <2>2 DEF Table
  <1>7. PICK start \in [1 .. 18 -> Int] : LaidFrom(100, Inputs, 18, start)
    <2>1. 100 \in Int /\ 18 \in Nat \ {0}
      OBVIOUS
    <2> QED
      BY <1>6, <2>1, Starting
  <1>8. \A i \in 1 .. 16 : start[i] = 99 + i
    <2> DEFINE S == {n \in 0 .. 15 : start[n + 1] = 100 + n}
    <2>1. 0 \in S
      BY <1>7 DEF LaidFrom
    <2>2. ASSUME NEW n \in 1 .. 15, n - 1 \in S PROVE n \in S
      <3>1. n + 1 \in 2 .. 18 /\ n + 1 - 1 = n /\ n - 1 + 1 = n /\ n \in 1 .. 16
        OBVIOUS
      <3>2. start[n + 1] = start[n] + Inputs[n].size
        BY <1>7, <3>1 DEF LaidFrom
      <3>3. Inputs[n].size = 1 /\ start[n] = 100 + (n - 1)
        BY <1>0, <2>2, <3>1
      <3> QED
        BY <3>2, <3>3
    <2>3. 0 .. 15 \subseteq S
      <3> HIDE DEF S
      <3> QED
        BY <2>1, <2>2, Counting
    <2>4. ASSUME NEW i \in 1 .. 16 PROVE start[i] = 99 + i
      <3>1. i - 1 \in 0 .. 15 /\ i - 1 + 1 = i
        OBVIOUS
      <3>2. i - 1 \in S
        BY <2>3, <3>1
      <3> QED
        BY <3>1, <3>2
    <2> QED
      BY <2>4
  <1>9. start[17] = 116 /\ start[18] = 118
    <2>1. start[17] = start[16] + Inputs[16].size /\ start[18] = start[17] + Inputs[17].size
      BY <1>7 DEF LaidFrom
    <2> QED
      BY <1>0, <1>8, <2>1
  <1> DEFINE at(i, k) == Variable(Inputs, start, i, k)
  <1>10. ASSUME NEW i \in 1 .. 18, NEW k \in 0 .. Inputs[i].size - 1
         PROVE  /\ at(i, k) \in Laid(100, Inputs)
                /\ at(i, k).ref = start[i] + k /\ at(i, k).name = Inputs[i].name
                /\ start[i] + k \in 100 .. 118
    <2>1. at(i, k) \in Laid(100, Inputs)
      BY <1>7 DEF LaidFrom
    <2>2. at(i, k).ref = start[i] + k /\ at(i, k).name = Inputs[i].name
      BY DEF Variable
    <2>3. i \in 1 .. 16 \/ i = 17 \/ i = 18
      OBVIOUS
    <2>4. start[i] + k \in 100 .. 118
      BY <1>0, <1>8, <1>9, <2>3
    <2> QED
      BY <2>1, <2>2, <2>4
  <1>11. ASSUME NEW v \in Laid(100, Inputs) PROVE v.ref \in 100 .. 118
    <2>1. PICK i \in 1 .. 18 : \E k \in 0 .. Inputs[i].size - 1 : v = at(i, k)
      BY <1>7 DEF LaidFrom
    <2>2. PICK k \in 0 .. Inputs[i].size - 1 : v = at(i, k)
      BY <2>1
    <2> HIDE DEF at
    <2> QED
      BY <1>10, <2>2
  <1> HIDE DEF at
  <1>12. ASSUME NEW i \in 1 .. 16
         PROVE  \E v \in Laid(100, Inputs) : v.ref = 99 + i /\ v.name = TriggerInputs[i]
    <2>1. i \in 1 .. 18 /\ Inputs[i].size = 1 /\ Inputs[i].name = TriggerInputs[i] /\ start[i] = 99 + i
      BY <1>0, <1>8
    <2>2. 0 \in 0 .. Inputs[i].size - 1 /\ start[i] + 0 = 99 + i
      BY <2>1
    <2>3. at(i, 0) \in Laid(100, Inputs) /\ at(i, 0).ref = start[i] + 0 /\ at(i, 0).name = Inputs[i].name
      BY <1>10, <2>1, <2>2
    <2> QED
      BY <2>1, <2>2, <2>3
  <1>14. \E v \in Laid(100, Inputs) : v.ref = 116 /\ v.name = "FF_REF"
    <2>1. at(17, 0) \in Laid(100, Inputs) /\ at(17, 0).ref = start[17] + 0 /\ at(17, 0).name = Inputs[17].name
      BY <1>10, <1>0
    <2> QED
      BY <1>9, <1>0, <2>1
  <1>15. \E v \in Laid(100, Inputs) : v.ref = 117 /\ v.name = "FF_REF"
    <2>1. at(17, 1) \in Laid(100, Inputs) /\ at(17, 1).ref = start[17] + 1 /\ at(17, 1).name = Inputs[17].name
      BY <1>10, <1>0
    <2> QED
      BY <1>9, <1>0, <2>1
  <1>16. \E v \in Laid(100, Inputs) : v.ref = 118 /\ v.name = "VELOCITY"
    <2>1. at(18, 0) \in Laid(100, Inputs) /\ at(18, 0).ref = start[18] + 0 /\ at(18, 0).name = Inputs[18].name
      BY <1>10, <1>0
    <2> QED
      BY <1>9, <1>0, <2>1
  <1> QED
    BY <1>6, <1>11, <1>12, <1>14, <1>15, <1>16

\* The outputs follow from 1000.
LEMMA OutputTable ==
  /\ Table(Outputs, 25)
  /\ \A v \in Laid(1000, Outputs) : v.ref >= 1000
  /\ \E v \in Laid(1000, Outputs) : v.ref = 1004 /\ v.name = "phys"
  /\ \E v \in Laid(1000, Outputs) : v.ref = 1022 /\ v.name = "act"
  /\ \E v \in Laid(1000, Outputs) : v.ref = 1027 /\ v.name = "real_critical"
  /\ \E v \in Laid(1000, Outputs) : v.ref = 1029 /\ v.name = "remote_rolling"
  /\ \E v \in Laid(1000, Outputs) : v.ref = 1030 /\ v.name = "real_rolling"
  /\ \E v \in Laid(1000, Outputs) : v.ref = 1036 /\ v.name = "real_violations"
  <1>1. Outputs = <<Outputs[1], Outputs[2], Outputs[3], Outputs[4], Outputs[5], Outputs[6], Outputs[7], Outputs[8],
                    Outputs[9], Outputs[10], Outputs[11], Outputs[12], Outputs[13], Outputs[14], Outputs[15],
                    Outputs[16], Outputs[17], Outputs[18], Outputs[19], Outputs[20], Outputs[21], Outputs[22],
                    Outputs[23], Outputs[24], Outputs[25]>>
    BY DEF Outputs
  <1>2. /\ Outputs[1] = Block("phys", 6) /\ Outputs[2] = Block("sens", 5) /\ Outputs[3] = Block("est", 6)
        /\ Outputs[4] = Block("fb", 1) /\ Outputs[5] = Block("ff", 2) /\ Outputs[6] = Block("ff_psi", 1)
        /\ Outputs[7] = Block("agg", 1) /\ Outputs[8] = Block("act", 1) /\ Outputs[9] = Block("time", 1)
        /\ Outputs[10] = Block("step", 1) /\ Outputs[11] = Block("local_critical", 1)
        /\ Outputs[12] = Block("remote_critical", 1) /\ Outputs[13] = Block("real_critical", 1)
        /\ Outputs[14] = Block("local_rolling", 1) /\ Outputs[15] = Block("remote_rolling", 1)
        /\ Outputs[16] = Block("real_rolling", 1) /\ Outputs[17] = Block("local_average", 1)
        /\ Outputs[18] = Block("remote_average", 1) /\ Outputs[19] = Block("real_average", 1)
        /\ Outputs[20] = Block("local_violations", 1) /\ Outputs[21] = Block("remote_violations", 1)
        /\ Outputs[22] = Block("real_violations", 1) /\ Outputs[23] = Block("local_violated", 1)
        /\ Outputs[24] = Block("remote_violated", 1) /\ Outputs[25] = Block("real_violated", 1)
    BY DEF Outputs
  <1>3. \A name, size : Block(name, size).size = size /\ Block(name, size).name = name
    BY DEF Block
  <1>4. ASSUME NEW i \in 1 .. 25 PROVE Outputs[i].size \in Nat \ {0}
    <2>1. i \in 1 .. 10 \/ i \in 11 .. 18 \/ i \in 19 .. 25
      OBVIOUS
    <2>2. CASE i \in 1 .. 10
      <3>1. i \in {1, 2, 3, 4, 5, 6, 7, 8, 9, 10}
        BY <2>2
      <3> QED
        BY <1>2, <1>3, <3>1
    <2>3. CASE i \in 11 .. 18
      <3>1. i \in {11, 12, 13, 14, 15, 16, 17, 18}
        BY <2>3
      <3> QED
        BY <1>2, <1>3, <3>1
    <2>4. CASE i \in 19 .. 25
      <3>1. i \in {19, 20, 21, 22, 23, 24, 25}
        BY <2>4
      <3> QED
        BY <1>2, <1>3, <3>1
    <2> QED
      BY <2>1, <2>2, <2>3, <2>4
  <1>5. DOMAIN Outputs = 1 .. 25
    BY DEF Outputs
  <1>6. Table(Outputs, 25)
    BY <1>4, <1>5 DEF Table
  <1>7. PICK start \in [1 .. 25 -> Int] : LaidFrom(1000, Outputs, 25, start)
    <2> DEFINE first == 1000
               N == 25
    <2>1. first \in Int /\ N \in Nat \ {0} /\ Table(Outputs, N)
      BY <1>6
    <2> HIDE DEF first, N
    <2>2. \E start \in [1 .. N -> Int] : LaidFrom(first, Outputs, N, start)
      BY <2>1, Starting
    <2> QED
      BY <2>2 DEF first, N
  <1>8. /\ start[1] = 1000 /\ start[2] = start[1] + Outputs[1].size /\ start[3] = start[2] + Outputs[2].size
        /\ start[4] = start[3] + Outputs[3].size /\ start[5] = start[4] + Outputs[4].size
        /\ start[6] = start[5] + Outputs[5].size /\ start[7] = start[6] + Outputs[6].size
        /\ start[8] = start[7] + Outputs[7].size /\ start[9] = start[8] + Outputs[8].size
        /\ start[10] = start[9] + Outputs[9].size /\ start[11] = start[10] + Outputs[10].size
    BY <1>7 DEF LaidFrom
  <1>9. /\ start[12] = start[11] + Outputs[11].size /\ start[13] = start[12] + Outputs[12].size
        /\ start[14] = start[13] + Outputs[13].size /\ start[15] = start[14] + Outputs[14].size
        /\ start[16] = start[15] + Outputs[15].size /\ start[17] = start[16] + Outputs[16].size
        /\ start[18] = start[17] + Outputs[17].size /\ start[19] = start[18] + Outputs[18].size
        /\ start[20] = start[19] + Outputs[19].size /\ start[21] = start[20] + Outputs[20].size
        /\ start[22] = start[21] + Outputs[21].size
    BY <1>7 DEF LaidFrom
  <1>10. /\ start[1] = 1000 /\ start[8] = 1022 /\ start[11] = 1025
    BY <1>2, <1>3, <1>8
  <1>11. start[13] = 1027 /\ start[15] = 1029 /\ start[16] = 1030 /\ start[22] = 1036
    BY <1>2, <1>3, <1>9, <1>10
  <1> DEFINE at(i, k) == Variable(Outputs, start, i, k)
  <1>12. ASSUME NEW i \in 1 .. 25, NEW k \in 0 .. Outputs[i].size - 1
         PROVE  /\ at(i, k) \in Laid(1000, Outputs)
                /\ at(i, k).ref = start[i] + k /\ at(i, k).name = Outputs[i].name
    BY <1>7 DEF LaidFrom, Variable
  <1>13. ASSUME NEW i \in 1 .. 25 PROVE start[i] >= 1000
    <2> DEFINE S == {n \in 0 .. 24 : start[n + 1] >= 1000}
    <2>1. 0 \in S
      BY <1>10
    <2>2. ASSUME NEW n \in 1 .. 24, n - 1 \in S PROVE n \in S
      <3>1. n + 1 \in 2 .. 25 /\ n + 1 - 1 = n /\ n - 1 + 1 = n /\ n \in 1 .. 25 /\ n + 1 \in 1 .. 25
        OBVIOUS
      <3>2. start[n + 1] = start[n] + Outputs[n].size
        BY <1>7, <3>1 DEF LaidFrom
      <3>3. Outputs[n].size \in Nat /\ start[n] >= 1000 /\ start[n] \in Int
        BY <1>4, <1>7, <2>2, <3>1
      <3> QED
        BY <3>2, <3>3
    <2>3. 0 .. 24 \subseteq S
      <3> HIDE DEF S
      <3> QED
        BY <2>1, <2>2, Counting
    <2>4. i - 1 \in 0 .. 24 /\ i - 1 + 1 = i
      OBVIOUS
    <2>5. i - 1 \in S
      BY <2>3, <2>4
    <2> QED
      BY <2>4, <2>5
  <1>14. ASSUME NEW v \in Laid(1000, Outputs) PROVE v.ref >= 1000
    <2>1. PICK i \in 1 .. 25 : \E k \in 0 .. Outputs[i].size - 1 : v = at(i, k)
      BY <1>7 DEF LaidFrom
    <2>2. PICK k \in 0 .. Outputs[i].size - 1 : v = at(i, k)
      BY <2>1
    <2>3. v.ref = start[i] + k
      BY <1>12, <2>2
    <2> HIDE DEF at
    <2>4. start[i] >= 1000 /\ start[i] \in Int /\ k \in Nat
      BY <1>4, <1>7, <1>13, <2>2
    <2> QED
      BY <2>3, <2>4
  <1> HIDE DEF at
  <1>16. \E v \in Laid(1000, Outputs) : v.ref = 1004 /\ v.name = "phys"
    <2>1. 4 \in 0 .. Outputs[1].size - 1 /\ start[1] + 4 = 1004 /\ Outputs[1].name = "phys"
      BY <1>2, <1>3, <1>10, <1>11
    <2>2. at(1, 4) \in Laid(1000, Outputs) /\ at(1, 4).ref = start[1] + 4 /\ at(1, 4).name = Outputs[1].name
      BY <1>12, <2>1
    <2> QED
      BY <2>1, <2>2
  <1>17. \E v \in Laid(1000, Outputs) : v.ref = 1022 /\ v.name = "act"
    <2>1. 0 \in 0 .. Outputs[8].size - 1 /\ start[8] + 0 = 1022 /\ Outputs[8].name = "act"
      BY <1>2, <1>3, <1>10, <1>11
    <2>2. at(8, 0) \in Laid(1000, Outputs) /\ at(8, 0).ref = start[8] + 0 /\ at(8, 0).name = Outputs[8].name
      BY <1>12, <2>1
    <2> QED
      BY <2>1, <2>2
  <1>18. \E v \in Laid(1000, Outputs) : v.ref = 1027 /\ v.name = "real_critical"
    <2>1. 0 \in 0 .. Outputs[13].size - 1 /\ start[13] + 0 = 1027 /\ Outputs[13].name = "real_critical"
      BY <1>2, <1>3, <1>10, <1>11
    <2>2. at(13, 0) \in Laid(1000, Outputs) /\ at(13, 0).ref = start[13] + 0 /\ at(13, 0).name = Outputs[13].name
      BY <1>12, <2>1
    <2> QED
      BY <2>1, <2>2
  <1>19. \E v \in Laid(1000, Outputs) : v.ref = 1029 /\ v.name = "remote_rolling"
    <2>1. 0 \in 0 .. Outputs[15].size - 1 /\ start[15] + 0 = 1029 /\ Outputs[15].name = "remote_rolling"
      BY <1>2, <1>3, <1>10, <1>11
    <2>2. at(15, 0) \in Laid(1000, Outputs) /\ at(15, 0).ref = start[15] + 0 /\ at(15, 0).name = Outputs[15].name
      BY <1>12, <2>1
    <2> QED
      BY <2>1, <2>2
  <1>20. \E v \in Laid(1000, Outputs) : v.ref = 1030 /\ v.name = "real_rolling"
    <2>1. 0 \in 0 .. Outputs[16].size - 1 /\ start[16] + 0 = 1030 /\ Outputs[16].name = "real_rolling"
      BY <1>2, <1>3, <1>10, <1>11
    <2>2. at(16, 0) \in Laid(1000, Outputs) /\ at(16, 0).ref = start[16] + 0 /\ at(16, 0).name = Outputs[16].name
      BY <1>12, <2>1
    <2> QED
      BY <2>1, <2>2
  <1>21. \E v \in Laid(1000, Outputs) : v.ref = 1036 /\ v.name = "real_violations"
    <2>1. 0 \in 0 .. Outputs[22].size - 1 /\ start[22] + 0 = 1036 /\ Outputs[22].name = "real_violations"
      BY <1>2, <1>3, <1>10, <1>11
    <2>2. at(22, 0) \in Laid(1000, Outputs) /\ at(22, 0).ref = start[22] + 0 /\ at(22, 0).name = Outputs[22].name
      BY <1>12, <2>1
    <2> QED
      BY <2>1, <2>2
  <1> QED
    BY <1>6, <1>14, <1>16, <1>17, <1>18, <1>19, <1>20, <1>21

\* A reference finds the one variable that has it.
LEMMA Found ==
  ASSUME NEW v \in Variables PROVE VariableAt(v.ref) = v
  <1> DEFINE w == VariableAt(v.ref)
  <1>1. w \in Variables /\ w.ref = v.ref
    BY DEF VariableAt
  <1> HIDE DEF w
  <1>2. Variables = Laid(1, Parameters) \cup Laid(100, Inputs) \cup Laid(1000, Outputs)
    BY DEF Variables
  <1>3. /\ \A x \in Laid(1, Parameters) : x.ref \in 1 .. 34
        /\ \A x \in Laid(100, Inputs) : x.ref \in 100 .. 118
        /\ \A x \in Laid(1000, Outputs) : x.ref >= 1000
    BY ParameterTable, InputTable, OutputTable
  <1>4. CASE v \in Laid(1, Parameters)
    <2>1. w \in Laid(1, Parameters)
      BY <1>1, <1>2, <1>3, <1>4
    <2>2. 1 \in Int /\ 8 \in Nat \ {0} /\ Table(Parameters, 8)
      BY ParameterTable
    <2> QED
      BY <1>1, <1>4, <2>1, <2>2, OneVariable DEF w
  <1>5. CASE v \in Laid(100, Inputs)
    <2>1. w \in Laid(100, Inputs)
      BY <1>1, <1>2, <1>3, <1>5
    <2>2. 100 \in Int /\ 18 \in Nat \ {0} /\ Table(Inputs, 18)
      BY InputTable
    <2> QED
      BY <1>1, <1>5, <2>1, <2>2, OneVariable DEF w
  <1>6. CASE v \in Laid(1000, Outputs)
    <2>1. w \in Laid(1000, Outputs)
      BY <1>1, <1>2, <1>3, <1>6
    <2>2. 1000 \in Int /\ 25 \in Nat \ {0} /\ Table(Outputs, 25)
      BY OutputTable
    <2> QED
      BY <1>1, <1>6, <2>1, <2>2, OneVariable DEF w
  <1> QED
    BY <1>2, <1>4, <1>5, <1>6

\* What the references of the adapter stand for.
LEMMA References ==
  /\ \A i \in 1 .. 16 : VariableAt(99 + i).name = TriggerInputs[i]
  /\ VariableAt(116).name = "FF_REF" /\ VariableAt(117).name = "FF_REF" /\ VariableAt(118).name = "VELOCITY"
  /\ \A r \in 1 .. 34 : /\ VariableAt(r) \in Laid(1, Parameters) /\ VariableAt(r).ref = r
                        /\ VariableAt(r).name \notin {"FF_REF", "VELOCITY"}
                        /\ r = 34 <=> VariableAt(r).name = "V0"
  /\ \A v \in Laid(1, Parameters) : v.ref \in 1 .. 34 /\ VariableAt(v.ref) = v
  /\ VariableAt(1004).name = "phys" /\ VariableAt(1022).name = "act" /\ VariableAt(1027).name = "real_critical"
  /\ VariableAt(1029).name = "remote_rolling" /\ VariableAt(1030).name = "real_rolling"
  /\ VariableAt(1036).name = "real_violations"
  <1>1. Variables = Laid(1, Parameters) \cup Laid(100, Inputs) \cup Laid(1000, Outputs)
    BY DEF Variables
  <1>2. \A v \in Laid(1, Parameters) \cup Laid(100, Inputs) \cup Laid(1000, Outputs) : VariableAt(v.ref) = v
    BY <1>1, Found
  <1>3. \A i \in 1 .. 16 : VariableAt(99 + i).name = TriggerInputs[i]
    BY <1>2, InputTable
  <1>4. VariableAt(116).name = "FF_REF" /\ VariableAt(117).name = "FF_REF" /\ VariableAt(118).name = "VELOCITY"
    BY <1>2, InputTable
  <1>5. ASSUME NEW r \in 1 .. 34
        PROVE  /\ VariableAt(r) \in Laid(1, Parameters) /\ VariableAt(r).ref = r
               /\ VariableAt(r).name \notin {"FF_REF", "VELOCITY"}
               /\ r = 34 <=> VariableAt(r).name = "V0"
    <2>1. PICK v \in Laid(1, Parameters) : v.ref = r
      BY ParameterTable
    <2>2. VariableAt(r) = v
      BY <1>2, <2>1
    <2> QED
      BY <2>1, <2>2, ParameterTable
  <1>6. \A v \in Laid(1, Parameters) : v.ref \in 1 .. 34 /\ VariableAt(v.ref) = v
    BY <1>2, ParameterTable
  <1>7. /\ VariableAt(1004).name = "phys" /\ VariableAt(1022).name = "act"
        /\ VariableAt(1027).name = "real_critical"
        /\ VariableAt(1029).name = "remote_rolling" /\ VariableAt(1030).name = "real_rolling"
        /\ VariableAt(1036).name = "real_violations"
    BY <1>2, OutputTable
  <1> QED
    BY <1>3, <1>4, <1>5, <1>6, <1>7

-----------------------------------------------------------------------------
(* Assignments to the instance. *)

FmuFields == {"time", "step", "phys", "ff_ref", "velocity", "v0", "set", "trig", "chain", "sc", "ca",
              "local", "remote", "real"}
IsInstance(f) == f = [x \in FmuFields |-> f[x]]
Flags == [1 .. 16 -> BOOLEAN]

\* Two instances that differ in some fields only.
SameExcept(f, g, fields) == \A x \in FmuFields \ fields : f[x] = g[x]

\* Faulty or not, a trigger input is addressed by its place in the table.
LEMMA SetTrigger ==
  ASSUME NEW f, IsInstance(f), f.trig \in Flags, NEW i \in 1 .. 16, NEW value \in BOOLEAN
  PROVE  SetBoolean(f, 99 + i, value) = [f EXCEPT !.trig = [f.trig EXCEPT ![i] = value]]
  <1>1. VariableAt(99 + i).name = TriggerInputs[i]
    BY References
  <1>2. \A j \in 1 .. 16 : TriggerInputs[j] = TriggerInputs[i] <=> j = i
    BY DEF TriggerInputs
  <1>3. DOMAIN f.trig = 1 .. 16
    BY DEF Flags
  <1>4. [t \in DOMAIN f.trig |-> IF TriggerInputs[t] = VariableAt(99 + i).name THEN value ELSE f.trig[t]]
            = [f.trig EXCEPT ![i] = value]
    BY <1>1, <1>2, <1>3 DEF Flags
  <1>5. SetBoolean(f, 99 + i, value)
            = [f EXCEPT !.trig = [t \in DOMAIN f.trig |->
                                     IF TriggerInputs[t] = VariableAt(99 + i).name THEN value ELSE f.trig[t]]]
    BY DEF SetBoolean, IsInstance, FmuFields
  <1> QED
    BY <1>4, <1>5

\* Written sets the inputs its references name and leaves everything else alone.
LEMMA WrittenSets ==
  ASSUME NEW f, IsInstance(f), f.trig \in Flags, NEW refs \in Seq(100 .. 115), NEW value \in BOOLEAN
  PROVE  LET g == Written(f, refs, value)
         IN  /\ IsInstance(g) /\ SameExcept(g, f, {"trig"}) /\ g.trig \in Flags
             /\ \A i \in 1 .. 16 : g.trig[i] = IF \E k \in 1 .. Len(refs) : refs[k] = 99 + i
                                               THEN value ELSE f.trig[i]
  <1> DEFINE N == Len(refs)
             V == {[f EXCEPT !.trig = t] : t \in Flags}
             Next(h) == [n \in 0 .. N |-> IF n = 0 THEN f ELSE SetBoolean(h[n - 1], refs[n], value)]
             step == [n \in 1 .. N |-> [v \in V |-> SetBoolean(v, refs[n], value)]]
  <1>1. N \in Nat
    OBVIOUS
  <1>2. f \in V
    <2>1. f = [f EXCEPT !.trig = f.trig]
      BY DEF IsInstance, FmuFields
    <2> QED
      BY <2>1
  <1>3. ASSUME NEW v \in V
        PROVE  /\ IsInstance(v) /\ SameExcept(v, f, {"trig"}) /\ v.trig \in Flags
               /\ \A n \in 1 .. N : /\ SetBoolean(v, refs[n], value) \in V
                                    /\ SetBoolean(v, refs[n], value).trig = [v.trig EXCEPT ![refs[n] - 99] = value]
    <2>1. PICK t \in Flags : v = [f EXCEPT !.trig = t]
      OBVIOUS
    <2>2. IsInstance(v) /\ v.trig = t /\ v.trig \in Flags
      BY <2>1 DEF IsInstance, FmuFields
    <2>3. SameExcept(v, f, {"trig"})
      BY <2>1 DEF SameExcept, IsInstance, FmuFields
    <2>4. ASSUME NEW n \in 1 .. N
          PROVE  /\ SetBoolean(v, refs[n], value) \in V
                 /\ SetBoolean(v, refs[n], value).trig = [v.trig EXCEPT ![refs[n] - 99] = value]
      <3> DEFINE i == refs[n] - 99
      <3>1. i \in 1 .. 16 /\ refs[n] = 99 + i
        <4>1. refs[n] \in 100 .. 115
          OBVIOUS
        <4> QED
          BY <4>1
      <3> HIDE DEF i
      <3>2. SetBoolean(v, 99 + i, value) = [v EXCEPT !.trig = [v.trig EXCEPT ![i] = value]]
        BY <2>2, <3>1, SetTrigger
      <3>3. [t EXCEPT ![i] = value] \in Flags
        BY <3>1 DEF Flags
      <3>4. [v EXCEPT !.trig = [t EXCEPT ![i] = value]] = [f EXCEPT !.trig = [t EXCEPT ![i] = value]]
        BY <2>1
      <3>5. [v EXCEPT !.trig = [t EXCEPT ![i] = value]].trig = [t EXCEPT ![i] = value]
        BY <2>2 DEF IsInstance, FmuFields
      <3> QED
        BY <2>2, <3>1, <3>2, <3>3, <3>4, <3>5 DEF i
    <2> QED
      BY <2>2, <2>3, <2>4
  <1>4. step \in [1 .. N -> [V -> V]]
    <2> HIDE DEF V, N
    <2> QED
      BY <1>3
  <1> HIDE DEF V
  <1>5. PICK g \in [0 .. N -> V] : Steps(g, f, step, N)
    <2> HIDE DEF N, step
    <2> QED
      BY <1>1, <1>2, <1>4, Built
  <1>6. /\ g[0] = f
        /\ \A n \in 1 .. N : g[n - 1] \in V /\ g[n] = SetBoolean(g[n - 1], refs[n], value)
    <2>1. g[0] = f
      BY <1>5 DEF Steps
    <2>2. ASSUME NEW n \in 1 .. N PROVE g[n - 1] \in V /\ g[n] = SetBoolean(g[n - 1], refs[n], value)
      <3>1. n - 1 \in 0 .. N
        BY <1>1
      <3>2. g[n - 1] \in V /\ g[n] = step[n][g[n - 1]]
        BY <1>5, <3>1 DEF Steps
      <3> QED
        BY <3>2
    <2> QED
      BY <2>1, <2>2
  <1> HIDE DEF step
  <1>7. g = Next(g)
    <2>1. ASSUME NEW n \in 0 .. N PROVE g[n] = Next(g)[n]
      <3>1. CASE n = 0
        BY <1>6, <3>1
      <3>2. CASE n # 0
        <4>1. n \in 1 .. N
          BY <1>1, <3>2
        <4> HIDE DEF N
        <4> QED
          BY <1>6, <3>2, <4>1
      <3> QED
        BY <3>1, <3>2
    <2> HIDE DEF N
    <2> QED
      BY <1>5, <2>1
  <1> DEFINE written == CHOOSE h : h = Next(h)
  <1>8. Written(f, refs, value) = written[N]
    BY DEF Written
  <1>9. written = Next(written)
    <2> HIDE DEF Next
    <2> QED
      BY <1>7
  <1> HIDE DEF written
  <1> DEFINE T(n) == [i \in 1 .. 16 |-> IF \E k \in 1 .. n : refs[k] = 99 + i THEN value ELSE f.trig[i]]
             S == {n \in 0 .. N : written[n] = g[n] /\ g[n].trig = T(n)}
  <1>10. 0 \in S
    <2>1. written[0] = f
      <3>1. 0 \in 0 .. N
        BY <1>1
      <3> HIDE DEF N
      <3> QED
        BY <1>9, <3>1
    <2>2. T(0) = f.trig
      <3>1. \A i \in 1 .. 16 : T(0)[i] = f.trig[i]
        OBVIOUS
      <3>2. f.trig = [i \in 1 .. 16 |-> f.trig[i]] /\ T(0) = [i \in 1 .. 16 |-> T(0)[i]]
        BY DEF Flags
      <3> HIDE DEF T
      <3> QED
        BY <3>1, <3>2
    <2> HIDE DEF T
    <2> QED
      BY <1>1, <1>6, <2>1, <2>2
  <1>11. ASSUME NEW n \in 1 .. N, n - 1 \in S PROVE n \in S
    <2>1. written[n] = SetBoolean(written[n - 1], refs[n], value)
      <3>1. n \in 0 .. N /\ n # 0
        BY <1>1
      <3> HIDE DEF N
      <3> QED
        BY <1>9, <3>1
    <2>2. g[n] = SetBoolean(g[n - 1], refs[n], value) /\ g[n - 1] \in V
      BY <1>6
    <2>3. written[n] = g[n]
      BY <1>11, <2>1, <2>2
    <2>4. g[n].trig = [T(n - 1) EXCEPT ![refs[n] - 99] = value]
      <3>1. g[n - 1].trig = T(n - 1)
        BY <1>11
      <3> HIDE DEF T, N, S
      <3> QED
        BY <1>3, <2>2, <3>1
    <2>5. [T(n - 1) EXCEPT ![refs[n] - 99] = value] = T(n)
      <3>1. refs[n] \in 100 .. 115
        OBVIOUS
      <3>2. ASSUME NEW i \in 1 .. 16
            PROVE  [T(n - 1) EXCEPT ![refs[n] - 99] = value][i] = T(n)[i]
        <4>1. \A k : k \in 1 .. n <=> k \in 1 .. n - 1 \/ k = n
          BY <1>1
        <4>2. refs[n] = 99 + i <=> i = refs[n] - 99
          <5> DEFINE r == refs[n]
          <5>1. r \in Int /\ i \in Int
            BY <3>1
          <5> HIDE DEF r
          <5>2. r = 99 + i <=> i = r - 99
            BY <5>1
          <5> QED
            BY <5>2 DEF r
        <4>3. [T(n - 1) EXCEPT ![refs[n] - 99] = value][i] = IF i = refs[n] - 99 THEN value ELSE T(n - 1)[i]
          OBVIOUS
        <4> HIDE DEF N
        <4> QED
          BY <4>1, <4>2, <4>3
      <3> QED
        BY <3>2
    <2>6. n \in 0 .. N
      BY <1>1
    <2> HIDE DEF T, N
    <2> QED
      BY <2>3, <2>4, <2>5, <2>6
  <1>12. 0 .. N \subseteq S
    <2> HIDE DEF S, N
    <2> QED
      BY <1>1, <1>10, <1>11, Counting
  <1>13. N \in S /\ N \in 0 .. N
    <2>1. N \in 0 .. N
      BY <1>1
    <2> HIDE DEF S, N
    <2> QED
      BY <1>12, <2>1
  <1>14. written[N] = g[N] /\ g[N].trig = T(N) /\ g[N] \in V
    BY <1>5, <1>13
  <1> QED
    BY <1>3, <1>8, <1>14

\* The inputs of a tick are its trajectory sample.
LEMMA Fed ==
  ASSUME NEW f, IsInstance(f), NEW t
  PROVE  LET g == WithInputs(f, t)
         IN  /\ IsInstance(g) /\ SameExcept(g, f, {"ff_ref", "velocity"})
             /\ g.ff_ref = t /\ g.velocity = t
  <1>1. VariableAt(116).name = "FF_REF" /\ VariableAt(117).name = "FF_REF" /\ VariableAt(118).name = "VELOCITY"
    BY References
  <1>2. ASSUME NEW h PROVE /\ SetReal(h, 116, t) = [h EXCEPT !.ff_ref = t]
                           /\ SetReal(h, 117, t) = [h EXCEPT !.ff_ref = t]
                           /\ SetReal(h, 118, t) = [h EXCEPT !.velocity = t]
    BY <1>1 DEF SetReal
  <1>3. FeedforwardReferences[1] = 116 /\ FeedforwardReferences[2] = 117 /\ VelocityReference = 118
    BY DEF FeedforwardReferences, VelocityReference
  <1> DEFINE a == [f EXCEPT !.ff_ref = t]
             b == [a EXCEPT !.ff_ref = t]
             c == [b EXCEPT !.velocity = t]
  <1>4. SetReal(f, 116, t) = a /\ SetReal(a, 117, t) = b /\ SetReal(b, 118, t) = c
    <2> HIDE DEF a, b
    <2>1. SetReal(a, 117, t) = b /\ SetReal(b, 118, t) = c
      BY <1>2 DEF b
    <2>2. SetReal(f, 116, t) = a
      BY <1>2 DEF a
    <2> QED
      BY <2>1, <2>2
  <1>5. WithInputs(f, t) = c
    <2> HIDE DEF a, b, c
    <2> QED
      BY <1>3, <1>4 DEF WithInputs
  <1> QED
    BY <1>5 DEF IsInstance, FmuFields, SameExcept

ParameterSet == {<<v.name, v.index>> : v \in Laid(1, Parameters)}

\* The initial values are one for every parameter.
LEMMA ParametersSet ==
  ASSUME NEW f, IsInstance(f), f.set = {}
  PROVE  LET g == Parametrised(f)
         IN  /\ IsInstance(g) /\ SameExcept(g, f, {"v0", "set"})
             /\ g.v0 = 0 /\ g.set = ParameterSet
  <1> DEFINE value(r) == IF r = InitialVelocityReference THEN 0 ELSE NoStamp
             W(n) == {<<VariableAt(r).name, VariableAt(r).index>> : r \in 1 .. n}
             V == {[f EXCEPT !.v0 = p[1], !.set = p[2]] : p \in (Int \cup {f.v0}) \X SUBSET ParameterSet}
             Next(h) == [r \in 0 .. InitialVelocityReference |->
                            IF r = 0 THEN f
                            ELSE SetReal(h[r - 1], r, IF r = InitialVelocityReference THEN 0 ELSE NoStamp)]
             step == [r \in 1 .. 34 |-> [v \in V |-> SetReal(v, r, value(r))]]
  <1>0. InitialVelocityReference = 34 /\ \A r \in 1 .. 34 : value(r) \in Int
    BY DEF InitialVelocityReference, NoStamp
  <1>1. f \in V
    <2> DEFINE p == <<f.v0, {}>>
    <2>1. f = [f EXCEPT !.v0 = p[1], !.set = p[2]]
      BY DEF IsInstance, FmuFields
    <2>2. p \in (Int \cup {f.v0}) \X SUBSET ParameterSet
      OBVIOUS
    <2> HIDE DEF p
    <2> QED
      BY <2>1, <2>2
  <1>2. ASSUME NEW v \in V, NEW r \in 1 .. 34
        PROVE  /\ IsInstance(v) /\ SameExcept(v, f, {"v0", "set"})
               /\ SetReal(v, r, value(r)) \in V
               /\ SetReal(v, r, value(r)).v0 = IF r = 34 THEN 0 ELSE v.v0
               /\ SetReal(v, r, value(r)).set = v.set \cup {<<VariableAt(r).name, VariableAt(r).index>>}
    <2> DEFINE pair == <<VariableAt(r).name, VariableAt(r).index>>
    <2>1. PICK x \in Int \cup {f.v0}, s \in SUBSET ParameterSet : v = [f EXCEPT !.v0 = x, !.set = s]
      <3>1. PICK p \in (Int \cup {f.v0}) \X SUBSET ParameterSet : v = [f EXCEPT !.v0 = p[1], !.set = p[2]]
        OBVIOUS
      <3>2. p[1] \in Int \cup {f.v0} /\ p[2] \in SUBSET ParameterSet
        OBVIOUS
      <3> HIDE DEF V
      <3> QED
        BY <3>1, <3>2
    <2>1a. ASSUME NEW y \in Int \cup {f.v0}, NEW u \in SUBSET ParameterSet
           PROVE  [f EXCEPT !.v0 = y, !.set = u] \in V
      <3> DEFINE p == <<y, u>>
      <3>1. p \in (Int \cup {f.v0}) \X SUBSET ParameterSet /\ p[1] = y /\ p[2] = u
        OBVIOUS
      <3> HIDE DEF p
      <3>2. [f EXCEPT !.v0 = p[1], !.set = p[2]] \in V
        BY <3>1
      <3> HIDE DEF V
      <3> QED
        BY <3>1, <3>2
    <2> HIDE DEF V
    <2>2. IsInstance(v) /\ v.v0 = x /\ v.set = s /\ SameExcept(v, f, {"v0", "set"})
      BY <2>1 DEF IsInstance, FmuFields, SameExcept
    <2>3. /\ VariableAt(r) \in Laid(1, Parameters)
          /\ VariableAt(r).name \notin {"FF_REF", "VELOCITY"}
          /\ r = 34 <=> VariableAt(r).name = "V0"
      BY References
    <2>4. s \cup {pair} \in SUBSET ParameterSet
      BY <2>3 DEF ParameterSet
    <2> DEFINE q == s \cup {pair}
               w == SetReal(v, r, value(r))
               y == IF r = 34 THEN 0 ELSE x
               e == [f EXCEPT !.v0 = y, !.set = q]
    <2>5. w = [v EXCEPT !.v0 = y, !.set = q]
      <3>1. q = v.set \cup {<<VariableAt(r).name, VariableAt(r).index>>}
        BY <2>2
      <3> HIDE DEF q
      <3>2. CASE r = 34
        BY <1>0, <2>2, <2>3, <3>1, <3>2 DEF SetReal
      <3>3. CASE r # 34
        <4>1. w = [v EXCEPT !.set = q]
          BY <1>0, <2>2, <2>3, <3>1, <3>3 DEF SetReal
        <4>2. [v EXCEPT !.set = q] = [v EXCEPT !.v0 = x, !.set = q]
          BY <2>2 DEF IsInstance, FmuFields
        <4> HIDE DEF w
        <4> QED
          BY <3>3, <4>1, <4>2
      <3> QED
        BY <3>2, <3>3
    <2>6. y \in Int \cup {f.v0} /\ q \in SUBSET ParameterSet
      BY <2>4
    <2>7. q = v.set \cup {<<VariableAt(r).name, VariableAt(r).index>>} /\ y = IF r = 34 THEN 0 ELSE v.v0
      BY <2>2
    <2> HIDE DEF pair, q, w, y
    <2>8. [v EXCEPT !.v0 = y, !.set = q] = e
      BY <2>1 DEF IsInstance, FmuFields
    <2>9. e \in V
      BY <2>1a, <2>6
    <2>10. e.v0 = y /\ e.set = q
      BY DEF IsInstance, FmuFields
    <2> HIDE DEF e
    <2>11. w \in V /\ w.v0 = y /\ w.set = q
      BY <2>5, <2>8, <2>9, <2>10
    <2> QED
      BY <2>2, <2>7, <2>11 DEF w
  <1> HIDE DEF V
  <1>3. step \in [1 .. 34 -> [V -> V]]
    BY <1>2
  <1> HIDE DEF value, step
  <1>4. PICK g \in [0 .. 34 -> V] : Steps(g, f, step, 34)
    <2> DEFINE N == 34
    <2>1. N \in Nat /\ step \in [1 .. N -> [V -> V]]
      BY <1>3
    <2> HIDE DEF N
    <2>2. \E g \in [0 .. N -> V] : Steps(g, f, step, N)
      BY <1>1, <2>1, Built
    <2> QED
      BY <2>2 DEF N
  <1>5. /\ g[0] = f
        /\ \A n \in 1 .. 34 : g[n - 1] \in V /\ g[n] = SetReal(g[n - 1], n, value(n))
    <2>1. g[0] = f
      BY <1>4 DEF Steps
    <2>2. ASSUME NEW n \in 1 .. 34 PROVE g[n - 1] \in V /\ g[n] = SetReal(g[n - 1], n, value(n))
      <3>1. n - 1 \in 0 .. 34
        OBVIOUS
      <3>2. g[n - 1] \in V /\ g[n] = step[n][g[n - 1]]
        BY <1>4, <3>1 DEF Steps
      <3> QED
        BY <3>2 DEF step
    <2> QED
      BY <2>1, <2>2
  <1>6. g = Next(g)
    <2>1. ASSUME NEW n \in 0 .. 34 PROVE g[n] = Next(g)[n]
      <3>1. CASE n = 0
        BY <1>0, <1>5, <3>1
      <3>2. CASE n # 0
        <4>1. n \in 1 .. 34
          BY <3>2
        <4> QED
          BY <1>0, <1>5, <3>2, <4>1 DEF value
      <3> QED
        BY <3>1, <3>2
    <2>2. DOMAIN Next(g) = 0 .. 34
      BY <1>0
    <2>3. g = [n \in 0 .. 34 |-> g[n]] /\ Next(g) = [n \in 0 .. 34 |-> Next(g)[n]]
      BY <1>0, <1>4
    <2> HIDE DEF Next
    <2> QED
      BY <2>1, <2>3
  <1> DEFINE assigned == CHOOSE h : h = Next(h)
  <1>7. Parametrised(f) = assigned[34]
    BY <1>0 DEF Parametrised
  <1>8. assigned = Next(assigned)
    <2> HIDE DEF Next
    <2> QED
      BY <1>6
  <1> HIDE DEF assigned
  <1>9. /\ assigned[0] = f
        /\ \A n \in 1 .. 34 : assigned[n] = SetReal(assigned[n - 1], n, value(n))
    <2>1. 0 \in 0 .. InitialVelocityReference
      BY <1>0
    <2>2. ASSUME NEW n \in 1 .. 34 PROVE assigned[n] = SetReal(assigned[n - 1], n, value(n))
      <3>1. n \in 0 .. InitialVelocityReference /\ n # 0
        BY <1>0
      <3> QED
        BY <1>8, <3>1 DEF value
    <2> QED
      BY <1>8, <2>1, <2>2
  <1> HIDE DEF Next
  <1> DEFINE S == {n \in 0 .. 34 : /\ assigned[n] = g[n] /\ g[n].set = W(n)
                                   /\ n = 34 => g[n].v0 = 0}
  <1>10. 0 \in S
    BY <1>5, <1>9
  <1>11. ASSUME NEW n \in 1 .. 34, n - 1 \in S PROVE n \in S
    <2>1. assigned[n] = g[n] /\ g[n - 1] \in V
      BY <1>5, <1>9, <1>11
    <2>2. /\ g[n].v0 = IF n = 34 THEN 0 ELSE g[n - 1].v0
          /\ g[n].set = g[n - 1].set \cup {<<VariableAt(n).name, VariableAt(n).index>>}
      <3>1. g[n - 1] \in V /\ g[n] = SetReal(g[n - 1], n, value(n))
        BY <1>5
      <3> DEFINE v == g[n - 1]
                 w == SetReal(v, n, value(n))
      <3>2. w.v0 = (IF n = 34 THEN 0 ELSE v.v0) /\ w.set = v.set \cup {<<VariableAt(n).name, VariableAt(n).index>>}
        <4> HIDE DEF S, W
        <4>1. v \in V
          BY <3>1
        <4> HIDE DEF v
        <4> QED
          BY <1>2, <4>1
      <3>3. w = g[n]
        BY <3>1
      <3> HIDE DEF w
      <3> QED
        BY <3>2, <3>3
    <2>3. W(n) = W(n - 1) \cup {<<VariableAt(n).name, VariableAt(n).index>>}
      <3>1. 1 .. n = (1 .. n - 1) \cup {n}
        OBVIOUS
      <3> QED
        BY <3>1
    <2>4. g[n - 1].set = W(n - 1)
      BY <1>11
    <2>5. n \in 0 .. 34
      OBVIOUS
    <2> HIDE DEF W
    <2> QED
      BY <2>1, <2>2, <2>3, <2>4, <2>5
  <1>12. 34 \in S
    <2> DEFINE N == 34
    <2>1. N \in Nat /\ \A n \in 1 .. N : n - 1 \in S => n \in S
      <3> HIDE DEF S
      <3> QED
        BY <1>11
    <2> HIDE DEF N, S
    <2>2. 0 .. N \subseteq S
      BY <1>10, <2>1, Counting
    <2>3. N \in 0 .. N
      BY <2>1
    <2> QED
      BY <2>2, <2>3 DEF N
  <1>13. W(34) = ParameterSet
    <2>1. ASSUME NEW v \in Laid(1, Parameters) PROVE <<v.name, v.index>> \in W(34)
      <3>1. v.ref \in 1 .. 34 /\ VariableAt(v.ref) = v
        BY References
      <3> QED
        BY <3>1
    <2>2. ASSUME NEW r \in 1 .. 34 PROVE <<VariableAt(r).name, VariableAt(r).index>> \in ParameterSet
      BY References DEF ParameterSet
    <2> QED
      BY <2>1, <2>2 DEF ParameterSet
  <1>14. /\ assigned[34] = g[34] /\ g[34].set = ParameterSet /\ g[34].v0 = 0 /\ g[34] \in V
    BY <1>4, <1>12, <1>13
  <1>15. IsInstance(g[34]) /\ SameExcept(g[34], f, {"v0", "set"})
    BY <1>2, <1>14
  <1> QED
    BY <1>7, <1>14, <1>15

\* The instance after a complete initialisation.
Ready == ExitInitialization(Parametrised(SetupExperiment(Instantiated, 0)))

\* The instance after initialize(): parameters written, chain and networks empty, nothing measured.
LEMMA ReadyState ==
  /\ IsInstance(Ready) /\ Ready.set = ParameterSet
  /\ Ready.phys = 0 /\ Ready.step = 0 /\ Ready.chain = InitialChain(0)
  /\ Ready.trig = [i \in 1 .. 16 |-> FALSE]
  /\ Ready.sc = EmptyBuffer /\ Ready.ca = EmptyBuffer
  /\ Ready.real = NoMetrics /\ Ready.remote = NoMetrics
  <1> DEFINE f == SetupExperiment(Instantiated, 0)
  <1>1. IsInstance(f) /\ f.set = {} /\ f.step = 0 /\ f.trig = [t \in DOMAIN TriggerInputs |-> FALSE]
    BY DEF SetupExperiment, Instantiated, IsInstance, FmuFields
  <1>2. DOMAIN TriggerInputs = 1 .. 16
    BY DEF TriggerInputs
  <1> DEFINE g == Parametrised(f)
  <1>3. Ready = ExitInitialization(g)
    BY DEF Ready
  <1> HIDE DEF f
  <1>4. IsInstance(g) /\ SameExcept(g, f, {"v0", "set"}) /\ g.v0 = 0 /\ g.set = ParameterSet
    BY <1>1, ParametersSet
  <1> HIDE DEF g
  <1>5. g.step = 0 /\ DOMAIN g.trig = 1 .. 16
    BY <1>1, <1>2, <1>4 DEF SameExcept, FmuFields
  <1> QED
    BY <1>3, <1>4, <1>5 DEF ExitInitialization, IsInstance, FmuFields

-----------------------------------------------------------------------------
(* The batch of a tick and the pulses it is encoded to. *)

\* Numbers of different members tell that there are finitely many of them.
LEMMA Numbered ==
  ASSUME NEW S, NEW n \in Nat, NEW key \in [S -> 0 .. n], \A x, y \in S : key[x] = key[y] => x = y
  PROVE  IsFiniteSet(S)
  <1>1. IsFiniteSet(0 .. n)
    BY FS_Interval
  <1>2. key \in Injection(S, 0 .. n)
    BY DEF Injection, IsInjective
  <1> QED
    BY <1>1, <1>2, FS_Injection

\* What InOrder lists are the members of the set, whatever number orders them.
ByKey(list, S, key) ==
    list = [i \in 1 .. Cardinality(S) |-> CHOOSE x \in S : 1 + Cardinality({y \in S : key[y] < key[x]}) = i]

\* A set whose keys are distinct is listed by them completely.
LEMMA Listed ==
  ASSUME NEW S, NEW n \in Nat, NEW key \in [S -> 0 .. n], \A x, y \in S : key[x] = key[y] => x = y,
         NEW list, ByKey(list, S, key)
  PROVE  Lists(list, S)
  <1> DEFINE below(x) == {y \in S : key[y] < key[x]}
             place == [x \in S |-> 1 + Cardinality(below(x))]
  <1>1. IsFiniteSet(S)
    BY Numbered
  <1>2. Cardinality(S) \in Nat
    BY <1>1, FS_CardinalityType
  <1>3. ASSUME NEW x \in S PROVE Cardinality(below(x)) \in Nat
    <2>1. below(x) \in SUBSET S
      OBVIOUS
    <2> HIDE DEF below
    <2> QED
      BY <1>1, <2>1, FS_Subset, FS_CardinalityType
  <1>4. Ranked(S, key, place)
    <2>1. place \in [S -> Int]
      <3> HIDE DEF below
      <3> QED
        BY <1>3
    <2>2. key \in [S -> Int]
      OBVIOUS
    <2> QED
      BY <1>1, <2>1, <2>2 DEF Ranked
  <1>5. list = [i \in 1 .. Cardinality(S) |-> CHOOSE x \in S : 1 + Cardinality(below(x)) = i]
    BY DEF ByKey
  <1>6. ASSUME NEW i \in 1 .. Cardinality(S) PROVE list[i] = CHOOSE x \in S : place[x] = i
    <2>1. list[i] = CHOOSE x \in S : 1 + Cardinality(below(x)) = i
      BY <1>5
    <2>2. \A x \in S : place[x] = i <=> 1 + Cardinality(below(x)) = i
      OBVIOUS
    <2> HIDE DEF place, below
    <2> QED
      BY <2>1, <2>2
  <1> HIDE DEF place
  <1>7. DOMAIN list = 1 .. Cardinality(S) /\ list = [i \in DOMAIN list |-> list[i]]
    <2> DEFINE c(i) == CHOOSE x \in S : 1 + Cardinality(below(x)) = i
    <2>1. list = [i \in 1 .. Cardinality(S) |-> c(i)]
      BY <1>5
    <2> HIDE DEF c
    <2> QED
      BY <2>1
  <1>8. ByPlace(list, S, place)
    BY <1>6, <1>7 DEF ByPlace
  <1> QED
    BY <1>4, <1>7, <1>8, InOrderLists

\* The events of a batch: one of each type and task.
BatchTypes == Selected \cup {"JobRelease"}
PhaseOf(type) == IF type = "JobRelease" THEN "JobRelease" ELSE ExpectedPhase(type)
IsBatchEvent(e, t) ==
    /\ e = [tick |-> t, type |-> e.type, phase |-> e.phase, task |-> e.task]
    /\ e.type \in BatchTypes /\ e.phase = PhaseOf(e.type)
    /\ e.task \in 1 .. 6
    /\ e.type = "MessageSend" => e.task \in {1, 5}
    /\ e.type = "MessageDelivery" => e.task \in {2, 6}

\* Every event of a batch has the tick of the batch and the phase its type requires.
LEMMA BatchEvents ==
  ASSUME NEW t, NEW e \in Batch(t) PROVE IsBatchEvent(e, t)
  <1>1. CASE e \in {EventOf(t, "JobFinish", k) : k \in {j \in Tasks : t \in Finishes(j)}}
    BY <1>1 DEF IsBatchEvent, EventOf, Tasks, BatchTypes, Selected, PhaseOf
  <1>2. CASE e \in {EventOf(t, "JobStart", k) : k \in {j \in Tasks : t \in Starts(j)}}
    BY <1>2 DEF IsBatchEvent, EventOf, Tasks, BatchTypes, Selected, PhaseOf
  <1>3. CASE e \in {[EventOf(t, "JobStart", k) EXCEPT !.type = "JobRelease", !.phase = "JobRelease"] :
                        k \in {j \in Tasks : t \in Starts(j)}}
    <2>1. PICK k \in Tasks : e = [EventOf(t, "JobStart", k) EXCEPT !.type = "JobRelease", !.phase = "JobRelease"]
      BY <1>3
    <2>2. e = [tick |-> t, type |-> "JobRelease", phase |-> "JobRelease", task |-> k]
      BY <2>1 DEF EventOf
    <2> QED
      BY <2>2 DEF IsBatchEvent, Tasks, BatchTypes, Selected, PhaseOf
  <1>4. CASE e \in {EventOf(t, "MessageSend", k) : k \in {j \in {1, 5} : t \in Sends(j)}}
    BY <1>4 DEF IsBatchEvent, EventOf, Tasks, BatchTypes, Selected, PhaseOf
  <1>5. CASE e \in {EventOf(t, "MessageDelivery", 2) : u \in Deliveries(1, schedule.up) \cap {t}}
    BY <1>5 DEF IsBatchEvent, EventOf, Tasks, BatchTypes, Selected, PhaseOf
  <1>6. CASE e \in {EventOf(t, "MessageDelivery", 6) : u \in Deliveries(5, schedule.down) \cap {t}}
    BY <1>6 DEF IsBatchEvent, EventOf, Tasks, BatchTypes, Selected, PhaseOf
  <1> QED
    BY <1>1, <1>2, <1>3, <1>4, <1>5, <1>6 DEF Batch

\* The batch is told complete, and nothing else is.
LEMMA BatchTold ==
  ASSUME NEW t
  PROVE  Lists(BatchSequence(t), Batch(t))
  <1> DEFINE S == Batch(t)
             key == [e \in S |-> 7 * PhasePrecedence(e.phase) + e.task]
             before(x) == {y \in S : key[y] < key[x]}
  <1>1. ASSUME NEW e \in S
        PROVE  /\ PhasePrecedence(e.phase) \in 0 .. 7 /\ e.task \in 1 .. 6
               /\ e.type = "JobFinish" => PhasePrecedence(e.phase) = 0
               /\ e.type = "MessageDelivery" => PhasePrecedence(e.phase) = 1
               /\ e.type = "JobRelease" => PhasePrecedence(e.phase) = 3
               /\ e.type = "JobStart" => PhasePrecedence(e.phase) = 5
               /\ e.type = "MessageSend" => PhasePrecedence(e.phase) = 6
    <2>1. IsBatchEvent(e, t)
      BY BatchEvents
    <2> HIDE DEF S
    <2> QED
      BY <2>1 DEF IsBatchEvent, BatchTypes, Selected, PhaseOf, ExpectedPhase, PhasePrecedence
  <1>2. key \in [S -> 0 .. 55]
    <2> HIDE DEF S
    <2> QED
      BY <1>1
  <1>3. ASSUME NEW x \in S, NEW y \in S
        PROVE  /\ key[x] < key[y] <=> Earlier(x, y)
               /\ key[x] = key[y] => x = y
    <2>1. IsBatchEvent(x, t) /\ IsBatchEvent(y, t)
      BY BatchEvents
    <2>2. PhasePrecedence(x.phase) = PhasePrecedence(y.phase) => x.type = y.type /\ x.phase = y.phase
      <3> HIDE DEF S
      <3> QED
        BY <1>1, <2>1 DEF IsBatchEvent, BatchTypes, Selected
    <2> DEFINE p == PhasePrecedence(x.phase)
               q == PhasePrecedence(y.phase)
    <2>3. p \in 0 .. 7 /\ q \in 0 .. 7 /\ x.task \in 1 .. 6 /\ y.task \in 1 .. 6 /\ (x.phase = y.phase => p = q)
      <3> HIDE DEF S
      <3> QED
        BY <1>1
    <2>4. key[x] = 7 * p + x.task /\ key[y] = 7 * q + y.task
      <3> HIDE DEF S
      <3> QED
        OBVIOUS
    <2> HIDE DEF S, key, p, q
    <2>5. key[x] < key[y] <=> p < q \/ (p = q /\ x.task < y.task)
      BY <2>3, <2>4
    <2>6. key[x] = key[y] => p = q /\ x.task = y.task
      BY <2>3, <2>4
    <2>7. Earlier(x, y) <=> p < q \/ (p = q /\ x.task < y.task)
      BY <2>2, <2>3 DEF Earlier, p, q
    <2> QED
      BY <2>1, <2>2, <2>5, <2>6, <2>7 DEF IsBatchEvent, p, q
  <1>4. BatchSequence(t) = [i \in 1 .. Cardinality(S) |->
                               CHOOSE x \in S : 1 + Cardinality({y \in S : Earlier(y, x)}) = i]
    BY DEF BatchSequence, InOrder
  <1> HIDE DEF S, key
  <1>5. \A x \in S : {y \in S : Earlier(y, x)} = before(x)
    BY <1>3
  <1>6. ASSUME NEW i \in 1 .. Cardinality(S)
        PROVE  (CHOOSE x \in S : 1 + Cardinality({y \in S : Earlier(y, x)}) = i)
                   = CHOOSE x \in S : 1 + Cardinality(before(x)) = i
    <2>1. \A x \in S : Cardinality({y \in S : Earlier(y, x)}) = Cardinality(before(x))
      BY <1>5
    <2> HIDE DEF before
    <2> QED
      BY <2>1
  <1>7. ByKey(BatchSequence(t), S, key)
    <2>1. BatchSequence(t) = [i \in 1 .. Cardinality(S) |-> CHOOSE x \in S : 1 + Cardinality(before(x)) = i]
      <3> HIDE DEF before
      <3> QED
        BY <1>4, <1>6
    <2> QED
      BY <2>1 DEF ByKey
  <1>8. 55 \in Nat /\ \A x, y \in S : key[x] = key[y] => x = y
    BY <1>3
  <1> QED
    BY <1>2, <1>7, <1>8, Listed DEF S

\* The column of the trigger of a selected event.
PulseColumn(type, task) ==
    CASE type = "JobStart" -> <<1, 5, 7, 9, 11, 15>>[task]
      [] type = "JobFinish" -> <<2, 6, 8, 10, 12, 16>>[task]
      [] type = "MessageSend" -> IF task = 1 THEN 3 ELSE 13
      [] type = "MessageDelivery" -> IF task = 2 THEN 4 ELSE 14

\* The columns number the sixteen trigger names.
LEMMA Columns ==
  \A i \in 1 .. 16 : Column(BoschTriggers[i]) = i
  <1>1. ASSUME NEW i \in 1 .. 16, NEW j \in 1 .. 16, BoschTriggers[i] = BoschTriggers[j] PROVE i = j
    BY <1>1 DEF BoschTriggers
  <1>2. DOMAIN BoschTriggers = 1 .. 16
    BY DEF BoschTriggers
  <1> QED
    BY <1>1, <1>2 DEF Column

\* A selected event of a batch has a trigger, the one of its type and task (encode_bosch_v10_triggers).
LEMMA TriggerColumn ==
  ASSUME NEW t, NEW e, IsBatchEvent(e, t), e.type \in Selected
  PROVE  /\ Column(Trigger(e)) = PulseColumn(e.type, e.task)
         /\ PulseColumn(e.type, e.task) \in 1 .. 16
         /\ Trigger(e) = BoschTriggers[PulseColumn(e.type, e.task)]
  <1>1. /\ BoschTriggers[1] = "sensor_activated" /\ BoschTriggers[2] = "sensor_finished"
        /\ BoschTriggers[3] = "uplink_sent" /\ BoschTriggers[4] = "uplink_received"
        /\ BoschTriggers[5] = "estimator_activated" /\ BoschTriggers[6] = "estimator_finished"
        /\ BoschTriggers[7] = "controller_activated" /\ BoschTriggers[8] = "controller_finished"
        /\ BoschTriggers[9] = "feedforward_activated" /\ BoschTriggers[10] = "feedforward_finished"
        /\ BoschTriggers[11] = "merger_activated" /\ BoschTriggers[12] = "merger_finished"
        /\ BoschTriggers[13] = "downlink_sent" /\ BoschTriggers[14] = "downlink_received"
        /\ BoschTriggers[15] = "actuator_activated" /\ BoschTriggers[16] = "actuator_finished"
    BY DEF BoschTriggers
  <1>2. e.task \in 1 .. 6
    BY DEF IsBatchEvent
  <1>3. PulseColumn(e.type, e.task) \in 1 .. 16 /\ Trigger(e) = BoschTriggers[PulseColumn(e.type, e.task)]
    <2>1. CASE e.type = "JobStart"
      BY <1>1, <1>2, <2>1 DEF PulseColumn, Trigger, Activation
    <2>2. CASE e.type = "JobFinish"
      BY <1>1, <1>2, <2>2 DEF PulseColumn, Trigger, Finish
    <2>3. CASE e.type = "MessageSend"
      <3>1. e.task \in {1, 5}
        BY <2>3 DEF IsBatchEvent
      <3> QED
        BY <1>1, <2>3, <3>1 DEF PulseColumn, Trigger, Send
    <2>4. CASE e.type = "MessageDelivery"
      <3>1. e.task \in {2, 6}
        BY <2>4 DEF IsBatchEvent
      <3> QED
        BY <1>1, <2>4, <3>1 DEF PulseColumn, Trigger, Delivery
    <2> QED
      BY <2>1, <2>2, <2>3, <2>4 DEF Selected
  <1> QED
    BY <1>3, Columns

\* The events of a tick that the encoder selects.
Accepted(t) == {e \in Batch(t) : e.type \in Selected}

\* The pulses of a tick are the references of its selected events.
LEMMA PulsesTold ==
  ASSUME NEW t \in Int
  PROVE  LET pulses == PulsesOf(BatchSequence(t))
         IN  /\ pulses \in Seq(100 .. 115)
             /\ \A i \in 1 .. 16 : (\E k \in 1 .. Len(pulses) : pulses[k] = 99 + i)
                                       <=> \E e \in Accepted(t) : Column(Trigger(e)) = i
  <1> DEFINE trace == BatchSequence(t)
             mapped == {e \in ToSet(trace) : e.type \in Selected}
             P == {[tick |-> e.tick, trigger |-> Trigger(e)] : e \in mapped}
             key == [p \in P |-> Column(p.trigger)]
  <1>1. mapped = Accepted(t)
    <2>1. Lists(trace, Batch(t))
      BY BatchTold
    <2> HIDE DEF trace
    <2>2. ToSet(trace) = Batch(t)
      BY <2>1 DEF Lists, ToSet
    <2> QED
      BY <2>2 DEF Accepted
  <1>2. \A e \in mapped : IsBatchEvent(e, t) /\ e.type \in Selected
    BY <1>1, BatchEvents DEF Accepted
  <1> HIDE DEF mapped
  <1>3. ASSUME NEW p \in P
        PROVE  p.tick = t /\ p = [tick |-> t, trigger |-> p.trigger] /\ Column(p.trigger) \in 1 .. 16
               /\ p.trigger = BoschTriggers[Column(p.trigger)]
    <2>1. PICK e \in mapped : p = [tick |-> e.tick, trigger |-> Trigger(e)]
      OBVIOUS
    <2>2. e.tick = t
      BY <1>2 DEF IsBatchEvent
    <2> QED
      BY <1>2, <2>1, <2>2, TriggerColumn
  <1> HIDE DEF P
  <1>4. key \in [P -> 0 .. 16] /\ \A x, y \in P : key[x] = key[y] => x = y
    BY <1>3
  <1>5. ByKey(Encoded(trace), P, key)
    <2>1. Encoded(trace) = [i \in 1 .. Cardinality(P) |->
                               CHOOSE x \in P : 1 + Cardinality({y \in P : Before(y, x)}) = i]
      BY DEF Encoded, Normalized, InOrder, P, mapped
    <2>2. ASSUME NEW x \in P PROVE {y \in P : Before(y, x)} = {y \in P : key[y] < key[x]}
      <3>1. ASSUME NEW y \in P PROVE Before(y, x) <=> key[y] < key[x]
        BY <1>3 DEF Before
      <3> QED
        BY <3>1
    <2> DEFINE early(x) == {y \in P : Before(y, x)}
               below(x) == {y \in P : key[y] < key[x]}
    <2>3. \A x \in P : early(x) = below(x)
      BY <2>2
    <2>4. Encoded(trace) = [i \in 1 .. Cardinality(P) |-> CHOOSE x \in P : 1 + Cardinality(early(x)) = i]
      BY <2>1
    <2> HIDE DEF early, below
    <2>5. \A i : (CHOOSE x \in P : 1 + Cardinality(early(x)) = i) = CHOOSE x \in P : 1 + Cardinality(below(x)) = i
      <3>1. \A x \in P : Cardinality(early(x)) = Cardinality(below(x))
        BY <2>3
      <3> QED
        BY <3>1
    <2>6. Encoded(trace) = [i \in 1 .. Cardinality(P) |-> CHOOSE x \in P : 1 + Cardinality(below(x)) = i]
      BY <2>4, <2>5
    <2> QED
      BY <2>6 DEF ByKey, below
  <1> HIDE DEF key
  <1>6. Lists(Encoded(trace), P)
    <2>1. 16 \in Nat
      OBVIOUS
    <2> HIDE DEF trace
    <2> QED
      BY <1>4, <1>5, <2>1, Listed
  <1> DEFINE encoded == Encoded(trace)
             pulses == [i \in DOMAIN encoded |-> 99 + Column(encoded[i].trigger)]
  <1>7. PulsesOf(trace) = pulses
    BY DEF PulsesOf, TriggerReference
  <1> HIDE DEF trace
  <1>8. encoded \in Seq(P) /\ \A x \in P : \E i \in 1 .. Len(encoded) : encoded[i] = x
    BY <1>6 DEF Lists
  <1> HIDE DEF encoded
  <1>9. DOMAIN pulses = 1 .. Len(encoded) /\ Len(encoded) \in Nat
    BY <1>8
  <1>10. \A k \in 1 .. Len(encoded) : encoded[k] \in P /\ pulses[k] = 99 + Column(encoded[k].trigger)
    BY <1>8, <1>9
  <1> HIDE DEF pulses
  <1>11. ASSUME NEW k \in 1 .. Len(encoded) PROVE pulses[k] \in 100 .. 115
    <2> DEFINE c == Column(encoded[k].trigger)
    <2>1. c \in 1 .. 16 /\ pulses[k] = 99 + c
      BY <1>3, <1>10
    <2> HIDE DEF c
    <2> QED
      BY <2>1
  <1>12. pulses \in Seq(100 .. 115) /\ Len(pulses) = Len(encoded)
    <2>1. pulses \in [1 .. Len(encoded) -> 100 .. 115]
      BY <1>9, <1>11 DEF pulses
    <2> QED
      BY <1>9, <2>1
  <1>13. ASSUME NEW i \in 1 .. 16
         PROVE  (\E k \in 1 .. Len(pulses) : pulses[k] = 99 + i) <=> \E e \in Accepted(t) : Column(Trigger(e)) = i
    <2>1. ASSUME NEW k \in 1 .. Len(pulses), pulses[k] = 99 + i
          PROVE  \E e \in Accepted(t) : Column(Trigger(e)) = i
      <3>1. encoded[k] \in P /\ Column(encoded[k].trigger) = i
        <4>1. encoded[k] \in P /\ pulses[k] = 99 + Column(encoded[k].trigger)
          BY <1>10, <1>12
        <4> DEFINE c == Column(encoded[k].trigger)
        <4>2. c \in 1 .. 16 /\ pulses[k] = 99 + c
          BY <1>3, <4>1
        <4> HIDE DEF c
        <4>3. c = i
          BY <2>1, <4>2
        <4> QED
          BY <4>1, <4>3 DEF c
      <3>2. PICK e \in mapped : encoded[k] = [tick |-> e.tick, trigger |-> Trigger(e)]
        BY <3>1 DEF P
      <3> QED
        BY <1>1, <3>1, <3>2
    <2>2. ASSUME NEW e \in Accepted(t), Column(Trigger(e)) = i
          PROVE  \E k \in 1 .. Len(pulses) : pulses[k] = 99 + i
      <3> DEFINE p == [tick |-> e.tick, trigger |-> Trigger(e)]
      <3>1. p \in P /\ p.trigger = Trigger(e)
        BY <1>1 DEF P
      <3> HIDE DEF p
      <3>2. PICK k \in 1 .. Len(encoded) : encoded[k] = p
        BY <1>8, <3>1
      <3> QED
        BY <1>10, <1>12, <2>2, <3>1, <3>2
    <2> QED
      BY <2>1, <2>2
  <1> QED
    BY <1>7, <1>12, <1>13 DEF trace

\* A step leaves the trigger inputs, the parameters and the inputs of the instance alone.
StepFields == {"time", "step", "phys", "chain", "sc", "ca", "local", "remote", "real"}

\* A step, whatever it computes, keeps the inputs, the parameters and the triggers (fmi2DoStep).
LEMMA Stepped ==
  ASSUME NEW f, IsInstance(f)
  PROVE  /\ IsInstance(Simulated(f)) /\ SameExcept(Simulated(f), f, StepFields)
         /\ IsInstance(Concluded(Simulated(f))) /\ SameExcept(Concluded(Simulated(f)), f, StepFields)
         /\ IsInstance(DoStep(f)) /\ SameExcept(DoStep(f), f, StepFields)
  <1>1. ASSUME NEW h, IsInstance(h)
        PROVE  IsInstance(Simulated(h)) /\ SameExcept(Simulated(h), h, StepFields)
    <2> DEFINE L == IF h.step % SampleSteps = 0 THEN Measured(h.local, h.phys + 1, h.chain.ca_ff) ELSE h.local
               R == IF h.step % SampleSteps = 0 THEN Measured(h.real, h.phys + 1, h.ff_ref) ELSE h.real
    <2>1. Simulated(h) = [h EXCEPT !.phys = h.phys + 1, !.step = h.step + 1, !.local = L, !.real = R]
      BY <1>1 DEF Simulated, IsInstance, FmuFields
    <2> HIDE DEF L, R
    <2> QED
      BY <1>1, <2>1 DEF IsInstance, FmuFields, SameExcept, StepFields
  <1>2. ASSUME NEW h, IsInstance(h)
        PROVE  IsInstance(Concluded(h)) /\ SameExcept(Concluded(h), h, StepFields)
    <2> DEFINE S == IF Triggered(h, "sc_received") THEN Dequeued(h.sc) ELSE h.sc
               A == IF Triggered(h, "ca_received") THEN Dequeued(h.ca) ELSE h.ca
    <2>1. Concluded(h) = [h EXCEPT !.chain = PublishedChain(h), !.sc = S, !.ca = A]
      BY DEF Concluded
    <2> HIDE DEF S, A
    <2> QED
      BY <1>2, <2>1 DEF IsInstance, FmuFields, SameExcept, StepFields
  <1>3. ASSUME NEW h, IsInstance(h)
        PROVE  IsInstance(Activated(h)) /\ SameExcept(Activated(h), h, StepFields)
    <2> DEFINE c == h.chain
               S == IF Triggered(h, "sc_sent") THEN Push(h.sc, c.sens_out) ELSE h.sc
               A == IF Triggered(h, "ca_sent") THEN Push(h.ca, [delta |-> c.agg_out, ff |-> c.ff_out]) ELSE h.ca
               R == IF Triggered(h, "estimator_activated")
                    THEN Measured(h.remote, Estimated(c).meas.x, c.ff_out) ELSE h.remote
    <2>1. Activated(h) = [h EXCEPT !.chain = ComputedChain(h), !.sc = S, !.ca = A, !.remote = R]
      BY DEF Activated
    <2> HIDE DEF S, A, R
    <2> QED
      BY <1>3, <2>1 DEF IsInstance, FmuFields, SameExcept, StepFields
  <1> DEFINE a == Simulated(f)
             b == Concluded(a)
             c == Activated(b)
             d == [c EXCEPT !.time = c.time + 1]
  <1>4. IsInstance(a) /\ SameExcept(a, f, StepFields)
    BY <1>1
  <1> HIDE DEF a
  <1>5. IsInstance(b) /\ SameExcept(b, a, StepFields)
    BY <1>2, <1>4
  <1> HIDE DEF b
  <1>6. IsInstance(c) /\ SameExcept(c, b, StepFields)
    BY <1>3, <1>5
  <1> HIDE DEF c
  <1>7. IsInstance(d) /\ SameExcept(d, c, StepFields)
    BY <1>6 DEF IsInstance, FmuFields, SameExcept, StepFields
  <1>8. DoStep(f) = d
    BY <1>6 DEF DoStep, ProcessTriggers, a, b, c
  <1>9. SameExcept(d, f, StepFields) /\ SameExcept(b, f, StepFields)
    <2> HIDE DEF d
    <2> QED
      BY <1>4, <1>5, <1>6, <1>7 DEF SameExcept
  <1> QED
    BY <1>4, <1>5, <1>7, <1>8, <1>9 DEF a, b

-----------------------------------------------------------------------------
(* The run. *)

AdapterFields == {"initialized", "finalized", "thrown", "current", "active"}

\* The parts of a run have the values they should have.
RunTypeOK ==
    /\ schedule \in Schedules /\ told \in BOOLEAN
    /\ adapter = [x \in AdapterFields |-> adapter[x]]
    /\ adapter.initialized \in BOOLEAN /\ adapter.finalized \in BOOLEAN /\ adapter.thrown \in BOOLEAN
    /\ adapter.current \in 0 .. StopTick /\ adapter.active \in Seq(100 .. 115)

\* A model that has not started has been told nothing; a started one has all its parameters.
StartedComplete ==
    IF adapter.initialized THEN IsInstance(fmu) /\ fmu.trig \in Flags /\ fmu.set = ParameterSet
    ELSE ~ told /\ adapter.current = 0 /\ adapter.active = <<>>

\* The adapter remembers the pulses that are true, and those are the ones it has been told.
PulsesRemembered ==
    Active =>
        /\ \A i \in 1 .. 16 : fmu.trig[i] <=> \E k \in 1 .. Len(adapter.active) : adapter.active[k] = 99 + i
        /\ \A i \in 1 .. 16 : (\E k \in 1 .. Len(adapter.active) : adapter.active[k] = 99 + i)
                                  <=> told /\ \E e \in Accepted(adapter.current) : Column(Trigger(e)) = i
        /\ ~ told => adapter.active = <<>>

RunInv == RunTypeOK /\ StartedComplete /\ PulsesRemembered

\* Before the run nothing is initialized.
LEMMA RunInvInit == RunInit => RunInv
  <1> SUFFICES ASSUME RunInit PROVE RunInv
    OBVIOUS
  <1>1. adapter = [initialized |-> FALSE, finalized |-> FALSE, thrown |-> FALSE, current |-> 0, active |-> <<>>]
    BY DEF RunInit, BoschInit
  <1>2. schedule \in Schedules /\ told = FALSE
    BY DEF RunInit
  <1>3. RunTypeOK
    <2>1. 0 \in 0 .. StopTick /\ <<>> \in Seq(100 .. 115)
      BY StopTickAssumption
    <2>2. adapter = [x \in AdapterFields |-> adapter[x]]
      BY <1>1 DEF AdapterFields
    <2> QED
      BY <1>1, <1>2, <2>1, <2>2 DEF RunTypeOK
  <1> QED
    BY <1>1, <1>2, <1>3 DEF RunInv, StartedComplete, PulsesRemembered, Active

\* The parts of a sequence of references are such sequences.
LEMMA PrefixesSeq ==
  ASSUME NEW V, NEW s \in Seq(V), NEW p \in Prefixes(s)
  PROVE  p \in Seq(V)
  <1>1. PICK n \in 0 .. Len(s) : p = SubSeq(s, 1, n)
    BY DEF Prefixes
  <1> QED
    BY <1>1

\* Initializing, with any outcome, keeps the invariant.
LEMMA StartRunKeeps ==
  ASSUME RunInv, StartRun PROVE RunInv'
  <1>1. ~ adapter.initialized /\ UNCHANGED <<schedule, told>>
    BY DEF StartRun, Initialize
  <1>2. \/ adapter' = [adapter EXCEPT !.initialized = TRUE] /\ fmu' = Ready
        \/ adapter' = [adapter EXCEPT !.thrown = TRUE] /\ UNCHANGED fmu
        \/ adapter' = [adapter EXCEPT !.initialized = TRUE, !.thrown = TRUE] /\ fmu' = Ready
    BY DEF StartRun, Initialize, Thrown, Ready
  <1>3. ~ told /\ adapter.current = 0 /\ adapter.active = <<>>
    BY <1>1 DEF RunInv, StartedComplete
  <1>4. RunTypeOK'
    BY <1>1, <1>2 DEF RunInv, RunTypeOK, AdapterFields
  <1>5. /\ IsInstance(Ready) /\ Ready.trig \in Flags /\ Ready.set = ParameterSet
        /\ \A i \in 1 .. 16 : ~ Ready.trig[i]
    BY ReadyState DEF Flags
  <1>6. adapter'.current = 0 /\ adapter'.active = <<>> /\ ~ told'
        /\ (adapter'.initialized => fmu' = Ready)
    BY <1>1, <1>2, <1>3 DEF RunInv, RunTypeOK, AdapterFields
  <1>7. StartedComplete'
    BY <1>5, <1>6 DEF StartedComplete
  <1>8. PulsesRemembered'
    BY <1>5, <1>6 DEF PulsesRemembered, Active
  <1> QED
    BY <1>4, <1>7, <1>8 DEF RunInv

\* Telling the batch sets the pulses of this tick and no other.
LEMMA TellKeeps ==
  ASSUME RunInv, TellActions PROVE RunInv'
  <1> DEFINE t == adapter.current
             trace == BatchSequence(t)
             pulses == PulsesOf(trace)
  <1>1. Active /\ ~ told /\ told' = TRUE /\ UNCHANGED schedule
    BY DEF TellActions, ApplyActions
  <1>2. /\ adapter.initialized /\ IsInstance(fmu) /\ fmu.trig \in Flags /\ fmu.set = ParameterSet
        /\ adapter.active = <<>> /\ t \in Int
    BY <1>1, StopTickAssumption DEF RunInv, StartedComplete, PulsesRemembered, Active, RunTypeOK
  <1>3. pulses \in Seq(100 .. 115)
        /\ \A i \in 1 .. 16 : (\E k \in 1 .. Len(pulses) : pulses[k] = 99 + i)
                                  <=> \E e \in Accepted(t) : Column(Trigger(e)) = i
    BY <1>2, PulsesTold
  <1>4. \/ adapter' = [adapter EXCEPT !.thrown = TRUE] /\ UNCHANGED fmu
        \/ \E done \in Prefixes(pulses) :
               /\ fmu' = Written(fmu, done, TRUE)
               /\ adapter' = [adapter EXCEPT !.active = adapter.active \o done, !.thrown = done # pulses]
    BY DEF TellActions, ApplyActions, Thrown
  <1>5. CASE adapter' = [adapter EXCEPT !.thrown = TRUE] /\ UNCHANGED fmu
    <2>1. RunTypeOK'
      BY <1>1, <1>5 DEF RunInv, RunTypeOK, AdapterFields
    <2>2. adapter'.thrown /\ adapter'.initialized
      BY <1>2, <1>5 DEF RunInv, RunTypeOK, AdapterFields
    <2> QED
      BY <1>2, <1>5, <2>1, <2>2 DEF RunInv, StartedComplete, PulsesRemembered, Active
  <1> HIDE DEF pulses
  <1>6. ASSUME NEW done \in Prefixes(pulses), fmu' = Written(fmu, done, TRUE),
               adapter' = [adapter EXCEPT !.active = adapter.active \o done, !.thrown = done # pulses]
        PROVE  RunInv'
    <2>1. done \in Seq(100 .. 115)
      BY <1>3, PrefixesSeq
    <2>2. adapter.active \o done = done
      BY <1>2, <2>1
    <2>3. /\ adapter'.active = done /\ adapter'.thrown = (done # pulses) /\ adapter'.current = t
          /\ adapter'.initialized
      BY <1>2, <1>6, <2>2 DEF RunInv, RunTypeOK, AdapterFields
    <2>4. RunTypeOK'
      <3>1. (done # pulses) \in BOOLEAN
        OBVIOUS
      <3> DEFINE x == done # pulses
      <3>2. adapter' = [adapter EXCEPT !.active = done, !.thrown = x] /\ x \in BOOLEAN
        BY <1>6, <2>2
      <3> HIDE DEF x
      <3> QED
        BY <1>1, <2>1, <3>2 DEF RunInv, RunTypeOK, AdapterFields
    <2>5. /\ IsInstance(fmu') /\ SameExcept(fmu', fmu, {"trig"}) /\ fmu'.trig \in Flags
          /\ \A i \in 1 .. 16 : fmu'.trig[i] = IF \E k \in 1 .. Len(done) : done[k] = 99 + i
                                               THEN TRUE ELSE fmu.trig[i]
      <3>1. TRUE \in BOOLEAN
        OBVIOUS
      <3> QED
        BY <1>2, <1>6, <2>1, <3>1, WrittenSets
    <2>6. StartedComplete'
      BY <1>2, <2>3, <2>5 DEF StartedComplete, SameExcept, FmuFields
    <2>7. ASSUME Active' PROVE PulsesRemembered'
      <3>1. done = pulses
        BY <2>3, <2>7 DEF Active
      <3>2. \A i \in 1 .. 16 : ~ fmu.trig[i]
        BY <1>1, <1>2 DEF RunInv, PulsesRemembered
      <3>3. \A i \in 1 .. 16 : fmu'.trig[i] <=> \E k \in 1 .. Len(done) : done[k] = 99 + i
        BY <2>5, <3>2
      <3>4. Accepted(t)' = Accepted(t)
        BY <1>1, <2>3 DEF Accepted, Batch, Finishes, Starts, Sends, Deliveries, Tasks
      <3>5. \A i \in 1 .. 16 : (\E k \in 1 .. Len(adapter'.active) : adapter'.active[k] = 99 + i)
                                   <=> told' /\ \E e \in Accepted(adapter.current)' : Column(Trigger(e)) = i
        BY <1>1, <1>3, <2>3, <3>1, <3>4
      <3> QED
        BY <1>1, <2>3, <3>3, <3>5 DEF PulsesRemembered
    <2>8. PulsesRemembered'
      BY <2>7 DEF PulsesRemembered
    <2> QED
      BY <2>4, <2>6, <2>8 DEF RunInv
  <1> QED
    BY <1>4, <1>5, <1>6

\* A step resets exactly the pulses that were told; one that throws ends the run.
LEMMA AdvanceKeeps ==
  ASSUME RunInv, Advance PROVE RunInv'
  <1> DEFINE fed == WithInputs(fmu, adapter.current)
             stepped == DoStep(fed)
             next == adapter.current + 1
  <1>1. Active /\ told /\ told' = FALSE /\ UNCHANGED schedule /\ adapter.current < StopTick
    BY DEF Advance, AdvanceOneTick
  <1>2. /\ adapter.initialized /\ IsInstance(fmu) /\ fmu.trig \in Flags /\ fmu.set = ParameterSet
        /\ adapter.active \in Seq(100 .. 115) /\ adapter.current \in 0 .. StopTick
    BY <1>1 DEF RunInv, StartedComplete, Active, RunTypeOK
  <1>3. IsInstance(fed) /\ SameExcept(fed, fmu, {"ff_ref", "velocity"})
    BY <1>2, Fed
  <1>4. \/ /\ fmu' = Written(stepped, adapter.active, FALSE)
           /\ adapter' = [adapter EXCEPT !.current = next, !.active = <<>>]
        \/ /\ adapter' = [adapter EXCEPT !.thrown = TRUE]
           /\ fmu' \in {fmu, fed} \cup {Written(stepped, done, FALSE) : done \in Prefixes(adapter.active)}
    BY DEF Advance, AdvanceOneTick, AfterReset, Thrown
  <1> HIDE DEF fed
  <1>5. fed.trig = fmu.trig /\ fed.set = fmu.set
    BY <1>3 DEF SameExcept, FmuFields
  <1>6. IsInstance(stepped) /\ stepped.trig = fmu.trig /\ stepped.set = fmu.set
    <2>1. IsInstance(stepped) /\ SameExcept(stepped, fed, StepFields)
      BY <1>3, Stepped
    <2> HIDE DEF stepped
    <2> QED
      BY <1>5, <2>1 DEF SameExcept, FmuFields, StepFields
  <1> HIDE DEF stepped
  <1>7. ASSUME NEW done \in Seq(100 .. 115)
        PROVE  LET g == Written(stepped, done, FALSE)
               IN  /\ IsInstance(g) /\ g.trig \in Flags /\ g.set = ParameterSet
                   /\ \A i \in 1 .. 16 : g.trig[i] = IF \E k \in 1 .. Len(done) : done[k] = 99 + i
                                                     THEN FALSE ELSE fmu.trig[i]
    <2> DEFINE g == Written(stepped, done, FALSE)
    <2>1. FALSE \in BOOLEAN /\ stepped.trig \in Flags
      BY <1>2, <1>6
    <2>2. /\ IsInstance(g) /\ SameExcept(g, stepped, {"trig"}) /\ g.trig \in Flags
          /\ \A i \in 1 .. 16 : g.trig[i] = IF \E k \in 1 .. Len(done) : done[k] = 99 + i
                                            THEN FALSE ELSE stepped.trig[i]
      BY <1>6, <2>1, WrittenSets
    <2> HIDE DEF g
    <2>3. g.set = ParameterSet
      BY <1>2, <1>6, <2>2 DEF SameExcept, FmuFields
    <2> QED
      BY <1>6, <2>2, <2>3 DEF g
  <1>8. CASE /\ fmu' = Written(stepped, adapter.active, FALSE)
             /\ adapter' = [adapter EXCEPT !.current = next, !.active = <<>>]
    <2>1. next \in 0 .. StopTick /\ <<>> \in Seq(100 .. 115)
      BY <1>1, <1>2, StopTickAssumption
    <2> HIDE DEF next
    <2>2. RunTypeOK'
      BY <1>1, <1>8, <2>1 DEF RunInv, RunTypeOK, AdapterFields
    <2>3. adapter'.initialized /\ adapter'.active = <<>>
      BY <1>2, <1>8 DEF RunInv, RunTypeOK, AdapterFields
    <2>4. /\ IsInstance(fmu') /\ fmu'.trig \in Flags /\ fmu'.set = ParameterSet
          /\ \A i \in 1 .. 16 : fmu'.trig[i] = IF \E k \in 1 .. Len(adapter.active) : adapter.active[k] = 99 + i
                                               THEN FALSE ELSE fmu.trig[i]
      BY <1>2, <1>7, <1>8
    <2>5. \A i \in 1 .. 16 : ~ fmu'.trig[i]
      BY <1>1, <2>4 DEF RunInv, PulsesRemembered
    <2>6. PulsesRemembered'
      BY <1>1, <2>3, <2>5 DEF PulsesRemembered
    <2> QED
      BY <2>2, <2>3, <2>4, <2>6 DEF RunInv, StartedComplete
  <1>9. CASE /\ adapter' = [adapter EXCEPT !.thrown = TRUE]
             /\ fmu' \in {fmu, fed} \cup {Written(stepped, done, FALSE) : done \in Prefixes(adapter.active)}
    <2>1. RunTypeOK' /\ adapter'.thrown /\ adapter'.initialized
      BY <1>1, <1>2, <1>9 DEF RunInv, RunTypeOK, AdapterFields
    <2>2. IsInstance(fmu') /\ fmu'.trig \in Flags /\ fmu'.set = ParameterSet
      <3>1. CASE fmu' \in {fmu, fed}
        BY <1>2, <1>3, <1>5, <3>1
      <3>2. CASE fmu' \in {Written(stepped, done, FALSE) : done \in Prefixes(adapter.active)}
        <4>1. PICK done \in Prefixes(adapter.active) : fmu' = Written(stepped, done, FALSE)
          BY <3>2
        <4>2. done \in Seq(100 .. 115)
          BY <1>2, PrefixesSeq
        <4> QED
          BY <1>7, <4>1, <4>2
      <3> QED
        BY <1>9, <3>1, <3>2
    <2>3. PulsesRemembered'
      BY <2>1 DEF PulsesRemembered, Active
    <2> QED
      BY <2>1, <2>2, <2>3 DEF RunInv, StartedComplete
  <1> QED
    BY <1>4, <1>8, <1>9

\* Terminating leaves the instance as it is.
LEMMA FinishKeeps ==
  ASSUME RunInv, FinishRun PROVE RunInv'
  <1>1. Active /\ UNCHANGED <<fmu, schedule, told>>
    BY DEF FinishRun, Finalize
  <1>2. \/ adapter' = [adapter EXCEPT !.thrown = TRUE]
        \/ adapter' = [adapter EXCEPT !.finalized = TRUE]
    BY DEF FinishRun, Finalize, Thrown
  <1>3. /\ RunTypeOK' /\ adapter'.initialized /\ ~ Active'
    BY <1>1, <1>2 DEF RunInv, RunTypeOK, AdapterFields, Active
  <1> QED
    BY <1>1, <1>3 DEF RunInv, StartedComplete, PulsesRemembered, Active

\* Every step of the run keeps the invariant.
LEMMA RunInvKept ==
  RunInv /\ [RunNext]_runVars => RunInv'
  <1> SUFFICES ASSUME RunInv, [RunNext]_runVars PROVE RunInv'
    OBVIOUS
  <1>1. CASE UNCHANGED runVars
    <2>1. UNCHANGED <<schedule, told, adapter, fmu>>
      BY <1>1 DEF runVars, boschVars
    <2>2. RunTypeOK' /\ StartedComplete'
      BY <2>1 DEF RunInv, RunTypeOK, StartedComplete
    <2>3. Accepted(adapter.current)' = Accepted(adapter.current)
      BY <2>1 DEF Accepted, Batch, Finishes, Starts, Sends, Deliveries, Tasks
    <2>4. PulsesRemembered'
      BY <2>1, <2>3 DEF RunInv, PulsesRemembered, Active
    <2> QED
      BY <2>2, <2>4 DEF RunInv
  <1> QED
    BY <1>1, StartRunKeeps, TellKeeps, AdvanceKeeps, FinishKeeps DEF RunNext

\* The invariant of the run holds throughout.
LEMMA RunInvariant == RunSpec => []RunInv
  BY RunInvInit, RunInvKept, PTL DEF RunSpec

\* The trigger inputs of a usable model are exactly the pulses of the current tick's batch,
\* for every schedule, network delay and buffer: none survives its step, and none reaches
\* another column (apply_actions and the reset loop of advance_to).
THEOREM PulsesAreTheBatch == RunSpec => []PulsesLastOneTick
  <1>1. RunInv => PulsesLastOneTick
    <2> SUFFICES ASSUME RunInv, Active PROVE PulsesLastOneTick
      BY DEF PulsesLastOneTick
    <2> DEFINE accepted == {e \in Batch(adapter.current) : told /\ e.type \in Selected}
    <2>1. DOMAIN TriggerInputs = 1 .. 16
      BY DEF TriggerInputs
    <2>2. \A i \in 1 .. 16 : fmu.trig[i] <=> \E e \in accepted : Column(Trigger(e)) = i
      BY DEF RunInv, PulsesRemembered, Accepted
    <2>3. \A e \in accepted : Column(Trigger(e)) \in 1 .. 16
      <3>1. \A e \in accepted : IsBatchEvent(e, adapter.current) /\ e.type \in Selected
        BY BatchEvents
      <3> HIDE DEF accepted
      <3> QED
        BY <3>1, TriggerColumn
    <2> QED
      BY <2>1, <2>2, <2>3 DEF PulsesLastOneTick
  <1> QED
    BY <1>1, RunInvariant, PTL

-----------------------------------------------------------------------------
(* The ticks of a schedule. *)

\* m is the last tick of T before n, NoStamp if there is none.
IsLatest(T, n, m) == m \in T \cup {NoStamp} /\ m < n /\ \A t \in T : t < n => t <= m

\* There is one latest tick.
LEMMA LatestUnique ==
  ASSUME NEW T \in SUBSET Nat, NEW n \in Nat, NEW m, IsLatest(T, n, m)
  PROVE  Latest(T, n) = m
  <1> DEFINE S == {t \in T : t < n} \cup {NoStamp}
  <1>1. NoStamp \in Int /\ \A t \in T : t \in Int /\ NoStamp < t
    BY DEF NoStamp
  <1>2. m \in S /\ \A x \in S : x \in Int /\ m >= x
    BY <1>1 DEF IsLatest
  <1>3. Latest(T, n) = Max(S)
    BY DEF Latest
  <1>4. Max(S) = CHOOSE x \in S : \A y \in S : x >= y
    BY DEF Max
  <1> HIDE DEF S
  <1> DEFINE c == CHOOSE x \in S : \A y \in S : x >= y
  <1>5. c \in S /\ \A y \in S : c >= y
    BY <1>2
  <1>6. c >= m /\ m >= c /\ c \in Int /\ m \in Int
    BY <1>2, <1>5
  <1> HIDE DEF c
  <1>7. c = m
    BY <1>6
  <1> QED
    BY <1>3, <1>4, <1>7 DEF c

\* One tick later, the latest is that tick if it is a member.
LEMMA LatestAfter ==
  ASSUME NEW T \in SUBSET Nat, NEW n \in Nat, NEW m, IsLatest(T, n, m)
  PROVE  IsLatest(T, n + 1, IF n \in T THEN n ELSE m)
  <1>1. m \in Int /\ \A t \in T : t \in Int
    BY DEF IsLatest, NoStamp
  <1> QED
    BY <1>1 DEF IsLatest, NoStamp

\* Latest gives the last member before n, or none.
LEMMA LatestIs ==
  ASSUME NEW T \in SUBSET Nat, NEW n \in Nat
  PROVE  IsLatest(T, n, Latest(T, n))
  <1> DEFINE S == {k \in 0 .. n : \E m : IsLatest(T, k, m)}
  <1>1. 0 \in S
    <2>1. IsLatest(T, 0, NoStamp)
      BY DEF IsLatest, NoStamp
    <2> QED
      BY <2>1
  <1>2. ASSUME NEW k \in 1 .. n, k - 1 \in S PROVE k \in S
    <2>1. PICK m : IsLatest(T, k - 1, m)
      BY <1>2
    <2>2. k - 1 \in Nat /\ k - 1 + 1 = k
      OBVIOUS
    <2>3. IsLatest(T, k - 1 + 1, IF k - 1 \in T THEN k - 1 ELSE m)
      BY <2>1, <2>2, LatestAfter
    <2> QED
      BY <2>2, <2>3
  <1> HIDE DEF S
  <1>3. n \in S
    BY <1>1, <1>2, Counting
  <1>4. PICK m : IsLatest(T, n, m)
    BY <1>3 DEF S
  <1> QED
    BY <1>4, LatestUnique

\* Latest, from one tick to the next.
LEMMA LatestStep ==
  ASSUME NEW T \in SUBSET Nat, NEW n \in Nat
  PROVE  /\ Latest(T, n + 1) = IF n \in T THEN n ELSE Latest(T, n)
         /\ Latest(T, 0) = NoStamp
  <1>1. IsLatest(T, n + 1, IF n \in T THEN n ELSE Latest(T, n))
    BY LatestIs, LatestAfter
  <1>2. IsLatest(T, 0, NoStamp)
    BY DEF IsLatest, NoStamp
  <1>3. n + 1 \in Nat /\ 0 \in Nat
    OBVIOUS
  <1> QED
    BY <1>1, <1>2, <1>3, LatestUnique

\* What the assumptions say of the chosen schedule.
ScheduleOK ==
    /\ schedule.period \in Nat /\ schedule.period >= 2
    /\ schedule.response \in Nat /\ schedule.response >= 1 /\ schedule.response <= schedule.period
    /\ schedule.up \in Nat /\ schedule.up >= 1 /\ schedule.up <= schedule.period * NetworkCapacity
    /\ schedule.down \in Nat /\ schedule.down >= 1 /\ schedule.down <= schedule.period * NetworkCapacity
    /\ \A k \in Tasks : schedule.offset[k] \in Nat

\* What a nominal schedule guarantees: responses within the period, delays within the ring.
LEMMA ScheduleFacts ==
  ASSUME schedule \in Schedules PROVE ScheduleOK
  <1>1. /\ schedule.period \in Periods /\ schedule.response \in Responses
        /\ schedule.up \in Delays /\ schedule.down \in Delays /\ schedule.offset \in [Tasks -> Offsets]
    BY DEF Schedules
  <1>2. /\ Periods \subseteq Nat \ {0, 1} /\ Offsets \subseteq Nat
        /\ Responses \subseteq Nat \ {0} /\ Delays \subseteq Nat \ {0}
        /\ \A p \in Periods, r \in Responses : r <= p
        /\ \A p \in Periods, d \in Delays : d <= p * NetworkCapacity
    BY NominalAssumption
  <1>3. \A k \in Tasks : schedule.offset[k] \in Nat
    BY <1>1, <1>2
  <1>4. schedule.period \in Nat /\ schedule.period # 0 /\ schedule.period # 1
    BY <1>1, <1>2
  <1>5. /\ schedule.response \in Nat \ {0} /\ schedule.up \in Nat \ {0} /\ schedule.down \in Nat \ {0}
    BY <1>1, <1>2
  <1>6. /\ schedule.response <= schedule.period
        /\ schedule.up <= schedule.period * NetworkCapacity /\ schedule.down <= schedule.period * NetworkCapacity
    BY <1>1, <1>2
  <1> QED
    BY <1>3, <1>4, <1>5, <1>6 DEF ScheduleOK

\* The jobs of a task start in every period from its offset, until the stop tick.
StartsAt(k, j) == schedule.offset[k] + j * schedule.period

\* Products with a period keep the order.
LEMMA Product ==
  ASSUME NEW p \in Nat, NEW i \in Int, NEW j \in Int
  PROVE  /\ i <= j => i * p <= j * p
         /\ (i + 1) * p = i * p + p
         /\ p > 0 /\ i * p < j * p => i < j
         /\ i * p \in Int
  <1>1. i <= j => i * p <= j * p
    <2>1. ASSUME i <= j PROVE i * p <= j * p
      <3>1. (j - i) \in Nat
        BY <2>1
      <3>2. (j - i) * p >= 0
        BY <3>1
      <3>3. (j - i) * p = j * p - i * p
        OBVIOUS
      <3> QED
        BY <3>2, <3>3
    <2> QED
      BY <2>1
  <1>2. j <= i => j * p <= i * p
    <2>1. ASSUME j <= i PROVE j * p <= i * p
      <3>1. (i - j) \in Nat
        BY <2>1
      <3>2. (i - j) * p >= 0
        BY <3>1
      <3>3. (i - j) * p = i * p - j * p
        OBVIOUS
      <3> QED
        BY <3>2, <3>3
    <2> QED
      BY <2>1
  <1>3. (i + 1) * p = i * p + p
    OBVIOUS
  <1>4. i * p \in Int /\ j * p \in Int
    OBVIOUS
  <1> QED
    BY <1>1, <1>2, <1>3, <1>4

\* Every number is a multiple of p and a remainder.
LEMMA Division ==
  ASSUME NEW a \in Int, NEW p \in Nat, p > 0
  PROVE  \E q \in Int : a = q * p + (a % p) /\ a % p \in 0 .. p - 1
  <1>1. a \div p \in Int /\ a = (a \div p) * p + (a % p) /\ a % p \in 0 .. p - 1
    OBVIOUS
  <1> QED
    BY <1>1, Zenon

\* The remainder of a number given as a multiple and a rest.
LEMMA Remainder ==
  ASSUME NEW q \in Nat, NEW p \in Nat, NEW r \in 0 .. p - 1, NEW a, a = q * p + r
  PROVE  a % p = r
  OBVIOUS

\* The starts of a task are its releases up to the stop tick.
LEMMA StartsAre ==
  ASSUME ScheduleOK, NEW k \in Tasks
  PROVE  /\ Starts(k) \subseteq 0 .. StopTick
         /\ \A t \in Int : t \in Starts(k) <=> \E j \in Nat : t = StartsAt(k, j) /\ t <= StopTick
  <1> DEFINE p == schedule.period
             o == schedule.offset[k]
  <1>1. p \in Nat /\ p >= 2 /\ o \in Nat /\ StopTick \in Nat
    BY StopTickAssumption DEF ScheduleOK
  <1>2. Starts(k) = {t \in 0 .. StopTick : t >= o /\ (t - o) % p = 0}
    BY DEF Starts
  <1>3. \A j : StartsAt(k, j) = o + j * p
    BY DEF StartsAt
  <1> HIDE DEF o, p
  <1>4. ASSUME NEW t \in Starts(k) PROVE \E j \in Nat : t = StartsAt(k, j) /\ t <= StopTick
    <2>1. t \in 0 .. StopTick /\ t >= o /\ (t - o) % p = 0
      BY <1>2
    <2> DEFINE x == t - o
    <2>2. x \in Nat /\ x % p = 0
      BY <1>1, <2>1
    <2> HIDE DEF x
    <2>3. PICK q \in Int : x = q * p
      BY <1>1, <2>2, Division
    <2>4. q >= 0
      <3>1. ASSUME q <= -1 PROVE FALSE
        <4>1. q * p <= (-1) * p
          BY <1>1, <3>1, Product
        <4>2. (-1) * p = - p
          BY <1>1
        <4> QED
          BY <1>1, <2>2, <2>3, <4>1, <4>2
      <3> QED
        BY <3>1
    <2>5. t = o + q * p
      BY <1>1, <2>1, <2>2, <2>3 DEF x
    <2> QED
      BY <1>3, <2>1, <2>3, <2>4, <2>5
  <1>5. ASSUME NEW j \in Nat, StartsAt(k, j) <= StopTick PROVE StartsAt(k, j) \in Starts(k)
    <2>1. j * p \in Nat
      BY <1>1
    <2>2. (j * p) % p = 0
      BY <1>1, <2>1
    <2> DEFINE x == j * p
               t == o + x
    <2>3. t = StartsAt(k, j)
      BY <1>3
    <2> HIDE DEF x
    <2>4. t \in 0 .. StopTick /\ t >= o /\ t - o = x
      BY <1>1, <1>5, <2>1, <2>3 DEF x
    <2>5. (t - o) % p = 0
      BY <2>2, <2>4 DEF x
    <2> HIDE DEF t
    <2> QED
      BY <1>2, <2>3, <2>4, <2>5
  <1> QED
    BY <1>2, <1>4, <1>5

\* Two starts of a task are a period apart.
LEMMA Spaced ==
  ASSUME ScheduleOK, NEW k \in Tasks, NEW s \in Starts(k), NEW t \in Starts(k), s < t
  PROVE  t >= s + schedule.period
  <1> DEFINE p == schedule.period
             o == schedule.offset[k]
  <1>1. p \in Nat /\ p >= 2 /\ o \in Nat /\ s \in Int /\ t \in Int
    BY StartsAre, StopTickAssumption DEF ScheduleOK
  <1>2. PICK i \in Nat : s = o + i * p
    BY <1>1, StartsAre DEF StartsAt
  <1>3. PICK j \in Nat : t = o + j * p
    BY <1>1, StartsAre DEF StartsAt
  <1> HIDE DEF p, o
  <1>4. i * p \in Int /\ j * p \in Int /\ i * p < j * p
    BY <1>1, <1>2, <1>3
  <1>5. i < j
    BY <1>1, <1>4, Product
  <1>6. (i + 1) * p <= j * p /\ (i + 1) * p = i * p + p
    BY <1>1, <1>5, Product
  <1>7. t >= s + p
    BY <1>1, <1>2, <1>3, <1>4, <1>6
  <1> QED
    BY <1>7 DEF p

\* A job finishes before its task's next one starts.
LEMMA FinishedStart ==
  ASSUME ScheduleOK, NEW k \in Tasks, NEW n \in Nat, n \in Finishes(k)
  PROVE  /\ n - schedule.response \in Starts(k) /\ n >= 1
         /\ Latest(Starts(k), n) = n - schedule.response
         /\ n - schedule.response # NoStamp
  <1> DEFINE r == schedule.response
             s == n - r
  <1>1. r \in Nat /\ r >= 1 /\ r <= schedule.period /\ schedule.period \in Nat
    BY DEF ScheduleOK
  <1>2. Starts(k) \in SUBSET Nat
    BY StartsAre, StopTickAssumption
  <1>3. s \in Starts(k)
    <2>1. PICK t \in Starts(k) : n = t + r
      BY DEF Finishes
    <2>2. t \in Nat
      BY <1>2
    <2> HIDE DEF r
    <2> QED
      BY <1>1, <2>1, <2>2
  <1> HIDE DEF s
  <1>4. s \in Nat /\ s < n /\ n >= 1 /\ s # NoStamp /\ s + r = n
    BY <1>1, <1>2, <1>3 DEF NoStamp, s
  <1>5. ASSUME NEW t \in Starts(k), t < n PROVE t <= s
    <2>1. t \in Nat
      BY <1>2
    <2>2. s < t => t >= s + schedule.period
      BY <1>3, Spaced
    <2> QED
      BY <1>1, <1>4, <1>5, <2>1, <2>2
  <1>6. IsLatest(Starts(k), n, s)
    BY <1>3, <1>4, <1>5 DEF IsLatest
  <1>7. Latest(Starts(k), n) = s
    BY <1>2, <1>6, LatestUnique
  <1> QED
    BY <1>3, <1>4, <1>7 DEF s

\* Finishes, sends and deliveries follow the starts at fixed distances.
LEMMA TickSets ==
  ASSUME ScheduleOK, NEW k \in Tasks
  PROVE  /\ Starts(k) \in SUBSET Nat /\ Finishes(k) \in SUBSET Nat /\ Sends(k) \in SUBSET Nat
         /\ \A dl \in Nat : Deliveries(k, dl) \in SUBSET Nat
         /\ \A n \in Int : n \in Finishes(k) <=> n - schedule.response \in Starts(k)
         /\ \A n \in Int : n \in Sends(k) <=> n - 1 \in Finishes(k)
         /\ \A n \in Int, dl \in Nat : n \in Deliveries(k, dl) <=> n - dl \in Sends(k)
  <1>1. schedule.response \in Nat
    BY DEF ScheduleOK
  <1>2. Starts(k) \in SUBSET Nat
    BY StartsAre, StopTickAssumption
  <1>3. Finishes(k) \in SUBSET Nat /\ \A n \in Int : n \in Finishes(k) <=> n - schedule.response \in Starts(k)
    <2> DEFINE r == schedule.response
    <2>1. Finishes(k) = {t + r : t \in Starts(k)} /\ r \in Nat
      BY <1>1 DEF Finishes
    <2> HIDE DEF r
    <2>2. ASSUME NEW n \in Int PROVE n \in Finishes(k) <=> n - r \in Starts(k)
      <3>1. ASSUME n \in Finishes(k) PROVE n - r \in Starts(k)
        <4>1. PICK t \in Starts(k) : n = t + r
          BY <2>1, <3>1
        <4>2. n - r = t
          BY <1>2, <2>1, <4>1
        <4> QED
          BY <4>2
      <3>2. ASSUME n - r \in Starts(k) PROVE n \in Finishes(k)
        <4>1. (n - r) + r = n
          BY <2>1
        <4> QED
          BY <2>1, <3>2, <4>1
      <3> QED
        BY <3>1, <3>2
    <2> QED
      BY <1>2, <2>1, <2>2 DEF r
  <1>4. Sends(k) \in SUBSET Nat /\ \A n \in Int : n \in Sends(k) <=> n - 1 \in Finishes(k)
    <2>1. Sends(k) = {t + 1 : t \in Finishes(k)}
      BY DEF Sends
    <2>2. ASSUME NEW n \in Int PROVE n \in Sends(k) <=> n - 1 \in Finishes(k)
      <3>1. ASSUME n \in Sends(k) PROVE n - 1 \in Finishes(k)
        <4>1. PICK t \in Finishes(k) : n = t + 1
          BY <2>1, <3>1
        <4>2. n - 1 = t
          BY <1>3, <4>1
        <4> QED
          BY <4>2
      <3>2. ASSUME n - 1 \in Finishes(k) PROVE n \in Sends(k)
        <4>1. (n - 1) + 1 = n
          OBVIOUS
        <4> QED
          BY <2>1, <3>2, <4>1
      <3> QED
        BY <3>1, <3>2
    <2> QED
      BY <1>3, <2>1, <2>2
  <1>5. ASSUME NEW dl \in Nat
        PROVE  Deliveries(k, dl) \in SUBSET Nat /\ \A n \in Int : n \in Deliveries(k, dl) <=> n - dl \in Sends(k)
    <2>1. Deliveries(k, dl) = {t + dl : t \in Sends(k)}
      BY DEF Deliveries
    <2>2. ASSUME NEW n \in Int PROVE n \in Deliveries(k, dl) <=> n - dl \in Sends(k)
      <3>1. ASSUME n \in Deliveries(k, dl) PROVE n - dl \in Sends(k)
        <4>1. PICK t \in Sends(k) : n = t + dl
          BY <2>1, <3>1
        <4>2. n - dl = t
          BY <1>4, <4>1
        <4> QED
          BY <4>2
      <3>2. ASSUME n - dl \in Sends(k) PROVE n \in Deliveries(k, dl)
        <4>1. (n - dl) + dl = n
          OBVIOUS
        <4> QED
          BY <2>1, <3>2, <4>1
      <3> QED
        BY <3>1, <3>2
    <2> QED
      BY <1>4, <2>1, <2>2
  <1> QED
    BY <1>2, <1>3, <1>4, <1>5

\* The start of the last finished job, from one tick to the next.
LEMMA LastStartStep ==
  ASSUME ScheduleOK, NEW k \in Tasks, NEW n \in Nat
  PROVE  /\ LastStart(k, n + 1) = IF n \in Finishes(k) THEN n - schedule.response ELSE LastStart(k, n)
         /\ LastStart(k, 0) = NoStamp
         /\ n \in Sends(k) => LastStart(k, n + 1) = LastStart(k, n)
  <1>1. Finishes(k) \in SUBSET Nat
    BY TickSets
  <1>2. /\ Latest(Finishes(k), n + 1) = IF n \in Finishes(k) THEN n ELSE Latest(Finishes(k), n)
        /\ Latest(Finishes(k), 0) = NoStamp
    BY <1>1, LatestStep
  <1>3. n # NoStamp
    BY DEF NoStamp
  <1>4. /\ LastStart(k, n + 1) = IF n \in Finishes(k) THEN n - schedule.response ELSE LastStart(k, n)
        /\ LastStart(k, 0) = NoStamp
    BY <1>2, <1>3 DEF LastStart
  <1>5. n \in Sends(k) => n \notin Finishes(k)
    <2>1. ASSUME n \in Sends(k), n \in Finishes(k) PROVE FALSE
      <3> DEFINE r == schedule.response
                 s == n - r
                 t == n - 1 - r
      <3>1. r \in Nat /\ schedule.period \in Nat /\ schedule.period >= 2
        BY DEF ScheduleOK
      <3>2. n - 1 \in Finishes(k)
        BY <2>1, TickSets
      <3>3. s \in Starts(k) /\ t \in Starts(k)
        <4>1. n - 1 \in Int /\ n \in Int
          OBVIOUS
        <4> QED
          BY <2>1, <3>2, <4>1, TickSets
      <3>4. s = t + 1
        BY <3>1
      <3>5. t \in Nat /\ s \in Nat
        BY <3>3, TickSets
      <3> HIDE DEF r, s, t
      <3>6. s >= t + schedule.period
        BY <3>3, <3>4, <3>5, Spaced
      <3> QED
        BY <3>1, <3>4, <3>5, <3>6
    <2> QED
      BY <2>1
  <1> QED
    BY <1>4, <1>5

\* The send tick of the last delivered packet, from one tick to the next.
LEMMA LastCarriedStep ==
  ASSUME ScheduleOK, NEW k \in Tasks, NEW dl \in Nat, NEW n \in Nat
  PROVE  /\ LastCarried(k, dl, n + 1) = IF n \in Deliveries(k, dl) THEN n - dl - 1 ELSE LastCarried(k, dl, n)
         /\ LastCarried(k, dl, 0) = NoStamp
  <1>1. Deliveries(k, dl) \in SUBSET Nat
    BY TickSets
  <1>2. /\ Latest(Deliveries(k, dl), n + 1) = IF n \in Deliveries(k, dl) THEN n ELSE Latest(Deliveries(k, dl), n)
        /\ Latest(Deliveries(k, dl), 0) = NoStamp
    BY <1>1, LatestStep
  <1>3. n # NoStamp
    BY DEF NoStamp
  <1> QED
    BY <1>2, <1>3 DEF LastCarried

-----------------------------------------------------------------------------
(* A stage of the chain: what its job computes and what is visible of it. *)

At(F, init, s) == IF s = NoStamp THEN init ELSE F[s]

Stage(k, n, F, init, comp, out) ==
    comp = At(F, init, Latest(Starts(k), n)) /\ out = At(F, init, LastStart(k, n))

\* Before the first tick a stage shows its initial value.
LEMMA StageFirst ==
  ASSUME ScheduleOK, NEW k \in Tasks, NEW F, NEW init
  PROVE  Stage(k, 0, F, init, init, init)
  <1>1. 0 \in Nat /\ Starts(k) \in SUBSET Nat
    BY TickSets
  <1>2. Latest(Starts(k), 0) = NoStamp /\ LastStart(k, 0) = NoStamp
    BY <1>1, LatestStep, LastStartStep
  <1> QED
    BY <1>2 DEF Stage, At

\* A job computes with what it finds when it starts; what it computed shows when it finishes.
LEMMA StageNext ==
  ASSUME ScheduleOK, NEW k \in Tasks, NEW n \in Nat, NEW F, NEW init, NEW comp, NEW out,
         Stage(k, n, F, init, comp, out),
         NEW comp2, comp2 = (IF n \in Starts(k) THEN F[n] ELSE comp),
         NEW out2, out2 = (IF n \in Finishes(k) THEN comp ELSE out)
  PROVE  Stage(k, n + 1, F, init, comp2, out2)
  <1>1. Starts(k) \in SUBSET Nat /\ n # NoStamp
    BY TickSets DEF NoStamp
  <1>2. Latest(Starts(k), n + 1) = IF n \in Starts(k) THEN n ELSE Latest(Starts(k), n)
    BY <1>1, LatestStep
  <1>3. LastStart(k, n + 1) = IF n \in Finishes(k) THEN n - schedule.response ELSE LastStart(k, n)
    BY LastStartStep
  <1>4. n \in Finishes(k) => Latest(Starts(k), n) = n - schedule.response
    BY FinishedStart
  <1> QED
    BY <1>1, <1>2, <1>3, <1>4 DEF Stage, At

-----------------------------------------------------------------------------
(* Rings: positions modulo a capacity. *)

\* The place in a ring is within it and moves on by one.
LEMMA RingPlace ==
  ASSUME NEW cap \in Nat, cap > 0, NEW b \in Nat
  PROVE  b % cap \in 0 .. cap - 1 /\ ((b % cap) + 1) % cap = (b + 1) % cap
  <1> DEFINE r == b % cap
  <1>1. PICK q \in Int : b = q * cap + r /\ r \in 0 .. cap - 1
    BY Division
  <1> HIDE DEF r
  <1>2. q >= 0
    <2>1. ASSUME q <= -1 PROVE FALSE
      <3>1. q * cap <= (-1) * cap /\ q * cap \in Int
        BY <2>1, Product
      <3>2. (-1) * cap = - cap
        OBVIOUS
      <3> QED
        BY <1>1, <3>1, <3>2
    <2> QED
      BY <2>1
  <1>3. CASE r + 1 < cap
    <2>1. r + 1 \in 0 .. cap - 1 /\ b + 1 = q * cap + (r + 1) /\ q \in Nat
      BY <1>1, <1>2, <1>3
    <2> DEFINE x == b + 1
               y == r + 1
               zero == 0
    <2>2. x = q * cap + y /\ y \in 0 .. cap - 1 /\ y = zero * cap + y /\ zero \in Nat
      BY <1>1, <2>1
    <2> HIDE DEF x, y, zero
    <2>3. x % cap = y
      <3>1. q \in Nat
        BY <2>1
      <3> QED
        BY <2>2, <3>1, Remainder
    <2>4. y % cap = y
      BY <2>2, Remainder
    <2> QED
      BY <1>1, <2>3, <2>4 DEF r, x, y
  <1>4. CASE r + 1 = cap
    <2>1. b + 1 = (q + 1) * cap + 0 /\ q + 1 \in Nat /\ 0 \in 0 .. cap - 1
      BY <1>1, <1>2, <1>4, Product
    <2> DEFINE x == b + 1
               y == r + 1
               zero == 0
               one == 1
               s == q + 1
    <2>2. x = s * cap + zero /\ s \in Nat /\ zero \in 0 .. cap - 1 /\ y = one * cap + zero /\ one \in Nat
      BY <1>1, <1>4, <2>1
    <2> HIDE DEF x, y, zero, one, s
    <2>3. x % cap = zero /\ y % cap = zero
      BY <2>2, Remainder
    <2> QED
      BY <1>1, <2>3 DEF r, x, y
  <1>5. r + 1 < cap \/ r + 1 = cap
    BY <1>1
  <1> QED
    BY <1>3, <1>4, <1>5

\* Two numbers less than a round apart have different places in a ring.
LEMMA RingApart ==
  ASSUME NEW cap \in Nat, cap > 0, NEW i \in Nat, NEW j \in Nat, i < j, j < i + cap
  PROVE  i % cap # j % cap
  <1>1. SUFFICES ASSUME i % cap = j % cap PROVE FALSE
    OBVIOUS
  <1> DEFINE r == i % cap
  <1>2. PICK q \in Int : i = q * cap + r /\ r \in 0 .. cap - 1
    BY Division
  <1>3. PICK s \in Int : j = s * cap + r
    <2>1. PICK s \in Int : j = s * cap + (j % cap)
      BY Division
    <2>2. j = s * cap + r
      BY <1>1, <2>1
    <2> QED
      BY <2>2, Zenon
  <1> HIDE DEF r
  <1>4. q * cap \in Int /\ s * cap \in Int /\ q * cap < s * cap /\ s * cap < q * cap + cap
    BY <1>2, <1>3, Product
  <1>5. q < s
    BY <1>4, Product
  <1>6. (q + 1) * cap <= s * cap /\ (q + 1) * cap = q * cap + cap
    BY <1>5, Product
  <1> QED
    BY <1>4, <1>6

\* A ring starts at place 0.
LEMMA RingZero ==
  ASSUME NEW cap \in Nat, cap > 0 PROVE 0 % cap = 0
  <1>1. 0 = 0 * cap + 0 /\ 0 \in 0 .. cap - 1 /\ 0 \in Nat
    OBVIOUS
  <1> QED
    BY <1>1, Remainder

-----------------------------------------------------------------------------
(* A network: its packets in the ring between two platforms. *)

\* The tick task k sends its packet j at, and a as the number of packets sent before x.
SendAt(k, j) == StartsAt(k, j) + schedule.response + 1
Sent(k, a, x) ==
    /\ a > 0 => StartsAt(k, a - 1) <= StopTick /\ SendAt(k, a - 1) < x
    /\ StartsAt(k, a) <= StopTick => SendAt(k, a) >= x

\* The packets of a task are sent one period after the other.
LEMMA Packets ==
  ASSUME ScheduleOK, NEW k \in Tasks
  PROVE  /\ \A j \in Int : SendAt(k, j) \in Int /\ StartsAt(k, j) \in Int
         /\ \A j \in Nat : SendAt(k, j) \in Nat
         /\ \A i, j \in Int : i <= j => SendAt(k, i) <= SendAt(k, j) /\ StartsAt(k, i) <= StartsAt(k, j)
         /\ \A i, j \in Int : j = i + 1 => SendAt(k, j) = SendAt(k, i) + schedule.period
         /\ \A x \in Int : x \in Sends(k) <=> \E j \in Nat : x = SendAt(k, j) /\ StartsAt(k, j) <= StopTick
  <1> DEFINE p == schedule.period
             o == schedule.offset[k]
             r == schedule.response
  <1>1. p \in Nat /\ o \in Nat /\ r \in Nat
    BY DEF ScheduleOK
  <1>2. \A j : StartsAt(k, j) = o + j * p /\ SendAt(k, j) = o + j * p + r + 1
    BY DEF SendAt, StartsAt
  <1>3. ASSUME NEW x \in Int
        PROVE  x \in Sends(k) <=> \E j \in Nat : x = SendAt(k, j) /\ StartsAt(k, j) <= StopTick
    <2> DEFINE t == x - 1 - r
    <2>1. x \in Sends(k) <=> t \in Starts(k)
      <3>1. x - 1 \in Int
        OBVIOUS
      <3> QED
        BY <3>1, TickSets
    <2>2. t \in Int
      BY <1>1
    <2>3. t \in Starts(k) <=> \E j \in Nat : t = StartsAt(k, j) /\ t <= StopTick
      BY <2>2, StartsAre
    <2>4. \A j \in Nat : t = StartsAt(k, j) <=> x = SendAt(k, j)
      <3>1. ASSUME NEW j \in Nat PROVE t = StartsAt(k, j) <=> x = SendAt(k, j)
        <4> DEFINE y == j * p
        <4>1. y \in Int /\ StartsAt(k, j) = o + y /\ SendAt(k, j) = o + y + r + 1
          BY <1>1, <1>2, Product
        <4> HIDE DEF y, o, p, r
        <4> QED
          BY <1>1, <4>1
      <3> QED
        BY <3>1
    <2> HIDE DEF t
    <2> QED
      BY <2>1, <2>3, <2>4
  <1> HIDE DEF p, o, r
  <1>4. ASSUME NEW j \in Int
        PROVE  /\ SendAt(k, j) \in Int /\ StartsAt(k, j) \in Int
               /\ SendAt(k, j + 1) = SendAt(k, j) + p
    <2>1. j * p \in Int /\ (j + 1) * p = j * p + p
      BY <1>1, Product
    <2> QED
      BY <1>1, <1>2, <2>1
  <1>5. ASSUME NEW j \in Nat PROVE SendAt(k, j) \in Nat
    <2>1. j * p \in Nat
      BY <1>1
    <2> QED
      BY <1>1, <1>2, <2>1
  <1>6. ASSUME NEW i \in Int, NEW j \in Int, i <= j
        PROVE  SendAt(k, i) <= SendAt(k, j) /\ StartsAt(k, i) <= StartsAt(k, j)
    <2>1. i * p \in Int /\ j * p \in Int /\ i * p <= j * p
      BY <1>1, <1>6, Product
    <2> QED
      BY <1>1, <1>2, <2>1
  <1>7. ASSUME NEW i \in Int, NEW j \in Int, j = i + 1 PROVE SendAt(k, j) = SendAt(k, i) + p
    BY <1>4, <1>7
  <1> QED
    BY <1>3, <1>4, <1>5, <1>6, <1>7 DEF p

\* How many packets were sent, from one tick to the next.
LEMMA SentStep ==
  ASSUME ScheduleOK, NEW k \in Tasks, NEW a \in Nat, NEW x \in Int, Sent(k, a, x)
  PROVE  IF x \in Sends(k) THEN x = SendAt(k, a) /\ Sent(k, a + 1, x + 1) /\ StartsAt(k, a) <= StopTick
                           ELSE Sent(k, a, x + 1)
  <1>1. StopTick \in Int /\ schedule.period \in Nat /\ schedule.period >= 2
    BY StopTickAssumption DEF ScheduleOK
  <1>2. CASE x \in Sends(k)
    <2>1. PICK j \in Nat : x = SendAt(k, j) /\ StartsAt(k, j) <= StopTick
      BY <1>2, Packets
    <2>2. ~ (j < a)
      <3>1. ASSUME j < a PROVE FALSE
        <4>1. a - 1 \in Int /\ j <= a - 1 /\ SendAt(k, a - 1) < x
          BY <3>1 DEF Sent
        <4>2. SendAt(k, j) <= SendAt(k, a - 1) /\ SendAt(k, a - 1) \in Int
          BY <4>1, Packets
        <4> QED
          BY <2>1, <4>1, <4>2
      <3> QED
        BY <3>1
    <2>3. ~ (a < j)
      <3>1. ASSUME a < j PROVE FALSE
        <4>1. StartsAt(k, a) <= StartsAt(k, j) /\ StartsAt(k, a) \in Int /\ StartsAt(k, j) \in Int
          BY <3>1, Packets
        <4>2. SendAt(k, a) >= x /\ SendAt(k, a) \in Int
          BY <1>1, <2>1, <4>1, Packets DEF Sent
        <4>3. a + 1 \in Int /\ a + 1 <= j /\ SendAt(k, a + 1) = SendAt(k, a) + schedule.period
          BY <3>1, Packets
        <4>4. SendAt(k, a + 1) <= SendAt(k, j)
          BY <4>3, Packets
        <4> QED
          BY <1>1, <2>1, <4>2, <4>3, <4>4
      <3> QED
        BY <3>1
    <2>4. j = a
      BY <2>2, <2>3
    <2>5. SendAt(k, a + 1) = x + schedule.period
      <3>1. a + 1 \in Int /\ a \in Int
        OBVIOUS
      <3> QED
        BY <2>1, <2>4, <3>1, Packets
    <2>6. a + 1 - 1 = a
      OBVIOUS
    <2> QED
      BY <1>1, <1>2, <2>1, <2>4, <2>5, <2>6 DEF Sent
  <1>3. CASE x \notin Sends(k)
    <2>1. StartsAt(k, a) <= StopTick => SendAt(k, a) >= x + 1
      <3>1. StartsAt(k, a) <= StopTick => x # SendAt(k, a)
        BY <1>3, Packets
      <3>2. SendAt(k, a) \in Int /\ (StartsAt(k, a) <= StopTick => SendAt(k, a) >= x)
        BY Packets DEF Sent
      <3> QED
        BY <3>1, <3>2
    <2>2. a > 0 => SendAt(k, a - 1) \in Int
      BY Packets
    <2> QED
      BY <1>3, <2>1, <2>2 DEF Sent
  <1> QED
    BY <1>2, <1>3

\* No more packets are in flight than the ring holds.
LEMMA InFlight ==
  ASSUME ScheduleOK, NEW k \in Tasks, NEW dl \in Nat, dl <= schedule.period * NetworkCapacity, NEW n \in Int,
         NEW a \in Nat, Sent(k, a, n), NEW c \in Nat, Sent(k, c, n - dl)
  PROVE  c <= a /\ a <= c + NetworkCapacity
  <1>1. /\ StopTick \in Int /\ schedule.period \in Nat /\ schedule.period >= 2
        /\ NetworkCapacity \in Nat /\ NetworkCapacity > 0
    BY StopTickAssumption, LateralAssumption DEF ScheduleOK
  <1>2. ~ (a < c)
    <2>1. ASSUME a < c PROVE FALSE
      <3>1. a <= c - 1 /\ c - 1 \in Int /\ StartsAt(k, c - 1) <= StopTick /\ SendAt(k, c - 1) < n - dl
        BY <2>1 DEF Sent
      <3>2. /\ StartsAt(k, a) <= StartsAt(k, c - 1) /\ SendAt(k, a) <= SendAt(k, c - 1)
            /\ StartsAt(k, a) \in Int /\ StartsAt(k, c - 1) \in Int
            /\ SendAt(k, a) \in Int /\ SendAt(k, c - 1) \in Int
        BY <3>1, Packets
      <3>3. SendAt(k, a) >= n
        BY <1>1, <3>1, <3>2 DEF Sent
      <3> QED
        BY <3>1, <3>2, <3>3
    <2> QED
      BY <2>1
  <1>3. CASE a = c
    BY <1>1, <1>3
  <1>4. CASE c < a
    <2> DEFINE p == schedule.period
    <2>1. c <= a - 1 /\ a - 1 \in Int /\ StartsAt(k, a - 1) <= StopTick /\ SendAt(k, a - 1) < n
      BY <1>4 DEF Sent
    <2>2. /\ StartsAt(k, c) <= StartsAt(k, a - 1) /\ StartsAt(k, c) \in Int /\ StartsAt(k, a - 1) \in Int
          /\ SendAt(k, c) \in Int /\ SendAt(k, a - 1) \in Int
      BY <2>1, Packets
    <2>3. SendAt(k, c) >= n - dl
      BY <1>1, <2>1, <2>2 DEF Sent
    <2>4. SendAt(k, a - 1) - SendAt(k, c) = (a - 1) * p - c * p
      <3> DEFINE o == schedule.offset[k]
                 r == schedule.response
                 x == (a - 1) * p
                 y == c * p
      <3>1. x \in Int /\ y \in Int /\ o \in Int /\ r \in Int
        BY <1>1, Product DEF ScheduleOK
      <3>2. SendAt(k, a - 1) = o + x + r + 1 /\ SendAt(k, c) = o + y + r + 1
        BY DEF SendAt, StartsAt
      <3> HIDE DEF o, r, x, y
      <3>3. SendAt(k, a - 1) - SendAt(k, c) = x - y
        BY <3>1, <3>2
      <3> QED
        BY <3>3 DEF x, y
    <2>5. /\ (a - 1) * p \in Int /\ c * p \in Int
          /\ p * NetworkCapacity = NetworkCapacity * p
          /\ (c + NetworkCapacity) * p = c * p + NetworkCapacity * p
          /\ NetworkCapacity * p \in Int
      BY <1>1, <2>1
    <2>6. (a - 1) * p < (c + NetworkCapacity) * p
      <3> DEFINE x == (a - 1) * p
                 y == c * p
                 z == NetworkCapacity * p
      <3>1. x \in Int /\ y \in Int /\ z \in Int /\ dl <= z /\ SendAt(k, a - 1) - SendAt(k, c) = x - y
        BY <2>4, <2>5
      <3> HIDE DEF x, y, z
      <3>2. x < y + z
        BY <2>1, <2>2, <2>3, <3>1
      <3> QED
        BY <2>5, <3>2 DEF x, y, z
    <2>7. a - 1 < c + NetworkCapacity
      BY <1>1, <2>1, <2>6, Product
    <2> QED
      BY <1>1, <1>4, <2>7
  <1> QED
    BY <1>2, <1>3, <1>4

BufferFields == {"data", "head", "tail", "count"}
IsBuffer(b) == b = [x \in BufferFields |-> b[x]] /\ b.data = [i \in 0 .. NetworkCapacity - 1 |-> b.data[i]]

\* Of the packets of task k, a are sent and c delivered before n; the others are in the ring,
\* the one of tick m as P[m].
Flying(b, held, k, dl, n, P, a, c) ==
    /\ Sent(k, a, n) /\ Sent(k, c, n - dl)
    /\ b.count = a - c /\ b.tail = a % NetworkCapacity /\ b.head = c % NetworkCapacity
    /\ \A j \in c .. a - 1 : held[j % NetworkCapacity] = P[SendAt(k, j)]
Flight(b, held, k, dl, n, P) ==
    IsBuffer(b) /\ \E a \in Nat : \E c \in Nat : Flying(b, held, k, dl, n, P, a, c)

\* An empty ring is the flight before the first packet.
LEMMA FlightFirst ==
  ASSUME ScheduleOK, NEW k \in Tasks, NEW dl \in Nat, NEW held, NEW P
  PROVE  Flight(EmptyBuffer, held, k, dl, 0, P)
  <1>1. NetworkCapacity \in Nat /\ NetworkCapacity > 0
    BY LateralAssumption
  <1>2. IsBuffer(EmptyBuffer) /\ EmptyBuffer.count = 0 /\ EmptyBuffer.tail = 0 /\ EmptyBuffer.head = 0
    BY DEF IsBuffer, EmptyBuffer, BufferFields
  <1>3. 0 % NetworkCapacity = 0
    BY <1>1, RingZero
  <1>4. SendAt(k, 0) \in Nat
    BY Packets
  <1>5. Sent(k, 0, 0) /\ Sent(k, 0, 0 - dl)
    BY <1>4 DEF Sent
  <1>6. Flying(EmptyBuffer, held, k, dl, 0, P, 0, 0)
    BY <1>2, <1>3, <1>5 DEF Flying
  <1> QED
    BY <1>2, <1>6 DEF Flight

\* In a tick the packet that is due is taken first, then the new one is put in.
Exchanged(b, held, k, dl, n, P, packet, b1, b2, held2) ==
    /\ held = [i \in 0 .. NetworkCapacity - 1 |-> held[i]]
    /\ b1 = IF n \in Deliveries(k, dl) THEN Dequeued(b) ELSE b
    /\ b2 = IF n \in Sends(k) THEN Push(b1, packet) ELSE b1
    /\ held2 = IF n \in Sends(k) THEN [held EXCEPT ![b.tail] = P[n]] ELSE held

\* The new packet always fits.
LEMMA FlightNext ==
  ASSUME ScheduleOK, NEW k \in Tasks, NEW dl \in Nat, dl >= 1, dl <= schedule.period * NetworkCapacity,
         NEW n \in Nat, NEW b, NEW held, NEW P, Flight(b, held, k, dl, n, P),
         NEW packet, NEW b1, NEW b2, NEW held2, Exchanged(b, held, k, dl, n, P, packet, b1, b2, held2)
  PROVE  /\ Flight(b2, held2, k, dl, n + 1, P)
         /\ n \in Deliveries(k, dl) => b.count # 0 /\ held[b.head] = P[n - dl]
         /\ b.head \in 0 .. NetworkCapacity - 1 /\ b.tail \in 0 .. NetworkCapacity - 1
         /\ b2.data = IF n \in Sends(k) THEN [b.data EXCEPT ![b.tail] = packet] ELSE b.data
  <1> DEFINE cap == NetworkCapacity
  <1>1. cap \in Nat /\ cap > 0 /\ StopTick \in Int
    BY LateralAssumption, StopTickAssumption
  <1>2. PICK a \in Nat, c \in Nat : Flying(b, held, k, dl, n, P, a, c)
    BY DEF Flight
  <1>3. /\ Sent(k, a, n) /\ Sent(k, c, n - dl)
        /\ b.count = a - c /\ b.tail = a % cap /\ b.head = c % cap
        /\ \A j \in c .. a - 1 : held[j % cap] = P[SendAt(k, j)]
    BY <1>2 DEF Flying
  <1>4. n - dl \in Int /\ n \in Int /\ (n - dl) + 1 = (n + 1) - dl
    OBVIOUS
  <1>5. c <= a /\ a <= c + cap
    BY <1>3, <1>4, InFlight
  <1>6. b.head \in 0 .. cap - 1 /\ b.tail \in 0 .. cap - 1
    BY <1>1, <1>3, RingPlace
  <1> DEFINE a2 == IF n \in Sends(k) THEN a + 1 ELSE a
             c2 == IF n \in Deliveries(k, dl) THEN c + 1 ELSE c
  <1>7. a2 \in Nat /\ c2 \in Nat
    OBVIOUS
  <1>8. n \in Deliveries(k, dl) <=> n - dl \in Sends(k)
    BY TickSets
  <1>9. Sent(k, a2, n + 1) /\ (n \in Sends(k) => n = SendAt(k, a))
    BY <1>3, SentStep
  <1>10. Sent(k, c2, (n + 1) - dl)
         /\ (n \in Deliveries(k, dl) => n - dl = SendAt(k, c) /\ StartsAt(k, c) <= StopTick)
    BY <1>3, <1>4, <1>8, SentStep
  <1>11. c2 <= a2 /\ a2 <= c2 + cap
    <2>1. n + 1 \in Int
      OBVIOUS
    <2> HIDE DEF a2, c2
    <2> QED
      BY <1>7, <1>9, <1>10, <2>1, InFlight
  <1>12. n \in Deliveries(k, dl) => c < a
    <2>1. ASSUME n \in Deliveries(k, dl), a = c PROVE FALSE
      <3>1. SendAt(k, a) >= n /\ SendAt(k, a) = n - dl
        BY <1>3, <1>10, <2>1 DEF Sent
      <3> QED
        BY <3>1
    <2> QED
      BY <1>5, <2>1
  <1>13. n \in Deliveries(k, dl) => b.count # 0 /\ held[b.head] = P[n - dl]
    <2>1. ASSUME n \in Deliveries(k, dl) PROVE b.count # 0 /\ held[b.head] = P[n - dl]
      <3>1. c \in c .. a - 1 /\ a - c # 0
        BY <1>12, <2>1
      <3> QED
        BY <1>3, <1>10, <2>1, <3>1
    <2> QED
      BY <2>1
  <1>14. IsBuffer(b)
    BY DEF Flight
  <1>15. /\ IsBuffer(b1) /\ b1.count = a - c2 /\ b1.tail = a % cap /\ b1.head = c2 % cap
         /\ b1.data = b.data
    <2>1. CASE n \in Deliveries(k, dl)
      <3>1. b1 = [b EXCEPT !.head = (b.head + 1) % cap, !.count = b.count - 1]
        BY <1>13, <2>1 DEF Dequeued, Exchanged
      <3>2. (b.head + 1) % cap = (c + 1) % cap /\ b.count - 1 = a - (c + 1)
        BY <1>1, <1>3, RingPlace
      <3> DEFINE h == (b.head + 1) % cap
                 m == b.count - 1
      <3>3. b1 = [b EXCEPT !.head = h, !.count = m]
        BY <3>1
      <3> HIDE DEF h, m
      <3>4. /\ IsBuffer(b1) /\ b1.count = m /\ b1.tail = b.tail /\ b1.head = h /\ b1.data = b.data
        BY <1>14, <3>3 DEF IsBuffer, BufferFields
      <3> QED
        BY <1>3, <2>1, <3>2, <3>4 DEF h, m
    <2>2. CASE n \notin Deliveries(k, dl)
      BY <1>3, <1>14, <2>2 DEF Exchanged
    <2> QED
      BY <2>1, <2>2
  <1>16. n \in Sends(k) => a < c2 + cap
    BY <1>1, <1>7, <1>11
  <1>17. /\ IsBuffer(b2) /\ b2.count = a2 - c2 /\ b2.tail = a2 % cap /\ b2.head = c2 % cap
         /\ b2.data = IF n \in Sends(k) THEN [b.data EXCEPT ![b.tail] = packet] ELSE b.data
    <2>1. CASE n \in Sends(k)
      <3>1. ~ (b1.count >= cap)
        <4> HIDE DEF c2
        <4> QED
          BY <1>1, <1>7, <1>15, <1>16, <2>1
      <3> DEFINE h == (b1.tail + 1) % cap
                 m == b1.count + 1
                 d == [b1.data EXCEPT ![b1.tail] = packet]
      <3>2. b2 = [b1 EXCEPT !.data = d, !.tail = h, !.count = m]
        <4>1. b2 = Push(b1, packet)
          BY <2>1 DEF Exchanged
        <4>2. Push(b1, packet) = [b1 EXCEPT !.data[b1.tail] = packet, !.tail = (b1.tail + 1) % cap,
                                            !.count = b1.count + 1]
          BY <1>15, <3>1 DEF Push, IsBuffer, BufferFields
        <4> QED
          BY <4>1, <4>2
      <3>3. h = (a + 1) % cap /\ m = (a + 1) - c2
        <4>1. h = (a + 1) % cap
          BY <1>1, <1>15, RingPlace
        <4>2. m = (a - c2) + 1
          BY <1>15
        <4> HIDE DEF c2, m
        <4>3. m = (a + 1) - c2
          BY <1>7, <4>2
        <4> QED
          BY <4>1, <4>3
      <3>4. d = [i \in 0 .. cap - 1 |-> d[i]] /\ d = [b.data EXCEPT ![b.tail] = packet]
        BY <1>3, <1>14, <1>15 DEF IsBuffer
      <3> HIDE DEF h, m, d
      <3>5. IsBuffer(b2) /\ b2.count = m /\ b2.tail = h /\ b2.head = b1.head /\ b2.data = d
        BY <1>15, <3>2, <3>4 DEF IsBuffer, BufferFields
      <3> QED
        BY <1>15, <2>1, <3>3, <3>4, <3>5
    <2>2. CASE n \notin Sends(k)
      <3>1. b2 = b1 /\ a2 = a
        BY <2>2 DEF Exchanged
      <3> HIDE DEF a2, c2
      <3> QED
        BY <1>15, <2>2, <3>1
    <2> QED
      BY <2>1, <2>2
  <1>18. ASSUME NEW j \in c2 .. a2 - 1 PROVE held2[j % cap] = P[SendAt(k, j)]
    <2>1. j \in Nat /\ c <= c2 /\ c2 <= j /\ j < a2
      BY <1>7
    <2>2. CASE n \in Sends(k) /\ j = a
      <3>1. j % cap = b.tail /\ held2 = [held EXCEPT ![b.tail] = P[n]]
        BY <1>3, <2>2 DEF Exchanged
      <3>1a. held = [i \in 0 .. cap - 1 |-> held[i]]
        BY DEF Exchanged
      <3> QED
        BY <3>1a, <1>6, <1>9, <2>2, <3>1
    <2>3. CASE ~ (n \in Sends(k) /\ j = a)
      <3>1. j < a /\ j \in c .. a - 1
        BY <2>1, <2>3
      <3>2. held[j % cap] = P[SendAt(k, j)]
        BY <1>3, <3>1
      <3>3. n \in Sends(k) => j % cap # b.tail
        <4>1. ASSUME n \in Sends(k) PROVE j % cap # a % cap
          <5>1. a < j + cap
            BY <1>1, <1>7, <1>16, <2>1, <4>1
          <5> QED
            BY <1>1, <2>1, <3>1, <5>1, RingApart
        <4> QED
          BY <1>3, <4>1
      <3>4. j % cap \in 0 .. cap - 1
        BY <1>1, <2>1, RingPlace
      <3>5. held2 = IF n \in Sends(k) THEN [held EXCEPT ![b.tail] = P[n]] ELSE held
        BY DEF Exchanged
      <3>6. held = [i \in 0 .. cap - 1 |-> held[i]]
        BY DEF Exchanged
      <3> QED
        BY <3>2, <3>3, <3>4, <3>5, <3>6
    <2> QED
      BY <2>2, <2>3
  <1>19. Flying(b2, held2, k, dl, n + 1, P, a2, c2)
    <2> HIDE DEF a2, c2
    <2> QED
      BY <1>9, <1>10, <1>17, <1>18 DEF Flying
  <1>20. Flight(b2, held2, k, dl, n + 1, P)
    <2> HIDE DEF a2, c2
    <2> QED
      BY <1>7, <1>17, <1>19 DEF Flight
  <1> QED
    BY <1>6, <1>13, <1>17, <1>20

-----------------------------------------------------------------------------
(* The sampling windows of the metrics. *)

\* The running sums of Total.
Item(costs, t) == IF t \in DOMAIN costs THEN costs[t] ELSE 0
Sums(costs, f) == f[0] = 0 /\ \A n \in 1 .. StopTick + 1 : f[n] = f[n - 1] + Item(costs, n - 1)
Summable(costs) == \A t \in 0 .. StopTick : Item(costs, t) \in Int

\* Total adds the costs tick by tick.
LEMMA TotalSums ==
  ASSUME NEW costs, Summable(costs)
  PROVE  \E f \in [0 .. StopTick + 1 -> Int] : Sums(costs, f) /\ Total(costs) = f[StopTick + 1]
  <1> DEFINE N == StopTick + 1
             Next(h) == [n \in 0 .. N |->
                            IF n = 0 THEN 0 ELSE h[n - 1] + (IF n - 1 \in DOMAIN costs THEN costs[n - 1] ELSE 0)]
             step == [n \in 1 .. N |-> [v \in Int |-> v + Item(costs, n - 1)]]
  <1>1. N \in Nat /\ \A n \in 1 .. N : n - 1 \in 0 .. StopTick
    BY StopTickAssumption
  <1>2. Total(costs) = (CHOOSE h : h = Next(h))[N]
    BY DEF Total
  <1> HIDE DEF N
  <1>3. step \in [1 .. N -> [Int -> Int]]
    BY <1>1 DEF Summable
  <1>4. PICK g \in [0 .. N -> Int] : Steps(g, 0, step, N)
    <2> DEFINE zero == 0
    <2>1. zero \in Int
      OBVIOUS
    <2> HIDE DEF zero, step
    <2>2. \E g \in [0 .. N -> Int] : Steps(g, zero, step, N)
      BY <1>1, <1>3, <2>1, Built
    <2> QED
      BY <2>2 DEF zero
  <1>5. g[0] = 0 /\ \A n \in 1 .. N : g[n - 1] \in Int /\ g[n] = g[n - 1] + Item(costs, n - 1)
    <2>1. ASSUME NEW n \in 1 .. N PROVE g[n - 1] \in Int /\ g[n] = g[n - 1] + Item(costs, n - 1)
      <3>1. n - 1 \in 0 .. N
        BY <1>1
      <3>2. g[n - 1] \in Int /\ g[n] = step[n][g[n - 1]]
        BY <1>4, <3>1 DEF Steps
      <3> QED
        BY <3>2
    <2> QED
      BY <1>4, <2>1 DEF Steps
  <1> HIDE DEF step
  <1>6. g = Next(g)
    <2>1. ASSUME NEW n \in 0 .. N PROVE g[n] = Next(g)[n]
      <3>1. CASE n = 0
        BY <1>5, <3>1
      <3>2. CASE n # 0
        <4>1. n \in 1 .. N
          BY <1>1, <3>2
        <4> QED
          BY <1>5, <3>2, <4>1 DEF Item
      <3> QED
        BY <3>1, <3>2
    <2>2. g = [n \in 0 .. N |-> g[n]] /\ Next(g) = [n \in 0 .. N |-> Next(g)[n]]
      BY <1>4
    <2> HIDE DEF Next
    <2> QED
      BY <2>1, <2>2
  <1> DEFINE sum == CHOOSE h : h = Next(h)
  <1>7. sum = Next(sum)
    <2> HIDE DEF Next
    <2> QED
      BY <1>6
  <1> HIDE DEF sum
  <1>8. sum[0] = 0 /\ \A n \in 1 .. N : sum[n] = sum[n - 1] + Item(costs, n - 1)
    <2>1. sum[0] = 0
      <3>1. 0 \in 0 .. N
        BY <1>1
      <3> QED
        BY <1>7, <3>1
    <2>2. ASSUME NEW n \in 1 .. N PROVE sum[n] = sum[n - 1] + Item(costs, n - 1)
      <3>1. n \in 0 .. N /\ n # 0
        BY <1>1
      <3> QED
        BY <1>7, <3>1 DEF Item
    <2> QED
      BY <2>1, <2>2
  <1> HIDE DEF Next
  <1> DEFINE S == {n \in 0 .. N : sum[n] = g[n]}
  <1>9. 0 \in S
    BY <1>1, <1>5, <1>8
  <1>10. ASSUME NEW n \in 1 .. N, n - 1 \in S PROVE n \in S
    <2>1. n \in 0 .. N /\ sum[n - 1] = g[n - 1]
      BY <1>1, <1>10
    <2> QED
      BY <1>5, <1>8, <2>1
  <1>11. N \in S
    <2>1. N \in 0 .. N
      BY <1>1
    <2> HIDE DEF S
    <2> QED
      BY <1>1, <1>9, <1>10, <2>1, Counting
  <1>12. Total(costs) = g[N]
    BY <1>2, <1>11 DEF sum
  <1>13. Sums(costs, g)
    BY <1>5 DEF Sums, N
  <1> QED
    BY <1>4, <1>12, <1>13 DEF N

\* Costs that differ in one tick have totals that differ by as much.
LEMMA TotalChanged ==
  ASSUME NEW a, NEW b, Summable(a), Summable(b), NEW x \in 0 .. StopTick,
         \A t \in 0 .. StopTick : t # x => Item(a, t) = Item(b, t)
  PROVE  Total(a) \in Int /\ Total(b) = Total(a) + Item(b, x) - Item(a, x)
  <1> DEFINE N == StopTick + 1
  <1>1. N \in Nat /\ x \in 0 .. N - 1 /\ \A n \in 1 .. N : n - 1 \in 0 .. StopTick
    BY StopTickAssumption
  <1>2. PICK f \in [0 .. N -> Int] : Sums(a, f) /\ Total(a) = f[N]
    BY TotalSums
  <1>3. PICK g \in [0 .. N -> Int] : Sums(b, g) /\ Total(b) = g[N]
    BY TotalSums
  <1>4. Item(a, x) \in Int /\ Item(b, x) \in Int
    BY DEF Summable
  <1> DEFINE d == Item(b, x) - Item(a, x)
             S == {n \in 0 .. N : g[n] = IF n > x THEN f[n] + d ELSE f[n]}
  <1>5. /\ f[0] = 0 /\ g[0] = 0
        /\ \A n \in 1 .. N : f[n] = f[n - 1] + Item(a, n - 1) /\ g[n] = g[n - 1] + Item(b, n - 1)
    BY <1>2, <1>3 DEF Sums
  <1> HIDE DEF N
  <1>6. 0 \in S
    BY <1>1, <1>5
  <1>7. ASSUME NEW n \in 1 .. N, n - 1 \in S PROVE n \in S
    <2>1. n - 1 \in 0 .. StopTick /\ n \in 0 .. N /\ n - 1 \in 0 .. N
      BY <1>1
    <2> DEFINE y == n - 1
               A == Item(a, y)
               B == Item(b, y)
    <2>2. A \in Int /\ B \in Int /\ (y # x => A = B)
      BY <2>1 DEF Summable
    <2>3. f[n] = f[y] + A /\ g[n] = g[y] + B /\ f[y] \in Int /\ g[y] \in Int
      BY <1>2, <1>3, <1>5, <2>1
    <2>4. g[y] = IF y > x THEN f[y] + d ELSE f[y]
      BY <1>7
    <2>5. y = x => d = B - A
      OBVIOUS
    <2>6. d \in Int
      BY <1>4
    <2>7. n \in Int /\ y \in Int /\ n = y + 1 /\ x \in Int
      OBVIOUS
    <2> HIDE DEF A, B, d, y
    <2>8. g[n] = IF n > x THEN f[n] + d ELSE f[n]
      <3>1. CASE y = x
        BY <2>2, <2>3, <2>4, <2>5, <2>6, <2>7, <3>1
      <3>2. CASE y > x
        BY <2>2, <2>3, <2>4, <2>6, <2>7, <3>2
      <3>3. CASE y < x
        BY <2>2, <2>3, <2>4, <2>6, <2>7, <3>3
      <3> QED
        BY <2>7, <3>1, <3>2, <3>3
    <2> QED
      BY <2>1, <2>8
  <1>8. N \in S
    <2>1. N \in 0 .. N
      BY <1>1
    <2> HIDE DEF S
    <2> QED
      BY <1>1, <1>6, <1>7, <2>1, Counting
  <1>9. g[N] = f[N] + d /\ f[N] \in Int
    BY <1>1, <1>2, <1>8
  <1> QED
    BY <1>2, <1>3, <1>4, <1>9

\* How many ticks of S are before t.
Rank(S, t) == Cardinality({u \in S : u < t})

\* The ranks of a finite set number its members.
LEMMA Ranks ==
  ASSUME NEW S, IsFiniteSet(S), S \subseteq Int
  PROVE  /\ Cardinality(S) \in Nat
         /\ \A t \in S : Rank(S, t) \in 0 .. Cardinality(S) - 1
         /\ \A t \in S : Cardinality({u \in S : u > t}) = Cardinality(S) - 1 - Rank(S, t)
         /\ \A t, u \in S : Rank(S, t) = Rank(S, u) => t = u
         /\ \A k \in 0 .. Cardinality(S) - 1 : \E t \in S : Rank(S, t) = k
  <1> DEFINE c == Cardinality(S)
             key == [t \in S |-> t]
             place == [t \in S |-> 1 + Rank(S, t)]
  <1>1. c \in Nat
    BY FS_CardinalityType
  <1>2. ASSUME NEW t \in S
        PROVE  /\ Rank(S, t) \in Nat
               /\ Cardinality({u \in S : u > t}) = c - 1 - Rank(S, t)
    <2> DEFINE below == {u \in S : u < t}
               upto == below \cup {t}
    <2>1. below \in SUBSET S /\ t \notin below
      OBVIOUS
    <2>2. {u \in S : u > t} = S \ upto /\ S \cap upto = upto
      <3>1. \A u \in S : u > t <=> ~ (u < t \/ u = t)
        OBVIOUS
      <3> QED
        BY <3>1
    <2>3. Rank(S, t) = Cardinality(below)
      BY DEF Rank
    <2> HIDE DEF below
    <2>4. IsFiniteSet(below)
      BY <2>1, FS_Subset
    <2>5. Cardinality(below) \in Nat /\ Cardinality(upto) = Cardinality(below) + 1
      BY <2>1, <2>4, FS_CardinalityType, FS_AddElement
    <2> HIDE DEF upto
    <2>6. Cardinality(S \ upto) = c - Cardinality(S \cap upto)
      BY FS_Difference
    <2>7. Cardinality(S \ upto) = c - (Cardinality(below) + 1)
      BY <2>2, <2>5, <2>6
    <2> HIDE DEF c
    <2> QED
      BY <1>1, <2>2, <2>3, <2>5, <2>7
  <1>3. Ranked(S, key, place)
    <2>1. key \in [S -> Int] /\ \A x, y \in S : key[x] = key[y] => x = y
      OBVIOUS
    <2>2. place \in [S -> Int]
      <3>1. \A t \in S : Rank(S, t) \in Nat
        BY <1>2, Zenon
      <3> QED
        BY <3>1
    <2>3. ASSUME NEW x \in S PROVE place[x] = 1 + Cardinality({y \in S : key[y] < key[x]})
      <3>1. {y \in S : key[y] < key[x]} = {y \in S : y < x}
        OBVIOUS
      <3> QED
        BY <3>1 DEF Rank
    <2> HIDE DEF key, place
    <2> QED
      BY <2>1, <2>2, <2>3 DEF Ranked
  <1>4. /\ \A x \in S : place[x] \in 1 .. c
        /\ \A x, y \in S : place[x] = place[y] => x = y
        /\ \A i \in 1 .. c : \E x \in S : place[x] = i
    <2> HIDE DEF key, place, c
    <2>1. /\ \A x \in S : place[x] \in 1 .. Cardinality(S)
          /\ \A x, y \in S : place[x] = place[y] => x = y
          /\ \A i \in 1 .. Cardinality(S) : \E x \in S : place[x] = i
      BY ONLY <1>3, Places
    <2> QED
      BY <2>1, Zenon DEF c
  <1>5. \A x \in S : place[x] = 1 + Rank(S, x)
    OBVIOUS
  <1> HIDE DEF place, c
  <1>6. ASSUME NEW t \in S PROVE Rank(S, t) \in 0 .. c - 1
    <2>1. place[t] \in 1 .. c /\ place[t] = 1 + Rank(S, t) /\ Rank(S, t) \in Nat
      BY <1>2, <1>4, <1>5
    <2> QED
      BY <1>1, <2>1
  <1>7. ASSUME NEW k \in 0 .. c - 1 PROVE \E t \in S : Rank(S, t) = k
    <2>1. k + 1 \in 1 .. c
      BY <1>1
    <2>2. PICK t \in S : place[t] = k + 1
      BY <1>4, <2>1
    <2>3. Rank(S, t) = k
      <3>1. place[t] = 1 + Rank(S, t) /\ Rank(S, t) \in Nat
        BY <1>2, <1>5
      <3> QED
        BY <2>2, <3>1
    <2> QED
      BY <2>3
  <1>8. \A t, u \in S : Rank(S, t) = Rank(S, u) => t = u
    BY <1>4, <1>5
  <1> QED
    BY <1>1, <1>2, <1>6, <1>7, <1>8 DEF c

MetricFields == {"window", "head", "count", "rolling", "samples", "total", "critical", "violated", "violations"}
IsMetrics(m) == m = [x \in MetricFields |-> m[x]] /\ m.window = [i \in 0 .. WindowSize - 1 |-> m.window[i]]

\* The window holds the costs of the last samples of S, at the place of their rank.
Windowed(m, S, cost) ==
    /\ IsMetrics(m)
    /\ m.head = Cardinality(S) % WindowSize
    /\ m.count = IF Cardinality(S) < WindowSize THEN Cardinality(S) ELSE WindowSize
    /\ \A t \in S : Rank(S, t) >= Cardinality(S) - WindowSize => m.window[Rank(S, t) % WindowSize] = cost[t]
    /\ m.rolling = Total([t \in Window(S) |-> cost[t]])

\* The ticks a new sample n pushes out of the window of S are those at the end of it.
WindowMoves(S, n) ==
    /\ Window(S) = {t \in S : Rank(S, t) >= Cardinality(S) - WindowSize}
    /\ IsFiniteSet(S \cup {n}) /\ Cardinality(S \cup {n}) = Cardinality(S) + 1
    /\ \A t \in S : Rank(S \cup {n}, t) = Rank(S, t)
    /\ Rank(S \cup {n}, n) = Cardinality(S)
    /\ Window(S \cup {n}) = {t \in Window(S) : Rank(S, t) # Cardinality(S) - WindowSize} \cup {n}

\* A later member joins the newest of a set and displaces the oldest of them.
LEMMA WindowNext ==
  ASSUME NEW S, IsFiniteSet(S), S \subseteq Int, NEW n \in Int, \A t \in S : t < n
  PROVE  WindowMoves(S, n)
  <1> DEFINE c == Cardinality(S)
             R == S \cup {n}
             W == WindowSize
  <1>0. W \in Nat /\ W > 0
    BY LateralAssumption
  <1>1. n \notin S
    OBVIOUS
  <1>2. IsFiniteSet(R) /\ Cardinality(R) = c + 1 /\ c \in Nat
    BY <1>1, FS_AddElement, FS_CardinalityType
  <1>3. ASSUME NEW t \in S PROVE Rank(R, t) = Rank(S, t)
    <2>1. {u \in R : u < t} = {u \in S : u < t}
      <3>1. ~ (n < t)
        OBVIOUS
      <3> QED
        BY <3>1
    <2> QED
      BY <2>1 DEF Rank
  <1>4. Rank(R, n) = c
    <2>1. {u \in R : u < n} = S
      <3>1. ~ (n < n) /\ \A u \in S : u < n
        OBVIOUS
      <3> QED
        BY <3>1, Zenon
    <2> QED
      BY <2>1 DEF Rank
  <1>5. /\ \A t \in S : Rank(S, t) \in 0 .. c - 1 /\ Cardinality({u \in S : u > t}) = c - 1 - Rank(S, t)
    BY Ranks
  <1>6. \A t \in R : Cardinality({u \in R : u > t}) = (c + 1) - 1 - Rank(R, t)
    <2>1. R \subseteq Int
      OBVIOUS
    <2> HIDE DEF R
    <2> QED
      BY <1>2, <2>1, Ranks
  <1>7. Window(S) = {t \in S : Cardinality({u \in S : u > t}) < W}
        /\ Window(R) = {t \in R : Cardinality({u \in R : u > t}) < W}
    BY DEF Window
  <1> HIDE DEF c, W
  <1>8. Window(S) = {t \in S : Rank(S, t) >= c - W}
    <2>1. ASSUME NEW t \in S PROVE Cardinality({u \in S : u > t}) < W <=> Rank(S, t) >= c - W
      BY <1>0, <1>2, <1>5
    <2> QED
      BY <1>7, <2>1
  <1>9. Window(R) = {t \in Window(S) : Rank(S, t) # c - W} \cup {n}
    <2>1. ASSUME NEW t \in S PROVE t \in Window(R) <=> t \in Window(S) /\ Rank(S, t) # c - W
      <3>1. Cardinality({u \in R : u > t}) = c - Rank(S, t) /\ t \in R
        BY <1>2, <1>3, <1>5, <1>6
      <3>2. Rank(S, t) \in 0 .. c - 1
        BY <1>5
      <3> HIDE DEF R
      <3>3. t \in Window(R) <=> c - Rank(S, t) < W
        BY <1>7, <3>1
      <3>4. t \in Window(S) <=> Rank(S, t) >= c - W
        BY <1>8
      <3> QED
        BY <1>0, <1>2, <3>2, <3>3, <3>4
    <2>2. n \in Window(R)
      <3>1. Cardinality({u \in R : u > n}) = 0 /\ n \in R
        BY <1>2, <1>4, <1>6
      <3> HIDE DEF R
      <3> QED
        BY <1>0, <1>7, <3>1
    <2>3. Window(R) \subseteq R /\ Window(S) \subseteq S
      <3> HIDE DEF R
      <3> QED
        BY <1>7
    <2> QED
      BY <1>1, <2>1, <2>2, <2>3
  <1> QED
    BY <1>2, <1>3, <1>4, <1>8, <1>9 DEF c, W, WindowMoves

\* Cleared metrics are those of no samples.
LEMMA WindowedFirst ==
  ASSUME NEW cost PROVE Windowed(NoMetrics, {}, cost)
  <1>0. WindowSize \in Nat /\ WindowSize > 0
    BY LateralAssumption
  <1>1. Cardinality({}) = 0
    BY FS_EmptySet
  <1>2. IsMetrics(NoMetrics)
    BY DEF IsMetrics, NoMetrics, MetricFields
  <1>3. 0 % WindowSize = 0
    BY <1>0, RingZero
  <1> DEFINE none == [t \in Window({}) |-> cost[t]]
  <1>4. DOMAIN none = {}
    BY DEF Window
  <1>5. Total(none) = 0
    <2> DEFINE N == StopTick + 1
    <2>0. N \in Nat
      BY StopTickAssumption
    <2>1. \A t : Item(none, t) = 0
      BY <1>4 DEF Item
    <2> HIDE DEF none
    <2>2. Summable(none)
      BY <2>1 DEF Summable
    <2>3. PICK f \in [0 .. N -> Int] : Sums(none, f) /\ Total(none) = f[N]
      BY <2>2, TotalSums
    <2> DEFINE Z == {n \in 0 .. N : f[n] = 0}
    <2>4. 0 \in Z /\ \A n \in 1 .. N : n - 1 \in Z => n \in Z
      <3>1. f[0] = 0 /\ \A n \in 1 .. N : f[n] = f[n - 1] + 0
        BY <2>1, <2>3 DEF Sums
      <3> HIDE DEF N
      <3> QED
        BY <2>0, <3>1
    <2>5. N \in Z
      <3>1. N \in 0 .. N
        BY <2>0
      <3> HIDE DEF Z, N
      <3> QED
        BY <2>0, <2>4, <3>1, Counting
    <2> QED
      BY <2>3, <2>5
  <1> HIDE DEF none
  <1>6. NoMetrics.head = 0 /\ NoMetrics.count = 0 /\ NoMetrics.rolling = 0
    BY DEF NoMetrics
  <1> QED
    BY <1>0, <1>1, <1>2, <1>3, <1>5, <1>6 DEF Windowed, none

\* A round back is the same place in a ring.
LEMMA RingBack ==
  ASSUME NEW cap \in Nat, cap > 0, NEW c \in Nat, c >= cap
  PROVE  (c - cap) % cap = c % cap
  <1> DEFINE r == c % cap
  <1>1. PICK q \in Int : c = q * cap + r /\ r \in 0 .. cap - 1
    BY Division
  <1> HIDE DEF r
  <1>2. q >= 1
    <2>1. ASSUME q <= 0 PROVE FALSE
      <3>1. q * cap <= 0 * cap /\ q * cap \in Int /\ 0 * cap = 0
        BY <2>1, Product
      <3> QED
        BY <1>1, <3>1
    <2> QED
      BY <2>1
  <1> DEFINE s == q - 1
             x == c - cap
  <1>3. s \in Nat /\ q = s + 1
    BY <1>2
  <1> HIDE DEF s
  <1>4. (s + 1) * cap = s * cap + cap /\ s * cap \in Int
    BY <1>3, Product
  <1>5. x = s * cap + r
    BY <1>1, <1>3, <1>4
  <1> HIDE DEF x
  <1>6. x % cap = r
    BY <1>1, <1>3, <1>5, Remainder
  <1> QED
    BY <1>6 DEF x, r

\* A new sample goes where the one that leaves the window was.
LEMMA WindowedNext ==
  ASSUME NEW S, S \subseteq 0 .. StopTick, NEW n \in 0 .. StopTick, \A t \in S : t < n,
         NEW cost \in [0 .. StopTick -> Int], NEW m, Windowed(m, S, cost)
  PROVE  Windowed(WindowMoved(m, cost[n]), S \cup {n}, cost)
  <1> DEFINE c == Cardinality(S)
             W == WindowSize
             R == S \cup {n}
             new == cost[n]
             gone == IF m.count = W THEN m.window[m.head] ELSE 0
             d == [m.window EXCEPT ![m.head] = new]
             total == m.rolling + new - gone
             count == IF m.count < W THEN m.count + 1 ELSE m.count
             head == (m.head + 1) % W
             m2 == WindowMoved(m, new)
  <1>0. W \in Nat /\ W > 0 /\ StopTick \in Int
    BY LateralAssumption, StopTickAssumption
  <1>1. IsFiniteSet(S) /\ S \subseteq Int /\ n \in Int
    <2>1. IsFiniteSet(0 .. StopTick)
      BY <1>0, FS_Interval
    <2>2. S \in SUBSET (0 .. StopTick)
      OBVIOUS
    <2>3. IsFiniteSet(S)
      BY <2>1, <2>2, FS_Subset
    <2> QED
      BY <1>0, <2>2, <2>3
  <1>2. c \in Nat
    BY <1>1, FS_CardinalityType
  <1>3. /\ Window(S) = {t \in S : Rank(S, t) >= c - W}
        /\ IsFiniteSet(R) /\ Cardinality(R) = c + 1
        /\ \A t \in S : Rank(R, t) = Rank(S, t)
        /\ Rank(R, n) = c
        /\ Window(R) = {t \in Window(S) : Rank(S, t) # c - W} \cup {n}
    <2>1. \A t \in S : t < n
      OBVIOUS
    <2>2. WindowMoves(S, n)
      BY <1>1, <2>1, WindowNext
    <2> QED
      BY <2>2, Zenon DEF WindowMoves
  <1>4. /\ \A t \in S : Rank(S, t) \in 0 .. c - 1
        /\ \A t, u \in S : Rank(S, t) = Rank(S, u) => t = u
        /\ \A k \in 0 .. c - 1 : \E t \in S : Rank(S, t) = k
    BY <1>1, Ranks
  <1>5. /\ IsMetrics(m) /\ m.head = c % W /\ m.count = (IF c < W THEN c ELSE W)
        /\ \A t \in S : Rank(S, t) >= c - W => m.window[Rank(S, t) % W] = cost[t]
        /\ m.rolling = Total([t \in Window(S) |-> cost[t]])
    BY DEF Windowed
  <1> HIDE DEF R
  <1>6. m2 = [m EXCEPT !.window = d, !.rolling = total, !.count = count, !.head = head]
    <2>1. m2 = [m EXCEPT !.window[m.head] = new, !.rolling = total, !.count = count, !.head = head]
      BY <1>5 DEF WindowMoved, IsMetrics, MetricFields
    <2> HIDE DEF total, count, head, m2, new
    <2> QED
      BY <2>1
  <1>7. head = (c + 1) % W /\ m.head \in 0 .. W - 1
    BY <1>0, <1>2, <1>5, RingPlace
  <1>8. count = IF c + 1 < W THEN c + 1 ELSE W
    BY <1>0, <1>2, <1>5
  <1>9. d = [i \in 0 .. W - 1 |-> d[i]]
    BY <1>5 DEF IsMetrics
  <1>10. /\ IsMetrics(m2) /\ m2.window = d /\ m2.rolling = total /\ m2.count = count /\ m2.head = head
    <2> HIDE DEF d, total, count, head, m2
    <2> QED
      BY <1>5, <1>6, <1>9 DEF IsMetrics, MetricFields
  <1>11. ASSUME NEW t \in R, Rank(R, t) >= (c + 1) - W PROVE d[Rank(R, t) % W] = cost[t]
    <2>1. CASE t = n
      BY <1>3, <1>5, <1>7, <2>1 DEF IsMetrics
    <2>2. CASE t # n
      <3> DEFINE k == Rank(S, t)
      <3>1. t \in S /\ Rank(R, t) = k /\ k \in 0 .. c - 1
        BY <1>3, <1>4, <2>2 DEF R
      <3> HIDE DEF k
      <3>2. k \in Nat /\ k < c /\ c < k + W /\ k >= c - W
        BY <1>0, <1>2, <1>11, <3>1
      <3>3. k % W # c % W
        BY <1>0, <1>2, <3>2, RingApart
      <3>4. k % W \in 0 .. W - 1
        BY <1>0, <3>2, RingPlace
      <3>5. m.window[k % W] = cost[t]
        BY <1>5, <3>1, <3>2 DEF k
      <3> QED
        BY <1>5, <3>1, <3>3, <3>4, <3>5 DEF IsMetrics
    <2> QED
      BY <2>1, <2>2
  <1> DEFINE a == [t \in Window(S) |-> cost[t]]
             b == [t \in Window(R) |-> cost[t]]
             z == [t \in Window(S) \cup {n} |-> cost[t]]
  <1>12. Window(S) \subseteq 0 .. StopTick /\ n \notin Window(S)
    <2>1. Window(S) \subseteq S
      BY <1>3, Zenon
    <2>2. n \notin S
      BY <1>1
    <2> QED
      BY <2>1, <2>2
  <1>13. Summable(a) /\ Summable(b) /\ Summable(z)
    BY <1>3, <1>12 DEF Summable, Item
  <1>14. Total(a) \in Int /\ Total(z) = Total(a) + new
    <2>1. Item(a, n) = 0 /\ Item(z, n) = new /\ new \in Int
      BY <1>12 DEF Item
    <2>2. \A t \in 0 .. StopTick : t # n => Item(a, t) = Item(z, t)
      BY DEF Item
    <2> HIDE DEF a, z
    <2>3. Total(a) \in Int /\ Total(z) = Total(a) + Item(z, n) - Item(a, n)
      BY <1>13, <2>2, TotalChanged
    <2> QED
      BY <2>1, <2>3
  <1>15. Total(b) = total
    <2>1. CASE c < W
      <3>1. \A t \in Window(S) : Rank(S, t) # c - W
        <4>1. ASSUME NEW k \in 0 .. c - 1 PROVE k # c - W
          BY <1>0, <1>2, <2>1
        <4>2. Window(S) \subseteq S
          BY <1>3, Zenon
        <4> QED
          BY <1>4, <4>1, <4>2, Zenon
      <3>2. Window(R) = Window(S) \cup {n}
        BY <1>3, <3>1
      <3>3. gone = 0
        BY <1>0, <1>2, <1>5, <2>1
      <3>4. b = z
        BY <3>2
      <3>5. Total(b) = m.rolling + new
        BY <1>5, <1>14, <3>4
      <3>6. new \in Int /\ m.rolling \in Int
        BY <1>5, <1>14
      <3> HIDE DEF b, new
      <3> QED
        BY <3>3, <3>5, <3>6
    <2>2. CASE c >= W
      <3>1. PICK x \in S : Rank(S, x) = c - W
        BY <1>0, <1>2, <1>4, <2>2
      <3>2. x \in Window(S) /\ x # n
        BY <1>0, <1>2, <1>3, <3>1
      <3>3. Window(R) = (Window(S) \cup {n}) \ {x}
        <4>1. \A t \in Window(S) : Rank(S, t) # c - W <=> t # x
          BY <1>3, <1>4, <3>1
        <4> QED
          BY <1>3, <3>2, <4>1
      <3>4. Item(z, x) = cost[x] /\ Item(b, x) = 0 /\ cost[x] \in Int
        BY <3>2, <3>3 DEF Item
      <3>5. \A t \in 0 .. StopTick : t # x => Item(z, t) = Item(b, t)
        BY <3>3 DEF Item
      <3>6. gone = cost[x]
        <4>1. (c - W) % W = c % W
          BY <1>0, <1>2, <2>2, RingBack
        <4>2. m.window[(c - W) % W] = cost[x]
          <5>1. c - W >= c - W
            BY <1>0, <1>2
          <5> QED
            BY <1>5, <3>1, <5>1
        <4>3. m.count = W
          BY <1>0, <1>2, <1>5, <2>2
        <4> QED
          BY <1>5, <4>1, <4>2, <4>3
      <3>7. x \in 0 .. StopTick
        OBVIOUS
      <3> HIDE DEF z, b
      <3>8. Total(b) = Total(z) + Item(b, x) - Item(z, x)
        BY <1>13, <3>5, <3>7, TotalChanged
      <3>9. new \in Int /\ m.rolling \in Int /\ Total(z) = m.rolling + new
        BY <1>5, <1>14
      <3> HIDE DEF new, gone
      <3> QED
        BY <3>4, <3>6, <3>8, <3>9
    <2> QED
      BY <1>0, <1>2, <2>1, <2>2
  <1> HIDE DEF m2, d, total, count, head, b, c
  <1>16. Windowed(m2, R, cost)
    <2>1. b = [t \in Window(R) |-> cost[t]]
      BY DEF b
    <2> QED
      BY <1>3, <1>7, <1>8, <1>10, <1>11, <1>15, <2>1 DEF Windowed
  <1> QED
    BY <1>16 DEF m2, R

\* Measured moves the window, counts violations and checks the curve.
SampleTaken(m, m2, S, n, cost, stamp, reference) ==
    /\ Windowed(m2, S \cup {n}, cost)
    /\ m2.violations = m.violations + (IF OverThreshold(stamp) THEN 1 ELSE 0)
    /\ m2.critical = InCurve(reference)

\* Measuring once more adds one sample to the window, the totals and the counts.
LEMMA MeasuredNext ==
  ASSUME NEW S, S \subseteq 0 .. StopTick, NEW n \in 0 .. StopTick, \A t \in S : t < n,
         NEW cost \in [0 .. StopTick -> Int], NEW m, Windowed(m, S, cost),
         NEW stamp, NEW reference, Cost(stamp) = cost[n]
  PROVE  SampleTaken(m, Measured(m, stamp, reference), S, n, cost, stamp, reference)
  <1> DEFINE w == WindowMoved(m, cost[n])
             m2 == Measured(m, stamp, reference)
  <1>1. Windowed(w, S \cup {n}, cost)
    BY WindowedNext
  <1>2. IsMetrics(w)
    BY <1>1 DEF Windowed
  <1>3. w.violations = m.violations
    BY DEF WindowMoved, Windowed, IsMetrics, MetricFields
  <1> DEFINE t == w.total + Cost(stamp)
             s == w.samples + 1
             o == OverThreshold(stamp)
             v == w.violations + (IF OverThreshold(stamp) THEN 1 ELSE 0)
             i == InCurve(reference)
  <1>4. m2 = [w EXCEPT !.total = t, !.samples = s, !.violated = o, !.violations = v, !.critical = i]
    BY DEF Measured
  <1> HIDE DEF w, m2, t, s, o, v, i
  <1>5. /\ IsMetrics(m2) /\ m2.window = w.window /\ m2.head = w.head /\ m2.count = w.count
        /\ m2.rolling = w.rolling /\ m2.violations = v /\ m2.critical = i
    BY <1>2, <1>4 DEF IsMetrics, MetricFields
  <1>6. Windowed(m2, S \cup {n}, cost)
    BY <1>1, <1>5 DEF Windowed
  <1> QED
    BY <1>3, <1>5, <1>6 DEF m2, v, i, SampleTaken

-----------------------------------------------------------------------------
(* What the pulses of a tick say. *)

Pulsed(n, i) == \E e \in Accepted(n) : Column(Trigger(e)) = i

\* The selected events of a tick, by type and task.
Occurs(n, type, k) == \E e \in Accepted(n) : e.type = type /\ e.task = k

\* What happens in a tick of a nominal schedule.
LEMMA TickEvents ==
  ASSUME NEW n, NEW k \in 1 .. 6
  PROVE  /\ Occurs(n, "JobStart", k) <=> n \in Starts(k)
         /\ Occurs(n, "JobFinish", k) <=> n \in Finishes(k)
         /\ Occurs(n, "MessageSend", k) <=> k \in {1, 5} /\ n \in Sends(k)
         /\ Occurs(n, "MessageDelivery", k) <=> \/ k = 2 /\ n \in Deliveries(1, schedule.up)
                                                \/ k = 6 /\ n \in Deliveries(5, schedule.down)
  <1> DEFINE F == {EventOf(n, "JobFinish", j) : j \in {j \in Tasks : n \in Finishes(j)}}
             S == {EventOf(n, "JobStart", j) : j \in {j \in Tasks : n \in Starts(j)}}
             R == {[EventOf(n, "JobStart", j) EXCEPT !.type = "JobRelease", !.phase = "JobRelease"] :
                       j \in {j \in Tasks : n \in Starts(j)}}
             M == {EventOf(n, "MessageSend", j) : j \in {j \in {1, 5} : n \in Sends(j)}}
             U == {EventOf(n, "MessageDelivery", 2) : t \in Deliveries(1, schedule.up) \cap {n}}
             D == {EventOf(n, "MessageDelivery", 6) : t \in Deliveries(5, schedule.down) \cap {n}}
  <1>1. Batch(n) = F \cup S \cup R \cup M \cup U \cup D
    BY DEF Batch
  <1>2. Tasks = 1 .. 6
    BY DEF Tasks
  <1>3. /\ \A e \in F : e.type = "JobFinish" /\ e.task \in 1 .. 6 /\ n \in Finishes(e.task)
        /\ \A e \in S : e.type = "JobStart" /\ e.task \in 1 .. 6 /\ n \in Starts(e.task)
        /\ \A e \in R : e.type = "JobRelease"
        /\ \A e \in M : e.type = "MessageSend" /\ e.task \in {1, 5} /\ n \in Sends(e.task)
        /\ \A e \in U : e.type = "MessageDelivery" /\ e.task = 2 /\ n \in Deliveries(1, schedule.up)
        /\ \A e \in D : e.type = "MessageDelivery" /\ e.task = 6 /\ n \in Deliveries(5, schedule.down)
    <2>1. \A e \in F : e.type = "JobFinish" /\ e.task \in 1 .. 6 /\ n \in Finishes(e.task)
      BY <1>2 DEF EventOf
    <2>2. \A e \in S : e.type = "JobStart" /\ e.task \in 1 .. 6 /\ n \in Starts(e.task)
      BY <1>2 DEF EventOf
    <2>3. \A e \in R : e.type = "JobRelease"
      <3>1. ASSUME NEW e \in R PROVE e.type = "JobRelease"
        <4>1. PICK j \in Tasks : e = [EventOf(n, "JobStart", j) EXCEPT !.type = "JobRelease", !.phase = "JobRelease"]
          OBVIOUS
        <4> QED
          BY <4>1 DEF EventOf
      <3> QED
        BY <3>1
    <2>4. \A e \in M : e.type = "MessageSend" /\ e.task \in {1, 5} /\ n \in Sends(e.task)
      BY DEF EventOf
    <2>5. \A e \in U : e.type = "MessageDelivery" /\ e.task = 2 /\ n \in Deliveries(1, schedule.up)
      BY DEF EventOf
    <2>6. \A e \in D : e.type = "MessageDelivery" /\ e.task = 6 /\ n \in Deliveries(5, schedule.down)
      BY DEF EventOf
    <2> HIDE DEF F, S, R, M, U, D
    <2> QED
      BY <2>1, <2>2, <2>3, <2>4, <2>5, <2>6
  <1>4. \A type : EventOf(n, type, k).type = type /\ EventOf(n, type, k).task = k
    BY DEF EventOf
  <1>5. /\ n \in Finishes(k) => EventOf(n, "JobFinish", k) \in F
        /\ n \in Starts(k) => EventOf(n, "JobStart", k) \in S
        /\ k \in {1, 5} /\ n \in Sends(k) => EventOf(n, "MessageSend", k) \in M
        /\ n \in Deliveries(1, schedule.up) => EventOf(n, "MessageDelivery", 2) \in U
        /\ n \in Deliveries(5, schedule.down) => EventOf(n, "MessageDelivery", 6) \in D
    BY <1>2
  <1> HIDE DEF F, S, R, M, U, D
  <1>6. \A e : e \in Accepted(n) <=> e \in F \cup S \cup R \cup M \cup U \cup D /\ e.type \in Selected
    BY <1>1 DEF Accepted
  <1>7. /\ "JobStart" \in Selected /\ "JobFinish" \in Selected
        /\ "MessageSend" \in Selected /\ "MessageDelivery" \in Selected
    BY DEF Selected
  <1>8. Occurs(n, "JobStart", k) <=> n \in Starts(k)
    BY <1>3, <1>4, <1>5, <1>6, <1>7 DEF Occurs
  <1>9. Occurs(n, "JobFinish", k) <=> n \in Finishes(k)
    BY <1>3, <1>4, <1>5, <1>6, <1>7 DEF Occurs
  <1>10. Occurs(n, "MessageSend", k) <=> k \in {1, 5} /\ n \in Sends(k)
    BY <1>3, <1>4, <1>5, <1>6, <1>7 DEF Occurs
  <1>11. Occurs(n, "MessageDelivery", k) <=> \/ k = 2 /\ n \in Deliveries(1, schedule.up)
                                             \/ k = 6 /\ n \in Deliveries(5, schedule.down)
    BY <1>3, <1>4, <1>5, <1>6, <1>7 DEF Occurs
  <1> QED
    BY <1>8, <1>9, <1>10, <1>11

\* Every column stands for one kind of event of one task.
LEMMA TickTriggers ==
  ASSUME NEW n
  PROVE  /\ Pulsed(n, 1) <=> n \in Starts(1)
         /\ Pulsed(n, 2) <=> n \in Finishes(1)
         /\ Pulsed(n, 3) <=> n \in Sends(1)
         /\ Pulsed(n, 4) <=> n \in Deliveries(1, schedule.up)
         /\ Pulsed(n, 5) <=> n \in Starts(2)
         /\ Pulsed(n, 6) <=> n \in Finishes(2)
         /\ Pulsed(n, 7) <=> n \in Starts(3)
         /\ Pulsed(n, 8) <=> n \in Finishes(3)
         /\ Pulsed(n, 9) <=> n \in Starts(4)
         /\ Pulsed(n, 10) <=> n \in Finishes(4)
         /\ Pulsed(n, 11) <=> n \in Starts(5)
         /\ Pulsed(n, 12) <=> n \in Finishes(5)
         /\ Pulsed(n, 13) <=> n \in Sends(5)
         /\ Pulsed(n, 14) <=> n \in Deliveries(5, schedule.down)
         /\ Pulsed(n, 15) <=> n \in Starts(6)
         /\ Pulsed(n, 16) <=> n \in Finishes(6)
  <1> DEFINE Valid(type, k) == /\ type \in Selected /\ k \in 1 .. 6
                               /\ type = "MessageSend" => k \in {1, 5}
                               /\ type = "MessageDelivery" => k \in {2, 6}
  <1>1. ASSUME NEW e \in Accepted(n)
        PROVE  Valid(e.type, e.task) /\ Column(Trigger(e)) = PulseColumn(e.type, e.task)
    <2>1. e \in Batch(n) /\ e.type \in Selected
      BY DEF Accepted
    <2>2. IsBatchEvent(e, n)
      BY <2>1, BatchEvents
    <2> QED
      BY <2>1, <2>2, TriggerColumn DEF IsBatchEvent
  <1>2. ASSUME NEW type \in Selected, NEW k, Valid(type, k)
        PROVE  /\ PulseColumn(type, k) = 1 <=> type = "JobStart" /\ k = 1
               /\ PulseColumn(type, k) = 2 <=> type = "JobFinish" /\ k = 1
               /\ PulseColumn(type, k) = 3 <=> type = "MessageSend" /\ k = 1
               /\ PulseColumn(type, k) = 4 <=> type = "MessageDelivery" /\ k = 2
               /\ PulseColumn(type, k) = 5 <=> type = "JobStart" /\ k = 2
               /\ PulseColumn(type, k) = 6 <=> type = "JobFinish" /\ k = 2
               /\ PulseColumn(type, k) = 7 <=> type = "JobStart" /\ k = 3
               /\ PulseColumn(type, k) = 8 <=> type = "JobFinish" /\ k = 3
               /\ PulseColumn(type, k) = 9 <=> type = "JobStart" /\ k = 4
               /\ PulseColumn(type, k) = 10 <=> type = "JobFinish" /\ k = 4
               /\ PulseColumn(type, k) = 11 <=> type = "JobStart" /\ k = 5
               /\ PulseColumn(type, k) = 12 <=> type = "JobFinish" /\ k = 5
               /\ PulseColumn(type, k) = 13 <=> type = "MessageSend" /\ k = 5
               /\ PulseColumn(type, k) = 14 <=> type = "MessageDelivery" /\ k = 6
               /\ PulseColumn(type, k) = 15 <=> type = "JobStart" /\ k = 6
               /\ PulseColumn(type, k) = 16 <=> type = "JobFinish" /\ k = 6
    <2>1. CASE type = "JobStart"
      BY <1>2, <2>1 DEF PulseColumn
    <2>2. CASE type = "JobFinish"
      BY <1>2, <2>2 DEF PulseColumn
    <2>3. CASE type = "MessageSend"
      BY <1>2, <2>3 DEF PulseColumn
    <2>4. CASE type = "MessageDelivery"
      BY <1>2, <2>4 DEF PulseColumn
    <2> QED
      BY <2>1, <2>2, <2>3, <2>4 DEF Selected
  <1>3. ASSUME NEW i, NEW type, NEW k,
               \A y \in Selected : \A j : Valid(y, j) => (PulseColumn(y, j) = i <=> y = type /\ j = k)
        PROVE  Pulsed(n, i) <=> Occurs(n, type, k)
    <2> HIDE DEF Valid
    <2>1. \A e \in Accepted(n) : e.type \in Selected
      BY DEF Accepted
    <2> QED
      BY <1>1, <1>3, <2>1 DEF Pulsed, Occurs
  <1> HIDE DEF Valid
  <1>4. /\ Pulsed(n, 1) <=> Occurs(n, "JobStart", 1)
        /\ Pulsed(n, 2) <=> Occurs(n, "JobFinish", 1)
        /\ Pulsed(n, 3) <=> Occurs(n, "MessageSend", 1)
        /\ Pulsed(n, 4) <=> Occurs(n, "MessageDelivery", 2)
        /\ Pulsed(n, 5) <=> Occurs(n, "JobStart", 2)
        /\ Pulsed(n, 6) <=> Occurs(n, "JobFinish", 2)
        /\ Pulsed(n, 7) <=> Occurs(n, "JobStart", 3)
        /\ Pulsed(n, 8) <=> Occurs(n, "JobFinish", 3)
    BY <1>2, <1>3
  <1>5. /\ Pulsed(n, 9) <=> Occurs(n, "JobStart", 4)
        /\ Pulsed(n, 10) <=> Occurs(n, "JobFinish", 4)
        /\ Pulsed(n, 11) <=> Occurs(n, "JobStart", 5)
        /\ Pulsed(n, 12) <=> Occurs(n, "JobFinish", 5)
        /\ Pulsed(n, 13) <=> Occurs(n, "MessageSend", 5)
        /\ Pulsed(n, 14) <=> Occurs(n, "MessageDelivery", 6)
        /\ Pulsed(n, 15) <=> Occurs(n, "JobStart", 6)
        /\ Pulsed(n, 16) <=> Occurs(n, "JobFinish", 6)
    BY <1>2, <1>3
  <1> QED
    BY <1>4, <1>5, TickEvents

\* A trigger is read at its place in the table.
LEMMA TriggeredAt ==
  ASSUME NEW f, NEW i \in 1 .. 16
  PROVE  Triggered(f, TriggerInputs[i]) <=> f.trig[i]
  <1>1. DOMAIN TriggerInputs = 1 .. 16 /\ \A j \in 1 .. 16 : TriggerInputs[j] = TriggerInputs[i] <=> j = i
    BY DEF TriggerInputs
  <1> QED
    BY <1>1 DEF Triggered

-----------------------------------------------------------------------------
(* The ideal run, stage by stage. *)

Ticks == 0 .. StopTick

\* What the job of a stage that starts at t computes.
SensedAt == [t \in Ticks |-> Sensed(t + 1, t)]
EstimatedAt == [t \in Ticks |-> EstimateAt(t)]
FedBackAt == [t \in Ticks |-> IdealEstimate(t + 1)]
ReferenceAt == [t \in Ticks |-> t]
YawRateAt == [t \in Ticks |-> YawRate(t, IdealEstimate(t + 1))]
CommandAt == [t \in Ticks |-> Command(IdealYawRate(t + 1), IdealFeedback(t + 1), IdealEstimate(t + 1))]
ArrivedAt == [t \in Ticks |-> IdealArrived(t + 1)]

\* The latest ticks of a schedule are ticks, or none.
LEMMA LastTicks ==
  ASSUME ScheduleOK, NEW k \in Tasks, NEW n \in Nat
  PROVE  /\ LastStart(k, n) \in Ticks \cup {NoStamp}
         /\ Latest(Starts(k), n) \in Ticks \cup {NoStamp}
         /\ \A dl \in Nat : LastCarried(k, dl, n) \in Nat \cup {NoStamp}
  <1>1. Starts(k) \in SUBSET Nat /\ Starts(k) \subseteq Ticks
    BY StartsAre, TickSets DEF Ticks
  <1>2. Latest(Starts(k), n) \in Ticks \cup {NoStamp}
    BY <1>1, LatestIs DEF IsLatest
  <1>3. LastStart(k, n) \in Ticks \cup {NoStamp}
    <2> DEFINE f == Latest(Finishes(k), n)
    <2>1. f \in Finishes(k) \cup {NoStamp}
      BY TickSets, LatestIs DEF IsLatest
    <2>2. LastStart(k, n) = IF f = NoStamp THEN NoStamp ELSE f - schedule.response
      BY DEF LastStart
    <2> HIDE DEF f
    <2>3. f \in Finishes(k) => f - schedule.response \in Starts(k)
      BY TickSets
    <2> QED
      BY <1>1, <2>1, <2>2, <2>3
  <1>4. ASSUME NEW dl \in Nat PROVE LastCarried(k, dl, n) \in Nat \cup {NoStamp}
    <2> DEFINE d == Latest(Deliveries(k, dl), n)
    <2>1. d \in Deliveries(k, dl) \cup {NoStamp}
      BY TickSets, LatestIs DEF IsLatest
    <2>2. LastCarried(k, dl, n) = IF d = NoStamp THEN NoStamp ELSE d - dl - 1
      BY DEF LastCarried
    <2> HIDE DEF d
    <2>3. d \in Deliveries(k, dl) => d - dl - 1 \in Nat
      <3>1. ASSUME d \in Deliveries(k, dl) PROVE d - dl - 1 \in Nat
        <4>1. d \in Int /\ d - dl \in Sends(k)
          BY <3>1, TickSets
        <4>2. d - dl \in Int
          BY <4>1
        <4>3. d - dl - 1 \in Finishes(k)
          BY <4>1, <4>2, TickSets
        <4> QED
          BY <4>3, TickSets
      <3> QED
        BY <3>1
    <2> QED
      BY <2>1, <2>2, <2>3
  <1> QED
    BY <1>2, <1>3, <1>4

\* What a stage shows is what the job that finished last computed.
LEMMA IdealsAre ==
  ASSUME ScheduleOK, NEW n \in Nat
  PROVE  /\ IdealReading(n) = At(SensedAt, Sensed(0, 0), LastStart(1, n))
         /\ IdealEstimate(n) = At(EstimatedAt, FirstEstimate(0), LastStart(2, n))
         /\ IdealFeedback(n) = At(FedBackAt, NoEstimate, LastStart(3, n))
         /\ IdealReference(n) = At(ReferenceAt, NoStamp, LastStart(4, n))
         /\ IdealYawRate(n) = At(YawRateAt, NoYawRate, LastStart(4, n))
         /\ IdealCommand(n) = At(CommandAt, NoCommand, LastStart(5, n))
         /\ IdealActuation(n) = At(ArrivedAt, NoCommand, LastStart(6, n))
  <1>1. \A k \in 1 .. 6 : LastStart(k, n) \in Ticks \cup {NoStamp}
    BY LastTicks DEF Tasks
  <1>2. IdealReading(n) = At(SensedAt, Sensed(0, 0), LastStart(1, n))
    BY <1>1 DEF IdealReading, At, SensedAt
  <1>3. IdealEstimate(n) = At(EstimatedAt, FirstEstimate(0), LastStart(2, n))
    BY <1>1 DEF IdealEstimate, At, EstimatedAt
  <1>4. IdealFeedback(n) = At(FedBackAt, NoEstimate, LastStart(3, n))
    BY <1>1 DEF IdealFeedback, At, FedBackAt
  <1>5. IdealReference(n) = At(ReferenceAt, NoStamp, LastStart(4, n))
    BY <1>1 DEF IdealReference, At, ReferenceAt
  <1>6. IdealYawRate(n) = At(YawRateAt, NoYawRate, LastStart(4, n))
    BY <1>1 DEF IdealYawRate, At, YawRateAt
  <1>7. IdealCommand(n) = At(CommandAt, NoCommand, LastStart(5, n))
    BY <1>1 DEF IdealCommand, At, CommandAt
  <1>8. IdealActuation(n) = At(ArrivedAt, NoCommand, LastStart(6, n))
    BY <1>1 DEF IdealActuation, At, ArrivedAt
  <1> QED
    BY <1>2, <1>3, <1>4, <1>5, <1>6, <1>7, <1>8

\* What a network has brought changes with a delivery, to what was shown when it was sent.
LEMMA Carried ==
  ASSUME ScheduleOK, NEW n \in Nat
  PROVE  /\ IdealReceived(n + 1) = IF n \in Deliveries(1, schedule.up) THEN IdealReading(n - schedule.up)
                                   ELSE IdealReceived(n)
         /\ IdealArrived(n + 1) = IF n \in Deliveries(5, schedule.down) THEN IdealCommand(n - schedule.down)
                                  ELSE IdealArrived(n)
         /\ IdealReceived(0) = Sensed(0, 0) /\ IdealArrived(0) = NoCommand
         /\ n \in Deliveries(1, schedule.up) => n - schedule.up \in Nat
         /\ n \in Deliveries(5, schedule.down) => n - schedule.down \in Nat
         /\ n \in Sends(1) => IdealReading(n + 1) = IdealReading(n)
         /\ n \in Sends(5) => IdealCommand(n + 1) = IdealCommand(n)
  <1>1. 1 \in Tasks /\ 5 \in Tasks /\ schedule.up \in Nat /\ schedule.down \in Nat
    BY DEF Tasks, ScheduleOK
  <1>2. ASSUME NEW k \in Tasks, NEW dl \in Nat, n \in Deliveries(k, dl)
        PROVE  n - dl \in Nat /\ n - dl - 1 # NoStamp /\ (n - dl - 1) + 1 = n - dl
    <2>1. n - dl \in Sends(k)
      BY <1>2, TickSets
    <2>2. n - dl - 1 \in Finishes(k)
      <3>1. n - dl \in Int
        OBVIOUS
      <3> QED
        BY <2>1, <3>1, TickSets
    <2>3. n - dl - 1 \in Nat
      BY <2>2, TickSets
    <2> QED
      BY <2>3 DEF NoStamp
  <1>3. IdealReceived(n + 1) = IF n \in Deliveries(1, schedule.up) THEN IdealReading(n - schedule.up)
                               ELSE IdealReceived(n)
    <2> DEFINE u == schedule.up
    <2>1. LastCarried(1, u, n + 1) = IF n \in Deliveries(1, u) THEN n - u - 1 ELSE LastCarried(1, u, n)
      BY <1>1, LastCarriedStep
    <2>2. n \in Deliveries(1, u) => n - u - 1 # NoStamp /\ (n - u - 1) + 1 = n - u
      BY <1>1, <1>2
    <2>3. \A m : IdealReceived(m) = IF LastCarried(1, u, m) = NoStamp THEN Sensed(0, 0)
                                    ELSE IdealReading(LastCarried(1, u, m) + 1)
      BY DEF IdealReceived
    <2> HIDE DEF u
    <2>4. CASE n \in Deliveries(1, u)
      <3> DEFINE z == n - u - 1
      <3>1. LastCarried(1, u, n + 1) = z /\ z # NoStamp /\ z + 1 = n - u
        BY <2>1, <2>2, <2>4
      <3> HIDE DEF z
      <3>2. IdealReceived(n + 1) = IdealReading(z + 1)
        BY <2>3, <3>1
      <3> QED
        BY <2>4, <3>1, <3>2 DEF u
    <2>5. CASE n \notin Deliveries(1, u)
      BY <2>1, <2>3, <2>5 DEF u
    <2> QED
      BY <2>4, <2>5
  <1>4. IdealArrived(n + 1) = IF n \in Deliveries(5, schedule.down) THEN IdealCommand(n - schedule.down)
                              ELSE IdealArrived(n)
    <2> DEFINE u == schedule.down
    <2>1. LastCarried(5, u, n + 1) = IF n \in Deliveries(5, u) THEN n - u - 1 ELSE LastCarried(5, u, n)
      BY <1>1, LastCarriedStep
    <2>2. n \in Deliveries(5, u) => n - u - 1 # NoStamp /\ (n - u - 1) + 1 = n - u
      BY <1>1, <1>2
    <2>3. \A m : IdealArrived(m) = IF LastCarried(5, u, m) = NoStamp THEN NoCommand
                                   ELSE IdealCommand(LastCarried(5, u, m) + 1)
      BY DEF IdealArrived
    <2> HIDE DEF u
    <2>4. CASE n \in Deliveries(5, u)
      <3> DEFINE z == n - u - 1
      <3>1. LastCarried(5, u, n + 1) = z /\ z # NoStamp /\ z + 1 = n - u
        BY <2>1, <2>2, <2>4
      <3> HIDE DEF z
      <3>2. IdealArrived(n + 1) = IdealCommand(z + 1)
        BY <2>3, <3>1
      <3> QED
        BY <2>4, <3>1, <3>2 DEF u
    <2>5. CASE n \notin Deliveries(5, u)
      BY <2>1, <2>3, <2>5 DEF u
    <2> QED
      BY <2>4, <2>5
  <1>5. IdealReceived(0) = Sensed(0, 0) /\ IdealArrived(0) = NoCommand
    <2>1. LastCarried(1, schedule.up, 0) = NoStamp /\ LastCarried(5, schedule.down, 0) = NoStamp
      BY <1>1, LastCarriedStep
    <2> QED
      BY <2>1 DEF IdealReceived, IdealArrived
  <1>6. /\ n \in Sends(1) => IdealReading(n + 1) = IdealReading(n)
        /\ n \in Sends(5) => IdealCommand(n + 1) = IdealCommand(n)
    <2>1. /\ n \in Sends(1) => LastStart(1, n + 1) = LastStart(1, n)
          /\ n \in Sends(5) => LastStart(5, n + 1) = LastStart(5, n)
      BY <1>1, LastStartStep
    <2> QED
      BY <2>1 DEF IdealReading, IdealCommand
  <1> QED
    BY <1>1, <1>2, <1>3, <1>4, <1>5, <1>6

\* The estimator counts its jobs.
LEMMA EstimateCount ==
  ASSUME ScheduleOK, NEW n \in Starts(2), NEW comp, comp = At(EstimatedAt, FirstEstimate(0), Latest(Starts(2), n))
  PROVE  EstimateAt(n) = Estimate(IdealReceived(n + 1), IdealReference(n + 1), comp)
  <1> DEFINE S == Starts(2)
             l == Latest(S, n)
             before == {t \in S : t < n}
             upto == {t \in S : t <= n}
  <1>1. 2 \in Tasks
    BY DEF Tasks
  <1>2. S \in SUBSET Nat /\ S \subseteq Ticks /\ n \in Nat /\ StopTick \in Nat
    BY <1>1, StartsAre, TickSets, StopTickAssumption DEF Ticks
  <1>3. IsLatest(S, n, l)
    BY <1>2, LatestIs
  <1>4. IsFiniteSet(before) /\ n \notin before /\ upto = before \cup {n}
    <2>1. IsFiniteSet(0 .. StopTick) /\ before \in SUBSET (0 .. StopTick)
      BY <1>2, FS_Interval DEF Ticks
    <2>2. n \notin before
      BY <1>2
    <2>3. ASSUME NEW t \in S PROVE t <= n <=> t < n \/ t = n
      BY <1>2
    <2>4. upto = before \cup {n}
      BY <2>3
    <2> HIDE DEF before
    <2> QED
      BY <2>1, <2>2, <2>4, FS_Subset
  <1>5. Cardinality(upto) = Cardinality(before) + 1
    <2> HIDE DEF before, upto
    <2> QED
      BY <1>4, FS_AddElement
  <1>6. comp.n = Cardinality(before)
    <2>1. CASE l = NoStamp
      <3>1. before = {}
        <4>1. ASSUME NEW t \in before PROVE FALSE
          <5>1. t \in Nat /\ t <= NoStamp
            BY <1>2, <1>3, <2>1 DEF IsLatest
          <5> QED
            BY <5>1 DEF NoStamp
        <4> QED
          BY <4>1
      <3>2. comp = FirstEstimate(0)
        BY <2>1 DEF At
      <3>3. Cardinality(before) = 0
        BY <3>1, FS_EmptySet
      <3> QED
        BY <3>2, <3>3 DEF FirstEstimate
    <2>2. CASE l # NoStamp
      <3>1. l \in S /\ l < n /\ \A t \in S : t < n => t <= l
        BY <1>3, <2>2 DEF IsLatest
      <3> HIDE DEF l
      <3>2. {t \in S : t <= l} = before
        <4>1. ASSUME NEW t \in S PROVE t <= l <=> t < n
          BY <1>2, <3>1
        <4> QED
          BY <4>1
      <3>3. comp = EstimateAt(l)
        BY <1>2, <2>2, <3>1 DEF At, EstimatedAt, l
      <3>4. EstimateAt(l).n = Cardinality({t \in S : t <= l})
        BY DEF EstimateAt
      <3> QED
        BY <3>2, <3>3, <3>4
    <2> QED
      BY <2>1, <2>2
  <1>7. EstimateAt(n) = [meas |-> IdealReceived(n + 1), ff |-> IdealReference(n + 1), n |-> Cardinality(upto)]
    BY DEF EstimateAt
  <1> HIDE DEF upto, before
  <1> QED
    BY <1>5, <1>6, <1>7 DEF Estimate

\* The chain shows the ideal run after the batches before n.
ChainTracks(c, n) ==
    /\ Stage(1, n, SensedAt, Sensed(0, 0), c.sens_comp, c.sens_out)
    /\ c.sc_rec = IdealReceived(n)
    /\ Stage(2, n, EstimatedAt, FirstEstimate(0), c.est_comp, c.est_out)
    /\ Stage(3, n, FedBackAt, NoEstimate, c.fb_comp, c.fb_out)
    /\ Stage(4, n, ReferenceAt, NoStamp, c.ff_comp, c.ff_out)
    /\ Stage(4, n, YawRateAt, NoYawRate, c.psi_comp, c.psi_out)
    /\ Stage(5, n, CommandAt, NoCommand, c.agg_comp, c.agg_out)
    /\ c.ca_fb = IdealArrived(n)
    /\ Stage(6, n, ArrivedAt, NoCommand, c.act_in, c.act_out)

\* What the batch of tick n makes of the chain c; rec and arr have come over the networks.
Published(c, d, n, rec, arr) ==
    /\ d.sens_out = IF n \in Finishes(1) THEN c.sens_comp ELSE c.sens_out
    /\ d.sc_rec = IF n \in Deliveries(1, schedule.up) THEN rec ELSE c.sc_rec
    /\ d.est_out = IF n \in Finishes(2) THEN c.est_comp ELSE c.est_out
    /\ d.fb_out = IF n \in Finishes(3) THEN c.fb_comp ELSE c.fb_out
    /\ d.ff_out = IF n \in Finishes(4) THEN c.ff_comp ELSE c.ff_out
    /\ d.psi_out = IF n \in Finishes(4) THEN c.psi_comp ELSE c.psi_out
    /\ d.agg_out = IF n \in Finishes(5) THEN c.agg_comp ELSE c.agg_out
    /\ d.ca_fb = IF n \in Deliveries(5, schedule.down) THEN arr ELSE c.ca_fb
    /\ d.act_out = IF n \in Finishes(6) THEN c.act_in ELSE c.act_out
Computed(c, d, n) ==
    /\ d.sens_comp = IF n \in Starts(1) THEN Sensed(n + 1, n) ELSE c.sens_comp
    /\ d.est_comp = IF n \in Starts(2) THEN Estimate(d.sc_rec, d.ff_out, c.est_comp) ELSE c.est_comp
    /\ d.fb_comp = IF n \in Starts(3) THEN d.est_out ELSE c.fb_comp
    /\ d.ff_comp = IF n \in Starts(4) THEN n ELSE c.ff_comp
    /\ d.psi_comp = IF n \in Starts(4) THEN YawRate(n, d.est_out) ELSE c.psi_comp
    /\ d.agg_comp = IF n \in Starts(5) THEN Command(d.psi_out, d.fb_out, d.est_out) ELSE c.agg_comp
    /\ d.act_in = IF n \in Starts(6) THEN d.ca_fb ELSE c.act_in

\* The chain starts on the ideal run.
LEMMA ChainFirst ==
  ASSUME ScheduleOK PROVE ChainTracks(InitialChain(0), 0)
  <1>1. 1 \in Tasks /\ 2 \in Tasks /\ 3 \in Tasks /\ 4 \in Tasks /\ 5 \in Tasks /\ 6 \in Tasks
    BY DEF Tasks
  <1>2. IdealReceived(0) = Sensed(0, 0) /\ IdealArrived(0) = NoCommand
    BY Carried
  <1> DEFINE c == InitialChain(0)
  <1>3. /\ c.sens_comp = Sensed(0, 0) /\ c.sens_out = Sensed(0, 0) /\ c.sc_rec = Sensed(0, 0)
        /\ c.est_comp = FirstEstimate(0) /\ c.est_out = FirstEstimate(0)
        /\ c.fb_comp = NoEstimate /\ c.fb_out = NoEstimate /\ c.ff_comp = NoStamp /\ c.ff_out = NoStamp
        /\ c.psi_comp = NoYawRate /\ c.psi_out = NoYawRate /\ c.agg_comp = NoCommand /\ c.agg_out = NoCommand
        /\ c.ca_fb = NoCommand /\ c.act_in = NoCommand /\ c.act_out = NoCommand
    BY DEF InitialChain
  <1> HIDE DEF c
  <1>4. \A k \in Tasks : \A F, init : Stage(k, 0, F, init, init, init)
    BY StageFirst
  <1>5. ChainTracks(c, 0)
    BY <1>1, <1>2, <1>3, <1>4 DEF ChainTracks
  <1> QED
    BY <1>5 DEF c

\* A chain that published and computed as the tick demands stays on the ideal run.
LEMMA ChainNext ==
  ASSUME ScheduleOK, NEW n \in Ticks, NEW c, ChainTracks(c, n), NEW rec, NEW arr, NEW d,
         Published(c, d, n, rec, arr), Computed(c, d, n),
         n \in Deliveries(1, schedule.up) => rec = IdealReading(n - schedule.up),
         n \in Deliveries(5, schedule.down) => arr = IdealCommand(n - schedule.down)
  PROVE  ChainTracks(d, n + 1)
  <1>1. 1 \in Tasks /\ 2 \in Tasks /\ 3 \in Tasks /\ 4 \in Tasks /\ 5 \in Tasks /\ 6 \in Tasks
    BY DEF Tasks
  <1>2. n \in Nat /\ n + 1 \in Nat
    BY StopTickAssumption DEF Ticks
  <1>3. d.sc_rec = IdealReceived(n + 1) /\ d.ca_fb = IdealArrived(n + 1)
    BY <1>2, Carried DEF ChainTracks, Published
  <1>4. Stage(1, n + 1, SensedAt, Sensed(0, 0), d.sens_comp, d.sens_out)
    <2>1. SensedAt[n] = Sensed(n + 1, n)
      BY DEF SensedAt
    <2>2. d.sens_comp = (IF n \in Starts(1) THEN SensedAt[n] ELSE c.sens_comp)
          /\ d.sens_out = (IF n \in Finishes(1) THEN c.sens_comp ELSE c.sens_out)
      BY <2>1 DEF Published, Computed
    <2>3. Stage(1, n, SensedAt, Sensed(0, 0), c.sens_comp, c.sens_out)
      BY DEF ChainTracks
    <2> QED
      BY <1>1, <1>2, <2>2, <2>3, StageNext
  <1>5. Stage(4, n + 1, ReferenceAt, NoStamp, d.ff_comp, d.ff_out)
    <2>1. ReferenceAt[n] = n
      BY DEF ReferenceAt
    <2>2. d.ff_comp = (IF n \in Starts(4) THEN ReferenceAt[n] ELSE c.ff_comp)
          /\ d.ff_out = (IF n \in Finishes(4) THEN c.ff_comp ELSE c.ff_out)
      BY <2>1 DEF Published, Computed
    <2>3. Stage(4, n, ReferenceAt, NoStamp, c.ff_comp, c.ff_out)
      BY DEF ChainTracks
    <2> QED
      BY <1>1, <1>2, <2>2, <2>3, StageNext
  <1>6. d.ff_out = IdealReference(n + 1)
    BY <1>2, <1>5, IdealsAre DEF Stage
  <1>7. Stage(2, n + 1, EstimatedAt, FirstEstimate(0), d.est_comp, d.est_out)
    <2>1. EstimatedAt[n] = EstimateAt(n)
      BY DEF EstimatedAt
    <2>2. n \in Starts(2) => EstimateAt(n) = Estimate(IdealReceived(n + 1), IdealReference(n + 1), c.est_comp)
      <3>1. c.est_comp = At(EstimatedAt, FirstEstimate(0), Latest(Starts(2), n))
        BY DEF ChainTracks, Stage
      <3> QED
        BY <3>1, EstimateCount
    <2>3. d.est_comp = (IF n \in Starts(2) THEN EstimatedAt[n] ELSE c.est_comp)
          /\ d.est_out = (IF n \in Finishes(2) THEN c.est_comp ELSE c.est_out)
      BY <1>3, <1>6, <2>1, <2>2 DEF Published, Computed
    <2>4. Stage(2, n, EstimatedAt, FirstEstimate(0), c.est_comp, c.est_out)
      BY DEF ChainTracks
    <2> QED
      BY <1>1, <1>2, <2>3, <2>4, StageNext
  <1>8. d.est_out = IdealEstimate(n + 1)
    BY <1>2, <1>7, IdealsAre DEF Stage
  <1>9. Stage(3, n + 1, FedBackAt, NoEstimate, d.fb_comp, d.fb_out)
    <2>1. FedBackAt[n] = IdealEstimate(n + 1)
      BY DEF FedBackAt
    <2>2. d.fb_comp = (IF n \in Starts(3) THEN FedBackAt[n] ELSE c.fb_comp)
          /\ d.fb_out = (IF n \in Finishes(3) THEN c.fb_comp ELSE c.fb_out)
      BY <1>8, <2>1 DEF Published, Computed
    <2>3. Stage(3, n, FedBackAt, NoEstimate, c.fb_comp, c.fb_out)
      BY DEF ChainTracks
    <2> QED
      BY <1>1, <1>2, <2>2, <2>3, StageNext
  <1>10. Stage(4, n + 1, YawRateAt, NoYawRate, d.psi_comp, d.psi_out)
    <2>1. YawRateAt[n] = YawRate(n, IdealEstimate(n + 1))
      BY DEF YawRateAt
    <2>2. d.psi_comp = (IF n \in Starts(4) THEN YawRateAt[n] ELSE c.psi_comp)
          /\ d.psi_out = (IF n \in Finishes(4) THEN c.psi_comp ELSE c.psi_out)
      BY <1>8, <2>1 DEF Published, Computed
    <2>3. Stage(4, n, YawRateAt, NoYawRate, c.psi_comp, c.psi_out)
      BY DEF ChainTracks
    <2> QED
      BY <1>1, <1>2, <2>2, <2>3, StageNext
  <1>11. d.fb_out = IdealFeedback(n + 1) /\ d.psi_out = IdealYawRate(n + 1)
    BY <1>2, <1>9, <1>10, IdealsAre DEF Stage
  <1>12. Stage(5, n + 1, CommandAt, NoCommand, d.agg_comp, d.agg_out)
    <2>1. CommandAt[n] = Command(IdealYawRate(n + 1), IdealFeedback(n + 1), IdealEstimate(n + 1))
      BY DEF CommandAt
    <2>2. d.agg_comp = (IF n \in Starts(5) THEN CommandAt[n] ELSE c.agg_comp)
          /\ d.agg_out = (IF n \in Finishes(5) THEN c.agg_comp ELSE c.agg_out)
      BY <1>8, <1>11, <2>1 DEF Published, Computed
    <2>3. Stage(5, n, CommandAt, NoCommand, c.agg_comp, c.agg_out)
      BY DEF ChainTracks
    <2> QED
      BY <1>1, <1>2, <2>2, <2>3, StageNext
  <1>13. Stage(6, n + 1, ArrivedAt, NoCommand, d.act_in, d.act_out)
    <2>1. ArrivedAt[n] = IdealArrived(n + 1)
      BY DEF ArrivedAt
    <2>2. d.act_in = (IF n \in Starts(6) THEN ArrivedAt[n] ELSE c.act_in)
          /\ d.act_out = (IF n \in Finishes(6) THEN c.act_in ELSE c.act_out)
      BY <1>3, <2>1 DEF Published, Computed
    <2>3. Stage(6, n, ArrivedAt, NoCommand, c.act_in, c.act_out)
      BY DEF ChainTracks
    <2> QED
      BY <1>1, <1>2, <2>2, <2>3, StageNext
  <1> QED
    BY <1>3, <1>4, <1>5, <1>7, <1>9, <1>10, <1>12, <1>13 DEF ChainTracks

\* What the stages show is what the ideal run shows.
LEMMA ChainShows ==
  ASSUME ScheduleOK, NEW n \in Nat, NEW c, ChainTracks(c, n)
  PROVE  /\ c.sens_out = IdealReading(n) /\ c.ff_out = IdealReference(n)
         /\ c.agg_out = IdealCommand(n) /\ c.act_out = IdealActuation(n)
  BY IdealsAre DEF ChainTracks, Stage

\* One step of the instance, seen from its chain.
ChainFields == {"sens_comp", "sens_out", "sc_rec", "est_comp", "est_out", "fb_comp", "fb_out", "ff_comp",
                "ff_out", "psi_comp", "psi_out", "agg_comp", "agg_out", "ca_fb", "ca_ff", "act_in", "act_out"}
IsChain(c) == c = [x \in ChainFields |-> c[x]]

\* The trigger inputs are the pulses of tick n.
Triggers(f, n) == \A i \in 1 .. 16 : f.trig[i] <=> Pulsed(n, i)

\* Each trigger input of the instance tells what its name says of the schedule.
LEMMA TriggerNames ==
  ASSUME NEW f, NEW n, Triggers(f, n)
  PROVE  /\ Triggered(f, "sensor_activated") <=> n \in Starts(1)
         /\ Triggered(f, "sensor_finished") <=> n \in Finishes(1)
         /\ Triggered(f, "sc_sent") <=> n \in Sends(1)
         /\ Triggered(f, "sc_received") <=> n \in Deliveries(1, schedule.up)
         /\ Triggered(f, "estimator_activated") <=> n \in Starts(2)
         /\ Triggered(f, "estimator_finished") <=> n \in Finishes(2)
         /\ Triggered(f, "controller_activated") <=> n \in Starts(3)
         /\ Triggered(f, "controller_finished") <=> n \in Finishes(3)
         /\ Triggered(f, "feedforward_activated") <=> n \in Starts(4)
         /\ Triggered(f, "feedforward_finished") <=> n \in Finishes(4)
         /\ Triggered(f, "merger_activated") <=> n \in Starts(5)
         /\ Triggered(f, "merger_finished") <=> n \in Finishes(5)
         /\ Triggered(f, "ca_sent") <=> n \in Sends(5)
         /\ Triggered(f, "ca_received") <=> n \in Deliveries(5, schedule.down)
         /\ Triggered(f, "actuator_activated") <=> n \in Starts(6)
         /\ Triggered(f, "actuator_finished") <=> n \in Finishes(6)
  <1>1. \A i \in 1 .. 16 : Triggered(f, TriggerInputs[i]) <=> Pulsed(n, i)
    BY TriggeredAt DEF Triggers
  <1>2. /\ TriggerInputs[1] = "sensor_activated" /\ TriggerInputs[2] = "sensor_finished"
        /\ TriggerInputs[3] = "sc_sent" /\ TriggerInputs[4] = "sc_received"
        /\ TriggerInputs[5] = "estimator_activated" /\ TriggerInputs[6] = "estimator_finished"
        /\ TriggerInputs[7] = "controller_activated" /\ TriggerInputs[8] = "controller_finished"
        /\ TriggerInputs[9] = "feedforward_activated" /\ TriggerInputs[10] = "feedforward_finished"
        /\ TriggerInputs[11] = "merger_activated" /\ TriggerInputs[12] = "merger_finished"
        /\ TriggerInputs[13] = "ca_sent" /\ TriggerInputs[14] = "ca_received"
        /\ TriggerInputs[15] = "actuator_activated" /\ TriggerInputs[16] = "actuator_finished"
    BY DEF TriggerInputs
  <1> QED
    BY <1>1, <1>2, TickTriggers

OutFields == {"sens_out", "sc_rec", "est_out", "fb_out", "ff_out", "psi_out", "agg_out", "ca_fb", "ca_ff", "act_out"}

\* What the first half of process_trigger_events makes visible.
LEMMA Publishes ==
  ASSUME NEW f, IsChain(f.chain), NEW n, Triggers(f, n)
  PROVE  LET c == f.chain
             d == PublishedChain(f)
         IN  /\ IsChain(d)
             /\ Published(c, d, n, Received(f.sc, c.sc_rec), Received(f.ca, [delta |-> c.ca_fb, ff |-> c.ca_ff]).delta)
             /\ \A x \in ChainFields \ OutFields : d[x] = c[x]
  <1> DEFINE c == f.chain
             d == PublishedChain(f)
             rec == Received(f.sc, c.sc_rec)
             pair == Received(f.ca, [delta |-> c.ca_fb, ff |-> c.ca_ff])
             v1 == IF Triggered(f, "sensor_finished") THEN c.sens_comp ELSE c.sens_out
             v2 == IF Triggered(f, "sc_received") THEN rec ELSE c.sc_rec
             v3 == IF Triggered(f, "estimator_finished") THEN c.est_comp ELSE c.est_out
             v4 == IF Triggered(f, "controller_finished") THEN c.fb_comp ELSE c.fb_out
             v5 == IF Triggered(f, "feedforward_finished") THEN c.ff_comp ELSE c.ff_out
             v6 == IF Triggered(f, "feedforward_finished") THEN c.psi_comp ELSE c.psi_out
             v7 == IF Triggered(f, "merger_finished") THEN c.agg_comp ELSE c.agg_out
             v8 == IF Triggered(f, "ca_received") THEN pair.delta ELSE c.ca_fb
             v9 == IF Triggered(f, "ca_received") THEN pair.ff ELSE c.ca_ff
             v10 == IF Triggered(f, "actuator_finished") THEN c.act_in ELSE c.act_out
  <1>1. d = [c EXCEPT !.sens_out = v1, !.sc_rec = v2, !.est_out = v3, !.fb_out = v4, !.ff_out = v5,
                      !.psi_out = v6, !.agg_out = v7, !.ca_fb = v8, !.ca_ff = v9, !.act_out = v10]
    BY DEF PublishedChain, IsChain, ChainFields
  <1>2. Published(c, [sens_out |-> v1, sc_rec |-> v2, est_out |-> v3, fb_out |-> v4, ff_out |-> v5,
                      psi_out |-> v6, agg_out |-> v7, ca_fb |-> v8, act_out |-> v10], n, rec, pair.delta)
    BY TriggerNames DEF Published
  <1> HIDE DEF v1, v2, v3, v4, v5, v6, v7, v8, v9, v10, d
  <1>3. /\ IsChain(d) /\ \A x \in ChainFields \ OutFields : d[x] = c[x]
        /\ d.sens_out = v1 /\ d.sc_rec = v2 /\ d.est_out = v3 /\ d.fb_out = v4 /\ d.ff_out = v5
        /\ d.psi_out = v6 /\ d.agg_out = v7 /\ d.ca_fb = v8 /\ d.act_out = v10
    BY <1>1 DEF IsChain, ChainFields, OutFields
  <1> HIDE DEF c, rec, pair
  <1>4. Published(c, d, n, rec, pair.delta)
    BY <1>2, <1>3 DEF Published
  <1> QED
    BY <1>3, <1>4 DEF c, d, rec, pair

\* What the second half of process_trigger_events computes from what is visible.
LEMMA Computes ==
  ASSUME NEW f, IsChain(f.chain), NEW n, Triggers(f, n), f.phys = n + 1, f.velocity = n, f.ff_ref = n
  PROVE  LET c == f.chain
             d == ComputedChain(f)
         IN  /\ IsChain(d)
             /\ \A x \in OutFields : d[x] = c[x]
             /\ d.sens_comp = IF n \in Starts(1) THEN Sensed(n + 1, n) ELSE c.sens_comp
             /\ d.est_comp = IF n \in Starts(2) THEN Estimate(c.sc_rec, c.ff_out, c.est_comp) ELSE c.est_comp
             /\ d.fb_comp = IF n \in Starts(3) THEN c.est_out ELSE c.fb_comp
             /\ d.ff_comp = IF n \in Starts(4) THEN n ELSE c.ff_comp
             /\ d.psi_comp = IF n \in Starts(4) THEN YawRate(n, c.est_out) ELSE c.psi_comp
             /\ d.agg_comp = IF n \in Starts(5) THEN Command(c.psi_out, c.fb_out, c.est_out) ELSE c.agg_comp
             /\ d.act_in = IF n \in Starts(6) THEN c.ca_fb ELSE c.act_in
  <1> DEFINE c == f.chain
             d == ComputedChain(f)
             v1 == IF n \in Starts(1) THEN Sensed(n + 1, n) ELSE c.sens_comp
             v2 == IF n \in Starts(2) THEN Estimate(c.sc_rec, c.ff_out, c.est_comp) ELSE c.est_comp
             v3 == IF n \in Starts(3) THEN c.est_out ELSE c.fb_comp
             v4 == IF n \in Starts(4) THEN n ELSE c.ff_comp
             v5 == IF n \in Starts(4) THEN YawRate(n, c.est_out) ELSE c.psi_comp
             v6 == IF n \in Starts(5) THEN Command(c.psi_out, c.fb_out, c.est_out) ELSE c.agg_comp
             v7 == IF n \in Starts(6) THEN c.ca_fb ELSE c.act_in
  <1>1. d = [c EXCEPT !.sens_comp = v1, !.est_comp = v2, !.fb_comp = v3, !.ff_comp = v4,
                      !.psi_comp = v5, !.agg_comp = v6, !.act_in = v7]
    BY TriggerNames DEF ComputedChain, IsChain, ChainFields, Estimated
  <1> HIDE DEF v1, v2, v3, v4, v5, v6, v7, d
  <1>2. /\ IsChain(d) /\ \A x \in OutFields : d[x] = c[x]
        /\ d.sens_comp = v1 /\ d.est_comp = v2 /\ d.fb_comp = v3 /\ d.ff_comp = v4
        /\ d.psi_comp = v5 /\ d.agg_comp = v6 /\ d.act_in = v7
    BY <1>1 DEF IsChain, ChainFields, OutFields
  <1> QED
    BY <1>2 DEF v1, v2, v3, v4, v5, v6, v7, d

\* What one step makes of an instance fed with the inputs of tick n.
Moves(f, g, n) ==
    LET c == f.chain
        d == g.chain
        sc == IF n \in Deliveries(1, schedule.up) THEN Dequeued(f.sc) ELSE f.sc
        ca == IF n \in Deliveries(5, schedule.down) THEN Dequeued(f.ca) ELSE f.ca
    IN  /\ g.phys = n + 1 /\ g.step = n + 1 /\ IsChain(d)
        /\ Published(c, d, n, Received(f.sc, c.sc_rec), Received(f.ca, [delta |-> c.ca_fb, ff |-> c.ca_ff]).delta)
        /\ Computed(c, d, n)
        /\ g.sc = IF n \in Sends(1) THEN Push(sc, d.sens_out) ELSE sc
        /\ g.ca = IF n \in Sends(5) THEN Push(ca, [delta |-> d.agg_out, ff |-> d.ff_out]) ELSE ca
        /\ g.real = IF n % SampleSteps = 0 THEN Measured(f.real, n + 1, n) ELSE f.real
        /\ g.remote = IF n \in Starts(2) THEN Measured(f.remote, d.sc_rec.x, d.ff_out) ELSE f.remote

\* A step on a tick with the right triggers moves every part of the instance as the schedule says.
LEMMA StepMoves ==
  ASSUME NEW f, IsInstance(f), IsChain(f.chain), NEW n, Triggers(f, n),
         f.phys = n, f.step = n, f.velocity = n, f.ff_ref = n
  PROVE  Moves(f, DoStep(f), n)
  <1> DEFINE L == IF n % SampleSteps = 0 THEN Measured(f.local, n + 1, f.chain.ca_ff) ELSE f.local
             R == IF n % SampleSteps = 0 THEN Measured(f.real, n + 1, n) ELSE f.real
             a == Simulated(f)
             n1 == n + 1
  <1>1. a = [f EXCEPT !.phys = n1, !.step = n1, !.local = L, !.real = R]
    BY DEF Simulated, IsInstance, FmuFields
  <1> HIDE DEF L, R, a, n1
  <1>2. /\ IsInstance(a) /\ a.phys = n1 /\ a.step = n1 /\ a.real = R /\ a.chain = f.chain
        /\ a.sc = f.sc /\ a.ca = f.ca /\ a.remote = f.remote /\ a.trig = f.trig
        /\ a.velocity = n /\ a.ff_ref = n
    BY <1>1 DEF IsInstance, FmuFields
  <1>3. Triggers(a, n) /\ IsChain(a.chain)
    BY <1>2 DEF Triggers
  <1> DEFINE p == PublishedChain(a)
             S == IF n \in Deliveries(1, schedule.up) THEN Dequeued(f.sc) ELSE f.sc
             A == IF n \in Deliveries(5, schedule.down) THEN Dequeued(f.ca) ELSE f.ca
             b == Concluded(a)
  <1>4. b = [a EXCEPT !.chain = p, !.sc = S, !.ca = A]
    BY <1>2, <1>3, TriggerNames DEF Concluded, IsInstance, FmuFields
  <1>5. /\ IsChain(p)
        /\ Published(f.chain, p, n, Received(f.sc, f.chain.sc_rec),
                     Received(f.ca, [delta |-> f.chain.ca_fb, ff |-> f.chain.ca_ff]).delta)
        /\ \A x \in ChainFields \ OutFields : p[x] = f.chain[x]
    BY <1>2, <1>3, Publishes
  <1> HIDE DEF p, S, A, b
  <1>6. /\ IsInstance(b) /\ b.phys = n1 /\ b.step = n1 /\ b.real = R /\ b.chain = p
        /\ b.sc = S /\ b.ca = A /\ b.remote = f.remote /\ b.trig = f.trig
        /\ b.velocity = n /\ b.ff_ref = n
    BY <1>2, <1>4 DEF IsInstance, FmuFields
  <1>7. Triggers(b, n) /\ IsChain(b.chain)
    BY <1>2, <1>5, <1>6 DEF Triggers
  <1> DEFINE d == ComputedChain(b)
             S2 == IF n \in Sends(1) THEN Push(S, p.sens_out) ELSE S
             A2 == IF n \in Sends(5) THEN Push(A, [delta |-> p.agg_out, ff |-> p.ff_out]) ELSE A
             M == IF n \in Starts(2) THEN Measured(f.remote, p.sc_rec.x, p.ff_out) ELSE f.remote
             g == Activated(b)
  <1>8. g = [b EXCEPT !.chain = d, !.sc = S2, !.ca = A2, !.remote = M]
    <2>1. Estimated(p).meas = p.sc_rec
      BY DEF Estimated, Estimate
    <2> QED
      BY <1>6, <1>7, <2>1, TriggerNames DEF Activated, IsInstance, FmuFields
  <1>9. /\ IsChain(d) /\ \A x \in OutFields : d[x] = p[x]
        /\ d.sens_comp = IF n \in Starts(1) THEN Sensed(n + 1, n) ELSE p.sens_comp
        /\ d.est_comp = IF n \in Starts(2) THEN Estimate(p.sc_rec, p.ff_out, p.est_comp) ELSE p.est_comp
        /\ d.fb_comp = IF n \in Starts(3) THEN p.est_out ELSE p.fb_comp
        /\ d.ff_comp = IF n \in Starts(4) THEN n ELSE p.ff_comp
        /\ d.psi_comp = IF n \in Starts(4) THEN YawRate(n, p.est_out) ELSE p.psi_comp
        /\ d.agg_comp = IF n \in Starts(5) THEN Command(p.psi_out, p.fb_out, p.est_out) ELSE p.agg_comp
        /\ d.act_in = IF n \in Starts(6) THEN p.ca_fb ELSE p.act_in
    <2>1. b.phys = n + 1
      BY <1>6 DEF n1
    <2>2. IsChain(b.chain) /\ Triggers(b, n) /\ b.velocity = n /\ b.ff_ref = n /\ b.chain = p
      BY <1>6, <1>7
    <2> QED
      BY <2>1, <2>2, Computes
  <1> HIDE DEF d, S2, A2, M, g
  <1>10. /\ IsInstance(g) /\ g.phys = n1 /\ g.step = n1 /\ g.real = R /\ g.chain = d
         /\ g.sc = S2 /\ g.ca = A2 /\ g.remote = M
    BY <1>6, <1>8 DEF IsInstance, FmuFields
  <1> DEFINE h == DoStep(f)
             time == g.time + 1
  <1>11. h = [g EXCEPT !.time = time]
    BY <1>10 DEF DoStep, ProcessTriggers, g, b, a
  <1> HIDE DEF h, time
  <1>12. /\ h.phys = n1 /\ h.step = n1 /\ h.real = R /\ h.chain = d
         /\ h.sc = S2 /\ h.ca = A2 /\ h.remote = M
    BY <1>10, <1>11 DEF IsInstance, FmuFields
  <1>13. /\ d.sens_out = p.sens_out /\ d.sc_rec = p.sc_rec /\ d.est_out = p.est_out /\ d.fb_out = p.fb_out
         /\ d.ff_out = p.ff_out /\ d.psi_out = p.psi_out /\ d.agg_out = p.agg_out /\ d.ca_fb = p.ca_fb
         /\ d.act_out = p.act_out
    BY <1>9 DEF OutFields
  <1>14. /\ p.sens_comp = f.chain.sens_comp /\ p.est_comp = f.chain.est_comp /\ p.fb_comp = f.chain.fb_comp
         /\ p.ff_comp = f.chain.ff_comp /\ p.psi_comp = f.chain.psi_comp /\ p.agg_comp = f.chain.agg_comp
         /\ p.act_in = f.chain.act_in
    BY <1>5 DEF OutFields, ChainFields
  <1>15. Computed(f.chain, d, n)
    BY <1>9, <1>13, <1>14 DEF Computed
  <1>16. Published(f.chain, d, n, Received(f.sc, f.chain.sc_rec),
                   Received(f.ca, [delta |-> f.chain.ca_fb, ff |-> f.chain.ca_ff]).delta)
    <2> DEFINE rec == Received(f.sc, f.chain.sc_rec)
               arr == Received(f.ca, [delta |-> f.chain.ca_fb, ff |-> f.chain.ca_ff]).delta
    <2>1. Published(f.chain, p, n, rec, arr)
      BY <1>5
    <2> HIDE DEF rec, arr
    <2>2. Published(f.chain, d, n, rec, arr)
      BY <1>13, <2>1 DEF Published
    <2> QED
      BY <2>2 DEF rec, arr
  <1>17. Moves(f, h, n)
    BY <1>9, <1>12, <1>13, <1>15, <1>16 DEF Moves, n1, R, S2, A2, M, S, A
  <1> QED
    BY <1>17 DEF h

-----------------------------------------------------------------------------
(* The instance tracks the ideal run. *)

Readings == [m \in Nat |-> IdealReading(m)]
Commands == [m \in Nat |-> IdealCommand(m)]
Deltas(b) == [i \in 0 .. NetworkCapacity - 1 |-> b.data[i].delta]

UplinkTracks(b, n) == Flight(b, b.data, 1, schedule.up, n, Readings)
DownlinkTracks(b, n) == Flight(b, Deltas(b), 5, schedule.down, n, Commands)

\* The sensor network delivers the reading that was sent one delay ago, and carries this one.
LEMMA UplinkNext ==
  ASSUME ScheduleOK, NEW n \in Nat, NEW b, UplinkTracks(b, n), NEW packet, NEW b2,
         b2 = (IF n \in Sends(1) THEN Push(IF n \in Deliveries(1, schedule.up) THEN Dequeued(b) ELSE b, packet)
               ELSE IF n \in Deliveries(1, schedule.up) THEN Dequeued(b) ELSE b)
  PROVE  /\ n \in Deliveries(1, schedule.up) =>
                \A old : Received(b, old) = IdealReading(n - schedule.up)
         /\ (n \in Sends(1) => packet = IdealReading(n)) => UplinkTracks(b2, n + 1)
  <1> DEFINE u == schedule.up
             b1 == IF n \in Deliveries(1, u) THEN Dequeued(b) ELSE b
             held == b.data
             held2 == IF n \in Sends(1) THEN [held EXCEPT ![b.tail] = Readings[n]] ELSE held
  <1>1. 1 \in Tasks /\ u \in Nat /\ u >= 1 /\ u <= schedule.period * NetworkCapacity
    BY DEF Tasks, ScheduleOK
  <1>2. Flight(b, held, 1, u, n, Readings)
    BY DEF UplinkTracks
  <1>3. held = [i \in 0 .. NetworkCapacity - 1 |-> held[i]]
    BY <1>2 DEF Flight, IsBuffer
  <1>4. Exchanged(b, held, 1, u, n, Readings, packet, b1, b2, held2)
    <2> HIDE DEF held
    <2> QED
      BY <1>3 DEF Exchanged
  <1>5. n \in Deliveries(1, u) => n - u \in Nat
    BY Carried
  <1> HIDE DEF u, b1, held2, held
  <1>6. /\ Flight(b2, held2, 1, u, n + 1, Readings)
        /\ n \in Deliveries(1, u) => b.count # 0 /\ held[b.head] = Readings[n - u]
        /\ b2.data = IF n \in Sends(1) THEN [b.data EXCEPT ![b.tail] = packet] ELSE b.data
    BY <1>1, <1>2, <1>4, FlightNext
  <1>7. ASSUME n \in Deliveries(1, u), NEW old PROVE Received(b, old) = IdealReading(n - u)
    BY <1>5, <1>6, <1>7 DEF Received, Readings, held
  <1>8. ASSUME n \in Sends(1) => packet = IdealReading(n) PROVE UplinkTracks(b2, n + 1)
    <2>1. Readings[n] = IdealReading(n)
      BY DEF Readings
    <2>2. held2 = b2.data
      BY <1>6, <1>8, <2>1 DEF held2, held
    <2> QED
      BY <1>6, <2>2 DEF UplinkTracks, u
  <1> QED
    BY <1>7, <1>8 DEF u

\* The command network delivers the command that was sent one delay ago, and carries this one.
LEMMA DownlinkNext ==
  ASSUME ScheduleOK, NEW n \in Nat, NEW b, DownlinkTracks(b, n), NEW packet, NEW b2,
         b2 = (IF n \in Sends(5) THEN Push(IF n \in Deliveries(5, schedule.down) THEN Dequeued(b) ELSE b, packet)
               ELSE IF n \in Deliveries(5, schedule.down) THEN Dequeued(b) ELSE b)
  PROVE  /\ n \in Deliveries(5, schedule.down) =>
                \A old : Received(b, old).delta = IdealCommand(n - schedule.down)
         /\ (n \in Sends(5) => packet.delta = IdealCommand(n)) => DownlinkTracks(b2, n + 1)
  <1> DEFINE u == schedule.down
             b1 == IF n \in Deliveries(5, u) THEN Dequeued(b) ELSE b
             held == Deltas(b)
             held2 == IF n \in Sends(5) THEN [held EXCEPT ![b.tail] = Commands[n]] ELSE held
  <1>1. 5 \in Tasks /\ u \in Nat /\ u >= 1 /\ u <= schedule.period * NetworkCapacity
    BY DEF Tasks, ScheduleOK
  <1>2. Flight(b, held, 5, u, n, Commands)
    BY DEF DownlinkTracks
  <1>3. held = [i \in 0 .. NetworkCapacity - 1 |-> held[i]]
        /\ \A i \in 0 .. NetworkCapacity - 1 : held[i] = b.data[i].delta
    BY DEF Deltas
  <1>4. Exchanged(b, held, 5, u, n, Commands, packet, b1, b2, held2)
    <2> HIDE DEF held
    <2> QED
      BY <1>3 DEF Exchanged
  <1>5. n \in Deliveries(5, u) => n - u \in Nat
    BY Carried
  <1>5a. b.data = [i \in 0 .. NetworkCapacity - 1 |-> b.data[i]]
    BY <1>2 DEF Flight, IsBuffer
  <1> HIDE DEF u, b1, held2, held
  <1>6. /\ Flight(b2, held2, 5, u, n + 1, Commands)
        /\ n \in Deliveries(5, u) => b.count # 0 /\ held[b.head] = Commands[n - u]
        /\ b.head \in 0 .. NetworkCapacity - 1 /\ b.tail \in 0 .. NetworkCapacity - 1
        /\ b2.data = IF n \in Sends(5) THEN [b.data EXCEPT ![b.tail] = packet] ELSE b.data
    BY <1>1, <1>2, <1>4, FlightNext
  <1>7. ASSUME n \in Deliveries(5, u), NEW old PROVE Received(b, old).delta = IdealCommand(n - u)
    BY <1>3, <1>5, <1>6, <1>7 DEF Received, Commands
  <1>8. ASSUME n \in Sends(5) => packet.delta = IdealCommand(n) PROVE DownlinkTracks(b2, n + 1)
    <2>1. Commands[n] = IdealCommand(n)
      BY DEF Commands
    <2>2. ASSUME NEW i \in 0 .. NetworkCapacity - 1 PROVE held2[i] = b2.data[i].delta
      <3>1. CASE n \in Sends(5) /\ i = b.tail
        BY <1>3, <1>5a, <1>6, <1>8, <2>1, <3>1 DEF held2
      <3>2. CASE ~ (n \in Sends(5) /\ i = b.tail)
        BY <1>3, <1>5a, <1>6, <3>2 DEF held2
      <3> QED
        BY <3>1, <3>2
    <2>3. held2 = [i \in 0 .. NetworkCapacity - 1 |-> held2[i]]
      BY <1>3 DEF held2
    <2>4. held2 = Deltas(b2)
      BY <2>2, <2>3 DEF Deltas
    <2> QED
      BY <1>6, <2>4 DEF DownlinkTracks, u
  <1> QED
    BY <1>7, <1>8 DEF u

\* The costs of the samples.
RealCosts == [t \in Ticks |-> Cost(t + 1)]
RemoteCosts == [t \in Ticks |-> Cost(EstimateAt(t).meas.x)]
OverIn(S) == {t \in S : OverThreshold(t + 1)}
CurveIn(S) == \E t \in S : t = Max(S) /\ InCurve(t)

MetricsTrack(f, n) ==
    /\ Windowed(f.real, RealSamples(n), RealCosts)
    /\ Windowed(f.remote, RemoteSamples(n), RemoteCosts)
    /\ f.real.violations = Cardinality(OverIn(RealSamples(n)))
    /\ f.real.critical = CurveIn(RealSamples(n))

\* The costs of the ideal run are numbers.
LEMMA CostsAre ==
  ASSUME ScheduleOK
  PROVE  RealCosts \in [0 .. StopTick -> Int] /\ RemoteCosts \in [0 .. StopTick -> Int]
  <1>1. ASSUME NEW x \in Int PROVE Cost(x) \in Int
    <2>1. 7 * x + 3 \in Int
      OBVIOUS
    <2> DEFINE y == 7 * x + 3
    <2> HIDE DEF y
    <2>2. y % 5 \in Int
      BY <2>1 DEF y
    <2> QED
      BY <2>2 DEF Cost, y
  <1>2. ASSUME NEW n \in Nat PROVE IdealReading(n).x \in Int
    <2>1. LastStart(1, n) \in Ticks \cup {NoStamp}
      BY LastTicks DEF Tasks
    <2> QED
      BY <2>1, StopTickAssumption DEF IdealReading, Sensed, Ticks, NoStamp
  <1>3. ASSUME NEW n \in Nat PROVE IdealReceived(n).x \in Int
    <2>1. LastCarried(1, schedule.up, n) \in Nat \cup {NoStamp}
      BY LastTicks DEF Tasks, ScheduleOK
    <2> DEFINE z == LastCarried(1, schedule.up, n)
    <2>2. IdealReceived(n) = IF z = NoStamp THEN Sensed(0, 0) ELSE IdealReading(z + 1)
      BY DEF IdealReceived
    <2> HIDE DEF z
    <2>3. CASE z = NoStamp
      BY <2>2, <2>3 DEF Sensed
    <2>4. CASE z # NoStamp
      <3>1. z + 1 \in Nat
        BY <2>1, <2>4 DEF z
      <3> QED
        BY <1>2, <2>2, <2>4, <3>1
    <2> QED
      BY <2>3, <2>4
  <1>4. ASSUME NEW t \in Ticks PROVE Cost(t + 1) \in Int /\ Cost(EstimateAt(t).meas.x) \in Int
    <2>1. t + 1 \in Nat /\ t + 1 \in Int
      BY StopTickAssumption DEF Ticks
    <2>2. EstimateAt(t).meas = IdealReceived(t + 1)
      BY DEF EstimateAt
    <2>3. EstimateAt(t).meas.x \in Int
      BY <1>3, <2>1, <2>2
    <2> QED
      BY <1>1, <2>1, <2>3
  <1> QED
    BY <1>4 DEF RealCosts, RemoteCosts, Ticks

\* The samples of a tick are added after those of the ticks before it.
LEMMA SamplesNext ==
  ASSUME ScheduleOK, NEW n \in Nat
  PROVE  /\ RealSamples(n + 1) = IF n % SampleSteps = 0 THEN RealSamples(n) \cup {n} ELSE RealSamples(n)
         /\ RemoteSamples(n + 1) = IF n \in Starts(2) THEN RemoteSamples(n) \cup {n} ELSE RemoteSamples(n)
         /\ RealSamples(0) = {} /\ RemoteSamples(0) = {}
         /\ \A t \in RealSamples(n) \cup RemoteSamples(n) : t \in Nat /\ t < n
  <1>1. Starts(2) \in SUBSET Nat
    BY TickSets DEF Tasks
  <1>2. RealSamples(n + 1) = IF n % SampleSteps = 0 THEN RealSamples(n) \cup {n} ELSE RealSamples(n)
    <2>1. 0 .. (n + 1) - 1 = (0 .. n - 1) \cup {n}
      OBVIOUS
    <2>2. /\ RealSamples(n + 1) = {t \in 0 .. (n + 1) - 1 : t % SampleSteps = 0}
          /\ RealSamples(n) = {t \in 0 .. n - 1 : t % SampleSteps = 0}
      BY DEF RealSamples
    <2>3. \A t : t \in RealSamples(n + 1) <=> t \in RealSamples(n) \/ (t = n /\ t % SampleSteps = 0)
      BY <2>1, <2>2
    <2> QED
      BY <2>3
  <1>3. RemoteSamples(n + 1) = IF n \in Starts(2) THEN RemoteSamples(n) \cup {n} ELSE RemoteSamples(n)
    <2>1. /\ RemoteSamples(n + 1) = {t \in Starts(2) : t < n + 1}
          /\ RemoteSamples(n) = {t \in Starts(2) : t < n}
      BY DEF RemoteSamples
    <2>2. \A t \in Starts(2) : t < n + 1 <=> t < n \/ t = n
      BY <1>1
    <2>3. \A t : t \in RemoteSamples(n + 1) <=> t \in RemoteSamples(n) \/ (t = n /\ t \in Starts(2))
      BY <2>1, <2>2
    <2> QED
      BY <2>3
  <1>4. RealSamples(0) = {}
    BY DEF RealSamples
  <1>5. RemoteSamples(0) = {}
    BY <1>1 DEF RemoteSamples
  <1>6. \A t \in RealSamples(n) \cup RemoteSamples(n) : t \in Nat /\ t < n
    BY <1>1 DEF RealSamples, RemoteSamples
  <1> QED
    BY <1>2, <1>3, <1>4, <1>5, <1>6

\* The violations and the curve check of a set with one more sample.
LEMMA SampleAdded ==
  ASSUME NEW S, S \subseteq 0 .. StopTick, NEW n \in 0 .. StopTick, \A t \in S : t < n
  PROVE  /\ Cardinality(OverIn(S \cup {n})) = Cardinality(OverIn(S)) + (IF OverThreshold(n + 1) THEN 1 ELSE 0)
         /\ CurveIn(S \cup {n}) = InCurve(n)
  <1> DEFINE R == S \cup {n}
  <1>0. StopTick \in Nat
    BY StopTickAssumption
  <1>1. n \notin S /\ \A t \in S : t \in Int /\ t <= n
    OBVIOUS
  <1>2. IsFiniteSet(OverIn(S)) /\ n \notin OverIn(S) /\ Cardinality(OverIn(S)) \in Nat
    <2>1. IsFiniteSet(0 .. StopTick) /\ OverIn(S) \in SUBSET (0 .. StopTick)
      <3>1. OverIn(S) \in SUBSET (0 .. StopTick)
        BY DEF OverIn
      <3>2. IsFiniteSet(0 .. StopTick)
        BY <1>0, FS_Interval
      <3> QED
        BY <3>1, <3>2
    <2>2. IsFiniteSet(OverIn(S))
      BY <2>1, FS_Subset
    <2> QED
      BY <1>1, <2>2, FS_CardinalityType DEF OverIn
  <1>3. OverIn(R) = IF OverThreshold(n + 1) THEN OverIn(S) \cup {n} ELSE OverIn(S)
    BY DEF OverIn
  <1>4. Cardinality(OverIn(R)) = Cardinality(OverIn(S)) + (IF OverThreshold(n + 1) THEN 1 ELSE 0)
    <2>1. Cardinality(OverIn(S) \cup {n}) = Cardinality(OverIn(S)) + 1
      BY <1>2, FS_AddElement
    <2> HIDE DEF R
    <2> QED
      BY <1>2, <1>3, <2>1
  <1>5. Max(R) = n
    <2>1. n \in R /\ \A y \in R : y \in Int /\ n >= y
      BY <1>1
    <2>2. Max(R) = CHOOSE x \in R : \A y \in R : x >= y
      BY DEF Max
    <2> HIDE DEF R
    <2> DEFINE c == CHOOSE x \in R : \A y \in R : x >= y
    <2>3. c \in R /\ \A y \in R : c >= y
      BY <2>1
    <2> HIDE DEF c
    <2>4. c >= n /\ n >= c /\ c \in Int /\ n \in Int
      BY <2>1, <2>3
    <2>5. c = n
      BY <2>4
    <2> QED
      BY <2>2, <2>5 DEF c
  <1>6. CurveIn(R) = InCurve(n)
    <2>1. InCurve(n) \in BOOLEAN /\ CurveIn(R) \in BOOLEAN
      BY DEF InCurve, CurveIn
    <2>2. n \in R
      OBVIOUS
    <2> HIDE DEF R
    <2>3. CurveIn(R) <=> InCurve(n)
      BY <1>5, <2>2 DEF CurveIn
    <2> QED
      BY <2>1, <2>3
  <1> QED
    BY <1>4, <1>6

\* The metrics of the next tick have at most one more sample each.
LEMMA MetricsNext ==
  ASSUME ScheduleOK, NEW n \in Ticks, NEW f, MetricsTrack(f, n), NEW g,
         g.real = (IF n % SampleSteps = 0 THEN Measured(f.real, n + 1, n) ELSE f.real),
         NEW stamp, NEW reference,
         g.remote = (IF n \in Starts(2) THEN Measured(f.remote, stamp, reference) ELSE f.remote),
         n \in Starts(2) => stamp = EstimateAt(n).meas.x
  PROVE  MetricsTrack(g, n + 1)
  <1>1. n \in Nat /\ n \in 0 .. StopTick /\ StopTick \in Nat
    BY StopTickAssumption DEF Ticks
  <1>2. /\ RealSamples(n + 1) = IF n % SampleSteps = 0 THEN RealSamples(n) \cup {n} ELSE RealSamples(n)
        /\ RemoteSamples(n + 1) = IF n \in Starts(2) THEN RemoteSamples(n) \cup {n} ELSE RemoteSamples(n)
        /\ \A t \in RealSamples(n) : t \in Nat /\ t < n
        /\ \A t \in RemoteSamples(n) : t \in Nat /\ t < n
    BY <1>1, SamplesNext
  <1>3. RealSamples(n) \subseteq 0 .. StopTick /\ RemoteSamples(n) \subseteq 0 .. StopTick
    <2>1. \A t \in Nat : t < n => t \in 0 .. StopTick
      BY <1>1
    <2> QED
      BY <1>2, <2>1, Zenon
  <1>4. RealCosts \in [0 .. StopTick -> Int] /\ RemoteCosts \in [0 .. StopTick -> Int]
    BY CostsAre
  <1>5. /\ Windowed(f.real, RealSamples(n), RealCosts) /\ Windowed(f.remote, RemoteSamples(n), RemoteCosts)
        /\ f.real.violations = Cardinality(OverIn(RealSamples(n)))
        /\ f.real.critical = CurveIn(RealSamples(n))
    BY DEF MetricsTrack
  <1>6. /\ Windowed(g.real, RealSamples(n + 1), RealCosts)
        /\ g.real.violations = Cardinality(OverIn(RealSamples(n + 1)))
        /\ g.real.critical = CurveIn(RealSamples(n + 1))
    <2>1. CASE n % SampleSteps = 0
      <3> DEFINE S == RealSamples(n)
                 m == f.real
                 m2 == Measured(m, n + 1, n)
      <3>1. g.real = m2 /\ RealSamples(n + 1) = S \cup {n}
        BY <1>2, <2>1
      <3>2. /\ S \subseteq 0 .. StopTick /\ \A t \in S : t < n
            /\ Windowed(m, S, RealCosts) /\ Cost(n + 1) = RealCosts[n]
        BY <1>2, <1>3, <1>5 DEF RealCosts
      <3> HIDE DEF S, m
      <3>3. /\ Windowed(m2, S \cup {n}, RealCosts)
            /\ m2.violations = m.violations + (IF OverThreshold(n + 1) THEN 1 ELSE 0)
            /\ m2.critical = InCurve(n)
        <4>1. SampleTaken(m, m2, S, n, RealCosts, n + 1, n)
          BY <1>1, <1>4, <3>2, MeasuredNext
        <4> QED
          BY <4>1 DEF SampleTaken
      <3>4. /\ Cardinality(OverIn(S \cup {n})) = Cardinality(OverIn(S)) + (IF OverThreshold(n + 1) THEN 1 ELSE 0)
            /\ CurveIn(S \cup {n}) = InCurve(n)
        BY <1>1, <3>2, SampleAdded
      <3>5. m.violations = Cardinality(OverIn(S))
        BY <1>5 DEF m, S
      <3> HIDE DEF m2
      <3> QED
        BY <3>1, <3>3, <3>4, <3>5
    <2>2. CASE n % SampleSteps # 0
      BY <1>2, <1>5, <2>2
    <2> QED
      BY <2>1, <2>2
  <1>7. Windowed(g.remote, RemoteSamples(n + 1), RemoteCosts)
    <2>1. CASE n \in Starts(2)
      <3> DEFINE S == RemoteSamples(n)
                 m == f.remote
                 m2 == Measured(m, stamp, reference)
      <3>1. g.remote = m2 /\ RemoteSamples(n + 1) = S \cup {n}
        BY <1>2, <2>1
      <3>2. /\ S \subseteq 0 .. StopTick /\ \A t \in S : t < n
            /\ Windowed(m, S, RemoteCosts) /\ Cost(stamp) = RemoteCosts[n]
        BY <1>2, <1>3, <1>5, <2>1 DEF RemoteCosts
      <3> HIDE DEF S, m
      <3>3. Windowed(m2, S \cup {n}, RemoteCosts)
        <4>1. SampleTaken(m, m2, S, n, RemoteCosts, stamp, reference)
          BY <1>1, <1>4, <3>2, MeasuredNext
        <4> QED
          BY <4>1 DEF SampleTaken
      <3> HIDE DEF m2
      <3> QED
        BY <3>1, <3>3
    <2>2. CASE n \notin Starts(2)
      BY <1>2, <1>5, <2>2
    <2> QED
      BY <2>1, <2>2
  <1> QED
    BY <1>6, <1>7 DEF MetricsTrack

Tracks(f, n) ==
    /\ IsInstance(f) /\ f.phys = n /\ f.step = n
    /\ IsChain(f.chain) /\ ChainTracks(f.chain, n)
    /\ UplinkTracks(f.sc, n) /\ DownlinkTracks(f.ca, n)
    /\ MetricsTrack(f, n)

\* The initialized instance is on the ideal run.
LEMMA TracksFirst ==
  ASSUME ScheduleOK PROVE Tracks(Ready, 0)
  <1>1. /\ IsInstance(Ready) /\ Ready.phys = 0 /\ Ready.step = 0 /\ Ready.chain = InitialChain(0)
        /\ Ready.sc = EmptyBuffer /\ Ready.ca = EmptyBuffer
        /\ Ready.real = NoMetrics /\ Ready.remote = NoMetrics
    BY ReadyState
  <1>2. IsChain(InitialChain(0)) /\ ChainTracks(InitialChain(0), 0)
    BY ChainFirst DEF IsChain, ChainFields, InitialChain
  <1>3. UplinkTracks(EmptyBuffer, 0)
    BY FlightFirst DEF UplinkTracks, Tasks, ScheduleOK
  <1>4. DownlinkTracks(EmptyBuffer, 0)
    BY FlightFirst DEF DownlinkTracks, Tasks, ScheduleOK
  <1>5. MetricsTrack(Ready, 0)
    <2>1. RealSamples(0) = {} /\ RemoteSamples(0) = {}
      BY SamplesNext
    <2>2. Windowed(NoMetrics, {}, RealCosts) /\ Windowed(NoMetrics, {}, RemoteCosts)
      BY WindowedFirst
    <2>3. NoMetrics.violations = 0 /\ NoMetrics.critical = FALSE
      BY DEF NoMetrics
    <2>4. Cardinality(OverIn({})) = 0
      <3>1. OverIn({}) = {}
        BY DEF OverIn
      <3> QED
        BY <3>1, FS_EmptySet
    <2>5. CurveIn({}) = FALSE
      BY DEF CurveIn
    <2> QED
      BY <1>1, <2>1, <2>2, <2>3, <2>4, <2>5 DEF MetricsTrack
  <1> QED
    BY <1>1, <1>2, <1>3, <1>4, <1>5 DEF Tracks

\* A step with the pulses of its tick's batch keeps the instance on the ideal run.
LEMMA TracksNext ==
  ASSUME ScheduleOK, NEW n \in Ticks, NEW f, Tracks(f, n), Triggers(f, n), f.velocity = n, f.ff_ref = n
  PROVE  Tracks(DoStep(f), n + 1)
  <1> DEFINE g == DoStep(f)
             c == f.chain
             d == g.chain
             rec == Received(f.sc, c.sc_rec)
             arr == Received(f.ca, [delta |-> c.ca_fb, ff |-> c.ca_ff]).delta
             packet == [delta |-> d.agg_out, ff |-> d.ff_out]
  <1>1. n \in Nat /\ n + 1 \in Nat
    BY StopTickAssumption DEF Ticks
  <1>2. /\ IsInstance(f) /\ f.phys = n /\ f.step = n /\ IsChain(c) /\ ChainTracks(c, n)
        /\ UplinkTracks(f.sc, n) /\ DownlinkTracks(f.ca, n) /\ MetricsTrack(f, n)
    BY DEF Tracks
  <1>3. Moves(f, g, n)
    BY <1>2, StepMoves
  <1>4. IsInstance(g)
    BY <1>2, Stepped
  <1> HIDE DEF g
  <1>5. /\ g.phys = n + 1 /\ g.step = n + 1 /\ IsChain(d)
        /\ Published(c, d, n, rec, arr) /\ Computed(c, d, n)
        /\ g.sc = (IF n \in Sends(1)
                   THEN Push(IF n \in Deliveries(1, schedule.up) THEN Dequeued(f.sc) ELSE f.sc, d.sens_out)
                   ELSE IF n \in Deliveries(1, schedule.up) THEN Dequeued(f.sc) ELSE f.sc)
        /\ g.ca = (IF n \in Sends(5)
                   THEN Push(IF n \in Deliveries(5, schedule.down) THEN Dequeued(f.ca) ELSE f.ca, packet)
                   ELSE IF n \in Deliveries(5, schedule.down) THEN Dequeued(f.ca) ELSE f.ca)
        /\ g.real = (IF n % SampleSteps = 0 THEN Measured(f.real, n + 1, n) ELSE f.real)
        /\ g.remote = (IF n \in Starts(2) THEN Measured(f.remote, d.sc_rec.x, d.ff_out) ELSE f.remote)
    BY <1>3 DEF Moves
  <1>6. /\ n \in Deliveries(1, schedule.up) => \A old : Received(f.sc, old) = IdealReading(n - schedule.up)
        /\ (n \in Sends(1) => d.sens_out = IdealReading(n)) => UplinkTracks(g.sc, n + 1)
    BY <1>1, <1>2, <1>5, UplinkNext
  <1>7. /\ n \in Deliveries(5, schedule.down) =>
               \A old : Received(f.ca, old).delta = IdealCommand(n - schedule.down)
        /\ (n \in Sends(5) => packet.delta = IdealCommand(n)) => DownlinkTracks(g.ca, n + 1)
    <2> HIDE DEF packet
    <2> QED
      BY <1>1, <1>2, <1>5, DownlinkNext
  <1>8. ChainTracks(d, n + 1)
    <2>1. /\ n \in Deliveries(1, schedule.up) => rec = IdealReading(n - schedule.up)
          /\ n \in Deliveries(5, schedule.down) => arr = IdealCommand(n - schedule.down)
      BY <1>6, <1>7
    <2> HIDE DEF rec, arr, c, d
    <2> QED
      BY <1>2, <1>5, <2>1, ChainNext
  <1>9. d.sens_out = IdealReading(n + 1) /\ d.agg_out = IdealCommand(n + 1)
    BY <1>1, <1>8, ChainShows
  <1>10. UplinkTracks(g.sc, n + 1)
    <2>1. n \in Sends(1) => IdealReading(n + 1) = IdealReading(n)
      BY <1>1, Carried
    <2> QED
      BY <1>6, <1>9, <2>1
  <1>11. DownlinkTracks(g.ca, n + 1)
    <2>1. n \in Sends(5) => IdealCommand(n + 1) = IdealCommand(n)
      BY <1>1, Carried
    <2> QED
      BY <1>7, <1>9, <2>1
  <1>12. MetricsTrack(g, n + 1)
    <2>1. d.sc_rec = EstimateAt(n).meas
      <3>1. d.sc_rec = IdealReceived(n + 1)
        BY <1>8 DEF ChainTracks
      <3> QED
        BY <3>1 DEF EstimateAt
    <2>2. n \in Starts(2) => d.sc_rec.x = EstimateAt(n).meas.x
      BY <2>1
    <2> DEFINE stamp == d.sc_rec.x
               reference == d.ff_out
    <2>3. /\ g.real = (IF n % SampleSteps = 0 THEN Measured(f.real, n + 1, n) ELSE f.real)
          /\ g.remote = (IF n \in Starts(2) THEN Measured(f.remote, stamp, reference) ELSE f.remote)
      BY <1>5
    <2> HIDE DEF stamp, reference
    <2> QED
      BY <1>2, <2>2, <2>3, MetricsNext DEF stamp
  <1>13. Tracks(g, n + 1)
    BY <1>4, <1>5, <1>8, <1>10, <1>11, <1>12 DEF Tracks
  <1> QED
    BY <1>13 DEF g

\* The trigger inputs and what is fed to the instance are not part of what tracks the run.
LEMMA TracksOther ==
  ASSUME NEW f, NEW n, Tracks(f, n), NEW g, IsInstance(g), SameExcept(g, f, {"trig", "ff_ref", "velocity"})
  PROVE  Tracks(g, n)
  <1>1. /\ g.phys = f.phys /\ g.step = f.step /\ g.chain = f.chain /\ g.sc = f.sc /\ g.ca = f.ca
        /\ g.real = f.real /\ g.remote = f.remote
    BY DEF SameExcept, FmuFields
  <1>2. MetricsTrack(g, n)
    BY <1>1 DEF Tracks, MetricsTrack
  <1> QED
    BY <1>1, <1>2 DEF Tracks

\* The chosen schedule never changes, and with it the ideal run.
LEMMA TicksSame ==
  ASSUME UNCHANGED schedule
  PROVE  /\ \A k : Starts(k)' = Starts(k) /\ Finishes(k)' = Finishes(k) /\ Sends(k)' = Sends(k)
         /\ \A k, dl : Deliveries(k, dl)' = Deliveries(k, dl)
         /\ \A k, n : LastStart(k, n)' = LastStart(k, n)
         /\ \A k, dl, n : LastCarried(k, dl, n)' = LastCarried(k, dl, n)
         /\ \A n : RealSamples(n)' = RealSamples(n) /\ RemoteSamples(n)' = RemoteSamples(n)
  <1>1. \A k : Starts(k)' = Starts(k)
    BY DEF Starts
  <1>2. \A k : Finishes(k)' = Finishes(k)
    BY <1>1 DEF Finishes
  <1>3. \A k : Sends(k)' = Sends(k)
    BY <1>2 DEF Sends
  <1>4. \A k, dl : Deliveries(k, dl)' = Deliveries(k, dl)
    BY <1>3 DEF Deliveries
  <1>5. \A k, n : LastStart(k, n)' = LastStart(k, n)
    BY <1>2 DEF LastStart
  <1>6. \A k, dl, n : LastCarried(k, dl, n)' = LastCarried(k, dl, n)
    BY <1>4 DEF LastCarried
  <1>7. \A n : RealSamples(n)' = RealSamples(n) /\ RemoteSamples(n)' = RemoteSamples(n)
    BY <1>1 DEF RealSamples, RemoteSamples
  <1> QED
    BY <1>1, <1>2, <1>3, <1>4, <1>5, <1>6, <1>7

\* The ideal signals depend on the schedule alone.
LEMMA IdealsSame ==
  ASSUME UNCHANGED schedule
  PROVE  /\ \A n : IdealReading(n)' = IdealReading(n) /\ IdealReceived(n)' = IdealReceived(n)
         /\ \A n : IdealReference(n)' = IdealReference(n) /\ EstimateAt(n)' = EstimateAt(n)
         /\ \A n : IdealEstimate(n)' = IdealEstimate(n) /\ IdealFeedback(n)' = IdealFeedback(n)
         /\ \A n : IdealYawRate(n)' = IdealYawRate(n) /\ IdealCommand(n)' = IdealCommand(n)
         /\ \A n : IdealArrived(n)' = IdealArrived(n) /\ IdealActuation(n)' = IdealActuation(n)
         /\ \A n : IdealSignals(n)' = IdealSignals(n)
  <1>1. \A n : IdealReading(n)' = IdealReading(n)
    BY TicksSame DEF IdealReading
  <1>2. \A n : IdealReceived(n)' = IdealReceived(n)
    BY <1>1, TicksSame DEF IdealReceived
  <1>3. \A n : IdealReference(n)' = IdealReference(n)
    BY TicksSame DEF IdealReference
  <1>4. \A n : EstimateAt(n)' = EstimateAt(n)
    BY <1>2, <1>3, TicksSame DEF EstimateAt
  <1>5. \A n : IdealEstimate(n)' = IdealEstimate(n)
    BY <1>4, TicksSame DEF IdealEstimate
  <1>6. \A n : IdealFeedback(n)' = IdealFeedback(n)
    BY <1>5, TicksSame DEF IdealFeedback
  <1>7. \A n : IdealYawRate(n)' = IdealYawRate(n)
    BY <1>5, TicksSame DEF IdealYawRate
  <1>8. \A n : IdealCommand(n)' = IdealCommand(n)
    BY <1>5, <1>6, <1>7, TicksSame DEF IdealCommand
  <1>9. \A n : IdealArrived(n)' = IdealArrived(n)
    BY <1>8, TicksSame DEF IdealArrived
  <1>10. \A n : IdealActuation(n)' = IdealActuation(n)
    BY <1>9, TicksSame DEF IdealActuation
  <1>11. \A n : IdealSignals(n)' = IdealSignals(n)
    <2>1. ASSUME NEW n PROVE IdealSignals(n)' = IdealSignals(n)
      <3>1. RealSamples(n)' = RealSamples(n) /\ RemoteSamples(n)' = RemoteSamples(n)
        BY TicksSame
      <3>2. IdealActuation(n)' = IdealActuation(n)
        BY <1>10
      <3>3. Total([t \in Window(RealSamples(n)) |-> Cost(t + 1)])'
                = Total([t \in Window(RealSamples(n)) |-> Cost(t + 1)])
        BY <3>1
      <3>4. [t \in Window(RemoteSamples(n)) |-> Cost(EstimateAt(t).meas.x)]'
                = [t \in Window(RemoteSamples(n)) |-> Cost(EstimateAt(t).meas.x)]
        BY <1>4, <3>1
      <3>5. Total([t \in Window(RemoteSamples(n)) |-> Cost(EstimateAt(t).meas.x)])'
                = Total([t \in Window(RemoteSamples(n)) |-> Cost(EstimateAt(t).meas.x)])
        BY <3>4
      <3>6. (\E t \in RealSamples(n) : t = Max(RealSamples(n)) /\ InCurve(t))'
                = (\E t \in RealSamples(n) : t = Max(RealSamples(n)) /\ InCurve(t))
        BY <3>1
      <3>7. Cardinality({t \in RealSamples(n) : OverThreshold(t + 1)})'
                = Cardinality({t \in RealSamples(n) : OverThreshold(t + 1)})
        BY <3>1
      <3> QED
        BY <3>2, <3>3, <3>5, <3>6, <3>7 DEF IdealSignals
    <2> QED
      BY <2>1
  <1> QED
    BY <1>1, <1>2, <1>3, <1>4, <1>5, <1>6, <1>7, <1>8, <1>9, <1>10, <1>11

\* Tracking the ideal run depends on the schedule and the instance alone.
LEMMA TracksSame ==
  ASSUME UNCHANGED schedule
  PROVE  \A f, n : Tracks(f, n)' <=> Tracks(f, n)
  <1>1. /\ SensedAt' = SensedAt /\ ReferenceAt' = ReferenceAt /\ Ticks' = Ticks
        /\ EstimatedAt' = EstimatedAt /\ FedBackAt' = FedBackAt /\ YawRateAt' = YawRateAt
        /\ CommandAt' = CommandAt /\ ArrivedAt' = ArrivedAt
        /\ Readings' = Readings /\ Commands' = Commands
        /\ RealCosts' = RealCosts /\ RemoteCosts' = RemoteCosts
    BY IdealsSame DEF SensedAt, ReferenceAt, Ticks, EstimatedAt, FedBackAt, YawRateAt, CommandAt, ArrivedAt,
                      Readings, Commands, RealCosts, RemoteCosts
  <1>2. \A k, n, F, init, comp, out : Stage(k, n, F, init, comp, out)' <=> Stage(k, n, F, init, comp, out)
    BY TicksSame DEF Stage, At
  <1>3. \A c, n : ChainTracks(c, n)' <=> ChainTracks(c, n)
    BY <1>1, <1>2, IdealsSame DEF ChainTracks
  <1>4. \A b, held, k, dl, n, P : Flight(b, held, k, dl, n, P)' <=> Flight(b, held, k, dl, n, P)
    <2>1. \A k, j : SendAt(k, j)' = SendAt(k, j) /\ StartsAt(k, j)' = StartsAt(k, j)
      BY DEF SendAt, StartsAt
    <2>2. \A k, a, x : Sent(k, a, x)' <=> Sent(k, a, x)
      BY <2>1 DEF Sent
    <2>3. \A b, held, k, dl, n, P, a, c : Flying(b, held, k, dl, n, P, a, c)' <=> Flying(b, held, k, dl, n, P, a, c)
      BY <2>1, <2>2 DEF Flying
    <2> QED
      BY <2>3 DEF Flight
  <1>5. \A b, n : (UplinkTracks(b, n)' <=> UplinkTracks(b, n)) /\ (DownlinkTracks(b, n)' <=> DownlinkTracks(b, n))
    BY <1>1, <1>4 DEF UplinkTracks, DownlinkTracks
  <1>6. \A f, n : MetricsTrack(f, n)' <=> MetricsTrack(f, n)
    BY <1>1, TicksSame DEF MetricsTrack
  <1> QED
    BY <1>3, <1>5, <1>6 DEF Tracks

\* What is observed of an instance that tracks the ideal run is the ideal run.
LEMMA Observed ==
  ASSUME ScheduleOK, NEW n \in Ticks, NEW f, Tracks(f, n)
  PROVE  Observation(f, n) = [tick |-> n, signals |-> IdealSignals(n)]
  <1> DEFINE names == {"lateral_error", "actuator_command", "rolling_real", "rolling_remote",
                       "violation_counter", "critical_section"}
             G(s) == GetValue(f, OutputReferences[s])
             Real == [t \in Window(RealSamples(n)) |-> RealCosts[t]]
             Remote == [t \in Window(RemoteSamples(n)) |-> RemoteCosts[t]]
  <1>1. n \in Nat /\ StopTick \in Nat /\ n <= StopTick
    BY StopTickAssumption DEF Ticks
  <1>2. DOMAIN OutputReferences = names
    BY DEF OutputReferences
  <1>3. /\ OutputReferences["lateral_error"] = 1004 /\ OutputReferences["actuator_command"] = 1022
        /\ OutputReferences["rolling_real"] = 1030 /\ OutputReferences["rolling_remote"] = 1029
        /\ OutputReferences["violation_counter"] = 1036 /\ OutputReferences["critical_section"] = 1027
    BY DEF OutputReferences
  <1>4. /\ VariableAt(1004).name = "phys" /\ VariableAt(1022).name = "act" /\ VariableAt(1027).name = "real_critical"
        /\ VariableAt(1029).name = "remote_rolling" /\ VariableAt(1030).name = "real_rolling"
        /\ VariableAt(1036).name = "real_violations"
    BY References
  <1>5. /\ G("lateral_error") = f.phys /\ G("actuator_command") = f.chain.act_out
        /\ G("rolling_real") = f.real.rolling /\ G("rolling_remote") = f.remote.rolling
        /\ G("violation_counter") = f.real.violations /\ G("critical_section") = f.real.critical
    BY <1>3, <1>4 DEF GetValue, Visible
  <1>6. /\ f.phys = n /\ f.chain.act_out = IdealActuation(n)
        /\ f.real.violations = Cardinality(OverIn(RealSamples(n))) /\ f.real.critical = CurveIn(RealSamples(n))
        /\ f.real.rolling = Total(Real) /\ f.remote.rolling = Total(Remote)
    BY <1>1, ChainShows DEF Tracks, MetricsTrack, Windowed
  <1>7. Real = [t \in Window(RealSamples(n)) |-> Cost(t + 1)]
        /\ Remote = [t \in Window(RemoteSamples(n)) |-> Cost(EstimateAt(t).meas.x)]
    <2>1. \A t \in RealSamples(n) \cup RemoteSamples(n) : t \in Ticks
      <3>1. \A t \in RealSamples(n) \cup RemoteSamples(n) : t \in Nat /\ t < n
        BY <1>1, SamplesNext
      <3> QED
        BY <1>1, <3>1 DEF Ticks
    <2>2. Window(RealSamples(n)) \subseteq RealSamples(n) /\ Window(RemoteSamples(n)) \subseteq RemoteSamples(n)
      BY DEF Window
    <2>3. \A t \in Window(RealSamples(n)) : RealCosts[t] = Cost(t + 1)
      BY <2>1, <2>2 DEF RealCosts
    <2>4. \A t \in Window(RemoteSamples(n)) : RemoteCosts[t] = Cost(EstimateAt(t).meas.x)
      BY <2>1, <2>2 DEF RemoteCosts
    <2> QED
      BY <2>3, <2>4
  <1> DEFINE I == IdealSignals(n)
  <1>8. /\ I = [s \in names |-> I[s]]
        /\ I["lateral_error"] = n /\ I["actuator_command"] = IdealActuation(n)
        /\ I["rolling_real"] = Total(Real) /\ I["rolling_remote"] = Total(Remote)
        /\ I["violation_counter"] = Cardinality(OverIn(RealSamples(n)))
        /\ I["critical_section"] = CurveIn(RealSamples(n))
    <2> HIDE DEF Real, Remote
    <2> QED
      BY <1>7 DEF IdealSignals, OverIn, CurveIn
  <1> HIDE DEF I, G, Real, Remote
  <1>9. \A s \in names : G(s) = I[s]
    BY <1>5, <1>6, <1>8
  <1>10. [s \in DOMAIN OutputReferences |-> GetValue(f, OutputReferences[s])] = [s \in names |-> G(s)]
    BY <1>2 DEF G
  <1>11. [s \in names |-> G(s)] = I
    BY <1>8, <1>9
  <1> QED
    BY <1>10, <1>11 DEF Observation, I

\* A usable model's instance tracks the ideal run, and its last observation showed it.
OnTheIdealRun ==
    /\ Active => Tracks(fmu, adapter.current)
    /\ adapter.initialized /\ ~ adapter.thrown =>
           row = [tick |-> adapter.current, signals |-> IdealSignals(adapter.current)]

\* Initializing puts the instance on the ideal run.
LEMMA StartOnIdeal ==
  ASSUME RunInv, StartRun PROVE OnTheIdealRun'
  <1>1. ~ adapter.initialized /\ UNCHANGED schedule /\ ScheduleOK
    BY ScheduleFacts DEF StartRun, Initialize, RunInv, RunTypeOK
  <1>2. \/ adapter' = [adapter EXCEPT !.initialized = TRUE] /\ fmu' = Ready /\ row' = Observation(Ready, 0)
        \/ adapter' = [adapter EXCEPT !.thrown = TRUE]
        \/ adapter' = [adapter EXCEPT !.initialized = TRUE, !.thrown = TRUE]
    BY DEF StartRun, Initialize, Thrown, Ready
  <1>3. adapter.current = 0
    BY <1>1 DEF RunInv, StartedComplete
  <1>4. CASE adapter' = [adapter EXCEPT !.initialized = TRUE] /\ fmu' = Ready /\ row' = Observation(Ready, 0)
    <2>1. Tracks(Ready, 0)
      BY <1>1, TracksFirst
    <2>2. row' = [tick |-> 0, signals |-> IdealSignals(0)]
      <3>1. 0 \in Ticks
        BY StopTickAssumption DEF Ticks
      <3> QED
        BY <1>1, <1>4, <2>1, <3>1, Observed
    <2>3. adapter'.current = 0
      BY <1>3, <1>4 DEF RunInv, RunTypeOK, AdapterFields
    <2>4. Tracks(fmu, adapter.current)'
      BY <1>1, <1>4, <2>1, <2>3, TracksSame
    <2>5. IdealSignals(adapter.current)' = IdealSignals(0)
      BY <1>1, <2>3, IdealsSame
    <2> QED
      BY <2>2, <2>3, <2>4, <2>5 DEF OnTheIdealRun
  <1>5. CASE adapter'.thrown
    BY <1>5 DEF OnTheIdealRun, Active
  <1>6. adapter' = [adapter EXCEPT !.thrown = TRUE] => adapter'.thrown
    BY DEF RunInv, RunTypeOK, AdapterFields
  <1>7. adapter' = [adapter EXCEPT !.initialized = TRUE, !.thrown = TRUE] => adapter'.thrown
    BY DEF RunInv, RunTypeOK, AdapterFields
  <1> QED
    BY <1>2, <1>4, <1>5, <1>6, <1>7

\* Telling the batch leaves the instance there.
LEMMA TellOnIdeal ==
  ASSUME RunInv, OnTheIdealRun, TellActions PROVE OnTheIdealRun'
  <1> DEFINE t == adapter.current
             pulses == PulsesOf(BatchSequence(t))
  <1>1. Active /\ UNCHANGED <<schedule, row>>
    BY DEF TellActions, ApplyActions, Thrown
  <1>2. /\ adapter.initialized /\ IsInstance(fmu) /\ fmu.trig \in Flags /\ t \in Int
        /\ Tracks(fmu, t) /\ row = [tick |-> t, signals |-> IdealSignals(t)]
    BY <1>1, StopTickAssumption DEF RunInv, StartedComplete, OnTheIdealRun, Active, RunTypeOK
  <1>3. pulses \in Seq(100 .. 115)
    BY <1>2, PulsesTold
  <1>4. \/ adapter' = [adapter EXCEPT !.thrown = TRUE]
        \/ \E done \in Prefixes(pulses) :
               /\ fmu' = Written(fmu, done, TRUE)
               /\ adapter' = [adapter EXCEPT !.active = adapter.active \o done, !.thrown = done # pulses]
    BY DEF TellActions, ApplyActions, Thrown
  <1>5. CASE adapter' = [adapter EXCEPT !.thrown = TRUE]
    <2>1. adapter'.thrown
      BY <1>5 DEF RunInv, RunTypeOK, AdapterFields
    <2> QED
      BY <2>1 DEF OnTheIdealRun, Active
  <1> HIDE DEF pulses
  <1>6. ASSUME NEW done \in Prefixes(pulses), fmu' = Written(fmu, done, TRUE),
               adapter' = [adapter EXCEPT !.active = adapter.active \o done, !.thrown = done # pulses]
        PROVE  OnTheIdealRun'
    <2>1. done \in Seq(100 .. 115) /\ TRUE \in BOOLEAN
      BY <1>3, PrefixesSeq
    <2>2. IsInstance(fmu') /\ SameExcept(fmu', fmu, {"trig"})
      BY <1>2, <1>6, <2>1, WrittenSets
    <2>3. SameExcept(fmu', fmu, {"trig", "ff_ref", "velocity"})
      BY <2>2 DEF SameExcept
    <2>4. Tracks(fmu', t)
      BY <1>2, <2>2, <2>3, TracksOther
    <2>5. adapter'.current = t
      BY <1>6 DEF RunInv, RunTypeOK, AdapterFields
    <2>6. Tracks(fmu, adapter.current)'
      BY <1>1, <2>4, <2>5, TracksSame
    <2>7. IdealSignals(adapter.current)' = IdealSignals(t)
      BY <1>1, <2>5, IdealsSame
    <2> QED
      BY <1>1, <1>2, <2>5, <2>6, <2>7 DEF OnTheIdealRun
  <1> QED
    BY <1>4, <1>5, <1>6

\* A step takes the instance to the next tick of the ideal run, and observes it.
LEMMA AdvanceOnIdeal ==
  ASSUME RunInv, OnTheIdealRun, Advance PROVE OnTheIdealRun'
  <1> DEFINE t == adapter.current
             fed == WithInputs(fmu, t)
             stepped == DoStep(fed)
             reset == Written(stepped, adapter.active, FALSE)
             next == t + 1
  <1>1. Active /\ told /\ UNCHANGED schedule /\ t < StopTick /\ ScheduleOK
    BY ScheduleFacts DEF Advance, AdvanceOneTick, RunInv, RunTypeOK
  <1>2. /\ IsInstance(fmu) /\ fmu.trig \in Flags /\ Tracks(fmu, t)
        /\ adapter.active \in Seq(100 .. 115) /\ t \in Ticks /\ next \in Ticks
    BY <1>1, StopTickAssumption DEF RunInv, StartedComplete, OnTheIdealRun, Active, RunTypeOK, Ticks
  <1>3. Triggers(fmu, t)
    <2>1. \A i \in 1 .. 16 : fmu.trig[i] <=> \E e \in Accepted(t) : Column(Trigger(e)) = i
      BY <1>1 DEF RunInv, PulsesRemembered
    <2> QED
      BY <2>1 DEF Triggers, Pulsed
  <1>4. \/ /\ fmu' = reset /\ row' = Observation(reset, next)
           /\ adapter' = [adapter EXCEPT !.current = next, !.active = <<>>]
        \/ adapter' = [adapter EXCEPT !.thrown = TRUE]
    BY DEF Advance, AdvanceOneTick, AfterReset, Thrown
  <1>5. CASE adapter' = [adapter EXCEPT !.thrown = TRUE]
    <2>1. adapter'.thrown
      BY <1>5 DEF RunInv, RunTypeOK, AdapterFields
    <2> QED
      BY <2>1 DEF OnTheIdealRun, Active
  <1>6. CASE /\ fmu' = reset /\ row' = Observation(reset, next)
             /\ adapter' = [adapter EXCEPT !.current = next, !.active = <<>>]
    <2>1. IsInstance(fed) /\ SameExcept(fed, fmu, {"ff_ref", "velocity"}) /\ fed.ff_ref = t /\ fed.velocity = t
      BY <1>2, Fed
    <2> HIDE DEF fed
    <2>2. Tracks(fed, t)
      <3>1. SameExcept(fed, fmu, {"trig", "ff_ref", "velocity"})
        BY <2>1 DEF SameExcept
      <3> QED
        BY <1>2, <2>1, <3>1, TracksOther
    <2>3. fed.trig = fmu.trig
      BY <2>1 DEF SameExcept, FmuFields
    <2>4. Triggers(fed, t)
      BY <1>3, <2>3 DEF Triggers
    <2>5. Tracks(stepped, next)
      BY <1>1, <1>2, <2>1, <2>2, <2>4, TracksNext
    <2>6. IsInstance(stepped) /\ stepped.trig \in Flags
      <3>1. IsInstance(stepped) /\ SameExcept(stepped, fed, StepFields)
        BY <2>1, Stepped
      <3> HIDE DEF stepped
      <3> QED
        BY <1>2, <2>3, <3>1 DEF SameExcept, FmuFields, StepFields
    <2> HIDE DEF stepped
    <2>7. IsInstance(reset) /\ SameExcept(reset, stepped, {"trig"})
      <3>1. FALSE \in BOOLEAN
        OBVIOUS
      <3> QED
        BY <1>2, <2>6, <3>1, WrittenSets
    <2> HIDE DEF reset
    <2>8. Tracks(reset, next)
      <3>1. SameExcept(reset, stepped, {"trig", "ff_ref", "velocity"})
        BY <2>7 DEF SameExcept
      <3> QED
        BY <2>5, <2>7, <3>1, TracksOther
    <2>9. Observation(reset, next) = [tick |-> next, signals |-> IdealSignals(next)]
      BY <1>1, <1>2, <2>8, Observed
    <2> HIDE DEF next
    <2>10. adapter'.current = next
      BY <1>6 DEF RunInv, RunTypeOK, AdapterFields
    <2>11. Tracks(fmu, adapter.current)'
      BY <1>1, <1>6, <2>8, <2>10, TracksSame
    <2>12. IdealSignals(adapter.current)' = IdealSignals(next)
      BY <1>1, <2>10, IdealsSame
    <2> QED
      BY <1>6, <2>9, <2>10, <2>11, <2>12 DEF OnTheIdealRun
  <1> QED
    BY <1>4, <1>5, <1>6

\* Terminating observes nothing new.
LEMMA FinishOnIdeal ==
  ASSUME RunInv, OnTheIdealRun, FinishRun PROVE OnTheIdealRun'
  <1>1. Active /\ UNCHANGED <<row, schedule>>
    BY DEF FinishRun, Finalize, Thrown
  <1>2. \/ adapter' = [adapter EXCEPT !.thrown = TRUE]
        \/ adapter' = [adapter EXCEPT !.finalized = TRUE]
    BY DEF FinishRun, Finalize, Thrown
  <1>3. /\ ~ Active' /\ adapter'.current = adapter.current
        /\ ~ adapter'.thrown => adapter.initialized /\ ~ adapter.thrown
    BY <1>1, <1>2 DEF RunInv, RunTypeOK, AdapterFields, Active
  <1>4. IdealSignals(adapter.current)' = IdealSignals(adapter.current)
    BY <1>1, <1>3, IdealsSame
  <1> QED
    BY <1>1, <1>3, <1>4 DEF OnTheIdealRun

\* Every step of the run stays on the ideal run.
LEMMA OnTheIdealRunKept ==
  RunInv /\ OnTheIdealRun /\ [RunNext]_runVars => OnTheIdealRun'
  <1> SUFFICES ASSUME RunInv, OnTheIdealRun, [RunNext]_runVars PROVE OnTheIdealRun'
    OBVIOUS
  <1>1. CASE UNCHANGED runVars
    <2>1. UNCHANGED <<schedule, adapter, fmu, row>>
      BY <1>1 DEF runVars, boschVars
    <2>2. Tracks(fmu, adapter.current)' <=> Tracks(fmu, adapter.current)
      BY <2>1, TracksSame
    <2>3. IdealSignals(adapter.current)' = IdealSignals(adapter.current)
      BY <2>1, IdealsSame
    <2> QED
      BY <2>1, <2>2, <2>3 DEF OnTheIdealRun, Active
  <1> QED
    BY <1>1, StartOnIdeal, TellOnIdeal, AdvanceOnIdeal, FinishOnIdeal DEF RunNext

\* Every observation of a run that has not thrown is the one the trace implies, for every
\* schedule, every network delay that the buffers can hold and every window and sampling
\* interval (process_trigger_events, computePerformance, advance_to): no packet is lost or
\* taken twice, no stage shows a result early or late, and no sample is counted twice.
THEOREM ObservationsAreIdeal == RunSpec => []ObservationsFollowTrace
  <1>1. RunInit => OnTheIdealRun
    BY DEF RunInit, BoschInit, OnTheIdealRun, Active
  <1>2. RunInv /\ OnTheIdealRun => ObservationsFollowTrace
    <2> SUFFICES ASSUME RunInv, OnTheIdealRun PROVE ObservationsFollowTrace
      OBVIOUS
    <2>1. adapter.initialized => fmu.set = ParameterSet
      BY DEF RunInv, StartedComplete
    <2> QED
      BY <2>1 DEF OnTheIdealRun, ObservationsFollowTrace, ParameterSet
  <1> QED
    BY <1>1, <1>2, OnTheIdealRunKept, RunInvariant, PTL DEF RunSpec

=============================================================================
