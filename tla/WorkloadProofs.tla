---------------------------- MODULE WorkloadProofs ----------------------------
(***************************************************************************)
(* Proofs about the planned workloads: for every number of CPUs, the steps  *)
(* of a benchmark make no more requests than Plan has announced, nor, but   *)
(* for iperf2 and NDT7, take more time; and but for memory on a host with   *)
(* one CPU they name no metric twice.  A workload is put                    *)
(* together from a few sequences of steps: the lemmas say what each adds,   *)
(* first to the seconds and the requests, then to the names.                *)
(***************************************************************************)
EXTENDS Workloads, TLAPS

-----------------------------------------------------------------------------
(* Sums of costs. *)

\* sum[i] is what the first i of n costs add up to.
Sums(sum, cost, n, total) ==
    /\ sum \in [0..n -> Nat]
    /\ sum[0] = 0 /\ sum[n] = total
    /\ \A i \in 0..n : sum[i] <= total
    /\ \A i \in 1..n : sum[i] = sum[i - 1] + cost[i]

Total(cost, n, total) ==
    /\ n \in Nat /\ cost \in [1..n -> Nat] /\ total \in Nat
    /\ \E sum : Sums(sum, cost, n, total)

\* The costs of one sequence after those of another add up to both totals.
LEMMA ConcatTotal ==
    ASSUME NEW c, NEW m, NEW s, Total(c, m, s),
           NEW d, NEW n, NEW t, Total(d, n, t),
           NEW e \in [1..(m + n) -> Nat],
           \A i \in 1..m : e[i] = c[i],
           \A i \in 1..n : e[m + i] = d[i]
    PROVE  Total(e, m + n, s + t)
<1>1. PICK f : Sums(f, c, m, s)
    BY DEF Total
<1>2. PICK g : Sums(g, d, n, t)
    BY DEF Total
<1>3. m \in Nat /\ n \in Nat /\ s \in Nat /\ t \in Nat
    BY DEF Total
<1> DEFINE h == [i \in 0..(m + n) |-> IF i <= m THEN f[i] ELSE s + g[i - m]]
<1>4. \A i \in 0..m : h[i] = f[i] /\ h[i] \in Nat /\ h[i] <= s
    BY <1>1, <1>3 DEF Sums
<1>5. \A j \in 0..n : h[m + j] = s + g[j] /\ g[j] \in Nat /\ g[j] <= t
  <2> TAKE j \in 0..n
  <2>1. CASE j = 0
    BY <1>1, <1>2, <1>3, <2>1 DEF Sums
  <2>2. CASE j # 0
    <3>1. m + j \in 0..(m + n) /\ ~(m + j <= m) /\ (m + j) - m = j
      BY <1>3, <2>2
    <3> QED BY <1>2, <3>1 DEF Sums
  <2> QED BY <2>1, <2>2
<1>6. \A i \in 0..(m + n) : i \in 0..m \/ \E j \in 1..n : i = m + j
  <2> TAKE i \in 0..(m + n)
  <2>1. i \in 0..m \/ (i - m \in 1..n /\ i = m + (i - m))
    BY <1>3
  <2> QED BY <2>1
<1>7. h = [i \in 0..(m + n) |-> h[i]]
    OBVIOUS
<1> HIDE DEF h
<1>8. \A i \in 0..(m + n) : h[i] \in Nat /\ h[i] <= s + t
  <2> TAKE i \in 0..(m + n)
  <2>1. CASE i \in 0..m
    <3>1. h[i] \in Nat /\ h[i] <= s
      BY <1>4, <2>1
    <3> QED BY <1>3, <3>1
  <2>2. CASE \E j \in 1..n : i = m + j
    <3>1. PICK j \in 1..n : i = m + j
      BY <2>2
    <3>2. h[i] = s + g[j] /\ g[j] \in Nat /\ g[j] <= t
      BY <1>5, <3>1
    <3>3. \A a \in Nat : a <= t => s + a \in Nat /\ s + a <= s + t
      BY <1>3
    <3> QED BY <3>2, <3>3
  <2> QED BY <1>6, <2>1, <2>2
<1>9. \A i \in 1..(m + n) : h[i] = h[i - 1] + e[i]
  <2> TAKE i \in 1..(m + n)
  <2>1. CASE i \in 0..m
    <3>1. i \in 1..m /\ i - 1 \in 0..m
        BY <1>3, <2>1
    <3>2. f[i] = f[i - 1] + c[i]
       BY <1>1, <3>1 DEF Sums
    <3> QED BY <1>4, <3>1, <3>2
  <2>2. CASE \E j \in 1..n : i = m + j
    <3>1. PICK j \in 1..n : i = m + j
      BY <2>2
    <3>2. j - 1 \in 0..n /\ j \in 0..n /\ i - 1 = m + (j - 1)
      BY <1>3, <3>1
    <3>3. g[j] = g[j - 1] + d[j] /\ d[j] \in Nat
      BY <1>2, <3>1 DEF Sums, Total
    <3>4. h[i] = s + g[j] /\ h[i - 1] = s + g[j - 1] /\ g[j - 1] \in Nat
      BY <1>5, <3>1, <3>2
    <3>5. e[i] = d[j]
      BY <3>1
    <3>6. \A a, b \in Nat : s + (a + b) = (s + a) + b
      BY <1>3
    <3>7. h[i] = (s + g[j - 1]) + d[j]
      BY <3>3, <3>4, <3>6
    <3> QED BY <3>4, <3>5, <3>7
  <2>3. i \in 0..(m + n)
    BY <1>3
  <2> QED BY <1>6, <2>1, <2>2, <2>3
<1>10. h[0] = 0 /\ h[m + n] = s + t
  <2>1. h[0] = f[0] /\ h[m + n] = s + g[n]
    BY <1>3, <1>4, <1>5
  <2> QED BY <1>1, <1>2, <2>1 DEF Sums
<1>11. Sums(h, e, m + n, s + t)
    BY <1>7, <1>8, <1>9, <1>10 DEF Sums
<1> QED BY <1>3, <1>11 DEF Total

SecondsOf(steps) == [i \in 1..Len(steps) |-> steps[i].seconds]
RequestsOf(steps) == [i \in 1..Len(steps) |-> steps[i].requests]

Words == {"single", "multi", "scale", "read", "write", "copy", "sequential_read", "sequential_write",
          "random_read", "random_write", "large_upload", "large_download", "small_put", "small_get",
          "c1", "c32", "tpcb_like", "select_only", "simple_update", "upload", "download", "1_stream",
          "8_stream", "udp_throughput", "udp_jitter", "udp_loss", "download_throughput",
          "upload_throughput"}
Metrics == {<<a>> : a \in Words} \union (Words \X (Words \union Nat))
StepRecords == [seconds : Nat, requests : Nat, names : Seq(Metrics), fatal : BOOLEAN]

Costs(steps, t, r) ==
    /\ steps \in Seq(StepRecords)
    /\ Total(SecondsOf(steps), Len(steps), t)
    /\ Total(RequestsOf(steps), Len(steps), r)

\* steps add no names but those of S, and no name twice.
Apart(steps, S) ==
    /\ \A i \in 1..Len(steps) : ToSet(steps[i].names) \subseteq S /\ IsInjective(steps[i].names)
    /\ \A i, j \in 1..Len(steps) : i # j => ToSet(steps[i].names) \cap ToSet(steps[j].names) = {}

\* What two workloads take one after the other.
LEMMA ConcatCosts ==
    ASSUME NEW s, NEW t1, NEW r1, Costs(s, t1, r1),
           NEW u, NEW t2, NEW r2, Costs(u, t2, r2)
    PROVE  Costs(s \o u, t1 + t2, r1 + r2)
<1> DEFINE m == Len(s)
           n == Len(u)
<1>1. s \in Seq(StepRecords) /\ u \in Seq(StepRecords)
    BY DEF Costs
<1>2. s \o u \in Seq(StepRecords) /\ Len(s \o u) = m + n /\ m \in Nat /\ n \in Nat
    BY <1>1
<1>3. \A i \in 1..m : s[i] \in StepRecords /\ (s \o u)[i] = s[i]
    BY <1>1
<1>4. \A i \in 1..n : u[i] \in StepRecords /\ (s \o u)[m + i] = u[i]
    BY <1>1
<1>5. \A i \in 1..(m + n) : (s \o u)[i] \in StepRecords
    BY <1>2
<1>6. Total(SecondsOf(s \o u), m + n, t1 + t2)
  <2> DEFINE e == SecondsOf(s \o u)
  <2>1. e = [i \in 1..(m + n) |-> (s \o u)[i].seconds]
    BY <1>2 DEF SecondsOf
  <2>2. \A x \in StepRecords : x.seconds \in Nat
    BY DEF StepRecords
  <2>3. e \in [1..(m + n) -> Nat]
    BY <1>5, <2>1, <2>2
  <2>4. \A i \in 1..m : e[i] = SecondsOf(s)[i]
    BY <1>2, <1>3, <2>1 DEF SecondsOf
  <2>5. \A i \in 1..n : e[m + i] = SecondsOf(u)[i]
    BY <1>2, <1>4, <2>1 DEF SecondsOf
  <2>6. Total(SecondsOf(s), m, t1) /\ Total(SecondsOf(u), n, t2)
    BY DEF Costs
  <2> HIDE DEF e, m, n
  <2>7. Total(e, m + n, t1 + t2)
    BY <2>3, <2>4, <2>5, <2>6, ConcatTotal
  <2> QED BY <2>7 DEF e
<1>7. Total(RequestsOf(s \o u), m + n, r1 + r2)
  <2> DEFINE e == RequestsOf(s \o u)
  <2>1. e = [i \in 1..(m + n) |-> (s \o u)[i].requests]
    BY <1>2 DEF RequestsOf
  <2>2. \A x \in StepRecords : x.requests \in Nat
    BY DEF StepRecords
  <2>3. e \in [1..(m + n) -> Nat]
    BY <1>5, <2>1, <2>2
  <2>4. \A i \in 1..m : e[i] = RequestsOf(s)[i]
    BY <1>2, <1>3, <2>1 DEF RequestsOf
  <2>5. \A i \in 1..n : e[m + i] = RequestsOf(u)[i]
    BY <1>2, <1>4, <2>1 DEF RequestsOf
  <2>6. Total(RequestsOf(s), m, r1) /\ Total(RequestsOf(u), n, r2)
    BY DEF Costs
  <2> HIDE DEF e, m, n
  <2>7. Total(e, m + n, r1 + r2)
    BY <2>3, <2>4, <2>5, <2>6, ConcatTotal
  <2> QED BY <2>7 DEF e
<1> QED BY <1>2, <1>6, <1>7 DEF Costs

\* Every step takes t seconds and makes r requests.
Uniform(steps, n, t, r) ==
    /\ n \in Nat /\ t \in Nat /\ r \in Nat
    /\ steps = [i \in 1..n |-> steps[i]]
    /\ \A i \in 1..n : steps[i] \in StepRecords /\ steps[i].seconds = t /\ steps[i].requests = r

\* n equal steps take n times what one takes.
LEMMA UniformCosts ==
    ASSUME NEW steps, NEW n, NEW t, NEW r, Uniform(steps, n, t, r)
    PROVE  Costs(steps, n * t, n * r)
<1>1. n \in Nat /\ t \in Nat /\ r \in Nat /\ steps \in Seq(StepRecords) /\ Len(steps) = n
    BY DEF Uniform
<1>2. ASSUME NEW cost, cost = [i \in 1..n |-> cost[i]], NEW a \in Nat, \A i \in 1..n : cost[i] = a
      PROVE  Total(cost, n, n * a)
  <2> DEFINE sum == [i \in 0..n |-> i * a]
  <2>1. \A i \in 0..n : i * a \in Nat /\ i * a <= n * a
    <3> TAKE i \in 0..n
    <3>1. PICK k \in Nat : n = i + k
      <4>1. n - i \in Nat /\ n = i + (n - i)
        BY <1>1
      <4> QED BY <4>1
    <3>2. n * a = i * a + k * a /\ i * a \in Nat /\ k * a \in Nat
      BY <3>1, <1>2
    <3> QED BY <3>2
  <2>2. \A i \in 1..n : i * a = (i - 1) * a + a
    BY <1>1, <1>2
  <2>3. Sums(sum, cost, n, n * a)
    BY <1>1, <1>2, <2>1, <2>2 DEF Sums
  <2>4. cost \in [1..n -> Nat] /\ n * a \in Nat
    BY <1>1, <1>2
  <2> HIDE DEF sum
  <2> QED BY <1>1, <2>3, <2>4 DEF Total
<1>3. Total(SecondsOf(steps), n, n * t)
    BY <1>1, <1>2 DEF SecondsOf, Uniform
<1>4. Total(RequestsOf(steps), n, n * r)
    BY <1>1, <1>2 DEF RequestsOf, Uniform
<1> QED BY <1>1, <1>3, <1>4 DEF Costs

\* Two workloads that share no name, one after the other, add no name twice.
LEMMA ConcatApart ==
    ASSUME NEW s \in Seq(StepRecords), NEW S, Apart(s, S),
           NEW u \in Seq(StepRecords), NEW T, Apart(u, T), S \cap T = {}
    PROVE  Apart(s \o u, S \union T)
<1> DEFINE m == Len(s)
           n == Len(u)
           names(i) == ToSet((s \o u)[i].names)
<1>1. Len(s \o u) = m + n /\ m \in Nat /\ n \in Nat
    OBVIOUS
<1>2. \A i \in 1..m : (s \o u)[i] = s[i]
    OBVIOUS
<1>3. \A i \in 1..n : (s \o u)[m + i] = u[i]
    OBVIOUS
<1> HIDE DEF m, n
<1>4. \A i \in 1..(m + n) : i \in 1..m \/ \E k \in 1..n : i = m + k
  <2> TAKE i \in 1..(m + n)
  <2>1. i \in 1..m \/ (i - m \in 1..n /\ i = m + (i - m))
    BY <1>1
  <2> QED BY <2>1
<1>5. \A i \in 1..m : names(i) \subseteq S /\ IsInjective((s \o u)[i].names)
    BY <1>2 DEF Apart, m
<1>6. \A k \in 1..n : names(m + k) \subseteq T /\ IsInjective((s \o u)[m + k].names)
    BY <1>3 DEF Apart, n
<1>7. \A i, j \in 1..m : i # j => names(i) \cap names(j) = {}
    BY <1>2 DEF Apart, m
<1>8. \A k, l \in 1..n : k # l => names(m + k) \cap names(m + l) = {}
    BY <1>3 DEF Apart, n
<1> HIDE DEF names
<1>9. \A i, j \in 1..(m + n) : i # j => names(i) \cap names(j) = {}
  <2> SUFFICES ASSUME NEW i \in 1..(m + n), NEW j \in 1..(m + n), i # j
               PROVE  names(i) \cap names(j) = {}
    OBVIOUS
  <2>1. CASE i \in 1..m /\ j \in 1..m
    BY <1>7, <2>1
  <2>2. CASE i \in 1..m /\ \E l \in 1..n : j = m + l
    BY <1>5, <1>6, <2>2
  <2>3. CASE (\E k \in 1..n : i = m + k) /\ j \in 1..m
    BY <1>5, <1>6, <2>3
  <2>4. CASE (\E k \in 1..n : i = m + k) /\ (\E l \in 1..n : j = m + l)
    BY <1>8, <2>4
  <2> QED BY <1>4, <2>1, <2>2, <2>3, <2>4
<1>10. \A i \in 1..(m + n) : names(i) \subseteq S \union T /\ IsInjective((s \o u)[i].names)
    BY <1>4, <1>5, <1>6
<1> QED BY <1>1, <1>9, <1>10 DEF Apart, names

-----------------------------------------------------------------------------
(* Workloads one after the other. *)

\* FlattenSeq by its definition, for the lengths a benchmark has.
LEMMA FlattenOne == ASSUME NEW s, s = [i \in 1..1 |-> s[i]] PROVE FlattenSeq(s) = s[1]
<1> DEFINE step(flatten) == [i \in 1..1 |-> IF i = 1 THEN s[i] ELSE flatten[i - 1] \o s[i]]
           chosen == CHOOSE f : f = step(f)
<1>1. \E f : f = step(f)
    BY [i \in 1..1 |-> s[1]] = step([i \in 1..1 |-> s[1]])
<1>2. chosen = step(chosen)
  <2> HIDE DEF step
  <2> QED BY <1>1
<1>3. Len(s) = 1
    OBVIOUS
<1>4. FlattenSeq(s) = chosen[1]
    BY <1>3 DEF FlattenSeq
<1> HIDE DEF chosen
<1> QED BY <1>2, <1>4

LEMMA FlattenTwo == ASSUME NEW s, s = [i \in 1..2 |-> s[i]] PROVE FlattenSeq(s) = s[1] \o s[2]
<1> DEFINE step(flatten) == [i \in 1..2 |-> IF i = 1 THEN s[i] ELSE flatten[i - 1] \o s[i]]
           all == [i \in 1..2 |-> IF i = 1 THEN s[1] ELSE s[1] \o s[2]]
           chosen == CHOOSE f : f = step(f)
<1>1. all = step(all)
    OBVIOUS
<1>2. chosen = step(chosen)
  <2> HIDE DEF step
  <2> QED BY <1>1
<1>3. Len(s) = 2
    OBVIOUS
<1>4. FlattenSeq(s) = chosen[2]
    BY <1>3 DEF FlattenSeq
<1> HIDE DEF chosen
<1>5. chosen[1] = s[1] /\ chosen[2] = chosen[1] \o s[2]
    BY <1>2
<1> QED BY <1>4, <1>5

LEMMA FlattenThree ==
    ASSUME NEW s, s = [i \in 1..3 |-> s[i]] PROVE FlattenSeq(s) = (s[1] \o s[2]) \o s[3]
<1> DEFINE step(flatten) == [i \in 1..3 |-> IF i = 1 THEN s[i] ELSE flatten[i - 1] \o s[i]]
           all == [i \in 1..3 |-> IF i = 1 THEN s[1] ELSE IF i = 2 THEN s[1] \o s[2]
                                  ELSE (s[1] \o s[2]) \o s[3]]
           chosen == CHOOSE f : f = step(f)
<1>1. all = step(all)
    OBVIOUS
<1>2. chosen = step(chosen)
  <2> HIDE DEF step
  <2> QED BY <1>1
<1>3. Len(s) = 3
    OBVIOUS
<1>4. FlattenSeq(s) = chosen[3]
    BY <1>3 DEF FlattenSeq
<1>5. ASSUME NEW f, f = step(f)
      PROVE  f[1] = s[1] /\ f[2] = f[1] \o s[2] /\ f[3] = f[2] \o s[3]
  <2>1. \A i \in 1..3 : f[i] = IF i = 1 THEN s[i] ELSE f[i - 1] \o s[i]
    <3>1. \A i \in 1..3 : step(f)[i] = IF i = 1 THEN s[i] ELSE f[i - 1] \o s[i]
      OBVIOUS
    <3> HIDE DEF step
    <3> QED BY <1>5, <3>1
  <2> QED BY <2>1
<1> HIDE DEF chosen, step
<1>6. chosen[1] = s[1] /\ chosen[2] = chosen[1] \o s[2] /\ chosen[3] = chosen[2] \o s[3]
    BY <1>2, <1>5
<1> QED BY <1>4, <1>6

\* What up to three equal workloads take one after the other.
LEMMA FlattenCosts ==
    ASSUME NEW n \in 1..3, NEW s, s = [i \in 1..n |-> s[i]], NEW t \in Nat, NEW r \in Nat,
           \A i \in 1..n : Costs(s[i], t, r)
    PROVE  Costs(FlattenSeq(s), n * t, n * r)
<1>1. CASE n = 1
  <2>1. FlattenSeq(s) = s[1]
    BY <1>1, FlattenOne
  <2> QED BY <1>1, <2>1
<1>2. CASE n = 2
  <2>1. FlattenSeq(s) = s[1] \o s[2]
    BY <1>2, FlattenTwo
  <2>2. Costs(s[1], t, r) /\ Costs(s[2], t, r)
    BY <1>2
  <2>3. t + t = 2 * t /\ r + r = 2 * r
    OBVIOUS
  <2>4. Costs(s[1] \o s[2], t + t, r + r)
    BY <2>2, ConcatCosts
  <2> QED BY <1>2, <2>1, <2>3, <2>4
<1>3. CASE n = 3
  <2>1. FlattenSeq(s) = (s[1] \o s[2]) \o s[3]
    BY <1>3, FlattenThree
  <2>2. Costs(s[1], t, r) /\ Costs(s[2], t, r) /\ Costs(s[3], t, r)
    BY <1>3
  <2>3. (t + t) + t = 3 * t /\ (r + r) + r = 3 * r
    OBVIOUS
  <2>4. Costs(s[1] \o s[2], t + t, r + r)
    BY <2>2, ConcatCosts
  <2>5. Costs((s[1] \o s[2]) \o s[3], (t + t) + t, (r + r) + r)
    BY <2>2, <2>4, ConcatCosts
  <2> QED BY <1>3, <2>1, <2>3, <2>5
<1> QED BY <1>1, <1>2, <1>3

\* The names of n sets.
UnionOf(S, n) == UNION {S[i] : i \in 1..n}

\* Up to three workloads that share no name, one after the other.
LEMMA FlattenApart ==
    ASSUME NEW n \in 1..3, NEW s, s = [i \in 1..n |-> s[i]],
           NEW S, \A i \in 1..n : s[i] \in Seq(StepRecords) /\ Apart(s[i], S[i]),
           \A i, j \in 1..n : i # j => S[i] \cap S[j] = {}
    PROVE  FlattenSeq(s) \in Seq(StepRecords) /\ Apart(FlattenSeq(s), UnionOf(S, n))
<1> DEFINE all == UnionOf(S, n)
<1>1. CASE n = 1
  <2>1. FlattenSeq(s) = s[1]
    BY <1>1, FlattenOne
  <2>2. all = S[1]
    BY <1>1 DEF UnionOf
  <2>3. Apart(s[1], S[1])
    BY <1>1
  <2> HIDE DEF all
  <2>4. FlattenSeq(s) \in Seq(StepRecords) /\ Apart(FlattenSeq(s), all)
    BY <1>1, <2>1, <2>2, <2>3
  <2> QED BY <2>4 DEF all
<1>2. CASE n = 2
  <2>1. FlattenSeq(s) = s[1] \o s[2]
    BY <1>2, FlattenTwo
  <2>2. all = S[1] \union S[2]
    BY <1>2 DEF UnionOf
  <2>3. /\ s[1] \in Seq(StepRecords) /\ Apart(s[1], S[1])
        /\ s[2] \in Seq(StepRecords) /\ Apart(s[2], S[2])
        /\ S[1] \cap S[2] = {}
    BY <1>2
  <2>4. s[1] \o s[2] \in Seq(StepRecords) /\ Apart(s[1] \o s[2], S[1] \union S[2])
    BY <2>3, ConcatApart
  <2> HIDE DEF all
  <2>5. FlattenSeq(s) \in Seq(StepRecords) /\ Apart(FlattenSeq(s), all)
    BY <2>1, <2>2, <2>4
  <2> QED BY <2>5 DEF all
<1>3. CASE n = 3
  <2>1. FlattenSeq(s) = (s[1] \o s[2]) \o s[3]
    BY <1>3, FlattenThree
  <2>2. all = (S[1] \union S[2]) \union S[3]
    BY <1>3 DEF UnionOf
  <2>3. /\ s[1] \in Seq(StepRecords) /\ Apart(s[1], S[1])
        /\ s[2] \in Seq(StepRecords) /\ Apart(s[2], S[2])
        /\ s[3] \in Seq(StepRecords) /\ Apart(s[3], S[3])
        /\ S[1] \cap S[2] = {} /\ (S[1] \union S[2]) \cap S[3] = {}
    BY <1>3
  <2>4. s[1] \o s[2] \in Seq(StepRecords) /\ Apart(s[1] \o s[2], S[1] \union S[2])
    BY <2>3, ConcatApart
  <2>5. (s[1] \o s[2]) \o s[3] \in Seq(StepRecords)
    BY <2>3, <2>4
  <2>6. Apart((s[1] \o s[2]) \o s[3], (S[1] \union S[2]) \union S[3])
    BY <2>3, <2>4, ConcatApart
  <2> HIDE DEF all
  <2>7. FlattenSeq(s) \in Seq(StepRecords) /\ Apart(FlattenSeq(s), all)
    BY <2>1, <2>2, <2>5, <2>6
  <2> QED BY <2>7 DEF all
<1> QED BY <1>1, <1>2, <1>3

-----------------------------------------------------------------------------
(* The steps of each benchmark: what they take. *)

\* What the variables that never change may be.
HostFacts ==
    /\ benchmark \in Benchmarks /\ profile \in {"quick", "standard"}
    /\ cpus \in CPUs /\ udp \in BOOLEAN /\ windows \in BOOLEAN

\* Unique by its definition, for two and for three values.
LEMMA UniqueIncludes ==
    ASSUME NEW a, NEW b, NEW c
    PROVE  /\ Unique(<<a, b>>) = Include(Include(<<>>, a), b)
           /\ Unique(<<a, b, c>>) = Include(Include(Include(<<>>, a), b), c)
<1>1. ASSUME NEW v, Len(v) \in {2, 3}
      PROVE  Unique(v) = IF Len(v) = 2 THEN Include(Include(<<>>, v[1]), v[2])
                         ELSE Include(Include(Include(<<>>, v[1]), v[2]), v[3])
  <2> DEFINE n == Len(v)
             step(result) == [i \in 0..n |-> IF i = 0 THEN <<>> ELSE Include(result[i - 1], v[i])]
             all == [i \in 0..n |-> IF i = 0 THEN <<>> ELSE IF i = 1 THEN Include(<<>>, v[1])
                                ELSE IF i = 2 THEN Include(Include(<<>>, v[1]), v[2])
                                ELSE Include(Include(Include(<<>>, v[1]), v[2]), v[3])]
             chosen == CHOOSE f : f = step(f)
  <2>1. all = step(all)
    <3>1. \A i \in 0..n : all[i] = step(all)[i]
      <4> TAKE i \in 0..n
      <4>1. i = 0 \/ i = 1 \/ i = 2 \/ i = 3
        BY <1>1
      <4>2. 0 \in 0..n /\ 1 \in 0..n /\ 2 \in 0..n
        BY <1>1
      <4> QED BY <4>1, <4>2
    <3> QED BY <3>1
  <2>2. chosen = step(chosen)
    <3> HIDE DEF step
    <3> QED BY <2>1
  <2>3. Unique(v) = chosen[n]
    BY DEF Unique
  <2>4. \A f : f = step(f) => /\ f[0] = <<>> /\ f[1] = Include(f[0], v[1]) /\ f[2] = Include(f[1], v[2])
                              /\ n = 3 => f[3] = Include(f[2], v[3])
    BY <1>1
  <2> HIDE DEF chosen, step
  <2> QED BY <1>1, <2>2, <2>3, <2>4
<1>2. Len(<<a, b>>) = 2 /\ Len(<<a, b, c>>) = 3
    OBVIOUS
<1>3. Unique(<<a, b>>) = Include(Include(<<>>, <<a, b>>[1]), <<a, b>>[2])
    BY <1>1, <1>2
<1>4. Unique(<<a, b, c>>) = Include(Include(Include(<<>>, <<a, b, c>>[1]), <<a, b, c>>[2]), <<a, b, c>>[3])
    BY <1>1, <1>2
<1> QED BY <1>3, <1>4

\* Include keeps the values distinct.
LEMMA IncludeFacts ==
    ASSUME NEW s \in Seq(Nat), NEW x \in Nat, IsInjective(s)
    PROVE  /\ Include(s, x) \in Seq(Nat) /\ IsInjective(Include(s, x))
           /\ Len(Include(s, x)) \in {Len(s), Len(s) + 1}
<1>1. CASE x \in ToSet(s)
    BY <1>1 DEF Include
<1>2. CASE x \notin ToSet(s)
    BY <1>2 DEF Include, ToSet, IsInjective
<1> QED BY <1>1, <1>2

\* pgbench runs for one to three numbers of clients, all different (unique).
LEMMA ClientsFacts ==
    ASSUME cpus \in Nat \ {0}, profile \in {"quick", "standard"}
    PROVE  /\ Clients \in Seq(Nat) /\ IsInjective(Clients)
           /\ Len(Clients) \in 1..For(2, 3)
<1> DEFINE top == IF 2 * cpus < 64 THEN 2 * cpus ELSE 64
           one == Include(<<>>, 1)
           two == Include(one, cpus)
           three == Include(two, top)
<1>1. <<>> \in Seq(Nat) /\ IsInjective(<<>>) /\ Len(<<>>) = 0 /\ 1 \in Nat /\ top \in Nat
    BY DEF IsInjective
<1>2. one = <<1>>
    BY DEF Include, ToSet
<1>3. one \in Seq(Nat) /\ IsInjective(one) /\ Len(one) = 1
  <2>1. DOMAIN <<1>> = {1} /\ <<1>> \in Seq(Nat) /\ Len(<<1>>) = 1
    OBVIOUS
  <2>2. IsInjective(<<1>>)
    BY <2>1 DEF IsInjective
  <2> QED BY <1>2, <2>1, <2>2
<1> HIDE DEF one, top
<1>4. two \in Seq(Nat) /\ IsInjective(two) /\ Len(two) \in 1..2
  <2>1. two \in Seq(Nat) /\ IsInjective(two) /\ Len(two) \in {Len(one), Len(one) + 1}
    BY <1>3, IncludeFacts, cpus \in Nat, Zenon
  <2> QED BY <1>3, <2>1
<1> HIDE DEF two
<1>5. three \in Seq(Nat) /\ IsInjective(three) /\ Len(three) \in 1..3
  <2>1. three \in Seq(Nat) /\ IsInjective(three) /\ Len(three) \in {Len(two), Len(two) + 1}
    BY <1>1, <1>4, IncludeFacts, Zenon
  <2> HIDE DEF three
  <2>2. \A i \in 1..2 : i \in 1..3 /\ i + 1 \in 1..3
    OBVIOUS
  <2>3. Len(three) \in 1..3
    BY <1>4, <2>1, <2>2
  <2> QED BY <2>1, <2>3, Zenon
<1>6. Unique(<<1, cpus>>) = two /\ Unique(<<1, cpus, top>>) = three
    BY UniqueIncludes DEF one, two
<1>7. Clients = For(two, three)
    BY <1>6 DEF Clients, For, top
<1> QED BY <1>4, <1>5, <1>7 DEF For

\* A step and its fields.
LEMMA StepFacts ==
    ASSUME NEW t \in Nat, NEW r \in Nat, NEW names \in Seq(Metrics)
    PROVE  /\ Step(t, r, names) \in StepRecords
           /\ Step(t, r, names).seconds = t /\ Step(t, r, names).requests = r
           /\ Step(t, r, names).names = names
BY DEF Step, StepRecords

\* No step takes nothing.
LEMMA NoCosts == Costs(<<>>, 0, 0)
<1>1. Uniform(<<>>, 0, 0, 0)
    BY DEF Uniform
<1> QED BY <1>1, UniformCosts

\* What one step takes.
LEMMA OneCosts ==
    ASSUME NEW t \in Nat, NEW r \in Nat, NEW names \in Seq(Metrics)
    PROVE  Costs(<<Step(t, r, names)>>, t, r)
<1>1. Uniform(<<Step(t, r, names)>>, 1, t, r)
    BY StepFacts DEF Uniform
<1>2. 1 * t = t /\ 1 * r = r
    OBVIOUS
<1>3. Costs(<<Step(t, r, names)>>, 1 * t, 1 * r)
    BY <1>1, UniformCosts
<1> QED BY <1>2, <1>3

\* The trials of the CPU benchmark take just what Plan announces.
LEMMA CPUCosts == Costs(CPUSteps, For(10, 180), 0)
<1> DEFINE n == 2 * For(1, 3)
           names(i) == IF i = n THEN <<<<"single">>, <<"multi">>, <<"scale">>>> ELSE <<>>
<1>1. n \in Nat /\ For(5, 30) \in Nat /\ n * For(5, 30) = For(10, 180) /\ n * 0 = 0
    BY DEF For
<1>2. \A i : names(i) \in Seq(Metrics)
  <2>1. <<<<"single">>, <<"multi">>, <<"scale">>>> \in Seq(Metrics) /\ <<>> \in Seq(Metrics)
    BY DEF Metrics, Words
  <2> QED BY <2>1
<1>3. CPUSteps = [i \in 1..n |-> Step(For(5, 30), 0, names(i))]
    BY DEF CPUSteps
<1> HIDE DEF names, n
<1>4. Uniform(CPUSteps, n, For(5, 30), 0)
    BY <1>1, <1>2, <1>3, StepFacts DEF Uniform
<1>5. Costs(CPUSteps, n * For(5, 30), n * 0)
    BY <1>4, UniformCosts
<1> QED BY <1>1, <1>5

\* The four disk measurements.
LEMMA DiskCosts == Costs(DiskSteps, For(20, 240), 0)
<1> DEFINE list == <<"sequential_read", "sequential_write", "random_read", "random_write">>
           names(i) == <<<<list[i]>>>>
<1>1. For(5, 60) \in Nat /\ 4 * For(5, 60) = For(20, 240) /\ 4 * 0 = 0
    BY DEF For
<1>2. \A i \in 1..4 : names(i) \in Seq(Metrics)
    BY DEF Metrics, Words
<1> DEFINE step(i) == Step(For(5, 60), 0, names(i))
<1>3. DiskSteps = [i \in 1..4 |-> step(i)]
    BY DEF DiskSteps
<1> HIDE DEF names
<1>4. \A i \in 1..4 : step(i) \in StepRecords /\ step(i).seconds = For(5, 60) /\ step(i).requests = 0
    BY <1>1, <1>2 DEF Step, StepRecords
<1> HIDE DEF step
<1>5. Uniform(DiskSteps, 4, For(5, 60), 0)
    BY <1>1, <1>3, <1>4 DEF Uniform
<1>6. Costs(DiskSteps, 4 * For(5, 60), 4 * 0)
    BY <1>5, UniformCosts
<1> QED BY <1>1, <1>6

\* Two steps that take the same.
LEMMA PairCosts ==
    ASSUME NEW t \in Nat, NEW r \in Nat, NEW a \in Seq(Metrics), NEW b \in Seq(Metrics)
    PROVE  Costs(<<Step(t, r, a), Step(t, r, b)>>, 2 * t, 2 * r)
<1> DEFINE x == Step(t, r, a)
           y == Step(t, r, b)
<1>1. /\ x \in StepRecords /\ x.seconds = t /\ x.requests = r
      /\ y \in StepRecords /\ y.seconds = t /\ y.requests = r
    BY StepFacts
<1> HIDE DEF x, y
<1>2. Uniform(<<x, y>>, 2, t, r)
    BY <1>1 DEF Uniform
<1>3. Costs(<<x, y>>, 2 * t, 2 * r)
    BY <1>2, UniformCosts
<1> QED BY <1>3 DEF x, y

\* The download and the upload.
LEMMA NDT7Costs == Costs(NDT7Steps, 120, 2)
<1>1. <<>> \in Seq(Metrics) /\ <<<<"download_throughput">>, <<"upload_throughput">>>> \in Seq(Metrics)
    BY DEF Metrics, Words
<1>2. Costs(NDT7Steps, 2 * 60, 2 * 1)
    BY <1>1, PairCosts DEF NDT7Steps
<1> QED BY <1>2

\* Memory runs have no given duration.
LEMMA MemoryRunsCosts ==
    ASSUME NEW operation \in {"read", "write", "copy"} PROVE Costs(MemoryRuns(operation), 0, 0)
<1> DEFINE list == <<1, cpus>>
           names(workers, i) == IF i = For(1, 3) THEN <<<<Mode(workers), operation>>>> ELSE <<>>
           trials(workers) == [trial \in Rounds |-> Step(0, 0, names(workers, trial))]
           s == [i \in DOMAIN list |-> trials(list[i])]
<1>1. For(1, 3) \in Nat /\ For(1, 3) * 0 = 0 /\ Rounds = 1..For(1, 3)
    BY DEF For, Rounds
<1>2. \A workers, i : names(workers, i) \in Seq(Metrics)
    BY DEF Metrics, Words, Mode
<1>3. MemoryRuns(operation) = FlattenSeq(s)
    BY DEF MemoryRuns, Each
<1> HIDE DEF names
<1>4. ASSUME NEW workers PROVE Costs(trials(workers), 0, 0)
  <2>1. Uniform(trials(workers), For(1, 3), 0, 0)
    BY <1>1, <1>2, StepFacts DEF Uniform
  <2>2. Costs(trials(workers), For(1, 3) * 0, For(1, 3) * 0)
    BY <2>1, UniformCosts
  <2> QED BY <1>1, <2>2
<1> HIDE DEF trials
<1>5. s = [i \in 1..2 |-> s[i]] /\ \A i \in 1..2 : Costs(s[i], 0, 0)
    BY <1>4
<1> HIDE DEF s
<1>6. Costs(FlattenSeq(s), 2 * 0, 2 * 0)
    BY <1>5, FlattenCosts
<1> QED BY <1>3, <1>6

LEMMA MemoryCosts == Costs(MemorySteps, 0, 0)
<1> DEFINE list == <<"read", "write", "copy">>
           s == [i \in DOMAIN list |-> MemoryRuns(list[i])]
<1>1. MemorySteps = FlattenSeq(s)
    BY DEF MemorySteps, Each
<1>2. s = [i \in 1..3 |-> s[i]] /\ \A i \in 1..3 : Costs(s[i], 0, 0)
    BY MemoryRunsCosts
<1> HIDE DEF s
<1>3. Costs(FlattenSeq(s), 3 * 0, 3 * 0)
    BY <1>2, FlattenCosts
<1> QED BY <1>1, <1>3

\* The small objects, up and down.
LEMMA SmallRunsCosts ==
    ASSUME NEW concurrency \in {"c1", "c32"}
    PROVE  Costs(SmallRuns(concurrency), 0, 2 * For(100, 10000))
<1> DEFINE list == <<"small_put", "small_get">>
           names(i) == <<<<list[i], concurrency>>>>
           step(i) == Step(0, For(100, 10000), names(i))
<1>1. For(100, 10000) \in Nat /\ 2 * 0 = 0
    BY DEF For
<1>2. \A i \in 1..2 : names(i) \in Seq(Metrics)
    BY DEF Metrics, Words
<1>3. SmallRuns(concurrency) = [i \in 1..2 |-> [step(i) EXCEPT !.fatal = FALSE]]
    BY DEF SmallRuns
<1> HIDE DEF names
<1>4. \A i \in 1..2 : step(i) \in StepRecords /\ step(i).seconds = 0 /\ step(i).requests = For(100, 10000)
    BY <1>1, <1>2, StepFacts
<1>5. \A x \in StepRecords : /\ [x EXCEPT !.fatal = FALSE] \in StepRecords
                       /\ [x EXCEPT !.fatal = FALSE].seconds = x.seconds
                       /\ [x EXCEPT !.fatal = FALSE].requests = x.requests
    BY DEF StepRecords
<1> HIDE DEF step
<1> DEFINE counted(i) == [step(i) EXCEPT !.fatal = FALSE]
<1>6. \A i \in 1..2 : /\ counted(i) \in StepRecords
                      /\ counted(i).seconds = 0
                      /\ counted(i).requests = For(100, 10000)
    BY <1>4, <1>5
<1>7. SmallRuns(concurrency) = [i \in 1..2 |-> counted(i)]
    BY <1>3
<1> HIDE DEF counted
<1>8. Uniform(SmallRuns(concurrency), 2, 0, For(100, 10000))
    BY <1>1, <1>7, <1>6 DEF Uniform
<1>9. Costs(SmallRuns(concurrency), 2 * 0, 2 * For(100, 10000))
    BY <1>8, UniformCosts
<1> QED BY <1>1, <1>9

\* The bucket and its marker, the large objects and the small ones.
LEMMA S3Costs == Costs(S3Steps, 0, For(404, 40008))
<1> DEFINE first == <<Step(0, 2, <<>>)>>
           names(i) == IF i = For(1, 3) THEN <<<<"large_upload">>, <<"large_download">>>> ELSE <<>>
           step(trial) == Step(0, 2, names(trial))
           large == [trial \in Rounds |-> step(trial)]
           list == <<"c1", "c32">>
           small == [i \in DOMAIN list |-> SmallRuns(list[i])]
<1>1. /\ For(1, 3) \in Nat /\ Rounds = 1..For(1, 3) /\ For(1, 3) * 0 = 0
      /\ For(100, 10000) \in Nat /\ 2 * For(100, 10000) \in Nat
      /\ (2 + For(1, 3) * 2) + 2 * (2 * For(100, 10000)) = For(404, 40008)
    BY DEF For, Rounds
<1>2. <<>> \in Seq(Metrics) /\ \A i : names(i) \in Seq(Metrics)
  <2>1. <<<<"large_upload">>, <<"large_download">>>> \in Seq(Metrics) /\ <<>> \in Seq(Metrics)
    BY DEF Metrics, Words
  <2> QED BY <2>1
<1>3. S3Steps = (first \o large) \o FlattenSeq(small)
    BY DEF S3Steps, Each
<1> HIDE DEF names
<1>4. \A i : step(i) \in StepRecords /\ step(i).seconds = 0 /\ step(i).requests = 2
    BY <1>2 DEF Step, StepRecords
<1> HIDE DEF step
<1>5. Costs(first, 0, 2)
    BY <1>2, OneCosts
<1>6. Costs(large, For(1, 3) * 0, For(1, 3) * 2)
  <2> DEFINE k == For(1, 3)
  <2>1. k \in Nat /\ large = [i \in 1..k |-> step(i)]
    BY <1>1
  <2> HIDE DEF k, large
  <2>2. large = [i \in 1..k |-> large[i]] /\ \A i \in 1..k : large[i] = step(i)
    BY <2>1
  <2>3. Uniform(large, k, 0, 2)
    BY <1>4, <2>1, <2>2 DEF Uniform
  <2> QED BY <2>3, UniformCosts DEF k
<1>7. Costs(FlattenSeq(small), 2 * 0, 2 * (2 * For(100, 10000)))
  <2>1. small = [i \in 1..2 |-> small[i]] /\ \A i \in 1..2 : Costs(small[i], 0, 2 * For(100, 10000))
    BY SmallRunsCosts
  <2>2. 2 \in 1..3 /\ 0 \in Nat
    OBVIOUS
  <2> DEFINE r == 2 * For(100, 10000)
  <2>3. r \in Nat
    BY <1>1
  <2>4. \A i \in 1..2 : Costs(small[i], 0, r)
    BY <2>1
  <2> HIDE DEF small, r
  <2>5. Costs(FlattenSeq(small), 2 * 0, 2 * r)
    BY <2>1, <2>2, <2>3, <2>4, FlattenCosts
  <2> QED BY <2>5 DEF r
<1> HIDE DEF first, large, small
<1>8. Costs(first \o large, 0 + For(1, 3) * 0, 2 + For(1, 3) * 2)
    BY <1>5, <1>6, ConcatCosts
<1>9. Costs((first \o large) \o FlattenSeq(small), (0 + For(1, 3) * 0) + 2 * 0,
            (2 + For(1, 3) * 2) + 2 * (2 * For(100, 10000)))
    BY <1>7, <1>8, ConcatCosts
<1> QED BY <1>1, <1>3, <1>9

\* One step after another is a workload of two steps.
LEMMA TwoSteps ==
    ASSUME NEW x \in StepRecords, NEW y \in StepRecords PROVE <<x>> \o <<y>> = <<x, y>>
<1>1. <<x>> \in Seq(StepRecords) /\ <<y>> \in Seq(StepRecords) /\ <<x, y>> \in Seq(StepRecords)
    OBVIOUS
<1>2. Len(<<x>> \o <<y>>) = 2
    BY <1>1
<1>3. <<x>> \o <<y>> \in Seq(StepRecords)
    BY <1>1
<1>4. \A i \in 1..2 : (<<x>> \o <<y>>)[i] = <<x, y>>[i]
    BY <1>1
<1>5. \A s, t \in Seq(StepRecords) :
          Len(s) = Len(t) /\ (\A i \in 1..Len(s) : s[i] = t[i]) => s = t
    OBVIOUS
<1> QED BY <1>1, <1>2, <1>3, <1>4, <1>5

\* Two directions for each number of streams, and UDP if it is configured: what Plan
\* announces, and the second forward direction of the reverse runs of iperf2.
Again == IF windows THEN 2 * For(5, 30) ELSE 0

LEMMA IPerfCosts ==
    udp \in BOOLEAN /\ windows \in BOOLEAN =>
        \E t : Costs(IPerfSteps, t, IPerfRuns) /\ t = IPerfRuns * For(5, 30) + Again
<1> DEFINE list == <<"1_stream", "8_stream">>
           s == [i \in DOMAIN list |-> IPerfRunsOf(list[i])]
           last == IF udp THEN <<Step(For(5, 30), 1, <<<<"udp_throughput">>, <<"udp_jitter">>, <<"udp_loss">>>>)>>
                   ELSE <<>>
           both == For(5, 30) + ReverseTime
<1>1. For(5, 30) \in Nat /\ ReverseTime \in Nat /\ both \in Nat
    BY DEF For, ReverseTime
<1>2. IPerfSteps = FlattenSeq(s) \o last
    BY DEF IPerfSteps, Each
<1>3. ASSUME NEW streams \in {"1_stream", "8_stream"} PROVE Costs(IPerfRunsOf(streams), both, 2)
  <2> DEFINE x == Step(For(5, 30), 1, <<>>)
             y == Step(ReverseTime, 1, <<<<"upload", streams>>, <<"download", streams>>>>)
  <2>1. <<>> \in Seq(Metrics) /\ <<<<"upload", streams>>, <<"download", streams>>>> \in Seq(Metrics)
    BY DEF Metrics, Words
  <2>2. Costs(<<x>>, For(5, 30), 1) /\ Costs(<<y>>, ReverseTime, 1)
    BY <1>1, <2>1, OneCosts
  <2>3. x \in StepRecords /\ y \in StepRecords
    BY <1>1, <2>1, StepFacts
  <2>4. IPerfRunsOf(streams) = <<x, y>>
    BY DEF IPerfRunsOf
  <2> HIDE DEF x, y
  <2>5. Costs(<<x>> \o <<y>>, For(5, 30) + ReverseTime, 1 + 1)
    BY <2>2, ConcatCosts
  <2>6. <<x>> \o <<y>> = IPerfRunsOf(streams) /\ 1 + 1 = 2 /\ both = For(5, 30) + ReverseTime
    BY <2>3, <2>4, TwoSteps
  <2> HIDE DEF both
  <2> QED BY <2>5, <2>6
<1> HIDE DEF both
<1>4. Costs(FlattenSeq(s), 2 * both, 2 * 2)
  <2>1. s = [i \in 1..2 |-> s[i]] /\ \A i \in 1..2 : Costs(s[i], both, 2)
    BY <1>3
  <2> HIDE DEF s
  <2> QED BY <1>1, <2>1, FlattenCosts
<1>5. Costs(last, IF udp THEN For(5, 30) ELSE 0, IF udp THEN 1 ELSE 0)
  <2>1. <<<<"udp_throughput">>, <<"udp_jitter">>, <<"udp_loss">>>> \in Seq(Metrics)
    BY DEF Metrics, Words
  <2>2. Costs(<<Step(For(5, 30), 1, <<<<"udp_throughput">>, <<"udp_jitter">>, <<"udp_loss">>>>)>>, For(5, 30), 1)
    BY <1>1, <2>1, OneCosts
  <2> QED BY <2>2, NoCosts
<1> HIDE DEF s, last
<1>6. Costs(FlattenSeq(s) \o last, 2 * both + (IF udp THEN For(5, 30) ELSE 0),
            2 * 2 + (IF udp THEN 1 ELSE 0))
    BY <1>4, <1>5, ConcatCosts
<1>7. udp \in BOOLEAN => 2 * 2 + (IF udp THEN 1 ELSE 0) = IPerfRuns
    BY DEF IPerfRuns
<1>8. udp \in BOOLEAN /\ windows \in BOOLEAN =>
          2 * both + (IF udp THEN For(5, 30) ELSE 0) = IPerfRuns * For(5, 30) + Again
    BY <1>1 DEF IPerfRuns, both, ReverseTime, Again
<1> QED BY <1>2, <1>6, <1>7, <1>8

\* The numbers of clients on the host.
LEMMA PgbenchClients ==
    ASSUME HostFacts
    PROVE  /\ Clients \in Seq(Nat) /\ IsInjective(Clients)
           /\ Len(Clients) \in 1..For(2, 3) /\ Len(Clients) \in 1..3
<1>1. cpus \in Nat \ {0} /\ profile \in {"quick", "standard"}
    BY CPUsAssumption DEF HostFacts
<1>2. Clients \in Seq(Nat) /\ IsInjective(Clients) /\ Len(Clients) \in 1..For(2, 3)
    BY <1>1, ClientsFacts
<1>3. \A k \in 1..For(2, 3) : k \in 1..3
    BY DEF For
<1> QED BY <1>2, <1>3, Zenon

\* A run, after its warm-up, for each number of clients.
LEMMA PgbenchRunsCosts ==
    ASSUME HostFacts, NEW w \in {"tpcb_like", "select_only", "simple_update"}
    PROVE  Costs(PgbenchRuns(w), Len(Clients) * For(30, 150), 0)
<1> DEFINE n == Len(Clients)
           warm == For(<<>>, <<Step(30, 0, <<>>)>>)
           t == For(30, 120)
           one(c) == <<Step(t, 0, <<<<w, c>>>>)>>
           s == [i \in DOMAIN Clients |-> warm \o one(Clients[i])]
<1>1. /\ For(30, 150) \in Nat /\ For(30, 120) \in Nat
      /\ For(0, 30) + For(30, 120) = For(30, 150) /\ 0 + 0 = 0
    BY DEF For
<1>2. /\ Clients \in Seq(Nat) /\ n \in 1..3
      /\ DOMAIN Clients = 1..n /\ \A i \in 1..n : Clients[i] \in Nat
    BY PgbenchClients
<1>3. PgbenchRuns(w) = FlattenSeq(s)
    BY DEF PgbenchRuns, Each
<1>4. ASSUME NEW c \in Nat PROVE Costs(warm \o one(c), For(30, 150), 0)
  <2>1. <<>> \in Seq(Metrics) /\ <<<<w, c>>>> \in Seq(Metrics)
    BY DEF Metrics, Words
  <2>2. Costs(warm, For(0, 30), 0)
    BY <2>1, NoCosts, OneCosts DEF For
  <2>3. Costs(one(c), t, 0)
    <3>1. t \in Nat /\ 0 \in Nat
      BY <1>1
    <3> HIDE DEF t
    <3> QED BY <2>1, <3>1, OneCosts
  <2> HIDE DEF warm, one
  <2>4. Costs(warm \o one(c), For(0, 30) + For(30, 120), 0 + 0)
    BY <2>2, <2>3, ConcatCosts
  <2> QED BY <1>1, <2>4
<1> HIDE DEF warm, one, n
<1>5. s = [i \in 1..n |-> s[i]] /\ \A i \in 1..n : Costs(s[i], For(30, 150), 0)
    BY <1>2, <1>4
<1> HIDE DEF s
<1>6. Costs(FlattenSeq(s), n * For(30, 150), n * 0)
    BY <1>1, <1>2, <1>5, FlattenCosts
<1>7. n * 0 = 0
    BY <1>2
<1> QED BY <1>3, <1>6, <1>7 DEF n

\* The three workloads of pgbench.
LEMMA PgbenchCosts ==
    HostFacts => Costs(PgbenchSteps, 3 * (Len(Clients) * For(30, 150)), 0)
<1> SUFFICES ASSUME HostFacts
             PROVE  Costs(PgbenchSteps, 3 * (Len(Clients) * For(30, 150)), 0)
    OBVIOUS
<1> DEFINE n == Len(Clients)
           list == <<"tpcb_like", "select_only", "simple_update">>
           s == [i \in DOMAIN list |-> PgbenchRuns(list[i])]
           first == <<Step(0, 0, <<>>)>>
<1>1. n \in 1..3 /\ For(30, 150) \in Nat
    BY PgbenchClients DEF For
<1>2. n * For(30, 150) \in Nat
  <2> HIDE DEF n
  <2> QED BY <1>1
<1>3. \A i \in 1..3 : list[i] \in {"tpcb_like", "select_only", "simple_update"}
    OBVIOUS
<1>4. s = [i \in 1..3 |-> PgbenchRuns(list[i])]
    OBVIOUS
<1>5. PgbenchSteps = first \o FlattenSeq(s)
    BY DEF PgbenchSteps, Each
<1> HIDE DEF list, s
<1>6. s = [i \in 1..3 |-> s[i]] /\ \A i \in 1..3 : Costs(s[i], n * For(30, 150), 0)
    BY <1>3, <1>4, PgbenchRunsCosts
<1>7. Costs(first, 0, 0)
    BY OneCosts, <<>> \in Seq(Metrics)
<1> DEFINE t == n * For(30, 150)
<1> HIDE DEF t, first
<1>8. 3 \in 1..3 /\ t \in Nat /\ 0 \in Nat
    BY <1>2 DEF t
<1>9. \A i \in 1..3 : Costs(s[i], t, 0)
    BY <1>6 DEF t
<1>10. Costs(FlattenSeq(s), 3 * t, 3 * 0)
    BY <1>6, <1>8, <1>9, FlattenCosts
<1>11. Costs(first \o FlattenSeq(s), 0 + 3 * t, 0 + 3 * 0)
    BY <1>7, <1>10, ConcatCosts
<1>12. 0 + 3 * t = 3 * t /\ 0 + 3 * 0 = 0
    BY <1>2 DEF t
<1> QED BY <1>5, <1>11, <1>12 DEF t

\* What Plan announces for a benchmark is what its steps take, but for Excess.
LEMMA WorkloadCosts ==
    HostFacts =>
        \E t : Costs(Workload, t, AnnouncedRequests) /\ t <= AnnouncedSeconds + Excess
<1> SUFFICES ASSUME HostFacts
             PROVE  \E t : Costs(Workload, t, AnnouncedRequests) /\ t <= AnnouncedSeconds + Excess
    OBVIOUS
<1>1. CASE benchmark = "cpu"
  <2>1. Workload = CPUSteps /\ AnnouncedSeconds + Excess = For(10, 180) /\ AnnouncedRequests = 0
    BY <1>1 DEF Workload, AnnouncedSeconds, Excess, AnnouncedRequests, For
  <2>2. For(10, 180) <= For(10, 180)
    BY DEF For
  <2> QED BY <2>1, <2>2, CPUCosts
<1>2. CASE benchmark = "memory"
  <2>1. Workload = MemorySteps /\ AnnouncedSeconds + Excess = For(5, 30) /\ AnnouncedRequests = 0
    BY <1>2 DEF Workload, AnnouncedSeconds, Excess, AnnouncedRequests, For
  <2>2. 0 <= For(5, 30)
    BY DEF For
  <2> QED BY <2>1, <2>2, MemoryCosts
<1>3. CASE benchmark = "disk"
  <2>1. Workload = DiskSteps /\ AnnouncedSeconds + Excess = For(20, 240) /\ AnnouncedRequests = 0
    BY <1>3 DEF Workload, AnnouncedSeconds, Excess, AnnouncedRequests, For
  <2>2. For(20, 240) <= For(20, 240)
    BY DEF For
  <2> QED BY <2>1, <2>2, DiskCosts
<1>4. CASE benchmark = "object-s3"
  <2>1. Workload = S3Steps /\ AnnouncedSeconds + Excess = For(60, 900) /\ AnnouncedRequests = For(404, 40008)
    BY <1>4 DEF Workload, AnnouncedSeconds, Excess, AnnouncedRequests, For
  <2>2. 0 <= For(60, 900)
    BY DEF For
  <2> QED BY <2>1, <2>2, S3Costs
<1>5. CASE benchmark = "postgres-pgbench"
  <2> DEFINE n == Len(Clients)
  <2>1. Costs(PgbenchSteps, 3 * (n * For(30, 150)), 0) /\ n \in 1..For(2, 3)
    BY PgbenchClients, PgbenchCosts
  <2> HIDE DEF n
  <2>2. 3 * (n * For(30, 150)) <= For(180, 1500)
    BY <2>1 DEF For
  <2>3. Workload = PgbenchSteps /\ AnnouncedSeconds + Excess = For(180, 1500) /\ AnnouncedRequests = 0
    BY <1>5 DEF Workload, AnnouncedSeconds, Excess, AnnouncedRequests, For
  <2> QED BY <2>1, <2>2, <2>3
<1>6. CASE benchmark = "network-iperf"
  <2>1. /\ Workload = IPerfSteps
        /\ AnnouncedSeconds = IPerfRuns * For(5, 30) /\ AnnouncedRequests = IPerfRuns
    BY <1>6 DEF Workload, AnnouncedSeconds, AnnouncedRequests
  <2>2. Excess = Again
    BY <1>6 DEF Excess, Again
  <2>3. IPerfRuns * For(5, 30) + Again <= IPerfRuns * For(5, 30) + Again
    BY DEF IPerfRuns, Again, For
  <2>4. PICK t : Costs(IPerfSteps, t, IPerfRuns) /\ t = IPerfRuns * For(5, 30) + Again
    BY IPerfCosts DEF HostFacts
  <2> QED BY <2>1, <2>2, <2>3, <2>4
<1>7. CASE benchmark = "network-internet"
  <2>1. Workload = NDT7Steps /\ AnnouncedSeconds + Excess = 120 /\ AnnouncedRequests = 2
    BY <1>7 DEF Workload, AnnouncedSeconds, Excess, AnnouncedRequests
  <2> QED BY <2>1, NDT7Costs
<1> QED BY <1>1, <1>2, <1>3, <1>4, <1>5, <1>6, <1>7 DEF HostFacts, Benchmarks

-----------------------------------------------------------------------------
(* The steps of each benchmark: the names they add. *)

\* The set of names may be larger.
LEMMA ApartWithin ==
    ASSUME NEW steps, NEW S, Apart(steps, S), NEW T, S \subseteq T
    PROVE  Apart(steps, T)
BY DEF Apart

\* Only the k-th of n steps has names.
OneNamed(steps, n, k, names) ==
    /\ n \in Nat /\ IsInjective(names)
    /\ steps = [i \in 1..n |-> steps[i]]
    /\ \A i \in 1..n : steps[i].names = IF i = k THEN names ELSE <<>>

\* If only one step has names, they need only differ among themselves.
LEMMA OneNamedApart ==
    ASSUME NEW steps, NEW n, NEW k, NEW names, OneNamed(steps, n, k, names)
    PROVE  Apart(steps, ToSet(names))
<1>1. Len(steps) = n
    BY DEF OneNamed
<1>2. IsInjective(<<>>) /\ ToSet(<<>>) = {}
    BY DEF IsInjective, ToSet
<1>3. \A i \in 1..n : (steps[i].names = names /\ i = k) \/ steps[i].names = <<>>
    BY DEF OneNamed
<1>4. IsInjective(names)
    BY DEF OneNamed
<1> QED BY <1>1, <1>2, <1>3, <1>4 DEF Apart

\* Sequences of one, two and three names that differ.
LEMMA SingleNames ==
    ASSUME NEW a \in Metrics
    PROVE  <<a>> \in Seq(Metrics) /\ IsInjective(<<a>>) /\ ToSet(<<a>>) = {a}
<1>1. DOMAIN <<a>> = {1} /\ <<a>>[1] = a /\ <<a>> \in Seq(Metrics)
    OBVIOUS
<1> QED BY <1>1 DEF IsInjective, ToSet

LEMMA PairNames ==
    ASSUME NEW a \in Metrics, NEW b \in Metrics, a # b
    PROVE  <<a, b>> \in Seq(Metrics) /\ IsInjective(<<a, b>>) /\ ToSet(<<a, b>>) = {a, b}
<1>1. /\ DOMAIN <<a, b>> = {1, 2} /\ <<a, b>>[1] = a /\ <<a, b>>[2] = b
      /\ <<a, b>> \in Seq(Metrics)
    OBVIOUS
<1> QED BY <1>1 DEF IsInjective, ToSet

LEMMA TripleNames ==
    ASSUME NEW a \in Metrics, NEW b \in Metrics, NEW c \in Metrics, a # b, a # c, b # c
    PROVE  <<a, b, c>> \in Seq(Metrics) /\ IsInjective(<<a, b, c>>) /\ ToSet(<<a, b, c>>) = {a, b, c}
<1>1. /\ DOMAIN <<a, b, c>> = {1, 2, 3}
      /\ <<a, b, c>>[1] = a /\ <<a, b, c>>[2] = b /\ <<a, b, c>>[3] = c
      /\ <<a, b, c>> \in Seq(Metrics)
    OBVIOUS
<1> QED BY <1>1 DEF IsInjective, ToSet

\* The names of one word are not those of two.
Short == {<<a>> : a \in Words}

\* Names are as different as their words.
LEMMA Lengths ==
    /\ \A a \in Words : <<a>> \in Short /\ <<a>> \in Metrics
    /\ \A a, b \in Words : <<a>> = <<b>> => a = b
    /\ \A a \in Words, b \in Words \union Nat : <<a, b>> \in Metrics
    /\ Short \cap (Words \X (Words \union Nat)) = {}
BY DEF Short, Metrics

\* The names of each benchmark differ: the CPU scores are reported once.
LEMMA CPUApart == \E S : Apart(CPUSteps, S)
<1> DEFINE n == 2 * For(1, 3)
           all == <<<<"single">>, <<"multi">>, <<"scale">>>>
           step(i) == Step(For(5, 30), 0, IF i = n THEN all ELSE <<>>)
<1>1. IsInjective(all)
  <2>1. {"single", "multi", "scale"} \subseteq Words
    BY DEF Words
  <2>2. <<"single">> # <<"multi">> /\ <<"single">> # <<"scale">> /\ <<"multi">> # <<"scale">>
    BY <2>1, Lengths
  <2>3. <<"single">> \in Metrics /\ <<"multi">> \in Metrics /\ <<"scale">> \in Metrics
    BY <2>1, Lengths
  <2> QED BY <2>2, <2>3, TripleNames
<1>2. CPUSteps = [i \in 1..n |-> step(i)]
    BY DEF CPUSteps
<1>3. n \in Nat
    BY DEF For
<1> HIDE DEF n, all
<1>4. \A i : step(i).names = IF i = n THEN all ELSE <<>>
    BY DEF Step
<1> HIDE DEF step
<1>5. OneNamed(CPUSteps, n, n, all)
    BY <1>1, <1>2, <1>3, <1>4 DEF OneNamed
<1> QED BY <1>5, OneNamedApart

\* Each disk workload has its name.
LEMMA DiskApart == \E S : Apart(DiskSteps, S)
<1> DEFINE list == <<"sequential_read", "sequential_write", "random_read", "random_write">>
           step(i) == Step(For(5, 60), 0, <<<<list[i]>>>>)
<1>1. \A i \in 1..4 : list[i] \in Words
    BY DEF Words
<1>2. \A i, j \in 1..4 : i # j => list[i] # list[j]
    OBVIOUS
<1>3. DiskSteps = [i \in 1..4 |-> step(i)]
    BY DEF DiskSteps
<1> HIDE DEF list
<1>4. \A i \in 1..4 : step(i).names = <<<<list[i]>>>>
    BY DEF Step
<1> HIDE DEF step
<1>5. Len(DiskSteps) = 4 /\ \A i \in 1..4 : DiskSteps[i].names = <<<<list[i]>>>>
    BY <1>3, <1>4
<1>6. \A i \in 1..4 : IsInjective(<<<<list[i]>>>>) /\ ToSet(<<<<list[i]>>>>) = {<<list[i]>>}
    BY <1>1, Lengths, SingleNames
<1>7. \A i, j \in 1..4 : i # j => <<list[i]>> # <<list[j]>>
    BY <1>1, <1>2, Lengths
<1>8. \A i \in 1..4 : <<list[i]>> \in Short
    BY <1>1, Lengths
<1>9. Apart(DiskSteps, Short)
  <2>1. \A i \in 1..4 : ToSet(DiskSteps[i].names) = {<<list[i]>>} /\ IsInjective(DiskSteps[i].names)
    BY <1>5, <1>6
  <2> QED BY <2>1, <1>5, <1>7, <1>8 DEF Apart
<1> QED BY <1>9

\* The two directions.
LEMMA NDT7Apart == \E S : Apart(NDT7Steps, S)
<1> DEFINE all == <<<<"download_throughput">>, <<"upload_throughput">>>>
           x == Step(60, 1, <<>>)
           y == Step(60, 1, all)
<1>1. IsInjective(all)
  <2>1. {"download_throughput", "upload_throughput"} \subseteq Words
    BY DEF Words
  <2>2. <<"download_throughput">> # <<"upload_throughput">>
    BY <2>1, Lengths
  <2>3. <<"download_throughput">> \in Metrics /\ <<"upload_throughput">> \in Metrics
    BY <2>1, Lengths
  <2> QED BY <2>2, <2>3, PairNames
<1>2. NDT7Steps = <<x, y>>
    BY DEF NDT7Steps
<1> HIDE DEF all
<1>3. x.names = <<>> /\ y.names = all
    BY DEF Step
<1> HIDE DEF x, y
<1>4. OneNamed(NDT7Steps, 2, 2, all)
    BY <1>1, <1>2, <1>3 DEF OneNamed
<1> QED BY <1>4, OneNamedApart

\* With more than one CPU, one worker and all have different names.
LEMMA MemoryRunsApart ==
    ASSUME cpus \in Nat \ {0, 1}, NEW operation \in {"read", "write", "copy"}
    PROVE  Apart(MemoryRuns(operation), Words \X {operation})
<1> DEFINE list == <<1, cpus>>
           mode(i) == IF i = 1 THEN "single" ELSE "multi"
           names(i) == <<<<mode(i), operation>>>>
           step(i, trial) == Step(0, 0, IF trial = For(1, 3) THEN names(i) ELSE <<>>)
           s == [i \in 1..2 |-> [trial \in Rounds |-> step(i, trial)]]
           S == [i \in 1..2 |-> {<<mode(i), operation>>}]
<1>1. MemoryRuns(operation) = FlattenSeq(s)
  <2>1. \A i \in 1..2 : Mode(list[i]) = mode(i)
    BY DEF Mode
  <2>2. DOMAIN list = 1..2
    OBVIOUS
  <2> DEFINE given == [i \in DOMAIN list |-> [trial \in Rounds |->
                Step(0, 0, IF trial = For(1, 3) THEN <<<<Mode(list[i]), operation>>>> ELSE <<>>)]]
  <2>3. MemoryRuns(operation) = FlattenSeq(given)
    BY DEF MemoryRuns, Each
  <2>4. given = s
    BY <2>1, <2>2
  <2> HIDE DEF given, s
  <2> QED BY <2>3, <2>4
<1>2. \A i \in 1..2 : mode(i) \in Words /\ operation \in Words /\ <<mode(i), operation>> \in Metrics
  <2>1. \A i \in 1..2 : mode(i) \in Words /\ operation \in Words
    BY DEF Words
  <2> QED BY <2>1, Lengths
<1>3. \A i \in 1..2 : IsInjective(names(i)) /\ ToSet(names(i)) = S[i]
    BY <1>2, SingleNames
<1>4. mode(1) # mode(2)
    OBVIOUS
<1>5. Rounds = 1..For(1, 3) /\ For(1, 3) \in Nat
    BY DEF Rounds, For
<1> HIDE DEF mode
<1>6. S[1] \cap S[2] = {}
    BY <1>4
<1> HIDE DEF names
<1>7. \A i, trial : step(i, trial).names = IF trial = For(1, 3) THEN names(i) ELSE <<>>
    BY DEF Step
<1>8. \A i, trial : names(i) \in Seq(Metrics) => step(i, trial) \in StepRecords
    BY DEF Step, StepRecords
<1> HIDE DEF step
<1>9. \A i \in 1..2 : OneNamed(s[i], For(1, 3), For(1, 3), names(i))
    BY <1>3, <1>5, <1>7 DEF OneNamed
<1>10. \A i \in 1..2 : Apart(s[i], S[i])
  <2> TAKE i \in 1..2
  <2>1. Apart(s[i], ToSet(names(i)))
    <3> HIDE DEF s
    <3> QED BY <1>9, OneNamedApart
  <2> HIDE DEF s, S
  <2> QED BY <1>3, <2>1
<1>11. \A i \in 1..2 : s[i] \in Seq(StepRecords)
  <2>1. \A i \in 1..2 : names(i) \in Seq(Metrics)
    BY <1>2, SingleNames DEF names
  <2> TAKE i \in 1..2
  <2>2. \A trial : step(i, trial) \in StepRecords
    BY <1>8, <2>1
  <2>3. s[i] = [trial \in 1..For(1, 3) |-> step(i, trial)]
    BY <1>5
  <2> HIDE DEF s
  <2>4. [trial \in 1..For(1, 3) |-> step(i, trial)] \in Seq(StepRecords)
    BY <1>5, <2>2
  <2> QED BY <2>3, <2>4
<1>12. s = [i \in 1..2 |-> s[i]] /\ 2 \in 1..3
    OBVIOUS
<1>13. UnionOf(S, 2) \subseteq Words \X {operation}
    BY <1>2 DEF UnionOf
<1> HIDE DEF s, S
<1>14. \A i, j \in 1..2 : i # j => S[i] \cap S[j] = {}
  <2>1. \A i \in 1..2 : i = 1 \/ i = 2
    OBVIOUS
  <2> QED BY <1>6, <2>1
<1>15. Apart(FlattenSeq(s), UnionOf(S, 2))
    BY <1>10, <1>11, <1>12, <1>14, FlattenApart
<1> QED BY <1>1, <1>13, <1>15, ApartWithin

\* The three operations of memory.
LEMMA MemoryApart == cpus \in Nat \ {0, 1} => \E S : Apart(MemorySteps, S)
<1> SUFFICES ASSUME cpus \in Nat \ {0, 1}
             PROVE  \E S : Apart(MemorySteps, S)
    OBVIOUS
<1> DEFINE list == <<"read", "write", "copy">>
           s == [i \in DOMAIN list |-> MemoryRuns(list[i])]
           S == [i \in 1..3 |-> Words \X {list[i]}]
<1>1. MemorySteps = FlattenSeq(s)
    BY DEF MemorySteps, Each
<1>2. \A i \in 1..3 : list[i] \in {"read", "write", "copy"}
    OBVIOUS
<1>3. \A i, j \in 1..3 : i # j => list[i] # list[j]
    OBVIOUS
<1>4. s = [i \in 1..3 |-> MemoryRuns(list[i])]
    OBVIOUS
<1> HIDE DEF list, s
<1>5. \A i \in 1..3 : s[i] \in Seq(StepRecords) /\ Apart(s[i], S[i])
    BY <1>2, <1>4, MemoryRunsCosts, MemoryRunsApart DEF Costs
<1>6. \A i, j \in 1..3 : i # j => S[i] \cap S[j] = {}
    BY <1>3
<1>7. s = [i \in 1..3 |-> s[i]] /\ 3 \in 1..3
    BY <1>4
<1> HIDE DEF S
<1>8. Apart(FlattenSeq(s), UnionOf(S, 3))
    BY <1>5, <1>6, <1>7, FlattenApart
<1> QED BY <1>1, <1>8

\* A step whose names differ.
LEMMA StepApart ==
    ASSUME NEW t \in Nat, NEW r \in Nat, NEW names \in Seq(Metrics), IsInjective(names)
    PROVE  Apart(<<Step(t, r, names)>>, ToSet(names))
<1> DEFINE x == Step(t, r, names)
<1>1. x.names = names
    BY StepFacts
<1> HIDE DEF x
<1>2. OneNamed(<<x>>, 1, 1, names)
    BY <1>1 DEF OneNamed
<1>3. Apart(<<x>>, ToSet(names))
    BY <1>2, OneNamedApart
<1> QED BY <1>3 DEF x

\* What has no names.
LEMMA NoNames == <<>> \in Seq(Metrics) /\ IsInjective(<<>>) /\ ToSet(<<>>) = {} /\ Apart(<<>>, {})
BY DEF IsInjective, ToSet, Apart

\* The numbers of clients are different, and so are the names they give.
LEMMA PgbenchRunsApart ==
    ASSUME HostFacts, NEW w \in {"tpcb_like", "select_only", "simple_update"}
    PROVE  Apart(PgbenchRuns(w), {w} \X Nat)
<1> DEFINE n == Len(Clients)
           warm == For(<<>>, <<Step(30, 0, <<>>)>>)
           one(c) == <<Step(For(30, 120), 0, <<<<w, c>>>>)>>
           s == [i \in DOMAIN Clients |-> warm \o one(Clients[i])]
           S == [i \in 1..n |-> {<<w, Clients[i]>>}]
<1>1. Clients \in Seq(Nat) /\ IsInjective(Clients) /\ n \in 1..3
    BY PgbenchClients
<1>3. PgbenchRuns(w) = FlattenSeq(s)
    BY DEF PgbenchRuns, Each
<1>4. DOMAIN Clients = 1..n /\ \A i \in 1..n : Clients[i] \in Nat
    BY <1>1
<1>5. \A i, j \in 1..n : i # j => Clients[i] # Clients[j]
    BY <1>1, <1>4 DEF IsInjective
<1>6. For(30, 120) \in Nat
    BY DEF For
<1>7. ASSUME NEW c \in Nat
      PROVE  warm \o one(c) \in Seq(StepRecords) /\ Apart(warm \o one(c), {<<w, c>>})
  <2>1. <<w, c>> \in Metrics
    <3>1. w \in Words
      BY DEF Words
    <3> QED BY <3>1, Lengths
  <2>2. Costs(warm, For(0, 30), 0)
    BY NoNames, NoCosts, OneCosts DEF For
  <2>3. Costs(one(c), For(30, 120), 0)
    BY <1>6, <2>1, SingleNames, OneCosts
  <2>4. Apart(warm, {})
    BY NoNames, StepApart DEF For
  <2>5. Apart(one(c), {<<w, c>>})
    <3>1. Apart(one(c), ToSet(<<<<w, c>>>>))
      BY <1>6, <2>1, SingleNames, StepApart
    <3> QED BY <2>1, <3>1, SingleNames
  <2> HIDE DEF warm, one
  <2>6. warm \in Seq(StepRecords) /\ one(c) \in Seq(StepRecords)
    BY <2>2, <2>3 DEF Costs
  <2>7. Apart(warm \o one(c), {} \union {<<w, c>>})
    BY <2>4, <2>5, <2>6, ConcatApart
  <2>8. {} \union {<<w, c>>} = {<<w, c>>}
    OBVIOUS
  <2> QED BY <2>6, <2>7, <2>8
<1> HIDE DEF n, warm, one
<1>8. \A i \in 1..n : s[i] \in Seq(StepRecords) /\ Apart(s[i], S[i])
    BY <1>4, <1>7
<1>9. \A i, j \in 1..n : i # j => S[i] \cap S[j] = {}
    BY <1>5
<1>10. s = [i \in 1..n |-> s[i]]
    BY <1>4
<1>11. UnionOf(S, n) \subseteq {w} \X Nat
    BY <1>4 DEF UnionOf
<1> HIDE DEF s, S
<1>12. Apart(FlattenSeq(s), UnionOf(S, n))
    BY <1>1, <1>8, <1>9, <1>10, FlattenApart
<1> QED BY <1>3, <1>11, <1>12, ApartWithin

\* The three workloads of pgbench.
LEMMA PgbenchApart == HostFacts => \E S : Apart(PgbenchSteps, S)
<1> SUFFICES ASSUME HostFacts
             PROVE  \E S : Apart(PgbenchSteps, S)
    OBVIOUS
<1> DEFINE list == <<"tpcb_like", "select_only", "simple_update">>
           s == [i \in DOMAIN list |-> PgbenchRuns(list[i])]
           S == [i \in 1..3 |-> {list[i]} \X Nat]
           first == <<Step(0, 0, <<>>)>>
           all == UnionOf(S, 3)
<1>1. PgbenchSteps = first \o FlattenSeq(s)
    BY DEF PgbenchSteps, Each
<1>2. \A i \in 1..3 : list[i] \in {"tpcb_like", "select_only", "simple_update"}
    OBVIOUS
<1>3. \A i, j \in 1..3 : i # j => list[i] # list[j]
    OBVIOUS
<1>4. s = [i \in 1..3 |-> PgbenchRuns(list[i])]
    OBVIOUS
<1> HIDE DEF list, s
<1>5. \A i \in 1..3 : s[i] \in Seq(StepRecords) /\ Apart(s[i], S[i])
    BY <1>2, <1>4, PgbenchRunsCosts, PgbenchRunsApart DEF Costs
<1>6. \A i, j \in 1..3 : i # j => S[i] \cap S[j] = {}
    BY <1>3
<1>7. s = [i \in 1..3 |-> s[i]] /\ 3 \in 1..3
    BY <1>4
<1> HIDE DEF S
<1>8. FlattenSeq(s) \in Seq(StepRecords) /\ Apart(FlattenSeq(s), all)
    BY <1>5, <1>6, <1>7, FlattenApart
<1>9. Apart(first, {}) /\ first \in Seq(StepRecords)
  <2>1. Apart(first, ToSet(<<>>)) /\ Costs(first, 0, 0)
    BY NoNames, StepApart, OneCosts
  <2> HIDE DEF first
  <2> QED BY NoNames, <2>1 DEF Costs
<1> HIDE DEF all, first
<1>10. Apart(first \o FlattenSeq(s), {} \union all)
    BY <1>8, <1>9, ConcatApart
<1> QED BY <1>1, <1>10

\* Both directions of the small objects, for one concurrency.
LEMMA SmallRunsApart ==
    ASSUME NEW concurrency \in {"c1", "c32"}
    PROVE  Apart(SmallRuns(concurrency), Words \X {concurrency})
<1> DEFINE list == <<"small_put", "small_get">>
           step(i) == Step(0, For(100, 10000), <<<<list[i], concurrency>>>>)
           counted(i) == [step(i) EXCEPT !.fatal = FALSE]
<1>1. SmallRuns(concurrency) = [i \in 1..2 |-> counted(i)]
    BY DEF SmallRuns
<1>2. \A i \in 1..2 : list[i] \in Words
    BY DEF Words
<1>3. concurrency \in Words
    BY DEF Words
<1>4. \A i, j \in 1..2 : i # j => list[i] # list[j]
    OBVIOUS
<1> HIDE DEF list
<1>5. \A i \in 1..2 : counted(i).names = <<<<list[i], concurrency>>>>
    BY DEF Step
<1> HIDE DEF counted
<1>6. Len(SmallRuns(concurrency)) = 2 /\ \A i \in 1..2 : SmallRuns(concurrency)[i] = counted(i)
    BY <1>1
<1>7. \A i \in 1..2 : <<list[i], concurrency>> \in Metrics
    BY <1>2, <1>3, Lengths
<1>8. \A i \in 1..2 : /\ IsInjective(<<<<list[i], concurrency>>>>)
                      /\ ToSet(<<<<list[i], concurrency>>>>) = {<<list[i], concurrency>>}
    BY <1>7, SingleNames
<1>9. \A i \in 1..2 : /\ ToSet(SmallRuns(concurrency)[i].names) = {<<list[i], concurrency>>}
                      /\ IsInjective(SmallRuns(concurrency)[i].names)
    BY <1>5, <1>6, <1>8
<1> QED BY <1>2, <1>4, <1>6, <1>9 DEF Apart

\* The large objects have names of one word, the small ones of two.
LEMMA S3Apart == \E S : Apart(S3Steps, S)
<1> DEFINE first == <<Step(0, 2, <<>>)>>
           all == <<<<"large_upload">>, <<"large_download">>>>
           step(trial) == Step(0, 2, IF trial = For(1, 3) THEN all ELSE <<>>)
           large == [trial \in Rounds |-> step(trial)]
           list == <<"c1", "c32">>
           small == [i \in DOMAIN list |-> SmallRuns(list[i])]
           S == [i \in 1..2 |-> Words \X {list[i]}]
<1>1. S3Steps = (first \o large) \o FlattenSeq(small)
    BY DEF S3Steps, Each
<1>2. Apart(first, {}) /\ first \in Seq(StepRecords)
  <2>1. Apart(first, ToSet(<<>>)) /\ Costs(first, 0, 2)
    BY NoNames, StepApart, OneCosts
  <2> HIDE DEF first
  <2> QED BY NoNames, <2>1 DEF Costs
<1>3. Apart(large, Short) /\ large \in Seq(StepRecords)
  <2>1. {"large_upload", "large_download"} \subseteq Words
    BY DEF Words
  <2>2. /\ <<"large_upload">> # <<"large_download">>
        /\ <<"large_upload">> \in Metrics /\ <<"large_download">> \in Metrics
        /\ <<"large_upload">> \in Short /\ <<"large_download">> \in Short
    BY <2>1, Lengths
  <2>3. all \in Seq(Metrics) /\ IsInjective(all) /\ ToSet(all) \subseteq Short
    BY <2>2, PairNames
  <2>4. Rounds = 1..For(1, 3) /\ For(1, 3) \in Nat
    BY DEF Rounds, For
  <2> HIDE DEF all
  <2>5. \A i : step(i).names = IF i = For(1, 3) THEN all ELSE <<>>
    BY DEF Step
  <2>6. \A i : step(i) \in StepRecords
    BY <2>3 DEF Step, StepRecords
  <2> HIDE DEF step
  <2>7. OneNamed(large, For(1, 3), For(1, 3), all)
    BY <2>3, <2>4, <2>5 DEF OneNamed
  <2>8. large \in Seq(StepRecords)
    BY <2>4, <2>6
  <2> HIDE DEF large
  <2>9. Apart(large, ToSet(all))
    BY <2>7, OneNamedApart
  <2> QED BY <2>3, <2>8, <2>9, ApartWithin
<1>4. \A i \in 1..2 : list[i] \in {"c1", "c32"}
    OBVIOUS
<1>5. list[1] # list[2]
    OBVIOUS
<1>6. small = [i \in 1..2 |-> SmallRuns(list[i])]
    OBVIOUS
<1> HIDE DEF first, all, large, list, small
<1>7. \A i \in 1..2 : small[i] \in Seq(StepRecords) /\ Apart(small[i], S[i])
  <2> TAKE i \in 1..2
  <2>1. small[i] = SmallRuns(list[i]) /\ S[i] = Words \X {list[i]} /\ list[i] \in {"c1", "c32"}
    BY <1>4, <1>6
  <2>2. Apart(SmallRuns(list[i]), Words \X {list[i]})
    BY <2>1, SmallRunsApart
  <2>3. SmallRuns(list[i]) \in Seq(StepRecords)
    BY <2>1, SmallRunsCosts DEF Costs
  <2> HIDE DEF S
  <2> QED BY <2>1, <2>2, <2>3
<1>8. S[1] \cap S[2] = {}
    BY <1>5
<1>9. small = [i \in 1..2 |-> small[i]] /\ 2 \in 1..3
    BY <1>6
<1>10. UnionOf(S, 2) \subseteq Words \X Words
  <2>1. {"c1", "c32"} \subseteq Words
    BY DEF Words
  <2> QED BY <1>4, <2>1 DEF UnionOf
<1> HIDE DEF S
<1>11. \A i, j \in 1..2 : i # j => S[i] \cap S[j] = {}
  <2>1. \A i \in 1..2 : i = 1 \/ i = 2
    OBVIOUS
  <2> QED BY <1>8, <2>1
<1>12. FlattenSeq(small) \in Seq(StepRecords) /\ Apart(FlattenSeq(small), UnionOf(S, 2))
    BY <1>7, <1>9, <1>11, FlattenApart
<1>13. Short \cap UnionOf(S, 2) = {} /\ {} \union Short = Short
    BY <1>10, Lengths
<1>14. Apart(first \o large, Short) /\ first \o large \in Seq(StepRecords)
  <2>1. Apart(first \o large, {} \union Short)
    BY <1>2, <1>3, ConcatApart
  <2> QED BY <1>2, <1>3, <1>13, <2>1
<1>15. Apart((first \o large) \o FlattenSeq(small), Short \union UnionOf(S, 2))
    BY <1>12, <1>13, <1>14, ConcatApart
<1> QED BY <1>1, <1>15

\* Each number of streams has its names, and so has UDP.
LEMMA IPerfApart == \E S : Apart(IPerfSteps, S)
<1> DEFINE list == <<"1_stream", "8_stream">>
           s == [i \in DOMAIN list |-> IPerfRunsOf(list[i])]
           S == [i \in 1..2 |-> Words \X {list[i]}]
           udpNames == <<<<"udp_throughput">>, <<"udp_jitter">>, <<"udp_loss">>>>
           last == IF udp THEN <<Step(For(5, 30), 1, udpNames)>> ELSE <<>>
<1>1. IPerfSteps = FlattenSeq(s) \o last
    BY DEF IPerfSteps, Each
<1>2. For(5, 30) \in Nat /\ ReverseTime \in Nat
    BY DEF For, ReverseTime
<1>3. ASSUME NEW streams \in {"1_stream", "8_stream"}
      PROVE  IPerfRunsOf(streams) \in Seq(StepRecords) /\ Apart(IPerfRunsOf(streams), Words \X {streams})
  <2> DEFINE all == <<<<"upload", streams>>, <<"download", streams>>>>
             x == Step(For(5, 30), 1, <<>>)
             y == Step(ReverseTime, 1, all)
  <2>1. {"upload", "download", streams} \subseteq Words
    BY DEF Words
  <2>2. <<"upload", streams>> \in Metrics /\ <<"download", streams>> \in Metrics
    BY <2>1, Lengths
  <2>3. all \in Seq(Metrics) /\ IsInjective(all) /\ ToSet(all) = {<<"upload", streams>>, <<"download", streams>>}
    BY <2>2, PairNames
  <2>4. ToSet(all) \subseteq Words \X {streams}
    BY <2>1, <2>3
  <2>5. IPerfRunsOf(streams) = <<x, y>>
    BY DEF IPerfRunsOf
  <2> HIDE DEF all
  <2>6. x \in StepRecords /\ y \in StepRecords /\ x.names = <<>> /\ y.names = all
    BY <1>2, <2>3, NoNames DEF Step, StepRecords
  <2> HIDE DEF x, y
  <2>7. OneNamed(<<x, y>>, 2, 2, all)
    BY <2>3, <2>6 DEF OneNamed
  <2>8. <<x, y>> \in Seq(StepRecords)
    BY <2>6
  <2>9. Apart(<<x, y>>, ToSet(all))
    BY <2>7, OneNamedApart
  <2> QED BY <2>4, <2>5, <2>8, <2>9, ApartWithin
<1>4. \A i \in 1..2 : list[i] \in {"1_stream", "8_stream"}
    OBVIOUS
<1>5. list[1] # list[2]
    OBVIOUS
<1>6. s = [i \in 1..2 |-> IPerfRunsOf(list[i])]
    OBVIOUS
<1>7. last \in Seq(StepRecords) /\ Apart(last, Short)
  <2>1. {"udp_throughput", "udp_jitter", "udp_loss"} \subseteq Words
    BY DEF Words
  <2>2. /\ <<"udp_throughput">> # <<"udp_jitter">> /\ <<"udp_throughput">> # <<"udp_loss">>
        /\ <<"udp_jitter">> # <<"udp_loss">>
        /\ <<"udp_throughput">> \in Metrics /\ <<"udp_jitter">> \in Metrics /\ <<"udp_loss">> \in Metrics
        /\ <<"udp_throughput">> \in Short /\ <<"udp_jitter">> \in Short /\ <<"udp_loss">> \in Short
    BY <2>1, Lengths
  <2>3. udpNames \in Seq(Metrics) /\ IsInjective(udpNames) /\ ToSet(udpNames) \subseteq Short
    BY <2>2, TripleNames
  <2> HIDE DEF udpNames
  <2> DEFINE full == <<Step(For(5, 30), 1, udpNames)>>
  <2>4. Apart(full, ToSet(udpNames)) /\ Costs(full, For(5, 30), 1)
    BY <1>2, <2>3, StepApart, OneCosts
  <2> HIDE DEF full
  <2>5. full \in Seq(StepRecords) /\ Apart(full, Short)
    BY <2>3, <2>4, ApartWithin DEF Costs
  <2>6. <<>> \in Seq(StepRecords) /\ Apart(<<>>, Short)
    BY NoNames, ApartWithin
  <2>7. last = IF udp THEN full ELSE <<>>
    BY DEF full
  <2> HIDE DEF last
  <2> QED BY <2>5, <2>6, <2>7
<1> HIDE DEF list, s, last
<1>8. \A i \in 1..2 : s[i] \in Seq(StepRecords) /\ Apart(s[i], S[i])
    BY <1>3, <1>4, <1>6
<1>9. S[1] \cap S[2] = {}
    BY <1>5
<1>10. s = [i \in 1..2 |-> s[i]] /\ 2 \in 1..3
    BY <1>6
<1>11. UnionOf(S, 2) \subseteq Words \X Words
  <2>1. {"1_stream", "8_stream"} \subseteq Words
    BY DEF Words
  <2> QED BY <1>4, <2>1 DEF UnionOf
<1> HIDE DEF S
<1>12. \A i, j \in 1..2 : i # j => S[i] \cap S[j] = {}
  <2>1. \A i \in 1..2 : i = 1 \/ i = 2
    OBVIOUS
  <2> QED BY <1>9, <2>1
<1>13. FlattenSeq(s) \in Seq(StepRecords) /\ Apart(FlattenSeq(s), UnionOf(S, 2))
    BY <1>8, <1>10, <1>12, FlattenApart
<1>14. UnionOf(S, 2) \cap Short = {}
    BY <1>11, Lengths
<1>15. Apart(FlattenSeq(s) \o last, UnionOf(S, 2) \union Short)
    BY <1>7, <1>13, <1>14, ConcatApart
<1> QED BY <1>1, <1>15

\* But for memory on a host with one CPU, the steps add no name twice.
LEMMA WorkloadApart == HostFacts /\ ~(benchmark = "memory" /\ cpus = 1) => \E S : Apart(Workload, S)
<1> SUFFICES ASSUME HostFacts, ~(benchmark = "memory" /\ cpus = 1)
             PROVE  \E S : Apart(Workload, S)
    OBVIOUS
<1>1. CASE benchmark = "cpu"
  <2>1. Workload = CPUSteps
    BY <1>1 DEF Workload
  <2> QED BY <2>1, CPUApart
<1>2. CASE benchmark = "memory"
  <2>1. Workload = MemorySteps
    BY <1>2 DEF Workload
  <2>2. cpus \in Nat \ {0, 1}
    BY <1>2, CPUsAssumption DEF HostFacts
  <2> QED BY <2>1, <2>2, MemoryApart
<1>3. CASE benchmark = "disk"
  <2>1. Workload = DiskSteps
    BY <1>3 DEF Workload
  <2> QED BY <2>1, DiskApart
<1>4. CASE benchmark = "object-s3"
  <2>1. Workload = S3Steps
    BY <1>4 DEF Workload
  <2> QED BY <2>1, S3Apart
<1>5. CASE benchmark = "postgres-pgbench"
  <2>1. Workload = PgbenchSteps
    BY <1>5 DEF Workload
  <2> QED BY <2>1, PgbenchApart
<1>6. CASE benchmark = "network-iperf"
  <2>1. Workload = IPerfSteps
    BY <1>6 DEF Workload
  <2> QED BY <2>1, IPerfApart
<1>7. CASE benchmark = "network-internet"
  <2>1. Workload = NDT7Steps
    BY <1>7 DEF Workload
  <2> QED BY <2>1, NDT7Apart
<1> QED BY <1>1, <1>2, <1>3, <1>4, <1>5, <1>6, <1>7 DEF HostFacts, Benchmarks

\* The workload does not change while it runs.
LEMMA WorkloadFixed ==
    ASSUME UNCHANGED <<benchmark, profile, cpus, udp, windows>>
    PROVE  Workload' = Workload /\ AnnouncedSeconds' = AnnouncedSeconds /\ AnnouncedRequests' = AnnouncedRequests
<1>1. benchmark' = benchmark /\ profile' = profile /\ cpus' = cpus /\ udp' = udp /\ windows' = windows
    OBVIOUS
<1>2. AnnouncedSeconds' = AnnouncedSeconds /\ AnnouncedRequests' = AnnouncedRequests
    BY <1>1 DEF AnnouncedSeconds, AnnouncedRequests, IPerfRuns, For, Quick
<1>3. CPUSteps' = CPUSteps
    BY <1>1 DEF CPUSteps, For, Quick
<1>4. DiskSteps' = DiskSteps
    BY <1>1 DEF DiskSteps, For, Quick
<1>5. NDT7Steps' = NDT7Steps
    BY <1>1 DEF NDT7Steps
<1>6. MemorySteps' = MemorySteps
    BY <1>1 DEF MemorySteps, MemoryRuns, Each, Rounds, For, Quick, Mode
<1>7. S3Steps' = S3Steps
    BY <1>1 DEF S3Steps, SmallRuns, Each, Rounds, For, Quick
<1>8. IPerfSteps' = IPerfSteps
    BY <1>1 DEF IPerfSteps, IPerfRunsOf, ReverseTime, Each, For, Quick
<1>9. PgbenchSteps' = PgbenchSteps
    BY <1>1 DEF PgbenchSteps, PgbenchRuns, Clients, Each, For, Quick
<1>10. Workload' = Workload
    BY <1>1, <1>3, <1>4, <1>5, <1>6, <1>7, <1>8, <1>9 DEF Workload
<1> QED BY <1>2, <1>10

-----------------------------------------------------------------------------
(* The invariant: what has been spent is the sum of the steps that are over. *)

\* Until the benchmark fails the time spent is that of the steps that are over.
TimeInv ==
    \A sum, total : Sums(sum, SecondsOf(Workload), Len(Workload), total) =>
        seconds <= total /\ (verdict # "failed" => seconds = sum[done])

\* So are the requests, unless some of the small objects made none.
RequestsInv ==
    \A sum, total : Sums(sum, RequestsOf(Workload), Len(Workload), total) =>
        /\ requests <= total
        /\ verdict # "failed" => requests <= sum[done]
        /\ verdict \in {"running", "success"} => requests = sum[done]

\* Success means every step was made.
SuccessInv == verdict = "success" => done = Len(Workload)

\* Every metric is one of a step that is over.
NamesInv ==
    ~(benchmark = "memory" /\ cpus = 1) =>
        /\ metrics \in Seq(Metrics) /\ IsInjective(metrics)
        /\ \A k \in 1..Len(metrics) : \E i \in 1..done : metrics[k] \in ToSet(Workload[i].names)

\* The conjunction is inductive.
WorkloadInv == WorkloadTypeOK /\ TimeInv /\ RequestsInv /\ SuccessInv /\ NamesInv

\* The steps of a workload.
LEMMA StepOf ==
    ASSUME HostFacts, NEW i \in 1..Len(Workload)
    PROVE  Workload[i] \in StepRecords /\ Len(Workload) \in Nat
<1>1. Workload \in Seq(StepRecords)
    BY WorkloadCosts DEF Costs
<1> QED BY <1>1

\* Appending names that are new keeps all of them different.
LEMMA AppendedNames ==
    ASSUME NEW s \in Seq(Metrics), IsInjective(s), NEW u \in Seq(Metrics), IsInjective(u),
           ToSet(s) \cap ToSet(u) = {}
    PROVE  /\ s \o u \in Seq(Metrics) /\ IsInjective(s \o u)
           /\ \A k \in 1..Len(s \o u) :
                  (s \o u)[k] \in ToSet(u) \/ (k \in 1..Len(s) /\ (s \o u)[k] = s[k])
<1> DEFINE m == Len(s)
           n == Len(u)
<1>1. /\ m \in Nat /\ n \in Nat /\ s \o u \in Seq(Metrics) /\ DOMAIN (s \o u) = 1..(m + n)
      /\ Len(s \o u) = m + n
    OBVIOUS
<1>2. \A i \in 1..m : (s \o u)[i] = s[i] /\ s[i] \in ToSet(s)
    BY DEF ToSet
<1>3. \A i \in 1..n : (s \o u)[m + i] = u[i] /\ u[i] \in ToSet(u)
    BY DEF ToSet
<1>4. \A i \in 1..(m + n) : i \in 1..m \/ \E k \in 1..n : i = m + k
  <2> TAKE i \in 1..(m + n)
  <2>1. i \in 1..m \/ (i - m \in 1..n /\ i = m + (i - m))
    BY <1>1
  <2> QED BY <2>1
<1>5. \A i, j \in 1..m : s[i] = s[j] => i = j
    BY DEF IsInjective
<1>6. \A i, j \in 1..n : u[i] = u[j] => i = j
    BY DEF IsInjective
<1> HIDE DEF m, n
<1>7. \A i, j \in 1..(m + n) : (s \o u)[i] = (s \o u)[j] => i = j
  <2> SUFFICES ASSUME NEW i \in 1..(m + n), NEW j \in 1..(m + n), (s \o u)[i] = (s \o u)[j]
               PROVE  i = j
    OBVIOUS
  <2>1. CASE i \in 1..m /\ j \in 1..m
    BY <1>2, <1>5, <2>1
  <2>2. CASE i \in 1..m /\ \E l \in 1..n : j = m + l
    BY <1>2, <1>3, <2>2
  <2>3. CASE (\E k \in 1..n : i = m + k) /\ j \in 1..m
    BY <1>2, <1>3, <2>3
  <2>4. CASE (\E k \in 1..n : i = m + k) /\ (\E l \in 1..n : j = m + l)
    <3>1. PICK k \in 1..n, l \in 1..n : i = m + k /\ j = m + l
      BY <2>4
    <3>2. u[k] = u[l]
      BY <1>3, <3>1
    <3> QED BY <1>6, <3>1, <3>2
  <2> QED BY <1>4, <2>1, <2>2, <2>3, <2>4
<1>8. IsInjective(s \o u)
    BY <1>1, <1>7 DEF IsInjective
<1>9. \A k \in 1..(m + n) : (s \o u)[k] \in ToSet(u) \/ (k \in 1..m /\ (s \o u)[k] = s[k])
    BY <1>2, <1>3, <1>4
<1> QED BY <1>1, <1>8, <1>9 DEF m

\* Nothing has been spent at first.
LEMMA WorkloadInvInit == WorkloadInit => WorkloadInv
<1> SUFFICES ASSUME WorkloadInit PROVE WorkloadInv
    OBVIOUS
<1>1. HostFacts /\ done = 0 /\ metrics = <<>> /\ seconds = 0 /\ requests = 0 /\ verdict = "running"
    BY DEF WorkloadInit, HostFacts
<1>2. Len(Workload) \in Nat
    BY <1>1, WorkloadCosts DEF Costs
<1>3. WorkloadTypeOK
    BY <1>1, <1>2 DEF WorkloadTypeOK, HostFacts
<1>4. \A sum, cost, total : Sums(sum, cost, Len(Workload), total) => sum[0] = 0 /\ 0 <= total
    BY <1>2 DEF Sums
<1>5. TimeInv /\ RequestsInv /\ SuccessInv
    BY <1>1, <1>4 DEF TimeInv, RequestsInv, SuccessInv
<1>6. NamesInv
    BY <1>1, NoNames DEF NamesInv
<1> QED BY <1>3, <1>5, <1>6 DEF WorkloadInv

\* What one step adds to a sum.
LEMMA SumsStep ==
    ASSUME NEW sum, NEW cost, NEW n \in Nat, NEW total, Sums(sum, cost, n, total),
           NEW i \in 0..n
    PROVE  /\ sum[i] \in Nat /\ sum[i] <= total /\ total \in Nat
           /\ i < n => sum[i + 1] = sum[i] + cost[i + 1] /\ sum[i + 1] \in Nat /\ sum[i + 1] <= total
<1>1. sum[i] \in Nat /\ sum[i] <= total /\ total \in Nat
    BY DEF Sums
<1>2. ASSUME i < n PROVE i + 1 \in 1..n /\ i + 1 \in 0..n /\ (i + 1) - 1 = i
    BY <1>2
<1> QED BY <1>1, <1>2 DEF Sums

\* The names of the step that comes next are new.
LEMMA NamesAdded ==
    ASSUME HostFacts, NamesInv, done \in Nat, done < Len(Workload),
           ~(benchmark = "memory" /\ cpus = 1)
    PROVE  LET all == metrics \o Workload[done + 1].names IN
           /\ all \in Seq(Metrics) /\ IsInjective(all)
           /\ \A k \in 1..Len(all) : \E i \in 1..(done + 1) : all[k] \in ToSet(Workload[i].names)
<1> DEFINE new == Workload[done + 1].names
           all == metrics \o new
<1>1. Len(Workload) \in Nat /\ done + 1 \in 1..Len(Workload)
    BY WorkloadCosts DEF Costs
<1>2. new \in Seq(Metrics)
  <2>1. Workload[done + 1] \in StepRecords
    BY <1>1, StepOf
  <2> QED BY <2>1 DEF StepRecords
<1>3. PICK S : Apart(Workload, S)
    BY WorkloadApart
<1>4. IsInjective(new)
    BY <1>1, <1>3 DEF Apart
<1>5. /\ metrics \in Seq(Metrics) /\ IsInjective(metrics)
      /\ \A k \in 1..Len(metrics) : \E i \in 1..done : metrics[k] \in ToSet(Workload[i].names)
    BY DEF NamesInv
<1>6. \A i \in 1..done : ToSet(Workload[i].names) \cap ToSet(new) = {}
  <2>1. \A i \in 1..done : i \in 1..Len(Workload) /\ i # done + 1
    BY <1>1
  <2> QED BY <1>1, <1>3, <2>1 DEF Apart
<1> HIDE DEF new
<1>7. ToSet(metrics) \cap ToSet(new) = {}
  <2>1. \A x \in ToSet(metrics) : \E k \in 1..Len(metrics) : x = metrics[k]
    BY <1>5 DEF ToSet
  <2> QED BY <1>5, <1>6, <2>1
<1>8. /\ all \in Seq(Metrics) /\ IsInjective(all)
      /\ \A k \in 1..Len(all) : all[k] \in ToSet(new) \/ (k \in 1..Len(metrics) /\ all[k] = metrics[k])
    BY <1>2, <1>4, <1>5, <1>7, AppendedNames
<1>9. \A k \in 1..Len(all) : \E i \in 1..(done + 1) : all[k] \in ToSet(Workload[i].names)
  <2> HIDE DEF all
  <2> TAKE k \in 1..Len(all)
  <2>1. CASE all[k] \in ToSet(new)
    <3>1. done + 1 \in 1..(done + 1)
      OBVIOUS
    <3> QED BY <2>1, <3>1 DEF new
  <2>2. CASE k \in 1..Len(metrics) /\ all[k] = metrics[k]
    <3>1. PICK i \in 1..done : all[k] \in ToSet(Workload[i].names)
      BY <1>5, <2>2
    <3>2. i \in 1..(done + 1)
      OBVIOUS
    <3> QED BY <3>1, <3>2
  <2> QED BY <1>8, <2>1, <2>2
<1> QED BY <1>8, <1>9 DEF new

\* The fields of a step that the invariant adds up.
LEMMA StepCosts ==
    ASSUME HostFacts, NEW i \in 1..Len(Workload)
    PROVE  /\ SecondsOf(Workload)[i] = Workload[i].seconds /\ Workload[i].seconds \in Nat
           /\ RequestsOf(Workload)[i] = Workload[i].requests /\ Workload[i].requests \in Nat
BY StepOf DEF SecondsOf, RequestsOf, StepRecords

\* Each action adds the step that comes next, or nothing.
LEMMA WorkloadInvStep == WorkloadInv /\ [WorkloadNext]_workloadVars => WorkloadInv'
<1> SUFFICES ASSUME WorkloadInv, [WorkloadNext]_workloadVars PROVE WorkloadInv'
    OBVIOUS
<1> DEFINE n == Len(Workload)
           steps == Workload
<1>1. UNCHANGED <<benchmark, profile, cpus, udp, windows>>
    BY DEF WorkloadNext, StepSucceeds, StepFails, SomeRequestsFail, WorkloadEnds, WorkloadOver,
           Spend, workloadVars
<1>2. Workload' = steps /\ benchmark' = benchmark /\ cpus' = cpus
    BY <1>1, WorkloadFixed
<1>3. HostFacts /\ HostFacts'
    BY <1>1 DEF WorkloadInv, WorkloadTypeOK, HostFacts
<1>4. /\ n \in Nat /\ done \in 0..n /\ seconds \in Nat /\ requests \in Nat
      /\ verdict \in {"running", "failing", "success", "failed"}
  <2>1. n \in Nat
    BY <1>3, WorkloadCosts DEF Costs
  <2> QED BY <2>1 DEF WorkloadInv, WorkloadTypeOK
<1>5. TimeInv /\ RequestsInv /\ SuccessInv /\ NamesInv
    BY DEF WorkloadInv
<1> HIDE DEF n, steps
<1> DEFINE step == steps[done + 1]
<1>6. Underway => /\ n \in Nat /\ done < n /\ done + 1 \in 1..n /\ done + 1 \in 0..n /\ done \in 0..n
                  /\ SecondsOf(steps)[done + 1] = step.seconds /\ step.seconds \in Nat
                  /\ RequestsOf(steps)[done + 1] = step.requests /\ step.requests \in Nat
                  /\ verdict \in {"running", "failing"}
  <2> SUFFICES ASSUME Underway
               PROVE  /\ n \in Nat /\ done < n /\ done + 1 \in 1..n /\ done + 1 \in 0..n /\ done \in 0..n
                      /\ SecondsOf(steps)[done + 1] = step.seconds /\ step.seconds \in Nat
                      /\ RequestsOf(steps)[done + 1] = step.requests /\ step.requests \in Nat
                      /\ verdict \in {"running", "failing"}
    OBVIOUS
  <2>1. done < n /\ verdict \in {"running", "failing"}
    BY DEF Underway, n
  <2>2. done + 1 \in 1..n /\ done + 1 \in 0..n
    BY <1>4, <2>1
  <2> QED BY <1>3, <1>4, <2>1, <2>2, StepCosts DEF n, steps
<1>7. /\ \A sum, total : Sums(sum, SecondsOf(steps), n, total) =>
             seconds <= total /\ (verdict # "failed" => seconds = sum[done])
      /\ \A sum, total : Sums(sum, RequestsOf(steps), n, total) =>
             /\ requests <= total
             /\ verdict # "failed" => requests <= sum[done]
             /\ verdict \in {"running", "success"} => requests = sum[done]
    BY <1>5 DEF TimeInv, RequestsInv, n, steps
<1>8. /\ TimeInv' = \A sum, total : Sums(sum, SecondsOf(steps), n, total) =>
             seconds' <= total /\ (verdict' # "failed" => seconds' = sum[done'])
      /\ RequestsInv' = \A sum, total : Sums(sum, RequestsOf(steps), n, total) =>
             /\ requests' <= total
             /\ verdict' # "failed" => requests' <= sum[done']
             /\ verdict' \in {"running", "success"} => requests' = sum[done']
      /\ SuccessInv' = (verdict' = "success" => done' = n)
    BY <1>2 DEF TimeInv, RequestsInv, SuccessInv, n, steps
<1>9. WorkloadTypeOK' = /\ HostFacts'
                        /\ done' \in 0..n /\ seconds' \in Nat /\ requests' \in Nat
                        /\ verdict' \in {"running", "failing", "success", "failed"}
    BY <1>2 DEF WorkloadTypeOK, HostFacts, n, steps
<1>10. NamesInv' = (~(benchmark = "memory" /\ cpus = 1) =>
           /\ metrics' \in Seq(Metrics) /\ IsInjective(metrics')
           /\ \A k \in 1..Len(metrics') : \E i \in 1..done' : metrics'[k] \in ToSet(steps[i].names))
    BY <1>2 DEF NamesInv
<1>11. CASE StepSucceeds \/ SomeRequestsFail
  <2>1. /\ Underway /\ done' = done + 1 /\ seconds' = seconds + step.seconds
        /\ metrics' = metrics \o step.names
        /\ \/ verdict' = verdict /\ requests' = requests + step.requests
           \/ verdict' = "failing" /\ \E sent \in {0, step.requests} : requests' = requests + sent
    BY <1>11 DEF StepSucceeds, SomeRequestsFail, Spend, steps
  <2>2. WorkloadTypeOK'
    BY <1>3, <1>4, <1>6, <1>9, <2>1
  <2>3. TimeInv'
    <3> SUFFICES ASSUME NEW sum, NEW total, Sums(sum, SecondsOf(steps), n, total)
                 PROVE  seconds' <= total /\ (verdict' # "failed" => seconds' = sum[done'])
      BY <1>8
    <3>1. sum[done + 1] = sum[done] + step.seconds /\ sum[done + 1] <= total
      BY <1>6, <2>1, SumsStep
    <3>2. seconds = sum[done]
      BY <1>6, <1>7, <2>1
    <3> QED BY <2>1, <3>1, <3>2
  <2>4. RequestsInv'
    <3> SUFFICES ASSUME NEW sum, NEW total, Sums(sum, RequestsOf(steps), n, total)
                 PROVE  /\ requests' <= total
                        /\ verdict' # "failed" => requests' <= sum[done']
                        /\ verdict' \in {"running", "success"} => requests' = sum[done']
      BY <1>8
    <3>1. /\ sum[done + 1] = sum[done] + step.requests /\ sum[done + 1] <= total
          /\ sum[done] \in Nat /\ total \in Nat
      BY <1>6, <2>1, SumsStep
    <3>2. requests <= sum[done] /\ (verdict = "running" => requests = sum[done])
      BY <1>6, <1>7, <2>1
    <3>3. PICK sent \in {0, step.requests} :
              /\ requests' = requests + sent
              /\ verdict' \in {"running", "success"} => sent = step.requests /\ verdict' = verdict
      BY <2>1
    <3>4. step.requests \in Nat /\ sent \in Nat /\ sent <= step.requests /\ requests \in Nat
      BY <1>4, <1>6, <2>1
    <3> HIDE DEF step
    <3>5. requests' <= sum[done + 1]
      BY <3>1, <3>2, <3>3, <3>4
    <3>6. requests' <= total
      BY <3>1, <3>3, <3>4, <3>5
    <3>7. verdict' \in {"running", "success"} => requests' = sum[done + 1]
      BY <1>6, <2>1, <3>1, <3>2, <3>3
    <3> QED BY <2>1, <3>5, <3>6, <3>7
  <2>5. SuccessInv'
    BY <1>6, <1>8, <2>1
  <2>6. NamesInv'
    <3> SUFFICES ASSUME ~(benchmark = "memory" /\ cpus = 1)
                 PROVE  /\ metrics' \in Seq(Metrics) /\ IsInjective(metrics')
                        /\ \A k \in 1..Len(metrics') :
                               \E i \in 1..done' : metrics'[k] \in ToSet(steps[i].names)
      BY <1>10
    <3>1. done \in Nat /\ done < Len(Workload)
      BY <1>4, <2>1 DEF Underway
    <3> QED BY <1>3, <1>5, <2>1, <3>1, NamesAdded DEF steps
  <2> QED BY <2>2, <2>3, <2>4, <2>5, <2>6 DEF WorkloadInv
<1>12. CASE StepFails
  <2>1. /\ Underway /\ verdict' = "failed" /\ done' = done /\ metrics' = metrics
        /\ seconds' = seconds + step.seconds
        /\ \E sent \in {0, step.requests} : requests' = requests + sent
    BY <1>12 DEF StepFails, Spend, steps
  <2>2. WorkloadTypeOK'
    BY <1>3, <1>4, <1>6, <1>9, <2>1
  <2>3. TimeInv'
    <3> SUFFICES ASSUME NEW sum, NEW total, Sums(sum, SecondsOf(steps), n, total)
                 PROVE  seconds' <= total
      BY <1>8, <2>1
    <3>1. sum[done + 1] = sum[done] + step.seconds /\ sum[done + 1] <= total
      BY <1>6, <2>1, SumsStep
    <3>2. seconds = sum[done]
      BY <1>6, <1>7, <2>1
    <3> QED BY <2>1, <3>1, <3>2
  <2>4. RequestsInv'
    <3> SUFFICES ASSUME NEW sum, NEW total, Sums(sum, RequestsOf(steps), n, total)
                 PROVE  requests' <= total
      BY <1>8, <2>1
    <3>1. /\ sum[done + 1] = sum[done] + step.requests /\ sum[done + 1] <= total
          /\ sum[done] \in Nat /\ total \in Nat
      BY <1>6, <2>1, SumsStep
    <3>2. requests <= sum[done]
      BY <1>6, <1>7, <2>1
    <3> QED BY <1>4, <1>6, <2>1, <3>1, <3>2
  <2>5. SuccessInv'
    BY <1>8, <2>1
  <2>6. NamesInv'
    BY <1>5, <1>10, <2>1 DEF NamesInv, steps
  <2> QED BY <2>2, <2>3, <2>4, <2>5, <2>6 DEF WorkloadInv
<1>13. CASE WorkloadEnds
  <2>1. /\ done = n /\ done' = done /\ metrics' = metrics /\ seconds' = seconds /\ requests' = requests
        /\ verdict \in {"running", "failing"}
        /\ verdict' = IF verdict = "failing" THEN "failed" ELSE "success"
    BY <1>13 DEF WorkloadEnds, n
  <2>2. WorkloadTypeOK'
    BY <1>3, <1>4, <1>9, <2>1
  <2>3. TimeInv' /\ RequestsInv' /\ SuccessInv'
    BY <1>7, <1>8, <2>1
  <2>4. NamesInv'
    BY <1>5, <1>10, <2>1 DEF NamesInv, steps
  <2> QED BY <2>2, <2>3, <2>4 DEF WorkloadInv
<1>14. CASE UNCHANGED workloadVars
  <2>1. /\ done' = done /\ metrics' = metrics /\ seconds' = seconds /\ requests' = requests
        /\ verdict' = verdict
    BY <1>14 DEF workloadVars
  <2>2. WorkloadTypeOK'
    BY <1>3, <1>4, <1>9, <2>1
  <2>3. SuccessInv'
    BY <1>5, <1>8, <2>1 DEF SuccessInv, n
  <2>4. TimeInv' /\ RequestsInv'
    BY <1>7, <1>8, <2>1
  <2>5. NamesInv'
    BY <1>5, <1>10, <2>1 DEF NamesInv, steps
  <2> QED BY <2>2, <2>3, <2>4, <2>5 DEF WorkloadInv
<1> QED BY <1>11, <1>12, <1>13, <1>14 DEF WorkloadNext, WorkloadOver

\* The invariant of the planned benchmarks.
THEOREM WorkloadInvHolds == WorkloadSpec => []WorkloadInv
BY WorkloadInvInit, WorkloadInvStep, PTL DEF WorkloadSpec

\* The variables of a planned benchmark keep their types.
THEOREM WorkloadTypeCorrect == WorkloadSpec => []WorkloadTypeOK
<1>1. WorkloadInv => WorkloadTypeOK
    BY DEF WorkloadInv
<1> QED BY <1>1, WorkloadInvHolds, PTL

\* No benchmark reports two metrics of one name, whatever the number of CPUs (unique in
\* postgres); but for memory on a host with one CPU.
THEOREM NamesAreDistinctHolds == WorkloadSpec => []NamesAreDistinct
<1>1. WorkloadInv => NamesAreDistinct
    BY DEF WorkloadInv, NamesInv, NamesAreDistinct
<1> QED BY <1>1, WorkloadInvHolds, PTL

\* No benchmark takes longer than Plan has announced, but for the forward runs that iperf2
\* repeats and the limits of NDT7; none makes more requests, and one that succeeds makes all
\* of them, on every host.
THEOREM PlanCoversTheRunHolds == WorkloadSpec => []PlanCoversTheRun
<1>1. WorkloadInv => PlanCoversTheRun
  <2> SUFFICES ASSUME WorkloadInv PROVE PlanCoversTheRun
    OBVIOUS
  <2>1. HostFacts
    BY DEF WorkloadInv, WorkloadTypeOK, HostFacts
  <2>2. PICK t : Costs(Workload, t, AnnouncedRequests) /\ t <= AnnouncedSeconds + Excess
    BY <2>1, WorkloadCosts
  <2>3. PICK f : Sums(f, SecondsOf(Workload), Len(Workload), t)
    BY <2>2 DEF Costs, Total
  <2>4. PICK g : Sums(g, RequestsOf(Workload), Len(Workload), AnnouncedRequests)
    BY <2>2 DEF Costs, Total
  <2>5. t \in Nat /\ seconds \in Nat /\ AnnouncedSeconds + Excess \in Nat
    <3>1. AnnouncedSeconds \in Nat /\ Excess \in Nat
      BY <2>1 DEF AnnouncedSeconds, Excess, IPerfRuns, For, HostFacts, Benchmarks
    <3> QED BY <2>2, <3>1 DEF WorkloadInv, WorkloadTypeOK, Costs, Total
  <2>6. seconds <= t
    BY <2>3 DEF WorkloadInv, TimeInv
  <2>7. seconds <= AnnouncedSeconds + Excess
    BY <2>2, <2>5, <2>6
  <2>8. requests <= AnnouncedRequests
    BY <2>4 DEF WorkloadInv, RequestsInv
  <2>9. verdict = "success" => requests = AnnouncedRequests
    <3>1. verdict = "success" => done = Len(Workload) /\ requests = g[done]
      BY <2>4 DEF WorkloadInv, RequestsInv, SuccessInv
    <3>2. g[Len(Workload)] = AnnouncedRequests
      BY <2>4 DEF Sums
    <3> QED BY <3>1, <3>2
  <2> QED BY <2>7, <2>8, <2>9 DEF PlanCoversTheRun
<1> QED BY <1>1, WorkloadInvHolds, PTL
=============================================================================
