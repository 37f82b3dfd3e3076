------------------------ MODULE AdmissionLast_proofs ------------------------
(***************************************************************************)
(* What a chain of mutations leaves of a run: labels and managedBy are     *)
(* those of the last mutation that sets them, and an annotation is the sum *)
(* of the calls of resource() since it was last written.                   *)
(***************************************************************************)
EXTENDS AdmissionFunctions_proofs

\* A mutation that sets the label k.
SetsLabel(m, k) ==
    \/ m.type = "label" /\ m.key = k
    \/ m.type = "multiKueue" /\ m.value # Empty /\ k = QueueLabel

\* mutator.go, mutate: the label k is the one that the last mutation sets.
LEMMA LastLabel ==
    ASSUME NEW run, NEW ms, NEW f, Chain(run, ms, f), NEW k
    PROVE  LET l == f[Len(ms)].labels
           IN /\ \A i \in 1..Len(ms) :
                    SetsLabel(ms[i], k) /\ (\A j \in (i + 1)..Len(ms) : ~SetsLabel(ms[j], k))
                    => k \in DOMAIN l /\ l[k] = ms[i].value
              /\ (\A i \in 1..Len(ms) : ~SetsLabel(ms[i], k)) =>
                    /\ k \in DOMAIN l <=> k \in DOMAIN run.labels
                    /\ k \in DOMAIN l => l[k] = run.labels[k]
<1> DEFINE N == Len(ms)
           S(i) == SetsLabel(ms[i], k)
           l(n) == f[n].labels
           P(n) == /\ \A i \in 1..n : S(i) /\ (\A j \in (i + 1)..n : ~S(j))
                                          => k \in DOMAIN l(n) /\ l(n)[k] = ms[i].value
                   /\ (\A i \in 1..n : ~S(i)) =>
                          /\ k \in DOMAIN l(n) <=> k \in DOMAIN run.labels
                          /\ k \in DOMAIN l(n) => l(n)[k] = run.labels[k]
           T == {n \in Nat : n <= N => P(n)}
<1>1. N \in Nat /\ DOMAIN ms = 1..N
  BY DEF Chain, ChainTo, IsSequence
<1>2. ASSUME NEW n \in Nat, n + 1 \in 1..N
      PROVE  /\ S(n + 1) => k \in DOMAIN l(n + 1) /\ l(n + 1)[k] = ms[n + 1].value
             /\ ~S(n + 1) => /\ k \in DOMAIN l(n + 1) <=> k \in DOMAIN l(n)
                             /\ k \in DOMAIN l(n) => l(n + 1)[k] = l(n)[k]
  <2> DEFINE m == ms[n + 1]
  <2>1. IsRun(f[n]) /\ IsChecked(m) /\ mutate(f[n], m) = Changed(f[n + 1])
    <3>1. n \in 0..N /\ n + 1 \in DOMAIN ms /\ (n + 1) - 1 = n
      BY <1>1, <1>2
    <3> QED BY <1>2, <3>1 DEF Chain, ChainTo
  <2>2. l(n + 1) = IF m.type = "label" THEN Put(l(n), m.key, m.value)
                   ELSE IF m.type = "multiKueue" /\ m.value # Empty
                   THEN Put(l(n), QueueLabel, m.value)
                   ELSE l(n)
    <3>1. WritesLabels(f[n], m, f[n + 1])
      BY <2>1, MutateWrites
    <3> QED BY <3>1 DEF WritesLabels
  <2> HIDE DEF m, l
  <2> QED BY <2>2 DEF SetsLabel, Put, m
<1> HIDE DEF N, S
<1>3. 0 \in T
  BY DEF Chain, ChainTo
<1> HIDE DEF l
<1>4. ASSUME NEW n \in Nat, n \in T
      PROVE  n + 1 \in T
  <2> SUFFICES ASSUME n + 1 <= N PROVE P(n + 1)
    OBVIOUS
  <2>1. P(n) /\ n + 1 \in 1..N
    BY <1>1, <1>4
  <2>2. CASE S(n + 1)
    <3>1. k \in DOMAIN l(n + 1) /\ l(n + 1)[k] = ms[n + 1].value
      BY <1>2, <2>1, <2>2
    <3>2. ASSUME NEW i \in 1..(n + 1), \A j \in (i + 1)..(n + 1) : ~S(j)
          PROVE  i = n + 1
      BY <2>2, <3>2
    <3> QED BY <2>1, <2>2, <3>1, <3>2
  <2>3. CASE ~S(n + 1)
    <3>1. /\ k \in DOMAIN l(n + 1) <=> k \in DOMAIN l(n)
          /\ k \in DOMAIN l(n) => l(n + 1)[k] = l(n)[k]
      BY <1>2, <2>1, <2>3
    <3>2. ASSUME NEW i \in 1..(n + 1), S(i), \A j \in (i + 1)..(n + 1) : ~S(j)
          PROVE  i \in 1..n /\ \A j \in (i + 1)..n : ~S(j)
      BY <2>3, <3>2
    <3>3. (\A i \in 1..(n + 1) : ~S(i)) => \A i \in 1..n : ~S(i)
      OBVIOUS
    <3> QED BY <2>1, <3>1, <3>2, <3>3
  <2> QED BY <2>2, <2>3
<1>5. \A n \in Nat : n \in T
  <2> HIDE DEF T
  <2> QED BY <1>3, <1>4, NaturalInduction
<1>6. P(N)
  BY <1>1, <1>5
<1> QED BY <1>6 DEF S, l, N

\* A mutation that decides where the run is reconciled, and what it decides.
SetsRoute(m) == m.type \in {"managedBy", "multiKueue"}
Route(m) == IF m.type = "managedBy" THEN m.value ELSE MultiKueue

\* mutator.go, mutate: managedBy is the one that the last mutation sets.
LEMMA LastRoute ==
    ASSUME NEW run, NEW ms, NEW f, Chain(run, ms, f)
    PROVE  /\ \A i \in 1..Len(ms) :
                 SetsRoute(ms[i]) /\ (\A j \in (i + 1)..Len(ms) : ~SetsRoute(ms[j]))
                 => f[Len(ms)].managedBy = Route(ms[i])
           /\ (\A i \in 1..Len(ms) : ~SetsRoute(ms[i])) =>
                 f[Len(ms)].managedBy = run.managedBy
<1> DEFINE N == Len(ms)
           S(i) == SetsRoute(ms[i])
           b(n) == f[n].managedBy
           P(n) == /\ \A i \in 1..n : S(i) /\ (\A j \in (i + 1)..n : ~S(j))
                                          => b(n) = Route(ms[i])
                   /\ (\A i \in 1..n : ~S(i)) => b(n) = run.managedBy
           T == {n \in Nat : n <= N => P(n)}
<1>1. N \in Nat /\ DOMAIN ms = 1..N
  BY DEF Chain, ChainTo, IsSequence
<1>2. ASSUME NEW n \in Nat, n + 1 \in 1..N
      PROVE  b(n + 1) = IF S(n + 1) THEN Route(ms[n + 1]) ELSE b(n)
  <2>1. IsRun(f[n]) /\ IsChecked(ms[n + 1]) /\ mutate(f[n], ms[n + 1]) = Changed(f[n + 1])
    <3>1. n \in 0..N /\ n + 1 \in DOMAIN ms /\ (n + 1) - 1 = n
      BY <1>1, <1>2
    <3> QED BY <1>2, <3>1 DEF Chain, ChainTo
  <2>2. WritesManagedBy(f[n], ms[n + 1], f[n + 1])
    BY <2>1, MutateWrites
  <2> QED BY <2>2 DEF WritesManagedBy, SetsRoute, Route
<1> HIDE DEF N, S
<1>3. 0 \in T
  BY DEF Chain, ChainTo
<1> HIDE DEF b
<1>4. ASSUME NEW n \in Nat, n \in T
      PROVE  n + 1 \in T
  <2> SUFFICES ASSUME n + 1 <= N PROVE P(n + 1)
    OBVIOUS
  <2>1. P(n) /\ n + 1 \in 1..N
    BY <1>1, <1>4
  <2>2. CASE S(n + 1)
    <3>1. b(n + 1) = Route(ms[n + 1])
      BY <1>2, <2>1, <2>2
    <3>2. ASSUME NEW i \in 1..(n + 1), \A j \in (i + 1)..(n + 1) : ~S(j)
          PROVE  i = n + 1
      BY <2>2, <3>2
    <3> QED BY <2>1, <2>2, <3>1, <3>2
  <2>3. CASE ~S(n + 1)
    <3>1. b(n + 1) = b(n)
      BY <1>2, <2>1, <2>3
    <3>2. ASSUME NEW i \in 1..(n + 1), S(i), \A j \in (i + 1)..(n + 1) : ~S(j)
          PROVE  i \in 1..n /\ \A j \in (i + 1)..n : ~S(j)
      BY <2>3, <3>2
    <3>3. (\A i \in 1..(n + 1) : ~S(i)) => \A i \in 1..n : ~S(i)
      OBVIOUS
    <3> QED BY <2>1, <3>1, <3>2, <3>3
  <2> QED BY <2>2, <2>3
<1>5. \A n \in Nat : n \in T
  <2> HIDE DEF T
  <2> QED BY <1>3, <1>4, NaturalInduction
<1>6. P(N)
  BY <1>1, <1>5
<1> QED BY <1>6 DEF S, b, N

\* Some resource() on k among the first n mutations that no annotation() of
\* them overwrites.
Counts(ms, k, n) ==
    \E i \in 1..n :
       /\ ms[i].type = "resource" /\ ms[i].key = k
       /\ \A j \in (i + 1)..n : ~(ms[j].type = "annotation" /\ ms[j].key = k)

\* The annotations a hold the sum under k, wrapped at most once.
HasSum(a, k, sum) ==
    k \in DOMAIN a /\ sum \in 0..(2 * MaxInt) /\ a[k] = Itoa(Wrap(sum))

\* Two maps agree on k.
SameAt(a, b, k) ==
    /\ k \in DOMAIN a <=> k \in DOMAIN b
    /\ k \in DOMAIN a => a[k] = b[k]

\* The annotations a hold under k what an annotation() among the first n
\* mutations wrote there.
IsOverwritten(a, k, ms, n) ==
    /\ k \in DOMAIN a
    /\ \E i \in 1..n : ms[i].type = "annotation" /\ ms[i].key = k /\ a[k] = ms[i].value

\* mutator.go, mutateResource: an annotation that resource() wrote last is the
\* sum, wrapped if it is beyond MaxInt; every other one is as it was written.
LEMMA LastSum ==
    ASSUME NEW run, NEW ms, NEW N, NEW f, ChainTo(run, ms, N, f), NEW k
    PROVE  /\ Counts(ms, k, N) => HasSum(f[N].annotations, k, Totals(ms, k, run)[N])
           /\ ~Counts(ms, k, N) => \/ SameAt(f[N].annotations, run.annotations, k)
                                   \/ IsOverwritten(f[N].annotations, k, ms, N)
<1> DEFINE a(n) == f[n].annotations
           t(n) == Totals(ms, k, run)[n]
           C(n) == Counts(ms, k, n)
           W(n) == ms[n].key = k /\ ms[n].type = "annotation"
           R(n) == ms[n].key = k /\ ms[n].type = "resource"
           V(n) == Written(f[n], k)
           S(n) == SameAt(a(n), run.annotations, k)
           O(n) == IsOverwritten(a(n), k, ms, n)
           P(n) == /\ C(n) => /\ k \in DOMAIN a(n) /\ t(n) \in 0..(2 * MaxInt)
                              /\ a(n)[k] = Itoa(Wrap(t(n)))
                   /\ ~C(n) => t(n) = V(n)
                   /\ ~C(n) => S(n) \/ O(n)
           T == {n \in Nat : n <= N => P(n)}
<1>1. /\ N \in Nat /\ N <= Len(ms) /\ Len(ms) \in Nat /\ DOMAIN ms = 1..Len(ms)
      /\ MaxInt \in Nat
  BY IntBitsAssumption DEF ChainTo, IsSequence, MaxInt
<1>2. /\ ~C(0)
      /\ \A n \in Nat : C(n + 1) <=> R(n + 1) \/ (C(n) /\ ~W(n + 1))
  <2>1. ~C(0)
    BY DEF Counts
  <2>2. ASSUME NEW n \in Nat, R(n + 1) PROVE C(n + 1)
    <3>1. n + 1 \in 1..(n + 1) /\ (n + 1 + 1)..(n + 1) = {}
      OBVIOUS
    <3> QED BY <2>2, <3>1 DEF Counts
  <2>3. ASSUME NEW n \in Nat, C(n), ~W(n + 1) PROVE C(n + 1)
    <3>1. PICK i \in 1..n : R(i) /\ \A j \in (i + 1)..n : ~W(j)
      BY <2>3 DEF Counts
    <3>2. i \in 1..(n + 1) /\ \A j \in (i + 1)..(n + 1) : ~W(j)
      BY <2>3, <3>1
    <3> QED BY <3>1, <3>2 DEF Counts
  <2>4. ASSUME NEW n \in Nat, C(n + 1), ~R(n + 1) PROVE C(n) /\ ~W(n + 1)
    <3>1. PICK i \in 1..(n + 1) : R(i) /\ \A j \in (i + 1)..(n + 1) : ~W(j)
      BY <2>4 DEF Counts
    <3>2. i \in 1..n /\ n + 1 \in (i + 1)..(n + 1) /\ \A j \in (i + 1)..n : j \in (i + 1)..(n + 1)
      BY <2>4, <3>1
    <3> QED BY <3>1, <3>2 DEF Counts
  <2> QED BY <2>1, <2>2, <2>3, <2>4
<1>3. /\ t(0) = V(0)
      /\ \A n \in Nat : n + 1 \in 1..N =>
            t(n + 1) = IF W(n + 1) THEN ms[n + 1].value.n
                       ELSE IF R(n + 1) THEN t(n) + ms[n + 1].value.n ELSE t(n)
  <2>1. f[0] = run
    BY DEF ChainTo
  <2>2. \A n \in Nat : (n + 1) - 1 = n /\ (n + 1 \in 1..N => n + 1 \in 1..Len(ms))
    BY <1>1
  <2> QED BY <1>1, <2>1, <2>2, TotalsSteps
<1>4. ASSUME NEW n \in Nat, n + 1 \in 1..N
      PROVE  /\ W(n + 1) => k \in DOMAIN a(n + 1) /\ a(n + 1)[k] = ms[n + 1].value
             /\ R(n + 1) => /\ V(n) \in 0..MaxInt /\ k \in DOMAIN a(n + 1)
                            /\ a(n + 1)[k] = Itoa(Wrap(ms[n + 1].value.n + V(n)))
                            /\ ms[n + 1].value.n \in 0..MaxInt
             /\ ~W(n + 1) /\ ~R(n + 1) => /\ k \in DOMAIN a(n + 1) <=> k \in DOMAIN a(n)
                                          /\ k \in DOMAIN a(n) => a(n + 1)[k] = a(n)[k]
  <2> DEFINE m == ms[n + 1]
             v == Written(f[n], m.key)
  <2>1. IsRun(f[n]) /\ IsChecked(m) /\ mutate(f[n], m) = Changed(f[n + 1])
    <3>1. n \in 0..N /\ n + 1 \in DOMAIN ms /\ (n + 1) - 1 = n
      BY <1>1, <1>4
    <3> QED BY <1>4, <3>1 DEF ChainTo
  <2>2. /\ m.type \notin {"annotation", "resource"} => a(n + 1) = a(n)
        /\ m.type = "annotation" => a(n + 1) = Put(a(n), m.key, m.value)
        /\ m.type = "resource" => /\ v \in 0..MaxInt
                                  /\ a(n + 1) = Put(a(n), m.key, Itoa(Wrap(m.value.n + v)))
    <3> HIDE DEF m
    <3>1. WritesAnnotations(f[n], m, f[n + 1])
      BY <2>1, MutateWrites
    <3> QED BY <3>1 DEF WritesAnnotations
  <2>3. m.type = "resource" => m.value.n \in 0..MaxInt
    BY <1>1, <2>1 DEF IsChecked, Atoi
  <2> HIDE DEF m, a
  <2>4. \A x : /\ k \in DOMAIN Put(a(n), k, x) /\ Put(a(n), k, x)[k] = x
               /\ \A y : y # k => /\ k \in DOMAIN Put(a(n), y, x) <=> k \in DOMAIN a(n)
                                  /\ k \in DOMAIN a(n) => Put(a(n), y, x)[k] = a(n)[k]
    BY DEF Put
  <2>5. m.key = k => v = V(n)
    OBVIOUS
  <2> HIDE DEF v, V
  <2>6. W(n + 1) => k \in DOMAIN a(n + 1) /\ a(n + 1)[k] = ms[n + 1].value
    BY <2>2, <2>4 DEF m
  <2>7. R(n + 1) => /\ V(n) \in 0..MaxInt /\ k \in DOMAIN a(n + 1)
                    /\ a(n + 1)[k] = Itoa(Wrap(ms[n + 1].value.n + V(n)))
                    /\ ms[n + 1].value.n \in 0..MaxInt
    BY <2>2, <2>3, <2>4, <2>5 DEF m
  <2>8. ~W(n + 1) /\ ~R(n + 1) => /\ k \in DOMAIN a(n + 1) <=> k \in DOMAIN a(n)
                                  /\ k \in DOMAIN a(n) => a(n + 1)[k] = a(n)[k]
    BY <2>2, <2>4 DEF m
  <2> HIDE DEF W, R
  <2> QED BY <2>6, <2>7, <2>8
<1>5. 0 \in T
  <2>1. S(0)
    BY DEF ChainTo, SameAt
  <2>2. P(0)
    BY <1>2, <1>3, <2>1
  <2> QED BY <2>2
<1> HIDE DEF a, t, C, W, R, S, O
<1>6. ASSUME NEW n \in Nat, n \in T
      PROVE  n + 1 \in T
  <2> SUFFICES ASSUME n + 1 <= N PROVE P(n + 1)
    OBVIOUS
  <2>1. P(n) /\ n + 1 \in 1..N
    BY <1>1, <1>6
  <2>2. W(n + 1) => O(n + 1)
    <3>1. n + 1 \in 1..(n + 1)
      OBVIOUS
    <3> QED BY <1>4, <2>1, <3>1 DEF W, O, IsOverwritten
  <2>3. CASE W(n + 1)
    <3>1. ~R(n + 1)
      BY <2>3 DEF W, R
    <3>2. V(n + 1) = ms[n + 1].value.n
      BY <1>4, <2>1, <2>3 DEF Written, a
    <3> HIDE DEF V
    <3> QED BY <1>2, <1>3, <1>4, <2>1, <2>2, <2>3, <3>1, <3>2
  <2>4. CASE R(n + 1)
    <3>1. C(n + 1) /\ ~W(n + 1)
      BY <1>2, <2>4 DEF W, R
    <3>2. /\ V(n) \in 0..MaxInt /\ k \in DOMAIN a(n + 1) /\ ms[n + 1].value.n \in 0..MaxInt
          /\ a(n + 1)[k] = Itoa(Wrap(ms[n + 1].value.n + V(n)))
          /\ t(n + 1) = t(n) + ms[n + 1].value.n
      BY <1>3, <1>4, <2>1, <2>4, <3>1
    <3>3. t(n) = V(n)
      <4>1. CASE C(n)
        <5>1. k \in DOMAIN a(n) /\ t(n) \in 0..(2 * MaxInt) /\ a(n)[k] = Itoa(Wrap(t(n)))
          BY <2>1, <4>1
        <5>2. V(n) = Wrap(t(n))
          BY <5>1 DEF Itoa, Value, Written, a
        <5> HIDE DEF V
        <5>3. Wrap(t(n)) >= 0
          BY <1>1, <3>2, <5>2
        <5>4. Wrap(t(n)) = t(n)
          BY <1>1, <5>1, <5>3, WrapOnce
        <5> QED BY <5>2, <5>4
      <4> QED BY <2>1, <4>1
    <3> HIDE DEF V
    <3>4. t(n + 1) = ms[n + 1].value.n + V(n) /\ t(n + 1) \in 0..(2 * MaxInt)
      <4>1. V(n) \in 0..MaxInt /\ ms[n + 1].value.n \in 0..MaxInt
        BY <3>2
      <4>2. t(n + 1) = V(n) + ms[n + 1].value.n
        BY <3>2, <3>3
      <4> QED BY <1>1, <4>1, <4>2
    <3> QED BY <3>1, <3>2, <3>4
  <2>5. CASE ~W(n + 1) /\ ~R(n + 1)
    <3>1. /\ C(n + 1) <=> C(n)
          /\ t(n + 1) = t(n)
          /\ k \in DOMAIN a(n + 1) <=> k \in DOMAIN a(n)
          /\ k \in DOMAIN a(n) => a(n + 1)[k] = a(n)[k]
      BY <1>2, <1>3, <1>4, <2>1, <2>5
    <3>2. V(n + 1) = V(n)
      BY <3>1 DEF Written, a
    <3>3. S(n) => S(n + 1)
      BY <3>1 DEF S, SameAt
    <3>4. O(n) => O(n + 1)
      <4>1. \A i \in 1..n : i \in 1..(n + 1)
        OBVIOUS
      <4> QED BY <3>1, <4>1 DEF O, IsOverwritten
    <3> HIDE DEF V
    <3> QED BY <2>1, <3>1, <3>2, <3>3, <3>4
  <2> QED BY <2>3, <2>4, <2>5
<1>7. \A n \in Nat : n \in T
  <2> HIDE DEF T
  <2> QED BY <1>5, <1>6, NaturalInduction
<1> HIDE DEF V
<1>8. P(N)
  <2>1. N \in Nat /\ N <= N
    BY <1>1
  <2> HIDE DEF P
  <2> QED BY <1>7, <2>1
<1>9. C(N) => HasSum(a(N), k, t(N))
  BY <1>8 DEF HasSum
<1>10. ~C(N) => S(N) \/ O(N)
  BY <1>8
<1> QED BY <1>9, <1>10 DEF a, t, C, S, O

-----------------------------------------------------------------------------
(* The properties of an admitted run, from the functions of Admission.     *)

\* The webhook let the run through, and plr is what Default makes of it.
AdmittedAsAsked ==
    /\ IsRun(submitted) /\ IsSequence(Asked)
    /\ \A i \in DOMAIN Asked : IsChecked(Asked[i])
    /\ DefaultAll(cfg, submitted) = Changed(plr)

\* pipelinerun_webhook.go, Default: what it leaves for the mutations.
LEMMA DefaultedFields ==
    ASSUME NEW c, NEW run, IsRun(run), NEW r, r = Defaulted(c, run)
    PROVE  /\ IsRun(r) /\ r.annotations = run.annotations
           /\ \A k : k # QueueLabel =>
                 /\ k \in DOMAIN r.labels <=> k \in DOMAIN run.labels
                 /\ k \in DOMAIN r.labels => r.labels[k] = run.labels[k]
<1> DEFINE l == IF QueueLabel \in DOMAIN run.labels THEN run.labels
                ELSE Put(run.labels, QueueLabel, c.queue)
           b == IF c.override THEN MultiKueue ELSE run.managedBy
<1>1. r = [run EXCEPT !.status = "Pending", !.labels = l, !.managedBy = b]
  BY DEF Defaulted, IsRun, RunFields
<1> HIDE DEF l, b
<1>2. IsRun(r) /\ r.annotations = run.annotations /\ r.labels = l
  BY <1>1 DEF IsRun, RunFields
<1>3. \A k : k # QueueLabel => /\ k \in DOMAIN l <=> k \in DOMAIN run.labels
                               /\ k \in DOMAIN l => l[k] = run.labels[k]
  BY DEF l, Put
<1> QED BY <1>2, <1>3

LEMMA AdmittedChain ==
    ASSUME AdmittedAsAsked
    PROVE  \E f : Chain(Start, Asked, f) /\ f[Len(Asked)] = plr
<1> DEFINE N == Len(Asked)
           p == Applied(Start, Asked)
           f == [n \in 0..N |-> p[n].run]
<1>1. /\ IsRun(Start) /\ IsSequence(Asked) /\ N \in Nat
      /\ \A i \in DOMAIN Asked : IsChecked(Asked[i])
  BY DefaultedFields DEF AdmittedAsAsked, Start, IsSequence
<1>2. DefaultAll(cfg, submitted) = p[N] \/ DefaultAll(cfg, submitted) = Refused(Start)
  BY DEF DefaultAll, Start, Asked
<1>3. p[N] = Changed(plr)
  BY <1>2 DEF AdmittedAsAsked, Refused, Changed
<1>4. p[N].ok /\ p[N].run = plr
  BY <1>3 DEF Changed
<1>5. Chain(Start, Asked, f)
  <2>1. N \in 0..N
    BY <1>1
  <2> QED BY <1>1, <1>4, <2>1, AppliedIsChain DEF Chain
<1>6. f[N] = plr
  BY <1>1, <1>4
<1> HIDE DEF f
<1> QED BY <1>5, <1>6

\* The last of some positions, 0 if there is none.
LEMMA LastPosition ==
    ASSUME NEW N \in Nat, NEW I, I \subseteq 1..N,
           NEW l, l = IF I # {} THEN Max(I) ELSE 0
    PROVE  /\ l = 0 => I = {}
           /\ l # 0 => l \in I /\ l \in 1..N /\ \A j \in (l + 1)..N : j \notin I
<1>1. CASE I = {}
  BY <1>1
<1>2. CASE I # {}
  <2>1. l \in I /\ \A i \in I : i <= l
    BY <1>2, MaxIsLargest
  <2>2. l \in 1..N
    BY <2>1
  <2>3. \A j \in (l + 1)..N : j \notin I
    BY <2>1, <2>2
  <2> QED BY <2>1, <2>2, <2>3
<1> QED BY <1>1, <1>2

LEMMA RoutedOutcome == ASSUME AdmittedAsAsked PROVE RoutedByLastCall
<1> DEFINE N == Len(Asked)
           Routes(m) == m.type \in {"managedBy", "multiKueue"}
           Queues(m) == \/ m.type = "label" /\ m.key = QueueLabel
                        \/ m.type = "multiKueue" /\ m.value # Empty
           I == {i \in 1..N : Routes(Asked[i])}
           J == {i \in 1..N : Queues(Asked[i])}
           route == IF I # {} THEN Max(I) ELSE 0
           queue == IF J # {} THEN Max(J) ELSE 0
<1>1. N \in Nat
  BY DEF AdmittedAsAsked, IsSequence
<1>2. PICK f : Chain(Start, Asked, f) /\ f[N] = plr
  BY AdmittedChain
<1>3. plr.managedBy = CASE route = 0 -> Start.managedBy
                        [] route # 0 /\ Asked[route].type = "managedBy" -> Asked[route].value
                        [] OTHER -> MultiKueue
  <2>1. /\ route = 0 => I = {}
        /\ route # 0 => route \in I /\ route \in 1..N /\ \A j \in (route + 1)..N : j \notin I
    <3>1. I \subseteq 1..N
      OBVIOUS
    <3> HIDE DEF I
    <3> QED BY <1>1, <3>1, LastPosition
  <2> HIDE DEF route
  <2>2. CASE route = 0
    <3>1. \A i \in 1..N : ~SetsRoute(Asked[i])
      BY <2>1, <2>2 DEF SetsRoute
    <3>2. plr.managedBy = Start.managedBy
      BY <1>2, <3>1, LastRoute
    <3> QED BY <2>2, <3>2
  <2>3. CASE route # 0
    <3>1. /\ route \in 1..N /\ SetsRoute(Asked[route])
          /\ \A j \in (route + 1)..N : ~SetsRoute(Asked[j])
      BY <1>1, <2>1, <2>3 DEF SetsRoute
    <3>2. plr.managedBy = Route(Asked[route])
      BY <1>2, <3>1, LastRoute
    <3> QED BY <2>3, <3>2 DEF Route
  <2> QED BY <2>2, <2>3
<1>4. plr.labels[QueueLabel] = IF queue = 0 THEN Start.labels[QueueLabel] ELSE Asked[queue].value
  <2>1. /\ queue = 0 => J = {}
        /\ queue # 0 => queue \in J /\ queue \in 1..N /\ \A j \in (queue + 1)..N : j \notin J
    <3>1. J \subseteq 1..N
      OBVIOUS
    <3> HIDE DEF J
    <3> QED BY <1>1, <3>1, LastPosition
  <2> HIDE DEF queue
  <2>2. CASE queue = 0
    <3>1. \A i \in 1..N : ~SetsLabel(Asked[i], QueueLabel)
      BY <2>1, <2>2 DEF SetsLabel
    <3>2. /\ QueueLabel \in DOMAIN plr.labels <=> QueueLabel \in DOMAIN Start.labels
          /\ QueueLabel \in DOMAIN plr.labels =>
                plr.labels[QueueLabel] = Start.labels[QueueLabel]
      BY <1>2, <3>1, LastLabel
    <3>3. QueueLabel \in DOMAIN Start.labels
      BY DEF AdmittedAsAsked, Start, Defaulted, IsRun, RunFields, Put
    <3> QED BY <2>2, <3>2, <3>3
  <2>3. CASE queue # 0
    <3>1. /\ queue \in 1..N /\ SetsLabel(Asked[queue], QueueLabel)
          /\ \A j \in (queue + 1)..N : ~SetsLabel(Asked[j], QueueLabel)
      BY <1>1, <2>1, <2>3 DEF SetsLabel
    <3>2. plr.labels[QueueLabel] = Asked[queue].value
      BY <1>2, <3>1, LastLabel
    <3> QED BY <2>3, <3>2
  <2> QED BY <2>2, <2>3
<1>5. LastAsked(Routes) = route /\ LastAsked(Queues) = queue
  BY DEF LastAsked, SelectLastInSeq
<1> HIDE DEF route, queue
<1> QED BY <1>3, <1>4, <1>5 DEF RoutedByLastCall

LEMMA PriorityOutcome == ASSUME AdmittedAsAsked PROVE EvaluatedOnSubmittedRun
<1> DEFINE N == Len(Asked)
           SetsPriority(m) == m.type = "label" /\ m.key = PriorityLabel
           I == {i \in 1..N : SetsPriority(Asked[i])}
           last == IF I # {} THEN Max(I) ELSE 0
<1>1. N \in Nat
  BY DEF AdmittedAsAsked, IsSequence
<1>2. PICK f : Chain(Start, Asked, f) /\ f[N] = plr
  BY AdmittedChain
<1>3. PriorityLabel # QueueLabel
  BY DEF PriorityLabel, QueueLabel, Key
<1>4. \A m : SetsLabel(m, PriorityLabel) <=> SetsPriority(m)
  BY <1>3 DEF SetsLabel
<1>5. /\ last = 0 => I = {}
      /\ last # 0 => last \in I /\ last \in 1..N /\ \A j \in (last + 1)..N : j \notin I
  <2>1. I \subseteq 1..N
    OBVIOUS
  <2> HIDE DEF I
  <2> QED BY <1>1, <2>1, LastPosition
<1>6. LastAsked(SetsPriority) = last
  BY DEF LastAsked, SelectLastInSeq
<1> HIDE DEF last
<1>7. CASE last = 0
  <2>1. \A i \in 1..N : ~SetsLabel(Asked[i], PriorityLabel)
    BY <1>4, <1>5, <1>7
  <2>2. /\ PriorityLabel \in DOMAIN plr.labels <=> PriorityLabel \in DOMAIN Start.labels
        /\ PriorityLabel \in DOMAIN plr.labels =>
              plr.labels[PriorityLabel] = Start.labels[PriorityLabel]
    BY <1>2, <2>1, LastLabel
  <2>3. PriorityLabel \in DOMAIN Start.labels =>
           Start.labels[PriorityLabel] = submitted.labels[PriorityLabel]
    BY <1>3, DefaultedFields DEF AdmittedAsAsked, Start
  <2> QED BY <1>6, <1>7, <2>2, <2>3 DEF EvaluatedOnSubmittedRun
<1>8. CASE last # 0
  <2>1. /\ last \in 1..N /\ SetsLabel(Asked[last], PriorityLabel)
        /\ \A j \in (last + 1)..N : ~SetsLabel(Asked[j], PriorityLabel)
    BY <1>1, <1>4, <1>5, <1>8
  <2>2. plr.labels[PriorityLabel] = Asked[last].value
    BY <1>2, <2>1, LastLabel
  <2> QED BY <1>6, <1>8, <2>2 DEF EvaluatedOnSubmittedRun
<1> QED BY <1>7, <1>8

\* Default leaves the annotations alone, so sums start from the user's value.
LEMMA AdmittedSum ==
    ASSUME AdmittedAsAsked, NEW k
    PROVE  /\ Counts(Asked, k, Len(Asked)) => HasSum(plr.annotations, k, Total(k))
           /\ (\A i \in 1..Len(Asked) :
                 Asked[i].key = k => Asked[i].type \notin {"annotation", "resource"}) =>
                    SameAt(plr.annotations, submitted.annotations, k)
<1> DEFINE N == Len(Asked)
<1>1. PICK f : Chain(Start, Asked, f) /\ f[N] = plr
  BY AdmittedChain
<1>2. Start.annotations = submitted.annotations
  BY DefaultedFields DEF AdmittedAsAsked, Start
<1>3. Totals(Asked, k, Start) = Totals(Asked, k, submitted)
  BY <1>2 DEF Totals, Written
<1>4. /\ Counts(Asked, k, N) => HasSum(plr.annotations, k, Total(k))
      /\ ~Counts(Asked, k, N) => \/ SameAt(plr.annotations, submitted.annotations, k)
                                 \/ IsOverwritten(plr.annotations, k, Asked, N)
  BY <1>1, <1>2, <1>3, LastSum DEF Total, Chain
<1>5. (\A i \in 1..N : Asked[i].key = k => Asked[i].type \notin {"annotation", "resource"})
         => ~Counts(Asked, k, N) /\ ~IsOverwritten(plr.annotations, k, Asked, N)
  BY DEF Counts, IsOverwritten
<1> QED BY <1>4, <1>5

\* A sum of resource() calls that fits an int is the annotation's value, one
\* that does not is a negative number there.
LEMMA SumOutcome ==
    ASSUME AdmittedAsAsked,
           SumsFit \/ resourcesRequests(plr)
    PROVE  IsSummed
<1> SUFFICES ASSUME NEW i \in DOMAIN Asked, Asked[i].type = "resource",
                    \A j \in DOMAIN Asked : j > i /\ Asked[j].key = Asked[i].key
                                              => Asked[j].type # "annotation"
             PROVE  plr.annotations[Asked[i].key] = Itoa(Total(Asked[i].key))
  BY DEF IsSummed
<1> DEFINE N == Len(Asked)
           k == Asked[i].key
<1>1. N \in Nat /\ DOMAIN Asked = 1..N
  BY DEF AdmittedAsAsked, IsSequence
<1>2. Counts(Asked, k, N)
  <2>1. i \in 1..N /\ \A j \in (i + 1)..N : j \in DOMAIN Asked /\ j > i
    BY <1>1
  <2> QED BY <2>1 DEF Counts
<1>3. /\ k \in DOMAIN plr.annotations /\ Total(k) \in 0..(2 * MaxInt)
      /\ plr.annotations[k] = Itoa(Wrap(Total(k)))
  BY <1>2, AdmittedSum DEF HasSum
<1>4. Total(k) <= MaxInt
  <2>1. CASE SumsFit
    BY <2>1 DEF SumsFit, Requests
  <2>2. CASE resourcesRequests(plr)
    <3>1. k.requests
      BY DEF AdmittedAsAsked, IsChecked
    <3>2. plr.annotations[k].n >= 0
      BY <1>3, <2>2, <3>1 DEF resourcesRequests, parseResourcesRequestsAnnotation
    <3>3. Wrap(Total(k)) >= 0
      BY <1>3, <3>2 DEF Itoa, Value
    <3>4. Wrap(Total(k)) \in Int /\ Total(k) \in Nat /\ MaxInt \in Nat
      BY <1>3, WrapOnce
    <3> QED BY <1>3, <3>3, <3>4, WrapOnce
  <2> QED BY <2>1, <2>2
<1> QED BY <1>3, <1>4, WrapOnce

\* mutateResource and parseResourcesRequestsAnnotation: the parser refuses only
\* what it would refuse on the submitted run, or an annotation().
LEMMA QueueOutcome ==
    ASSUME AdmittedAsAsked, SumsFit, NEW k \in DOMAIN plr.annotations,
           IsQualifiedName(k), ~parseResourcesRequestsAnnotation(k, plr.annotations[k])
    PROVE  \/ k \in DOMAIN submitted.annotations
                 /\ ~parseResourcesRequestsAnnotation(k, submitted.annotations[k])
           \/ \E i \in DOMAIN Asked : Asked[i].type = "annotation" /\ Asked[i].key.requests
<1> SUFFICES ASSUME \A i \in DOMAIN Asked : ~(Asked[i].type = "annotation"
                                                /\ Asked[i].key.requests)
             PROVE  /\ k \in DOMAIN submitted.annotations
                    /\ ~parseResourcesRequestsAnnotation(k, submitted.annotations[k])
  OBVIOUS
<1> DEFINE N == Len(Asked)
<1>1. N \in Nat /\ DOMAIN Asked = 1..N /\ k.requests
  BY DEF AdmittedAsAsked, IsSequence, parseResourcesRequestsAnnotation
<1>2. CASE \E i \in 1..N : Asked[i].type = "resource" /\ Asked[i].key = k
  <2>1. PICK i \in 1..N : Asked[i].type = "resource" /\ Asked[i].key = k
    BY <1>2
  <2>2. Counts(Asked, k, N)
    <3>1. \A j \in (i + 1)..N : ~(Asked[j].type = "annotation" /\ Asked[j].key = k)
      BY <1>1
    <3> QED BY <2>1, <3>1 DEF Counts
  <2>3. Total(k) \in 0..(2 * MaxInt) /\ plr.annotations[k] = Itoa(Wrap(Total(k)))
    BY <2>2, AdmittedSum DEF HasSum
  <2>4. Total(k) <= MaxInt
    BY <1>1, <2>1 DEF SumsFit, Requests
  <2>5. plr.annotations[k] = Itoa(Total(k)) /\ Total(k) >= 0
    BY <2>3, <2>4, WrapOnce
  <2>6. k.name \notin {NoKey.name, ConcurrencyToken}
    BY <1>1, <2>1 DEF AdmittedAsAsked, IsChecked, IsQualifiedName
  <2> QED BY <2>5, <2>6 DEF parseResourcesRequestsAnnotation, Itoa, Value
<1>3. CASE \A i \in 1..N : ~(Asked[i].type = "resource" /\ Asked[i].key = k)
  <2>1. \A i \in 1..N : Asked[i].key = k => Asked[i].type \notin {"annotation", "resource"}
    BY <1>1, <1>3
  <2> QED BY <2>1, AdmittedSum DEF SameAt
<1> QED BY <1>2, <1>3

\* pkg/mutate/mutate.go, MutatePipelineRun: a run is printed exactly when
\* Default makes one.
LEMMA PreviewOutcome ==
    ASSUME Loads(cfg)
    PROVE  LET d == DefaultAll(cfg, submitted)
           IN MutatePipelineRun({submitted}, {cfg}) = IF d.ok THEN {RoundTrip(d.run)} ELSE {}
<1> DEFINE d == DefaultAll(cfg, submitted)
<1>1. LoadDefaulter({cfg}) = {cfg}
  BY DEF LoadDefaulter
<1>2. {DefaultAll(c, run) : c \in {cfg}, run \in {submitted}} = {d}
  OBVIOUS
<1> HIDE DEF d
<1>3. MutatePipelineRun({submitted}, {cfg}) = {RoundTrip(r.run) : r \in {x \in {d} : x.ok}}
  BY <1>1, <1>2 DEF MutatePipelineRun
<1> QED BY <1>3 DEF d
=============================================================================
