---------------------- MODULE AdmissionFunctions_proofs ----------------------
(***************************************************************************)
(* What the functions that do Default at once compute, for any number of   *)
(* expressions and mutations: Collected and Applied are the loops of       *)
(* CELMutator.evaluate and of Mutate, Totals adds the calls of resource(). *)
(* The induction is over the sets of the numbers that a claim holds of.    *)
(***************************************************************************)
EXTENDS Admission, WellFoundedInduction, TLAPS

-----------------------------------------------------------------------------
(* Numbers.                                                                *)

\* Every set of natural numbers has a least element.
LEMMA LeastNatural ==
    ASSUME NEW T, T \subseteq Nat, T # {}
    PROVE  \E n \in T : \A m \in T : n <= m
<1> DEFINE R == OpToRel(<, Nat)
<1>1. IsWellFoundedOn(R, Nat)
  BY NatLessThanWellFounded, Zenon
<1>2. \A m \in Nat, n \in Nat : m < n => <<m, n>> \in R
  BY DEF OpToRel
<1> HIDE DEF R
<1>3. PICK n \in T : \A m \in T : ~(<<m, n>> \in R)
  BY <1>1, WFMin
<1>4. \A m \in T : m \in Nat /\ n \in Nat /\ ~(m < n)
  BY <1>2, <1>3
<1>5. \A m \in T : n <= m
  BY <1>4
<1> QED BY <1>5

\* Induction: a set with 0 and with every successor has all natural numbers.
LEMMA NaturalInduction ==
    ASSUME NEW T, 0 \in T, \A n \in Nat : n \in T => n + 1 \in T
    PROVE  \A n \in Nat : n \in T
<1> SUFFICES ASSUME \E n \in Nat : n \notin T PROVE FALSE
  OBVIOUS
<1>1. PICK n \in Nat \ T : \A m \in Nat \ T : n <= m
  BY LeastNatural
<1>2. n - 1 \in Nat /\ n - 1 \in T /\ (n - 1) + 1 = n
  BY <1>1
<1> QED BY <1>1, <1>2

\* The largest of some positions of a sequence is one of them.
LEMMA MaxIsLargest ==
    ASSUME NEW N \in Nat, NEW I, I \subseteq 1..N, I # {}
    PROVE  Max(I) \in I /\ \A i \in I : i <= Max(I)
<1> DEFINE T == {N - i : i \in I}
<1>1. \A i \in I : i \in 1..N /\ N - i \in Nat /\ N - i \in T
  OBVIOUS
<1>2. T \subseteq Nat /\ T # {}
  BY <1>1
<1>3. PICK n \in T : \A m \in T : n <= m
  <2> HIDE DEF T
  <2> QED BY <1>2, LeastNatural
<1>4. PICK k \in I : n = N - k
  OBVIOUS
<1>5. \A i \in I : k >= i
  <2> TAKE i \in I
  <2>1. N - i \in T /\ i \in 1..N /\ k \in 1..N
    BY <1>1
  <2> HIDE DEF T
  <2>2. N - k <= N - i
    BY <1>3, <1>4, <2>1
  <2> QED BY <2>1, <2>2
<1>6. Max(I) \in I /\ \A i \in I : Max(I) >= i
  <2> HIDE DEF T
  <2> QED BY <1>4, <1>5 DEF Max
<1> HIDE DEF T
<1>7. \A i \in I : i \in Int
  OBVIOUS
<1> QED BY <1>6, <1>7

LEMMA Remainder ==
    ASSUME NEW M \in Nat \ {0}, NEW n \in Nat
    PROVE  /\ n < M => n % M = n
           /\ M <= n /\ n < 2 * M => n % M = n - M
<1>1. ASSUME NEW m \in 0..(M - 1) PROVE m % M = m
  OBVIOUS
<1>2. ASSUME NEW m \in M..(2 * M - 1) PROVE m % M = m - M
  OBVIOUS
<1> QED BY <1>1, <1>2

\* Go's int: a sum of two natural numbers in range is itself, or negative.
LEMMA WrapOnce ==
    ASSUME NEW n \in 0..(2 * MaxInt)
    PROVE  /\ MaxInt \in Nat /\ Wrap(n) \in (-MaxInt - 1)..MaxInt
           /\ n <= MaxInt => Wrap(n) = n
           /\ n > MaxInt => Wrap(n) < 0
<1> DEFINE h == 2^(IntBits - 1)
           M == 2^IntBits
<1>1. h \in Nat \ {0} /\ M = 2 * h /\ MaxInt = h - 1
  BY IntBitsAssumption DEF MaxInt
<1>2. Wrap(n) = ((n + h) % M) - h
  BY <1>1 DEF Wrap
<1> HIDE DEF h, M
<1>3. M \in Nat \ {0} /\ n \in Nat /\ n <= 2 * h - 2
  BY <1>1
<1>4. CASE n <= MaxInt
  <2>1. n + h \in Nat /\ n + h < M
    BY <1>1, <1>3, <1>4
  <2>2. (n + h) % M = n + h
    BY <1>3, <2>1, Remainder
  <2> QED BY <1>1, <1>2, <1>3, <1>4, <2>2
<1>5. CASE n > MaxInt
  <2>1. n + h \in Nat /\ M <= n + h /\ n + h < 2 * M
    BY <1>1, <1>3, <1>5
  <2>2. (n + h) % M = (n + h) - M
    BY <1>3, <2>1, Remainder
  <2> QED BY <1>1, <1>2, <1>3, <1>5, <2>2
<1> QED BY <1>1, <1>3, <1>4, <1>5

-----------------------------------------------------------------------------
(* The recursive functions, unfolded once.  The proofs build the function  *)
(* up to m + 1 from the one up to m.                                       *)

\* CELMutator.evaluate: the n-th iteration appends what the n-th program asks.
LEMMA CollectedSteps ==
    ASSUME NEW c, Len(c.programs) \in Nat, NEW run
    PROVE  LET p == Collected(c, run)
           IN /\ p[0] = <<>>
              /\ \A n \in 1..Len(c.programs) :
                    p[n] = p[n - 1] \o Evaluate(c.programs[n], run).mutations
<1> DEFINE N == Len(c.programs)
           Step(f, n) == IF n = 0 THEN <<>>
                         ELSE f[n - 1] \o Evaluate(c.programs[n], run).mutations
           Is(f, m) == f = [n \in 0..m |-> Step(f, n)]
           T == {m \in Nat : \E f : Is(f, m)}
           p == Collected(c, run)
<1>1. 0 \in T
  <2> DEFINE g == [n \in 0..0 |-> <<>>]
  <2>1. Is(g, 0)
    OBVIOUS
  <2> HIDE DEF Is, g
  <2> QED BY <2>1
<1>2. ASSUME NEW m \in Nat, m \in T
      PROVE  m + 1 \in T
  <2>1. PICK f : Is(f, m)
    BY <1>2
  <2> DEFINE g == [n \in 0..(m + 1) |-> Step(f, n)]
  <2>2. \A n \in 0..m : g[n] = f[n]
    <3> HIDE DEF Step
    <3> QED BY <2>1
  <2>3. \A n \in 0..(m + 1) : n # 0 => n - 1 \in 0..m
    OBVIOUS
  <2>4. \A n \in 0..(m + 1) : Step(f, n) = Step(g, n)
    <3> HIDE DEF g
    <3> QED BY <2>2, <2>3
  <2>5. Is(g, m + 1)
    <3> HIDE DEF Step
    <3> QED BY <2>4
  <2> HIDE DEF Is, g
  <2> QED BY <2>5
<1>3. \A m \in Nat : m \in T
  <2> HIDE DEF T
  <2> QED BY <1>1, <1>2, NaturalInduction
<1>4. p = CHOOSE f : Is(f, N)
  BY DEF Collected
<1>5. \E f : Is(f, N)
  BY <1>3
<1>6. Is(p, N)
  <2> HIDE DEF Is, p, N
  <2> QED BY <1>4, <1>5
<1>7. \A n \in 0..N : p[n] = Step(p, n)
  <2> HIDE DEF Step, p, N
  <2> QED BY <1>6
<1>8. \A n \in 1..N : n \in 0..N /\ n # 0
  OBVIOUS
<1> HIDE DEF p
<1>9. p[0] = <<>> /\ \A n \in 1..N : p[n] = Step(p, n)
  BY <1>7, <1>8
<1> QED BY <1>8, <1>9 DEF p

\* Mutate: the n-th iteration applies the n-th mutation, after an error none.
LEMMA AppliedSteps ==
    ASSUME NEW run, NEW ms, Len(ms) \in Nat
    PROVE  LET p == Applied(run, ms)
           IN /\ p[0] = Changed(run)
              /\ \A n \in 1..Len(ms) :
                    p[n] = IF p[n - 1].ok THEN mutate(p[n - 1].run, ms[n]) ELSE p[n - 1]
<1> DEFINE N == Len(ms)
           Step(f, n) == IF n = 0 THEN Changed(run)
                         ELSE IF f[n - 1].ok THEN mutate(f[n - 1].run, ms[n]) ELSE f[n - 1]
           Is(f, m) == f = [n \in 0..m |-> Step(f, n)]
           T == {m \in Nat : \E f : Is(f, m)}
           p == Applied(run, ms)
<1>1. 0 \in T
  <2> DEFINE g == [n \in 0..0 |-> Changed(run)]
  <2>1. Is(g, 0)
    OBVIOUS
  <2> HIDE DEF Is, g
  <2> QED BY <2>1
<1>2. ASSUME NEW m \in Nat, m \in T
      PROVE  m + 1 \in T
  <2>1. PICK f : Is(f, m)
    BY <1>2
  <2> DEFINE g == [n \in 0..(m + 1) |-> Step(f, n)]
  <2>2. \A n \in 0..m : g[n] = f[n]
    <3> HIDE DEF Step
    <3> QED BY <2>1
  <2>3. \A n \in 0..(m + 1) : n # 0 => n - 1 \in 0..m
    OBVIOUS
  <2>4. \A n \in 0..(m + 1) : Step(f, n) = Step(g, n)
    <3> HIDE DEF g
    <3> QED BY <2>2, <2>3
  <2>5. Is(g, m + 1)
    <3> HIDE DEF Step
    <3> QED BY <2>4
  <2> HIDE DEF Is, g
  <2> QED BY <2>5
<1>3. \A m \in Nat : m \in T
  <2> HIDE DEF T
  <2> QED BY <1>1, <1>2, NaturalInduction
<1>4. p = CHOOSE f : Is(f, N)
  BY DEF Applied
<1>5. \E f : Is(f, N)
  BY <1>3
<1>6. Is(p, N)
  <2> HIDE DEF Is, p, N
  <2> QED BY <1>4, <1>5
<1>7. \A n \in 0..N : p[n] = Step(p, n)
  <2> HIDE DEF Step, p, N
  <2> QED BY <1>6
<1>8. \A n \in 1..N : n \in 0..N /\ n # 0
  OBVIOUS
<1> HIDE DEF p
<1>9. p[0] = Changed(run) /\ \A n \in 1..N : p[n] = Step(p, n)
  BY <1>7, <1>8
<1> QED BY <1>8, <1>9 DEF p

\* The sum starts from the value of the run, and again from an annotation().
LEMMA TotalsSteps ==
    ASSUME NEW ms, Len(ms) \in Nat, NEW k, NEW run
    PROVE  LET p == Totals(ms, k, run)
           IN /\ p[0] = Written(run, k)
              /\ \A n \in 1..Len(ms) :
                    p[n] = IF ms[n].key = k /\ ms[n].type = "annotation" THEN ms[n].value.n
                           ELSE IF ms[n].key = k /\ ms[n].type = "resource"
                           THEN p[n - 1] + ms[n].value.n
                           ELSE p[n - 1]
<1> DEFINE N == Len(ms)
           Step(f, n) == IF n = 0 THEN Written(run, k)
                         ELSE IF ms[n].key = k /\ ms[n].type = "annotation" THEN ms[n].value.n
                         ELSE IF ms[n].key = k /\ ms[n].type = "resource"
                         THEN f[n - 1] + ms[n].value.n
                         ELSE f[n - 1]
           Is(f, m) == f = [n \in 0..m |-> Step(f, n)]
           T == {m \in Nat : \E f : Is(f, m)}
           p == Totals(ms, k, run)
<1>1. 0 \in T
  <2> DEFINE g == [n \in 0..0 |-> Written(run, k)]
  <2>1. Is(g, 0)
    OBVIOUS
  <2> HIDE DEF Is, g
  <2> QED BY <2>1
<1>2. ASSUME NEW m \in Nat, m \in T
      PROVE  m + 1 \in T
  <2>1. PICK f : Is(f, m)
    BY <1>2
  <2> DEFINE g == [n \in 0..(m + 1) |-> Step(f, n)]
  <2>2. \A n \in 0..m : g[n] = f[n]
    <3> HIDE DEF Step
    <3> QED BY <2>1
  <2>3. \A n \in 0..(m + 1) : n # 0 => n - 1 \in 0..m
    OBVIOUS
  <2>4. \A n \in 0..(m + 1) : Step(f, n) = Step(g, n)
    <3> HIDE DEF g
    <3> QED BY <2>2, <2>3
  <2>5. Is(g, m + 1)
    <3> HIDE DEF Step
    <3> QED BY <2>4
  <2> HIDE DEF Is, g
  <2> QED BY <2>5
<1>3. \A m \in Nat : m \in T
  <2> HIDE DEF T
  <2> QED BY <1>1, <1>2, NaturalInduction
<1>4. p = CHOOSE f : Is(f, N)
  BY DEF Totals
<1>5. \E f : Is(f, N)
  BY <1>3
<1>6. Is(p, N)
  <2> HIDE DEF Is, p, N
  <2> QED BY <1>4, <1>5
<1>7. \A n \in 0..N : p[n] = Step(p, n)
  <2> HIDE DEF Step, p, N
  <2> QED BY <1>6
<1>8. \A n \in 1..N : n \in 0..N /\ n # 0
  OBVIOUS
<1> HIDE DEF p
<1>9. p[0] = Written(run, k) /\ \A n \in 1..N : p[n] = Step(p, n)
  BY <1>7, <1>8
<1> QED BY <1>8, <1>9 DEF p

-----------------------------------------------------------------------------
(* Mutate: what the mutations before the n-th have left.                   *)

\* What the mutation m, applied to the run, writes into r.
WritesManagedBy(run, m, r) ==
    r.managedBy = IF m.type = "managedBy" THEN m.value
                  ELSE IF m.type = "multiKueue" THEN MultiKueue
                  ELSE run.managedBy

WritesLabels(run, m, r) ==
    r.labels = IF m.type = "label" THEN Put(run.labels, m.key, m.value)
               ELSE IF m.type = "multiKueue" /\ m.value # Empty
               THEN Put(run.labels, QueueLabel, m.value)
               ELSE run.labels

WritesAnnotations(run, m, r) ==
    /\ m.type \notin {"annotation", "resource"} => r.annotations = run.annotations
    /\ m.type = "annotation" => r.annotations = Put(run.annotations, m.key, m.value)
    /\ m.type = "resource" =>
          /\ Written(run, m.key) \in 0..MaxInt
          /\ r.annotations = Put(run.annotations, m.key,
                                  Itoa(Wrap(m.value.n + Written(run, m.key))))

\* mutator.go, mutate: what one checked mutation that succeeds writes.
LEMMA MutateWrites ==
    ASSUME NEW run, IsRun(run), NEW m, IsChecked(m), NEW r, mutate(run, m) = Changed(r)
    PROVE  /\ IsRun(r) /\ WritesManagedBy(run, m, r) /\ WritesLabels(run, m, r)
           /\ WritesAnnotations(run, m, r)
<1> USE DEF WritesManagedBy, WritesLabels, WritesAnnotations
<1>1. m.type \in ValidTypes
  BY DEF IsChecked, Validate
<1>2. CASE m.type = "label"
  <2>1. r = [run EXCEPT !.labels = Put(run.labels, m.key, m.value)]
    BY <1>2 DEF mutate, Changed
  <2>2. /\ IsRun(r) /\ r.managedBy = run.managedBy /\ r.annotations = run.annotations
        /\ r.labels = Put(run.labels, m.key, m.value)
    BY <2>1 DEF IsRun, RunFields
  <2> QED BY <1>2, <2>2
<1>3. CASE m.type = "annotation"
  <2>1. r = [run EXCEPT !.annotations = Put(run.annotations, m.key, m.value)]
    BY <1>3 DEF mutate, Changed
  <2>2. /\ IsRun(r) /\ r.managedBy = run.managedBy /\ r.labels = run.labels
        /\ r.annotations = Put(run.annotations, m.key, m.value)
    BY <2>1 DEF IsRun, RunFields
  <2> QED BY <1>3, <2>2
<1>4. CASE m.type = "resource"
  <2> DEFINE e == IF m.key \in DOMAIN run.annotations
                  THEN Atoi(run.annotations[m.key]) ELSE [ok |-> TRUE, n |-> 0]
             n == Written(run, m.key)
             a == Put(run.annotations, m.key, Itoa(Wrap(Atoi(m.value).n + e.n)))
             ok == Atoi(m.value).ok /\ e.ok /\ e.n >= 0
  <2>1. mutate(run, m) = IF ok THEN Changed([run EXCEPT !.annotations = a])
                         ELSE Refused(run)
    BY <1>4 DEF mutate, mutateResource
  <2> HIDE DEF a, ok
  <2>2. ok /\ r = [run EXCEPT !.annotations = a]
    BY <2>1 DEF Changed, Refused
  <2>3. /\ IsRun(r) /\ r.managedBy = run.managedBy /\ r.labels = run.labels
        /\ r.annotations = a
    BY <2>2 DEF IsRun, RunFields
  <2>4. e.ok /\ e.n >= 0 /\ Atoi(m.value).ok
    BY <2>2 DEF ok
  <2>5. MaxInt \in Nat
    BY IntBitsAssumption DEF MaxInt
  <2>6. e.n = n /\ n \in 0..MaxInt /\ Atoi(m.value).n = m.value.n
    <3>1. Atoi(m.value).n = m.value.n
      BY <2>4 DEF Atoi
    <3>2. CASE m.key \in DOMAIN run.annotations
      <4> DEFINE x == run.annotations[m.key]
      <4>1. e = Atoi(x) /\ n = x.n
        BY <3>2 DEF Written
      <4> HIDE DEF e, n, x
      <4>2. Atoi(x).n = x.n /\ x.n \in (-MaxInt - 1)..MaxInt
        BY <2>4, <4>1 DEF Atoi
      <4>3. e.n = n /\ n >= 0 /\ n \in (-MaxInt - 1)..MaxInt
        BY <2>4, <4>1, <4>2
      <4> QED BY <2>5, <3>1, <4>3
    <3>3. CASE m.key \notin DOMAIN run.annotations
      <4>1. e.n = 0 /\ n = 0
        BY <3>3 DEF Written
      <4> HIDE DEF e, n
      <4> QED BY <2>5, <3>1, <4>1
    <3> QED BY <3>2, <3>3
  <2>7. r.annotations = Put(run.annotations, m.key, Itoa(Wrap(m.value.n + n)))
    BY <2>3, <2>6 DEF a
  <2> QED BY <1>4, <2>3, <2>6, <2>7
<1>5. CASE m.type = "managedBy"
  <2>1. r = [run EXCEPT !.managedBy = m.value]
    BY <1>5 DEF mutate, Changed
  <2>2. /\ IsRun(r) /\ r.managedBy = m.value /\ r.labels = run.labels
        /\ r.annotations = run.annotations
    BY <2>1 DEF IsRun, RunFields
  <2> QED BY <1>5, <2>2
<1>6. CASE m.type = "multiKueue"
  <2> DEFINE l == IF m.value = Empty THEN run.labels
                  ELSE Put(run.labels, QueueLabel, m.value)
  <2>1. r = [run EXCEPT !.managedBy = MultiKueue, !.labels = l]
    BY <1>6 DEF mutate, mutateMultiKueue, Changed
  <2> HIDE DEF l
  <2>2. /\ IsRun(r) /\ r.managedBy = MultiKueue /\ r.labels = l
        /\ r.annotations = run.annotations
    BY <2>1 DEF IsRun, RunFields
  <2> QED BY <1>6, <2>2 DEF l
<1> HIDE DEF WritesManagedBy, WritesLabels, WritesAnnotations
<1> QED BY <1>1, <1>2, <1>3, <1>4, <1>5, <1>6 DEF ValidTypes

\* mutator.go, Mutate: after an error no mutation is applied.
LEMMA AppliedFails ==
    ASSUME NEW run, NEW ms, Len(ms) \in Nat, NEW N \in 0..Len(ms), NEW n \in 0..N,
           ~Applied(run, ms)[n].ok
    PROVE  ~Applied(run, ms)[N].ok
<1> DEFINE p == Applied(run, ms)
           T == {j \in Nat : n + j <= Len(ms) => ~p[n + j].ok}
<1>1. \A i \in 1..Len(ms) : ~p[i - 1].ok => ~p[i].ok
  BY AppliedSteps
<1> HIDE DEF p
<1>2. 0 \in T
  BY DEF p
<1>3. ASSUME NEW j \in Nat, j \in T
      PROVE  j + 1 \in T
  <2>1. CASE n + j + 1 <= Len(ms)
    <3>1. n + j + 1 \in 1..Len(ms) /\ (n + j + 1) - 1 = n + j /\ n + j <= Len(ms)
      BY <2>1
    <3>2. ~p[n + j + 1].ok
      BY <1>1, <1>3, <3>1
    <3>3. n + (j + 1) = n + j + 1
      OBVIOUS
    <3> QED BY <3>2, <3>3
  <2>2. CASE ~(n + j + 1 <= Len(ms))
    BY <2>2
  <2> QED BY <2>1, <2>2
<1>4. \A j \in Nat : j \in T
  <2> HIDE DEF T
  <2> QED BY <1>2, <1>3, NaturalInduction
<1>5. N - n \in Nat /\ n + (N - n) = N /\ N <= Len(ms)
  OBVIOUS
<1>6. ~p[N].ok
  BY <1>4, <1>5
<1> QED BY <1>6 DEF p

\* The runs f[0], f[1], ..., f[N] that Mutate makes of run when none of the
\* first N mutations fails.
ChainTo(run, ms, N, f) ==
    /\ IsSequence(ms) /\ \A i \in DOMAIN ms : IsChecked(ms[i])
    /\ N \in 0..Len(ms)
    /\ f[0] = run /\ \A n \in 0..N : IsRun(f[n])
    /\ \A n \in 1..N : mutate(f[n - 1], ms[n]) = Changed(f[n])

Chain(run, ms, f) == ChainTo(run, ms, Len(ms), f)

LEMMA MutateChanges ==
    ASSUME NEW run, NEW m, IsChecked(m), mutate(run, m).ok
    PROVE  mutate(run, m) = Changed(mutate(run, m).run)
<1>1. m.type \in ValidTypes
  BY DEF IsChecked, Validate
<1>2. CASE m.type = "resource"
  <2> DEFINE e == IF m.key \in DOMAIN run.annotations
                  THEN Atoi(run.annotations[m.key]) ELSE [ok |-> TRUE, n |-> 0]
             r == [run EXCEPT !.annotations =
                      Put(@, m.key, Itoa(Wrap(Atoi(m.value).n + e.n)))]
             ok == Atoi(m.value).ok /\ e.ok /\ e.n >= 0
  <2>1. mutate(run, m) = IF ok THEN Changed(r) ELSE Refused(run)
    BY <1>2 DEF mutate, mutateResource
  <2> HIDE DEF r, ok
  <2>2. mutate(run, m) = Changed(r)
    BY <2>1 DEF Refused
  <2>3. Changed(r).run = r
    BY DEF Changed
  <2> QED BY <2>2, <2>3
<1>3. CASE m.type # "resource"
  <2>1. PICK r : mutate(run, m) = Changed(r)
    BY <1>1, <1>3 DEF ValidTypes, mutate, mutateMultiKueue
  <2> QED BY <2>1 DEF Changed
<1> QED BY <1>2, <1>3

\* When a result is not an error, the results up to it are such a chain.
LEMMA AppliedIsChain ==
    ASSUME NEW run, IsRun(run), NEW ms, IsSequence(ms),
           \A i \in DOMAIN ms : IsChecked(ms[i]),
           NEW N \in 0..Len(ms), Applied(run, ms)[N].ok
    PROVE  ChainTo(run, ms, N, [n \in 0..N |-> Applied(run, ms)[n].run])
<1> DEFINE p == Applied(run, ms)
           f == [n \in 0..N |-> p[n].run]
           T == {n \in Nat : n <= N => p[n] = Changed(p[n].run) /\ IsRun(p[n].run)}
<1>1. Len(ms) \in Nat /\ N \in Nat /\ DOMAIN ms = 1..Len(ms) /\ N <= Len(ms)
  BY DEF IsSequence
<1>2. \A n \in 0..N : p[n].ok
  BY <1>1, AppliedFails
<1>3. /\ p[0] = Changed(run)
      /\ \A n \in 1..N : p[n] = IF p[n - 1].ok THEN mutate(p[n - 1].run, ms[n]) ELSE p[n - 1]
  BY <1>1, AppliedSteps
<1> HIDE DEF p
<1>4. ASSUME NEW n \in 1..N
      PROVE  /\ n \in DOMAIN ms /\ IsChecked(ms[n]) /\ n - 1 \in 0..N
             /\ p[n] = mutate(p[n - 1].run, ms[n]) /\ p[n] = Changed(p[n].run)
  <2>1. n \in DOMAIN ms /\ IsChecked(ms[n]) /\ n \in 0..N /\ n - 1 \in 0..N
    BY <1>1
  <2>2. p[n] = mutate(p[n - 1].run, ms[n]) /\ p[n].ok
    BY <1>2, <1>3, <2>1
  <2> QED BY <2>1, <2>2, MutateChanges
<1>5. 0 \in T
  <2>1. p[0].run = run
    BY <1>3 DEF Changed
  <2>2. p[0] = Changed(p[0].run) /\ IsRun(p[0].run)
    BY <1>3, <2>1
  <2> QED BY <2>2
<1>6. ASSUME NEW n \in Nat, n \in T
      PROVE  n + 1 \in T
  <2> SUFFICES ASSUME n + 1 <= N
               PROVE  p[n + 1] = Changed(p[n + 1].run) /\ IsRun(p[n + 1].run)
    OBVIOUS
  <2>1. n + 1 \in 1..N /\ (n + 1) - 1 = n /\ n <= N
    BY <1>1
  <2>2. /\ IsChecked(ms[n + 1]) /\ IsRun(p[n].run)
        /\ p[n + 1] = mutate(p[n].run, ms[n + 1]) /\ p[n + 1] = Changed(p[n + 1].run)
    BY <1>4, <1>6, <2>1
  <2>3. mutate(p[n].run, ms[n + 1]) = Changed(p[n + 1].run)
    BY <2>2
  <2>4. IsRun(p[n + 1].run)
    <3> HIDE DEF T
    <3> QED BY <2>2, <2>3, MutateWrites
  <2> QED BY <2>2, <2>4
<1>7. \A n \in Nat : n \in T
  <2> HIDE DEF T
  <2> QED BY <1>5, <1>6, NaturalInduction
<1>8. f[0] = run /\ \A n \in 0..N : f[n] = p[n].run /\ IsRun(f[n])
  <2>1. p[0].run = run /\ 0 \in 0..N
    BY <1>1, <1>3 DEF Changed
  <2>2. \A n \in 0..N : IsRun(p[n].run)
    BY <1>1, <1>7
  <2> HIDE DEF T
  <2> QED BY <2>1, <2>2
<1>9. \A n \in 1..N : mutate(f[n - 1], ms[n]) = Changed(f[n])
  <2> HIDE DEF f, T
  <2> SUFFICES ASSUME NEW n \in 1..N PROVE mutate(f[n - 1], ms[n]) = Changed(f[n])
    OBVIOUS
  <2>1. n \in 0..N /\ n - 1 \in 0..N
    BY <1>1
  <2>2. f[n] = p[n].run /\ f[n - 1] = p[n - 1].run
    BY <1>8, <2>1
  <2>3. p[n] = mutate(p[n - 1].run, ms[n]) /\ p[n] = Changed(p[n].run)
    BY <1>4
  <2> QED BY <2>2, <2>3
<1> HIDE DEF f
<1>10. ChainTo(run, ms, N, f)
  BY <1>1, <1>8, <1>9 DEF ChainTo
<1> QED BY <1>10 DEF f, p
=============================================================================
