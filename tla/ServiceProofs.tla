----------------------------- MODULE ServiceProofs -----------------------------
(***************************************************************************)
(* Kernel services.  SemInv holds of semaphores for any number of contexts *)
(* as long as the count does not overflow, Conservation even if it does;   *)
(* TimerInv and OnTime hold of timers for any number of events as long as  *)
(* the tick count does not wrap.                                           *)
(***************************************************************************)
EXTENDS SocketRecv, FiniteSetTheorems, WellFoundedInduction, TLAPS

\* Zenon proves what names no other prover, within 20 seconds
USE ZenonT(20)

-----------------------------------------------------------------------------
(* Semaphores.                                                             *)

\* who waits, and how many units they have asked for
Waiting == Oldest(Len(sem_wait))
Asked == AskedBy(Len(sem_wait))

\* the count is an int_fast8_t
SemTypes ==
  /\ status \in [Ctx -> {"ready", "running", "blocked"}]
  /\ waitq \in [Queue -> Seq(Ctx)]
  /\ sem_count \in (-CountHalf)..(CountHalf - 1)
  /\ asked \in [Ctx -> Takes \cup {0}]
  /\ avail \in Int

\* The contexts that are blocked wait, once each, and for some units.
SemWaiters ==
  /\ \A i, j \in 1..Len(sem_wait) : sem_wait[i] = sem_wait[j] => i = j
  /\ \A x \in Ctx : status[x] = "blocked" <=> x \in Waiting
  /\ \A x \in Waiting : asked[x] \in Takes

\* What holds even if the count overflows.
ConsInv == SemTypes /\ SemWaiters /\ Conservation

\* no unit is lost in an overflow: the semaphore can be given MaxAvail units, and
\* every context can ask for t
CountFits ==
  /\ InitCount \in MinAvail..MaxAvail /\ MinAvail <= 0 /\ MaxAvail < CountHalf
  /\ \E t \in Nat : /\ \A n \in Takes : n <= t
                    /\ -CountHalf <= MinAvail - Cardinality(Ctx) * t

\* If it does not, it tells the units there are less those asked for, one back
\* for each waiter, whom semaphore_take has counted one.
SemIInv ==
  /\ SemTypes /\ SemWaiters
  /\ avail \in MinAvail..MaxAvail
  /\ sem_count = avail - Asked + Len(sem_wait)
  /\ sem_wait # <<>> => sem_count <= 0

\* A number has one quotient and one remainder.
LEMMA SameQuotient ==
  ASSUME NEW m \in Nat \ {0}, NEW a \in Int, NEW b \in Int, NEW r \in 0..(m - 1), NEW s \in 0..(m - 1),
         m * a + r = m * b + s
  PROVE  a = b /\ r = s
  <1>1. ASSUME NEW u \in Int, NEW v \in Int, u < v PROVE m * u + m <= m * v
    <2>1. PICK w \in Nat : v = u + 1 + w
      <3>1. v - u - 1 \in Nat /\ v = u + 1 + (v - u - 1)
        BY <1>1, SMTT(30)
      <3> QED
        BY <3>1
    <2>2. m * v = m * u + m + m * w
      BY <2>1, SMTT(30)
    <2>3. m * w >= 0
      BY SMTT(30)
    <2>4. m * v \in Int /\ m * u \in Int /\ m * w \in Int
      BY <2>1, SMTT(30)
    <2> QED
      BY <2>2, <2>3, <2>4, SMTT(30)
  <1>2. m * a \in Int /\ m * b \in Int
    BY SMTT(30)
  <1>3. ~(a < b)
    BY <1>1, <1>2, SMTT(30)
  <1>4. ~(b < a)
    BY <1>1, <1>2, SMTT(30)
  <1> QED
    BY <1>2, <1>3, <1>4, SMTT(30)

\* Remainders do not tell multiples.
LEMMA Period ==
  ASSUME NEW m \in Nat \ {0}, NEW x \in Int, NEW q \in Int
  PROVE  (x + m * q) % m = x % m
  <1>a. PICK y : y = x + m * q
    OBVIOUS
  <1>0. m * q \in Int /\ y \in Int
    BY <1>a, SMTT(30)
  <1>1. PICK a, r : a = x \div m /\ r = x % m
    OBVIOUS
  <1>2. PICK b, s : b = y \div m /\ s = y % m
    OBVIOUS
  <1>3. a \in Int /\ r \in 0..(m - 1) /\ x = m * a + r
    BY <1>1, SMTT(30)
  <1>4. b \in Int /\ s \in 0..(m - 1) /\ y = m * b + s
    BY <1>0, <1>2, SMTT(30)
  <1>5. a + q \in Int /\ m * (a + q) = m * a + m * q
    BY <1>3, SMTT(30)
  <1>6. m * a \in Int /\ m * b \in Int /\ m * (a + q) \in Int
    BY <1>3, <1>4, <1>5, SMTT(30)
  <1>7. m * (a + q) + r = m * b + s
    BY <1>0, <1>3, <1>4, <1>5, <1>6, <1>a, SMTT(30)
  <1>8. r = s
    BY <1>3, <1>4, <1>5, <1>7, SameQuotient
  <1> QED
    BY <1>8, <1>1, <1>2, <1>a
\* Storing in a count twice, as storing once.
LEMMA StoredTwice ==
  ASSUME NEW h \in Nat \ {0}, NEW z \in Int, NEW b \in Int
  PROVE  ((((z + h) % (2 * h)) - h) + b + h) % (2 * h) = (z + b + h) % (2 * h)
  <1>1. PICK m, y : m = 2 * h /\ y = z + h
    OBVIOUS
  <1>2. m \in Nat \ {0} /\ y \in Int
    BY <1>1, SMTT(30)
  <1>3. PICK a, r : a = y \div m /\ r = y % m
    OBVIOUS
  <1>4. a \in Int /\ r \in Int /\ y = m * a + r
    BY <1>2, <1>3, SMTT(30)
  <1>5. PICK x, q : x = z + b + h /\ q = -a
    OBVIOUS
  <1>6. x \in Int /\ q \in Int /\ m * a \in Int /\ m * q = -(m * a)
    BY <1>2, <1>4, <1>5, SMTT(30)
  <1>7. x + m * q = (r - h) + b + h
    BY <1>1, <1>2, <1>4, <1>5, <1>6, SMTT(30)
  <1>8. (x + m * q) % m = x % m
    BY <1>2, <1>6, Period
  <1> QED
    BY <1>1, <1>3, <1>5, <1>7, <1>8

\* Storing a number in a count.
LEMMA Stored ==
  ASSUME NEW z \in Int, NEW b \in Int
  PROVE  /\ CountHalf \in Nat \ {0}
         /\ Wrap(z) \in (-CountHalf)..(CountHalf - 1)
         /\ z \in (-CountHalf)..(CountHalf - 1) => Wrap(z) = z
         /\ Wrap(Wrap(z) + b) = Wrap(z + b)
  <1>1. PICK h : h = CountHalf
    OBVIOUS
  <1>2. h \in Nat \ {0}
    BY <1>1, SemaphoreAssumption
  <1>3. ((z + h) % (2 * h)) - h \in (-h)..(h - 1)
    BY <1>2, SMTT(30)
  <1>4. z \in (-h)..(h - 1) => ((z + h) % (2 * h)) - h = z
    BY <1>2, SMTT(30)
  <1>5. ((((z + h) % (2 * h)) - h) + b + h) % (2 * h) = (z + b + h) % (2 * h)
    BY <1>2, StoredTwice
  <1> QED
    BY <1>1, <1>2, <1>3, <1>4, <1>5 DEF Wrap

-----------------------------------------------------------------------------
(* Counting units.                                                         *)

\* What one context asks for.
LEMMA OneAsks ==
  ASSUME NEW x, NEW n \in Nat
  PROVE  IsFiniteSet({x} \X (1..n)) /\ Cardinality({x} \X (1..n)) = n
  <1>1. IsFiniteSet({x}) /\ Cardinality({x}) = 1
    BY FS_Singleton
  <1>2. IsFiniteSet(1..n) /\ Cardinality(1..n) = n
    BY FS_Interval, SMTT(30)
  <1>3. /\ IsFiniteSet({x} \X (1..n))
        /\ Cardinality({x} \X (1..n)) = Cardinality({x}) * Cardinality(1..n)
    BY <1>1, <1>2, FS_Product
  <1> QED
    BY <1>1, <1>2, <1>3, SMTT(30)

\* The units a finite set of contexts asks for can be counted.
LEMMA UnitsFinite ==
  ASSUME NEW W, IsFiniteSet(W), NEW f, \A x \in W : f[x] \in Nat
  PROVE  IsFiniteSet(Units(W, f)) /\ Cardinality(Units(W, f)) \in Nat
  <1> DEFINE S == {{x} \X (1..f[x]) : x \in W}
             g == [x \in W |-> {x} \X (1..f[x])]
  <1>1. g \in Surjection(W, S)
    BY DEF Surjection
  <1>2. IsFiniteSet(S)
    BY <1>1, FS_Surjection DEF ExistsSurjection
  <1>3. ASSUME NEW T \in S
        PROVE  IsFiniteSet(T)
    <2>1. PICK x \in W : T = {x} \X (1..f[x])
      OBVIOUS
    <2>2. IsFiniteSet({x} \X (1..f[x]))
      BY OneAsks
    <2> QED
      BY <2>1, <2>2
  <1>4. IsFiniteSet(UNION S)
    BY <1>2, <1>3, FS_UNION
  <1> QED
    BY <1>4, FS_CardinalityType DEF Units

\* Contexts that ask apart.
LEMMA UnitsAdd ==
  ASSUME NEW V, NEW W, IsFiniteSet(V), IsFiniteSet(W), V \cap W = {},
         NEW f, \A x \in V \cup W : f[x] \in Nat
  PROVE  Cardinality(Units(V \cup W, f)) = Cardinality(Units(V, f)) + Cardinality(Units(W, f))
  <1>1. PICK A, B, C : A = Units(V, f) /\ B = Units(W, f) /\ C = Units(V \cup W, f)
    OBVIOUS
  <1>2. C = A \cup B
    BY <1>1 DEF Units
  <1>3. A \cap B = {}
    BY <1>1, SMTT(30) DEF Units
  <1>4. IsFiniteSet(A) /\ IsFiniteSet(B)
    BY <1>1, UnitsFinite
  <1>5. Cardinality(A \cup B) = Cardinality(A) + Cardinality(B) - Cardinality(A \cap B)
    BY <1>4, FS_Union
  <1>6. Cardinality(A \cap B) = 0
    BY <1>3, FS_EmptySet
  <1>7. Cardinality(A) \in Nat /\ Cardinality(B) \in Nat
    BY <1>4, FS_CardinalityType
  <1>8. Cardinality(C) = Cardinality(A) + Cardinality(B)
    BY <1>2, <1>5, <1>6, <1>7, SMTT(30)
  <1> QED
    BY <1>1, <1>8

\* Contexts whose requests change while others ask.
LEMMA UnitsSame ==
  ASSUME NEW W, NEW f, NEW g, \A x \in W : f[x] = g[x]
  PROVE  Units(W, f) = Units(W, g)
  BY DEF Units

\* Each context asks for one unit at least.
LEMMA UnitsAtLeast ==
  ASSUME NEW W, W \subseteq Ctx, NEW f, \A x \in W : f[x] \in Nat \ {0}
  PROVE  /\ Cardinality(W) \in Nat /\ Cardinality(Units(W, f)) \in Nat
         /\ Cardinality(W) <= Cardinality(Units(W, f))
         /\ (\A x \in W : f[x] = 1) => Cardinality(Units(W, f)) = Cardinality(W)
  <1>1. IsFiniteSet(W)
    BY SemaphoreAssumption, FS_Subset
  <1>2. IsFiniteSet(Units(W, f)) /\ Cardinality(Units(W, f)) \in Nat /\ Cardinality(W) \in Nat
    BY <1>1, UnitsFinite, FS_CardinalityType
  <1>3. IsFiniteSet({1}) /\ Cardinality({1}) = 1
    BY FS_Singleton
  <1>4. PICK A, B : A = W \X {1} /\ B = Units(W, f)
    OBVIOUS
  <1>5. Cardinality(A) = Cardinality(W) * Cardinality({1})
    BY <1>1, <1>3, <1>4, FS_Product
  <1>6. A \subseteq B
    <2>1. \A x \in W : <<x, 1>> \in {x} \X (1..f[x])
      BY SMTT(30)
    <2> QED
      BY <1>4, <2>1, SMTT(30) DEF Units
  <1>7. Cardinality(A) <= Cardinality(B)
    BY <1>2, <1>4, <1>6, FS_Subset
  <1>8. ASSUME \A x \in W : f[x] = 1
        PROVE  A = B
    <2>1. \A x \in W : {x} \X (1..f[x]) = {<<x, 1>>}
      BY <1>8, SMTT(30)
    <2> QED
      BY <1>4, <2>1, SMTT(30) DEF Units
  <1>9. Cardinality(W) * 1 = Cardinality(W)
    BY <1>2, SMTT(30)
  <1>10. Cardinality(W) <= Cardinality(B) /\ ((\A x \in W : f[x] = 1) => Cardinality(B) = Cardinality(W))
    BY <1>3, <1>5, <1>7, <1>8, <1>9
  <1> QED
    BY <1>2, <1>4, <1>10

\* When no context asks for more than t units.
LEMMA UnitsAtMost ==
  ASSUME NEW W, W \subseteq Ctx, NEW f, NEW t \in Nat, \A x \in W : f[x] \in Nat /\ f[x] <= t
  PROVE  Cardinality(Units(W, f)) <= Cardinality(Ctx) * t /\ Cardinality(Ctx) * t \in Nat
  <1>1. IsFiniteSet(Ctx) /\ Cardinality(Ctx) \in Nat
    BY SemaphoreAssumption, FS_CardinalityType
  <1>2. IsFiniteSet(1..t) /\ Cardinality(1..t) = t
    BY FS_Interval, SMTT(30)
  <1>3. PICK B, C : B = Units(W, f) /\ C = Ctx \X (1..t)
    OBVIOUS
  <1>4. IsFiniteSet(C) /\ Cardinality(C) = Cardinality(Ctx) * Cardinality(1..t)
    BY <1>1, <1>2, <1>3, FS_Product
  <1>5. B \subseteq C
    <2>1. \A x \in W : 1..f[x] \subseteq 1..t
      BY SMTT(30)
    <2> QED
      BY <1>3, <2>1, SMTT(30) DEF Units
  <1>6. Cardinality(B) <= Cardinality(C)
    BY <1>4, <1>5, FS_Subset
  <1> QED
    BY <1>1, <1>2, <1>3, <1>4, <1>6, SMTT(30)

\* A sequence without repetitions has as many elements as its length says.
LEMMA Counted ==
  ASSUME NEW S, NEW s \in Seq(S),
         \A i, j \in 1..Len(s) : s[i] = s[j] => i = j
  PROVE  Cardinality({s[i] : i \in 1..Len(s)}) = Len(s)
  <1> DEFINE n == Len(s)
             T == {s[i] : i \in 1..n}
             f == [i \in 1..n |-> s[i]]
  <1>1. n \in Nat
    BY SMTT(30)
  <1>2. f \in Bijection(1..n, T)
    <2>1. f \in [1..n -> T]
      OBVIOUS
    <2>2. \A i, j \in 1..n : f[i] = f[j] => i = j
      OBVIOUS
    <2>3. \A t \in T : \E i \in 1..n : f[i] = t
      OBVIOUS
    <2> QED
      BY <2>1, <2>2, <2>3 DEF Bijection, Injection, Surjection, IsInjective
  <1>3. ExistsBijection(1..n, T)
    BY <1>2 DEF ExistsBijection
  <1> QED
    BY <1>1, <1>3, FS_CountingElements

-----------------------------------------------------------------------------
(* Semaphores.                                                             *)

\* What the queue and the requests of its contexts are.
LEMMA SemQueue ==
  ASSUME SemTypes, SemWaiters
  PROVE  /\ sem_wait \in Seq(Ctx) /\ Len(sem_wait) \in Nat
         /\ \A i \in 1..Len(sem_wait) : sem_wait[i] \in Ctx
         /\ Waiting \subseteq Ctx /\ IsFiniteSet(Waiting)
         /\ \A x \in Waiting : asked[x] \in Nat \ {0}
         /\ Asked \in Nat
  <1>1. sem_wait \in Seq(Ctx) /\ Len(sem_wait) \in Nat
    BY SemaphoreAssumption, SMTT(30) DEF SemTypes, sem_wait
  <1>2. \A i \in 1..Len(sem_wait) : sem_wait[i] \in Ctx
    BY <1>1, SMTT(30)
  <1>3. Waiting \subseteq Ctx
    BY <1>2 DEF Waiting, Oldest
  <1>4. IsFiniteSet(Waiting)
    BY <1>3, SemaphoreAssumption, FS_Subset
  <1>5. \A x \in Waiting : asked[x] \in Nat \ {0}
    BY SemaphoreAssumption DEF SemWaiters
  <1>6. Asked \in Nat
    BY <1>4, <1>5, UnitsFinite DEF Asked, AskedBy, Waiting
  <1> QED
    BY <1>1, <1>2, <1>3, <1>4, <1>5, <1>6

\* A context joins the queue.
LEMMA SemJoins ==
  ASSUME SemTypes, SemWaiters, NEW x \in Ctx, NEW n \in Takes, Wait(x, "sem"),
         asked' = [asked EXCEPT ![x] = n]
  PROVE  /\ status' \in [Ctx -> {"ready", "running", "blocked"}] /\ waitq' \in [Queue -> Seq(Ctx)]
         /\ SemWaiters'
         /\ Len(sem_wait') = Len(sem_wait) + 1 /\ Asked' = Asked + n
  <1>1. PICK s, m : s = sem_wait /\ m = Len(s)
    OBVIOUS
  <1>2. /\ s \in Seq(Ctx) /\ m \in Nat /\ \A i \in 1..m : s[i] \in Ctx
        /\ Waiting \subseteq Ctx /\ IsFiniteSet(Waiting)
        /\ \A y \in Waiting : asked[y] \in Nat \ {0}
    BY <1>1, SemQueue
  <1>3. sem_wait' = Append(s, x)
    BY <1>1, SemaphoreAssumption DEF Wait, SemTypes, sem_wait
  <1>4. /\ sem_wait' \in Seq(Ctx) /\ Len(sem_wait') = m + 1 /\ sem_wait'[m + 1] = x
        /\ \A i \in 1..m : sem_wait'[i] = s[i]
    BY <1>2, <1>3, <1>1, SMTT(30)
  <1>5. waitq' \in [Queue -> Seq(Ctx)]
    BY <1>4, SemaphoreAssumption DEF Wait, SemTypes, sem_wait
  <1>6. status' = [status EXCEPT ![x] = "blocked"] /\ status[x] = "running"
    BY DEF Wait
  <1>7. x \notin Waiting
    BY <1>6 DEF SemWaiters
  <1>8. \A i \in 1..(m + 1) : i \in 1..m \/ i = m + 1
    BY <1>2, SMTT(30)
  <1>9. Waiting' = Waiting \cup {x}
    <2>1. Waiting' = {sem_wait'[i] : i \in 1..(m + 1)}
      BY <1>4 DEF Waiting, Oldest
    <2>2. Waiting = {s[i] : i \in 1..m}
      BY <1>1 DEF Waiting, Oldest
    <2>3. \A i \in 1..m : i \in 1..(m + 1)
      BY <1>2, SMTT(30)
    <2>4. m + 1 \in 1..(m + 1)
      BY <1>2, SMTT(30)
    <2> QED
      BY <1>4, <1>8, <2>1, <2>2, <2>3, <2>4
  <1>10. \A i, j \in 1..(m + 1) : sem_wait'[i] = sem_wait'[j] => i = j
    <2>1. \A i \in 1..m : s[i] \in Waiting
      BY <1>1 DEF Waiting, Oldest
    <2>2. \A i, j \in 1..m : s[i] = s[j] => i = j
      BY <1>1 DEF SemWaiters
    <2> QED
      BY <1>4, <1>7, <1>8, <2>1, <2>2
  <1>11. \A y \in Ctx : status'[y] = "blocked" <=> y \in Waiting'
    BY <1>6, <1>9 DEF SemWaiters, SemTypes
  <1>12. \A y \in Waiting' : asked'[y] \in Takes
    BY <1>2, <1>7, <1>9 DEF SemWaiters, SemTypes
  <1>13. SemWaiters'
    BY <1>4, <1>10, <1>11, <1>12 DEF SemWaiters
  <1>14. Asked' = Asked + n
    <2>1. \A y \in Waiting : asked'[y] = asked[y]
      BY <1>2, <1>7 DEF SemTypes
    <2>2. asked'[x] = n /\ n \in Nat
      BY SemaphoreAssumption DEF SemTypes
    <2>a. PICK W, X, f : W = Waiting /\ X = {x} /\ f = asked'
      OBVIOUS
    <2>3. Asked' = Cardinality(Units(W \cup X, f))
      BY <1>9, <2>a DEF Asked, AskedBy, Waiting
    <2>4. IsFiniteSet(W) /\ IsFiniteSet(X) /\ W \cap X = {}
      BY <1>2, <1>7, <2>a, FS_Singleton
    <2>5. Cardinality(Units(W \cup X, f)) = Cardinality(Units(W, f)) + Cardinality(Units(X, f))
      <3>1. \A y \in W \cup X : f[y] \in Nat
        BY <1>2, <2>1, <2>2, <2>a
      <3> QED
        BY ONLY <2>4, <3>1, UnitsAdd
    <2>6. Cardinality(Units(W, f)) = Asked
      BY <2>1, <2>a, UnitsSame DEF Asked, AskedBy, Waiting
    <2>7. Units(X, f) = {x} \X (1..n)
      BY <2>2, <2>a DEF Units
    <2>8. Cardinality({x} \X (1..n)) = n
      BY <2>2, OneAsks
    <2> QED
      BY <2>3, <2>5, <2>6, <2>7, <2>8
  <1>15. status' \in [Ctx -> {"ready", "running", "blocked"}]
    BY <1>6 DEF SemTypes
  <1> QED
    BY <1>1, <1>2, <1>4, <1>5, <1>13, <1>14, <1>15

\* The k oldest contexts leave the queue.
LEMMA SemWakes ==
  ASSUME SemTypes, SemWaiters, NEW k \in 0..Len(sem_wait), WakeMany("sem", k), asked' = asked
  PROVE  /\ status' \in [Ctx -> {"ready", "running", "blocked"}] /\ waitq' \in [Queue -> Seq(Ctx)]
         /\ SemWaiters'
         /\ Len(sem_wait') = Len(sem_wait) - k
         /\ AskedBy(k) \in Nat /\ Asked' \in Nat /\ Asked = AskedBy(k) + Asked'
         /\ Len(sem_wait') <= Asked'
  <1>1. PICK s, m : s = sem_wait /\ m = Len(s)
    OBVIOUS
  <1>2. /\ s \in Seq(Ctx) /\ m \in Nat /\ \A i \in 1..m : s[i] \in Ctx
        /\ Waiting \subseteq Ctx /\ IsFiniteSet(Waiting)
        /\ \A y \in Waiting : asked[y] \in Nat \ {0}
    BY <1>1, SemQueue
  <1>3. k \in Nat /\ k <= m
    BY <1>1, <1>2, SMTT(30)
  <1>4. sem_wait' = SubSeq(s, k + 1, m)
    BY <1>1, SemaphoreAssumption DEF WakeMany, SemTypes, sem_wait
  <1>5. /\ sem_wait' \in Seq(Ctx) /\ Len(sem_wait') = m - k
        /\ \A i \in 1..(m - k) : sem_wait'[i] = s[k + i]
    <2>1. \A i \in (k + 1)..m : s[i] \in Ctx
      BY <1>2, <1>3, SMTT(30)
    <2>2. SubSeq(s, k + 1, m) \in Seq(Ctx) /\ Len(SubSeq(s, k + 1, m)) = m - k
      BY <1>1, <1>2, <1>3, <2>1, SMTT(30)
    <2>3. ASSUME NEW i \in 1..(m - k)
          PROVE  SubSeq(s, k + 1, m)[i] = s[k + i]
      BY <1>1, <1>2, <1>3, SMTT(30)
    <2> QED
      BY <1>4, <2>2, <2>3
  <1>6. waitq' \in [Queue -> Seq(Ctx)]
    BY <1>5, SemaphoreAssumption DEF WakeMany, SemTypes, sem_wait
  <1>7. PICK V, W : V = Oldest(k) /\ W = Waiting'
    OBVIOUS
  <1>8. V = {s[i] : i \in 1..k} /\ Waiting = {s[i] : i \in 1..m}
    BY <1>1, <1>7 DEF Waiting, Oldest
  <1>9. W = {s[i] : i \in (k + 1)..m}
    <2>1. W = {sem_wait'[i] : i \in 1..(m - k)}
      BY <1>5, <1>7 DEF Waiting, Oldest
    <2>2. \A i \in 1..(m - k) : k + i \in (k + 1)..m
      BY <1>2, <1>3, SMTT(30)
    <2>3. \A j \in (k + 1)..m : j - k \in 1..(m - k) /\ k + (j - k) = j
      BY <1>2, <1>3, SMTT(30)
    <2>4. W \subseteq {s[i] : i \in (k + 1)..m}
      BY <1>5, <2>1, <2>2
    <2>5. \A j \in (k + 1)..m : s[j] \in W
      BY <1>5, <2>1, <2>3
    <2> QED
      BY <2>4, <2>5
  <1>10. \A i, j \in 1..m : s[i] = s[j] => i = j
    BY <1>1 DEF SemWaiters
  <1>11. Waiting = V \cup W /\ V \cap W = {}
    <2>1. \A i \in 1..m : i \in 1..k \/ i \in (k + 1)..m
      BY <1>2, <1>3, SMTT(30)
    <2>2. \A i \in 1..k : i \in 1..m /\ i \notin (k + 1)..m
      BY <1>2, <1>3, SMTT(30)
    <2>3. \A i \in (k + 1)..m : i \in 1..m
      BY <1>2, <1>3, SMTT(30)
    <2> QED
      BY <1>8, <1>9, <1>10, <2>1, <2>2, <2>3, SMTT(30)
  <1>12. status' = [x \in Ctx |-> IF x \in V THEN "ready" ELSE status[x]]
    BY <1>1, <1>8 DEF WakeMany, sem_wait
  <1>13. \A x \in Ctx : status'[x] = "blocked" <=> x \in W
    BY <1>11, <1>12 DEF SemWaiters
  <1>14. \A i, j \in 1..(m - k) : sem_wait'[i] = sem_wait'[j] => i = j
    <2>1. \A i, j \in 1..(m - k) : k + i \in 1..m /\ k + j \in 1..m /\ (k + i = k + j => i = j)
      BY <1>2, <1>3, SMTT(30)
    <2> QED
      BY <1>5, <1>10, <2>1
  <1>15. \A x \in W : asked'[x] \in Takes
    BY <1>11 DEF SemWaiters
  <1>16. SemWaiters'
    BY <1>5, <1>7, <1>13, <1>14, <1>15 DEF SemWaiters
  <1>17. IsFiniteSet(V) /\ IsFiniteSet(W) /\ W \subseteq Ctx
    BY <1>2, <1>11, FS_Subset, SMTT(30)
  <1>18. Cardinality(Units(V \cup W, asked)) = Cardinality(Units(V, asked)) + Cardinality(Units(W, asked))
    <2>1. \A x \in V \cup W : asked[x] \in Nat
      BY <1>2, <1>11
    <2> QED
      BY ONLY <1>11, <1>17, <2>1, UnitsAdd
  <1>19. Asked' = Cardinality(Units(W, asked))
    BY <1>7 DEF Asked, AskedBy, Waiting
  <1>20. Asked = Cardinality(Units(V \cup W, asked)) /\ AskedBy(k) = Cardinality(Units(V, asked))
    BY <1>7, <1>11 DEF Asked, AskedBy, Waiting
  <1>21. Cardinality(Units(V, asked)) \in Nat /\ Cardinality(Units(W, asked)) \in Nat
    <2>1. \A x \in V \cup W : asked[x] \in Nat
      BY <1>2, <1>11
    <2> QED
      BY <1>17, <2>1, UnitsFinite
  <1>22. Len(sem_wait') <= Asked'
    <2>1. Cardinality(W) = m - k
      <3>1. W = {sem_wait'[i] : i \in 1..Len(sem_wait')}
        BY <1>7 DEF Waiting, Oldest
      <3>2. \A i, j \in 1..Len(sem_wait') : sem_wait'[i] = sem_wait'[j] => i = j
        BY <1>5, <1>14
      <3>3. PICK r : r = sem_wait'
        OBVIOUS
      <3>4. Cardinality({r[i] : i \in 1..Len(r)}) = Len(r)
        BY <1>5, <3>2, <3>3, Counted, SMTT(30)
      <3> QED
        BY <3>1, <3>3, <3>4, <1>5
    <2>2. Cardinality(W) <= Cardinality(Units(W, asked))
      BY <1>2, <1>11, <1>17, UnitsAtLeast
    <2> QED
      BY <2>1, <2>2, <1>5, <1>19
  <1>23. status' \in [Ctx -> {"ready", "running", "blocked"}]
    BY <1>12 DEF SemTypes
  <1> QED
    BY <1>1, <1>5, <1>6, <1>16, <1>18, <1>19, <1>20, <1>21, <1>22, <1>23

\* Nobody enters or leaves the queue.
LEMMA SemStays ==
  ASSUME SemTypes, SemWaiters, waitq' = waitq,
         \A x \in Ctx : status'[x] = "blocked" <=> status[x] = "blocked",
         \A x \in Waiting : asked'[x] = asked[x]
  PROVE  SemWaiters' /\ sem_wait' = sem_wait /\ Asked' = Asked
  <1>1. sem_wait' = sem_wait /\ Waiting' = Waiting
    BY DEF sem_wait, Waiting, Oldest
  <1>2. Asked' = Asked
    <2>1. Asked' = Cardinality(Units(Waiting, asked'))
      BY <1>1 DEF Asked, AskedBy, Waiting
    <2>2. Asked = Cardinality(Units(Waiting, asked))
      BY DEF Asked, AskedBy, Waiting
    <2>3. Units(Waiting, asked') = Units(Waiting, asked)
      BY UnitsSame
    <2> QED
      BY <2>1, <2>2, <2>3
  <1>3. SemWaiters'
    BY <1>1 DEF SemWaiters
  <1> QED
    BY <1>1, <1>2, <1>3

\* The wakeups of semaphore_give: one for each unit, no more than contexts wait.
LEMMA WakeCount ==
  ASSUME NEW c \in Int, NEW m \in Nat
  PROVE  LET k == Min({Max({c, 0}), m}) IN
         k \in 0..m /\ k = (IF c <= 0 THEN 0 ELSE IF c <= m THEN c ELSE m)
  <1>1. Max({c, 0}) = IF c <= 0 THEN 0 ELSE c
    <2>1. \E v \in {c, 0} : \A y \in {c, 0} : v >= y
      BY SMTT(30)
    <2>2. Max({c, 0}) \in {c, 0} /\ \A y \in {c, 0} : Max({c, 0}) >= y
      BY <2>1 DEF Max
    <2> QED
      BY <2>2, SMTT(30)
  <1>2. PICK d : d = Max({c, 0})
    OBVIOUS
  <1>3. d \in Nat /\ d = IF c <= 0 THEN 0 ELSE c
    BY <1>1, <1>2, SMTT(30)
  <1>4. Min({d, m}) = IF d <= m THEN d ELSE m
    <2>1. \E v \in {d, m} : \A y \in {d, m} : v <= y
      BY <1>3, SMTT(30)
    <2>2. Min({d, m}) \in {d, m} /\ \A y \in {d, m} : Min({d, m}) <= y
      BY <2>1 DEF Min
    <2> QED
      BY <1>3, <2>2, SMTT(30)
  <1> QED
    BY <1>2, <1>3, <1>4, SMTT(30)

\* A context takes units, or starts to wait for them.
LEMMA TakeStep ==
  ASSUME SemTypes, SemWaiters, NEW x \in Ctx, NEW n \in Takes, semaphore_take(x, n)
  PROVE  /\ SemTypes' /\ SemWaiters' /\ n \in Nat \ {0}
         /\ \/ /\ Wrap(sem_count - n) < 0 /\ sem_count' = Wrap(Wrap(sem_count - n) + 1)
               /\ avail' = avail /\ Asked' = Asked + n /\ Len(sem_wait') = Len(sem_wait) + 1
            \/ /\ Wrap(sem_count - n) >= 0 /\ sem_count' = Wrap(sem_count - n)
               /\ avail' = avail - n /\ Asked' = Asked /\ sem_wait' = sem_wait
  <1>1. n \in Nat \ {0} /\ sem_count \in Int /\ avail \in Int
    BY SemaphoreAssumption, Stored, SMTT(30) DEF SemTypes
  <1>2. PICK c : c = Wrap(sem_count - n)
    OBVIOUS
  <1>3. sem_count - n \in Int /\ c \in (-CountHalf)..(CountHalf - 1) /\ c \in Int
    BY <1>1, <1>2, Stored, SMTT(30)
  <1>4. /\ asked' = [asked EXCEPT ![x] = n] /\ asked' \in [Ctx -> Takes \cup {0}] /\ status[x] = "running"
    BY DEF semaphore_take, SemTypes
  <1>5. CASE c < 0
    <2>1. Wait(x, "sem") /\ sem_count' = Wrap(c + 1) /\ avail' = avail
      BY <1>2, <1>5 DEF semaphore_take
    <2>2. /\ status' \in [Ctx -> {"ready", "running", "blocked"}] /\ waitq' \in [Queue -> Seq(Ctx)]
          /\ SemWaiters'
          /\ Len(sem_wait') = Len(sem_wait) + 1 /\ Asked' = Asked + n
      BY <1>4, <2>1, SemJoins
    <2>3. sem_count' \in (-CountHalf)..(CountHalf - 1)
      BY <1>3, <2>1, Stored, SMTT(30)
    <2>4. SemTypes'
      BY <1>1, <1>4, <2>1, <2>2, <2>3 DEF SemTypes
    <2> QED
      BY <1>1, <1>2, <1>5, <2>1, <2>2, <2>4
  <1>6. CASE c >= 0
    <2>1. sem_count' = c /\ avail' = avail - n /\ waitq' = waitq /\ status' = status
      BY <1>2, <1>3, <1>6, SMTT(30) DEF semaphore_take, wqVars
    <2>2. \A y \in Waiting : asked'[y] = asked[y]
      <3>1. x \notin Waiting
        BY <1>4 DEF SemWaiters
      <3> QED
        BY <1>4, <3>1, SemQueue DEF SemTypes
    <2>3. SemWaiters' /\ sem_wait' = sem_wait /\ Asked' = Asked
      BY <2>1, <2>2, SemStays
    <2>4. SemTypes'
      BY <1>1, <1>3, <1>4, <2>1, SMTT(30) DEF SemTypes
    <2> QED
      BY <1>1, <1>2, <1>6, <2>1, <2>3, <2>4
  <1> QED
    BY <1>3, <1>5, <1>6, SMTT(30)

\* A context takes units without waiting.
LEMMA TryTakeStep ==
  ASSUME SemTypes, SemWaiters, NEW x \in Ctx, NEW n \in Takes, semaphore_try_take(x, n)
  PROVE  /\ SemTypes' /\ SemWaiters' /\ n \in Nat \ {0}
         /\ sem_count - n >= 0 /\ sem_count' = Wrap(sem_count - n)
         /\ avail' = avail - n /\ Asked' = Asked /\ sem_wait' = sem_wait
  <1>1. n \in Nat \ {0} /\ sem_count \in Int /\ avail \in Int
    BY SemaphoreAssumption, Stored, SMTT(30) DEF SemTypes
  <1>2. /\ asked' = [asked EXCEPT ![x] = n] /\ asked' \in [Ctx -> Takes \cup {0}] /\ status[x] = "running"
        /\ sem_count - n >= 0 /\ sem_count' = Wrap(sem_count - n) /\ avail' = avail - n
        /\ waitq' = waitq /\ status' = status
    BY DEF semaphore_try_take, SemTypes, wqVars
  <1>3. sem_count' \in (-CountHalf)..(CountHalf - 1)
    BY <1>1, <1>2, Stored, SMTT(30)
  <1>4. \A y \in Waiting : asked'[y] = asked[y]
    <2>1. x \notin Waiting
      BY <1>2 DEF SemWaiters
    <2> QED
      BY <1>2, <2>1, SemQueue DEF SemTypes
  <1>5. SemWaiters' /\ sem_wait' = sem_wait /\ Asked' = Asked
    BY <1>2, <1>4, SemStays
  <1>6. SemTypes'
    BY <1>1, <1>2, <1>3, SMTT(30) DEF SemTypes
  <1> QED
    BY <1>1, <1>2, <1>5, <1>6

\* Units are given, and waiters woken.
LEMMA GiveStep ==
  ASSUME SemTypes, SemWaiters, NEW n \in Gives, semaphore_give(n)
  PROVE  /\ SemTypes' /\ SemWaiters' /\ n \in Int /\ avail + n \in MinAvail..MaxAvail
         /\ \E k \in 0..Len(sem_wait), a \in Nat, c \in Int :
              /\ c = Wrap(sem_count + n) /\ sem_count' = c - k /\ avail' = avail + n - a
              /\ k = (IF c <= 0 THEN 0 ELSE IF c <= Len(sem_wait) THEN c ELSE Len(sem_wait))
              /\ Len(sem_wait') = Len(sem_wait) - k
              /\ Asked' \in Nat /\ Asked = a + Asked' /\ Len(sem_wait') <= Asked'
              /\ k = 0 => a = 0
  <1>1. n \in Int /\ sem_count \in Int /\ avail \in Int /\ Len(sem_wait) \in Nat
    BY SemaphoreAssumption, Stored, SemQueue, SMTT(30) DEF SemTypes
  <1>2. PICK c : c = Wrap(sem_count + n)
    OBVIOUS
  <1>3. CountHalf \in Nat /\ sem_count + n \in Int /\ c \in (-CountHalf)..(CountHalf - 1) /\ c \in Int
    BY <1>1, <1>2, Stored, SMTT(30)
  <1>4. PICK k : k = Min({Max({c, 0}), Len(sem_wait)})
    OBVIOUS
  <1>5. k \in 0..Len(sem_wait) /\ k = (IF c <= 0 THEN 0 ELSE IF c <= Len(sem_wait) THEN c ELSE Len(sem_wait))
    BY <1>1, <1>3, <1>4, WakeCount
  <1>6. /\ WakeMany("sem", k) /\ sem_count' = c - k /\ avail' = avail + n - AskedBy(k)
        /\ asked' = asked /\ avail + n \in MinAvail..MaxAvail
    BY <1>2, <1>4 DEF semaphore_give, GiveUnits
  <1>7. /\ status' \in [Ctx -> {"ready", "running", "blocked"}] /\ waitq' \in [Queue -> Seq(Ctx)]
        /\ SemWaiters'
        /\ Len(sem_wait') = Len(sem_wait) - k
        /\ AskedBy(k) \in Nat /\ Asked' \in Nat /\ Asked = AskedBy(k) + Asked'
        /\ Len(sem_wait') <= Asked'
    BY <1>5, <1>6, SemWakes
  <1>8. sem_count' \in (-CountHalf)..(CountHalf - 1)
    BY <1>1, <1>3, <1>5, <1>6, SMTT(30)
  <1>9. avail' \in Int
    BY <1>1, <1>6, <1>7, SMTT(30)
  <1>10. SemTypes'
    BY <1>6, <1>7, <1>8, <1>9 DEF SemTypes
  <1>11. k = 0 => AskedBy(k) = 0
    <2>1. Units(Oldest(0), asked) = {}
      BY SMTT(30) DEF Units, Oldest
    <2> QED
      BY <2>1, FS_EmptySet DEF AskedBy
  <1> QED
    BY <1>1, <1>2, <1>3, <1>5, <1>6, <1>7, <1>10, <1>11

\* A context uses up what it has taken, or gets a processor.
LEMMA QuietStep ==
  ASSUME SemTypes, SemWaiters, NEW x \in Ctx, SemConsume(x) \/ SemResume(x)
  PROVE  SemTypes' /\ SemWaiters' /\ Asked' = Asked /\ UNCHANGED <<sem_wait, sem_count, avail>>
  <1>1. CASE SemConsume(x)
    <2>1. /\ asked' = [asked EXCEPT ![x] = 0] /\ status[x] = "running"
          /\ UNCHANGED <<status, waitq, sem_count, avail>>
      BY <1>1 DEF SemConsume
    <2>2. \A y \in Waiting : asked'[y] = asked[y]
      <3>1. x \notin Waiting
        BY <2>1 DEF SemWaiters
      <3> QED
        BY <2>1, <3>1, SemQueue DEF SemTypes
    <2>3. SemWaiters' /\ sem_wait' = sem_wait /\ Asked' = Asked
      BY <2>1, <2>2, SemStays
    <2>4. SemTypes'
      BY <2>1 DEF SemTypes
    <2> QED
      BY <2>1, <2>3, <2>4
  <1>2. CASE SemResume(x)
    <2>1. /\ status[x] = "ready" /\ status' = [status EXCEPT ![x] = "running"]
          /\ UNCHANGED <<waitq, sem_count, asked, avail>>
      BY <1>2 DEF SemResume, Dispatch, semOnly
    <2>2. \A y \in Ctx : status'[y] = "blocked" <=> status[y] = "blocked"
      BY <2>1 DEF SemTypes
    <2>3. SemWaiters' /\ sem_wait' = sem_wait /\ Asked' = Asked
      BY <2>1, <2>2, SemStays
    <2>4. SemTypes'
      BY <2>1 DEF SemTypes
    <2> QED
      BY <2>1, <2>3, <2>4
  <1> QED
    BY <1>1, <1>2

\* The semaphore as semaphore_init leaves it.
LEMMA SemStart ==
  ASSUME semaphore_init
  PROVE  /\ SemTypes /\ SemWaiters /\ sem_wait = <<>> /\ Asked = 0 /\ Len(sem_wait) = 0
         /\ sem_count = InitCount /\ avail = InitCount /\ InitCount \in Int
  <1>1. /\ status = [x \in Ctx |-> "running"] /\ waitq = [q \in Queue |-> <<>>]
        /\ sem_count = InitCount /\ asked = [x \in Ctx |-> 0] /\ avail = InitCount
    BY DEF semaphore_init
  <1>2. InitCount \in (-CountHalf)..(CountHalf - 1) /\ CountHalf \in Nat
    BY SemaphoreAssumption
  <1>3. InitCount \in Int
    BY <1>2, SMTT(30)
  <1>4. sem_wait = <<>> /\ Len(sem_wait) = 0
    BY <1>1, SemaphoreAssumption DEF sem_wait
  <1>5. Waiting = {}
    BY <1>4, SMTT(30) DEF Waiting, Oldest
  <1>6. SemTypes
    BY <1>1, <1>2, <1>3, SMTT(30) DEF SemTypes
  <1>7. SemWaiters
    BY <1>1, <1>4, <1>5, SMTT(30) DEF SemWaiters
  <1>8. Asked = 0
    <2>1. Units(Waiting, asked) = {}
      BY <1>5 DEF Units
    <2>2. Asked = Cardinality(Units(Waiting, asked))
      BY DEF Asked, AskedBy, Waiting
    <2> QED
      BY <2>1, <2>2, FS_EmptySet
  <1> QED
    BY <1>1, <1>3, <1>4, <1>6, <1>7, <1>8

\* Units are conserved even where the count overflows.
LEMMA ConsInductive ==
  ASSUME ConsInv, [NextEvents]_semVars
  PROVE  ConsInv'
  <1>a. PICK m, z : m = Len(sem_wait) /\ z = avail - Asked + m
    OBVIOUS
  <1>1. SemTypes /\ SemWaiters /\ sem_count = Wrap(z)
    BY <1>a DEF ConsInv, Conservation, Asked
  <1>2. m \in Nat /\ Asked \in Nat /\ avail \in Int /\ z \in Int /\ sem_count \in Int
    <2>1. m \in Nat /\ Asked \in Nat
      BY <1>1, <1>a, SemQueue
    <2>2. avail \in Int /\ sem_count \in Int
      BY <1>1, SemaphoreAssumption, SMTT(30) DEF SemTypes
    <2> QED
      BY <2>1, <2>2, <1>a, SMTT(30)
  <1>3. Conservation' <=> sem_count' = Wrap(avail' - Asked' + Len(sem_wait'))
    BY DEF Conservation, Asked, Wrap
  <1>4. ASSUME NEW x \in Ctx, NEW n \in Takes, semaphore_take(x, n)
        PROVE  ConsInv'
    <2>1. SemTypes' /\ SemWaiters' /\ n \in Nat \ {0}
      BY <1>1, <1>4, TakeStep
    <2>2. Wrap(sem_count - n) = Wrap(z - n) /\ Wrap(z - n) \in Int
      <3>1. -n \in Int /\ Wrap(z) + (-n) = sem_count - n /\ z + (-n) = z - n /\ z - n \in Int
        BY <1>1, <1>2, <2>1, SMTT(30)
      <3>2. Wrap(Wrap(z) + (-n)) = Wrap(z + (-n)) /\ Wrap(z - n) \in (-CountHalf)..(CountHalf - 1)
        BY <1>2, <3>1, Stored
      <3> QED
        BY <3>1, <3>2, SMTT(30)
    <2>3. CASE sem_wait' = sem_wait /\ sem_count' = Wrap(sem_count - n) /\ avail' = avail - n /\ Asked' = Asked
      <3>1. avail' - Asked' + Len(sem_wait') = z - n
        BY <1>2, <1>a, <2>1, <2>3, SMTT(30)
      <3> QED
        BY <1>3, <2>1, <2>2, <2>3, <3>1 DEF ConsInv
    <2>4. CASE /\ sem_count' = Wrap(Wrap(sem_count - n) + 1) /\ avail' = avail
               /\ Asked' = Asked + n /\ Len(sem_wait') = m + 1
      <3>1. avail' - Asked' + Len(sem_wait') = (z - n) + 1
        BY <1>2, <1>a, <2>1, <2>4, SMTT(30)
      <3>2. z - n \in Int
        BY <1>2, <2>1, SMTT(30)
      <3>3. Wrap(Wrap(z - n) + 1) = Wrap((z - n) + 1)
        BY <3>2, Stored, SMTT(30)
      <3> QED
        BY <1>3, <2>1, <2>2, <2>4, <3>1, <3>3 DEF ConsInv
    <2> QED
      BY <1>1, <1>4, <1>a, <2>3, <2>4, TakeStep
  <1>5. ASSUME NEW x \in Ctx, NEW n \in Takes, semaphore_try_take(x, n)
        PROVE  ConsInv'
    <2>1. /\ SemTypes' /\ SemWaiters' /\ n \in Nat \ {0}
          /\ sem_count' = Wrap(sem_count - n) /\ avail' = avail - n /\ Asked' = Asked /\ sem_wait' = sem_wait
      BY <1>1, <1>5, TryTakeStep
    <2>2. -n \in Int /\ Wrap(z) + (-n) = sem_count - n /\ z + (-n) = z - n
      BY <1>1, <1>2, <2>1, SMTT(30)
    <2>3. Wrap(Wrap(z) + (-n)) = Wrap(z + (-n))
      BY <1>2, <2>2, Stored
    <2>4. avail' - Asked' + Len(sem_wait') = z - n
      BY <1>2, <1>a, <2>1, SMTT(30)
    <2> QED
      BY <1>3, <2>1, <2>2, <2>3, <2>4 DEF ConsInv
  <1>6. ASSUME NEW n \in Gives, semaphore_give(n)
        PROVE  ConsInv'
    <2>1. SemTypes' /\ SemWaiters' /\ n \in Int
      BY <1>1, <1>6, GiveStep
    <2>2. PICK k \in 0..m, a \in Nat, c \in Int :
              /\ c = Wrap(sem_count + n) /\ sem_count' = c - k /\ avail' = avail + n - a
              /\ Len(sem_wait') = m - k
              /\ Asked' \in Nat /\ Asked = a + Asked'
      BY <1>1, <1>6, <1>a, GiveStep
    <2>3. k \in Int /\ -k \in Int /\ c + (-k) = c - k
      BY <1>2, <2>2, SMTT(30)
    <2>4. c = Wrap(z + n) /\ z + n \in Int
      BY <1>1, <1>2, <2>1, <2>2, Stored, SMTT(30)
    <2>5. Wrap(c + (-k)) = Wrap((z + n) + (-k))
      BY <2>3, <2>4, Stored
    <2>6. c - k \in (-CountHalf)..(CountHalf - 1)
      BY <2>1, <2>2 DEF SemTypes
    <2>7. c - k \in Int /\ Wrap(c - k) = c - k
      BY <2>2, <2>3, <2>6, Stored, SMTT(30)
    <2>8. avail' - Asked' + Len(sem_wait') = (z + n) + (-k)
      <3>1. PICK v, w : v = Asked /\ w = Asked'
        OBVIOUS
      <3>2. v \in Nat /\ w \in Nat /\ v = a + w /\ z = avail - v + m
        BY <1>2, <1>a, <2>2, <3>1
      <3>3. avail + n - a - w + (m - k) = (z + n) + (-k)
        BY <1>2, <2>1, <2>2, <2>3, <3>2, SMTT(30)
      <3> QED
        BY <1>2, <2>1, <2>2, <3>1, <3>2, <3>3, SMTT(30)
    <2> QED
      BY <1>3, <2>1, <2>2, <2>3, <2>5, <2>7, <2>8 DEF ConsInv
  <1>7. ASSUME NEW x \in Ctx, SemConsume(x) \/ SemResume(x)
        PROVE  ConsInv'
    <2>1. SemTypes' /\ SemWaiters' /\ Asked' = Asked /\ UNCHANGED <<sem_wait, sem_count, avail>>
      BY <1>1, <1>7, QuietStep
    <2> QED
      BY <1>1, <1>3, <1>a, <2>1 DEF ConsInv
  <1>8. CASE UNCHANGED semVars
    <2>1. UNCHANGED <<status, waitq, sem_count, asked, avail>>
      BY <1>8 DEF semVars, semOnly
    <2> QED
      BY <2>1, SMTT(30) DEF ConsInv, SemTypes, SemWaiters, Conservation, Waiting, Oldest, AskedBy, sem_wait, Units, Wrap
  <1> QED
    BY <1>4, <1>5, <1>6, <1>7, <1>8 DEF NextEvents, SemTake

\* Whatever is given and taken, and even where semaphore_count_t overflows, count
\* is what is available less what the waiters have reserved (semaphore.c:39-84).
THEOREM SemConserves == EventSpec => []Conservation
  <1>1. ASSUME semaphore_init
        PROVE  ConsInv
    <2>1. /\ SemTypes /\ SemWaiters /\ Asked = 0 /\ Len(sem_wait) = 0
          /\ sem_count = InitCount /\ avail = InitCount /\ InitCount \in Int
      BY <1>1, SemStart
    <2>2. Wrap(InitCount) = InitCount
      BY <2>1, Stored, SemaphoreAssumption
    <2>3. avail - Asked + Len(sem_wait) = InitCount
      BY <2>1, SMTT(30)
    <2> QED
      BY <2>1, <2>2, <2>3 DEF ConsInv, Conservation, Asked
  <1>2. ConsInv => Conservation
    BY DEF ConsInv
  <1> QED
    BY <1>1, <1>2, ConsInductive, PTL DEF EventSpec

\* One more context asks, with those in the queue.
LEMMA OneMore ==
  ASSUME SemTypes, SemWaiters, NEW t \in Nat, \A n \in Takes : n <= t,
         NEW x \in Ctx, status[x] # "blocked", NEW n \in Takes
  PROVE  Asked + n <= Cardinality(Ctx) * t
  <1>1. PICK W, X, f : W = Waiting /\ X = {x} /\ f = [asked EXCEPT ![x] = n]
    OBVIOUS
  <1>2. W \subseteq Ctx /\ IsFiniteSet(W) /\ \A y \in W : asked[y] \in Takes
    BY <1>1, SemQueue DEF SemWaiters
  <1>3. X \subseteq Ctx /\ IsFiniteSet(X) /\ W \cap X = {}
    BY <1>1, FS_Singleton DEF SemWaiters
  <1>4. (\A y \in W : f[y] = asked[y]) /\ f[x] = n
    BY <1>1, <1>2, <1>3 DEF SemTypes
  <1>5. \A y \in W \cup X : f[y] \in Nat /\ f[y] <= t
    BY <1>1, <1>2, <1>4, SemaphoreAssumption
  <1>6. Cardinality(Units(W \cup X, f)) = Cardinality(Units(W, f)) + Cardinality(Units(X, f))
    BY ONLY <1>2, <1>3, <1>5, UnitsAdd
  <1>7. Cardinality(Units(W \cup X, f)) <= Cardinality(Ctx) * t
    <2>1. W \cup X \subseteq Ctx
      BY <1>2, <1>3
    <2> QED
      BY <1>5, <2>1, UnitsAtMost
  <1>8. Cardinality(Units(W, f)) = Asked
    BY <1>1, <1>4, UnitsSame DEF Asked, AskedBy, Waiting
  <1>9. Cardinality(Units(X, f)) = n
    <2>1. Units(X, f) = {x} \X (1..n)
      BY <1>1, <1>4 DEF Units
    <2> QED
      BY <2>1, OneAsks, SemaphoreAssumption
  <1> QED
    BY <1>6, <1>7, <1>8, <1>9

\* A semaphore whose count does not overflow tells exactly what there is.
LEMMA SemInductive ==
  ASSUME CountFits, SemIInv, [NextEvents]_semVars
  PROVE  SemIInv'
  <1>a. PICK m, A : m = Len(sem_wait) /\ A = Asked
    OBVIOUS
  <1>b. PICK h : h = CountHalf
    OBVIOUS
  <1>1. /\ SemTypes /\ SemWaiters /\ avail \in MinAvail..MaxAvail
        /\ sem_count = avail - A + m /\ (sem_wait # <<>> => sem_count <= 0)
    BY <1>a DEF SemIInv
  <1>2. h \in Nat \ {0} /\ MinAvail \in Int /\ MaxAvail \in Int /\ MinAvail <= 0 /\ MaxAvail < h
    BY <1>b, SemaphoreAssumption DEF CountFits
  <1>3. PICK t \in Nat : (\A n \in Takes : n <= t) /\ -h <= MinAvail - Cardinality(Ctx) * t
    BY <1>b DEF CountFits
  <1>4. PICK M : M = Cardinality(Ctx) * t
    OBVIOUS
  <1>5. m \in Nat /\ A \in Nat /\ avail \in Int /\ sem_count \in Int
    <2>1. m \in Nat /\ A \in Nat
      BY <1>1, <1>a, SemQueue
    <2> QED
      BY <1>1, <1>2, <2>1, SMTT(30)
  <1>6. M \in Nat /\ A <= M /\ m <= A
    <2>1. Waiting \subseteq Ctx /\ \A x \in Waiting : asked[x] \in Nat \ {0} /\ asked[x] <= t
      BY <1>1, <1>3, SemQueue DEF SemWaiters
    <2>2. A = Cardinality(Units(Waiting, asked))
      BY <1>a DEF Asked, AskedBy, Waiting
    <2>3. A <= M /\ M \in Nat
      BY <1>4, <2>1, <2>2, UnitsAtMost
    <2>4. Cardinality(Waiting) <= A
      BY <2>1, <2>2, UnitsAtLeast
    <2>5. Cardinality(Waiting) = m
      <3>1. sem_wait \in Seq(Ctx) /\ \A i, j \in 1..Len(sem_wait) : sem_wait[i] = sem_wait[j] => i = j
        BY <1>1, SemQueue DEF SemWaiters
      <3>2. PICK r : r = sem_wait
        OBVIOUS
      <3>3. Cardinality({r[i] : i \in 1..Len(r)}) = Len(r)
        BY <3>1, <3>2, Counted
      <3> QED
        BY <3>2, <3>3, <1>a DEF Waiting, Oldest
    <2> QED
      BY <2>3, <2>4, <2>5
  <1>7. -h <= MinAvail - M
    BY <1>3, <1>4
  <1>8. \A v \in Int : v \in (-h)..(h - 1) => Wrap(v) = v
    BY <1>b, Stored
  <1>9. sem_count > 0 => m = 0 /\ A = 0
    <2>1. sem_count > 0 => Asked = 0 /\ Len(sem_wait) = 0
      <3>1. ASSUME sem_count > 0
            PROVE  Asked = 0 /\ Len(sem_wait) = 0
        <4>1. sem_wait = <<>>
          BY <3>1, <1>1, <1>5, SMTT(30)
        <4>2. Len(sem_wait) = 0 /\ Waiting = {}
          BY <4>1, SMTT(30) DEF Waiting, Oldest
        <4>3. Units(Waiting, asked) = {}
          BY <4>2 DEF Units
        <4>4. Asked = Cardinality(Units(Waiting, asked))
          BY DEF Asked, AskedBy, Waiting
        <4> QED
          BY <4>2, <4>3, <4>4, FS_EmptySet
      <3> QED
        BY <3>1
    <2> QED
      BY <2>1, <1>a
  <1>10. ASSUME NEW x \in Ctx, NEW n \in Takes, status[x] = "running"
         PROVE  /\ n \in Nat \ {0} /\ sem_count - n \in (-h)..(h - 1)
                /\ Wrap(sem_count - n) = sem_count - n
    <2>1. n \in Nat \ {0}
      BY SemaphoreAssumption
    <2>2. A + n <= M
      BY <1>1, <1>3, <1>4, <1>10, <1>a, OneMore
    <2>3. sem_count - n \in (-h)..(h - 1)
      BY <1>1, <1>2, <1>5, <1>6, <1>7, <2>1, <2>2, SMTT(30)
    <2> QED
      BY <1>8, <2>1, <2>3, SMTT(30)
  <1>11. ASSUME NEW n \in Takes, n \in Nat \ {0}, sem_count - n >= 0, SemTypes', SemWaiters',
                sem_count' = sem_count - n, avail' = avail - n, Asked' = Asked, sem_wait' = sem_wait
         PROVE  SemIInv'
    <2>1. sem_count > 0
      BY <1>5, <1>11, SMTT(30)
    <2>2. m = 0 /\ A = 0 /\ sem_wait = <<>>
      BY <1>1, <1>5, <1>9, <2>1, SMTT(30)
    <2>3. avail' \in MinAvail..MaxAvail /\ sem_count' = avail' - Asked' + Len(sem_wait')
      BY <1>1, <1>2, <1>5, <1>11, <1>a, <2>2, SMTT(30)
    <2> QED
      BY <1>11, <2>2, <2>3 DEF SemIInv
  <1>12. ASSUME NEW x \in Ctx, NEW n \in Takes, semaphore_take(x, n)
         PROVE  SemIInv'
    <2>1. SemTypes' /\ SemWaiters' /\ status[x] = "running"
      BY <1>1, <1>12, TakeStep DEF semaphore_take
    <2>2. n \in Nat \ {0} /\ sem_count - n \in (-h)..(h - 1) /\ Wrap(sem_count - n) = sem_count - n
      BY <1>10, <2>1
    <2>3. CASE /\ Wrap(sem_count - n) < 0 /\ sem_count' = Wrap(Wrap(sem_count - n) + 1)
               /\ avail' = avail /\ Asked' = A + n /\ Len(sem_wait') = m + 1
      <3>1. sem_count - n < 0 /\ (sem_count - n) + 1 \in (-h)..(h - 1)
        BY <1>2, <1>5, <2>2, <2>3, SMTT(30)
      <3>2. sem_count' = (sem_count - n) + 1
        BY <1>8, <2>2, <2>3, <3>1, SMTT(30)
      <3>3. sem_count' = avail' - Asked' + Len(sem_wait') /\ sem_count' <= 0
        BY <1>1, <1>5, <2>2, <2>3, <3>1, <3>2, SMTT(30)
      <3> QED
        BY <1>1, <2>1, <2>3, <3>3 DEF SemIInv
    <2>4. CASE /\ Wrap(sem_count - n) >= 0 /\ sem_count' = Wrap(sem_count - n)
               /\ avail' = avail - n /\ Asked' = A /\ sem_wait' = sem_wait
      BY <1>11, <1>a, <2>1, <2>2, <2>4
    <2> QED
      BY <1>1, <1>12, <1>a, <2>3, <2>4, TakeStep
  <1>13. ASSUME NEW x \in Ctx, NEW n \in Takes, semaphore_try_take(x, n)
         PROVE  SemIInv'
    <2>1. status[x] = "running"
      BY <1>13 DEF semaphore_try_take
    <2> QED
      BY <1>1, <1>10, <1>11, <1>13, <2>1, TryTakeStep
  <1>14. ASSUME NEW n \in Gives, semaphore_give(n)
         PROVE  SemIInv'
    <2>1. SemTypes' /\ SemWaiters' /\ n \in Int /\ avail + n \in MinAvail..MaxAvail
      BY <1>1, <1>14, GiveStep
    <2>2. PICK k \in 0..m, a \in Nat, c \in Int :
              /\ c = Wrap(sem_count + n) /\ sem_count' = c - k /\ avail' = avail + n - a
              /\ k = (IF c <= 0 THEN 0 ELSE IF c <= m THEN c ELSE m)
              /\ Len(sem_wait') = m - k
              /\ Asked' \in Nat /\ A = a + Asked' /\ Len(sem_wait') <= Asked'
              /\ k = 0 => a = 0
      BY <1>1, <1>14, <1>a, GiveStep, SMTT(30)
    <2>3. sem_count + n \in (-h)..(h - 1) /\ c = sem_count + n
      <3>1. sem_count + n = (avail + n) - A + m /\ avail + n \in Int
        BY <1>1, <1>5, <2>1, SMTT(30)
      <3>2. sem_count + n \in (-h)..(h - 1)
        BY <1>2, <1>5, <1>6, <1>7, <2>1, <3>1, SMTT(30)
      <3> QED
        BY <1>8, <2>2, <3>2, SMTT(30)
    <2>4. PICK B : B = Asked'
      OBVIOUS
    <2>5. /\ B \in Nat /\ A = a + B /\ m - k <= B /\ k \in Nat /\ k <= m /\ (k = 0 => a = 0)
          /\ a \in Nat /\ c \in Int /\ n \in Int
      BY <1>5, <2>1, <2>2, <2>4, SMTT(30)
    <2>6. sem_count' = (avail + n - a) - B + (m - k) /\ avail' = avail + n - a
      <3>1. sem_count' = c - k /\ c = sem_count + n /\ avail' = avail + n - a
        BY <2>2, <2>3
      <3> QED
        BY <1>1, <1>5, <2>5, <3>1, SMTT(30)
    <2>7. avail' \in MinAvail..MaxAvail
      <3>1. avail' <= MaxAvail /\ avail' \in Int
        BY <1>2, <1>5, <2>1, <2>5, <2>6, SMTT(30)
      <3>2. CASE c <= 0
        <4>1. a = 0
          BY <2>2, <3>2
        <4> QED
          BY <1>2, <1>5, <2>1, <2>6, <4>1, SMTT(30)
      <3>3. CASE c > 0
        <4>1. k <= c
          BY <1>5, <2>2, <3>3, SMTT(30)
        <4>2. c = avail - A + m + n
          BY <1>1, <1>5, <2>3, <2>5
        <4>3. avail + n - a >= 0
          BY <1>5, <2>5, <4>1, <4>2, SMTT(30)
        <4> QED
          BY <1>2, <2>6, <3>1, <4>3, SMTT(30)
      <3> QED
        BY <2>2, <3>2, <3>3, SMTT(30)
    <2>8. sem_wait' # <<>> => sem_count' <= 0
      <3>1. ASSUME sem_wait' # <<>>
            PROVE  k < m
        BY <1>5, <2>1, <2>2, <3>1, SemaphoreAssumption, SMTT(30) DEF SemTypes, sem_wait
      <3> QED
        BY <1>5, <2>2, <3>1, SMTT(30)
    <2> QED
      BY <2>1, <2>2, <2>4, <2>6, <2>7, <2>8 DEF SemIInv
  <1>15. ASSUME NEW x \in Ctx, SemConsume(x) \/ SemResume(x)
         PROVE  SemIInv'
    <2>1. SemTypes' /\ SemWaiters' /\ Asked' = Asked /\ UNCHANGED <<sem_wait, sem_count, avail>>
      BY <1>1, <1>15, QuietStep
    <2> QED
      BY <1>1, <1>a, <2>1 DEF SemIInv
  <1>16. CASE UNCHANGED semVars
    <2>1. UNCHANGED <<status, waitq, sem_count, asked, avail>>
      BY <1>16 DEF semVars, semOnly
    <2> QED
      BY <2>1, SMTT(30) DEF SemIInv, SemTypes, SemWaiters, Asked, Waiting, Oldest, AskedBy, sem_wait, Units
  <1> QED
    BY <1>12, <1>13, <1>14, <1>15, <1>16 DEF NextEvents, SemTake

\* No unit is lost or made up and none waits for a taker, as long as no count is
\* asked for or given that semaphore_count_t cannot hold (semaphore.c:39-84).
THEOREM SemSafe == ASSUME CountFits PROVE EventSpec => []SemInv
  <1>1. ASSUME semaphore_init
        PROVE  SemIInv
    <2>1. /\ SemTypes /\ SemWaiters /\ Asked = 0 /\ Len(sem_wait) = 0 /\ sem_wait = <<>>
          /\ sem_count = InitCount /\ avail = InitCount /\ InitCount \in Int
      BY <1>1, SemStart
    <2>2. sem_count = avail - Asked + Len(sem_wait) /\ avail \in MinAvail..MaxAvail
      BY <2>1, SMTT(30) DEF CountFits
    <2> QED
      BY <2>1, <2>2 DEF SemIInv
  <1>2. SemIInv => SemInv
    <2> SUFFICES ASSUME SemIInv PROVE SemInv
      OBVIOUS
    <2>a. PICK m, A : m = Len(sem_wait) /\ A = Asked
      OBVIOUS
    <2>1. /\ SemTypes /\ SemWaiters /\ avail \in MinAvail..MaxAvail
          /\ sem_count = avail - A + m /\ (sem_wait # <<>> => sem_count <= 0)
      BY <2>a DEF SemIInv
    <2>2. /\ sem_wait \in Seq(Ctx) /\ m \in Nat /\ A \in Nat /\ Waiting \subseteq Ctx
          /\ \A x \in Waiting : asked[x] \in Nat \ {0}
      BY <2>1, <2>a, SemQueue
    <2>3. SemTypeOK
      BY <2>1, <2>2 DEF SemTypes, SemTypeOK
    <2>4. Conservation
      <3>1. avail - A + m \in Int /\ avail - A + m \in (-CountHalf)..(CountHalf - 1)
        BY <2>1, SemaphoreAssumption, SMTT(30) DEF SemTypes
      <3>2. Wrap(avail - A + m) = avail - A + m
        BY <3>1, Stored
      <3> QED
        BY <2>1, <2>a, <3>2 DEF Conservation, Asked
    <2>5. UnitsServed
      <3>1. ASSUME sem_wait # <<>>, \A i \in DOMAIN sem_wait : asked[sem_wait[i]] = 1
            PROVE  avail <= 0
        <4>1. DOMAIN sem_wait = 1..m
          BY <2>2, <2>a, SMTT(30)
        <4>2. \A x \in Waiting : asked[x] = 1
          BY <3>1, <4>1, <2>a, SMTT(30) DEF Waiting, Oldest
        <4>3. Cardinality(Units(Waiting, asked)) = Cardinality(Waiting)
          BY <2>2, <4>2, UnitsAtLeast
        <4>4. A = Cardinality(Units(Waiting, asked))
          BY <2>a DEF Asked, AskedBy, Waiting
        <4>5. Cardinality(Waiting) = m
          <5>1. \A i, j \in 1..Len(sem_wait) : sem_wait[i] = sem_wait[j] => i = j
            BY <2>1 DEF SemWaiters
          <5>2. PICK r : r = sem_wait
            OBVIOUS
          <5>3. Cardinality({r[i] : i \in 1..Len(r)}) = Len(r)
            BY <2>2, <5>1, <5>2, Counted
          <5> QED
            BY <5>2, <5>3, <2>a DEF Waiting, Oldest
        <4>6. sem_count = avail /\ sem_count <= 0
          <5>1. avail \in Int
            BY <2>1 DEF SemTypes
          <5> QED
            BY <2>1, <2>2, <3>1, <4>3, <4>4, <4>5, <5>1, SMTT(30)
        <4> QED
          BY <4>6
      <3> QED
        BY <3>1 DEF UnitsServed
    <2> QED
      BY <2>3, <2>4, <2>5 DEF SemInv
  <1>3. SemIInv /\ [NextEvents]_semVars => SemIInv'
    BY SemInductive
  <1> QED
    BY <1>1, <1>2, <1>3, PTL DEF EventSpec

-----------------------------------------------------------------------------
(* Timers.                                                                 *)

TmSpec == TmInit /\ [][TmNext]_tmVars

\* the tick count does not wrap before the last event has expired
TicksFit == \A d \in Delays \cup {0} : MaxNow + d < 2^TickBits

\* a list without repetitions, and in the order of the numbers d
Once(list) == \A i, j \in 1..Len(list) : list[i] = list[j] => i = j
InOrder(list, d) == \A i, j \in 1..Len(list) : i < j => d[list[i]] <= d[list[j]]

\* An event is in the list once; the one that is being added is not yet.
\* Without wrapping, an event expires when it is due.
TmIInv ==
  /\ TmTypeOK /\ due \in [Event -> Nat] /\ tdelay \in [Event -> Nat]
  /\ \A e \in Event : tstart[e] + tdelay[e] = due[e] /\ due[e] < 2^TickBits
  /\ Once(tlist) /\ InOrder(tlist, due)
  /\ \A i \in 1..Len(tlist) : tlist[i] # adding

\* A set of numbers has a least one.
LEMMA LeastNat ==
  ASSUME NEW T \in SUBSET Nat, T # {}
  PROVE  \E m \in T : \A k \in T : m <= k
  <1>1. PICK R : R = OpToRel(<, Nat) /\ IsWellFoundedOn(R, Nat)
    BY NatLessThanWellFounded
  <1>2. PICK x \in T : \A y \in T : ~(<<y, x>> \in R)
    BY <1>1, WFMin
  <1>3. \A z, y \in Nat : <<y, z>> \in R <=> y < z
    BY <1>1 DEF OpToRel
  <1>4. ASSUME NEW y \in T PROVE x <= y
    <2>1. x \in Nat /\ y \in Nat
      OBVIOUS
    <2>2. ~(<<y, x>> \in R)
      BY <1>2
    <2>3. ~(y < x)
      BY <1>3, <2>1, <2>2
    <2> QED
      BY <2>1, <2>3, SMTT(30)
  <1> QED
    BY <1>4

\* Min is the least number of a set.
LEMMA MinOfSet ==
  ASSUME NEW T \in SUBSET Nat, T # {}
  PROVE  Min(T) \in T /\ \A k \in T : Min(T) <= k
  <1>1. \E m \in T : \A k \in T : m <= k
    BY LeastNat
  <1> QED
    BY <1>1 DEF Min

\* list is s with e in place k.
IsInserted(list, s, k, e) ==
  /\ Len(list) = Len(s) + 1
  /\ \A i \in 1..Len(list) : list[i] = IF i < k THEN s[i] ELSE IF i = k THEN e ELSE s[i - 1]

\* Joining two sequences.
LEMMA Joined ==
  ASSUME NEW S, NEW s \in Seq(S), NEW t \in Seq(S)
  PROVE  s \o t \in Seq(S) /\ Len(s \o t) = Len(s) + Len(t)
  BY SMTT(30)

\* Inserting into a sequence.
LEMMA Inserted ==
  ASSUME NEW S, NEW s \in Seq(S), NEW e \in S, NEW k \in 1..Len(s)
  PROVE  InsertAt(s, k, e) \in Seq(S) /\ IsInserted(InsertAt(s, k, e), s, k, e)
  <1>a. PICK n, p, q : n = Len(s) /\ p = SubSeq(s, 1, k - 1) /\ q = SubSeq(s, k, n)
    OBVIOUS
  <1>1. n \in Nat /\ k \in 1..n
    BY <1>a, SMTT(30)
  <1>2. p \in Seq(S) /\ Len(p) = k - 1 /\ \A i \in 1..(k - 1) : p[i] = s[i]
    BY <1>1, <1>a, SMTT(30)
  <1>3. q \in Seq(S) /\ Len(q) = n - k + 1 /\ \A i \in 1..(n - k + 1) : q[i] = s[k + i - 1]
    BY <1>1, <1>a, SMTT(30)
  <1>b. PICK u : u = p \o <<e>>
    OBVIOUS
  <1>4. /\ u \in Seq(S) /\ Len(u) = k
        /\ \A i \in 1..(k - 1) : u[i] = s[i]
        /\ u[k] = e
    BY <1>1, <1>2, <1>b, SMTT(30)
  <1>5. InsertAt(s, k, e) = u \o q
    BY <1>a, <1>b DEF InsertAt
  <1>6. u \o q \in Seq(S) /\ Len(u \o q) = n + 1
    <2>1. u \o q \in Seq(S) /\ Len(u \o q) = Len(u) + Len(q)
      BY <1>3, <1>4, Joined
    <2> QED
      BY <1>1, <1>3, <1>4, <2>1, SMTT(30)
  <1>7. ASSUME NEW i \in 1..(n + 1)
        PROVE  (u \o q)[i] = IF i < k THEN s[i] ELSE IF i = k THEN e ELSE s[i - 1]
    <2>1. CASE i < k
      BY <1>1, <1>3, <1>4, <2>1, SMTT(30)
    <2>2. CASE i = k
      BY <1>1, <1>3, <1>4, <2>2, SMTT(30)
    <2>3. CASE i > k
      <3>1. (u \o q)[i] = q[i - k] /\ i - k \in 1..(n - k + 1) /\ k + (i - k) - 1 = i - 1
        BY <1>1, <1>3, <1>4, <2>3, SMTT(30)
      <3> QED
        BY <1>1, <1>3, <2>3, <3>1, SMTT(30)
    <2>4. i < k \/ i = k \/ i > k
      BY <1>1, SMTT(30)
    <2> QED
      BY <2>1, <2>2, <2>3, <2>4
  <1> QED
    BY <1>5, <1>6, <1>7, <1>a DEF IsInserted

\* Taking one element out of a sequence.
LEMMA TakenOut ==
  ASSUME NEW S, NEW s \in Seq(S), NEW k \in 1..Len(s)
  PROVE  /\ RemoveAt(s, k) \in Seq(S) /\ Len(RemoveAt(s, k)) = Len(s) - 1
         /\ \A i \in 1..(Len(s) - 1) : RemoveAt(s, k)[i] = IF i < k THEN s[i] ELSE s[i + 1]
  <1>a. PICK n, p, q : n = Len(s) /\ p = SubSeq(s, 1, k - 1) /\ q = SubSeq(s, k + 1, n)
    OBVIOUS
  <1>1. n \in Nat /\ k \in 1..n
    BY <1>a, SMTT(30)
  <1>2. p \in Seq(S) /\ Len(p) = k - 1 /\ \A i \in 1..(k - 1) : p[i] = s[i]
    BY <1>1, <1>a, SMTT(30)
  <1>3. q \in Seq(S) /\ Len(q) = n - k /\ \A i \in 1..(n - k) : q[i] = s[k + i]
    BY <1>1, <1>a, SMTT(30)
  <1>4. RemoveAt(s, k) = p \o q
    BY <1>a DEF RemoveAt
  <1>5. p \o q \in Seq(S) /\ Len(p \o q) = n - 1
    <2>1. p \o q \in Seq(S) /\ Len(p \o q) = Len(p) + Len(q)
      BY <1>2, <1>3, Joined
    <2> QED
      BY <1>1, <1>2, <1>3, <2>1, SMTT(30)
  <1>6. ASSUME NEW i \in 1..(n - 1)
        PROVE  (p \o q)[i] = IF i < k THEN s[i] ELSE s[i + 1]
    <2>1. CASE i < k
      BY <1>1, <1>2, <1>3, <2>1, SMTT(30)
    <2>2. CASE ~(i < k)
      <3>1. (p \o q)[i] = q[i - (k - 1)] /\ i - (k - 1) \in 1..(n - k) /\ k + (i - (k - 1)) = i + 1
        BY <1>1, <1>2, <1>3, <2>2, SMTT(30)
      <3> QED
        BY <1>1, <1>3, <2>2, <3>1
    <2> QED
      BY <2>1, <2>2
  <1> QED
    BY <1>4, <1>5, <1>6, <1>a

\* An event is inserted before the first that is not due earlier: the list stays
\* in order.
LEMMA SortedInsert ==
  ASSUME NEW list \in Seq(Event), NEW e \in Event, NEW t \in Nat, NEW d \in [Event -> Nat], d[e] = t,
         \A i \in 1..Len(list) : expire(list[i]) = d[list[i]],
         InOrder(list, d)
  PROVE  /\ sorted_insert(list, e, t) \in Seq(Event)
         /\ InOrder(sorted_insert(list, e, t), d)
         /\ \E k \in 1..(Len(list) + 1) : IsInserted(sorted_insert(list, e, t), list, k, e)
  <1>a. PICK n, L, r : /\ n = Len(list) /\ L = {i \in 1..Len(list) : t <= expire(list[i])}
                       /\ r = sorted_insert(list, e, t)
    OBVIOUS
  <1>1. /\ n \in Nat /\ L \subseteq 1..n
        /\ \A i \in 1..n : list[i] \in Event /\ d[list[i]] \in Nat /\ (i \in L <=> t <= d[list[i]])
    BY <1>a, SMTT(30)
  <1>2. r = IF L = {} THEN Append(list, e) ELSE IF Min(L) = 0 THEN Append(list, e) ELSE InsertAt(list, Min(L), e)
    BY <1>a, <1>1 DEF sorted_insert, SelectInSeq
  <1>3. \E k \in 1..(n + 1) :
          /\ r \in Seq(Event) /\ IsInserted(r, list, k, e)
          /\ \A i \in 1..n : i < k => ~(t <= d[list[i]])
          /\ k <= n => t <= d[list[k]]
    <2>1. CASE L = {}
      <3>1. r = Append(list, e)
        BY <1>2, <2>1
      <3>2. r \in Seq(Event) /\ IsInserted(r, list, n + 1, e)
        <4>1. r \in Seq(Event) /\ Len(r) = n + 1 /\ r[n + 1] = e /\ \A i \in 1..n : r[i] = list[i]
          <5>1. /\ Append(list, e) \in Seq(Event) /\ Len(Append(list, e)) = Len(list) + 1
                /\ Append(list, e)[Len(list) + 1] = e
                /\ \A i \in 1..Len(list) : Append(list, e)[i] = list[i]
            BY SMTT(30)
          <5> QED
            BY <3>1, <5>1, <1>a
        <4>2. \A i \in 1..(n + 1) : (i \in 1..n /\ i < n + 1) \/ i = n + 1
          BY <1>1, SMTT(30)
        <4> QED
          BY <1>1, <4>1, <4>2, <1>a, SMTT(30) DEF IsInserted
      <3>3. n + 1 \in 1..(n + 1) /\ ~(n + 1 <= n)
        BY <1>1, SMTT(30)
      <3> QED
        BY <1>1, <2>1, <3>2, <3>3
    <2>2. CASE L # {}
      <3>1. Min(L) \in L /\ \A i \in L : Min(L) <= i
        BY <1>1, <2>2, MinOfSet, SMTT(30)
      <3>a. PICK k : k = Min(L)
        OBVIOUS
      <3>2. k \in 1..n /\ r = InsertAt(list, k, e)
        <4>1. k \in 1..n
          BY <1>1, <3>1, <3>a
        <4>2. k # 0
          BY <4>1, SMTT(30)
        <4> QED
          BY <1>2, <2>2, <3>a, <4>1, <4>2
      <3>3. r \in Seq(Event) /\ IsInserted(r, list, k, e)
        BY <3>2, <1>a, Inserted
      <3>4. \A i \in 1..n : i < k => i \notin L
        BY <1>1, <3>1, <3>2, <3>a, SMTT(30)
      <3>5. k \in 1..(n + 1)
        BY <1>1, <3>2, SMTT(30)
      <3> QED
        BY <1>1, <3>1, <3>2, <3>3, <3>4, <3>5, <3>a
    <2> QED
      BY <2>1, <2>2
  <1>4. PICK k \in 1..(n + 1) :
          /\ r \in Seq(Event) /\ IsInserted(r, list, k, e)
          /\ \A i \in 1..n : i < k => ~(t <= d[list[i]])
          /\ k <= n => t <= d[list[k]]
    BY <1>3
  <1>5. InOrder(r, d)
    <2> SUFFICES ASSUME NEW i \in 1..Len(r), NEW j \in 1..Len(r), i < j PROVE d[r[i]] <= d[r[j]]
      BY DEF InOrder
    <2>1. /\ i \in 1..(n + 1) /\ j \in 1..(n + 1)
          /\ r[i] = IF i < k THEN list[i] ELSE IF i = k THEN e ELSE list[i - 1]
          /\ r[j] = IF j < k THEN list[j] ELSE IF j = k THEN e ELSE list[j - 1]
      BY <1>4, <1>a DEF IsInserted
    <2>2. \A a, b \in 1..n : a < b => d[list[a]] <= d[list[b]]
      BY <1>a DEF InOrder
    <2>3. CASE j < k
      BY <1>1, <1>4, <2>1, <2>2, <2>3, SMTT(30)
    <2>4. CASE j = k
      <3>1. i \in 1..n /\ r[i] = list[i] /\ r[j] = e
        BY <1>1, <1>4, <2>1, <2>4, SMTT(30)
      <3> QED
        BY <1>1, <1>4, <2>4, <3>1, SMTT(30)
    <2>5. CASE j > k
      <3>1. j - 1 \in 1..n /\ r[j] = list[j - 1] /\ d[list[j - 1]] \in Nat
        BY <1>1, <1>4, <2>1, <2>5, SMTT(30)
      <3>2. CASE i < k
        BY <1>1, <1>4, <2>1, <2>2, <2>5, <3>1, <3>2, SMTT(30)
      <3>3. CASE i = k
        <4>1. k \in 1..n /\ t <= d[list[k]] /\ d[list[k]] \in Nat
          BY <1>1, <1>4, <2>5, <3>1, SMTT(30)
        <4>2. d[list[k]] <= d[list[j - 1]]
          BY <1>1, <2>2, <2>5, <3>1, <4>1, SMTT(30)
        <4> QED
          BY <2>1, <3>1, <3>3, <4>1, <4>2, SMTT(30)
      <3>4. CASE i > k
        <4>1. i - 1 \in 1..n /\ r[i] = list[i - 1] /\ i - 1 < j - 1
          BY <1>1, <1>4, <2>1, <3>4, SMTT(30)
        <4> QED
          BY <2>2, <3>1, <4>1
      <3> QED
        BY <1>4, <2>1, <3>2, <3>3, <3>4, SMTT(30)
    <2> QED
      BY <1>4, <2>1, <2>3, <2>4, <2>5, SMTT(30)
  <1> QED
    BY <1>4, <1>5, <1>a

\* Without wrapping, the tick count is the time and an event expires when it is due.
LEMMA NoWrap ==
  ASSUME TicksFit, TmIInv
  PROVE  /\ 2^TickBits \in Nat /\ ticks = now /\ \A e \in Event : expire(e) = due[e]
         /\ \A d \in Delays : now + d < 2^TickBits /\ now + d \in Nat /\ d \in Nat
         /\ now \in 0..(2^TickBits - 1)
  <1>a. PICK W : W = 2^TickBits
    OBVIOUS
  <1>1. W \in Int /\ MaxNow \in Nat /\ \A d \in Delays \cup {0} : d \in Nat /\ MaxNow + d < W
    BY <1>a, TimerAssumption, SMTT(30) DEF TicksFit
  <1>2. W \in Nat \ {0} /\ MaxNow < W /\ now \in 0..MaxNow
    <2>1. MaxNow + 0 < W /\ now \in 0..MaxNow
      BY <1>1 DEF TmIInv, TmTypeOK
    <2> QED
      BY <1>1, <2>1, SMTT(30)
  <1>3. \A a \in 0..(W - 1) : a % W = a
    BY <1>2, SMTT(30)
  <1>4. \A e \in Event : tstart[e] + tdelay[e] = due[e] /\ due[e] \in 0..(W - 1)
    BY <1>2, <1>a, SMTT(30) DEF TmIInv
  <1>5. now \in 0..(W - 1)
    BY <1>1, <1>2, SMTT(30)
  <1> QED
    BY <1>1, <1>2, <1>3, <1>4, <1>5, <1>a, SMTT(30) DEF ticks, expire

\* The start, delay and time of one event e are set, to expire after d.
LEMMA StartSet ==
  ASSUME TicksFit, TmIInv, NEW e \in Event, NEW d \in Delays, SetStart(e, d)
  PROVE  /\ due' \in [Event -> Nat] /\ tdelay' \in [Event -> Nat] /\ tstart' \in [Event -> 0..(2^TickBits - 1)]
         /\ due'[e] = now + d /\ \A f \in Event : f # e => due'[f] = due[f]
         /\ \A f \in Event : tstart'[f] + tdelay'[f] = due'[f] /\ due'[f] < 2^TickBits
  <1>1. /\ 2^TickBits \in Nat /\ ticks = now /\ now + d < 2^TickBits /\ now + d \in Nat /\ d \in Nat
        /\ now \in 0..(2^TickBits - 1)
    BY NoWrap
  <1>2. /\ due \in [Event -> Nat] /\ tdelay \in [Event -> Nat] /\ tstart \in [Event -> 0..(2^TickBits - 1)]
        /\ \A f \in Event : tstart[f] + tdelay[f] = due[f] /\ due[f] < 2^TickBits
    BY DEF TmIInv, TmTypeOK
  <1>3. /\ tstart' = [tstart EXCEPT ![e] = now] /\ tdelay' = [tdelay EXCEPT ![e] = d]
        /\ due' = [due EXCEPT ![e] = now + d]
    BY <1>1 DEF SetStart
  <1>a. PICK W : W = 2^TickBits
    OBVIOUS
  <1> QED
    BY <1>1, <1>2, <1>3, <1>a

\* What an insertion keeps of a list without repetitions.
LEMMA InsertedOnce ==
  ASSUME NEW s, Len(s) \in Nat, NEW r, NEW e, NEW k \in 1..(Len(s) + 1), IsInserted(r, s, k, e), Once(s),
         \A i \in 1..Len(s) : s[i] # e
  PROVE  Once(r) /\ \A i \in 1..Len(r) : r[i] = e \/ \E j \in 1..Len(s) : r[i] = s[j]
  <1>1. \A i \in 1..Len(r) :
          \/ i < k /\ i \in 1..Len(s) /\ r[i] = s[i]
          \/ i = k /\ r[i] = e
          \/ i > k /\ i - 1 \in 1..Len(s) /\ r[i] = s[i - 1]
    BY SMTT(30) DEF IsInserted
  <1>2. ASSUME NEW i \in 1..Len(r), NEW j \in 1..Len(r), r[i] = r[j] PROVE i = j
    <2>1. k \in Nat /\ i \in Int /\ j \in Int
      BY SMTT(30) DEF IsInserted
    <2>2. CASE i = k \/ j = k
      BY <1>1, <1>2, <2>1, <2>2, SMTT(30)
    <2>3. CASE i # k /\ j # k
      <3>1. PICK a \in 1..Len(s) : r[i] = s[a] /\ a = IF i < k THEN i ELSE i - 1
        BY <1>1, <2>1, <2>3, SMTT(30)
      <3>2. PICK b \in 1..Len(s) : r[j] = s[b] /\ b = IF j < k THEN j ELSE j - 1
        BY <1>1, <2>1, <2>3, SMTT(30)
      <3>3. a = b
        BY <1>2, <3>1, <3>2 DEF Once
      <3> QED
        BY <2>1, <2>3, <3>1, <3>2, <3>3, SMTT(30)
    <2> QED
      BY <2>2, <2>3
  <1> QED
    BY <1>1, <1>2 DEF Once

\* What the list is after an insertion.
LEMMA ListGrows ==
  ASSUME TicksFit, TmIInv, NEW list \in Seq(Event), NEW e \in Event, NEW t \in Nat, NEW d \in [Event -> Nat],
         d[e] = t, \A f \in Event : f # e => d[f] = due[f], e # adding,
         Once(list), InOrder(list, due), \A i \in 1..Len(list) : list[i] \notin {e, adding}
  PROVE  /\ sorted_insert(list, e, t) \in Seq(Event)
         /\ Once(sorted_insert(list, e, t)) /\ InOrder(sorted_insert(list, e, t), d)
         /\ \A i \in 1..Len(sorted_insert(list, e, t)) : sorted_insert(list, e, t)[i] # adding
  <1>1. \A i \in 1..Len(list) : list[i] \in Event /\ list[i] # e /\ expire(list[i]) = d[list[i]]
    BY NoWrap, SMTT(30)
  <1>2. InOrder(list, d)
    BY <1>1 DEF InOrder
  <1>a. PICK r : r = sorted_insert(list, e, t)
    OBVIOUS
  <1>3. r \in Seq(Event) /\ InOrder(r, d) /\ \E k \in 1..(Len(list) + 1) : IsInserted(r, list, k, e)
    BY <1>1, <1>2, <1>a, SortedInsert
  <1>4. PICK k \in 1..(Len(list) + 1) : IsInserted(r, list, k, e)
    BY <1>3
  <1>5. Len(list) \in Nat
    BY SMTT(30)
  <1>6. Once(r) /\ \A i \in 1..Len(r) : r[i] = e \/ \E j \in 1..Len(list) : r[i] = list[j]
    BY <1>1, <1>4, <1>5, InsertedOnce, SMTT(30)
  <1> QED
    BY <1>3, <1>6, <1>a

\* The first event leaves the list.
LEMMA FirstLeaves ==
  ASSUME TmIInv, tlist # <<>>
  PROVE  /\ Head(tlist) \in Event /\ Head(tlist) # adding /\ Head(tlist) = tlist[1] /\ 1 \in 1..Len(tlist)
         /\ Tail(tlist) \in Seq(Event) /\ Once(Tail(tlist)) /\ InOrder(Tail(tlist), due)
         /\ \A i \in 1..Len(Tail(tlist)) : Tail(tlist)[i] \notin {Head(tlist), adding}
  <1>a. PICK s, n, r : s = tlist /\ n = Len(s) /\ r = Tail(s)
    OBVIOUS
  <1>1. s \in Seq(Event) /\ n \in Nat /\ n # 0
    BY <1>a, SMTT(30) DEF TmIInv, TmTypeOK
  <1>2. Head(s) = s[1] /\ s[1] \in Event /\ 1 \in 1..n
    BY <1>1, <1>a, SMTT(30)
  <1>3. r \in Seq(Event) /\ Len(r) = n - 1 /\ \A i \in 1..(n - 1) : r[i] = s[i + 1] /\ i + 1 \in 1..n
    BY <1>1, <1>a, SMTT(30)
  <1>4. /\ \A i, j \in 1..n : s[i] = s[j] => i = j
        /\ \A i, j \in 1..n : i < j => due[s[i]] <= due[s[j]]
        /\ \A i \in 1..n : s[i] # adding
    BY <1>a DEF TmIInv, Once, InOrder
  <1>5. ASSUME NEW i \in 1..(n - 1), NEW j \in 1..(n - 1)
        PROVE  /\ r[i] = r[j] => i = j
               /\ i < j => due[r[i]] <= due[r[j]]
    <2>1. i + 1 \in 1..n /\ j + 1 \in 1..n /\ (i < j => i + 1 < j + 1) /\ (i + 1 = j + 1 => i = j)
      BY <1>1, SMTT(30)
    <2> QED
      BY <1>3, <1>4, <2>1
  <1>6. ASSUME NEW i \in 1..(n - 1) PROVE r[i] # s[1] /\ r[i] # adding
    <2>1. i + 1 \in 1..n /\ i + 1 # 1
      BY <1>1, SMTT(30)
    <2> QED
      BY <1>2, <1>3, <1>4, <2>1
  <1> QED
    BY <1>1, <1>2, <1>3, <1>4, <1>5, <1>6, <1>a DEF Once, InOrder

\* An event is cancelled.
LEMMA Cancelled ==
  ASSUME TmIInv, NEW e, Contains(tlist, e)
  PROVE  /\ RemoveFirst(tlist, e) \in Seq(Event) /\ Once(RemoveFirst(tlist, e))
         /\ InOrder(RemoveFirst(tlist, e), due)
         /\ \A i \in 1..Len(RemoveFirst(tlist, e)) : RemoveFirst(tlist, e)[i] # adding
  <1>a. PICK s, n, I : s = tlist /\ n = Len(s) /\ I = {i \in 1..Len(s) : s[i] = e}
    OBVIOUS
  <1>1. s \in Seq(Event) /\ n \in Nat /\ I \subseteq 1..n /\ I # {}
    <2>1. s \in Seq(Event)
      BY <1>a DEF TmIInv, TmTypeOK
    <2>2. I # {}
      BY <1>a DEF Contains
    <2> QED
      BY <2>1, <2>2, <1>a, SMTT(30)
  <1>2. Min(I) \in I
    BY <1>1, MinOfSet, SMTT(30)
  <1>b. PICK k, r : k = Min(I) /\ r = RemoveAt(s, k)
    OBVIOUS
  <1>3. k \in 1..n
    BY <1>1, <1>2, <1>b
  <1>4. RemoveFirst(s, e) = r
    <2>1. SelectInSeq(s, LAMBDA v : v = e) = k
      BY <1>1, <1>a, <1>b DEF SelectInSeq
    <2>2. \E i \in 1..Len(s) : s[i] = e
      BY <1>1, <1>a
    <2> QED
      BY <2>1, <2>2, <1>b DEF RemoveFirst
  <1>5. r \in Seq(Event) /\ Len(r) = n - 1 /\ \A i \in 1..(n - 1) : r[i] = IF i < k THEN s[i] ELSE s[i + 1]
    <2>1. k \in 1..Len(s)
      BY <1>3, <1>a
    <2>2. /\ RemoveAt(s, k) \in Seq(Event) /\ Len(RemoveAt(s, k)) = Len(s) - 1
          /\ \A i \in 1..(Len(s) - 1) : RemoveAt(s, k)[i] = IF i < k THEN s[i] ELSE s[i + 1]
      BY <1>1, <2>1, TakenOut
    <2> QED
      BY <2>2, <1>a, <1>b
  <1>6. /\ \A i, j \in 1..n : s[i] = s[j] => i = j
        /\ \A i, j \in 1..n : i < j => due[s[i]] <= due[s[j]]
        /\ \A i \in 1..n : s[i] # adding
    BY <1>a DEF TmIInv, Once, InOrder
  <1>7. \A i \in 1..(n - 1) : \E a \in 1..n : r[i] = s[a] /\ a = IF i < k THEN i ELSE i + 1
    BY <1>1, <1>3, <1>5, SMTT(30)
  <1>8. ASSUME NEW i \in 1..(n - 1), NEW j \in 1..(n - 1)
        PROVE  (r[i] = r[j] => i = j) /\ (i < j => due[r[i]] <= due[r[j]]) /\ r[i] # adding
    <2>1. PICK a \in 1..n : r[i] = s[a] /\ a = IF i < k THEN i ELSE i + 1
      BY <1>7
    <2>2. PICK b \in 1..n : r[j] = s[b] /\ b = IF j < k THEN j ELSE j + 1
      BY <1>7
    <2>3. (a = b => i = j) /\ (i < j => a < b)
      BY <1>1, <1>3, <2>1, <2>2, SMTT(30)
    <2> QED
      BY <1>6, <2>1, <2>2, <2>3
  <1> QED
    BY <1>1, <1>4, <1>5, <1>8, <1>a DEF Once, InOrder

\* The list is another one, in order, and nothing else changes but who is added.
LEMMA ListStep ==
  ASSUME TmIInv, tlist' \in Seq(Event), Once(tlist'), InOrder(tlist', due),
         \A i \in 1..Len(tlist') : tlist'[i] # adding',
         adding' \in {adding, NoEvent}, in_irq' \in BOOLEAN, now' \in 0..MaxNow, UNCHANGED <<tstart, tdelay, due>>
  PROVE  TmIInv'
  BY DEF TmIInv, TmTypeOK, Once, InOrder

\* Every step keeps the invariant.
LEMMA TimerStep ==
  ASSUME TicksFit, TmIInv, [TmNext]_tmVars
  PROVE  TmIInv'
  <1> USE TimerAssumption
  <1>1. /\ now \in 0..MaxNow /\ tlist \in Seq(Event) /\ in_irq \in BOOLEAN
        /\ adding \in Event \cup {NoEvent} /\ due \in [Event -> Nat]
        /\ Once(tlist) /\ InOrder(tlist, due)
        /\ \A i \in 1..Len(tlist) : tlist[i] \in Event /\ tlist[i] # adding
    <2>1. /\ now \in 0..MaxNow /\ tlist \in Seq(Event) /\ in_irq \in BOOLEAN
          /\ adding \in Event \cup {NoEvent} /\ due \in [Event -> Nat]
      BY DEF TmIInv, TmTypeOK
    <2>2. /\ Once(tlist) /\ InOrder(tlist, due)
          /\ \A i \in 1..Len(tlist) : tlist[i] # adding
      BY DEF TmIInv
    <2>3. \A i \in 1..Len(tlist) : tlist[i] \in Event
      BY <2>1, SMTT(30)
    <2> QED
      BY <2>1, <2>2, <2>3
  <1>2. ASSUME NEW e \in Event, NEW d \in Delays, add_start(e, d) PROVE TmIInv'
    <2>1. /\ \A i \in 1..Len(tlist) : tlist[i] # e
          /\ SetStart(e, d) /\ adding' = e /\ UNCHANGED <<now, tlist, in_irq>>
      BY <1>2 DEF add_start, Contains
    <2>2. /\ due' \in [Event -> Nat] /\ tdelay' \in [Event -> Nat] /\ tstart' \in [Event -> 0..(2^TickBits - 1)]
          /\ \A f \in Event : f # e => due'[f] = due[f]
          /\ \A f \in Event : tstart'[f] + tdelay'[f] = due'[f] /\ due'[f] < 2^TickBits
      BY <2>1, StartSet
    <2>3. InOrder(tlist, due')
      BY <1>1, <2>1, <2>2 DEF InOrder
    <2> QED
      BY <1>1, <2>1, <2>2, <2>3 DEF TmIInv, TmTypeOK, Once, InOrder
  <1>3. CASE add_insert
    <2>a. PICK e, t : e = adding /\ t = due[e]
      OBVIOUS
    <2>1. /\ e \in Event /\ tlist' = sorted_insert(tlist, e, expire(e)) /\ adding' = NoEvent
          /\ UNCHANGED <<now, tstart, tdelay, due, in_irq>>
      BY <1>1, <1>3, <2>a DEF add_insert
    <2>2. expire(e) = t /\ t \in Nat
      BY <1>1, <2>1, <2>a, NoWrap
    <2>3. /\ sorted_insert(tlist, e, t) \in Seq(Event)
          /\ InOrder(sorted_insert(tlist, e, t), due)
          /\ \E k \in 1..(Len(tlist) + 1) : IsInserted(sorted_insert(tlist, e, t), tlist, k, e)
      <3>1. \A i \in 1..Len(tlist) : expire(tlist[i]) = due[tlist[i]]
        BY <1>1, NoWrap
      <3> QED
        BY <1>1, <2>1, <2>2, <2>a, <3>1, SortedInsert
    <2>4. Once(tlist') /\ \A i \in 1..Len(tlist') : tlist'[i] = e \/ \E j \in 1..Len(tlist) : tlist'[i] = tlist[j]
      <3>1. Len(tlist) \in Nat /\ \A i \in 1..Len(tlist) : tlist[i] # e
        BY <1>1, <2>a, SMTT(30)
      <3>2. PICK k \in 1..(Len(tlist) + 1) : IsInserted(tlist', tlist, k, e)
        BY <2>1, <2>2, <2>3
      <3>3. Once(tlist)
        BY <1>1
      <3> QED
        BY ONLY <3>1, <3>2, <3>3, InsertedOnce, SMTT(30)
    <2>5. \A i \in 1..Len(tlist') : tlist'[i] # adding'
      BY <1>1, <2>1, <2>4
    <2> QED
      BY <1>1, <2>1, <2>2, <2>3, <2>4, <2>5, ListStep
  <1>4. ASSUME NEW e \in Event, timer_cancel_event(e) PROVE TmIInv'
    <2>1. /\ Contains(tlist, e) /\ tlist' = RemoveFirst(tlist, e)
          /\ UNCHANGED <<now, tstart, tdelay, due, adding, in_irq>>
      BY <1>4 DEF timer_cancel_event
    <2>2. /\ tlist' \in Seq(Event) /\ Once(tlist') /\ InOrder(tlist', due)
          /\ \A i \in 1..Len(tlist') : tlist'[i] # adding
      BY <2>1, Cancelled
    <2>3. adding' = adding /\ in_irq' = in_irq /\ now' = now /\ UNCHANGED <<tstart, tdelay, due>>
      BY <2>1
    <2>4. adding' \in {adding, NoEvent} /\ in_irq' \in BOOLEAN /\ now' \in 0..MaxNow
      BY <1>1, <2>3
    <2> QED
      BY <2>2, <2>3, <2>4, ListStep
  <1>5. ASSUME NEW n \in 1..2, timer_inc_ticks(n) PROVE TmIInv'
    <2>1. now' \in 0..MaxNow /\ in_irq' = TRUE /\ UNCHANGED <<tlist, tstart, tdelay, due, adding>>
      BY <1>1, <1>5, SMTT(30) DEF timer_inc_ticks
    <2> QED
      BY <1>1, <2>1, ListStep
  <1>6. CASE expire_event
    <2>a. PICK e : e = Head(tlist)
      OBVIOUS
    <2>1. tlist # <<>> /\ UNCHANGED <<now, adding, in_irq>>
      BY <1>6 DEF expire_event, expired
    <2>2. /\ e \in Event /\ e # adding /\ Tail(tlist) \in Seq(Event) /\ Once(Tail(tlist)) /\ InOrder(Tail(tlist), due)
          /\ \A i \in 1..Len(Tail(tlist)) : Tail(tlist)[i] \notin {e, adding}
      BY <2>1, <2>a, FirstLeaves
    <2>3. CASE tlist' = Tail(tlist) /\ UNCHANGED <<tstart, tdelay, due>>
      BY <1>1, <2>1, <2>2, <2>3, ListStep
    <2>4. ASSUME NEW d \in Delays \ {0}, SetStart(e, d),
                 tlist' = sorted_insert(Tail(tlist), e, (ticks + d) % 2^TickBits)
          PROVE  TmIInv'
      <3>1. /\ due' \in [Event -> Nat] /\ tdelay' \in [Event -> Nat] /\ tstart' \in [Event -> 0..(2^TickBits - 1)]
            /\ due'[e] = now + d /\ \A f \in Event : f # e => due'[f] = due[f]
            /\ \A f \in Event : tstart'[f] + tdelay'[f] = due'[f] /\ due'[f] < 2^TickBits
        BY <2>2, <2>4, StartSet
      <3>2. (ticks + d) % 2^TickBits = now + d /\ now + d \in Nat
        <4>1. /\ 2^TickBits \in Nat /\ ticks = now /\ now + d < 2^TickBits /\ now + d \in Nat
          BY NoWrap
        <4>2. \A W \in Nat : \A a \in Nat : a < W => a % W = a
          BY SMTT(30)
        <4> QED
          BY <4>1, <4>2
      <3>3. /\ tlist' \in Seq(Event) /\ Once(tlist') /\ InOrder(tlist', due')
            /\ \A i \in 1..Len(tlist') : tlist'[i] # adding
        <4>a. PICK list, t, v : list = Tail(tlist) /\ t = now + d /\ v = due'
          OBVIOUS
        <4>1. /\ list \in Seq(Event) /\ t \in Nat /\ v \in [Event -> Nat] /\ v[e] = t
              /\ \A f \in Event : f # e => v[f] = due[f]
              /\ Once(list) /\ InOrder(list, due) /\ \A i \in 1..Len(list) : list[i] \notin {e, adding}
          BY <2>2, <3>1, <3>2, <4>a
        <4>2. /\ sorted_insert(list, e, t) \in Seq(Event)
              /\ Once(sorted_insert(list, e, t)) /\ InOrder(sorted_insert(list, e, t), v)
              /\ \A i \in 1..Len(sorted_insert(list, e, t)) : sorted_insert(list, e, t)[i] # adding
          BY <2>2, <4>1, ListGrows
        <4>3. tlist' = sorted_insert(list, e, t)
          BY <2>4, <3>2, <4>a
        <4> QED
          BY <4>2, <4>3, <4>a
      <3> QED
        BY <1>1, <2>1, <3>1, <3>3 DEF TmIInv, TmTypeOK, Once, InOrder
    <2> QED
      BY <1>6, <2>3, <2>4, <2>a DEF expire_event
  <1>7. CASE inc_end
    <2>1. in_irq' = FALSE /\ UNCHANGED <<now, tlist, tstart, tdelay, due, adding>>
      BY <1>7 DEF inc_end
    <2> QED
      BY <1>1, <2>1, ListStep
  <1>8. CASE UNCHANGED tmVars
    BY <1>1, <1>8, ListStep DEF tmVars
  <1> QED
    BY <1>2, <1>3, <1>4, <1>5, <1>6, <1>7, <1>8 DEF TmNext

\* The invariant holds of an empty list.
LEMMA TimerStart ==
  ASSUME TicksFit, TmInit
  PROVE  TmIInv
  <1>a. PICK W : W = 2^TickBits
    OBVIOUS
  <1>1. W \in Int /\ MaxNow \in Nat /\ MaxNow + 0 < W
    BY <1>a, TimerAssumption, SMTT(30) DEF TicksFit
  <1>2. 0 \in 0..(W - 1) /\ 0 < W
    BY <1>1, SMTT(30)
  <1>3. /\ now = 0 /\ tlist = <<>> /\ adding = NoEvent /\ in_irq = FALSE /\ Len(tlist) = 0
        /\ tstart = [e \in Event |-> 0] /\ tdelay = [e \in Event |-> 0] /\ due = [e \in Event |-> 0]
    BY DEF TmInit
  <1>4. TmTypeOK
    <2>1. tstart \in [Event -> 0..(W - 1)]
      BY <1>2, <1>3
    <2>2. now \in 0..MaxNow
      BY <1>1, <1>3, SMTT(30)
    <2>3. <<>> \in Seq(Event)
      BY SMTT(30)
    <2> QED
      BY <1>3, <1>a, <2>1, <2>2, <2>3 DEF TmTypeOK
  <1> QED
    BY <1>2, <1>3, <1>4, <1>a, SMTT(30) DEF TmIInv, Once, InOrder

\* The invariant holds of every run.
LEMMA TimerInductive ==
  ASSUME TicksFit
  PROVE  TmSpec => []TmIInv
  <1>1. TmInit => TmIInv
    BY TimerStart
  <1>2. TmIInv /\ [TmNext]_tmVars => TmIInv'
    BY TimerStep
  <1> QED
    BY <1>1, <1>2, PTL DEF TmSpec

\* "The timers are sorted by expire time" (timer.c:107) at every moment, for any
\* number of events, whatever interrupts come between reading the tick count and
\* inserting an event, as long as the tick count does not wrap.
THEOREM TimerSafe ==
  ASSUME TicksFit
  PROVE  TmSpec => []TimerInv
  <1>1. TmIInv => TimerInv
    <2> SUFFICES ASSUME TmIInv PROVE TimerSorted
      BY DEF TmIInv, TimerInv
    <2>1. tlist \in Seq(Event) /\ InOrder(tlist, due)
      BY DEF TmIInv, TmTypeOK
    <2> QED
      BY <2>1, SMTT(30) DEF TimerSorted, InOrder
  <1> QED
    BY <1>1, TimerInductive, PTL

\* A callback is called neither before its delay has gone by, nor left for
\* another tick when the handler returns (timer.c:108-116).
THEOREM TimerOnTime ==
  ASSUME TicksFit
  PROVE  TmSpec => OnTime
  <1>1. ASSUME TmIInv, TmNext, in_irq, in_irq', tlist' # tlist PROVE due[Head(tlist)] <= now
    <2>1. expire_event
      BY <1>1 DEF TmNext, add_start, timer_cancel_event, add_insert, timer_inc_ticks, inc_end
    <2>2. tlist # <<>> /\ expire(Head(tlist)) <= ticks
      BY <2>1 DEF expire_event, expired
    <2>3. Head(tlist) \in Event
      BY <1>1, <2>2, FirstLeaves
    <2> QED
      BY <1>1, <2>2, <2>3, NoWrap
  <1>2. ASSUME TmIInv, TmNext, in_irq, ~in_irq', NEW i \in DOMAIN tlist PROVE due[tlist[i]] > now
    <2>1. inc_end
      BY <1>2 DEF TmNext, add_start, timer_cancel_event, add_insert, timer_inc_ticks, expire_event
    <2>2. /\ tlist \in Seq(Event) /\ tlist # <<>> /\ DOMAIN tlist = 1..Len(tlist)
          /\ due \in [Event -> Nat] /\ InOrder(tlist, due) /\ now \in Nat
      BY <1>2, SMTT(30) DEF TmIInv, TmTypeOK
    <2>3. Head(tlist) = tlist[1] /\ tlist[1] \in Event /\ 1 \in 1..Len(tlist)
      BY <1>2, <2>2, FirstLeaves
    <2>4. ~(due[tlist[1]] <= now)
      BY <1>2, <2>1, <2>2, <2>3, NoWrap DEF inc_end, expired
    <2>5. due[tlist[1]] <= due[tlist[i]] /\ due[tlist[i]] \in Nat /\ due[tlist[1]] \in Nat
      <3>1. due[tlist[i]] \in Nat /\ due[tlist[1]] \in Nat
        BY <1>2, <2>2, <2>3, SMTT(30)
      <3>2. i \in 1..Len(tlist) /\ (i = 1 \/ 1 < i)
        BY <1>2, <2>2, SMTT(30)
      <3> QED
        BY <2>2, <2>3, <3>1, <3>2, SMTT(30) DEF InOrder
    <2> QED
      BY <2>2, <2>4, <2>5, SMTT(30)
  <1>3. TmIInv /\ [TmNext]_tmVars => [in_irq /\ in_irq' /\ tlist' # tlist => due[Head(tlist)] <= now]_tmVars
    BY <1>1 DEF tmVars
  <1>4. TmIInv /\ [TmNext]_tmVars => [in_irq /\ ~in_irq' => \A i \in DOMAIN tlist : due[tlist[i]] > now]_tmVars
    BY <1>2 DEF tmVars
  <1> QED
    BY <1>3, <1>4, TimerInductive, PTL DEF TmSpec, OnTime, NeverEarly, NotLate
=============================================================================
