------------------------------ MODULE RecvProofs ------------------------------
(***************************************************************************)
(* RecvInv holds for any number of contexts that receive from a socket     *)
(* with any timeouts, as long as ticks and units do not overflow: the      *)
(* receivers, the packets, the timeout events and the shutdown agree with  *)
(* each other through the semaphore and the timer.                         *)
(***************************************************************************)
EXTENDS ServiceProofs

\* Zenon proves what names no other prover, within 20 seconds
USE ZenonT(20)

-----------------------------------------------------------------------------
(* Receiving from a socket.                                                *)

\* timeouts are delays the tick count can hold, and the units that packets and
\* timeouts give, one a packet and one a call at most, fit in the count
RecvFits ==
  /\ TicksFit /\ Timeout \subseteq Delays
  /\ 1 \in Takes /\ 0 <= InitCount /\ InitCount + MaxRecv + MaxSignals < CountHalf

Call == [pc : {"idle", "again", "take", "taken"}, flag : {"wait", "peek", "dontwait"},
         since : Nat, started : BOOLEAN]

SkTypes ==
  /\ users \subseteq Ctx /\ recv_timeout \in Timeout /\ call \in [Ctx -> Call]
  /\ calls \in 0..MaxRecv /\ signals \in 0..MaxSignals /\ recv_q \in 0..signals
  /\ left \in {"none", "packet", "EAGAIN", "ESHUTDOWN"} /\ sig \in {"idle", "give"}
  /\ shut \in {"open", "clear", "wake", "shut"} /\ peeked \in BOOLEAN

\* Only users call; who does not run is in semaphore_take.
Callers ==
  /\ \A x \in Ctx : status[x] # "running" => call[x].pc = "taken"
  /\ \A x \in Ctx : call[x].pc # "idle" => x \in users
  /\ \A x \in Ctx : call[x].pc = "idle" => ~call[x].started
  /\ \A x \in Ctx : call[x].flag = "peek" => peeked
  /\ \A x \in Ctx : call[x].since <= now

\* Takers of one unit leave no units to each other.
CountInv == 0 <= sem_count /\ (sem_wait # <<>> => sem_count = 0)

\* who may still start a timeout
Unstarted == {x \in Ctx : call[x].pc # "idle" /\ ~call[x].started}

\* the packet that was queued is yet to be told of
Told == IF sig = "give" THEN 1 ELSE 0

\* A call gives a unit at most, as does a packet.
UnitsBound ==
  sem_count + Told + Len(tlist) + Cardinality(Unstarted) <= InitCount + calls + signals

\* An event is of a receiver that has started it, and expires in time.
EventOf(x) ==
  /\ Contains(tlist, x) => call[x].started /\ due[x] >= call[x].since + recv_timeout
  /\ call[x].started => recv_timeout # 0 /\ (Contains(tlist, x) \/ now >= call[x].since + recv_timeout)
EventsInv == left = "none" => \A x \in Ctx : EventOf(x)

\* A receiver without others finds a unit if its event has expired.
PendingOf(x) ==
  /\ Blocked(x) => Contains(tlist, x)
  /\ left = "none" /\ call[x].pc = "take" => call[x].started
  /\ left = "none" /\ call[x].pc \in {"again", "take"} /\ call[x].started =>
       Contains(tlist, x) \/ sem_count >= 1
PendingInv == recv_timeout # 0 /\ Cardinality(users) = 1 => \A x \in users : PendingOf(x)

\* who looks at the queue, or will because of a unit
Lookers == {x \in Ctx : ~Blocked(x) /\ call[x].pc \in {"taken", "again"}}

\* For every packet there is a unit, or somebody who took it.
PacketsSeen ==
  recv_timeout = 0 /\ ~peeked /\ shut = "open" =>
    recv_q <= sem_count + Told + Cardinality(Lookers)

RecvSem == SemTypes /\ SemWaiters /\ CountInv
RecvTimer == TmIInv /\ adding = NoEvent /\ (in_irq => left = "none")
RecvIInv ==
  /\ RecvSem /\ RecvTimer /\ SkTypes /\ Callers /\ left # "packet"
  /\ UnitsBound /\ EventsInv /\ PendingInv /\ PacketsSeen

\* A context takes a unit, or waits for one.
LEMMA TakeOne ==
  ASSUME RecvSem, NEW x \in Ctx, semaphore_take(x, 1), 1 \in Takes
  PROVE  /\ RecvSem'
         /\ \/ /\ sem_count = 0 /\ sem_count' = 0
               /\ status' = [status EXCEPT ![x] = "blocked"]
            \/ /\ sem_count >= 1 /\ sem_count' = sem_count - 1 /\ status' = status
  <1>1. /\ SemTypes' /\ SemWaiters'
        /\ \/ /\ Wrap(sem_count - 1) < 0 /\ sem_count' = Wrap(Wrap(sem_count - 1) + 1)
           \/ /\ Wrap(sem_count - 1) >= 0 /\ sem_count' = Wrap(sem_count - 1) /\ sem_wait' = sem_wait
    BY TakeStep DEF RecvSem
  <1>2. /\ sem_count \in (-CountHalf)..(CountHalf - 1) /\ CountHalf \in Nat \ {0} /\ sem_count \in Int
        /\ 0 <= sem_count /\ (sem_wait # <<>> => sem_count = 0)
    BY SemaphoreAssumption, SMTT(30) DEF RecvSem, SemTypes, CountInv
  <1>3. /\ sem_count - 1 \in (-CountHalf)..(CountHalf - 1) /\ sem_count - 1 \in Int
        /\ sem_count - 1 + 1 = sem_count
    BY <1>2, SMTT(30)
  <1>4. Wrap(sem_count - 1) = sem_count - 1 /\ Wrap(sem_count) = sem_count
    BY <1>2, <1>3, Stored
  <1>5. CASE sem_count = 0
    <2>1. sem_count' = 0
      BY <1>1, <1>2, <1>3, <1>4, <1>5, SMTT(30)
    <2>2. Wrap(sem_count - 1) < 0
      BY <1>4, <1>5, SMTT(30)
    <2>3. status' = [status EXCEPT ![x] = "blocked"]
      BY <2>2 DEF semaphore_take, Wait
    <2> QED
      BY <1>1, <1>5, <2>1, <2>3 DEF RecvSem, CountInv
  <1>6. CASE sem_count # 0
    <2>1. ~(Wrap(sem_count - 1) < 0) /\ sem_count >= 1
      BY <1>2, <1>4, <1>6, SMTT(30)
    <2>2. sem_count' = sem_count - 1 /\ sem_wait' = sem_wait
      BY <1>1, <1>4, <2>1
    <2>3. status' = status
      BY <2>1 DEF semaphore_take, wqVars
    <2>4. sem_wait' = <<>>
      BY <1>2, <1>6, <2>2
    <2>5. sem_count' >= 0
      BY <1>2, <2>1, <2>2, SMTT(30)
    <2> QED
      BY <1>1, <2>1, <2>2, <2>3, <2>4, <2>5 DEF RecvSem, CountInv
  <1> QED
    BY <1>5, <1>6

\* A unit is given: the oldest waiter gets it, or it is counted.
LEMMA GiveOne ==
  ASSUME RecvSem, GiveUnits(1), asked' = asked, sem_count + 1 < CountHalf
  PROVE  /\ RecvSem' /\ sem_count' >= 0 /\ sem_count' <= sem_count + 1
         /\ \/ /\ sem_wait = <<>> /\ sem_count' = sem_count + 1
               /\ \A x \in Ctx : status'[x] = status[x] /\ status[x] # "blocked"
            \/ /\ sem_wait # <<>> /\ sem_count' = sem_count
               /\ \E w \in Ctx : /\ status[w] = "blocked" /\ w = sem_wait[1]
                                 /\ status' = [status EXCEPT ![w] = "ready"]
  <1>1. /\ sem_count \in (-CountHalf)..(CountHalf - 1) /\ CountHalf \in Nat \ {0} /\ sem_count \in Int
        /\ 0 <= sem_count /\ (sem_wait # <<>> => sem_count = 0)
        /\ status \in [Ctx -> {"ready", "running", "blocked"}]
    BY SemaphoreAssumption, SMTT(30) DEF RecvSem, SemTypes, CountInv
  <1>2. /\ sem_wait \in Seq(Ctx) /\ Len(sem_wait) \in Nat /\ \A i \in 1..Len(sem_wait) : sem_wait[i] \in Ctx
    BY SemQueue DEF RecvSem
  <1>3. Wrap(sem_count + 1) = sem_count + 1 /\ sem_count + 1 \in Int /\ sem_count + 1 >= 1
    <2>1. sem_count + 1 \in (-CountHalf)..(CountHalf - 1) /\ sem_count + 1 \in Int
      BY <1>1, SMTT(30)
    <2> QED
      BY <1>1, <2>1, Stored, SMTT(30)
  <1>4. PICK c, k : c = Wrap(sem_count + 1) /\ k = Min({Max({c, 0}), Len(sem_wait)})
    OBVIOUS
  <1>5. k \in 0..Len(sem_wait) /\ k = (IF sem_count + 1 <= 0 THEN 0 ELSE IF sem_count + 1 <= Len(sem_wait) THEN sem_count + 1 ELSE Len(sem_wait))
    BY <1>2, <1>3, <1>4, WakeCount
  <1>6. WakeMany("sem", k) /\ sem_count' = sem_count + 1 - k /\ avail' = avail + 1 - AskedBy(k)
    <2>1. WakeMany("sem", k) /\ sem_count' = c - k /\ avail' = avail + 1 - AskedBy(k)
      BY <1>4 DEF GiveUnits
    <2>2. c = sem_count + 1
      BY <1>3, <1>4
    <2>3. sem_count' = sem_count + 1 - k
      BY <1>1, <1>2, <1>5, <2>1, <2>2, SMTT(30)
    <2> QED
      BY <2>1, <2>3
  <1>7. /\ status' \in [Ctx -> {"ready", "running", "blocked"}] /\ waitq' \in [Queue -> Seq(Ctx)]
        /\ SemWaiters' /\ AskedBy(k) \in Nat /\ Len(sem_wait') = Len(sem_wait) - k
    BY <1>5, <1>6, SemWakes DEF RecvSem
  <1>8. status' = [x \in Ctx |-> IF \E i \in 1..k : sem_wait[i] = x THEN "ready" ELSE status[x]]
    BY <1>6 DEF WakeMany, sem_wait
  <1>9. avail' \in Int /\ asked' \in [Ctx -> Takes \cup {0}]
    <2>1. avail \in Int /\ asked \in [Ctx -> Takes \cup {0}]
      BY DEF RecvSem, SemTypes
    <2> QED
      BY <2>1, <1>6, <1>7, SMTT(30)
  <1>10. CASE sem_wait = <<>>
    <2>1. Len(sem_wait) = 0
      BY <1>10
    <2>2. k = 0 /\ sem_count' = sem_count + 1
      BY <1>1, <1>5, <1>6, <2>1, SMTT(30)
    <2>3. sem_count' \in (-CountHalf)..(CountHalf - 1) /\ sem_count' >= 0
      BY <1>1, <2>2, SMTT(30)
    <2>4. SemTypes'
      BY <1>7, <1>9, <2>3 DEF SemTypes
    <2>5. Len(sem_wait') = 0
      BY <1>7, <2>1, <2>2, SMTT(30)
    <2>6. sem_wait' \in Seq(Ctx)
      BY <1>7, SemaphoreAssumption DEF sem_wait
    <2>7. sem_wait' = <<>>
      BY <2>5, <2>6, SMTT(30)
    <2>8. \A x \in Ctx : status'[x] = status[x]
      BY <1>8, <2>2, SMTT(30)
    <2>9. \A x \in Ctx : status[x] # "blocked"
      BY <2>1, SMTT(30) DEF RecvSem, SemWaiters, Waiting, Oldest
    <2> QED
      BY <1>7, <1>10, <2>2, <2>3, <2>4, <2>7, <2>8, <2>9, SMTT(30) DEF RecvSem, CountInv
  <1>11. CASE sem_wait # <<>>
    <2>1. Len(sem_wait) >= 1 /\ sem_count = 0
      BY <1>1, <1>2, <1>11, SMTT(30)
    <2>2. k = 1 /\ sem_count' = 0
      BY <1>5, <1>6, <2>1, SMTT(30)
    <2>3. PICK w \in Ctx : w = sem_wait[1]
      BY <1>2, <2>1, SMTT(30)
    <2>4. status[w] = "blocked"
      BY <1>2, <2>1, <2>3, SMTT(30) DEF RecvSem, SemWaiters, Waiting, Oldest
    <2>5. \A x \in Ctx : (\E i \in 1..k : sem_wait[i] = x) <=> x = w
      BY <2>2, <2>3, SMTT(30)
    <2>6. status' = [status EXCEPT ![w] = "ready"]
      BY <1>1, <1>8, <2>5
    <2>7. SemTypes'
      BY <1>1, <1>7, <1>9, <2>1, <2>2 DEF SemTypes
    <2>8. RecvSem'
      BY <1>7, <2>2, <2>7, SMTT(30) DEF RecvSem, CountInv
    <2>9. sem_count' >= 0 /\ sem_count' <= sem_count + 1 /\ sem_count' = sem_count
      BY <2>1, <2>2, SMTT(30)
    <2> QED
      BY <1>11, <2>3, <2>4, <2>6, <2>8, <2>9
  <1> QED
    BY <1>10, <1>11

\* Who is in a list that one was inserted in.
LEMMA InsertedHas ==
  ASSUME NEW s, Len(s) \in Nat, NEW r, NEW e, NEW k \in 1..(Len(s) + 1), IsInserted(r, s, k, e)
  PROVE  \A x : Contains(r, x) <=> x = e \/ Contains(s, x)
  <1>1. Len(r) = Len(s) + 1 /\ k \in 1..Len(r) /\ r[k] = e
    BY SMTT(30) DEF IsInserted
  <1>2. \A i \in 1..Len(r) :
          \/ i < k /\ i \in 1..Len(s) /\ r[i] = s[i]
          \/ i = k /\ r[i] = e
          \/ i > k /\ i - 1 \in 1..Len(s) /\ r[i] = s[i - 1]
    BY SMTT(30) DEF IsInserted
  <1>3. \A j \in 1..Len(s) : IF j < k THEN j \in 1..Len(r) /\ r[j] = s[j] ELSE j + 1 \in 1..Len(r) /\ r[j + 1] = s[j]
    <2> SUFFICES ASSUME NEW j \in 1..Len(s)
                 PROVE  IF j < k THEN j \in 1..Len(r) /\ r[j] = s[j] ELSE j + 1 \in 1..Len(r) /\ r[j + 1] = s[j]
      OBVIOUS
    <2>1. CASE j < k
      BY <1>1, <2>1, SMTT(30) DEF IsInserted
    <2>2. CASE ~(j < k)
      <3>1. j + 1 \in 1..Len(r) /\ ~(j + 1 < k) /\ j + 1 # k /\ (j + 1) - 1 = j
        BY <1>1, <2>2, SMTT(30)
      <3> QED
        BY <2>2, <3>1, SMTT(30) DEF IsInserted
    <2> QED
      BY <2>1, <2>2
  <1>4. ASSUME NEW x, Contains(r, x) PROVE x = e \/ Contains(s, x)
    BY <1>2, <1>4 DEF Contains
  <1>5. ASSUME NEW x, Contains(s, x) PROVE Contains(r, x)
    BY <1>3, <1>5 DEF Contains
  <1>6. Contains(r, e)
    BY <1>1 DEF Contains
  <1> QED
    BY <1>4, <1>5, <1>6

\* Who is in a list that one was taken out of.
LEMMA OutHas ==
  ASSUME NEW s, Len(s) \in Nat, Once(s), NEW r, NEW k \in 1..Len(s), Len(r) = Len(s) - 1,
         \A i \in 1..(Len(s) - 1) : r[i] = IF i < k THEN s[i] ELSE s[i + 1]
  PROVE  \A x : Contains(r, x) <=> x # s[k] /\ Contains(s, x)
  <1>1. \A i \in 1..Len(r) : \E j \in 1..Len(s) : j # k /\ r[i] = s[j]
    <2> SUFFICES ASSUME NEW i \in 1..Len(r) PROVE \E j \in 1..Len(s) : j # k /\ r[i] = s[j]
      OBVIOUS
    <2>1. CASE i < k
      BY <2>1, SMTT(30)
    <2>2. CASE ~(i < k)
      <3>1. i + 1 \in 1..Len(s) /\ i + 1 # k /\ r[i] = s[i + 1]
        BY <2>2, SMTT(30)
      <3> QED
        BY <3>1
    <2> QED
      BY <2>1, <2>2
  <1>2. \A j \in 1..Len(s) : j # k => \E i \in 1..Len(r) : r[i] = s[j]
    <2> SUFFICES ASSUME NEW j \in 1..Len(s), j # k PROVE \E i \in 1..Len(r) : r[i] = s[j]
      OBVIOUS
    <2>1. CASE j < k
      BY <2>1, SMTT(30)
    <2>2. CASE ~(j < k)
      <3>1. j - 1 \in 1..Len(r) /\ ~(j - 1 < k) /\ (j - 1) + 1 = j
        BY <2>2, SMTT(30)
      <3> QED
        BY <3>1
    <2> QED
      BY <2>1, <2>2
  <1>3. \A j \in 1..Len(s) : j # k => s[j] # s[k]
    BY DEF Once
  <1>4. ASSUME NEW x, Contains(r, x) PROVE x # s[k] /\ Contains(s, x)
    BY <1>1, <1>3, <1>4 DEF Contains
  <1>5. ASSUME NEW x, Contains(s, x), x # s[k] PROVE Contains(r, x)
    BY <1>2, <1>5 DEF Contains
  <1> QED
    BY <1>4, <1>5

\* An event is cancelled and no longer in the list.
LEMMA CancelHas ==
  ASSUME TmIInv, NEW e, Contains(tlist, e)
  PROVE  /\ Len(RemoveFirst(tlist, e)) = Len(tlist) - 1
         /\ \A x : Contains(RemoveFirst(tlist, e), x) <=> x # e /\ Contains(tlist, x)
  <1>a. PICK s, n, I : s = tlist /\ n = Len(s) /\ I = {i \in 1..Len(s) : s[i] = e}
    OBVIOUS
  <1>1. s \in Seq(Event) /\ n \in Nat /\ I \subseteq 1..n /\ I # {} /\ Once(s)
    <2>1. s \in Seq(Event) /\ Once(s)
      BY <1>a DEF TmIInv, TmTypeOK
    <2>2. I # {}
      BY <1>a DEF Contains
    <2> QED
      BY <2>1, <2>2, <1>a, SMTT(30)
  <1>2. Min(I) \in I
    <2>1. I \in SUBSET Nat
      BY <1>1, SMTT(30)
    <2> QED
      BY <1>1, <2>1, MinOfSet
  <1>3. RemoveFirst(s, e) = RemoveAt(s, Min(I))
    <2>1. \E i \in 1..Len(s) : s[i] = e
      BY <1>1, <1>a
    <2>2. SelectInSeq(s, LAMBDA v : v = e) = Min(I)
      BY <1>1, <1>a DEF SelectInSeq
    <2> QED
      BY <2>1, <2>2 DEF RemoveFirst
  <1>4. PICK k : k = Min(I)
    OBVIOUS
  <1>5. k \in 1..Len(s) /\ s[k] = e
    BY <1>1, <1>2, <1>4, <1>a
  <1>6. /\ Len(RemoveAt(s, k)) = Len(s) - 1
        /\ \A i \in 1..(Len(s) - 1) : RemoveAt(s, k)[i] = IF i < k THEN s[i] ELSE s[i + 1]
    BY <1>1, <1>5, TakenOut
  <1>7. PICK r : r = RemoveAt(s, k)
    OBVIOUS
  <1>8. \A x : Contains(r, x) <=> x # s[k] /\ Contains(s, x)
    <2>1. Len(r) = Len(s) - 1 /\ Len(s) \in Nat /\ \A i \in 1..(Len(s) - 1) : r[i] = IF i < k THEN s[i] ELSE s[i + 1]
      BY <1>1, <1>6, <1>7, <1>a
    <2> QED
      BY <1>1, <1>5, <2>1, OutHas
  <1> QED
    BY <1>3, <1>4, <1>5, <1>6, <1>7, <1>8, <1>a

\* The first event leaves the list.
LEMMA FirstHas ==
  ASSUME TmIInv, tlist # <<>>
  PROVE  /\ Len(tlist) >= 1 /\ Len(tlist) \in Nat /\ Len(Tail(tlist)) = Len(tlist) - 1
         /\ Contains(tlist, Head(tlist))
         /\ \A x : Contains(Tail(tlist), x) <=> x # Head(tlist) /\ Contains(tlist, x)
  <1>a. PICK s, r : s = tlist /\ r = Tail(s)
    OBVIOUS
  <1>1. s \in Seq(Event) /\ Len(s) \in Nat /\ Len(s) >= 1 /\ Once(s) /\ Head(s) = s[1] /\ 1 \in 1..Len(s)
    <2>1. s \in Seq(Event) /\ Once(s) /\ s # <<>>
      BY <1>a DEF TmIInv, TmTypeOK
    <2> QED
      BY <2>1, SMTT(30)
  <1>2. Len(r) = Len(s) - 1 /\ \A i \in 1..(Len(s) - 1) : r[i] = IF i < 1 THEN s[i] ELSE s[i + 1]
    <2>1. Len(r) = Len(s) - 1 /\ \A i \in 1..(Len(s) - 1) : r[i] = s[i + 1]
      BY <1>1, <1>a, SMTT(30)
    <2> QED
      BY <1>1, <2>1, SMTT(30)
  <1>3. \A x : Contains(r, x) <=> x # s[1] /\ Contains(s, x)
    BY <1>1, <1>2, OutHas
  <1>4. Contains(s, s[1])
    BY <1>1 DEF Contains
  <1> QED
    BY <1>1, <1>2, <1>3, <1>4, <1>a

\* A set that differs from another in one member at most.
LEMMA OneDiffers ==
  ASSUME NEW S, NEW T, S \subseteq Ctx, T \subseteq Ctx, NEW x \in Ctx,
         \A y \in Ctx : y # x => (y \in S <=> y \in T)
  PROVE  /\ Cardinality(S) \in Nat /\ Cardinality(T) \in Nat
         /\ (x \in S <=> x \in T) => Cardinality(T) = Cardinality(S)
         /\ x \notin S /\ x \in T => Cardinality(T) = Cardinality(S) + 1
         /\ x \in S /\ x \notin T => Cardinality(T) = Cardinality(S) - 1
  <1>1. IsFiniteSet(S) /\ IsFiniteSet(T)
    BY SemaphoreAssumption, FS_Subset
  <1>2. Cardinality(S) \in Nat /\ Cardinality(T) \in Nat
    BY <1>1, FS_CardinalityType
  <1>3. (x \in S <=> x \in T) => T = S
    <2> SUFFICES ASSUME x \in S <=> x \in T PROVE T = S
      OBVIOUS
    <2>1. \A y : y \in S <=> y \in T
      OBVIOUS
    <2> QED
      BY <2>1
  <1>4. CASE x \notin S /\ x \in T
    <2>1. T = S \cup {x}
      BY <1>4
    <2> QED
      BY <1>1, <1>2, <1>4, <2>1, FS_AddElement
  <1>5. CASE x \in S /\ x \notin T
    <2>1. T = S \ {x}
      BY <1>5
    <2> QED
      BY <1>1, <1>2, <1>5, <2>1, FS_RemoveElement
  <1> QED
    BY <1>2, <1>3, <1>4, <1>5

\* There is one user if there is only one.
LEMMA OnlyUser ==
  ASSUME users \subseteq Ctx, Cardinality(users) = 1, NEW x \in users, NEW y \in users
  PROVE  x = y
  <1>1. IsFiniteSet(users)
    BY SemaphoreAssumption, FS_Subset
  <1>2. \E z : users = {z}
    BY <1>1, FS_Singleton
  <1> QED
    BY <1>2, SMTT(30)

\* What the invariant says of the numbers.
LEMMA RecvFacts ==
  ASSUME RecvFits, RecvIInv
  PROVE  /\ call \in [Ctx -> Call] /\ status \in [Ctx -> {"ready", "running", "blocked"}]
         /\ tlist \in Seq(Ctx) /\ Len(tlist) \in Nat /\ due \in [Ctx -> Nat] /\ now \in Nat
         /\ sem_count \in Nat /\ Told \in Nat
         /\ Cardinality(Unstarted) \in Nat /\ Cardinality(Lookers) \in Nat
         /\ recv_timeout \in Nat /\ calls \in Nat /\ signals \in Nat /\ recv_q \in Nat
         /\ InitCount \in Nat /\ CountHalf \in Nat
         /\ sem_count + Told + Len(tlist) < CountHalf
  <1>1. /\ call \in [Ctx -> Call] /\ status \in [Ctx -> {"ready", "running", "blocked"}]
        /\ calls \in 0..MaxRecv /\ signals \in 0..MaxSignals /\ recv_q \in 0..signals /\ MaxRecv \in Nat /\ MaxSignals \in Nat
        /\ recv_timeout \in Nat /\ Told \in Nat
    BY SocketAssumption DEF RecvIInv, RecvSem, SemTypes, SkTypes, Told
  <1>2. tlist \in Seq(Ctx) /\ Len(tlist) \in Nat /\ due \in [Ctx -> Nat] /\ now \in Nat
    BY SocketAssumption, TimerAssumption, SMTT(30) DEF RecvIInv, RecvTimer, TmIInv, TmTypeOK
  <1>3. sem_count \in Nat /\ CountHalf \in Nat /\ InitCount \in Nat
    BY SemaphoreAssumption, SMTT(30) DEF RecvIInv, RecvSem, SemTypes, CountInv, RecvFits
  <1>4. IsFiniteSet(Unstarted) /\ IsFiniteSet(Lookers)
    BY SemaphoreAssumption, FS_Subset DEF Unstarted, Lookers
  <1>5. Cardinality(Unstarted) \in Nat /\ Cardinality(Lookers) \in Nat
    BY <1>4, FS_CardinalityType
  <1>6. sem_count + Told + Len(tlist) < CountHalf
    <2>1. /\ sem_count + Told + Len(tlist) + Cardinality(Unstarted) <= InitCount + calls + signals
          /\ InitCount + MaxRecv + MaxSignals < CountHalf
      BY DEF RecvIInv, UnitsBound, RecvFits
    <2> QED
      BY <1>1, <1>2, <1>3, <1>5, <2>1, SMTT(30)
  <1> QED
    BY <1>1, <1>2, <1>3, <1>5, <1>6, SMTT(30)

\* whether a receiver in r may still start a timeout; whether it looks at the queue
StartsOf(r) == IF r.pc # "idle" /\ ~r.started THEN 1 ELSE 0
LooksOf(r, blocked) == IF ~blocked /\ r.pc \in {"taken", "again"} THEN 1 ELSE 0

\* Receiver x goes to r, what the others do stays.
Moved(x, r) ==
  /\ call' \in [Ctx -> Call] /\ call'[x] = r /\ \A y \in Ctx : y # x => call'[y] = call[y]
  /\ Cardinality(Unstarted') \in Nat /\ Cardinality(Lookers') \in Nat
  /\ Cardinality(Unstarted') + StartsOf(call[x]) = Cardinality(Unstarted) + StartsOf(r)
  /\ Cardinality(Lookers') + LooksOf(call[x], Blocked(x)) = Cardinality(Lookers) + LooksOf(r, Blocked(x)')

\* A receiver that goes on changes the number of those that may start a timeout, or
\* look at the queue, by itself only (socket.c:420-480).
LEMMA CallMoves ==
  ASSUME RecvFits, RecvIInv, NEW x \in Ctx, NEW r \in Call, call' = [call EXCEPT ![x] = r],
         \A y \in Ctx : y # x => (Blocked(y)' <=> Blocked(y))
  PROVE  Moved(x, r)
  <1>1. /\ call' \in [Ctx -> Call] /\ call'[x] = r /\ \A y \in Ctx : y # x => call'[y] = call[y]
    BY RecvFacts
  <1>2. \A y \in Ctx : y # x => (y \in Unstarted <=> y \in Unstarted') /\ (y \in Lookers <=> y \in Lookers')
    BY <1>1 DEF Unstarted, Lookers
  <1>3. PICK S, T, U, V : S = Unstarted /\ T = Unstarted' /\ U = Lookers /\ V = Lookers'
    OBVIOUS
  <1>4. S \subseteq Ctx /\ T \subseteq Ctx /\ U \subseteq Ctx /\ V \subseteq Ctx
    BY <1>3 DEF Unstarted, Lookers
  <1>5. /\ Cardinality(S) \in Nat /\ Cardinality(T) \in Nat
        /\ (x \in S <=> x \in T) => Cardinality(T) = Cardinality(S)
        /\ x \notin S /\ x \in T => Cardinality(T) = Cardinality(S) + 1
        /\ x \in S /\ x \notin T => Cardinality(T) = Cardinality(S) - 1
    BY <1>2, <1>3, <1>4, OneDiffers
  <1>6. /\ Cardinality(U) \in Nat /\ Cardinality(V) \in Nat
        /\ (x \in U <=> x \in V) => Cardinality(V) = Cardinality(U)
        /\ x \notin U /\ x \in V => Cardinality(V) = Cardinality(U) + 1
        /\ x \in U /\ x \notin V => Cardinality(V) = Cardinality(U) - 1
    BY <1>2, <1>3, <1>4, OneDiffers
  <1>7. /\ StartsOf(call[x]) = IF x \in S THEN 1 ELSE 0
        /\ StartsOf(r) = IF x \in T THEN 1 ELSE 0
        /\ LooksOf(call[x], Blocked(x)) = IF x \in U THEN 1 ELSE 0
        /\ LooksOf(r, Blocked(x)') = IF x \in V THEN 1 ELSE 0
    BY <1>1, <1>3 DEF StartsOf, LooksOf, Unstarted, Lookers
  <1>8. Cardinality(T) + StartsOf(call[x]) = Cardinality(S) + StartsOf(r)
    BY <1>5, <1>7, SMTT(30)
  <1>9. Cardinality(V) + LooksOf(call[x], Blocked(x)) = Cardinality(U) + LooksOf(r, Blocked(x)')
    BY <1>6, <1>7, SMTT(30)
  <1> QED
    BY <1>1, <1>3, <1>5, <1>6, <1>8, <1>9 DEF Moved

\* The semaphore is left alone.
LEMMA SameSem ==
  ASSUME RecvSem, UNCHANGED semVars
  PROVE  RecvSem' /\ UNCHANGED <<status, sem_count>> /\ \A y \in Ctx : Blocked(y)' <=> Blocked(y)
  <1>1. UNCHANGED <<status, waitq, sem_count, asked, avail>>
    BY DEF semVars, semOnly
  <1> QED
    BY <1>1, SMTT(30) DEF RecvSem, SemTypes, SemWaiters, CountInv, Waiting, Oldest, sem_wait, Blocked

\* The timer is left alone.
LEMMA SameTimer ==
  ASSUME RecvTimer, UNCHANGED tmVars, in_irq => left' = "none"
  PROVE  RecvTimer' /\ UNCHANGED <<now, tlist, due, in_irq>>
  <1>1. UNCHANGED <<now, tlist, tstart, tdelay, due, adding, in_irq>>
    BY DEF tmVars
  <1> QED
    BY <1>1 DEF RecvTimer, TmIInv, TmTypeOK, Once, InOrder

\* Nor does anything change for a receiver that stays as its event does.
LEMMA Unmoved ==
  ASSUME NEW y \in Ctx, call'[y] = call[y], Contains(tlist', y) <=> Contains(tlist, y), due'[y] = due[y],
         recv_timeout' = recv_timeout
  PROVE  /\ EventOf(y) /\ now' = now => EventOf(y)'
         /\ PendingOf(y) /\ left = "none" /\ (Blocked(y)' => Blocked(y)) /\ (sem_count >= 1 => sem_count' >= 1) =>
              PendingOf(y)'
  BY DEF EventOf, PendingOf

\* A step of one receiver that leaves the others alone.
LEMMA OneReceives ==
  ASSUME RecvFits, RecvIInv, NEW x \in users, NEW r, Moved(x, r), left = "none",
         UNCHANGED <<users, recv_timeout, now>>, peeked => peeked',
         \A y \in Ctx : y # x => status'[y] = status[y] /\ due'[y] = due[y] /\ (Contains(tlist', y) <=> Contains(tlist, y)),
         status'[x] # "running" => r.pc = "taken", r.pc = "idle" => ~r.started,
         r.flag = "peek" => peeked', r.since <= now,
         left' = "none" => EventOf(x)', recv_timeout # 0 /\ Cardinality(users) = 1 => PendingOf(x)'
  PROVE  Callers' /\ EventsInv' /\ PendingInv'
  <1>1. users \subseteq Ctx /\ x \in Ctx /\ Callers /\ EventsInv
    BY DEF RecvIInv, SkTypes
  <1>2. call'[x] = r /\ \A y \in Ctx : y # x => call'[y] = call[y]
    BY <1>1 DEF Moved
  <1>3. Callers'
    <2> SUFFICES ASSUME NEW y \in Ctx
                 PROVE  /\ status'[y] # "running" => call'[y].pc = "taken"
                        /\ call'[y].pc # "idle" => y \in users'
                        /\ call'[y].pc = "idle" => ~call'[y].started
                        /\ call'[y].flag = "peek" => peeked'
                        /\ call'[y].since <= now'
      BY DEF Callers
    <2>1. CASE y = x
      BY <1>2, <2>1
    <2>2. CASE y # x
      <3>1. call'[y] = call[y] /\ status'[y] = status[y] /\ users' = users /\ now' = now
        BY <1>2, <2>2
      <3>2. /\ status[y] # "running" => call[y].pc = "taken"
            /\ call[y].pc # "idle" => y \in users
            /\ call[y].pc = "idle" => ~call[y].started
            /\ call[y].flag = "peek" => peeked
            /\ call[y].since <= now
        BY <1>1 DEF Callers
      <3> QED
        BY <3>1, <3>2
    <2> QED
      BY <2>1, <2>2
  <1>4. EventsInv'
    <2> SUFFICES ASSUME left' = "none", NEW y \in Ctx PROVE EventOf(y)'
      BY DEF EventsInv
    <2>1. CASE y # x
      <3>1. /\ call'[y] = call[y] /\ due'[y] = due[y] /\ recv_timeout' = recv_timeout /\ now' = now
            /\ Contains(tlist', y) <=> Contains(tlist, y)
        BY <1>2, <2>1
      <3>2. EventOf(y)
        BY <1>1 DEF EventsInv
      <3> QED
        BY <3>1, <3>2, Unmoved
    <2> QED
      BY <2>1
  <1>5. PendingInv'
    <2> SUFFICES ASSUME recv_timeout # 0, Cardinality(users) = 1, NEW y \in users PROVE PendingOf(y)'
      BY DEF PendingInv
    <2>1. y = x
      BY <1>1, OnlyUser
    <2> QED
      BY <2>1
  <1> QED
    BY <1>3, <1>4, <1>5

\* A receiver starts: it has no event, and its call may start one.
LEMMA RecvStep ==
  ASSUME RecvFits, RecvIInv, NEW x \in Ctx, recv(x)
  PROVE  RecvIInv'
  <1>1. /\ x \in users /\ left = "none" /\ status[x] = "running" /\ call[x].pc = "idle"
        /\ calls < MaxRecv /\ calls' = calls + 1
        /\ UNCHANGED <<semVars, tmVars, users, recv_timeout, left, recv_q, signals, sig, shut>>
    BY DEF recv, SkAt, Sane
  <1>2. PICK f \in {"wait", "peek", "dontwait"} :
          /\ call' = [call EXCEPT ![x] = [pc |-> "again", flag |-> f, since |-> now, started |-> FALSE]]
          /\ peeked' = (peeked \/ f = "peek")
    BY DEF recv
  <1>3. PICK r : call' = [call EXCEPT ![x] = r] /\ r = [pc |-> "again", flag |-> f, since |-> now, started |-> FALSE]
    BY <1>2
  <1>4. (peeked' <=> peeked \/ f = "peek") /\ peeked' \in BOOLEAN
    BY <1>2
  <1>5. /\ now \in Nat /\ sem_count \in Nat /\ Told \in Nat /\ Len(tlist) \in Nat
        /\ Cardinality(Unstarted) \in Nat /\ Cardinality(Lookers) \in Nat
        /\ InitCount \in Nat /\ calls \in Nat /\ signals \in Nat /\ recv_q \in Nat
    BY RecvFacts
  <1>6. r \in Call /\ r.pc = "again" /\ r.flag = f /\ r.since = now /\ ~r.started
    BY <1>3, <1>5 DEF Call
  <1>7. RecvSem' /\ UNCHANGED <<status, sem_count>> /\ \A y \in Ctx : Blocked(y)' <=> Blocked(y)
    BY <1>1, SameSem DEF RecvIInv
  <1>8. RecvTimer' /\ UNCHANGED <<now, tlist, due>>
    BY <1>1, SameTimer DEF RecvIInv, RecvTimer
  <1>9. Moved(x, r) /\ call'[x] = r
    <2>1. Moved(x, r)
      BY <1>3, <1>6, <1>7, CallMoves
    <2> QED
      BY <2>1 DEF Moved
  <1>10. Callers' /\ EventsInv' /\ PendingInv'
    <2>1. EventOf(x)'
      <3>1. EventOf(x) /\ ~call[x].started
        BY <1>1 DEF RecvIInv, EventsInv, Callers
      <3> QED
        BY <1>6, <1>8, <1>9, <3>1 DEF EventOf
    <2>2. PendingOf(x)'
      BY <1>1, <1>6, <1>7, <1>9 DEF PendingOf, Blocked
    <2> QED
      BY <1>1, <1>4, <1>5, <1>6, <1>7, <1>8, <1>9, <2>1, <2>2, OneReceives, SMTT(30)
  <1>11. SkTypes'
    <2>1. calls' \in 0..MaxRecv
      BY <1>1, <1>5, SocketAssumption, SMTT(30)
    <2> QED
      BY <1>1, <1>4, <1>9, <2>1 DEF RecvIInv, SkTypes, Moved
  <1>12. Told' = Told
    BY <1>1 DEF Told
  <1>13. UnitsBound'
    <2>1. StartsOf(r) = 1 /\ StartsOf(call[x]) = 0
      BY <1>1, <1>6 DEF StartsOf
    <2>2. Cardinality(Unstarted') = Cardinality(Unstarted) + 1
      BY <1>5, <1>9, <2>1, SMTT(30) DEF Moved
    <2>3. Len(tlist') = Len(tlist) /\ sem_count' = sem_count /\ signals' = signals /\ calls' = calls + 1
      BY <1>1, <1>7, <1>8
    <2> QED
      BY <1>5, <1>12, <2>2, <2>3, SMTT(30) DEF RecvIInv, UnitsBound
  <1>14. PacketsSeen'
    <2>1. LooksOf(r, Blocked(x)') = 1 /\ LooksOf(call[x], Blocked(x)) = 0
      BY <1>1, <1>7, <1>6 DEF LooksOf, Blocked
    <2>2. Cardinality(Lookers') = Cardinality(Lookers) + 1
      BY <1>5, <1>9, <2>1, SMTT(30) DEF Moved
    <2> QED
      BY <1>1, <1>4, <1>5, <1>7, <1>12, <2>2, SMTT(30) DEF RecvIInv, PacketsSeen
  <1> QED
    BY <1>1, <1>7, <1>8, <1>10, <1>11, <1>13, <1>14 DEF RecvIInv

\* A receive returns: it has looked at a queue that was empty or has taken a
\* packet, if there are neither timeouts nor a shutdown.
LEMMA ReturnStep ==
  ASSUME RecvFits, RecvIInv, NEW x \in Ctx, NEW e \in {"packet", "EAGAIN", "ESHUTDOWN"},
         status[x] = "running", left = "none", ~in_irq, call[x].pc \in {"again", "taken"}, SkReturn(x, e),
         UNCHANGED tmVars \/ timer_cancel_event(x), e = "packet" => ~Contains(tlist', x),
         RecvSem', UNCHANGED <<status, sem_count, users, recv_timeout, peeked, calls, signals, sig, shut>>,
         recv_q' \in 0..recv_q, recv_timeout = 0 /\ ~peeked /\ shut = "open" => recv_q' = 0 \/ recv_q' = recv_q - 1
  PROVE  RecvIInv'
  <1>1. /\ now \in Nat /\ sem_count \in Nat /\ Told \in Nat /\ Len(tlist) \in Nat
        /\ Cardinality(Unstarted) \in Nat /\ Cardinality(Lookers) \in Nat
        /\ InitCount \in Nat /\ calls \in Nat /\ signals \in Nat /\ recv_q \in Nat
    BY RecvFacts
  <1>2. /\ RecvTimer' /\ UNCHANGED <<now, due>> /\ Len(tlist') \in Nat /\ Len(tlist') <= Len(tlist)
        /\ \A y \in Ctx : y # x => (Contains(tlist', y) <=> Contains(tlist, y))
    <2>1. CASE UNCHANGED tmVars
      <3>1. UNCHANGED <<now, tlist, due>>
        BY <2>1 DEF tmVars
      <3>2. RecvTimer'
        BY <2>1, SameTimer DEF RecvIInv, RecvTimer
      <3> QED
        BY <1>1, <3>1, <3>2, SMTT(30)
    <2>2. CASE timer_cancel_event(x)
      <3>1. /\ Contains(tlist, x) /\ tlist' = RemoveFirst(tlist, x)
            /\ UNCHANGED <<now, tstart, tdelay, due, adding, in_irq>>
        BY <2>2 DEF timer_cancel_event
      <3>2. TmIInv /\ adding = NoEvent
        BY DEF RecvIInv, RecvTimer
      <3>3. TmIInv'
        <4>1. [TmNext]_tmVars
          BY <2>2, SocketAssumption DEF TmNext
        <4> QED
          BY <3>2, <4>1, TimerStep DEF RecvFits
      <3>4. Len(tlist') = Len(tlist) - 1 /\ \A y : Contains(tlist', y) <=> y # x /\ Contains(tlist, y)
        BY <3>1, <3>2, CancelHas
      <3>5. Len(tlist') \in Nat
        BY <3>3, SMTT(30) DEF TmIInv, TmTypeOK
      <3> QED
        BY <1>1, <3>1, <3>2, <3>3, <3>4, <3>5, SMTT(30) DEF RecvTimer
    <2> QED
      BY <2>1, <2>2
  <1>3. NoCall \in Call /\ NoCall.pc = "idle" /\ NoCall.flag = "wait" /\ NoCall.since = 0 /\ ~NoCall.started
    BY DEF NoCall, Call
  <1>4. Moved(x, NoCall) /\ call'[x] = NoCall
    <2>1. call' = [call EXCEPT ![x] = NoCall] /\ \A y \in Ctx : Blocked(y)' <=> Blocked(y)
      BY DEF SkReturn, Blocked
    <2>2. Moved(x, NoCall)
      BY <1>3, <2>1, CallMoves
    <2> QED
      BY <2>2 DEF Moved
  <1>5. /\ left' # "packet" /\ left' \in {"none", "packet", "EAGAIN", "ESHUTDOWN"}
        /\ left' = "none" <=> ~Contains(tlist', x)
    BY DEF SkReturn
  <1>6. Callers' /\ EventsInv' /\ PendingInv'
    <2>1. left' = "none" => EventOf(x)'
      BY <1>3, <1>4, <1>5 DEF EventOf
    <2>2. PendingOf(x)'
      BY <1>3, <1>4 DEF PendingOf, Blocked
    <2>3. x \in users
      BY DEF RecvIInv, Callers
    <2> QED
      BY <1>1, <1>2, <1>3, <1>4, <2>1, <2>2, <2>3, OneReceives, SMTT(30)
  <1>7. SkTypes'
    <2>1. recv_q' \in 0..signals'
      BY <1>1, SMTT(30) DEF RecvIInv, SkTypes
    <2> QED
      BY <1>4, <1>5, <2>1 DEF RecvIInv, SkTypes, Moved
  <1>8. Told' = Told
    BY DEF Told
  <1>9. UnitsBound'
    <2>1. StartsOf(NoCall) = 0 /\ StartsOf(call[x]) \in {0, 1}
      BY <1>3 DEF StartsOf
    <2>2. Cardinality(Unstarted') <= Cardinality(Unstarted) /\ Cardinality(Unstarted') \in Nat
      BY <1>1, <1>4, <2>1, SMTT(30) DEF Moved
    <2>3. sem_count + Told + Len(tlist) + Cardinality(Unstarted) <= InitCount + calls + signals
      BY DEF RecvIInv, UnitsBound
    <2> QED
      BY <1>1, <1>2, <1>8, <2>2, <2>3, SMTT(30) DEF UnitsBound
  <1>10. PacketsSeen'
    <2>1. LooksOf(NoCall, Blocked(x)') = 0 /\ LooksOf(call[x], Blocked(x)) = 1
      BY <1>3 DEF LooksOf, Blocked
    <2>2. Cardinality(Lookers') = Cardinality(Lookers) - 1 /\ Cardinality(Lookers') \in Nat
      BY <1>1, <1>4, <2>1, SMTT(30) DEF Moved
    <2>3. recv_timeout = 0 /\ ~peeked /\ shut = "open" => recv_q <= sem_count + Told + Cardinality(Lookers)
      BY DEF RecvIInv, PacketsSeen
    <2> QED
      BY <1>1, <1>8, <2>2, <2>3, SMTT(30) DEF PacketsSeen
  <1> QED
    BY <1>2, <1>5, <1>6, <1>7, <1>9, <1>10 DEF RecvIInv

\* The record of a receiver that goes on.
LEMMA GoesTo ==
  ASSUME call \in [Ctx -> Call], NEW x \in Ctx, NEW p \in {"again", "take", "taken"}
  PROVE  /\ \E r \in Call : /\ [call EXCEPT ![x].pc = p] = [call EXCEPT ![x] = r]
                            /\ r.pc = p /\ r.flag = call[x].flag /\ r.since = call[x].since
                            /\ (r.started <=> call[x].started)
         /\ \E r \in Call : /\ [call EXCEPT ![x].pc = p, ![x].started = TRUE] = [call EXCEPT ![x] = r]
                            /\ r.pc = p /\ r.flag = call[x].flag /\ r.since = call[x].since /\ r.started
  <1>1. call[x] \in Call
    OBVIOUS
  <1>2. PICK r : r = [call[x] EXCEPT !.pc = p]
    OBVIOUS
  <1>3. r \in Call /\ r.pc = p /\ r.flag = call[x].flag /\ r.since = call[x].since /\ r.started = call[x].started
    BY <1>1, <1>2 DEF Call
  <1>4. [call EXCEPT ![x].pc = p] = [call EXCEPT ![x] = r]
    BY <1>2
  <1>5. PICK q : q = [call[x] EXCEPT !.pc = p, !.started = TRUE]
    OBVIOUS
  <1>6. q \in Call /\ q.pc = p /\ q.flag = call[x].flag /\ q.since = call[x].since /\ q.started
    BY <1>1, <1>5 DEF Call
  <1>7. [call EXCEPT ![x].pc = p, ![x].started = TRUE] = [call EXCEPT ![x] = q]
    BY <1>5
  <1> QED
    BY <1>3, <1>4, <1>6, <1>7

\* A receiver goes on: to the semaphore, with a timeout if there are timeouts,
\* or back to the queue, while its event is still in the list.
LEMMA GoStep ==
  ASSUME RecvFits, RecvIInv, NEW x \in Ctx, NEW p \in {"take", "again"},
         status[x] = "running", left = "none", SkGoto(x, p), UNCHANGED tmVars, RecvSem',
         UNCHANGED <<status, sem_count, users, recv_timeout, peeked, calls, recv_q, signals, sig, shut>>,
         p = "take" => call[x].pc = "again" /\ recv_q = 0 /\ (recv_timeout # 0 => call[x].started),
         p = "again" => call[x].pc = "taken" /\ (call[x].started => Contains(tlist, x))
  PROVE  RecvIInv'
  <1>1. /\ now \in Nat /\ sem_count \in Nat /\ Told \in Nat /\ call \in [Ctx -> Call]
        /\ Cardinality(Unstarted) \in Nat /\ Cardinality(Lookers) \in Nat
    BY RecvFacts
  <1>2. RecvTimer' /\ UNCHANGED <<now, tlist, due, left>>
    BY SameTimer DEF RecvIInv, RecvTimer, SkGoto
  <1>3. PICK r \in Call : /\ [call EXCEPT ![x].pc = p] = [call EXCEPT ![x] = r]
                          /\ r.pc = p /\ r.flag = call[x].flag /\ r.since = call[x].since
                          /\ (r.started <=> call[x].started)
    <2>1. p \in {"again", "take", "taken"}
      OBVIOUS
    <2> QED
      BY <1>1, <2>1, GoesTo
  <1>4. Moved(x, r) /\ call'[x] = r
    <2>1. call' = [call EXCEPT ![x] = r] /\ \A y \in Ctx : Blocked(y)' <=> Blocked(y)
      BY <1>3 DEF SkGoto, Blocked
    <2>2. Moved(x, r)
      BY <1>3, <2>1, CallMoves
    <2> QED
      BY <2>2 DEF Moved
  <1>5. Callers' /\ EventsInv' /\ PendingInv'
    <2>1. x \in users /\ EventOf(x) /\ call[x].since <= now /\ (call[x].flag = "peek" => peeked)
      BY DEF RecvIInv, Callers, EventsInv
    <2>2. EventOf(x)'
      BY <1>2, <1>3, <1>4, <2>1 DEF EventOf
    <2>3. recv_timeout # 0 /\ Cardinality(users) = 1 => PendingOf(x)'
      <3>1. CASE p = "take"
        <4>1. recv_timeout # 0 /\ Cardinality(users) = 1 => Contains(tlist, x) \/ sem_count >= 1
          BY <2>1, <3>1 DEF RecvIInv, PendingInv, PendingOf
        <4> QED
          BY <1>2, <1>3, <1>4, <3>1, <4>1 DEF PendingOf, Blocked
      <3>2. CASE p = "again"
        BY <1>2, <1>3, <1>4, <3>2 DEF PendingOf, Blocked
      <3> QED
        BY <3>1, <3>2
    <2> QED
      BY <1>2, <1>3, <1>4, <2>1, <2>2, <2>3, OneReceives
  <1>6. SkTypes'
    BY <1>2, <1>4 DEF RecvIInv, SkTypes, Moved
  <1>7. Told' = Told
    BY DEF Told
  <1>8. UnitsBound'
    <2>1. StartsOf(r) = StartsOf(call[x]) /\ StartsOf(r) \in {0, 1}
      BY <1>3 DEF StartsOf
    <2>2. Cardinality(Unstarted') = Cardinality(Unstarted)
      BY <1>1, <1>4, <2>1, SMTT(30) DEF Moved
    <2> QED
      BY <1>2, <1>7, <2>2 DEF RecvIInv, UnitsBound
  <1>9. PacketsSeen'
    <2>1. p = "again" => LooksOf(r, Blocked(x)') = 1 /\ LooksOf(call[x], Blocked(x)) = 1
      BY <1>3 DEF LooksOf, Blocked
    <2>2. Cardinality(Lookers') \in Nat /\ (p = "again" => Cardinality(Lookers') = Cardinality(Lookers))
      BY <1>1, <1>4, <2>1, SMTT(30) DEF Moved
    <2>3. p = "take" => recv_q = 0
      OBVIOUS
    <2> QED
      BY <1>1, <1>7, <2>2, <2>3, SMTT(30) DEF RecvIInv, PacketsSeen
  <1> QED
    BY <1>2, <1>5, <1>6, <1>8, <1>9 DEF RecvIInv

\* The timeout is started: its event was not in the list.
LEMMA StartStep ==
  ASSUME RecvFits, RecvIInv, NEW x \in Ctx, status[x] = "running", left = "none", call[x].pc = "again",
         recv_q = 0, ~call[x].started, recv_timeout # 0,
         call' = [call EXCEPT ![x].pc = "take", ![x].started = TRUE], SetStart(x, recv_timeout),
         tlist' = sorted_insert(tlist, x, (ticks + recv_timeout) % 2^TickBits),
         UNCHANGED <<now, adding, in_irq, left, semVars, users, recv_timeout, peeked, calls, recv_q, signals, sig, shut>>
  PROVE  RecvIInv'
  <1>1. /\ now \in Nat /\ sem_count \in Nat /\ Told \in Nat /\ call \in [Ctx -> Call]
        /\ tlist \in Seq(Ctx) /\ Len(tlist) \in Nat /\ recv_timeout \in Nat /\ due \in [Ctx -> Nat]
        /\ Cardinality(Unstarted) \in Nat /\ Cardinality(Lookers) \in Nat
        /\ InitCount \in Nat /\ calls \in Nat /\ signals \in Nat
    BY RecvFacts
  <1>2. RecvSem' /\ UNCHANGED <<status, sem_count>> /\ \A y \in Ctx : Blocked(y)' <=> Blocked(y)
    BY SameSem DEF RecvIInv
  <1>3. /\ TmIInv /\ TicksFit /\ adding = NoEvent /\ x \in Event /\ Event = Ctx /\ NoEvent \notin Event
        /\ recv_timeout \in Delays
    BY SocketAssumption, TimerAssumption DEF RecvIInv, RecvTimer, RecvFits, SkTypes
  <1>4. x \in users /\ call[x].since <= now /\ (call[x].flag = "peek" => peeked) /\ ~Contains(tlist, x)
    BY DEF RecvIInv, Callers, EventsInv, EventOf
  <1>5. /\ due' \in [Event -> Nat] /\ tdelay' \in [Event -> Nat] /\ tstart' \in [Event -> 0..(2^TickBits - 1)]
        /\ due'[x] = now + recv_timeout /\ \A f \in Event : f # x => due'[f] = due[f]
        /\ \A f \in Event : tstart'[f] + tdelay'[f] = due'[f] /\ due'[f] < 2^TickBits
    BY <1>3, StartSet
  <1>6. PICK d, n : d = due' /\ n = now + recv_timeout
    OBVIOUS
  <1>7. tlist' = sorted_insert(tlist, x, n) /\ n \in Nat /\ d[x] = n
    <2>1. ticks = now /\ n < 2^TickBits /\ n \in Nat /\ 2^TickBits \in Nat
      BY <1>3, <1>6, NoWrap
    <2>2. n % 2^TickBits = n
      BY <2>1, SMTT(30)
    <2> QED
      BY <1>5, <1>6, <2>1, <2>2
  <1>8. \A i \in 1..Len(tlist) : tlist[i] \in Event /\ tlist[i] # x /\ expire(tlist[i]) = d[tlist[i]] /\ d[tlist[i]] = due[tlist[i]]
    <2>1. \A f \in Event : expire(f) = due[f]
      BY <1>3, NoWrap
    <2>2. \A i \in 1..Len(tlist) : tlist[i] \in Event /\ tlist[i] # x
      BY <1>1, <1>3, <1>4, SMTT(30) DEF Contains
    <2> QED
      BY <1>5, <1>6, <2>1, <2>2
  <1>9. Once(tlist) /\ InOrder(tlist, d) /\ d \in [Event -> Nat] /\ tlist \in Seq(Event)
    <2>1. Once(tlist) /\ InOrder(tlist, due)
      BY <1>3 DEF TmIInv
    <2> QED
      BY <1>1, <1>3, <1>5, <1>6, <1>8, <2>1 DEF InOrder
  <1>10. PICK k \in 1..(Len(tlist) + 1) : tlist' \in Seq(Event) /\ InOrder(tlist', d) /\ IsInserted(tlist', tlist, k, x)
    <2>1. /\ sorted_insert(tlist, x, n) \in Seq(Event) /\ InOrder(sorted_insert(tlist, x, n), d)
          /\ \E k \in 1..(Len(tlist) + 1) : IsInserted(sorted_insert(tlist, x, n), tlist, k, x)
      BY <1>3, <1>7, <1>8, <1>9, SortedInsert
    <2> QED
      BY <1>7, <2>1
  <1>11. PICK s : s = tlist'
    OBVIOUS
  <1>12. /\ Once(s) /\ Len(s) = Len(tlist) + 1 /\ \A y : Contains(s, y) <=> y = x \/ Contains(tlist, y)
         /\ \A i \in 1..Len(s) : s[i] \in Event
    <2>1. IsInserted(s, tlist, k, x)
      BY <1>10, <1>11
    <2>2. Once(s)
      BY <1>1, <1>8, <1>9, <2>1, InsertedOnce
    <2>3. \A y : Contains(s, y) <=> y = x \/ Contains(tlist, y)
      BY <1>1, <2>1, InsertedHas
    <2>4. Len(s) = Len(tlist) + 1
      BY <2>1 DEF IsInserted
    <2>5. \A i \in 1..Len(s) : s[i] \in Event
      BY <1>10, <1>11, SMTT(30)
    <2> QED
      BY <2>2, <2>3, <2>4, <2>5
  <1>13. RecvTimer'
    <2>1. TmTypeOK'
      BY <1>3, <1>5, <1>10 DEF TmIInv, TmTypeOK
    <2>2. \A i \in 1..Len(tlist') : tlist'[i] # adding'
      BY <1>3, <1>11, <1>12
    <2>3. Once(tlist') /\ InOrder(tlist', due')
      BY <1>6, <1>10, <1>11, <1>12
    <2>4. TmIInv'
      BY <1>5, <2>1, <2>2, <2>3 DEF TmIInv
    <2> QED
      BY <1>3, <2>4 DEF RecvTimer
  <1>14. PICK r \in Call : /\ [call EXCEPT ![x].pc = "take", ![x].started = TRUE] = [call EXCEPT ![x] = r]
                           /\ r.pc = "take" /\ r.flag = call[x].flag /\ r.since = call[x].since /\ r.started
    <2>1. "take" \in {"again", "take", "taken"}
      OBVIOUS
    <2> QED
      BY <1>1, <2>1, GoesTo
  <1>15. Moved(x, r) /\ call'[x] = r
    <2>1. call' = [call EXCEPT ![x] = r]
      BY <1>14
    <2>2. Moved(x, r)
      BY <1>2, <1>14, <2>1, CallMoves
    <2> QED
      BY <2>2 DEF Moved
  <1>16. Callers' /\ EventsInv' /\ PendingInv'
    <2>1. Contains(tlist', x) /\ \A y \in Ctx : y # x => (Contains(tlist', y) <=> Contains(tlist, y))
      BY <1>11, <1>12
    <2>2. call[x].since \in Nat
      BY <1>1 DEF Call
    <2>3. EventOf(x)'
      BY <1>1, <1>4, <1>5, <1>14, <1>15, <2>1, <2>2, SMTT(30) DEF EventOf
    <2>4. PendingOf(x)'
      BY <1>2, <1>14, <1>15, <2>1 DEF PendingOf
    <2> QED
      BY <1>2, <1>3, <1>4, <1>5, <1>14, <1>15, <2>1, <2>3, <2>4, OneReceives
  <1>17. SkTypes'
    BY <1>15 DEF RecvIInv, SkTypes, Moved
  <1>18. UnitsBound'
    <2>1. StartsOf(r) = 0 /\ StartsOf(call[x]) = 1
      BY <1>14 DEF StartsOf
    <2>2. Cardinality(Unstarted') = Cardinality(Unstarted) - 1
      BY <1>1, <1>15, <2>1, SMTT(30) DEF Moved
    <2>3. Told' = Told /\ Len(tlist') = Len(tlist) + 1 /\ sem_count' = sem_count
      BY <1>2, <1>11, <1>12 DEF Told
    <2>4. /\ sem_count + Told + Len(tlist) + Cardinality(Unstarted) <= InitCount + calls + signals
          /\ calls' = calls /\ signals' = signals
      BY DEF RecvIInv, UnitsBound
    <2>5. PICK a \in Nat, b \in Nat, l \in Nat, u \in Nat, m \in Nat :
            /\ a = sem_count /\ b = Told /\ l = Len(tlist) /\ u = Cardinality(Unstarted)
            /\ m = InitCount + calls + signals
      BY <1>1, SMTT(30)
    <2>6. a + b + (l + 1) + (u - 1) <= m
      BY <2>4, <2>5, SMTT(30)
    <2>7. sem_count' + Told' + Len(tlist') + Cardinality(Unstarted') <= InitCount + calls' + signals'
      BY <2>2, <2>3, <2>4, <2>5, <2>6
    <2> QED
      BY <2>7 DEF UnitsBound
  <1>19. PacketsSeen'
    BY DEF PacketsSeen
  <1> QED
    BY <1>2, <1>13, <1>16, <1>17, <1>18, <1>19 DEF RecvIInv

\* A receiver takes a unit or sleeps: alone, it sleeps only if its event is there.
LEMMA TakesStep ==
  ASSUME RecvFits, RecvIInv, NEW x \in Ctx, recv_take(x)
  PROVE  RecvIInv'
  <1>1. /\ left = "none" /\ ~in_irq /\ status[x] = "running" /\ call[x].pc = "take" /\ semaphore_take(x, 1)
        /\ SkGoto(x, "taken")
        /\ UNCHANGED <<tmVars, users, recv_timeout, peeked, calls, recv_q, signals, sig, shut>>
    BY DEF recv_take, SkAt, Sane
  <1>2. /\ now \in Nat /\ sem_count \in Nat /\ Told \in Nat /\ call \in [Ctx -> Call] /\ Len(tlist) \in Nat
        /\ Cardinality(Unstarted) \in Nat /\ Cardinality(Lookers) \in Nat
        /\ InitCount \in Nat /\ calls \in Nat /\ signals \in Nat /\ recv_q \in Nat
        /\ status \in [Ctx -> {"ready", "running", "blocked"}]
    BY RecvFacts
  <1>3. /\ RecvSem'
        /\ \/ /\ sem_count = 0 /\ sem_count' = 0
              /\ status' = [status EXCEPT ![x] = "blocked"]
           \/ /\ sem_count >= 1 /\ sem_count' = sem_count - 1 /\ status' = status
    BY <1>1, TakeOne DEF RecvIInv, RecvFits
  <1>4. RecvTimer' /\ UNCHANGED <<now, tlist, due, left>>
    BY <1>1, SameTimer DEF RecvIInv, RecvTimer, SkGoto
  <1>5. /\ \A y \in Ctx : y # x => status'[y] = status[y]
        /\ \A y \in Ctx : y # x => (Blocked(y)' <=> Blocked(y))
        /\ Blocked(x)' => sem_count = 0 /\ sem_count' = 0
        /\ ~Blocked(x)' => sem_count' = sem_count - 1
        /\ ~Blocked(x) /\ sem_count' \in Nat /\ sem_count' <= sem_count
    BY <1>1, <1>2, <1>3, SMTT(30) DEF Blocked
  <1>6. PICK r \in Call : /\ [call EXCEPT ![x].pc = "taken"] = [call EXCEPT ![x] = r]
                          /\ r.pc = "taken" /\ r.flag = call[x].flag /\ r.since = call[x].since
                          /\ (r.started <=> call[x].started)
    <2>1. "taken" \in {"again", "take", "taken"}
      OBVIOUS
    <2> QED
      BY <1>2, <2>1, GoesTo
  <1>7. Moved(x, r) /\ call'[x] = r
    <2>1. call' = [call EXCEPT ![x] = r]
      BY <1>1, <1>6 DEF SkGoto
    <2>2. r \in Call /\ \A y \in Ctx : y # x => (Blocked(y)' <=> Blocked(y))
      BY <1>5
    <2>3. Moved(x, r)
      BY <2>1, <2>2, CallMoves
    <2> QED
      BY <2>3 DEF Moved
  <1>8. Callers' /\ EventsInv' /\ PendingInv'
    <2>1. x \in users /\ EventOf(x) /\ call[x].since <= now /\ (call[x].flag = "peek" => peeked)
      BY <1>1 DEF RecvIInv, Callers, EventsInv
    <2>2. EventOf(x)'
      BY <1>1, <1>4, <1>6, <1>7, <2>1 DEF EventOf
    <2>3. recv_timeout # 0 /\ Cardinality(users) = 1 => PendingOf(x)'
      <3>1. recv_timeout # 0 /\ Cardinality(users) = 1 => PendingOf(x)
        BY <2>1 DEF RecvIInv, PendingInv
      <3>2. PendingOf(x) /\ sem_count = 0 => Contains(tlist, x)
        BY <1>1, SMTT(30) DEF PendingOf
      <3> QED
        BY <1>4, <1>5, <1>6, <1>7, <3>1, <3>2 DEF PendingOf
    <2> QED
      BY <1>1, <1>4, <1>5, <1>6, <1>7, <2>1, <2>2, <2>3, OneReceives
  <1>9. SkTypes'
    BY <1>1, <1>4, <1>7 DEF RecvIInv, SkTypes, Moved
  <1>10. Told' = Told
    BY <1>1 DEF Told
  <1>11. UnitsBound'
    <2>1. StartsOf(r) = StartsOf(call[x]) /\ StartsOf(r) \in {0, 1}
      BY <1>1, <1>6 DEF StartsOf
    <2>2. Cardinality(Unstarted') = Cardinality(Unstarted)
      BY <1>2, <1>7, <2>1, SMTT(30) DEF Moved
    <2>3. /\ sem_count + Told + Len(tlist) + Cardinality(Unstarted) <= InitCount + calls + signals
          /\ calls' = calls /\ signals' = signals
      BY <1>1 DEF RecvIInv, UnitsBound
    <2>4. sem_count' + Told + Len(tlist) + Cardinality(Unstarted) <= InitCount + calls + signals
      BY <1>2, <1>5, <2>3, SMTT(30)
    <2> QED
      BY <1>4, <1>10, <2>2, <2>3, <2>4 DEF UnitsBound
  <1>12. PacketsSeen'
    <2>1. /\ LooksOf(call[x], Blocked(x)) = 0 /\ (Blocked(x)' => LooksOf(r, Blocked(x)') = 0)
          /\ (~Blocked(x)' => LooksOf(r, Blocked(x)') = 1)
      BY <1>1, <1>6 DEF LooksOf
    <2>2. /\ Cardinality(Lookers') \in Nat
          /\ (Blocked(x)' => Cardinality(Lookers') = Cardinality(Lookers))
          /\ (~Blocked(x)' => Cardinality(Lookers') = Cardinality(Lookers) + 1)
      BY <1>2, <1>7, <2>1, SMTT(30) DEF Moved
    <2>3. sem_count' + Cardinality(Lookers') = sem_count + Cardinality(Lookers)
      BY <1>2, <1>5, <2>2, SMTT(30)
    <2>4. recv_timeout = 0 /\ ~peeked /\ shut = "open" => recv_q <= sem_count + Told + Cardinality(Lookers)
      BY DEF RecvIInv, PacketsSeen
    <2>5. sem_count' + Told + Cardinality(Lookers') = sem_count + Told + Cardinality(Lookers)
      BY <1>2, <1>5, <2>2, <2>3, SMTT(30)
    <2> QED
      BY <1>1, <1>10, <2>4, <2>5 DEF PacketsSeen
  <1> QED
    BY <1>1, <1>3, <1>4, <1>8, <1>9, <1>11, <1>12 DEF RecvIInv

\* A receiver returns an error, or the packet it has found.
LEMMA LeaveStep ==
  ASSUME RecvFits, RecvIInv, NEW x \in Ctx, recv_shut(x) \/ recv_packet(x)
  PROVE  RecvIInv'
  <1>1. /\ left = "none" /\ ~in_irq /\ status[x] = "running" /\ call[x].pc = "again"
        /\ UNCHANGED <<semVars, users, recv_timeout, peeked, calls, signals, sig, shut>>
    BY DEF recv_shut, recv_packet, SkAt, Sane
  <1>2. RecvSem' /\ UNCHANGED <<status, sem_count>>
    BY <1>1, SameSem DEF RecvIInv
  <1>3. recv_q \in Nat
    BY RecvFacts
  <1>4. CASE recv_shut(x)
    <2>1. shut # "open" /\ UNCHANGED tmVars /\ SkReturn(x, "ESHUTDOWN") /\ recv_q' = recv_q
      BY <1>4 DEF recv_shut
    <2>2. recv_q' \in 0..recv_q
      BY <1>3, <2>1, SMTT(30)
    <2> QED
      BY <1>1, <1>2, <2>1, <2>2, ReturnStep
  <1>5. CASE recv_packet(x)
    <2>1. /\ shut = "open" /\ recv_q > 0 /\ SkReturn(x, "packet")
          /\ recv_q' = IF call[x].flag = "peek" THEN recv_q ELSE recv_q - 1
          /\ IF call[x].started /\ Contains(tlist, x) THEN timer_cancel_event(x) ELSE UNCHANGED tmVars
      BY <1>5 DEF recv_packet
    <2>2. call[x].flag = "peek" => peeked
      BY DEF RecvIInv, Callers
    <2>3. recv_q' \in 0..recv_q /\ (~peeked => recv_q' = recv_q - 1)
      BY <1>3, <2>1, <2>2, SMTT(30)
    <2>4. UNCHANGED tmVars \/ timer_cancel_event(x)
      BY <2>1
    <2>5. ~Contains(tlist', x)
      <3>1. CASE call[x].started /\ Contains(tlist, x)
        <4>1. Contains(tlist, x) /\ tlist' = RemoveFirst(tlist, x)
          BY <2>1, <3>1 DEF timer_cancel_event
        <4>2. TmIInv
          BY DEF RecvIInv, RecvTimer
        <4> QED
          BY <4>1, <4>2, CancelHas
      <3>2. CASE ~(call[x].started /\ Contains(tlist, x))
        <4>1. tlist' = tlist
          BY <2>1, <3>2 DEF tmVars
        <4>2. Contains(tlist, x) => call[x].started
          BY <1>1 DEF RecvIInv, EventsInv, EventOf
        <4> QED
          BY <3>2, <4>1, <4>2
      <3> QED
        BY <3>1, <3>2
    <2> QED
      BY <1>1, <1>2, <2>1, <2>3, <2>4, <2>5, ReturnStep
  <1> QED
    BY <1>4, <1>5

\* A receiver has found no packet.
LEMMA EmptyStep ==
  ASSUME RecvFits, RecvIInv, NEW x \in Ctx, recv_empty(x)
  PROVE  RecvIInv'
  <1>1. /\ left = "none" /\ ~in_irq /\ status[x] = "running" /\ call[x].pc = "again" /\ recv_q = 0
        /\ UNCHANGED <<semVars, users, recv_timeout, peeked, calls, recv_q, signals, sig, shut>>
    BY DEF recv_empty, SkAt, Sane
  <1>2. RecvSem' /\ UNCHANGED <<status, sem_count>>
    BY <1>1, SameSem DEF RecvIInv
  <1>3. CASE call[x].flag = "dontwait"
    <2>1. UNCHANGED tmVars /\ SkReturn(x, "EAGAIN")
      BY <1>3 DEF recv_empty
    <2>2. recv_q' \in 0..recv_q /\ recv_q' = 0
      BY <1>1, SMTT(30)
    <2> QED
      BY <1>1, <1>2, <2>1, <2>2, ReturnStep
  <1>4. CASE call[x].flag # "dontwait" /\ ~call[x].started /\ recv_timeout # 0
    <2>1. /\ call' = [call EXCEPT ![x].pc = "take", ![x].started = TRUE]
          /\ SetStart(x, recv_timeout)
          /\ tlist' = sorted_insert(tlist, x, (ticks + recv_timeout) % 2^TickBits)
          /\ UNCHANGED <<now, adding, in_irq, left>>
      BY <1>4 DEF recv_empty
    <2>2. UNCHANGED <<now, adding, in_irq, left, semVars, users, recv_timeout, peeked, calls, recv_q, signals, sig, shut>>
      BY <1>1, <2>1
    <2> QED
      BY <1>1, <1>4, <2>1, <2>2, StartStep
  <1>5. CASE call[x].flag # "dontwait" /\ ~(~call[x].started /\ recv_timeout # 0)
    <2>1. SkGoto(x, "take") /\ UNCHANGED tmVars
      BY <1>5 DEF recv_empty
    <2> QED
      BY <1>1, <1>2, <1>5, <2>1, GoStep
  <1> QED
    BY <1>3, <1>4, <1>5

\* A receiver has got a unit: its time has gone by, or its event is still there.
LEMMA TakenStep ==
  ASSUME RecvFits, RecvIInv, NEW x \in Ctx, recv_taken(x)
  PROVE  RecvIInv'
  <1>1. /\ left = "none" /\ ~in_irq /\ status[x] = "running" /\ call[x].pc = "taken" /\ SemConsume(x)
        /\ UNCHANGED <<tmVars, users, recv_timeout, peeked, calls, recv_q, signals, sig, shut>>
    BY DEF recv_taken, SkAt, Sane
  <1>2. RecvSem' /\ UNCHANGED <<status, sem_count>>
    <2>1. UNCHANGED <<status, waitq, sem_count, avail>>
      BY <1>1 DEF SemConsume
    <2>2. SemTypes' /\ SemWaiters' /\ sem_wait' = sem_wait
      BY <1>1, QuietStep DEF RecvIInv, RecvSem
    <2> QED
      BY <2>1, <2>2 DEF RecvIInv, RecvSem, CountInv
  <1>3. EventOf(x) /\ now \in Nat /\ call[x].since \in Nat /\ recv_timeout \in Nat /\ recv_q \in Nat
    <2>1. call[x] \in Call
      BY RecvFacts
    <2> QED
      BY <1>1, <2>1, RecvFacts DEF RecvIInv, EventsInv, Call
  <1>4. CASE TimedOut(x)
    <2>1. SkReturn(x, "EAGAIN") /\ call[x].started
      BY <1>4 DEF recv_taken, TimedOut
    <2>2. recv_timeout # 0
      BY <1>3, <2>1 DEF EventOf
    <2>3. recv_q' \in 0..recv_q
      BY <1>1, <1>3, SMTT(30)
    <2> QED
      BY <1>1, <1>2, <2>1, <2>2, <2>3, ReturnStep
  <1>5. CASE ~TimedOut(x)
    <2>1. SkGoto(x, "again")
      BY <1>5 DEF recv_taken
    <2>2. call[x].started => Contains(tlist, x)
      <3>1. call[x].started => now - call[x].since < (recv_timeout * 5) \div 6
        BY <1>3, <1>5, SMTT(30) DEF TimedOut
      <3>2. (recv_timeout * 5) \div 6 <= recv_timeout /\ (recv_timeout * 5) \div 6 \in Int
        BY <1>3, SMTT(30)
      <3>3. call[x].started => now < call[x].since + recv_timeout
        BY <1>3, <3>1, <3>2, SMTT(30)
      <3> QED
        BY <1>3, <3>3, SMTT(30) DEF EventOf
    <2> QED
      BY <1>1, <1>2, <2>1, <2>2, GoStep
  <1> QED
    BY <1>4, <1>5

\* A step that moves no receiver, gives no unit and leaves the events alone: a
\* packet comes, the socket is shut down, a receiver that was woken runs.
LEMMA AsideStep ==
  ASSUME RecvFits, RecvIInv, RecvSem', RecvTimer',
         UNCHANGED <<sem_count, now, tlist, due, users, call, calls, recv_timeout, left, peeked>>,
         \A y \in Ctx : Blocked(y)' <=> Blocked(y), \A y \in Ctx : status'[y] # "running" => status[y] # "running",
         signals' \in 0..MaxSignals, recv_q' \in 0..signals', sig' \in {"idle", "give"},
         shut' \in {"open", "clear", "wake", "shut"}, Told' + signals <= Told + signals',
         shut' = "open" => shut = "open" /\ recv_q' + Told <= recv_q + Told'
  PROVE  RecvIInv'
  <1>1. /\ sem_count \in Nat /\ Told \in Nat /\ Len(tlist) \in Nat
        /\ Cardinality(Unstarted) \in Nat /\ Cardinality(Lookers) \in Nat
        /\ InitCount \in Nat /\ calls \in Nat /\ signals \in Nat /\ recv_q \in Nat
    BY RecvFacts
  <1>2. Told' \in Nat /\ signals' \in Nat /\ recv_q' \in Nat
    <2>1. Told' \in Nat
      BY DEF Told
    <2>2. signals' \in Nat
      BY SocketAssumption, SMTT(30)
    <2> QED
      BY <2>1, <2>2, SMTT(30)
  <1>3. Callers'
    BY DEF RecvIInv, Callers
  <1>4. EventsInv'
    BY DEF RecvIInv, EventsInv, EventOf
  <1>5. PendingInv'
    <2> SUFFICES ASSUME recv_timeout # 0, Cardinality(users) = 1, NEW y \in users PROVE PendingOf(y)'
      BY DEF PendingInv
    <2>1. PendingOf(y) /\ y \in Ctx
      BY DEF RecvIInv, PendingInv, SkTypes
    <2> QED
      BY <2>1 DEF PendingOf
  <1>6. SkTypes'
    BY DEF RecvIInv, SkTypes
  <1>7. Unstarted' = Unstarted /\ Lookers' = Lookers
    BY DEF Unstarted, Lookers
  <1>8. PICK u \in Nat, k \in Nat, n \in Nat, l \in Nat :
          u = Cardinality(Unstarted) /\ k = Cardinality(Lookers) /\ n = sem_count /\ l = Len(tlist)
    BY <1>1
  <1>9. Cardinality(Unstarted') = u /\ Cardinality(Lookers') = k /\ sem_count' = n /\ Len(tlist') = l /\ calls' = calls
    BY <1>7, <1>8
  <1>a. PICK a \in Nat, b \in Nat, s \in Nat, z \in Nat, m \in Nat :
          a = Told /\ b = Told' /\ s = signals /\ z = signals' /\ m = InitCount + calls
    <2>1. InitCount + calls \in Nat
      BY <1>1, SMTT(30)
    <2> QED
      BY <1>1, <1>2, <2>1
  <1>b. b + s <= a + z
    BY <1>a
  <1>10. UnitsBound'
    <2>1. n + a + l + u <= m + s
      BY <1>8, <1>a DEF RecvIInv, UnitsBound
    <2>2. n + b + l + u <= m + z
      BY <1>b, <2>1, SMTT(30)
    <2> QED
      BY <1>9, <1>a, <2>2 DEF UnitsBound
  <1>11. PacketsSeen'
    <2>1. PICK c \in Nat, d \in Nat : c = recv_q /\ d = recv_q'
      BY <1>1, <1>2
    <2>2. recv_timeout = 0 /\ ~peeked /\ shut = "open" => c <= n + a + k
      BY <1>8, <1>a, <2>1 DEF RecvIInv, PacketsSeen
    <2>3. shut' = "open" => shut = "open" /\ d + a <= c + b
      BY <1>a, <2>1
    <2>4. recv_timeout = 0 /\ ~peeked /\ shut' = "open" => d <= n + b + k
      BY <2>2, <2>3, SMTT(30)
    <2>5. recv_timeout' = 0 /\ ~peeked' /\ shut' = "open" => d <= n + b + k
      BY <2>4
    <2> QED
      BY <1>9, <1>a, <2>1, <2>5 DEF PacketsSeen
  <1> QED
    BY <1>3, <1>4, <1>5, <1>6, <1>10, <1>11 DEF RecvIInv

\* Those steps.
LEMMA AsideSteps ==
  ASSUME RecvFits, RecvIInv,
         \/ \E x \in Ctx : recv_resume(x)
         \/ signal_push \/ clock_end \/ shutdown_mark \/ shutdown_clear \/ shutdown_wake
         \/ UNCHANGED skVars
  PROVE  RecvIInv'
  <1>1. /\ signals \in Nat /\ recv_q \in Nat /\ Told \in Nat /\ sem_count \in Nat /\ MaxSignals \in Nat
        /\ signals \in 0..MaxSignals /\ recv_q \in 0..signals /\ sig \in {"idle", "give"}
        /\ shut \in {"open", "clear", "wake", "shut"} /\ RecvSem /\ RecvTimer
    BY RecvFacts, SocketAssumption DEF RecvIInv, SkTypes
  <1>2. ASSUME NEW x \in Ctx, recv_resume(x) PROVE RecvIInv'
    <2>1. SemResume(x) /\ UNCHANGED <<tmVars, skOnly>>
      BY <1>2 DEF recv_resume
    <2>2. /\ status[x] = "ready" /\ status' = [status EXCEPT ![x] = "running"] /\ sem_count' = sem_count
      BY <2>1 DEF SemResume, Dispatch, semOnly
    <2>3. RecvSem'
      <3>1. SemTypes' /\ SemWaiters' /\ sem_wait' = sem_wait
        BY <1>1, <2>1, QuietStep DEF RecvSem
      <3> QED
        BY <1>1, <2>2, <3>1 DEF RecvSem, CountInv
    <2>4. UNCHANGED <<users, recv_timeout, call, calls, left, recv_q, signals, sig, shut, peeked>>
      BY <2>1 DEF skOnly
    <2>5. RecvTimer' /\ UNCHANGED <<now, tlist, due>>
      BY <1>1, <2>1, <2>4, SameTimer DEF RecvTimer
    <2>6. \A y \in Ctx : /\ Blocked(y)' <=> Blocked(y)
                         /\ status'[y] # "running" => status[y] # "running"
      BY <1>1, <2>2 DEF Blocked, RecvSem, SemTypes
    <2>7. Told' = Told
      BY <2>4 DEF Told
    <2> QED
      BY <1>1, <2>2, <2>3, <2>4, <2>5, <2>6, <2>7, AsideStep, SMTT(30)
  <1>3. ASSUME UNCHANGED <<semVars, tmVars, users, recv_timeout, call, calls, left, peeked>>,
               signals' \in 0..MaxSignals, recv_q' \in 0..signals', sig' \in {"idle", "give"},
               shut' \in {"open", "clear", "wake", "shut"}, Told' + signals <= Told + signals',
               shut' = "open" => shut = "open" /\ recv_q' + Told <= recv_q + Told'
        PROVE  RecvIInv'
    <2>1. RecvSem' /\ UNCHANGED <<status, sem_count>> /\ \A y \in Ctx : Blocked(y)' <=> Blocked(y)
      BY <1>1, <1>3, SameSem
    <2>2. RecvTimer' /\ UNCHANGED <<now, tlist, due>>
      BY <1>1, <1>3, SameTimer DEF RecvTimer
    <2>3. UNCHANGED <<sem_count, now, tlist, due, users, call, calls, recv_timeout, left, peeked>>
      BY <1>3, <2>1, <2>2
    <2>4. \A y \in Ctx : status'[y] # "running" => status[y] # "running"
      BY <2>1
    <2> QED
      BY <1>3, <2>1, <2>2, <2>3, <2>4, AsideStep
  <1>4. CASE signal_push
    <2>1. /\ sig = "idle" /\ shut = "open" /\ signals < MaxSignals /\ shut' = shut
          /\ recv_q' = recv_q + 1 /\ signals' = signals + 1 /\ sig' = "give"
          /\ UNCHANGED <<semVars, tmVars, users, recv_timeout, call, calls, left, peeked>>
      BY <1>4 DEF signal_push
    <2>2. Told = 0 /\ Told' = 1
      BY <2>1 DEF Told
    <2>3. signals' \in 0..MaxSignals /\ recv_q' \in 0..signals'
      BY <1>1, <2>1, SMTT(30)
    <2>4. Told' + signals <= Told + signals' /\ recv_q' + Told <= recv_q + Told'
      BY <1>1, <2>1, <2>2, SMTT(30)
    <2> QED
      BY <1>1, <1>3, <2>1, <2>3, <2>4
  <1>5. CASE clock_end
    <2>1. inc_end /\ UNCHANGED <<semVars, skOnly>>
      BY <1>5 DEF clock_end
    <2>2. in_irq' = FALSE /\ UNCHANGED <<now, tlist, tstart, tdelay, due, adding>>
      BY <2>1 DEF inc_end
    <2>3. UNCHANGED <<users, recv_timeout, call, calls, left, recv_q, signals, sig, shut, peeked>>
      BY <2>1 DEF skOnly
    <2>4. RecvTimer'
      <3>1. [TmNext]_tmVars
        BY <2>1 DEF TmNext
      <3>2. TmIInv'
        BY <1>1, <3>1, TimerStep DEF RecvFits, RecvTimer
      <3> QED
        BY <1>1, <2>2, <3>2 DEF RecvTimer
    <2>5. RecvSem' /\ UNCHANGED <<status, sem_count>> /\ \A y \in Ctx : Blocked(y)' <=> Blocked(y)
      BY <1>1, <2>1, SameSem
    <2>6. Told' = Told
      BY <2>3 DEF Told
    <2> QED
      BY <1>1, <2>2, <2>3, <2>4, <2>5, <2>6, AsideStep, SMTT(30)
  <1>6. CASE shutdown_mark \/ shutdown_clear \/ shutdown_wake
    <2>1. /\ recv_q' \in {recv_q, 0} /\ shut' \in {"clear", "wake", "shut"}
          /\ UNCHANGED <<tmVars, users, recv_timeout, peeked, call, calls, left, signals, sig>>
      BY <1>1, <1>6 DEF shutdown_mark, shutdown_clear, shutdown_wake
    <2>2. UNCHANGED semVars
      <3>1. ~(sem_count < 0)
        BY <1>1, SMTT(30)
      <3> QED
        BY <1>6, <3>1 DEF shutdown_mark, shutdown_clear, shutdown_wake, semVars, semOnly
    <2>3. Told' = Told
      BY <2>1 DEF Told
    <2>4. signals' \in 0..MaxSignals /\ recv_q' \in 0..signals' /\ Told' + signals <= Told + signals'
      BY <1>1, <2>1, <2>3, SMTT(30)
    <2> QED
      BY <1>1, <1>3, <2>1, <2>2, <2>4
  <1>7. CASE UNCHANGED skVars
    <2>1. UNCHANGED <<semVars, tmVars, users, recv_timeout, call, calls, left, recv_q, signals, sig, shut, peeked>>
      BY <1>7 DEF skVars, skOnly
    <2>2. Told' = Told
      BY <2>1 DEF Told
    <2> QED
      BY <1>1, <1>3, <2>1, <2>2, SMTT(30)
  <1> QED
    BY <1>2, <1>4, <1>5, <1>6, <1>7

\* A unit is given: a waiter that gets it looks at the queue, and the only
\* receiver of a socket finds it if it does not sleep.
LEMMA Given ==
  ASSUME RecvFits, RecvIInv, GiveUnits(1), asked' = asked, sem_count + 1 < CountHalf,
         UNCHANGED <<users, recv_timeout, call, left, now, peeked>>
  PROVE  /\ RecvSem' /\ Callers' /\ PendingInv' /\ Unstarted' = Unstarted
         /\ sem_count' \in Nat /\ sem_count' <= sem_count + 1 /\ Cardinality(Lookers') \in Nat
         /\ sem_count' + Cardinality(Lookers') = sem_count + Cardinality(Lookers) + 1
  <1>1. /\ sem_count \in Nat /\ call \in [Ctx -> Call] /\ status \in [Ctx -> {"ready", "running", "blocked"}]
        /\ Cardinality(Lookers) \in Nat /\ users \subseteq Ctx /\ Callers
    BY RecvFacts DEF RecvIInv, SkTypes
  <1>2. Unstarted' = Unstarted
    BY DEF Unstarted
  <1>3. /\ RecvSem' /\ sem_count' >= 0 /\ sem_count' <= sem_count + 1
        /\ \/ /\ sem_wait = <<>> /\ sem_count' = sem_count + 1
              /\ \A x \in Ctx : status'[x] = status[x] /\ status[x] # "blocked"
           \/ /\ sem_wait # <<>> /\ sem_count' = sem_count
              /\ \E w \in Ctx : /\ status[w] = "blocked" /\ w = sem_wait[1]
                                /\ status' = [status EXCEPT ![w] = "ready"]
    BY GiveOne DEF RecvIInv
  <1>4. sem_count' \in Nat
    BY <1>3, SMTT(30) DEF RecvSem, SemTypes
  <1>5. ASSUME \A x \in Ctx : status'[x] # "running" => status[x] # "running" PROVE Callers'
    BY <1>1, <1>5 DEF Callers
  <1>6. CASE /\ sem_count' = sem_count + 1
             /\ \A x \in Ctx : status'[x] = status[x] /\ status[x] # "blocked"
    <2>1. Callers'
      BY <1>5, <1>6
    <2>2. \A x \in Ctx : ~Blocked(x) /\ ~Blocked(x)'
      BY <1>6 DEF Blocked
    <2>3. Lookers' = Lookers
      BY <2>2 DEF Lookers
    <2>4. PendingInv'
      <3>1. sem_count' >= 1
        BY <1>1, <1>6, SMTT(30)
      <3> QED
        BY <1>1, <2>2, <3>1 DEF PendingInv, PendingOf, RecvIInv
    <2>5. Cardinality(Lookers') = Cardinality(Lookers)
      BY <2>3
    <2> QED
      BY <1>1, <1>2, <1>3, <1>4, <1>6, <2>1, <2>4, <2>5, SMTT(30)
  <1>7. ASSUME sem_count' = sem_count, NEW w \in Ctx, status[w] = "blocked", status' = [status EXCEPT ![w] = "ready"]
        PROVE  /\ Callers' /\ PendingInv' /\ Cardinality(Lookers') \in Nat
               /\ sem_count' + Cardinality(Lookers') = sem_count + Cardinality(Lookers) + 1
    <2>1. Callers'
      <3>1. \A x \in Ctx : status'[x] # "running" => status[x] # "running"
        BY <1>1, <1>7
      <3> QED
        BY <1>5, <3>1
    <2>2. call[w].pc = "taken" /\ w \in users
      BY <1>1, <1>7 DEF Callers
    <2>3. /\ \A y \in Ctx : y # w => (Blocked(y)' <=> Blocked(y))
          /\ Blocked(w) /\ ~Blocked(w)'
      BY <1>1, <1>7 DEF Blocked
    <2>4. PICK U, V : U = Lookers /\ V = Lookers'
      OBVIOUS
    <2>5. /\ U \subseteq Ctx /\ V \subseteq Ctx /\ w \notin U /\ w \in V
          /\ \A y \in Ctx : y # w => (y \in U <=> y \in V)
      BY <2>2, <2>3, <2>4 DEF Lookers
    <2>6. Cardinality(V) = Cardinality(U) + 1 /\ Cardinality(U) \in Nat
      BY <2>5, OneDiffers
    <2>7. PendingInv'
      <3> SUFFICES ASSUME recv_timeout # 0, Cardinality(users) = 1, NEW y \in users PROVE PendingOf(y)'
        BY DEF PendingInv
      <3>1. y = w
        BY <1>1, <2>2, OnlyUser
      <3> QED
        BY <2>2, <2>3, <3>1 DEF PendingOf
    <2>8. Cardinality(Lookers') = Cardinality(Lookers) + 1
      BY <2>4, <2>6
    <2> QED
      BY <1>1, <1>7, <2>1, <2>7, <2>8, SMTT(30)
  <1> QED
    BY <1>2, <1>3, <1>4, <1>6, <1>7

\* The unit of a packet is given.
LEMMA PacketGives ==
  ASSUME RecvFits, RecvIInv, signal_give
  PROVE  RecvIInv'
  <1>1. /\ left = "none" /\ sig = "give" /\ sig' = "idle" /\ GiveUnits(1) /\ asked' = asked
        /\ UNCHANGED <<tmVars, users, recv_timeout, peeked, call, calls, left, recv_q, signals, shut>>
    BY DEF signal_give, Sane
  <1>2. RecvTimer' /\ UNCHANGED <<now, tlist, due, in_irq>>
    BY <1>1, SameTimer DEF RecvIInv, RecvTimer
  <1>3. /\ sem_count \in Nat /\ Told \in Nat /\ Len(tlist) \in Nat /\ CountHalf \in Nat
        /\ Cardinality(Unstarted) \in Nat /\ Cardinality(Lookers) \in Nat
        /\ InitCount \in Nat /\ calls \in Nat /\ signals \in Nat /\ recv_q \in Nat
        /\ sem_count + Told + Len(tlist) < CountHalf
    BY RecvFacts
  <1>4. Told = 1 /\ Told' = 0
    BY <1>1 DEF Told
  <1>5. sem_count + 1 < CountHalf
    BY <1>3, <1>4, SMTT(30)
  <1>6. /\ RecvSem' /\ Callers' /\ PendingInv' /\ Unstarted' = Unstarted
        /\ sem_count' \in Nat /\ sem_count' <= sem_count + 1 /\ Cardinality(Lookers') \in Nat
        /\ sem_count' + Cardinality(Lookers') = sem_count + Cardinality(Lookers) + 1
    BY <1>1, <1>2, <1>5, Given
  <1>7. EventsInv'
    BY <1>1, <1>2 DEF RecvIInv, EventsInv, EventOf
  <1>8. SkTypes'
    BY <1>1 DEF RecvIInv, SkTypes
  <1>9. UnitsBound'
    <2>1. PICK u \in Nat, n \in Nat, l \in Nat, m \in Nat, z \in Nat :
            u = Cardinality(Unstarted) /\ n = sem_count /\ l = Len(tlist) /\ m = InitCount + calls + signals /\ z = sem_count'
      <3>1. InitCount + calls + signals \in Nat
        BY <1>3, SMTT(30)
      <3> QED
        BY <1>3, <1>6, <3>1
    <2>2. n + 1 + l + u <= m /\ z <= n + 1
      BY <1>4, <1>6, <2>1 DEF RecvIInv, UnitsBound
    <2>3. z + 0 + l + u <= m
      BY <2>2, SMTT(30)
    <2>4. Cardinality(Unstarted') = u /\ Len(tlist') = l /\ InitCount + calls' + signals' = m
      BY <1>1, <1>2, <1>6, <2>1
    <2> QED
      BY <1>4, <2>1, <2>3, <2>4 DEF UnitsBound
  <1>10. PacketsSeen'
    <2>1. PICK k \in Nat, n \in Nat, j \in Nat, z \in Nat :
            k = Cardinality(Lookers) /\ n = sem_count /\ j = Cardinality(Lookers') /\ z = sem_count'
      BY <1>3, <1>6
    <2>2. recv_timeout = 0 /\ ~peeked /\ shut = "open" => recv_q <= n + 1 + k
      BY <1>4, <2>1 DEF RecvIInv, PacketsSeen
    <2>3. z + j = n + k + 1
      BY <1>6, <2>1
    <2>4. recv_timeout' = 0 /\ ~peeked' /\ shut' = "open" => recv_q' <= z + 0 + j
      BY <1>1, <1>3, <2>2, <2>3, SMTT(30)
    <2> QED
      BY <1>4, <2>1, <2>4 DEF PacketsSeen
  <1> QED
    BY <1>1, <1>2, <1>6, <1>7, <1>8, <1>9, <1>10 DEF RecvIInv

\* A tick: an event may have expired.
LEMMA ClockStep ==
  ASSUME RecvFits, RecvIInv, clock
  PROVE  RecvIInv'
  <1>1. left = "none" /\ timer_inc_ticks(1) /\ UNCHANGED <<semVars, skOnly>>
    BY DEF clock, Sane
  <1>2. now' = now + 1 /\ in_irq' = TRUE /\ UNCHANGED <<tlist, tstart, tdelay, due, adding>>
    BY <1>1 DEF timer_inc_ticks
  <1>3. UNCHANGED <<users, recv_timeout, call, calls, left, recv_q, signals, sig, shut, peeked>>
    BY <1>1 DEF skOnly
  <1>4. RecvSem' /\ UNCHANGED <<status, sem_count>> /\ \A y \in Ctx : Blocked(y)' <=> Blocked(y)
    BY <1>1, SameSem DEF RecvIInv
  <1>5. RecvTimer'
    <2>1. [TmNext]_tmVars
      BY <1>1, SMTT(30) DEF TmNext
    <2>2. TmIInv'
      BY <2>1, TimerStep DEF RecvIInv, RecvTimer, RecvFits
    <2> QED
      BY <1>1, <1>2, <1>3, <2>2 DEF RecvTimer, RecvIInv
  <1>6. now \in Nat /\ recv_timeout \in Nat /\ \A y \in Ctx : call[y].since \in Nat
    BY RecvFacts DEF Call
  <1>7. Callers'
    BY <1>2, <1>3, <1>4, <1>6, SMTT(30) DEF RecvIInv, Callers
  <1>8. EventsInv'
    <2> SUFFICES ASSUME NEW y \in Ctx PROVE EventOf(y)'
      BY DEF EventsInv
    <2>1. EventOf(y)
      BY <1>1 DEF RecvIInv, EventsInv
    <2>2. now >= call[y].since + recv_timeout => now' >= call[y].since + recv_timeout
      BY <1>2, <1>6, SMTT(30)
    <2> QED
      BY <1>2, <1>3, <2>1, <2>2 DEF EventOf
  <1>9. PendingInv'
    <2> SUFFICES ASSUME recv_timeout # 0, Cardinality(users) = 1, NEW y \in users PROVE PendingOf(y)'
      BY <1>3 DEF PendingInv
    <2>1. PendingOf(y) /\ y \in Ctx
      BY DEF RecvIInv, PendingInv, SkTypes
    <2> QED
      BY <1>2, <1>3, <1>4, <2>1 DEF PendingOf
  <1>10. SkTypes'
    BY <1>3 DEF RecvIInv, SkTypes
  <1>11. Unstarted' = Unstarted /\ Lookers' = Lookers /\ Told' = Told
    BY <1>3, <1>4 DEF Unstarted, Lookers, Told
  <1>12. UnitsBound'
    BY <1>2, <1>3, <1>4, <1>11 DEF RecvIInv, UnitsBound
  <1>13. PacketsSeen'
    BY <1>3, <1>4, <1>11 DEF RecvIInv, PacketsSeen
  <1> QED
    BY <1>1, <1>3, <1>4, <1>5, <1>7, <1>8, <1>9, <1>10, <1>12, <1>13 DEF RecvIInv

\* A timeout expires: its receiver gets a unit in place of the event.
LEMMA TimeoutStep ==
  ASSUME RecvFits, RecvIInv, timeout
  PROVE  RecvIInv'
  <1>1. /\ in_irq /\ expired /\ tlist' = Tail(tlist) /\ GiveUnits(1) /\ asked' = asked
        /\ UNCHANGED <<now, tstart, tdelay, due, adding, in_irq, skOnly>>
    BY DEF timeout
  <1>2. UNCHANGED <<users, recv_timeout, call, calls, left, recv_q, signals, sig, shut, peeked>>
    BY <1>1 DEF skOnly
  <1>3. TmIInv /\ left = "none" /\ TicksFit /\ Event = Ctx
    BY <1>1, SocketAssumption DEF RecvIInv, RecvTimer, RecvFits
  <1>4. tlist # <<>> /\ expire(Head(tlist)) <= ticks
    BY <1>1 DEF expired
  <1>5. PICK h \in Ctx : h = Head(tlist)
    BY <1>3, <1>4, FirstLeaves
  <1>6. due[h] <= now
    BY <1>3, <1>4, <1>5, NoWrap
  <1>7. /\ Len(tlist) >= 1 /\ Len(tlist) \in Nat /\ Len(tlist') = Len(tlist) - 1 /\ Contains(tlist, h)
        /\ \A y : Contains(tlist', y) <=> y # h /\ Contains(tlist, y)
    BY <1>1, <1>3, <1>4, <1>5, FirstHas
  <1>8. RecvTimer'
    <2>1. [TmNext]_tmVars
      <3>1. expire_event
        BY <1>1 DEF expire_event
      <3> QED
        BY <3>1 DEF TmNext
    <2>2. TmIInv'
      BY <1>3, <2>1, TimerStep
    <2> QED
      BY <1>1, <1>2, <1>3, <2>2 DEF RecvTimer, RecvIInv
  <1>9. /\ sem_count \in Nat /\ Told \in Nat /\ CountHalf \in Nat /\ now \in Nat /\ due \in [Ctx -> Nat]
        /\ Cardinality(Unstarted) \in Nat /\ Cardinality(Lookers) \in Nat /\ recv_timeout \in Nat
        /\ InitCount \in Nat /\ calls \in Nat /\ signals \in Nat /\ recv_q \in Nat
        /\ sem_count + Told + Len(tlist) < CountHalf /\ call[h].since \in Nat
    BY RecvFacts DEF Call
  <1>10. sem_count + 1 < CountHalf
    BY <1>7, <1>9, SMTT(30)
  <1>11. /\ RecvSem' /\ Callers' /\ PendingInv' /\ Unstarted' = Unstarted
         /\ sem_count' \in Nat /\ sem_count' <= sem_count + 1 /\ Cardinality(Lookers') \in Nat
    BY <1>1, <1>2, <1>10, Given
  <1>12. recv_timeout # 0 /\ now >= call[h].since + recv_timeout
    <2>1. EventOf(h)
      BY <1>3 DEF RecvIInv, EventsInv
    <2>2. call[h].started /\ due[h] >= call[h].since + recv_timeout /\ recv_timeout # 0
      BY <1>7, <2>1 DEF EventOf
    <2>3. due[h] \in Nat
      BY <1>9
    <2> QED
      BY <1>6, <1>9, <2>2, <2>3, SMTT(30)
  <1>13. EventsInv'
    <2> SUFFICES ASSUME NEW y \in Ctx PROVE EventOf(y)'
      BY DEF EventsInv
    <2>1. EventOf(y)
      BY <1>3 DEF RecvIInv, EventsInv
    <2>2. CASE y = h
      BY <1>1, <1>2, <1>7, <1>12, <2>2 DEF EventOf
    <2>3. CASE y # h
      BY <1>1, <1>2, <1>7, <2>1, <2>3 DEF EventOf
    <2> QED
      BY <2>2, <2>3
  <1>14. SkTypes'
    BY <1>2 DEF RecvIInv, SkTypes
  <1>15. Told' = Told
    BY <1>2 DEF Told
  <1>16. UnitsBound'
    <2>1. PICK u \in Nat, n \in Nat, l \in Nat, m \in Nat, z \in Nat, a \in Nat :
            /\ u = Cardinality(Unstarted) /\ n = sem_count /\ l = Len(tlist) /\ m = InitCount + calls + signals
            /\ z = sem_count' /\ a = Told
      BY <1>7, <1>9, <1>11, SMTT(30)
    <2>2. n + a + l + u <= m /\ z <= n + 1
      BY <1>11, <2>1 DEF RecvIInv, UnitsBound
    <2>3. z + a + (l - 1) + u <= m
      BY <2>2, SMTT(30)
    <2>4. Cardinality(Unstarted') = u /\ Len(tlist') = l - 1 /\ InitCount + calls' + signals' = m
      BY <1>2, <1>7, <1>11, <2>1
    <2> QED
      BY <1>15, <2>1, <2>3, <2>4 DEF UnitsBound
  <1>17. PacketsSeen'
    BY <1>2, <1>12 DEF PacketsSeen
  <1> QED
    BY <1>2, <1>3, <1>8, <1>11, <1>13, <1>14, <1>16, <1>17 DEF RecvIInv

\* What the invariant says of packets, sleepers and timeouts.
LEMMA RecvSays ==
  ASSUME RecvFits, RecvIInv
  PROVE  RecvInv
  <1>1. /\ call \in [Ctx -> Call] /\ sem_count \in Nat /\ Told \in Nat /\ recv_q \in Nat
        /\ Cardinality(Lookers) \in Nat
    BY RecvFacts
  <1>2. SkTypeOK
    <2>1. \A x \in Ctx : call[x].pc \in {"idle", "again", "take", "taken"}
      BY <1>1 DEF Call
    <2>2. recv_q \in 0..MaxSignals
      BY SocketAssumption, SMTT(30) DEF RecvIInv, SkTypes
    <2> QED
      BY <2>1, <2>2 DEF RecvIInv, SkTypes, SkTypeOK
  <1>3. NoStuckRecv
    <2> SUFFICES ASSUME recv_timeout = 0, ~peeked, shut = "open", recv_q > 0, NEW x \in Ctx, Blocked(x), sig # "give"
                 PROVE  \E y \in Ctx : ~Blocked(y) /\ call[y].pc \in {"taken", "again", "take"}
      BY DEF NoStuckRecv
    <2>1. sem_count = 0
      <3>1. sem_wait # <<>>
        BY SMTT(30) DEF RecvIInv, RecvSem, SemWaiters, Waiting, Oldest, Blocked
      <3> QED
        BY <3>1 DEF RecvIInv, RecvSem, CountInv
    <2>2. Told = 0
      BY DEF Told
    <2>3. Cardinality(Lookers) >= 1
      BY <1>1, <2>1, <2>2, SMTT(30) DEF RecvIInv, PacketsSeen
    <2>4. Lookers # {}
      BY <2>3, FS_EmptySet, SMTT(30)
    <2> QED
      BY <2>4 DEF Lookers
  <1>4. TimeoutPending
    BY DEF RecvIInv, PendingInv, PendingOf, TimeoutPending
  <1> QED
    BY <1>2, <1>3, <1>4 DEF RecvInv, RecvIInv, PacketCancels

\* It holds of a socket that was created.
LEMMA RecvStart ==
  ASSUME RecvFits, SkInit
  PROVE  RecvIInv
  <1>1. /\ semaphore_init /\ TmInit /\ users \in SUBSET Ctx \ {{}} /\ recv_timeout \in Timeout
        /\ call = [x \in Ctx |-> NoCall] /\ calls = 0 /\ left = "none"
        /\ recv_q = 0 /\ signals = 0 /\ sig = "idle" /\ shut = "open" /\ peeked = FALSE
    BY DEF SkInit
  <1>2. NoCall \in Call /\ NoCall.pc = "idle" /\ NoCall.flag = "wait" /\ NoCall.since = 0 /\ ~NoCall.started
    BY DEF NoCall, Call
  <1>3. RecvSem /\ sem_count = InitCount /\ \A x \in Ctx : status[x] = "running"
    <2>1. SemTypes /\ SemWaiters /\ sem_wait = <<>> /\ sem_count = InitCount
      BY <1>1, SemStart
    <2>2. \A x \in Ctx : status[x] = "running"
      BY <1>1 DEF semaphore_init
    <2> QED
      BY <2>1, <2>2 DEF RecvSem, CountInv, RecvFits
  <1>4. RecvTimer /\ now = 0 /\ tlist = <<>> /\ \A x : ~Contains(tlist, x)
    <2>1. now = 0 /\ tlist = <<>> /\ adding = NoEvent /\ in_irq = FALSE
      BY <1>1 DEF TmInit
    <2>2. TmIInv
      BY <1>1, TimerStart DEF RecvFits
    <2>3. \A x : ~Contains(tlist, x)
      BY <2>1, SMTT(30) DEF Contains
    <2> QED
      BY <1>1, <2>1, <2>2, <2>3 DEF RecvTimer
  <1>5. SkTypes
    <2>1. call \in [Ctx -> Call] /\ calls \in 0..MaxRecv /\ signals \in 0..MaxSignals /\ recv_q \in 0..signals
      BY <1>1, <1>2, SocketAssumption, SMTT(30)
    <2>2. users \subseteq Ctx
      BY <1>1
    <2>3. peeked \in BOOLEAN
      BY <1>1
    <2> QED
      BY <1>1, <2>1, <2>2, <2>3 DEF SkTypes
  <1>6. Callers
    BY <1>1, <1>2, <1>3, <1>4, SMTT(30) DEF Callers
  <1>7. UnitsBound
    <2>1. Unstarted = {}
      BY <1>1, <1>2 DEF Unstarted
    <2>2. Cardinality(Unstarted) = 0 /\ Told = 0 /\ Len(tlist) = 0
      BY <1>1, <1>4, <2>1, FS_EmptySet DEF Told
    <2>3. InitCount \in Int
      BY SemaphoreAssumption, SMTT(30)
    <2> QED
      BY <1>1, <1>3, <2>2, <2>3, SMTT(30) DEF UnitsBound
  <1>8. EventsInv /\ PendingInv
    BY <1>1, <1>2, <1>3, <1>4 DEF EventsInv, EventOf, PendingInv, PendingOf, Blocked
  <1>9. PacketsSeen
    <2>1. IsFiniteSet(Lookers)
      BY SemaphoreAssumption, FS_Subset DEF Lookers
    <2>2. Cardinality(Lookers) \in Nat /\ Told = 0 /\ sem_count \in Nat
      BY <1>1, <1>3, <2>1, FS_CardinalityType, SemaphoreAssumption, SMTT(30) DEF Told, RecvFits
    <2> QED
      BY <1>1, <2>2, SMTT(30) DEF PacketsSeen
  <1> QED
    BY <1>1, <1>3, <1>4, <1>5, <1>6, <1>7, <1>8, <1>9 DEF RecvIInv

\* Receiving from a socket: as long as timeouts are delays that the tick count
\* can hold, and the units given do not overflow the semaphore's count, nobody
\* sleeps beside a packet without a unit or another receiver on its way to it,
\* the only receiver of a socket never sleeps past its timeout, and a receive
\* that returns a packet leaves no event behind (socket.c:420-480).
THEOREM RecvSafe == ASSUME RecvFits PROVE SkSpec => []RecvInv
  <1>1. SkInit => RecvIInv
    BY RecvStart
  <1>2. RecvIInv /\ [SkNext]_skVars => RecvIInv'
    <2> SUFFICES ASSUME RecvIInv, [SkNext]_skVars PROVE RecvIInv'
      OBVIOUS
    <2>1. ASSUME NEW x \in Ctx, recv(x) \/ Receive(x) PROVE RecvIInv'
      BY <2>1, RecvStep, LeaveStep, EmptyStep, TakesStep, TakenStep, AsideSteps DEF Receive
    <2>2. CASE signal_give \/ clock \/ timeout
      BY <2>2, PacketGives, ClockStep, TimeoutStep
    <2>3. CASE signal_push \/ clock_end \/ shutdown_mark \/ shutdown_clear \/ shutdown_wake \/ UNCHANGED skVars
      BY <2>3, AsideSteps
    <2> QED
      BY <2>1, <2>2, <2>3 DEF SkNext
  <1>3. RecvIInv => RecvInv
    BY RecvSays
  <1> QED
    BY <1>1, <1>2, <1>3, PTL DEF SkSpec
=============================================================================
