------------------------------ MODULE SyncProofs ------------------------------
(***************************************************************************)
(* The synchronisation of the POSIX threads library.  MXInv holds of the   *)
(* mutexes of each type, for any number of threads and any depth of        *)
(* relocking; RWInv of read-write locks for any number of contexts that    *)
(* their count can tell; CDInv of condition variables for any number of    *)
(* producers and consumers; BarInv of barriers for any number of threads.  *)
(***************************************************************************)
EXTENDS PthreadCond, PthreadBarrier, RWLock, FiniteSetTheorems, TLAPS

\* Zenon proves what names no other prover, within 20 seconds
USE ZenonT(20)

-----------------------------------------------------------------------------
(* Wait queues.                                                            *)

\* What joining the end of a wait queue does to it.
LEMMA Joining ==
  ASSUME NEW S, NEW s \in Seq(S), NEW x \in S
  PROVE  /\ Append(s, x) \in Seq(S) /\ Append(s, x) # <<>>
         /\ Len(Append(s, x)) = Len(s) + 1
         /\ \A i \in 1..Len(s) : Append(s, x)[i] = s[i]
         /\ Append(s, x)[Len(s) + 1] = x
  BY SMTT(30)

\* What waking the oldest waiter does to its queue.
LEMMA Leaving ==
  ASSUME NEW S, NEW s \in Seq(S), s # <<>>
  PROVE  /\ Head(s) = s[1] /\ Head(s) \in S /\ 1 \in 1..Len(s)
         /\ SubSeq(s, 1 + 1, Len(s)) \in Seq(S)
         /\ Len(SubSeq(s, 1 + 1, Len(s))) = Len(s) - 1
         /\ \A i \in 1..(Len(s) - 1) : SubSeq(s, 1 + 1, Len(s))[i] = s[i + 1] /\ i + 1 \in 1..Len(s)
  <1> DEFINE n == Len(s)
  <1>1. n \in Nat \ {0} /\ Head(s) = s[1] /\ \A i \in 1..n : s[i] \in S
    BY SMTT(30)
  <1> HIDE DEF n
  <1>2. \A i \in 2..n : s[i] \in S
    BY <1>1, SMTT(30)
  <1>3. /\ SubSeq(s, 2, n) \in Seq(S)
        /\ Len(SubSeq(s, 2, n)) = IF 2 <= n THEN n - 2 + 1 ELSE 0
        /\ \A i \in 1..(n - 2 + 1) : SubSeq(s, 2, n)[i] = s[2 + i - 1]
    BY <1>1, <1>2, SMTT(30)
  <1>4. \A i \in 1..(n - 1) : 2 + i - 1 = i + 1 /\ i + 1 \in 1..n
    BY <1>1, SMTT(30)
  <1>5. \A i \in 1..(n - 1) : SubSeq(s, 2, n)[i] = s[i + 1]
    BY <1>1, <1>3, <1>4, SMTT(30)
  <1>6. Len(SubSeq(s, 2, n)) = n - 1 /\ 1 \in 1..n /\ 1 + 1 = 2
    BY <1>1, <1>3, SMTT(30)
  <1> QED
    BY <1>1, <1>3, <1>4, <1>5, <1>6 DEF n

-----------------------------------------------------------------------------
(* Mutexes.                                                                *)

\* Who waits is inside pthread_mutex_lock, once, and does not hold the mutex.
MXWaitInv ==
  /\ \A x \in wants : depth[x] = 0
  /\ \A i \in 1..Len(mx_wait) :
       /\ mx_wait[i] \in wants
       /\ \A j \in 1..Len(mx_wait) : mx_wait[i] = mx_wait[j] => i = j

\* A mutex somebody waits for is taken.  Only recursive ones are taken more
\* than once, so that handing over a mutex leaves the count as it is.
MXCountInv ==
  /\ mx_count = 0 => mx_wait = <<>> /\ \A x \in Ctx : depth[x] = 0
  /\ attr # "recursive" => mx_count <= 1

MXIInv == MXTypeOK /\ MutualExclusion /\ OwnerIsHolder /\ MXWaitInv /\ MXCountInv

\* A thread that finds the mutex free, or is its owner, takes it.
LEMMA EnterStep ==
  ASSUME MXIInv, NEW x \in Ctx, x \notin wants, Enter(x), SetOwner(x), depth[x] < MaxDepth,
         mx_count = 0 \/ (attr = "recursive" /\ owner = x),
         UNCHANGED <<attr, status, waitq, wants>>
  PROVE  MXIInv'
  <1> USE MutexAssumption DEF Enter, SetOwner, mx_wait
  <1>1. mx_count = depth[x]
    BY DEF MXIInv, MXTypeOK, MutualExclusion, OwnerIsHolder, MXCountInv
  <1>2. \A y \in Ctx : y # x => depth[y] = 0
    BY SMTT(30) DEF MXIInv, MXTypeOK, MutualExclusion, OwnerIsHolder, MXCountInv, Holders
  <1>3. MXTypeOK'
    BY <1>1, SMTT(30) DEF MXIInv, MXTypeOK
  <1>4. (MutualExclusion /\ OwnerIsHolder)'
    BY <1>1, <1>2, SMTT(30) DEF MXIInv, MXTypeOK, MutualExclusion, OwnerIsHolder, Holders
  <1>5. (MXWaitInv /\ MXCountInv)'
    BY <1>1, SMTT(30) DEF MXIInv, MXTypeOK, MXWaitInv, MXCountInv
  <1> QED
    BY <1>3, <1>4, <1>5 DEF MXIInv

\* A thread that does not hold a taken mutex waits for it.
LEMMA WaitStep ==
  ASSUME MXIInv, NEW x \in Ctx, x \notin wants, Wait(x, "mutex"), wants' = wants \cup {x},
         mx_count # 0, depth[x] = 0, UNCHANGED <<attr, mx_count, owner, depth>>
  PROVE  MXIInv'
  <1> DEFINE s == mx_wait
  <1>1. s \in Seq(Ctx) /\ mx_wait' = Append(s, x)
    BY MutexAssumption DEF MXIInv, MXTypeOK, Wait, mx_wait
  <1>2. MXTypeOK'
    BY <1>1, Joining, MutexAssumption, SMTT(30) DEF MXIInv, MXTypeOK, Wait, mx_wait
  <1>3. (MutualExclusion /\ OwnerIsHolder /\ MXCountInv)'
    BY DEF MXIInv, MutualExclusion, OwnerIsHolder, MXCountInv, Holders
  <1>4. MXWaitInv'
    <2> HIDE DEF s
    <2>1. /\ \A i \in 1..Len(s) : s[i] \in wants /\ \A j \in 1..Len(s) : s[i] = s[j] => i = j
          /\ \A y \in wants : depth[y] = 0
      BY DEF MXIInv, MXWaitInv, s
    <2>2. \A i \in 1..(Len(s) + 1) : i \in 1..Len(s) \/ i = Len(s) + 1
      BY <1>1, SMTT(30)
    <2> QED
      BY <1>1, <2>1, <2>2, Joining, SMTT(30) DEF MXWaitInv
  <1> QED
    BY <1>2, <1>3, <1>4 DEF MXIInv

\* Unlocking for the last time frees the mutex, or leaves it, as it is, to the
\* oldest waiter.
LEMMA HandOverStep ==
  ASSUME MXIInv, NEW x \in Ctx, mx_count = 1, depth[x] = 1, HandOver(x, 0), UNCHANGED attr
  PROVE  MXIInv'
  <1> USE MutexAssumption
  <1>1. \A y \in Ctx : y # x => depth[y] = 0
    BY SMTT(30) DEF MXIInv, MXTypeOK, MutualExclusion, Holders
  <1>2. CASE mx_wait = <<>>
    <2>1. MXTypeOK'
      BY <1>2, SMTT(30) DEF MXIInv, MXTypeOK, HandOver, SetOwner
    <2>2. mx_count' = 0 /\ \A y \in Ctx : depth'[y] = 0
      BY <1>1, <1>2, SMTT(30) DEF MXIInv, MXTypeOK, HandOver
    <2>3. (MutualExclusion /\ OwnerIsHolder)'
      BY <2>2, SMTT(30) DEF MutualExclusion, OwnerIsHolder, Holders
    <2>4. mx_wait' = <<>> /\ wants' = wants
      BY <1>2 DEF HandOver, mx_wait
    <2>5. (MXWaitInv /\ MXCountInv)'
      BY <2>1, <2>2, <2>4, SMTT(30) DEF MXWaitInv, MXCountInv, MXTypeOK
    <2> QED
      BY <2>1, <2>3, <2>5 DEF MXIInv
  <1>3. CASE mx_wait # <<>>
    <2> DEFINE s == mx_wait
               h == Head(s)
    <2>1. s \in Seq(Ctx) /\ s # <<>> /\ mx_wait' = SubSeq(s, 1 + 1, Len(s))
      BY <1>3 DEF MXIInv, MXTypeOK, HandOver, Wake, WakeMany, mx_wait
    <2> HIDE DEF s
    <2>2. /\ h = s[1] /\ h \in Ctx /\ 1 \in 1..Len(s)
          /\ mx_wait' \in Seq(Ctx) /\ Len(mx_wait') = Len(s) - 1
          /\ \A i \in 1..(Len(s) - 1) : mx_wait'[i] = s[i + 1] /\ i + 1 \in 1..Len(s)
      BY <2>1, Leaving
    <2>3. /\ \A i \in 1..Len(s) : s[i] \in wants /\ \A j \in 1..Len(s) : s[i] = s[j] => i = j
          /\ \A y \in wants : depth[y] = 0
      BY DEF MXIInv, MXWaitInv, s
    <2>4. h # x /\ depth[h] = 0
      BY <2>2, <2>3, SMTT(30)
    <2>5. /\ mx_count' = 1 /\ wants' = wants \ {h} /\ SetOwner(h)
          /\ depth' = [depth EXCEPT ![x] = 0, ![h] = 1]
      BY <1>3, <2>2, <2>4, SMTT(30) DEF HandOver, s, MXIInv, MXTypeOK
    <2> HIDE DEF h
    <2>6. depth' = [y \in Ctx |-> IF y = h THEN 1 ELSE 0]
      BY <1>1, <2>2, <2>4, <2>5 DEF MXIInv, MXTypeOK
    <2>7. MXTypeOK'
      <3>1. status' \in [Ctx -> {"ready", "running", "blocked"}]
        BY <1>3 DEF HandOver, Wake, WakeMany, MXIInv, MXTypeOK
      <3>2. waitq' = [waitq EXCEPT !["mutex"] = mx_wait']
        BY <1>3 DEF HandOver, Wake, WakeMany, MXIInv, MXTypeOK, mx_wait
      <3>3. waitq' \in [Queue -> Seq(Ctx)]
        BY <2>2, <3>2 DEF MXIInv, MXTypeOK
      <3>4. mx_count' \in 0..MaxDepth /\ depth' \in [Ctx -> 0..MaxDepth]
        <4>1. 0 \in 0..MaxDepth /\ 1 \in 0..MaxDepth
          BY SMTT(30)
        <4> QED
          BY <2>5, <2>6, <4>1
      <3>5. owner' \in Ctx \cup {None} /\ wants' \subseteq Ctx /\ attr' \in Types
        <4>1. owner' = IF attr = "normal" THEN owner ELSE h
          BY <2>5 DEF SetOwner
        <4>2. owner \in Ctx \cup {None} /\ wants \subseteq Ctx /\ attr \in Types
          BY DEF MXIInv, MXTypeOK
        <4> QED
          BY <2>2, <2>5, <4>1, <4>2
      <3> QED
        BY <3>1, <3>3, <3>4, <3>5 DEF MXTypeOK
    <2>8. (MutualExclusion /\ OwnerIsHolder /\ MXCountInv)'
      <3>1. MutualExclusion'
        BY <2>5, <2>6, SMTT(30) DEF MutualExclusion, Holders
      <3>2. OwnerIsHolder'
        BY <2>5, <2>6, SMTT(30) DEF OwnerIsHolder, SetOwner
      <3>3. MXCountInv'
        BY <2>5, SMTT(30) DEF MXCountInv
      <3> QED
        BY <3>1, <3>2, <3>3
    <2>9. MXWaitInv'
      <3>1. ASSUME NEW i \in 1..Len(mx_wait')
            PROVE  /\ mx_wait'[i] \in wants'
                   /\ \A j \in 1..Len(mx_wait') : mx_wait'[i] = mx_wait'[j] => i = j
        <4>1. i \in 1..(Len(s) - 1) /\ i + 1 # 1
          BY <2>1, <2>2, SMTT(30)
        <4>2. mx_wait'[i] = s[i + 1] /\ s[i + 1] # s[1] /\ s[i + 1] \in wants
          BY <2>2, <2>3, <4>1
        <4>3. ASSUME NEW j \in 1..Len(mx_wait'), mx_wait'[i] = mx_wait'[j] PROVE i = j
          <5>1. j \in 1..(Len(s) - 1)
            BY <2>1, <2>2
          <5>2. i + 1 = j + 1
            BY <2>2, <2>3, <4>1, <4>2, <4>3, <5>1
          <5> QED
            BY <4>1, <5>1, <5>2, SMTT(30)
        <4> QED
          BY <2>2, <2>5, <4>2, <4>3
      <3>2. \A y \in wants' : depth'[y] = 0
        BY <2>3, <2>5, <2>6 DEF MXIInv, MXTypeOK
      <3> QED
        BY <3>1, <3>2 DEF MXWaitInv
    <2> QED
      BY <2>7, <2>8, <2>9 DEF MXIInv
  <1> QED
    BY <1>2, <1>3

\* pthread_mutex_lock, for each type.
LEMMA LockStep ==
  ASSUME MXIInv, NEW x \in Ctx, "normal" \notin Relock, mutex_lock(x)
  PROVE  MXIInv'
  <1>1. /\ x \notin wants /\ UNCHANGED attr /\ attr \in {"normal", "errorcheck", "recursive"}
        /\ depth[x] < MaxDepth
        /\ attr = "normal" => depth[x] = 0
    BY MutexAssumption, SMTT(30) DEF mutex_lock, MXCalls, MXIInv, MXTypeOK
  <1>2. PICK taken \in BOOLEAN :
          /\ LockOrWait(x, taken)
          /\ taken => mx_count # 0 /\ (attr # "normal" => owner # x)
          /\ ~taken => mx_count = 0 \/ (attr = "recursive" /\ owner = x)
    <2>1. CASE attr = "normal"
      BY <2>1 DEF mutex_lock, normal_lock
    <2>2. CASE attr = "errorcheck"
      BY <2>2 DEF mutex_lock, errorcheck_lock
    <2>3. CASE attr = "recursive"
      BY <2>3 DEF mutex_lock, recursive_lock
    <2> QED
      BY <1>1, <2>1, <2>2, <2>3
  <1>3. CASE taken
    <2>1. depth[x] = 0
      BY <1>1, <1>2, <1>3, SMTT(30) DEF MXIInv, MXTypeOK, OwnerIsHolder
    <2> QED
      BY <1>1, <1>2, <1>3, <2>1, WaitStep DEF LockOrWait
  <1>4. CASE ~taken
    BY <1>1, <1>2, <1>4, EnterStep DEF LockOrWait
  <1> QED
    BY <1>3, <1>4

\* pthread_mutex_trylock, on a normal mutex.
LEMMA TryLockStep ==
  ASSUME MXIInv, NEW x \in Ctx, TryTypes \subseteq {"normal"}, mutex_trylock(x)
  PROVE  MXIInv'
  <1>1. attr = "normal" /\ mx_count = 0 /\ Enter(x)
    BY DEF mutex_trylock, normal_trylock
  <1>2. SetOwner(x) /\ x \notin wants /\ depth[x] < MaxDepth /\ UNCHANGED <<attr, status, waitq, wants>>
    BY <1>1 DEF mutex_trylock, SetOwner, MXCalls
  <1> QED
    BY <1>1, <1>2, EnterStep

\* pthread_mutex_unlock by the holder, for each type.
LEMMA UnlockStep ==
  ASSUME MXIInv, NEW x \in Ctx, mutex_unlock(x)
  PROVE  MXIInv'
  <1>1. /\ x \notin wants /\ UNCHANGED attr /\ attr \in {"normal", "errorcheck", "recursive"}
        /\ depth[x] \in 1..MaxDepth /\ mx_count = depth[x]
    BY MutexAssumption, SMTT(30) DEF mutex_unlock, MXCalls, MXIInv, MXTypeOK, MutualExclusion
  <1>2. CASE mx_count = 1
    <2>1. attr # "normal" => owner = x
      <3>1. depth[x] > 0 /\ mx_count # 0
        BY <1>1, <1>2, MutexAssumption, SMTT(30)
      <3> QED
        BY <3>1 DEF MXIInv, OwnerIsHolder
    <2>2. mx_count - 1 = 0 /\ mx_count # 0
      BY <1>2, SMTT(30)
    <2>3. HandOver(x, 0)
      <3>1. CASE attr = "normal"
        BY <2>2, <3>1 DEF mutex_unlock, normal_unlock, HandOver
      <3>2. CASE attr = "errorcheck"
        BY <2>1, <2>2, <3>2 DEF mutex_unlock, errorcheck_unlock, HandOver
      <3>3. CASE attr = "recursive"
        BY <1>2, <3>3 DEF mutex_unlock, recursive_unlock
      <3> QED
        BY <1>1, <3>1, <3>2, <3>3
    <2>4. depth[x] = 1
      BY <1>1, <1>2
    <2> QED
      BY <1>1, <1>2, <2>3, <2>4, HandOverStep
  <1>3. CASE mx_count # 1
    <2>1. attr = "recursive" /\ owner = x
      BY <1>1, <1>3, SMTT(30) DEF MXIInv, MXTypeOK, MXCountInv, OwnerIsHolder
    <2>2. /\ mx_count' = mx_count - 1 /\ depth' = [depth EXCEPT ![x] = @ - 1]
          /\ UNCHANGED <<status, waitq, owner, wants>>
      BY <1>3, <2>1 DEF mutex_unlock, recursive_unlock
    <2>3. MXTypeOK'
      <3>1. mx_count - 1 \in 0..MaxDepth /\ depth[x] - 1 \in 0..MaxDepth
        BY <1>1, MutexAssumption, SMTT(30)
      <3> QED
        BY <1>1, <2>2, <3>1 DEF MXIInv, MXTypeOK
    <2>4. \A y \in Ctx : y # x => depth[y] = 0
      BY <1>1, SMTT(30) DEF MXIInv, MXTypeOK, MutualExclusion, Holders
    <2>5. (MutualExclusion /\ OwnerIsHolder)'
      BY <1>1, <1>3, <2>1, <2>2, <2>4, SMTT(30) DEF MXIInv, MXTypeOK, MutualExclusion, OwnerIsHolder, Holders
    <2>6. (MXWaitInv /\ MXCountInv)'
      BY <1>1, <1>3, <2>1, <2>2, SMTT(30) DEF MXIInv, MXTypeOK, MXWaitInv, MXCountInv, mx_wait
    <2> QED
      BY <2>3, <2>5, <2>6 DEF MXIInv
  <1> QED
    BY <1>2, <1>3

\* Lock, trylock and unlock keep MXInv for each type of mutex: one thread holds
\* it, which is the owner, and nobody waits for itself.  trylock is used on
\* normal mutexes, which are not locked again by their holder; without the
\* first hypothesis the owner is not known (the errorcheck and recursive
\* trylocks do not record it), without the second a thread waits for itself.
THEOREM MutexSafe ==
  ASSUME TryTypes \subseteq {"normal"}, "normal" \notin Relock
  PROVE  MXSpec => []MXInv
  <1>1. pthread_mutex_init => MXIInv
    BY MutexAssumption, SMTT(30) DEF pthread_mutex_init, MXIInv, MXTypeOK, MutualExclusion, OwnerIsHolder,
       MXWaitInv, MXCountInv, Holders, mx_wait
  <1>2. MXIInv /\ [MXNext]_mxVars => MXIInv'
    <2> SUFFICES ASSUME MXIInv, [MXNext]_mxVars PROVE MXIInv'
      OBVIOUS
    <2>1. ASSUME NEW x \in Ctx, mutex_lock(x) \/ mutex_trylock(x) \/ mutex_unlock(x) PROVE MXIInv'
      BY <2>1, LockStep, TryLockStep, UnlockStep
    <2>2. ASSUME NEW x \in Ctx, MXResume(x) PROVE MXIInv'
      <3>1. UNCHANGED <<waitq, mxOnly>> /\ status' = [status EXCEPT ![x] = "running"]
        BY <2>2 DEF MXResume, Dispatch
      <3> QED
        BY <3>1 DEF MXIInv, MXTypeOK, MutualExclusion, OwnerIsHolder, MXWaitInv, MXCountInv,
           Holders, mx_wait, mxOnly
    <2>3. CASE UNCHANGED mxVars
      BY <2>3 DEF MXIInv, MXTypeOK, MutualExclusion, OwnerIsHolder, MXWaitInv, MXCountInv,
         Holders, mx_wait, mxOnly, mxVars
    <2> QED
      BY <2>1, <2>2, <2>3 DEF MXNext
  <1>3. MXIInv => MXInv
    BY DEF MXIInv, MXInv, MXWaitInv, NoSelfWait
  <1> QED
    BY <1>1, <1>2, <1>3, PTL DEF MXSpec

-----------------------------------------------------------------------------
(* Read-write locks.                                                       *)

\* A sequence without repetitions has as many elements as places.
LEMMA Counted ==
  ASSUME NEW S, NEW s \in Seq(S),
         \A i, j \in 1..Len(s) : s[i] = s[j] => i = j
  PROVE  Cardinality({s[i] : i \in 1..Len(s)}) = Len(s)
  <1> DEFINE n == Len(s)
             T == {s[i] : i \in 1..n}
             f == [i \in 1..n |-> s[i]]
  <1>1. n \in Nat
    BY SMTT(30)
  <1>2. f \in Bijection(1..n, T)
    <2>1. f \in [1..n -> T]
      OBVIOUS
    <2>2. \A i, j \in 1..n : f[i] = f[j] => i = j
      OBVIOUS
    <2>3. \A t \in T : \E i \in 1..n : f[i] = t
      OBVIOUS
    <2> QED
      BY <2>1, <2>2, <2>3 DEF Bijection, Injection, Surjection, IsInjective
  <1>3. ExistsBijection(1..n, T)
    BY <1>2 DEF ExistsBijection
  <1> QED
    BY <1>1, <1>3, FS_CountingElements

\* count tells who is in: any number of readers, or one writer.
InLock(rd, wr, c) ==
  \/ wr = {} /\ c = Cardinality(rd)
  \/ rd = {} /\ c = -1 /\ \E w \in Ctx : wr = {w}

HolderInv == InLock(Holds("rd"), Holds("wr"), rw_count)

\* Those in a queue are blocked and there once, for what the queue is for.
Queued(s, state) ==
  \A i \in 1..Len(s) :
    /\ rw_pc[s[i]] = state /\ status[s[i]] = "blocked"
    /\ \A j \in 1..Len(s) : s[i] = s[j] => i = j

RWQueueInv == Queued(waitq["wait_rd"], "rd") /\ Queued(waitq["wait_wr"], "wr")

\* Who holds the lock of a queue between two steps, and that an unlock which
\* is going to wake the readers leaves no writer behind.
RWLockInv ==
  /\ \A x \in Ctx : /\ (rw_pc[x] = "wakerd") <=> (lockWr = x)
                    /\ (rw_pc[x] = "rdq") <=> (lockRd = x)
                    /\ rw_pc[x] \in {"idle", "rdq", "wakerd"} => status[x] # "blocked"
  /\ lockWr # NoHolder => rw_count = 0 /\ waitq["wait_wr"] = <<>>

RWTypes ==
  /\ status \in [Ctx -> {"ready", "running", "blocked"}]
  /\ waitq \in [Queue -> Seq(Ctx)]
  /\ rw_count \in Int
  /\ rw_pc \in [Ctx -> {"idle", "rd", "wr", "rdq", "wakerd"}]
  /\ lockWr \in Ctx \cup {NoHolder} /\ lockRd \in Ctx \cup {NoHolder}

RWIInv == RWTypes /\ HolderInv /\ RWQueueInv /\ RWLockInv /\ NoWaiterLeft

\* What count tells: how many readers are in, or that one writer is.
LEMMA CountTells ==
  ASSUME IsFiniteSet(Ctx), RWIInv
  PROVE  /\ IsFiniteSet(Holds("rd")) /\ Cardinality(Holds("rd")) \in 0..Cardinality(Ctx)
         /\ Cardinality(Ctx) \in Nat
         /\ rw_count = 0 => Holds("rd") = {} /\ Holds("wr") = {}
         /\ rw_count < 0 => rw_count = -1 /\ Holds("rd") = {} /\ \E w \in Ctx : Holds("wr") = {w}
         /\ rw_count > 0 => Holds("wr") = {} /\ rw_count = Cardinality(Holds("rd"))
  <1>1. Holds("rd") \in SUBSET Ctx
    BY DEF Holds
  <1>2. /\ IsFiniteSet(Holds("rd")) /\ Cardinality(Holds("rd")) <= Cardinality(Ctx)
        /\ Cardinality(Holds("rd")) \in Nat /\ Cardinality(Ctx) \in Nat
    BY <1>1, FS_Subset, FS_CardinalityType
  <1>3. Cardinality(Holds("rd")) = 0 <=> Holds("rd") = {}
    BY <1>2, FS_EmptySet
  <1> QED
    BY <1>2, <1>3, SMTT(30) DEF RWIInv, HolderInv, InLock

\* The invariant implies what is checked.
LEMMA RWIInvImplies ==
  ASSUME IsFiniteSet(Ctx), RWIInv
  PROVE  RWInv
  <1>1. rw_count \in -1..Cardinality(Ctx)
    BY CountTells, SMTT(30) DEF RWIInv, HolderInv, InLock
  <1>2. RWTypeOK
    BY <1>1 DEF RWIInv, RWTypes, RWTypeOK
  <1>3. WriterAlone
    BY DEF RWIInv, HolderInv, InLock, WriterAlone
  <1>4. CountTellsHolders
    BY DEF RWIInv, HolderInv, InLock, CountTellsHolders
  <1> QED
    BY <1>2, <1>3, <1>4 DEF RWInv, RWIInv

\* Joining the end of a queue keeps what is said of those in it.
LEMMA QueuedJoining ==
  ASSUME NEW s \in Seq(Ctx), NEW x \in Ctx, NEW state, Queued(s, state),
         \A i \in 1..Len(s) : s[i] # x /\ rw_pc'[s[i]] = rw_pc[s[i]] /\ status'[s[i]] = status[s[i]],
         rw_pc'[x] = state, status'[x] = "blocked"
  PROVE  \A i \in 1..Len(Append(s, x)) :
           /\ rw_pc'[Append(s, x)[i]] = state /\ status'[Append(s, x)[i]] = "blocked"
           /\ \A j \in 1..Len(Append(s, x)) : Append(s, x)[i] = Append(s, x)[j] => i = j
  <1> DEFINE t == Append(s, x)
  <1>1. Len(t) = Len(s) + 1 /\ (\A i \in 1..Len(s) : t[i] = s[i]) /\ t[Len(s) + 1] = x /\ Len(s) \in Nat
    BY SMTT(30)
  <1> HIDE DEF t
  <1>2. \A i \in 1..Len(t) : i \in 1..Len(s) \/ i = Len(s) + 1
    BY <1>1, SMTT(30)
  <1>3. ASSUME NEW i \in 1..Len(t)
        PROVE  /\ rw_pc'[t[i]] = state /\ status'[t[i]] = "blocked"
               /\ \A j \in 1..Len(t) : t[i] = t[j] => i = j
    BY <1>1, <1>2, SMTT(30) DEF Queued
  <1> QED
    BY <1>3 DEF t

\* rwlock_rdlock, to wait: the reader takes the lock of the readers' queue.
LEMMA RdlockWaitStep ==
  ASSUME RWIInv, NEW x \in Ctx, rdlock_wait(x)
  PROVE  RWIInv'
  <1> USE RWLockAssumption DEF rdlock_wait, RWCalls
  <1>1. RWTypes'
    BY DEF RWIInv, RWTypes
  <1>2. Holds("rd")' = Holds("rd") /\ Holds("wr")' = Holds("wr")
    BY DEF RWIInv, RWTypes, Holds
  <1>3. HolderInv'
    BY <1>2 DEF RWIInv, HolderInv, InLock
  <1>4. RWQueueInv'
    BY SMTT(30) DEF RWIInv, RWTypes, RWQueueInv, Queued
  <1>5. RWLockInv'
    BY DEF RWIInv, RWTypes, RWLockInv
  <1>6. NoWaiterLeft'
    BY DEF RWIInv, RWTypes, NoWaiterLeft, WrBusy
  <1> QED
    BY <1>1, <1>3, <1>4, <1>5, <1>6 DEF RWIInv

\* ... and waits in it.  Whoever made it wait is still there.
LEMMA RdlockQueueStep ==
  ASSUME RWIInv, NEW x \in Ctx, rdlock_queue(x)
  PROVE  RWIInv'
  <1> USE RWLockAssumption DEF rdlock_queue, Wait
  <1> DEFINE s == waitq["wait_rd"]
  <1>1. RWTypes'
    BY SMTT(30) DEF RWIInv, RWTypes
  <1>2. Holds("rd")' = Holds("rd") /\ Holds("wr")' = Holds("wr")
    BY DEF RWIInv, RWTypes, Holds
  <1>3. HolderInv'
    BY <1>2 DEF RWIInv, HolderInv, InLock
  <1>4. /\ waitq'["wait_rd"] = Append(s, x) /\ waitq'["wait_wr"] = waitq["wait_wr"]
        /\ s \in Seq(Ctx)
    BY DEF RWIInv, RWTypes
  <1>5. RWQueueInv'
    <2>1. rw_pc'[x] = "rd" /\ status'[x] = "blocked"
      BY DEF RWIInv, RWTypes
    <2>2. \A i \in 1..Len(s) : s[i] # x /\ rw_pc'[s[i]] = rw_pc[s[i]] /\ status'[s[i]] = status[s[i]]
      BY SMTT(30) DEF RWIInv, RWTypes, RWQueueInv, Queued
    <2>3. Queued(waitq["wait_wr"], "wr")'
      BY <1>4, SMTT(30) DEF RWIInv, RWTypes, RWQueueInv, Queued
    <2>4. Queued(waitq["wait_rd"], "rd")'
      BY <1>4, <2>1, <2>2, QueuedJoining, SMTT(30) DEF RWIInv, RWQueueInv, Queued
    <2> QED
      BY <2>3, <2>4 DEF RWQueueInv
  <1>6. RWLockInv'
    BY DEF RWIInv, RWTypes, RWLockInv
  <1>7. NoWaiterLeft'
    <2>1. lockRd # NoHolder
      BY DEF RWIInv, RWTypes, RWLockInv
    <2> QED
      BY <1>4, <2>1 DEF RWIInv, RWTypes, NoWaiterLeft, WrBusy
  <1> QED
    BY <1>1, <1>3, <1>5, <1>6, <1>7 DEF RWIInv

\* rwlock_rdlock, to enter: nobody waits, or somebody is about to let in.
LEMMA RdlockEnterStep ==
  ASSUME IsFiniteSet(Ctx), RWIInv, NEW x \in Ctx, rdlock_enter(x)
  PROVE  RWIInv'
  <1> USE RWLockAssumption DEF rdlock_enter, RWCalls
  <1>1. RWTypes'
    BY SMTT(30) DEF RWIInv, RWTypes
  <1>2. /\ Holds("rd")' = Holds("rd") \cup {x} /\ Holds("wr")' = Holds("wr")
        /\ x \notin Holds("rd")
    BY DEF RWIInv, RWTypes, RWLockInv, Holds
  <1>3. /\ Holds("wr") = {} /\ rw_count = Cardinality(Holds("rd"))
    BY SMTT(30) DEF RWIInv, RWTypes, HolderInv, InLock, WrBusy
  <1>4. Cardinality(Holds("rd") \cup {x}) = Cardinality(Holds("rd")) + 1 /\ rw_count \in Nat
    BY <1>2, <1>3, CountTells, FS_AddElement, FS_CardinalityType
  <1>5. HolderInv'
    BY <1>2, <1>3, <1>4 DEF HolderInv, InLock
  <1>6. RWQueueInv'
    BY SMTT(30) DEF RWIInv, RWTypes, RWQueueInv, RWLockInv, Queued
  <1>7. RWLockInv'
    BY DEF RWIInv, RWTypes, RWLockInv
  <1>8. NoWaiterLeft'
    BY <1>4 DEF RWIInv, RWTypes, RWLockInv, NoWaiterLeft, WrBusy
  <1> QED
    BY <1>1, <1>5, <1>6, <1>7, <1>8 DEF RWIInv

\* rwlock_wrlock: the writer is alone, or waits.
LEMMA WrlockStep ==
  ASSUME IsFiniteSet(Ctx), RWIInv, NEW x \in Ctx, rwlock_wrlock(x)
  PROVE  RWIInv'
  <1> USE RWLockAssumption DEF rwlock_wrlock, RWCalls
  <1> DEFINE s == waitq["wait_wr"]
  <1>1. CASE rw_count # 0
    <2> USE <1>1 DEF Wait
    <2>1. RWTypes'
      <3>1. waitq' = [waitq EXCEPT !["wait_wr"] = Append(s, x)] /\ Append(s, x) \in Seq(Ctx)
        BY SMTT(30) DEF RWIInv, RWTypes
      <3>2. waitq' \in [Queue -> Seq(Ctx)] /\ status' \in [Ctx -> {"ready", "running", "blocked"}]
        BY <3>1 DEF RWIInv, RWTypes
      <3> QED
        BY <3>2 DEF RWIInv, RWTypes
    <2>2. Holds("rd")' = Holds("rd") /\ Holds("wr")' = Holds("wr")
      BY DEF RWIInv, RWTypes, RWLockInv, Holds
    <2>3. HolderInv'
      BY <2>2 DEF RWIInv, HolderInv, InLock
    <2>4. /\ waitq'["wait_wr"] = Append(s, x) /\ waitq'["wait_rd"] = waitq["wait_rd"]
          /\ s \in Seq(Ctx)
      BY DEF RWIInv, RWTypes
    <2>5. RWQueueInv'
      <3>1. rw_pc'[x] = "wr" /\ status'[x] = "blocked"
        BY DEF RWIInv, RWTypes
      <3>2. \A i \in 1..Len(s) : s[i] # x /\ rw_pc'[s[i]] = rw_pc[s[i]] /\ status'[s[i]] = status[s[i]]
        BY SMTT(30) DEF RWIInv, RWTypes, RWQueueInv, RWLockInv, Queued
      <3>3. Queued(waitq["wait_rd"], "rd")'
        BY <2>4, SMTT(30) DEF RWIInv, RWTypes, RWQueueInv, RWLockInv, Queued
      <3>4. Queued(waitq["wait_wr"], "wr")'
        BY <2>4, <3>1, <3>2, QueuedJoining, SMTT(30) DEF RWIInv, RWQueueInv, Queued
      <3> QED
        BY <3>3, <3>4 DEF RWQueueInv
    <2>6. RWLockInv'
      BY DEF RWIInv, RWTypes, RWLockInv
    <2>7. NoWaiterLeft'
      BY <2>4, Joining, SMTT(30) DEF RWIInv, RWTypes, NoWaiterLeft, WrBusy
    <2> QED
      BY <2>1, <2>3, <2>5, <2>6, <2>7 DEF RWIInv
  <1>2. CASE rw_count = 0
    <2> USE <1>2 DEF wqVars
    <2>1. RWTypes'
      BY SMTT(30) DEF RWIInv, RWTypes
    <2>2. Holds("rd") = {} /\ Holds("wr") = {}
      BY CountTells
    <2>3. Holds("rd")' = {} /\ Holds("wr")' = {x}
      BY <2>2 DEF RWIInv, RWTypes, RWLockInv, Holds
    <2>4. HolderInv'
      BY <2>3, SMTT(30) DEF HolderInv, InLock
    <2>5. RWQueueInv'
      BY SMTT(30) DEF RWIInv, RWTypes, RWQueueInv, RWLockInv, Queued
    <2>6. RWLockInv'
      BY DEF RWIInv, RWTypes, RWLockInv
    <2>7. NoWaiterLeft'
      BY SMTT(30) DEF RWIInv, RWTypes, NoWaiterLeft, WrBusy
    <2> QED
      BY <2>1, <2>4, <2>5, <2>6, <2>7 DEF RWIInv
  <1> QED
    BY <1>1, <1>2

\* The last one out leaves the lock to the oldest writer.
LEMMA UnlockToWriterStep ==
  ASSUME IsFiniteSet(Ctx), RWIInv, NEW x \in Ctx, rwlock_unlock(x),
         rw_count \in {1, -1}, waitq["wait_wr"] # <<>>
  PROVE  RWIInv'
  <1> USE RWLockAssumption
  <1> DEFINE s == waitq["wait_wr"]
             t == waitq'["wait_wr"]
             h == Head(s)
  <1>1. /\ rw_pc[x] \in {"rd", "wr"} /\ status[x] = "running" /\ lockWr = NoHolder
        /\ Wake("wait_wr") /\ rw_count' = -1 /\ rw_pc' = [rw_pc EXCEPT ![x] = "idle"]
        /\ UNCHANGED <<lockWr, lockRd>>
    BY DEF rwlock_unlock, RWCalls
  <1>2. s \in Seq(Ctx) /\ s # <<>>
    BY DEF RWIInv, RWTypes
  <1>3. /\ h = s[1] /\ h \in Ctx /\ 1 \in 1..Len(s) /\ t \in Seq(Ctx) /\ Len(t) = Len(s) - 1
        /\ \A i \in 1..(Len(s) - 1) : t[i] = s[i + 1] /\ i + 1 \in 1..Len(s)
    BY <1>1, <1>2, Leaving DEF Wake, WakeMany, RWIInv, RWTypes
  <1>4. /\ waitq' = [waitq EXCEPT !["wait_wr"] = t]
        /\ status' = [status EXCEPT ![h] = "ready"]
    <2>1. status' = [y \in Ctx |-> IF \E i \in 1..1 : s[i] = y THEN "ready" ELSE status[y]]
      BY <1>1 DEF Wake, WakeMany
    <2>2. \A y \in Ctx : (\E i \in 1..1 : s[i] = y) <=> y = h
      BY <1>3, SMTT(30)
    <2>3. status' = [y \in Ctx |-> IF y = h THEN "ready" ELSE status[y]]
      BY <2>1, <2>2
    <2>4. status' = [status EXCEPT ![h] = "ready"]
      BY <2>3 DEF RWIInv, RWTypes
    <2>5. waitq' = [waitq EXCEPT !["wait_wr"] = t]
      BY <1>1 DEF Wake, WakeMany, RWIInv, RWTypes
    <2> QED
      BY <2>4, <2>5
  <1>5. \A i \in 1..Len(s) : /\ rw_pc[s[i]] = "wr" /\ status[s[i]] = "blocked"
                             /\ \A j \in 1..Len(s) : s[i] = s[j] => i = j
    BY DEF RWIInv, RWQueueInv, Queued
  <1> HIDE DEF s, t, h
  <1>6. rw_pc[h] = "wr" /\ status[h] = "blocked" /\ h # x
    BY <1>1, <1>3, <1>5
  <1>7. RWTypes'
    <2>1. waitq' \in [Queue -> Seq(Ctx)] /\ status' \in [Ctx -> {"ready", "running", "blocked"}]
      BY <1>3, <1>4 DEF RWIInv, RWTypes
    <2>2. rw_pc' \in [Ctx -> {"idle", "rd", "wr", "rdq", "wakerd"}]
      BY <1>1 DEF RWIInv, RWTypes
    <2>3. rw_count' \in Int /\ lockWr' \in Ctx \cup {NoHolder} /\ lockRd' \in Ctx \cup {NoHolder}
      BY <1>1, SMTT(30) DEF RWIInv, RWTypes
    <2> QED
      BY <2>1, <2>2, <2>3 DEF RWTypes
  <1>8. Holds("rd") \cup Holds("wr") = {x}
    <2>1. x \in Holds("rd") \cup Holds("wr")
      BY <1>1 DEF Holds
    <2>2. CASE rw_count = -1
      BY <2>1, <2>2, CountTells, SMTT(30)
    <2>3. CASE rw_count = 1
      BY <2>1, <2>3, CountTells, FS_Singleton, SMTT(30)
    <2> QED
      BY <2>2, <2>3
  <1>9. Holds("rd")' = {} /\ Holds("wr")' = {h}
    BY <1>1, <1>3, <1>4, <1>6, <1>8, SMTT(30) DEF Holds, RWIInv, RWTypes
  <1>10. HolderInv'
    BY <1>1, <1>3, <1>9 DEF HolderInv, InLock
  <1>11. RWQueueInv'
    <2>1. Queued(waitq["wait_rd"], "rd")'
      <3>1. waitq'["wait_rd"] = waitq["wait_rd"]
        BY <1>4 DEF RWIInv, RWTypes
      <3> QED
        BY <1>1, <1>4, <1>6, <3>1, SMTT(30) DEF RWIInv, RWTypes, RWQueueInv, Queued
    <2>2. ASSUME NEW i \in 1..Len(t)
          PROVE  /\ rw_pc'[t[i]] = "wr" /\ status'[t[i]] = "blocked"
                 /\ \A j \in 1..Len(t) : t[i] = t[j] => i = j
      <3>1. i \in 1..(Len(s) - 1) /\ i + 1 # 1 /\ Len(s) \in Nat
        BY <1>2, <1>3, SMTT(30)
      <3>2. t[i] = s[i + 1] /\ s[i + 1] # s[1] /\ s[i + 1] \in Ctx
        BY <1>2, <1>3, <1>5, <3>1, SMTT(30)
      <3>3. rw_pc'[t[i]] = "wr" /\ status'[t[i]] = "blocked"
        BY <1>1, <1>3, <1>4, <1>5, <3>1, <3>2 DEF RWIInv, RWTypes
      <3>4. ASSUME NEW j \in 1..Len(t), t[i] = t[j] PROVE i = j
        <4>1. j \in 1..(Len(s) - 1)
          BY <1>2, <1>3
        <4>2. i + 1 = j + 1
          BY <1>3, <1>5, <3>1, <3>2, <3>4, <4>1
        <4> QED
          BY <3>1, <4>1, <4>2, SMTT(30)
      <3> QED
        BY <3>3, <3>4
    <2>3. Queued(waitq["wait_wr"], "wr")'
      BY <2>2 DEF Queued, t
    <2> QED
      BY <2>1, <2>3 DEF RWQueueInv
  <1>12. RWLockInv'
    BY <1>1, <1>4, <1>6 DEF RWIInv, RWTypes, RWLockInv
  <1>13. NoWaiterLeft'
    BY <1>1, SMTT(30) DEF NoWaiterLeft, WrBusy
  <1> QED
    BY <1>7, <1>10, <1>11, <1>12, <1>13 DEF RWIInv

\* Without a writer in the queue the last one out goes on to wake the readers;
\* a reader who is not the last one just leaves.
LEMMA UnlockStepRW ==
  ASSUME IsFiniteSet(Ctx), RWIInv, NEW x \in Ctx, rwlock_unlock(x),
         ~(rw_count \in {1, -1} /\ waitq["wait_wr"] # <<>>)
  PROVE  RWIInv'
  <1> USE RWLockAssumption
  <1>1. /\ rw_pc[x] \in {"rd", "wr"} /\ status[x] = "running" /\ lockWr = NoHolder
        /\ UNCHANGED <<status, waitq, lockRd>>
    BY DEF rwlock_unlock, RWCalls, wqVars
  <1>2. x \in Holds(rw_pc[x])
    BY <1>1 DEF Holds
  <1>3. CASE rw_count \in {1, -1}
    <2>1. waitq["wait_wr"] = <<>> /\ rw_count' = 0 /\ lockWr' = x /\ rw_pc' = [rw_pc EXCEPT ![x] = "wakerd"]
      BY <1>3 DEF rwlock_unlock
    <2>2. Holds("rd") \cup Holds("wr") = {x}
      <3>1. CASE rw_count = -1
        BY <1>1, <1>2, <3>1, CountTells, SMTT(30)
      <3>2. CASE rw_count = 1
        BY <1>1, <1>2, <3>2, CountTells, FS_Singleton, SMTT(30)
      <3> QED
        BY <1>3, <3>1, <3>2
    <2>3. Holds("rd")' = {} /\ Holds("wr")' = {}
      BY <1>1, <2>1, <2>2, SMTT(30) DEF Holds, RWIInv, RWTypes
    <2>4. HolderInv'
      BY <2>1, <2>3, FS_EmptySet DEF HolderInv, InLock
    <2>5. RWTypes'
      BY <1>1, <2>1, SMTT(30) DEF RWIInv, RWTypes
    <2>6. RWQueueInv'
      BY <1>1, <2>1, SMTT(30) DEF RWIInv, RWTypes, RWQueueInv, Queued
    <2>7. RWLockInv'
      BY <1>1, <2>1 DEF RWIInv, RWTypes, RWLockInv
    <2>8. NoWaiterLeft'
      BY <1>1, <2>1 DEF RWIInv, RWTypes, NoWaiterLeft, WrBusy
    <2> QED
      BY <2>4, <2>5, <2>6, <2>7, <2>8 DEF RWIInv
  <1>4. CASE rw_count \notin {1, -1}
    <2>1. rw_count' = rw_count - 1 /\ rw_pc' = [rw_pc EXCEPT ![x] = "idle"] /\ UNCHANGED lockWr
      BY <1>4 DEF rwlock_unlock
    <2>2. /\ rw_count \in Int /\ rw_count > 1
          /\ rw_count = Cardinality(Holds("rd")) /\ Holds("wr") = {} /\ x \in Holds("rd")
      <3>1. rw_count \in Int /\ rw_count # 0 /\ ~(rw_count < 0)
        BY <1>1, <1>2, <1>4, CountTells DEF RWIInv, RWTypes
      <3> QED
        BY <1>1, <1>2, <1>4, <3>1, CountTells, SMTT(30)
    <2>3. Holds("rd")' = Holds("rd") \ {x} /\ Holds("wr")' = {}
      BY <1>1, <2>1, <2>2 DEF Holds, RWIInv, RWTypes
    <2>4. Cardinality(Holds("rd") \ {x}) = rw_count - 1
      BY <2>2, CountTells, FS_RemoveElement
    <2>5. HolderInv'
      BY <2>1, <2>3, <2>4 DEF HolderInv, InLock
    <2>6. RWTypes'
      BY <1>1, <2>1, <2>2, SMTT(30) DEF RWIInv, RWTypes
    <2>7. RWQueueInv'
      BY <1>1, <2>1, SMTT(30) DEF RWIInv, RWTypes, RWQueueInv, Queued
    <2>8. RWLockInv'
      BY <1>1, <2>1 DEF RWIInv, RWTypes, RWLockInv
    <2>9. NoWaiterLeft'
      BY <1>1, <2>1, <2>2, SMTT(30) DEF RWIInv, RWTypes, RWLockInv, NoWaiterLeft, WrBusy
    <2> QED
      BY <2>5, <2>6, <2>7, <2>8, <2>9 DEF RWIInv
  <1> QED
    BY <1>3, <1>4

\* All the readers that wait are let in, and counted.
LEMMA WakeReadersStep ==
  ASSUME IsFiniteSet(Ctx), RWIInv, NEW x \in Ctx, unlock_wake_rd(x)
  PROVE  RWIInv'
  <1> USE RWLockAssumption
  <1> DEFINE s == waitq["wait_rd"]
             E == {s[i] : i \in 1..Len(s)}
  <1>1. /\ rw_pc[x] = "wakerd" /\ status[x] = "running" /\ lockRd = NoHolder
        /\ WakeMany("wait_rd", Len(s)) /\ rw_count' = rw_count + Len(s) /\ lockWr' = NoHolder
        /\ rw_pc' = [rw_pc EXCEPT ![x] = "idle"] /\ UNCHANGED lockRd
    BY DEF unlock_wake_rd
  <1>2. s \in Seq(Ctx) /\ Len(s) \in Nat /\ E \subseteq Ctx
    BY SMTT(30) DEF RWIInv, RWTypes
  <1>3. lockWr = x /\ rw_count = 0 /\ waitq["wait_wr"] = <<>>
    BY <1>1 DEF RWIInv, RWLockInv
  <1>4. waitq' = [waitq EXCEPT !["wait_rd"] = <<>>]
    <2>1. waitq' = [waitq EXCEPT !["wait_rd"] = SubSeq(s, Len(s) + 1, Len(s))]
      BY <1>1 DEF WakeMany
    <2>2. SubSeq(s, Len(s) + 1, Len(s)) = <<>>
      BY <1>2, SMTT(30)
    <2> QED
      BY <2>1, <2>2
  <1>5. status' = [y \in Ctx |-> IF y \in E THEN "ready" ELSE status[y]]
    BY <1>1 DEF WakeMany
  <1>6. \A i \in 1..Len(s) : /\ rw_pc[s[i]] = "rd" /\ status[s[i]] = "blocked"
                             /\ \A j \in 1..Len(s) : s[i] = s[j] => i = j
    BY DEF RWIInv, RWQueueInv, Queued
  <1>7. Cardinality(E) = Len(s)
    BY <1>2, <1>6, Counted
  <1>8. \A y \in E : rw_pc[y] = "rd" /\ status[y] = "blocked"
    BY <1>6
  <1> HIDE DEF E
  <1>9. Holds("rd")' = E /\ Holds("wr")' = {}
    <2>1. Holds("rd") = {} /\ Holds("wr") = {}
      BY <1>3, CountTells
    <2> QED
      BY <1>1, <1>2, <1>5, <1>8, <2>1 DEF Holds, RWIInv, RWTypes
  <1>10. rw_count' = Len(s)
    BY <1>1, <1>2, <1>3, SMTT(30)
  <1>11. HolderInv'
    BY <1>7, <1>9, <1>10 DEF HolderInv, InLock
  <1>12. RWTypes'
    <2>1. waitq' \in [Queue -> Seq(Ctx)]
      BY <1>4, SMTT(30) DEF RWIInv, RWTypes
    <2>2. status' \in [Ctx -> {"ready", "running", "blocked"}]
      BY <1>5 DEF RWIInv, RWTypes
    <2>3. rw_pc' \in [Ctx -> {"idle", "rd", "wr", "rdq", "wakerd"}]
      BY <1>1 DEF RWIInv, RWTypes
    <2> QED
      BY <1>1, <1>2, <1>10, <2>1, <2>2, <2>3, SMTT(30) DEF RWTypes
  <1>13. waitq'["wait_rd"] = <<>> /\ waitq'["wait_wr"] = <<>>
    BY <1>3, <1>4 DEF RWIInv, RWTypes
  <1>14. RWQueueInv'
    BY <1>13, SMTT(30) DEF RWQueueInv, Queued
  <1>15. RWLockInv'
    BY <1>1, <1>3, <1>5, <1>8, <1>12 DEF RWIInv, RWTypes, RWLockInv
  <1>16. NoWaiterLeft'
    BY <1>1, <1>13 DEF NoWaiterLeft
  <1> QED
    BY <1>11, <1>12, <1>14, <1>15, <1>16 DEF RWIInv

\* A woken context holds the lock whether or not it runs already.
LEMMA ResumeStep ==
  ASSUME RWIInv, NEW x \in Ctx, RWResume(x)
  PROVE  RWIInv'
  <1>1. /\ status[x] = "ready" /\ status' = [status EXCEPT ![x] = "running"]
        /\ UNCHANGED <<waitq, rw_count, rw_pc, lockWr, lockRd>>
    BY DEF RWResume, Dispatch, rwOnly
  <1>2. Holds("rd")' = Holds("rd") /\ Holds("wr")' = Holds("wr")
    BY <1>1 DEF Holds, RWIInv, RWTypes
  <1>3. HolderInv'
    BY <1>1, <1>2 DEF RWIInv, HolderInv, InLock
  <1>4. (RWTypes /\ RWQueueInv /\ RWLockInv /\ NoWaiterLeft)'
    BY <1>1, RWLockAssumption, SMTT(30) DEF RWIInv, RWTypes, RWQueueInv, Queued, RWLockInv, NoWaiterLeft, WrBusy
  <1> QED
    BY <1>3, <1>4 DEF RWIInv

\* The read-write lock of as many contexts as its count can tell keeps RWInv: a writer is
\* alone, count tells who is in, and nobody waits while nobody is in (for
\* callers of rwlock_rdlock, rwlock_wrlock, rwlock_tryrdlock and rwlock_unlock).
THEOREM RWLockSafe ==
  ASSUME IsFiniteSet(Ctx)
  PROVE  RWSpec => []RWInv
  <1>1. rwlock_init => RWIInv
    <2> SUFFICES ASSUME rwlock_init PROVE RWIInv
      OBVIOUS
    <2>1. Holds("rd") = {} /\ Holds("wr") = {}
      BY DEF rwlock_init, Holds
    <2>2. HolderInv
      BY <2>1, FS_EmptySet DEF rwlock_init, HolderInv, InLock
    <2> QED
      BY <2>2, RWLockAssumption, SMTT(30) DEF rwlock_init, RWIInv, RWTypes, RWQueueInv, Queued, RWLockInv, NoWaiterLeft
  <1>2. RWIInv /\ [RWNext]_rwVars => RWIInv'
    <2> SUFFICES ASSUME RWIInv, [RWNext]_rwVars PROVE RWIInv'
      OBVIOUS
    <2>1. ASSUME NEW x \in Ctx, RWEnter(x) PROVE RWIInv'
      BY <2>1, RdlockWaitStep, RdlockEnterStep, WrlockStep DEF RWEnter
    <2>2. ASSUME NEW x \in Ctx, RWProgress(x) PROVE RWIInv'
      BY <2>2, RdlockQueueStep, UnlockToWriterStep, UnlockStepRW, WakeReadersStep, ResumeStep DEF RWProgress
    <2>3. CASE UNCHANGED rwVars
      BY <2>3, SMTT(30) DEF rwVars, rwOnly, RWIInv, RWTypes, HolderInv, InLock, Holds, RWQueueInv, Queued,
         RWLockInv, NoWaiterLeft, WrBusy
    <2> QED
      BY <2>1, <2>2, <2>3 DEF RWNext
  <1>3. RWIInv => RWInv
    BY RWIInvImplies
  <1> QED
    BY <1>1, <1>2, <1>3, PTL DEF RWSpec

-----------------------------------------------------------------------------
(* Condition variables.                                                    *)

cond_wait == waitq["cond"]

CondWaiters == {cond_wait[i] : i \in 1..Len(cond_wait)}

\* the queue of the condition is locked by the thread that is about to wait,
\* consumers wait, producers signal and put no more than Puts items
CDPlaces ==
  /\ cLock \in Ctx \cup {None}
  /\ cd_pc \in [Ctx -> {"start", "check", "unlock", "sleep", "relock", "put", "signal", "release", "late", "leave"}]
  /\ items \in Nat /\ put \in [Ctx -> 0..Puts]
  /\ \A x \in Ctx : cd_pc[x] \in {"unlock", "sleep"} <=> cLock = x
  /\ \A x \in Consumer : cd_pc[x] \in {"start", "check", "unlock", "sleep", "relock", "leave"}
  /\ \A x \in Producer : /\ cd_pc[x] \in {"start", "put", "signal", "release", "late", "leave"}
                         /\ cd_pc[x] = "put" => put[x] < Puts

\* who sleeps waits for the condition or for the mutex, not for both, and once
CDWaitInv ==
  /\ \A x \in CondWaiters : /\ x \in Consumer /\ x \notin wants
                            /\ status[x] = "blocked" /\ cd_pc[x] = "relock"
  /\ \A i, j \in 1..Len(cond_wait) : cond_wait[i] = cond_wait[j] => i = j
  /\ \A x \in Ctx : status[x] = "blocked" => x \in wants \/ x \in CondWaiters

\* the producers that have yet to signal, the consumers that will look at items
Coming ==
  {x \in Ctx : \/ x \in Producer /\ cd_pc[x] \in {"signal", "release", "late"}
               \/ x \in Consumer /\ cd_pc[x] \in {"relock", "check"} /\ x \notin CondWaiters}

\* from the moment a consumer has found no item and locked the condition's
\* queue, each item has a producer yet to signal, or a consumer on its way
ComingInv == cond_wait # <<>> \/ cLock # None => items <= Cardinality(Coming)

\* the items that were put, one by one
Made == {p \in Producer \X (1..Puts) : p[2] <= put[p[1]]}

CDIInv ==
  /\ MXIInv /\ attr = "normal" /\ CDPlaces /\ CDWaitInv /\ ComingInv
  /\ items <= Cardinality(Made)

\* Coming and Made are finite.
LEMMA CondSets ==
  /\ IsFiniteSet(Coming) /\ Cardinality(Coming) \in Nat
  /\ IsFiniteSet(Coming') /\ Cardinality(Coming') \in Nat
  /\ IsFiniteSet(Made) /\ Cardinality(Made) \in Nat /\ Cardinality(Made) <= Puts * Cardinality(Producer)
  /\ IsFiniteSet(Made') /\ Cardinality(Made') \in Nat
  <1>1. Coming \subseteq Ctx /\ Coming' \subseteq Ctx /\ IsFiniteSet(Ctx) /\ Puts \in Nat
    BY CondAssumption DEF Coming
  <1>2. IsFiniteSet(Producer) /\ Cardinality(Producer) \in Nat
    BY CondAssumption, FS_Subset, FS_CardinalityType DEF Producer
  <1>3. IsFiniteSet(1..Puts) /\ Cardinality(1..Puts) = Puts
    BY <1>1, FS_Interval, SMTT(30)
  <1>4. /\ IsFiniteSet(Producer \X (1..Puts))
        /\ Cardinality(Producer \X (1..Puts)) = Cardinality(Producer) * Puts
    BY <1>2, <1>3, FS_Product
  <1>5. Made \subseteq Producer \X (1..Puts) /\ Made' \subseteq Producer \X (1..Puts)
    BY DEF Made
  <1>6. Cardinality(Producer) * Puts = Puts * Cardinality(Producer)
    BY <1>1, <1>2, SMTT(30)
  <1> QED
    BY <1>1, <1>4, <1>5, <1>6, FS_Subset, FS_CardinalityType

\* Nothing of the mutex changes when only its users do.
LEMMA MXAside ==
  ASSUME MXIInv, UNCHANGED mxOnly, waitq'["mutex"] = waitq["mutex"],
         status' \in [Ctx -> {"ready", "running", "blocked"}], waitq' \in [Queue -> Seq(Ctx)]
  PROVE  MXIInv'
  <1>1. mx_wait' = mx_wait
    BY DEF mx_wait
  <1>2. UNCHANGED <<attr, mx_count, owner, wants, depth>>
    BY DEF mxOnly
  <1>3. MXTypeOK'
    BY <1>2 DEF MXIInv, MXTypeOK
  <1>4. (MutualExclusion /\ OwnerIsHolder)'
    BY <1>2 DEF MXIInv, MutualExclusion, OwnerIsHolder, Holders
  <1>5. (MXWaitInv /\ MXCountInv)'
    BY <1>1, <1>2, SMTT(30) DEF MXIInv, MXWaitInv, MXCountInv
  <1> QED
    BY <1>3, <1>4, <1>5 DEF MXIInv

\* What a step of x may do to those who sleep: x itself, or somebody in the
\* mutex' queue, changes status; who sleeps then waits for the mutex, or sleeps
\* where it did.
Others(x) ==
  /\ \A y \in Ctx : y \notin wants /\ y # x => status'[y] = status[y] /\ y \notin wants'
  /\ \A y \in Ctx : status'[y] = "blocked" => y \in wants' \/ (status[y] = "blocked" /\ y \notin wants)

\* Locking the mutex.
LEMMA LockOthers ==
  ASSUME CDIInv, NEW x \in Ctx, mutex_lock(x)
  PROVE  MXIInv' /\ Others(x) /\ cond_wait' = cond_wait /\ attr' = "normal"
  <1> USE CondAssumption, MutexAssumption
  <1>1. MXIInv' /\ attr' = "normal"
    BY LockStep DEF CDIInv, mutex_lock
  <1>2. LockOrWait(x, mx_count # 0)
    BY DEF CDIInv, mutex_lock, normal_lock
  <1>3. CASE mx_count # 0
    <2>1. /\ status' = [status EXCEPT ![x] = "blocked"] /\ wants' = wants \cup {x}
          /\ waitq' = [waitq EXCEPT !["mutex"] = Append(@, x)]
      BY <1>2, <1>3 DEF LockOrWait, Wait
    <2> QED
      BY <1>1, <2>1 DEF Others, cond_wait, CDIInv, MXIInv, MXTypeOK
  <1>4. CASE ~(mx_count # 0)
    BY <1>1, <1>2, <1>4 DEF LockOrWait, Others, cond_wait
  <1> QED
    BY <1>3, <1>4

\* Unlocking it.
LEMMA UnlockOthers ==
  ASSUME CDIInv, NEW x \in Ctx, mutex_unlock(x)
  PROVE  MXIInv' /\ Others(x) /\ cond_wait' = cond_wait /\ attr' = "normal"
  <1> USE CondAssumption, MutexAssumption
  <1>1. MXIInv' /\ attr' = "normal"
    BY UnlockStep DEF CDIInv, mutex_unlock
  <1>2. HandOver(x, mx_count - 1)
    BY DEF CDIInv, mutex_unlock, normal_unlock
  <1>3. CASE mx_wait # <<>>
    <2>a. PICK h : h = Head(mx_wait)
      OBVIOUS
    <2>1. /\ wants' = wants \ {h}
          /\ status' = [y \in Ctx |-> IF \E i \in 1..1 : mx_wait[i] = y THEN "ready" ELSE status[y]]
          /\ waitq' = [waitq EXCEPT !["mutex"] = SubSeq(@, 1 + 1, Len(@))]
      BY <1>2, <1>3, <2>a DEF HandOver, Wake, WakeMany, mx_wait
    <2>2. mx_wait \in Seq(Ctx)
      BY DEF CDIInv, MXIInv, MXTypeOK, mx_wait
    <2>3. h = mx_wait[1] /\ 1 \in 1..Len(mx_wait)
      BY <1>3, <2>2, <2>a, SMTT(30)
    <2>4. h \in wants
      BY <2>3 DEF CDIInv, MXIInv, MXWaitInv
    <2>5. \A y \in Ctx : status'[y] = IF y = h THEN "ready" ELSE status[y]
      BY <2>1, <2>3, SMTT(30)
    <2>6. cond_wait' = cond_wait
      BY <2>1 DEF cond_wait, CDIInv, MXIInv, MXTypeOK
    <2> QED
      BY <1>1, <2>1, <2>4, <2>5, <2>6 DEF Others
  <1>4. CASE mx_wait = <<>>
    BY <1>1, <1>2, <1>4 DEF HandOver, Others, cond_wait
  <1> QED
    BY <1>3, <1>4

\* A step of x that leaves the condition's queue alone.
LEMMA OwnStep ==
  ASSUME CDIInv, NEW x \in Ctx, MXCalls(x), NEW p, cd_pc' = [cd_pc EXCEPT ![x] = p],
         Others(x), cond_wait' = cond_wait
  PROVE  /\ CDWaitInv' /\ CondWaiters' = CondWaiters /\ x \notin CondWaiters
         /\ \A y \in Ctx : y # x => (y \in Coming' <=> y \in Coming)
  <1>1. x \notin CondWaiters /\ CondWaiters' = CondWaiters /\ CondWaiters \subseteq Ctx
    BY CondAssumption DEF MXCalls, CDIInv, CDWaitInv, CondWaiters
  <1>2. cd_pc \in [Ctx -> {"start", "check", "unlock", "sleep", "relock", "put", "signal", "release", "late", "leave"}]
    BY DEF CDIInv, CDPlaces
  <1>3. \A y \in Ctx : y # x => cd_pc'[y] = cd_pc[y]
    BY <1>2
  <1>4. \A y \in CondWaiters : y \notin wants' /\ status'[y] = status[y]
    BY <1>1 DEF Others, CDIInv, CDWaitInv
  <1>5. \A y \in Ctx : status'[y] = "blocked" => y \in wants' \/ y \in CondWaiters
    BY DEF Others, CDIInv, CDWaitInv
  <1>6. CDWaitInv'
    BY <1>1, <1>3, <1>4, <1>5 DEF CDIInv, CDWaitInv
  <1>7. \A y \in Ctx : y # x => (y \in Coming' <=> y \in Coming)
    BY <1>1, <1>3 DEF Coming
  <1> QED
    BY <1>1, <1>6, <1>7

\* What becomes of the number of those who come, when only x does something.
LEMMA ComingCount ==
  ASSUME NEW x \in Ctx, \A y \in Ctx : y # x => (y \in Coming' <=> y \in Coming)
  PROVE  /\ x \in Coming' \/ x \notin Coming => Cardinality(Coming) <= Cardinality(Coming')
         /\ x \in Coming' /\ x \notin Coming => Cardinality(Coming') = Cardinality(Coming) + 1
         /\ x \in Coming => Cardinality(Coming) - 1 <= Cardinality(Coming')
  <1>1. Coming \subseteq Ctx /\ Coming' \subseteq Ctx
    BY DEF Coming
  <1>2. ASSUME x \in Coming' \/ x \notin Coming PROVE Cardinality(Coming) <= Cardinality(Coming')
    <2>1. Coming \subseteq Coming'
      BY <1>1, <1>2
    <2> QED
      BY <2>1, CondSets, FS_Subset
  <1>3. ASSUME x \in Coming', x \notin Coming PROVE Cardinality(Coming') = Cardinality(Coming) + 1
    <2>1. Coming' = Coming \cup {x}
      BY <1>1, <1>3
    <2> QED
      BY <1>3, <2>1, CondSets, FS_AddElement
  <1>4. ASSUME x \in Coming PROVE Cardinality(Coming) - 1 <= Cardinality(Coming')
    <2>1. Coming \ {x} \subseteq Coming'
      BY <1>1
    <2>2. Cardinality(Coming \ {x}) = Cardinality(Coming) - 1
      BY <1>4, CondSets, FS_RemoveElement
    <2> QED
      BY <2>1, <2>2, CondSets, FS_Subset, SMTT(30)
  <1> QED
    BY <1>2, <1>3, <1>4

\* pthread_cond_wait locks the queue when there is no item.
LEMMA WaitLockStep ==
  ASSUME CDIInv, NEW x \in Ctx, wait_lock(x)
  PROVE  CDIInv'
  <1> USE CondAssumption
  <1>1. /\ MXCalls(x) /\ cd_pc[x] = "check" /\ items = 0 /\ cLock = None /\ cLock' = x
        /\ cd_pc' = [cd_pc EXCEPT ![x] = "unlock"] /\ UNCHANGED <<mxVars, items, put>>
    BY DEF wait_lock, At, Goto
  <1>2. UNCHANGED <<status, waitq, mxOnly, attr, wants, cond_wait>>
    BY <1>1 DEF mxVars, mxOnly, cond_wait
  <1>3. MXIInv' /\ attr' = "normal"
    BY <1>2, MXAside DEF CDIInv, MXIInv, MXTypeOK
  <1>4. Others(x)
    BY <1>2 DEF Others
  <1>5. CDWaitInv'
    BY <1>1, <1>2, <1>4, OwnStep
  <1>6. CDPlaces'
    BY <1>1, MutexAssumption DEF CDIInv, CDPlaces, Producer
  <1>7. ComingInv'
    BY <1>1, CondSets, SMTT(30) DEF ComingInv
  <1>8. items' <= Cardinality(Made')
    BY <1>1, CondSets, SMTT(30)
  <1> QED
    BY <1>3, <1>5, <1>6, <1>7, <1>8 DEF CDIInv

\* Locking and unlocking the mutex, around the critical section or in
\* pthread_cond_wait.
LEMMA MutexStep ==
  ASSUME CDIInv, NEW x \in Ctx, wait_unlock(x) \/ wait_relock(x) \/ lock(x) \/ leave(x)
  PROVE  CDIInv'
  <1> USE CondAssumption
  <1>1. PICK p :
        /\ MXCalls(x) /\ cd_pc' = [cd_pc EXCEPT ![x] = p] /\ UNCHANGED <<cLock, items, put>>
        /\ mutex_lock(x) \/ mutex_unlock(x)
        /\ \/ cd_pc[x] = "unlock" /\ p = "sleep"
           \/ cd_pc[x] = "relock" /\ p = "check"
           \/ cd_pc[x] = "start" /\ x \in Consumer /\ p = "check"
           \/ cd_pc[x] = "start" /\ x \in Producer /\ put[x] < Puts /\ p = "put"
           \/ cd_pc[x] = "leave" /\ p = "start"
           \/ cd_pc[x] = "release" /\ p = "late"
    <2>1. CASE wait_unlock(x)
      BY <2>1 DEF wait_unlock, At, Goto
    <2>2. CASE wait_relock(x)
      BY <2>2 DEF wait_relock, At, Goto
    <2>3. CASE lock(x)
      <3>1. CASE x \in Consumer
        BY <2>3, <3>1 DEF lock, At, Goto
      <3>2. CASE x \notin Consumer
        BY <2>3, <3>2 DEF lock, At, Goto, Producer
      <3> QED
        BY <3>1, <3>2
    <2>4. CASE leave(x)
      <3>1. CASE cd_pc[x] = "release"
        BY <2>4, <3>1 DEF leave, At, Goto
      <3>2. CASE cd_pc[x] # "release"
        BY <2>4, <3>2 DEF leave, At, Goto
      <3> QED
        BY <3>1, <3>2
    <2> QED
      BY <2>1, <2>2, <2>3, <2>4
  <1>2. MXIInv' /\ Others(x) /\ cond_wait' = cond_wait /\ attr' = "normal"
    BY <1>1, LockOthers, UnlockOthers
  <1>3. /\ CDWaitInv' /\ CondWaiters' = CondWaiters /\ x \notin CondWaiters
        /\ \A y \in Ctx : y # x => (y \in Coming' <=> y \in Coming)
    BY <1>1, <1>2, OwnStep
  <1>4. cd_pc'[x] = p /\ \A y \in Ctx : y # x => cd_pc'[y] = cd_pc[y]
    BY <1>1 DEF CDIInv, CDPlaces
  <1>5. CDPlaces'
    BY <1>1, MutexAssumption DEF CDIInv, CDPlaces, Producer
  <1>6. x \in Coming' \/ x \notin Coming
    BY <1>1, <1>3, <1>4 DEF Coming, CDIInv, CDPlaces, Producer
  <1>7. ComingInv'
    BY <1>1, <1>2, <1>3, <1>6, ComingCount, CondSets, SMTT(30) DEF CDIInv, CDPlaces, ComingInv
  <1>8. items' <= Cardinality(Made')
    BY <1>1 DEF CDIInv, Made
  <1> QED
    BY <1>2, <1>3, <1>5, <1>7, <1>8 DEF CDIInv

\* A consumer takes an item.
LEMMA ConsumeStep ==
  ASSUME CDIInv, NEW x \in Ctx, consume(x)
  PROVE  CDIInv'
  <1> USE CondAssumption
  <1>1. /\ MXCalls(x) /\ cd_pc[x] = "check" /\ items > 0 /\ items' = items - 1
        /\ cd_pc' = [cd_pc EXCEPT ![x] = "leave"] /\ UNCHANGED <<mxVars, cLock, put>>
    BY DEF consume, At, Goto
  <1>2. UNCHANGED <<status, waitq, mxOnly, attr, wants, cond_wait>>
    BY <1>1 DEF mxVars, mxOnly, cond_wait
  <1>3. MXIInv' /\ attr' = "normal"
    BY <1>2, MXAside DEF CDIInv, MXIInv, MXTypeOK
  <1>4. Others(x)
    BY <1>2 DEF Others
  <1>5. /\ CDWaitInv' /\ CondWaiters' = CondWaiters /\ x \notin CondWaiters
        /\ \A y \in Ctx : y # x => (y \in Coming' <=> y \in Coming)
    BY <1>1, <1>2, <1>4, OwnStep
  <1>6. CDPlaces'
    BY <1>1, MutexAssumption, SMTT(30) DEF CDIInv, CDPlaces, Producer
  <1>7. x \in Coming
    BY <1>1, <1>5 DEF Coming, CDIInv, CDPlaces, Producer
  <1>8. Cardinality(Coming) - 1 <= Cardinality(Coming')
    BY <1>5, <1>7, ComingCount
  <1>9. ComingInv'
    BY <1>1, <1>2, <1>8, CondSets, SMTT(30) DEF CDIInv, CDPlaces, ComingInv
  <1>10. items' <= Cardinality(Made')
    <2>1. Made' = Made
      BY <1>1 DEF Made
    <2> QED
      BY <1>1, <2>1, CondSets, SMTT(30) DEF CDIInv, CDPlaces
  <1> QED
    BY <1>3, <1>5, <1>6, <1>9, <1>10 DEF CDIInv

\* A producer puts an item, and has yet to signal.
LEMMA ProduceStep ==
  ASSUME CDIInv, NEW x \in Ctx, produce(x)
  PROVE  CDIInv'
  <1> USE CondAssumption
  <1>1. PICK p \in {"signal", "release"} :
        /\ MXCalls(x) /\ cd_pc[x] = "put" /\ items' = items + 1
        /\ put' = [put EXCEPT ![x] = @ + 1]
        /\ cd_pc' = [cd_pc EXCEPT ![x] = p] /\ UNCHANGED <<mxVars, cLock>>
    BY DEF produce, At, Goto
  <1>2. UNCHANGED <<status, waitq, mxOnly, attr, wants, cond_wait>>
    BY <1>1 DEF mxVars, mxOnly, cond_wait
  <1>3. MXIInv' /\ attr' = "normal"
    BY <1>2, MXAside DEF CDIInv, MXIInv, MXTypeOK
  <1>4. Others(x)
    BY <1>2 DEF Others
  <1>5. /\ CDWaitInv' /\ CondWaiters' = CondWaiters /\ x \notin CondWaiters
        /\ \A y \in Ctx : y # x => (y \in Coming' <=> y \in Coming)
    BY <1>1, <1>2, <1>4, OwnStep
  <1>6. x \in Producer /\ put[x] \in 0..Puts /\ put[x] < Puts /\ put[x] + 1 \in 1..Puts
    BY <1>1, SMTT(30) DEF CDIInv, CDPlaces, Producer
  <1>7. put' \in [Ctx -> 0..Puts] /\ put'[x] = put[x] + 1 /\ \A y \in Ctx : y # x => put'[y] = put[y]
    BY <1>1, <1>6, SMTT(30) DEF CDIInv, CDPlaces
  <1>8. CDPlaces'
    BY <1>1, <1>6, <1>7, MutexAssumption, SMTT(30) DEF CDIInv, CDPlaces, Producer
  <1>9. cd_pc'[x] = p
    BY <1>1 DEF CDIInv, CDPlaces
  <1>10. x \notin Coming /\ x \in Coming'
    BY <1>1, <1>6, <1>9 DEF Coming, Producer
  <1>11. ComingInv'
    BY <1>1, <1>2, <1>5, <1>10, ComingCount, CondSets, SMTT(30) DEF CDIInv, CDPlaces, ComingInv
  <1>12. Made' = Made \cup {<<x, put[x] + 1>>} /\ <<x, put[x] + 1>> \notin Made
    <2>1. ASSUME NEW y \in Producer, NEW i \in 1..Puts
          PROVE  <<y, i>> \in Made' <=> (<<y, i>> \in Made \/ <<y, i>> = <<x, put[x] + 1>>)
      <3>1. CASE y = x
        BY <1>6, <1>7, <3>1, SMTT(30) DEF Made
      <3>2. CASE y # x
        BY <1>7, <3>2 DEF Made, Producer
      <3> QED
        BY <3>1, <3>2
    <2>2. <<x, put[x] + 1>> \notin Made
      BY <1>6, SMTT(30) DEF Made
    <2>3. <<x, put[x] + 1>> \in Producer \X (1..Puts)
      BY <1>6
    <2>4. Made \subseteq Producer \X (1..Puts) /\ Made' \subseteq Producer \X (1..Puts)
      BY DEF Made
    <2> QED
      BY <2>1, <2>2, <2>3, <2>4, SMTT(30)
  <1>13. items' <= Cardinality(Made')
    <2>1. Cardinality(Made') = Cardinality(Made) + 1
      BY <1>12, CondSets, FS_AddElement
    <2> QED
      BY <1>1, <2>1, CondSets, SMTT(30) DEF CDIInv, CDPlaces
  <1> QED
    BY <1>3, <1>5, <1>8, <1>11, <1>13 DEF CDIInv

\* pthread_cond_wait: the caller is queued, and the queue unlocked.
LEMMA WaitSleepStep ==
  ASSUME CDIInv, NEW x \in Ctx, wait_sleep(x)
  PROVE  CDIInv'
  <1> USE CondAssumption, MutexAssumption
  <1>a. PICK s : s = cond_wait
    OBVIOUS
  <1>1. /\ MXCalls(x) /\ cd_pc[x] = "sleep" /\ cLock' = None
        /\ status' = [status EXCEPT ![x] = "blocked"]
        /\ waitq' = [waitq EXCEPT !["cond"] = Append(@, x)]
        /\ cd_pc' = [cd_pc EXCEPT ![x] = "relock"] /\ UNCHANGED <<mxOnly, items, put>>
    BY DEF wait_sleep, Wait, At, Goto
  <1>2. /\ waitq \in [Queue -> Seq(Ctx)] /\ status \in [Ctx -> {"ready", "running", "blocked"}]
        /\ UNCHANGED <<attr, wants>> /\ x \notin wants /\ status[x] = "running"
    BY <1>1 DEF CDIInv, MXIInv, MXTypeOK, mxOnly, MXCalls
  <1>3. /\ s \in Seq(Ctx) /\ cond_wait' = Append(s, x) /\ Append(s, x) \in Seq(Ctx)
        /\ waitq'["mutex"] = waitq["mutex"]
        /\ waitq' \in [Queue -> Seq(Ctx)] /\ status' \in [Ctx -> {"ready", "running", "blocked"}]
    BY <1>1, <1>2, <1>a, SMTT(30) DEF cond_wait
  <1>4. MXIInv' /\ attr' = "normal"
    BY <1>1, <1>2, <1>3, MXAside DEF CDIInv
  <1>5. /\ Len(Append(s, x)) = Len(s) + 1 /\ Len(s) \in Nat
        /\ \A i \in 1..Len(s) : Append(s, x)[i] = s[i]
        /\ Append(s, x)[Len(s) + 1] = x
        /\ \A i \in 1..(Len(s) + 1) : i \in 1..Len(s) \/ i = Len(s) + 1
        /\ 1..Len(s) \subseteq 1..(Len(s) + 1) /\ Len(s) + 1 \in 1..(Len(s) + 1)
    BY <1>3, Joining, SMTT(30)
  <1>6. CondWaiters' = CondWaiters \cup {x}
    <2>1. CondWaiters = {s[i] : i \in 1..Len(s)}
      BY <1>a DEF CondWaiters
    <2>2. CondWaiters' = {Append(s, x)[i] : i \in 1..(Len(s) + 1)}
      BY <1>3, <1>5 DEF CondWaiters
    <2> QED
      BY <1>5, <2>1, <2>2
  <1>7. x \notin CondWaiters /\ CondWaiters \subseteq Consumer
    BY <1>2 DEF CDIInv, CDWaitInv
  <1>8. \A y \in Ctx : y # x => cd_pc'[y] = cd_pc[y] /\ status'[y] = status[y]
    BY <1>1, <1>2 DEF CDIInv, CDPlaces
  <1>9. cd_pc'[x] = "relock" /\ status'[x] = "blocked" /\ x \in Consumer
    BY <1>1, <1>2 DEF CDIInv, CDPlaces, Producer
  <1>10. CDWaitInv'
    <2>1. \A y \in CondWaiters' : /\ y \in Consumer /\ y \notin wants'
                                  /\ status'[y] = "blocked" /\ cd_pc'[y] = "relock"
      BY <1>2, <1>6, <1>7, <1>8, <1>9 DEF CDIInv, CDWaitInv
    <2>2. \A i, j \in 1..Len(cond_wait') : cond_wait'[i] = cond_wait'[j] => i = j
      <3>1. \A i \in 1..Len(s) : s[i] # x
        BY <1>7, <1>a DEF CondWaiters
      <3>2. \A i, j \in 1..Len(s) : s[i] = s[j] => i = j
        BY <1>a DEF CDIInv, CDWaitInv
      <3> QED
        BY <1>3, <1>5, <3>1, <3>2, SMTT(30)
    <2>3. \A y \in Ctx : status'[y] = "blocked" => y \in wants' \/ y \in CondWaiters'
      BY <1>2, <1>6, <1>8 DEF CDIInv, CDWaitInv
    <2> QED
      BY <2>1, <2>2, <2>3 DEF CDWaitInv
  <1>11. CDPlaces'
    BY <1>1 DEF CDIInv, CDPlaces, Producer
  <1>12. ComingInv'
    <2>1. \A y \in Ctx : y # x => (y \in Coming' <=> y \in Coming)
      BY <1>6, <1>8 DEF Coming
    <2>2. x \notin Coming
      BY <1>1, <1>9 DEF Coming, Producer
    <2>3. cLock # None
      BY <1>1 DEF CDIInv, CDPlaces
    <2> QED
      BY <1>1, <2>1, <2>2, <2>3, ComingCount, CondSets, SMTT(30) DEF CDIInv, CDPlaces, ComingInv
  <1>13. items' <= Cardinality(Made')
    BY <1>1 DEF CDIInv, Made
  <1> QED
    BY <1>4, <1>10, <1>11, <1>12, <1>13 DEF CDIInv

\* pthread_cond_signal and pthread_cond_broadcast: one less to signal, one
\* more awake, or nobody left to be woken.
LEMMA SignalStep ==
  ASSUME CDIInv, NEW x \in Ctx, cond_signal(x)
  PROVE  CDIInv'
  <1> USE CondAssumption, MutexAssumption
  <1>a. PICK s, n, p : /\ s = cond_wait /\ n = Len(s) - Len(cond_wait')
                       /\ p = IF cd_pc[x] = "signal" THEN "leave" ELSE "start"
    OBVIOUS
  <1>1. /\ MXCalls(x) /\ cd_pc[x] \in {"signal", "late"} /\ cLock = None
        /\ cd_pc' = [cd_pc EXCEPT ![x] = p] /\ UNCHANGED <<mxOnly, cLock, items, put>>
        /\ cond_wake
    BY <1>a DEF cond_signal, At, Goto
  <1>2. /\ waitq \in [Queue -> Seq(Ctx)] /\ status \in [Ctx -> {"ready", "running", "blocked"}]
        /\ UNCHANGED <<attr, wants>> /\ s \in Seq(Ctx) /\ status[x] = "running"
    BY <1>1, <1>a DEF CDIInv, MXIInv, MXTypeOK, mxOnly, cond_wait, MXCalls
  <1>3. x \in Producer /\ x \notin CondWaiters /\ CondWaiters \subseteq Consumer
    BY <1>1, <1>2 DEF CDIInv, CDPlaces, CDWaitInv, Producer
  <1>4. cd_pc'[x] = p /\ p \in {"leave", "start"} /\ \A y \in Ctx : y # x => cd_pc'[y] = cd_pc[y]
    BY <1>1, <1>a DEF CDIInv, CDPlaces
  <1>5. CDPlaces'
    BY <1>1, <1>3, <1>4 DEF CDIInv, CDPlaces, Producer
  <1>6. items' <= Cardinality(Made')
    BY <1>1 DEF CDIInv, Made
  <1>7. CASE s = <<>> /\ UNCHANGED wqVars
    <2>1. UNCHANGED <<status, waitq, cond_wait>>
      BY <1>7 DEF wqVars, cond_wait
    <2>2. MXIInv' /\ attr' = "normal"
      BY <1>1, <1>2, <2>1, MXAside DEF CDIInv
    <2>3. CDWaitInv'
      <3>1. Others(x)
        BY <1>2, <2>1 DEF Others
      <3> QED
        BY <1>1, <2>1, <3>1, OwnStep
    <2>4. ComingInv'
      BY <1>1, <1>7, <1>a, <2>1 DEF ComingInv
    <2> QED
      BY <1>5, <1>6, <2>2, <2>3, <2>4 DEF CDIInv
  <1>8. CASE Len(s) > 1 /\ WakeMany("cond", Len(s))
    <2>1. /\ status' = [y \in Ctx |-> IF \E i \in 1..Len(s) : s[i] = y THEN "ready" ELSE status[y]]
          /\ waitq' = [waitq EXCEPT !["cond"] = SubSeq(s, Len(s) + 1, Len(s))]
      BY <1>8, <1>a DEF WakeMany, cond_wait
    <2>2. SubSeq(s, Len(s) + 1, Len(s)) = <<>>
      BY <1>2, SMTT(30)
    <2>3. cond_wait' = <<>> /\ waitq'["mutex"] = waitq["mutex"] /\ waitq' \in [Queue -> Seq(Ctx)]
      BY <1>2, <2>1, <2>2, SMTT(30) DEF cond_wait
    <2>4. \A y \in Ctx : status'[y] = IF y \in CondWaiters THEN "ready" ELSE status[y]
      BY <1>a, <2>1 DEF CondWaiters
    <2>5. MXIInv' /\ attr' = "normal"
      <3>1. status' \in [Ctx -> {"ready", "running", "blocked"}]
        BY <1>2, <2>1
      <3> QED
        BY <1>1, <1>2, <2>3, <3>1, MXAside DEF CDIInv
    <2>6. CondWaiters' = {}
      BY <2>3, SMTT(30) DEF CondWaiters
    <2>7. CDWaitInv'
      <3>1. \A i, j \in 1..Len(cond_wait') : cond_wait'[i] = cond_wait'[j] => i = j
        BY <2>3, SMTT(30)
      <3> QED
        BY <1>2, <2>4, <2>6, <3>1 DEF CDIInv, CDWaitInv
    <2>8. ComingInv'
      BY <1>1, <2>3 DEF ComingInv
    <2> QED
      BY <1>5, <1>6, <2>5, <2>7, <2>8 DEF CDIInv
  <1>9. CASE s # <<>> /\ WakeMany("cond", 1)
    <2>a. PICK h, t : h = Head(s) /\ t = SubSeq(s, 1 + 1, Len(s))
      OBVIOUS
    <2>1. /\ status' = [y \in Ctx |-> IF \E i \in 1..1 : s[i] = y THEN "ready" ELSE status[y]]
          /\ waitq' = [waitq EXCEPT !["cond"] = t]
      BY <1>9, <1>a, <2>a DEF WakeMany, cond_wait
    <2>2. /\ h = s[1] /\ h \in Ctx /\ 1 \in 1..Len(s) /\ t \in Seq(Ctx) /\ Len(t) = Len(s) - 1
          /\ \A i \in 1..(Len(s) - 1) : t[i] = s[i + 1] /\ i + 1 \in 1..Len(s)
      BY <1>2, <1>9, <2>a, Leaving
    <2>3. cond_wait' = t /\ waitq'["mutex"] = waitq["mutex"] /\ waitq' \in [Queue -> Seq(Ctx)]
      BY <1>2, <2>1, <2>2 DEF cond_wait
    <2>4. \A y \in Ctx : status'[y] = IF y = h THEN "ready" ELSE status[y]
      BY <2>1, <2>2, SMTT(30)
    <2>5. MXIInv' /\ attr' = "normal"
      <3>1. status' \in [Ctx -> {"ready", "running", "blocked"}]
        BY <1>2, <2>1
      <3> QED
        BY <1>1, <1>2, <2>3, <3>1, MXAside DEF CDIInv
    <2>6. Len(s) \in Nat \ {0} /\ \A i, j \in 1..Len(s) : s[i] = s[j] => i = j
      BY <1>2, <1>9, <1>a, SMTT(30) DEF CDIInv, CDWaitInv
    <2>7. CondWaiters = {s[i] : i \in 1..Len(s)} /\ CondWaiters' = {t[i] : i \in 1..(Len(s) - 1)}
      BY <1>a, <2>2, <2>3, SMTT(30) DEF CondWaiters
    <2>8. h \in CondWaiters /\ CondWaiters' = CondWaiters \ {h}
      <3>1. ASSUME NEW y \in CondWaiters' PROVE y \in CondWaiters /\ y # h
        <4>1. PICK i \in 1..(Len(s) - 1) : y = t[i]
          BY <2>7, <3>1
        <4>2. y = s[i + 1] /\ i + 1 \in 1..Len(s) /\ i + 1 # 1
          BY <2>2, <2>6, <4>1, SMTT(30)
        <4> QED
          BY <2>2, <2>6, <2>7, <4>2
      <3>2. ASSUME NEW y \in CondWaiters, y # h PROVE y \in CondWaiters'
        <4>1. PICK i \in 1..Len(s) : y = s[i]
          BY <2>7, <3>2
        <4>2. i # 1
          BY <2>2, <3>2, <4>1
        <4>3. i - 1 \in 1..(Len(s) - 1) /\ (i - 1) + 1 = i
          BY <2>6, <4>2, SMTT(30)
        <4>4. y = t[i - 1]
          BY <2>2, <4>1, <4>3
        <4> QED
          BY <2>7, <4>3, <4>4
      <3>3. h \in CondWaiters
        BY <2>2, <2>7
      <3> QED
        BY <3>1, <3>2, <3>3
    <2>9. CDWaitInv'
      <3>1. \A y \in CondWaiters' : /\ y \in Consumer /\ y \notin wants'
                                    /\ status'[y] = "blocked" /\ cd_pc'[y] = "relock"
        BY <1>2, <1>3, <1>4, <2>4, <2>8 DEF CDIInv, CDWaitInv
      <3>2. ASSUME NEW i \in 1..Len(cond_wait'), NEW j \in 1..Len(cond_wait'),
                   cond_wait'[i] = cond_wait'[j]
            PROVE  i = j
        <4>1. i \in 1..(Len(s) - 1) /\ j \in 1..(Len(s) - 1) /\ t[i] = t[j]
          BY <2>2, <2>3, <3>2
        <4>2. i + 1 = j + 1
          BY <2>2, <2>6, <4>1
        <4> QED
          BY <4>1, <4>2, SMTT(30)
      <3>3. \A y \in Ctx : status'[y] = "blocked" => y \in wants' \/ y \in CondWaiters'
        BY <1>2, <2>4, <2>8 DEF CDIInv, CDWaitInv
      <3> QED
        BY <3>1, <3>2, <3>3 DEF CDWaitInv
    <2>10. ComingInv'
      <3>1. cd_pc[h] = "relock" /\ h \in Consumer /\ h # x
        BY <1>3, <2>8 DEF CDIInv, CDWaitInv
      <3>2. /\ x \in Coming /\ x \notin Coming' /\ h \notin Coming /\ h \in Coming'
            /\ \A y \in Ctx : y # x /\ y # h => (y \in Coming' <=> y \in Coming)
        BY <1>1, <1>3, <1>4, <2>2, <2>8, <3>1 DEF Coming, Producer
      <3>3. Coming' = (Coming \ {x}) \cup {h}
        <4>1. Coming \subseteq Ctx /\ Coming' \subseteq Ctx
          BY DEF Coming
        <4> QED
          BY <2>2, <3>1, <3>2, <4>1
      <3>4. IsFiniteSet(Coming \ {x}) /\ Cardinality(Coming \ {x}) = Cardinality(Coming) - 1
        BY <3>2, CondSets, FS_RemoveElement
      <3>5. Cardinality(Coming') = Cardinality(Coming \ {x}) + 1
        BY <3>2, <3>3, <3>4, FS_AddElement
      <3>6. items <= Cardinality(Coming)
        BY <1>9, <1>a DEF CDIInv, ComingInv
      <3> QED
        BY <1>1, <3>4, <3>5, <3>6, CondSets, SMTT(30) DEF ComingInv
    <2> QED
      BY <1>5, <1>6, <2>5, <2>9, <2>10 DEF CDIInv
  <1> QED
    BY <1>1, <1>7, <1>8, <1>9, <1>a DEF cond_wake, Wake, cond_wait

\* A woken thread runs again.
LEMMA CondResumeStep ==
  ASSUME CDIInv, NEW x \in Ctx, resume(x)
  PROVE  CDIInv'
  <1>1. /\ status[x] = "ready" /\ status' = [status EXCEPT ![x] = "running"]
        /\ UNCHANGED <<waitq, mxOnly, condVars>>
    BY DEF resume, MXResume, Dispatch
  <1>2. UNCHANGED <<attr, wants, cLock, cd_pc, items, put, cond_wait>>
    BY <1>1 DEF mxOnly, condVars, cond_wait
  <1>3. status \in [Ctx -> {"ready", "running", "blocked"}] /\ waitq \in [Queue -> Seq(Ctx)]
    BY DEF CDIInv, MXIInv, MXTypeOK
  <1>4. status' \in [Ctx -> {"ready", "running", "blocked"}]
    BY <1>1, <1>3
  <1>5. MXIInv' /\ attr' = "normal"
    BY <1>1, <1>2, <1>3, <1>4, MXAside DEF CDIInv
  <1>6. CondWaiters' = CondWaiters
    BY <1>2 DEF CondWaiters
  <1>7. CDWaitInv'
    <2>1. \A y \in Ctx : status'[y] = "blocked" <=> status[y] = "blocked"
      BY <1>1, <1>3
    <2>2. CondWaiters \subseteq Ctx
      BY CondAssumption DEF CDIInv, CDWaitInv
    <2> QED
      BY <1>2, <1>6, <2>1, <2>2 DEF CDIInv, CDWaitInv
  <1>8. CDPlaces' /\ ComingInv' /\ items' <= Cardinality(Made')
    BY <1>2, <1>6 DEF CDIInv, CDPlaces, ComingInv, Coming, Made
  <1> QED
    BY <1>5, <1>7, <1>8 DEF CDIInv

\* What waiting and signalling keep true, for any number of consumers and
\* producers: no signal is lost between the release of the mutex and the moment
\* the waiter is queued (cond.c:79-83).
THEOREM CondSafe == CDSpec => []CDInv
  <1> USE CondAssumption, MutexAssumption
  <1>1. pthread_mutex_init /\ attr = "normal" /\ pthread_cond_init => CDIInv
    <2> SUFFICES ASSUME pthread_mutex_init, attr = "normal", pthread_cond_init PROVE CDIInv
      OBVIOUS
    <2>1. MXIInv
      <3>1. waitq = [q \in Queue |-> <<>>] /\ mx_wait = <<>>
        BY DEF pthread_mutex_init, mx_wait
      <3>2. MXTypeOK
        BY <3>1, SMTT(30) DEF pthread_mutex_init, MXTypeOK
      <3>3. MutualExclusion /\ OwnerIsHolder /\ MXWaitInv /\ MXCountInv
        BY <3>1, <3>2, SMTT(30) DEF pthread_mutex_init, MutualExclusion, Holders, OwnerIsHolder, MXWaitInv, MXCountInv
      <3> QED
        BY <3>2, <3>3 DEF MXIInv
    <2>2. cond_wait = <<>> /\ CondWaiters = {} /\ cLock = None /\ items = 0
      BY SMTT(30) DEF pthread_mutex_init, pthread_cond_init, cond_wait, CondWaiters
    <2>3. CDPlaces
      BY SMTT(30) DEF pthread_cond_init, CDPlaces, Producer
    <2>4. CDWaitInv
      BY <2>2, SMTT(30) DEF pthread_mutex_init, CDWaitInv
    <2>5. ComingInv /\ items <= Cardinality(Made)
      BY <2>2, CondSets, SMTT(30) DEF ComingInv
    <2> QED
      BY <2>1, <2>3, <2>4, <2>5 DEF CDIInv
  <1>2. CDIInv /\ [CDNext]_cdVars => CDIInv'
    <2>1. ASSUME CDIInv, NEW x \in Ctx, CDStep(x) PROVE CDIInv'
      BY <2>1, WaitLockStep, MutexStep, ConsumeStep, ProduceStep, WaitSleepStep, SignalStep,
         CondResumeStep DEF CDStep
    <2>2. ASSUME CDIInv, UNCHANGED cdVars PROVE CDIInv'
      <3>1. /\ UNCHANGED <<status, waitq, mxOnly, attr, wants, cond_wait>>
            /\ UNCHANGED <<cLock, cd_pc, items, put>>
        BY <2>2 DEF cdVars, condVars, mxVars, mxOnly, cond_wait
      <3>2. MXIInv' /\ attr' = "normal"
        BY <2>2, <3>1, MXAside DEF CDIInv, MXIInv, MXTypeOK
      <3>3. CondWaiters' = CondWaiters
        BY <3>1 DEF CondWaiters
      <3>4. CDPlaces' /\ CDWaitInv' /\ ComingInv' /\ items' <= Cardinality(Made')
        BY <2>2, <3>1, <3>3 DEF CDIInv, CDPlaces, CDWaitInv, ComingInv, Coming, Made
      <3> QED
        BY <3>2, <3>4 DEF CDIInv
    <2> QED
      BY <2>1, <2>2 DEF CDNext
  <1>3. CDIInv => CDInv
    <2> SUFFICES ASSUME CDIInv PROVE CDInv
      OBVIOUS
    <2>1. CDTypeOK
      <3>1. items \in 0..(Puts * Cardinality(Producer))
        <4>1. /\ Cardinality(Made) <= Puts * Cardinality(Producer) /\ Cardinality(Made) \in Nat
              /\ items <= Cardinality(Made) /\ items \in Nat
          BY CondSets DEF CDIInv, CDPlaces
        <4>2. Cardinality(Producer) \in Nat
          BY FS_Subset, FS_CardinalityType DEF Producer
        <4> QED
          BY <4>1, <4>2, SMTT(30)
      <3> QED
        BY <3>1 DEF CDIInv, MXIInv, CDPlaces, CDTypeOK
    <2>2. NoLostSignal
      <3> SUFFICES ASSUME items > 0, waitq["cond"] # <<>>
                   PROVE  \/ \E y \in Producer : cd_pc[y] \in {"signal", "release", "late"}
                          \/ \E y \in Consumer : /\ cd_pc[y] \in {"relock", "check"}
                                                 /\ status[y] # "blocked" \/ y \in wants
        BY DEF NoLostSignal
      <3>1. Cardinality(Coming) # 0
        BY CondSets, SMTT(30) DEF CDIInv, CDPlaces, ComingInv, cond_wait
      <3>2. PICK y \in Coming : TRUE
        BY <3>1, FS_EmptySet
      <3>3. y \in Ctx /\ (status[y] = "blocked" => y \in wants \/ y \in CondWaiters)
        BY DEF CDIInv, CDWaitInv, Coming
      <3> QED
        BY <3>3 DEF Coming
    <2> QED
      BY <2>1, <2>2 DEF CDInv
  <1> QED
    BY <1>1, <1>2, <1>3, PTL DEF CDSpec

-----------------------------------------------------------------------------
(* Barriers.                                                               *)

\* a thread waits at the barrier once, asleep, and may pass it
BarWaitInv ==
  \A i \in 1..Len(bar_wait) :
    /\ status[bar_wait[i]] = "blocked" /\ passed[bar_wait[i]] < MaxPass
    /\ \A j \in 1..Len(bar_wait) : bar_wait[i] = bar_wait[j] => i = j

BarIInv ==
  /\ status \in [Ctx -> {"ready", "running", "blocked"}] /\ waitq \in [Queue -> Seq(Ctx)]
  /\ bar_init \in BarCounts /\ bar_count \in 1..bar_init
  /\ passed \in [Ctx -> 0..MaxPass] /\ serial \in Nat
  /\ BarWaitInv /\ PassInGroups

\* There are finitely many passages.
LEMMA PassagesSet ==
  /\ IsFiniteSet(Passages) /\ Cardinality(Passages) \in Nat
  /\ Cardinality(Passages) <= MaxPass * Cardinality(Ctx)
  <1>1. MaxPass \in Nat /\ IsFiniteSet(Ctx) /\ Cardinality(Ctx) \in Nat
    BY BarrierAssumption, FS_CardinalityType
  <1>2. IsFiniteSet(1..MaxPass) /\ Cardinality(1..MaxPass) = MaxPass
    BY <1>1, FS_Interval, SMTT(30)
  <1>3. IsFiniteSet(Ctx \X (1..MaxPass)) /\ Cardinality(Ctx \X (1..MaxPass)) = Cardinality(Ctx) * MaxPass
    BY <1>1, <1>2, FS_Product
  <1>4. Passages \subseteq Ctx \X (1..MaxPass)
    BY DEF Passages
  <1>5. Cardinality(Ctx) * MaxPass = MaxPass * Cardinality(Ctx)
    BY <1>1, SMTT(30)
  <1>6. PICK P, C : P = Passages /\ C = Ctx \X (1..MaxPass)
    OBVIOUS
  <1>7. IsFiniteSet(P) /\ Cardinality(P) <= Cardinality(C)
    BY <1>3, <1>4, <1>6, FS_Subset
  <1>8. Cardinality(P) \in Nat
    BY <1>7, FS_CardinalityType
  <1> QED
    BY <1>3, <1>5, <1>6, <1>7, <1>8

\* A group passes: as many passages more as it has members.
LEMMA GroupPasses ==
  ASSUME BarIInv, NEW G \in SUBSET Ctx, \A y \in G : passed[y] < MaxPass,
         passed' = [y \in Ctx |-> IF y \in G THEN passed[y] + 1 ELSE passed[y]]
  PROVE  Cardinality(Passages') = Cardinality(Passages) + Cardinality(G)
  <1> USE BarrierAssumption
  <1> DEFINE N == {<<y, passed[y] + 1>> : y \in G}
             f == [y \in G |-> <<y, passed[y] + 1>>]
  <1>1. \A y \in Ctx : passed[y] \in 0..MaxPass
    BY DEF BarIInv
  <1>2. \A y \in G : y \in Ctx /\ passed[y] + 1 \in 1..MaxPass
    BY <1>1, SMTT(30)
  <1>3. \A y \in Ctx : passed'[y] = IF y \in G THEN passed[y] + 1 ELSE passed[y]
    OBVIOUS
  <1>4. \A y \in Ctx, i \in 1..MaxPass :
          <<y, i>> \in Passages' <=> (<<y, i>> \in Passages \/ <<y, i>> \in N)
    <2> SUFFICES ASSUME NEW y \in Ctx, NEW i \in 1..MaxPass
                 PROVE  i <= passed'[y] <=> (i <= passed[y] \/ <<y, i>> \in N)
      BY DEF Passages
    <2>1. <<y, i>> \in N <=> y \in G /\ i = passed[y] + 1
      OBVIOUS
    <2> QED
      BY <1>1, <1>3, <2>1, SMTT(30)
  <1>5. \A p \in N : p \notin Passages /\ p \in Ctx \X (1..MaxPass)
    <2> SUFFICES ASSUME NEW y \in G PROVE <<y, passed[y] + 1>> \notin Passages /\ <<y, passed[y] + 1>> \in Ctx \X (1..MaxPass)
      OBVIOUS
    <2> QED
      BY <1>1, <1>2, SMTT(30) DEF Passages
  <1>6. Passages' = Passages \cup N
    <2>1. Passages \subseteq Ctx \X (1..MaxPass) /\ Passages' \subseteq Ctx \X (1..MaxPass)
      BY DEF Passages
    <2>2. N \subseteq Ctx \X (1..MaxPass)
      BY <1>5
    <2> HIDE DEF N
    <2> QED
      BY <1>4, <2>1, <2>2, SMTT(30)
  <1>7. IsFiniteSet(G) /\ Cardinality(G) \in Nat
    BY FS_Subset, FS_CardinalityType
  <1>8. f \in Bijection(G, N)
    <2>1. f \in [G -> N]
      OBVIOUS
    <2>2. \A y, z \in G : f[y] = f[z] => y = z
      OBVIOUS
    <2>3. \A p \in N : \E y \in G : f[y] = p
      OBVIOUS
    <2> QED
      BY <2>1, <2>2, <2>3 DEF Bijection, Injection, Surjection, IsInjective
  <1> HIDE DEF f, N
  <1>9. IsFiniteSet(N) /\ Cardinality(N) = Cardinality(G)
    BY <1>7, <1>8, FS_Bijection DEF ExistsBijection
  <1>10. Passages \cap N = {}
    BY <1>5
  <1>11. Cardinality(Passages \cap N) = 0
    BY <1>10, FS_EmptySet
  <1>12. Cardinality(Passages \cup N) = Cardinality(Passages) + Cardinality(N) - Cardinality(Passages \cap N)
    BY <1>9, PassagesSet, FS_Union
  <1> QED
    BY <1>6, <1>7, <1>9, <1>11, <1>12, PassagesSet, SMTT(30)

\* The thread that completes a group lets it through.
LEMMA LetThroughStep ==
  ASSUME BarIInv, NEW x \in Ctx, status[x] = "running", passed[x] < MaxPass, bar_count = 1,
         LetThrough(x), UNCHANGED bar_init
  PROVE  BarIInv'
  <1> USE BarrierAssumption
  <1>a. PICK s, n : s = bar_wait /\ n = Len(s)
    OBVIOUS
  <1>b. PICK E, G : E = {s[i] : i \in 1..n} /\ G = E \cup {x}
    OBVIOUS
  <1>1. s \in Seq(Ctx) /\ n \in Nat /\ DOMAIN s = 1..n
    BY <1>a, SMTT(30) DEF BarIInv, bar_wait
  <1>2. /\ status' = [y \in Ctx |-> IF \E i \in 1..n : s[i] = y THEN "ready" ELSE status[y]]
        /\ waitq' = [waitq EXCEPT !["barrier"] = SubSeq(s, n + 1, n)]
        /\ bar_count' = bar_count + n /\ serial' = serial + 1
        /\ passed' = [y \in Ctx |-> IF y = x \/ y \in {s[i] : i \in DOMAIN s} THEN passed[y] + 1 ELSE passed[y]]
    BY <1>a DEF LetThrough, WakeMany, bar_wait
  <1>3. SubSeq(s, n + 1, n) = <<>>
    BY <1>1, <1>a, SMTT(30)
  <1>4. waitq' \in [Queue -> Seq(Ctx)] /\ bar_wait' = <<>>
    <2>1. waitq' = [waitq EXCEPT !["barrier"] = <<>>] /\ waitq \in [Queue -> Seq(Ctx)]
      BY <1>2, <1>3 DEF BarIInv
    <2>2. <<>> \in Seq(Ctx)
      BY SMTT(30)
    <2> QED
      BY <2>1, <2>2 DEF bar_wait
  <1>5. status' \in [Ctx -> {"ready", "running", "blocked"}]
    BY <1>2 DEF BarIInv
  <1>6. bar_init \in Nat \ {0} /\ bar_init = n + 1
    BY <1>1, <1>a, SMTT(30) DEF BarIInv, PassInGroups
  <1>7. bar_count' = bar_init' /\ bar_count' \in 1..bar_init'
    BY <1>1, <1>2, <1>6, SMTT(30)
  <1>8. /\ \A y \in E : y \in Ctx /\ status[y] = "blocked" /\ passed[y] < MaxPass
        /\ \A i, j \in 1..n : s[i] = s[j] => i = j
    <2>1. /\ \A i \in 1..n : status[s[i]] = "blocked" /\ passed[s[i]] < MaxPass
          /\ \A i, j \in 1..n : s[i] = s[j] => i = j
      BY <1>a DEF BarIInv, BarWaitInv
    <2>2. \A i \in 1..n : s[i] \in Ctx
      BY ONLY <1>1, SMTT(30)
    <2> QED
      BY <2>1, <2>2, <1>b
  <1>9. G \in SUBSET Ctx /\ x \notin E /\ \A y \in G : passed[y] < MaxPass
    BY <1>8, <1>b
  <1>10. passed' = [y \in Ctx |-> IF y \in G THEN passed[y] + 1 ELSE passed[y]]
    BY <1>1, <1>2, <1>b
  <1>11. Cardinality(E) = n
    <2>1. s \in Seq(Ctx) /\ \A i, j \in 1..Len(s) : s[i] = s[j] => i = j
      BY <1>1, <1>8, <1>a
    <2>2. Cardinality({s[i] : i \in 1..Len(s)}) = Len(s)
      BY ONLY <2>1, Counted
    <2> QED
      BY <2>2, <1>a, <1>b
  <1>12. Cardinality(G) = n + 1
    <2>1. IsFiniteSet(E)
      BY <1>8, FS_Subset
    <2> QED
      BY <1>9, <1>11, <1>b, <2>1, FS_AddElement
  <1>13. Cardinality(Passages') = Cardinality(Passages) + bar_init
    BY <1>6, <1>9, <1>10, <1>12, GroupPasses
  <1>14. serial' \in Nat /\ Cardinality(Passages') = bar_init * serial'
    <2>1. serial \in Nat /\ Cardinality(Passages) = bar_init * serial
      BY DEF BarIInv, PassInGroups
    <2>2. bar_init * (serial + 1) = bar_init * serial + bar_init
      BY <1>6, <2>1, SMTT(30)
    <2> QED
      BY <1>2, <1>13, <2>1, <2>2, SMTT(30)
  <1>15. PassInGroups' /\ BarWaitInv'
    BY <1>4, <1>6, <1>7, <1>14, SMTT(30) DEF PassInGroups, BarWaitInv
  <1>16. passed' \in [Ctx -> 0..MaxPass]
    <2>1. \A y \in Ctx : passed[y] \in 0..MaxPass /\ (y \in G => passed[y] + 1 \in 0..MaxPass)
      BY <1>9, SMTT(30) DEF BarIInv
    <2> QED
      BY <1>10, <2>1
  <1> QED
    BY <1>4, <1>5, <1>7, <1>14, <1>15, <1>16 DEF BarIInv

\* The others wait.
LEMMA BarWaitStep ==
  ASSUME BarIInv, NEW x \in Ctx, status[x] = "running", passed[x] < MaxPass, bar_count # 1,
         bar_count' = bar_count - 1, Wait(x, "barrier"), UNCHANGED <<bar_init, passed, serial>>
  PROVE  BarIInv'
  <1> USE BarrierAssumption
  <1>a. PICK s : s = bar_wait
    OBVIOUS
  <1>1. s \in Seq(Ctx) /\ bar_wait' = Append(s, x) /\ status' = [status EXCEPT ![x] = "blocked"]
    BY <1>a DEF BarIInv, bar_wait, Wait
  <1>2. /\ Append(s, x) \in Seq(Ctx) /\ Len(Append(s, x)) = Len(s) + 1 /\ Len(s) \in Nat
        /\ \A i \in 1..Len(s) : Append(s, x)[i] = s[i]
        /\ Append(s, x)[Len(s) + 1] = x
        /\ \A i \in 1..(Len(s) + 1) : i \in 1..Len(s) \/ i = Len(s) + 1
    BY <1>1, Joining, SMTT(30)
  <1>3. waitq' \in [Queue -> Seq(Ctx)] /\ status' \in [Ctx -> {"ready", "running", "blocked"}]
    BY <1>1, <1>2, <1>a DEF BarIInv, Wait, bar_wait
  <1>4. bar_init \in Nat /\ bar_count \in 1..bar_init /\ bar_count = bar_init - Len(s)
    BY <1>a DEF BarIInv, PassInGroups
  <1>5. bar_count' \in 1..bar_init' /\ bar_count' = bar_init' - Len(bar_wait')
    BY <1>1, <1>2, <1>4, SMTT(30)
  <1>6. PassInGroups'
    BY <1>5 DEF BarIInv, PassInGroups, Passages
  <1>7. BarWaitInv'
    <2>1. \A i \in 1..Len(s) : /\ s[i] \in Ctx /\ status[s[i]] = "blocked" /\ passed[s[i]] < MaxPass
                               /\ \A j \in 1..Len(s) : s[i] = s[j] => i = j
      BY <1>1, <1>a, SMTT(30) DEF BarIInv, BarWaitInv
    <2>2. \A i \in 1..Len(s) : s[i] # x
      BY <2>1
    <2>3. \A y \in Ctx : y # x => status'[y] = status[y]
      BY <1>1 DEF BarIInv
    <2>4. status'[x] = "blocked"
      BY <1>1 DEF BarIInv
    <2> QED
      BY <1>1, <1>2, <2>1, <2>2, <2>3, <2>4, SMTT(30) DEF BarWaitInv
  <1> QED
    BY <1>3, <1>5, <1>6, <1>7 DEF BarIInv

\* What pthread_barrier_wait keeps true, for any number of threads and any
\* count: threads pass in groups of exactly the barrier's count, one of each
\* being told it is the serial one, and nobody is counted twice.
THEOREM BarrierSafe == BarSpec => []BarInv
  <1> USE BarrierAssumption
  <1>1. pthread_barrier_init => BarIInv
    <2> SUFFICES ASSUME pthread_barrier_init PROVE BarIInv
      OBVIOUS
    <2>1. /\ bar_wait = <<>> /\ bar_init \in Nat \ {0} /\ bar_count = bar_init
          /\ serial = 0 /\ passed = [x \in Ctx |-> 0]
      BY DEF pthread_barrier_init, bar_wait
    <2>2. Passages = {}
      BY <2>1, SMTT(30) DEF Passages
    <2>3. Cardinality(Passages) = 0 /\ bar_init * 0 = 0
      BY <2>1, <2>2, FS_EmptySet, SMTT(30)
    <2>4. PassInGroups /\ BarWaitInv
      BY <2>1, <2>3, SMTT(30) DEF PassInGroups, BarWaitInv
    <2> QED
      BY <2>1, <2>4, SMTT(30) DEF pthread_barrier_init, BarIInv
  <1>2. BarIInv /\ [BarNext]_barVars => BarIInv'
    <2>1. ASSUME BarIInv, NEW x \in Ctx, pthread_barrier_wait(x) PROVE BarIInv'
      BY <2>1, LetThroughStep, BarWaitStep DEF pthread_barrier_wait
    <2>2. ASSUME BarIInv, NEW x \in Ctx, BarResume(x) PROVE BarIInv'
      <3>1. /\ status[x] = "ready" /\ status' = [status EXCEPT ![x] = "running"]
            /\ UNCHANGED <<waitq, bar_init, bar_count, passed, serial, bar_wait>>
        BY <2>2 DEF BarResume, Dispatch, barOnly, bar_wait
      <3>2. /\ status' \in [Ctx -> {"ready", "running", "blocked"}]
            /\ \A y \in Ctx : status[y] = "blocked" => status'[y] = "blocked"
        BY <2>2, <3>1 DEF BarIInv
      <3>3. BarWaitInv'
        <4>1. \A i \in 1..Len(bar_wait) : bar_wait[i] \in Ctx
          BY <2>2, SMTT(30) DEF BarIInv, bar_wait
        <4> QED
          BY <2>2, <3>1, <3>2, <4>1 DEF BarIInv, BarWaitInv
      <3> QED
        BY <2>2, <3>1, <3>2, <3>3 DEF BarIInv, PassInGroups, Passages
    <2>3. ASSUME BarIInv, UNCHANGED barVars PROVE BarIInv'
      BY <2>3 DEF barVars, barOnly, BarIInv, BarWaitInv, PassInGroups, Passages, bar_wait
    <2> QED
      BY <2>1, <2>2, <2>3 DEF BarNext
  <1>3. BarIInv => BarInv
    <2> SUFFICES ASSUME BarIInv PROVE serial \in 0..(MaxPass * Cardinality(Ctx))
      BY DEF BarIInv, BarInv, BarTypeOK
    <2>1. /\ serial \in Nat /\ bar_init \in Nat \ {0} /\ bar_init * serial <= MaxPass * Cardinality(Ctx)
          /\ Cardinality(Ctx) \in Nat
      BY PassagesSet, FS_CardinalityType DEF BarIInv, PassInGroups
    <2>2. serial <= bar_init * serial /\ bar_init * serial \in Nat /\ MaxPass * Cardinality(Ctx) \in Nat
      BY <2>1, SMTT(30)
    <2> QED
      BY <2>1, <2>2, SMTT(30)
  <1> QED
    BY <1>1, <1>2, <1>3, PTL DEF BarSpec

=============================================================================
