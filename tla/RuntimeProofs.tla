---------------------------- MODULE RuntimeProofs ----------------------------
(***************************************************************************)
(* The run-times of parallel programs.  ThInv holds of any number of POSIX *)
(* threads in any order of their calls, KeysInv of thread-specific data    *)
(* for any number of threads, keys and values.  In MWMR channels, under a  *)
(* spin lock (MwmrLocked) and without locks (MwmrLockfree), units are read *)
(* in the order they were written, and both implement MwmrChannel, for any *)
(* number of readers and writers, any depth and any number of units.       *)
(* SrlInv holds of SRL barriers for any finite number of tasks.            *)
(*                                                                         *)
(* JoinValue and NoLostJoiner are about pairs of threads: they hold since  *)
(* a joiner and the thread it joins point at each other (joined, target)   *)
(* from the moment the one stops until the other has exited, and since a   *)
(* thread that has exited is a zombie until exactly one other claims it.   *)
(***************************************************************************)
EXTENDS PthreadThread, PthreadKeys, MwmrChannels, SrlBarrier, FiniteSetTheorems, WellFoundedInduction, TLAPS

\* Zenon proves what names no other prover, within 20 seconds
USE ZenonT(20)

-----------------------------------------------------------------------------
(* POSIX threads.                                                          *)

ThSpec == ThInit /\ [][ThNext]_thVars

Exited == {"zombie", "exit_rel", "cleanup", "dead"}
Releasing == {"join_rel", "detach_rel"}

\* A thread that has exited and that nobody claimed is a zombie and says so;
\* its exit value waits in its own descriptor (thread.c:83-117).
ExitInv ==
  \A t \in Thread :
    /\ th_pc[t] = "none" => t \notin claimed
    /\ th_pc[t] = "zombie" => "JOINABLE" \in th_state[t] /\ t \notin claimed /\ "DETACHED" \notin th_state[t]
    /\ "JOINABLE" \in th_state[t] => th_pc[t] \in Exited /\ retval[t] = exitval[t]
    /\ th_pc[t] \in Exited /\ th_pc[t] # "zombie" => t \in claimed \/ "DETACHED" \in th_state[t]
    /\ t \in freed => th_pc[t] = "dead"

\* A joiner and the thread it waits for point at each other until the latter
\* exits (thread.c:163-183).
JoinInv ==
  \A t \in Thread :
    /\ joined[t] # NoThread => t \in claimed
    /\ t \in claimed => joined[t] # NoThread \/ "DETACHED" \in th_state[t] \/ th_pc[t] \in Exited
    /\ joined[t] # NoThread /\ th_pc[t] \notin Exited =>
         th_pc[joined[t]] = "joining" /\ target[joined[t]] = t
    /\ th_pc[t] = "joining" =>
         /\ target[t] \in Thread /\ joined[target[t]] = t
         /\ th_pc[target[t]] \notin Exited \cup {"none"}
         /\ "DETACHED" \notin th_state[target[t]]

\* A value read, or about to be read, is that of a thread that has exited.
ValueInv ==
  \A t \in Thread :
    /\ th_pc[t] = "woken" =>
         /\ target[t] \in Thread /\ th_pc[target[t]] \in Exited
         /\ retval[t] = exitval[target[t]]
    /\ got[t] # NoThread =>
         /\ target[t] \in Thread /\ th_pc[target[t]] \in Exited
         /\ got[t] = exitval[target[t]]

\* With one processor the lock released is in a descriptor that is still there.
ReleaseInv ==
  /\ \A t \in Thread : th_pc[t] \in Releasing => target[t] \in Thread
  /\ ~smp => /\ stale = {}
             /\ \A t \in Thread : th_pc[t] \in Releasing => th_pc[target[t]] # "dead"

ThIInv == smp \in BOOLEAN /\ ThTypeOK /\ ExitInv /\ JoinInv /\ ValueInv /\ ReleaseInv
-----------------------------------------------------------------------------
(* Each action keeps ThIInv.                                               *)

\* A new thread is in no relation to the others.
LEMMA CreateStep ==
  ASSUME ThIInv, NEW t \in Thread, NEW u \in Thread, pthread_create(t, u)
  PROVE  ThIInv'
  <1> USE ThreadAssumption DEF Exited, Releasing, pthread_create, ThAt, Executes
  <1>1. smp' \in BOOLEAN /\ ThTypeOK'
    BY SMTT(30) DEF ThIInv, ThTypeOK, JoinInv, ReleaseInv, Canceled, Unset
  <1>2. ExitInv'
    BY SMTT(30) DEF ThIInv, ThTypeOK, ExitInv, JoinInv, ReleaseInv
  <1>3. JoinInv'
    BY SMTT(30) DEF ThIInv, ThTypeOK, ExitInv, JoinInv, ReleaseInv
  <1>4. ValueInv'
    BY SMTT(30) DEF ThIInv, ThTypeOK, ExitInv, JoinInv, ValueInv, ReleaseInv
  <1>5. ReleaseInv'
    BY SMTT(30) DEF ThIInv, ThTypeOK, ExitInv, JoinInv, ReleaseInv
  <1> QED
    BY <1>1, <1>2, <1>3, <1>4, <1>5 DEF ThIInv

\* A thread that exits becomes a zombie, or wakes the one that joins it.
LEMMA ExitStep ==
  ASSUME ThIInv, NEW t \in Thread, NEW v \in {t, Canceled}, ThAt(t, "run"), pthread_exit(t, v)
  PROVE  ThIInv'
  <1> USE ThreadAssumption DEF Exited, Releasing, pthread_exit, ExitJoined, ThAt, Executes
  <1>1. smp' \in BOOLEAN /\ ThTypeOK'
    BY SMTT(30) DEF ThIInv, ThTypeOK, JoinInv, ReleaseInv, Canceled, Unset
  <1>2. ExitInv'
    BY SMTT(30) DEF ThIInv, ThTypeOK, ExitInv, JoinInv
  <1>3. JoinInv'
    BY SMTT(30) DEF ThIInv, ThTypeOK, ExitInv, JoinInv, ReleaseInv
  <1>4. ValueInv'
    BY SMTT(30) DEF ThIInv, ThTypeOK, ExitInv, JoinInv, ValueInv, ReleaseInv
  <1>5. ReleaseInv'
    BY SMTT(30) DEF ThIInv, ThTypeOK, ExitInv, JoinInv, ReleaseInv
  <1> QED
    BY <1>1, <1>2, <1>3, <1>4, <1>5 DEF ThIInv

\* The descriptor is still claimed when its lock is released.
LEMMA ExitReleaseStep ==
  ASSUME ThIInv, NEW t \in Thread, exit_release(t)
  PROVE  ThIInv'
  <1> USE ThreadAssumption DEF Exited, Releasing, exit_release, ThAt, Executes
  <1>1. smp' \in BOOLEAN /\ ThTypeOK'
    BY DEF ThIInv, ThTypeOK, JoinInv, ReleaseInv, Canceled, Unset
  <1>2. ExitInv'
    BY SMTT(30) DEF ThIInv, ThTypeOK, ExitInv, JoinInv, ReleaseInv
  <1>3. JoinInv'
    BY SMTT(30) DEF ThIInv, ThTypeOK, ExitInv, JoinInv, ReleaseInv
  <1>4. ValueInv'
    BY SMTT(30) DEF ThIInv, ThTypeOK, ExitInv, JoinInv, ValueInv, ReleaseInv
  <1>5. ReleaseInv'
    BY SMTT(30) DEF ThIInv, ThTypeOK, ExitInv, JoinInv, ReleaseInv
  <1> QED
    BY <1>1, <1>2, <1>3, <1>4, <1>5 DEF ThIInv

\* A descriptor that is freed was claimed, or its thread was detached.
LEMMA CleanupStep ==
  ASSUME ThIInv, NEW t \in Thread, pthread_cleanup(t)
  PROVE  ThIInv'
  <1> USE ThreadAssumption DEF Exited, Releasing, pthread_cleanup, ThAt, Executes
  <1>1. smp' \in BOOLEAN /\ ThTypeOK'
    BY SMTT(30) DEF ThIInv, ThTypeOK, JoinInv, ReleaseInv, Canceled, Unset
  <1>2. ExitInv'
    BY SMTT(30) DEF ThIInv, ThTypeOK, ExitInv, JoinInv, ReleaseInv
  <1>3. JoinInv'
    BY SMTT(30) DEF ThIInv, ThTypeOK, ExitInv, JoinInv, ReleaseInv
  <1>4. ValueInv'
    BY SMTT(30) DEF ThIInv, ThTypeOK, ExitInv, JoinInv, ValueInv, ReleaseInv
  <1>5. ReleaseInv'
    BY SMTT(30) DEF ThIInv, ThTypeOK, ExitInv, JoinInv, ReleaseInv
  <1> QED
    BY <1>1, <1>2, <1>3, <1>4, <1>5 DEF ThIInv

\* A joiner finds a zombie, or a thread that will find it.
LEMMA JoinStep ==
  ASSUME ThIInv, NEW t \in Thread, NEW u \in Thread, pthread_join(t, u)
  PROVE  ThIInv'
  <1> USE ThreadAssumption DEF Exited, Releasing, pthread_join, MayClaim, ThAt, Executes
  <1>1. smp' \in BOOLEAN /\ ThTypeOK'
    BY SMTT(30) DEF ThIInv, ThTypeOK, JoinInv, ReleaseInv, Canceled, Unset
  <1>2. ExitInv'
    BY SMTT(30) DEF ThIInv, ThTypeOK, ExitInv, JoinInv, ReleaseInv
  <1>3. JoinInv'
    BY SMTT(30) DEF ThIInv, ThTypeOK, ExitInv, JoinInv, ReleaseInv
  <1>4. ValueInv'
    BY SMTT(30) DEF ThIInv, ThTypeOK, ExitInv, JoinInv, ValueInv, ReleaseInv
  <1>5. ReleaseInv'
    BY SMTT(30) DEF ThIInv, ThTypeOK, ExitInv, JoinInv, ReleaseInv
  <1> QED
    BY <1>1, <1>2, <1>3, <1>4, <1>5 DEF ThIInv

\* With one processor the thread that was joined is not freed yet.
LEMMA JoinReleaseStep ==
  ASSUME ThIInv, NEW t \in Thread, join_release(t)
  PROVE  ThIInv'
  <1> USE ThreadAssumption DEF Exited, Releasing, join_release, Touch, ThAt, Executes
  <1>1. smp' \in BOOLEAN /\ ThTypeOK'
    BY SMTT(30) DEF ThIInv, ThTypeOK, JoinInv, ReleaseInv, Canceled, Unset
  <1>2. ExitInv'
    BY SMTT(30) DEF ThIInv, ThTypeOK, ExitInv, JoinInv, ReleaseInv
  <1>3. JoinInv'
    BY SMTT(30) DEF ThIInv, ThTypeOK, ExitInv, JoinInv, ReleaseInv
  <1>4. ValueInv'
    BY SMTT(30) DEF ThIInv, ThTypeOK, ExitInv, JoinInv, ValueInv, ReleaseInv
  <1>5. ReleaseInv'
    BY SMTT(30) DEF ThIInv, ThTypeOK, ExitInv, JoinInv, ReleaseInv
  <1> QED
    BY <1>1, <1>2, <1>3, <1>4, <1>5 DEF ThIInv

\* The value read was written by the thread that was joined.
LEMMA JoinReturnStep ==
  ASSUME ThIInv, NEW t \in Thread, join_return(t)
  PROVE  ThIInv'
  <1> USE ThreadAssumption DEF Exited, Releasing, join_return, ThAt, Executes
  <1>1. smp' \in BOOLEAN /\ ThTypeOK'
    BY SMTT(30) DEF ThIInv, ThTypeOK, JoinInv, ReleaseInv, Canceled, Unset
  <1>2. ExitInv'
    BY SMTT(30) DEF ThIInv, ThTypeOK, ExitInv, JoinInv, ReleaseInv
  <1>3. JoinInv'
    BY SMTT(30) DEF ThIInv, ThTypeOK, ExitInv, JoinInv, ReleaseInv
  <1>4. ValueInv'
    BY SMTT(30) DEF ThIInv, ThTypeOK, ExitInv, JoinInv, ValueInv, ReleaseInv
  <1>5. ReleaseInv'
    BY SMTT(30) DEF ThIInv, ThTypeOK, ExitInv, JoinInv, ReleaseInv
  <1> QED
    BY <1>1, <1>2, <1>3, <1>4, <1>5 DEF ThIInv

\* A thread that is detached has no joiner.
LEMMA DetachStep ==
  ASSUME ThIInv, NEW t \in Thread, NEW u \in Thread, pthread_detach(t, u)
  PROVE  ThIInv'
  <1> USE ThreadAssumption DEF Exited, Releasing, pthread_detach, MayClaim, ThAt, Executes
  <1>1. smp' \in BOOLEAN /\ ThTypeOK'
    BY SMTT(30) DEF ThIInv, ThTypeOK, JoinInv, ReleaseInv, Canceled, Unset
  <1>2. ExitInv'
    BY SMTT(30) DEF ThIInv, ThTypeOK, ExitInv, JoinInv, ReleaseInv
  <1>3. JoinInv'
    BY SMTT(30) DEF ThIInv, ThTypeOK, ExitInv, JoinInv, ReleaseInv
  <1>4. ValueInv'
    BY SMTT(30) DEF ThIInv, ThTypeOK, ExitInv, JoinInv, ValueInv, ReleaseInv
  <1>5. ReleaseInv'
    BY SMTT(30) DEF ThIInv, ThTypeOK, ExitInv, JoinInv, ReleaseInv
  <1> QED
    BY <1>1, <1>2, <1>3, <1>4, <1>5 DEF ThIInv

\* With one processor the thread that was detached is not freed yet.
LEMMA DetachReleaseStep ==
  ASSUME ThIInv, NEW t \in Thread, detach_release(t)
  PROVE  ThIInv'
  <1> USE ThreadAssumption DEF Exited, Releasing, detach_release, Touch, ThAt, Executes
  <1>1. smp' \in BOOLEAN /\ ThTypeOK'
    BY SMTT(30) DEF ThIInv, ThTypeOK, JoinInv, ReleaseInv, Canceled, Unset
  <1>2. ExitInv'
    BY SMTT(30) DEF ThIInv, ThTypeOK, ExitInv, JoinInv, ReleaseInv
  <1>3. JoinInv'
    BY SMTT(30) DEF ThIInv, ThTypeOK, ExitInv, JoinInv, ReleaseInv
  <1>4. ValueInv'
    BY SMTT(30) DEF ThIInv, ThTypeOK, ExitInv, JoinInv, ValueInv, ReleaseInv
  <1>5. ReleaseInv'
    BY SMTT(30) DEF ThIInv, ThTypeOK, ExitInv, JoinInv, ReleaseInv
  <1> QED
    BY <1>1, <1>2, <1>3, <1>4, <1>5 DEF ThIInv

\* Requests for cancellation do not change who waits for whom.
LEMMA CancelStep ==
  ASSUME ThIInv, NEW t \in Thread, NEW u \in Thread, pthread_cancel(t, u)
  PROVE  ThIInv'
  <1> USE ThreadAssumption DEF Exited, Releasing, pthread_cancel, MayClaim, ThAt, Executes
  <1>1. smp' \in BOOLEAN /\ ThTypeOK'
    BY SMTT(30) DEF ThIInv, ThTypeOK, JoinInv, ReleaseInv, Canceled, Unset
  <1>2. ExitInv'
    BY SMTT(30) DEF ThIInv, ThTypeOK, ExitInv, JoinInv, ReleaseInv
  <1>3. JoinInv'
    BY SMTT(30) DEF ThIInv, ThTypeOK, ExitInv, JoinInv, ReleaseInv
  <1>4. ValueInv'
    BY DEF ThIInv, ThTypeOK, ExitInv, JoinInv, ValueInv, ReleaseInv
  <1>5. ReleaseInv'
    BY DEF ThIInv, ThTypeOK, ExitInv, JoinInv, ReleaseInv
  <1> QED
    BY <1>1, <1>2, <1>3, <1>4, <1>5 DEF ThIInv

\* Nor does enabling or disabling cancellation.
LEMMA CancelStateStep ==
  ASSUME ThIInv, NEW t \in Thread, pthread_setcancelstate(t)
  PROVE  ThIInv'
  <1> USE ThreadAssumption DEF Exited, Releasing, pthread_setcancelstate, ThAt, Executes
  <1>1. smp' \in BOOLEAN /\ ThTypeOK'
    BY SMTT(30) DEF ThIInv, ThTypeOK, JoinInv, ReleaseInv, Canceled, Unset
  <1>2. ExitInv'
    BY SMTT(30) DEF ThIInv, ThTypeOK, ExitInv, JoinInv, ReleaseInv
  <1>3. JoinInv'
    BY SMTT(30) DEF ThIInv, ThTypeOK, ExitInv, JoinInv, ReleaseInv
  <1>4. ValueInv'
    BY DEF ThIInv, ThTypeOK, ExitInv, JoinInv, ValueInv, ReleaseInv
  <1>5. ReleaseInv'
    BY DEF ThIInv, ThTypeOK, ExitInv, JoinInv, ReleaseInv
  <1> QED
    BY <1>1, <1>2, <1>3, <1>4, <1>5 DEF ThIInv

-----------------------------------------------------------------------------
\* The inductive invariant implies what is checked.
LEMMA ThIInvImplies == ThIInv => ThInv
  BY ThreadAssumption DEF ThIInv, ThInv, ThTypeOK, ExitInv, JoinInv, ValueInv, ReleaseInv, Exited,
     JoinValue, NoLostJoiner, NoEarlyFree, NoUseAfterFree

\* Create, exit, join, detach and cancel, called in any order by any number of
\* threads on one or several processors, keep ThInv: a joiner is never missed
\* and gets the value the thread it joined exited with; descriptors are freed
\* only when claimed, and with one processor never under somebody who uses them.
THEOREM ThreadSafe == ThSpec => []ThInv
  <1>1. ThInit => ThIInv
    BY ThreadAssumption, SMTT(30) DEF ThInit, ThIInv, ThTypeOK, ExitInv, JoinInv, ValueInv, ReleaseInv,
       Exited, Releasing, Canceled, Unset
  <1>2. ThIInv /\ [ThNext]_thVars => ThIInv'
    <2> SUFFICES ASSUME ThIInv, [ThNext]_thVars PROVE ThIInv'
      OBVIOUS
    <2>1. ASSUME NEW t \in Thread, NEW u \in Thread,
                 pthread_create(t, u) \/ pthread_join(t, u) \/ pthread_detach(t, u) \/ pthread_cancel(t, u)
          PROVE  ThIInv'
      BY <2>1, CreateStep, JoinStep, DetachStep, CancelStep
    <2>2. ASSUME NEW t \in Thread, testcancel(t) \/ return(t)
          PROVE  ThIInv'
      BY <2>2, ExitStep DEF testcancel, return
    <2>3. ASSUME NEW t \in Thread, pthread_setcancelstate(t) \/ Finish(t)
          PROVE  ThIInv'
      BY <2>3, CancelStateStep, ExitReleaseStep, CleanupStep, JoinReleaseStep, JoinReturnStep,
         DetachReleaseStep DEF Finish
    <2>4. CASE UNCHANGED thVars
      BY <2>4 DEF thVars, thOnly, ThIInv, ThTypeOK, ExitInv, JoinInv, ValueInv, ReleaseInv
    <2> QED
      BY <2>1, <2>2, <2>3, <2>4 DEF ThNext
  <1> QED
    BY <1>1, <1>2, ThIInvImplies, PTL DEF ThSpec

-----------------------------------------------------------------------------
(* Thread-specific data.                                                   *)

KSpec == KInit /\ [][KNext]_kVars

\* Who holds _keys_lock between two steps goes through its values, or is in the
\* destructor of the key before the one it looks at next.  As long as none was
\* called it has all the keys to look at.
KIInv ==
  /\ KTypeOK
  /\ \A t \in KThread :
       /\ k_pc[t] \in {"cleanup", "dtor"} <=> keys_lock = t
       /\ k_pc[t] = "dtor" => idx[t] > 0 /\ keys[idx[t] - 1] = "dtor"
       /\ ~done[t] => idx[t] = 0

\* A set of numbers has a least one.
LEMMA LeastNat ==
  ASSUME NEW T \in SUBSET Nat, T # {}
  PROVE  \E m \in T : \A k \in T : m <= k
  <1>1. PICK R : R = OpToRel(<, Nat) /\ IsWellFoundedOn(R, Nat)
    BY NatLessThanWellFounded
  <1>2. PICK x \in T : \A y \in T : ~(<<y, x>> \in R)
    BY <1>1, WFMin
  <1>3. \A z, y \in Nat : <<y, z>> \in R <=> y < z
    BY <1>1 DEF OpToRel
  <1>4. ASSUME NEW y \in T PROVE x <= y
    <2>1. x \in Nat /\ y \in Nat
      OBVIOUS
    <2>2. ~(<<y, x>> \in R)
      BY <1>2
    <2>3. ~(y < x)
      BY <1>3, <2>1, <2>2
    <2> QED
      BY <2>1, <2>3, SMTT(30)
  <1> QED
    BY <1>4

\* Min is the least number of a set.
LEMMA MinOfSet ==
  ASSUME NEW T \in SUBSET Nat, T # {}
  PROVE  Min(T) \in T
  <1>1. \E m \in T : \A k \in T : m <= k
    BY LeastNat
  <1> QED
    BY <1>1 DEF Min

\* Whoever changes the table of keys finds nobody in a destructor.
LEMMA TableStep ==
  ASSUME KIInv, keys_lock = NoKThread, keys' \in [Keys -> {"free", "plain", "dtor"}],
         UNCHANGED <<keys_lock, values, k_pc, scanVars>>
  PROVE  KIInv'
  <1>1. \A t \in KThread : k_pc[t] \notin {"cleanup", "dtor"}
    BY KeysAssumption DEF KIInv
  <1> QED
    BY <1>1 DEF KIInv, KTypeOK, scanVars

\* A thread that is in the table alone, t, moves.
LEMMA ScanStep ==
  ASSUME KIInv, NEW t \in KThread, UNCHANGED keys,
         values' \in [KThread -> SUBSET Keys],
         iter' \in [KThread -> 0..Iterations], idx' \in [KThread -> 0..KeysMax],
         done' \in [KThread -> BOOLEAN],
         NEW r \in {"none", "run", "cleanup", "dtor", "dead"}, k_pc' = [k_pc EXCEPT ![t] = r],
         keys_lock \in {t, NoKThread},
         keys_lock' = IF r \in {"cleanup", "dtor"} THEN t ELSE NoKThread,
         r = "dtor" => idx'[t] > 0 /\ keys[idx'[t] - 1] = "dtor",
         \A u \in KThread : ~done'[u] => idx'[u] = 0
  PROVE  KIInv'
  <1>1. k_pc' \in [KThread -> {"none", "run", "cleanup", "dtor", "dead"}] /\ keys_lock' \in KThread \cup {NoKThread}
    BY DEF KIInv, KTypeOK
  <1>2. \A u \in KThread : k_pc'[u] = IF u = t THEN r ELSE k_pc[u]
    BY DEF KIInv, KTypeOK
  <1>3. \A u \in KThread : u # t => k_pc[u] \notin {"cleanup", "dtor"}
    BY KeysAssumption DEF KIInv
  <1>4. ASSUME NEW u \in KThread
        PROVE  /\ k_pc'[u] \in {"cleanup", "dtor"} <=> keys_lock' = u
               /\ k_pc'[u] = "dtor" => idx'[u] > 0 /\ keys'[idx'[u] - 1] = "dtor"
               /\ ~done'[u] => idx'[u] = 0
    BY <1>2, <1>3, KeysAssumption
  <1>5. KTypeOK'
    BY <1>1 DEF KIInv, KTypeOK
  <1> QED
    BY <1>4, <1>5 DEF KIInv

\* Every step keeps the invariant.
LEMMA NextKeys == ASSUME KIInv, KNext PROVE KIInv'
  <1> USE KeysAssumption
  <1>1. PICK t \in KThread :
          \/ \E kind \in {"plain", "dtor"} : pthread_key_create(t, kind)
          \/ \E k \in Keys : pthread_key_delete(t, k) \/ pthread_setspecific(t, k)
          \/ \E u \in KThread : keys_init(t, u)
          \/ cleanup_lock(t) \/ Cleanup(t)
    BY DEF KNext
  <1>2. /\ values \in [KThread -> SUBSET Keys] /\ iter \in [KThread -> 0..Iterations]
        /\ idx \in [KThread -> 0..KeysMax] /\ k_pc \in [KThread -> {"none", "run", "cleanup", "dtor", "dead"}]
        /\ keys \in [Keys -> {"free", "plain", "dtor"}] /\ keys_lock \in KThread \cup {NoKThread}
        /\ done \in [KThread -> BOOLEAN] /\ \A u \in KThread : ~done[u] => idx[u] = 0
    BY DEF KIInv, KTypeOK
  <1>3. ASSUME NEW kind \in {"plain", "dtor"}, pthread_key_create(t, kind) PROVE KIInv'
    <2>1. keys_lock = NoKThread /\ UNCHANGED <<keys_lock, values, k_pc, scanVars>>
      BY <1>3 DEF pthread_key_create
    <2>2. \E i : keys' = [keys EXCEPT ![i] = kind]
      BY <1>3 DEF pthread_key_create
    <2>3. keys' \in [Keys -> {"free", "plain", "dtor"}]
      BY <1>2, <2>2
    <2> QED
      BY <2>1, <2>3, TableStep
  <1>4. ASSUME NEW k \in Keys, pthread_key_delete(t, k) PROVE KIInv'
    <2>1. keys_lock = NoKThread /\ UNCHANGED <<keys_lock, values, k_pc, scanVars>>
      BY <1>4 DEF pthread_key_delete
    <2>2. keys' = [keys EXCEPT ![k] = "free"]
      BY <1>4 DEF pthread_key_delete
    <2>3. keys' \in [Keys -> {"free", "plain", "dtor"}]
      BY <1>2, <2>2
    <2> QED
      BY <2>1, <2>3, TableStep
  <1>5. ASSUME NEW k \in Keys, pthread_setspecific(t, k) PROVE KIInv'
    <2>1. values' \in [KThread -> SUBSET Keys] /\ UNCHANGED <<keys, keys_lock, k_pc, scanVars>>
      BY <1>2, <1>5, SMTT(30) DEF pthread_setspecific
    <2> QED
      BY <2>1 DEF KIInv, KTypeOK, scanVars
  <1>6. ASSUME NEW u \in KThread, keys_init(t, u) PROVE KIInv'
    <2>1. /\ values' \in [KThread -> SUBSET Keys] /\ UNCHANGED <<keys, keys_lock, scanVars>>
          /\ k_pc[u] = "none" /\ k_pc' = [k_pc EXCEPT ![u] = "run"]
      BY <1>2, <1>6 DEF keys_init
    <2>2. k_pc' \in [KThread -> {"none", "run", "cleanup", "dtor", "dead"}]
      BY <1>2, <2>1
    <2>3. keys_lock # u /\ \A v \in KThread : k_pc'[v] = IF v = u THEN "run" ELSE k_pc[v]
      BY <1>2, <2>1 DEF KIInv
    <2> QED
      BY <2>1, <2>2, <2>3 DEF KIInv, KTypeOK, scanVars
  <1>7. CASE cleanup_lock(t)
    <2>1. /\ keys_lock = NoKThread /\ keys_lock' = t /\ k_pc' = [k_pc EXCEPT ![t] = "cleanup"]
          /\ UNCHANGED <<keys, values, iter, idx, done>>
      BY <1>7 DEF cleanup_lock, scanVars
    <2> QED
      BY <1>2, <2>1, ScanStep
  <1>8. ASSUME k_pc[t] \in {"cleanup", "dtor"} PROVE keys_lock = t
    BY <1>8 DEF KIInv
  <1>9. CASE cleanup_call(t)
    <2>1. PICK k : k = Min(Callable(t))
      OBVIOUS
    <2>2. /\ k_pc[t] = "cleanup" /\ Callable(t) # {}
          /\ values' = [values EXCEPT ![t] = @ \ {k}] /\ idx' = [idx EXCEPT ![t] = k + 1]
          /\ k_pc' = [k_pc EXCEPT ![t] = "dtor"] /\ UNCHANGED <<keys, keys_lock, iter>>
          /\ done' \in [KThread -> BOOLEAN] /\ done' = [done EXCEPT ![t] = TRUE]
      BY <1>2, <1>9, <2>1 DEF cleanup_call
    <2>3. Callable(t) \in SUBSET Nat
      BY <1>2, SMTT(30) DEF Callable, Keys
    <2>4. k \in values[t] /\ keys[k] = "dtor"
      BY <2>1, <2>2, <2>3, MinOfSet DEF Callable
    <2>5. k \in Keys /\ k \in Nat /\ k + 1 \in 1..KeysMax /\ (k + 1) - 1 = k
      BY <1>2, <2>4, SMTT(30) DEF Keys
    <2>6. values' \in [KThread -> SUBSET Keys] /\ idx' \in [KThread -> 0..KeysMax] /\ idx'[t] = k + 1
      BY <1>2, <2>2, <2>5, SMTT(30)
    <2>7. \A u \in KThread : ~done'[u] => idx'[u] = 0
      <3>1. \A u \in KThread : u # t => done'[u] = done[u] /\ idx'[u] = idx[u]
        BY <1>2, <2>2
      <3>2. done'[t]
        BY <1>2, <2>2
      <3> QED
        BY <1>2, <3>1, <3>2
    <2>8. idx'[t] > 0 /\ keys[idx'[t] - 1] = "dtor"
      BY <2>4, <2>5, <2>6, SMTT(30)
    <2>9. keys_lock = t
      BY <1>8, <2>2
    <2> QED
      BY <1>2, <2>2, <2>6, <2>7, <2>8, <2>9, ScanStep
  <1>10. CASE dtor_return(t)
    <2>1. /\ k_pc[t] = "dtor" /\ k_pc' = [k_pc EXCEPT ![t] = "cleanup"]
          /\ UNCHANGED <<keys, keys_lock, iter, idx, done>> /\ values' \in [KThread -> SUBSET Keys]
      BY <1>2, <1>10, SMTT(30) DEF dtor_return, scanVars
    <2> QED
      BY <1>2, <1>8, <2>1, ScanStep
  <1>11. CASE cleanup_again(t)
    <2>1. /\ k_pc[t] = "cleanup" /\ iter' \in [KThread -> 0..Iterations] /\ idx' \in [KThread -> 0..KeysMax]
          /\ UNCHANGED <<keys, keys_lock, values, k_pc>>
          /\ idx' = [idx EXCEPT ![t] = 0] /\ done' = [done EXCEPT ![t] = FALSE] /\ done' \in [KThread -> BOOLEAN]
      BY <1>2, <1>11, SMTT(30) DEF cleanup_again
    <2>2. k_pc' = [k_pc EXCEPT ![t] = "cleanup"]
      BY <1>2, <2>1
    <2>3. \A u \in KThread : ~done'[u] => idx'[u] = 0
      <3>1. \A u \in KThread : u # t => done'[u] = done[u] /\ idx'[u] = idx[u]
        BY <1>2, <2>1
      <3>2. idx'[t] = 0
        BY <1>2, <2>1
      <3> QED
        BY <1>2, <3>1, <3>2
    <2> QED
      BY <1>2, <1>8, <2>1, <2>2, <2>3, ScanStep
  <1>12. CASE cleanup_unlock(t)
    <2>1. /\ k_pc[t] = "cleanup" /\ keys_lock' = NoKThread /\ k_pc' = [k_pc EXCEPT ![t] = "dead"]
          /\ UNCHANGED <<keys, values, iter, idx, done>>
      BY <1>12 DEF cleanup_unlock, scanVars
    <2> QED
      BY <1>2, <1>8, <2>1, ScanStep
  <1> QED
    BY <1>1, <1>3, <1>4, <1>5, <1>6, <1>7, <1>9, <1>10, <1>11, <1>12 DEF Cleanup

\* The invariant holds of every run.
LEMMA KeysInductive == KSpec => []KIInv
  <1> USE KeysAssumption
  <1>1. KInit => KIInv
    BY SMTT(30) DEF KInit, KIInv, KTypeOK, Keys
  <1>2. KIInv /\ [KNext]_kVars => KIInv'
    <2>1. ASSUME KIInv, UNCHANGED kVars PROVE KIInv'
      BY <2>1 DEF KIInv, KTypeOK, kVars
    <2> QED
      BY <2>1, NextKeys
  <1> QED
    BY <1>1, <1>2, PTL DEF KSpec

\* No key is deleted, or created again for something else, while a thread is in
\* its destructor, for any number of threads, keys and iterations (keys.c:36-114).
THEOREM KeysSafe == KSpec => []KeysInv
  <1>1. KIInv => KeysInv
    BY DEF KIInv, KeysInv, DtorKeyStays
  <1> QED
    BY <1>1, KeysInductive, PTL

\* A thread that exits leaves no value with a destructor behind, unless it has
\* gone through its keys PTHREAD_DESTRUCTOR_ITERATIONS times (keys.c:92-111).
THEOREM ValuesDestroyed == KSpec => NothingLeft
  <1>1. ASSUME KIInv, KNext, NEW t \in KThread, k_pc[t] = "cleanup", k_pc'[t] = "dead", iter[t] < Iterations,
               NEW k \in values[t]
        PROVE  keys[k] # "dtor"
    <2>1. /\ k_pc \in [KThread -> {"none", "run", "cleanup", "dtor", "dead"}] /\ values \in [KThread -> SUBSET Keys]
          /\ ~done[t] => idx[t] = 0
      BY <1>1 DEF KIInv, KTypeOK
    <2>2. PICK u \in KThread :
            \/ \E kind \in {"plain", "dtor"} : pthread_key_create(u, kind)
            \/ \E i \in Keys : pthread_key_delete(u, i) \/ pthread_setspecific(u, i)
            \/ \E v \in KThread : keys_init(u, v)
            \/ cleanup_lock(u) \/ Cleanup(u)
      BY <1>1 DEF KNext
    <2>3. k_pc' # k_pc /\ \A v \in KThread, r \in {"run", "cleanup", "dtor"} : k_pc' # [k_pc EXCEPT ![v] = r]
      BY <1>1, <2>1
    <2>4. cleanup_unlock(u) /\ u = t
      <3>1. cleanup_unlock(u)
        BY <2>2, <2>3 DEF pthread_key_create, pthread_key_delete, pthread_setspecific, keys_init, cleanup_lock,
                          Cleanup, cleanup_call, dtor_return, cleanup_again
      <3> QED
        BY <1>1, <2>1, <3>1 DEF cleanup_unlock
    <2>5. Callable(t) = {} /\ ~done[t]
      BY <1>1, <2>4, KeysAssumption, SMTT(30) DEF cleanup_unlock, KIInv, KTypeOK
    <2>6. k \in Nat /\ k >= idx[t]
      BY <2>1, <2>5, KeysAssumption, SMTT(30) DEF Keys
    <2> QED
      BY <2>5, <2>6 DEF Callable
  <1>2. KIInv /\ [KNext]_kVars =>
          [\A t \in KThread : k_pc[t] = "cleanup" /\ k_pc'[t] = "dead" /\ iter[t] < Iterations =>
             \A k \in values[t] : keys[k] # "dtor"]_kVars
    BY <1>1
  <1> QED
    BY <1>2, KeysInductive, PTL DEF KSpec, NothingLeft
-----------------------------------------------------------------------------
(* MWMR channels under a spin lock.                                        *)

LkSpec == LkInit /\ [][LkNext]_lkVars

LkStatus == [usage : 0..LkDepth, wptr : 0..(LkDepth - 1), rptr : 0..(LkDepth - 1), modified : BOOLEAN]

LkTypes ==
  /\ holder \in LkTask \cup {NoTask} /\ trying \in SUBSET LkTask
  /\ fstatus \in LkStatus /\ lstatus \in LkStatus
  /\ slot \in [0..(LkDepth - 1) -> Int]
  /\ lensw \in [LkTask -> 0..LkLen]
  /\ lk_pc \in [LkTask -> {"lock", "copy", "unlock", "wait"}]
  /\ put_no \in Nat /\ got_no \in Nat
  /\ out_of_turn = FALSE

\* the slot i places behind r, around the end of the buffer
Around(r, i) == IF r + i < LkDepth THEN r + i ELSE r + i - LkDepth

\* The pointers of the status s say where the units got_no .. put_no - 1 are.
Ring(s) ==
  /\ s.usage = put_no - got_no
  /\ s.wptr = s.rptr + s.usage \/ s.wptr = s.rptr + s.usage - LkDepth
  /\ \A i \in 0..(s.usage - 1) : slot[Around(s.rptr, i)] = got_no + i

\* One task at a time has the lock.  While it copies, its own status is the one
\* to go by; the shared one is behind, by what it has copied.
LockInv ==
  /\ \A x \in LkTask : lk_pc[x] \in {"copy", "unlock"} <=> holder = x
  /\ (\A x \in LkTask : lk_pc[x] # "copy") => Ring(fstatus)
  /\ \A x \in LkTask : lk_pc[x] = "copy" =>
       /\ Ring(lstatus)
       /\ lstatus.modified \/ lstatus = fstatus
       /\ x \in LkWriter => fstatus.usage <= lstatus.usage
       /\ x \in LkReader => lstatus.usage <= fstatus.usage

LkIInv == LkTypes /\ LockInv

\* Going around the end of the buffer.
LEMMA Modulo ==
  ASSUME NEW a \in 0..LkDepth
  PROVE  a % LkDepth = IF a = LkDepth THEN 0 ELSE a
  BY LockedAssumption, SMTT(30)

\* The smaller of two numbers.
LEMMA MinOfTwo ==
  ASSUME NEW a \in Int, NEW b \in Int
  PROVE  Min({a, b}) = IF a <= b THEN a ELSE b
  <1>1. \E x \in {a, b} : \A y \in {a, b} : x <= y
    BY SMTT(30)
  <1>2. Min({a, b}) \in {a, b} /\ \A y \in {a, b} : Min({a, b}) <= y
    BY <1>1 DEF Min
  <1> QED
    BY <1>2, SMTT(30)

\* A reader's run is there to be read and ends at the end of the buffer.
LEMMA ReadRunBounds ==
  ASSUME NEW s \in LkStatus, Ring(s), s.usage >= 1, NEW len \in 1..LkLen
  PROVE  /\ ReadRun(s, len) \in 1..len /\ ReadRun(s, len) <= s.usage
         /\ s.rptr + ReadRun(s, len) <= LkDepth
  <1> USE LockedAssumption
  <1> DEFINE m == IF s.rptr < s.wptr THEN s.usage ELSE LkDepth - s.rptr
  <1>1. /\ s.usage \in 0..LkDepth /\ s.rptr \in 0..(LkDepth - 1) /\ s.wptr \in 0..(LkDepth - 1)
        /\ len \in Int /\ len >= 1
    BY SMTT(30) DEF LkStatus
  <1>2. m \in Int /\ m >= 1 /\ m <= s.usage /\ s.rptr + m <= LkDepth
    BY <1>1, SMTT(30) DEF Ring
  <1> HIDE DEF m
  <1>3. ReadRun(s, len) = IF len <= m THEN len ELSE m
    BY <1>1, <1>2, MinOfTwo DEF ReadRun, m
  <1> QED
    BY <1>1, <1>2, <1>3, SMTT(30)

\* A writer's run is free and ends at the end of the buffer.
LEMMA WriteRunBounds ==
  ASSUME NEW s \in LkStatus, Ring(s), s.usage < LkDepth, NEW len \in 1..LkLen
  PROVE  /\ WriteRun(s, len) \in 1..len /\ s.usage + WriteRun(s, len) <= LkDepth
         /\ s.wptr + WriteRun(s, len) <= LkDepth
         /\ s.rptr <= s.wptr \/ s.wptr + WriteRun(s, len) <= s.rptr
  <1> USE LockedAssumption
  <1> DEFINE m == IF s.rptr <= s.wptr THEN LkDepth - s.wptr ELSE LkDepth - s.usage
  <1>1. /\ s.usage \in 0..LkDepth /\ s.rptr \in 0..(LkDepth - 1) /\ s.wptr \in 0..(LkDepth - 1)
        /\ len \in Int /\ len >= 1
    BY SMTT(30) DEF LkStatus
  <1>2. /\ m \in Int /\ m >= 1 /\ s.usage + m <= LkDepth /\ s.wptr + m <= LkDepth
        /\ s.rptr <= s.wptr \/ s.wptr + m <= s.rptr
    BY <1>1, SMTT(30) DEF Ring
  <1> HIDE DEF m
  <1>3. WriteRun(s, len) = IF len <= m THEN len ELSE m
    BY <1>1, <1>2, MinOfTwo DEF WriteRun, m
  <1> QED
    BY <1>1, <1>2, <1>3, SMTT(30)

\* mwmr_lock.
LEMMA MwLockStep ==
  ASSUME LkIInv, NEW x \in LkTask, mwmr_lock(x), UNCHANGED trying
  PROVE  LkIInv'
  <1>1. /\ lk_pc[x] = "lock" /\ holder = NoTask /\ holder' = x /\ lstatus' = fstatus
        /\ lk_pc' = [lk_pc EXCEPT ![x] = "copy"]
        /\ UNCHANGED <<trying, fstatus, slot, lensw, put_no, got_no, out_of_turn>>
    BY DEF mwmr_lock, LkGoto
  <1>2. LkTypes'
    BY <1>1 DEF LkIInv, LkTypes
  <1>3. \A y \in LkTask : lk_pc'[y] = IF y = x THEN "copy" ELSE lk_pc[y]
    BY <1>1 DEF LkIInv, LkTypes
  <1>4. \A y \in LkTask : lk_pc[y] \notin {"copy", "unlock"}
    BY <1>1, LockedAssumption DEF LkIInv, LockInv, LkTask
  <1>5. Ring(fstatus)
    BY <1>4 DEF LkIInv, LockInv
  <1>6. Ring(lstatus)'
    BY <1>1, <1>5 DEF Ring
  <1>7. fstatus.usage \in Int
    BY LockedAssumption, SMTT(30) DEF LkIInv, LkTypes, LkStatus
  <1>8. LockInv'
    BY <1>1, <1>3, <1>4, <1>6, <1>7, SMTT(30) DEF LockInv
  <1> QED
    BY <1>2, <1>8 DEF LkIInv

\* read_run.
LEMMA MwReadStep ==
  ASSUME LkIInv, NEW x \in LkTask, read_run(x), UNCHANGED trying
  PROVE  LkIInv'
  <1> USE LockedAssumption
  <1> DEFINE s == lstatus
             n == ReadRun(lstatus, lensw[x])
  <1>1. /\ lk_pc[x] = "copy" /\ x \in LkReader /\ s.usage >= 1 /\ lensw[x] > 0
        /\ out_of_turn' = (out_of_turn \/ \E i \in 0..(n - 1) : slot[s.rptr + i] # got_no + i)
        /\ lstatus' = [s EXCEPT !.rptr = (@ + n) % LkDepth, !.usage = @ - n, !.modified = TRUE]
        /\ lensw' = [lensw EXCEPT ![x] = @ - n]
        /\ got_no' = got_no + n
        /\ UNCHANGED <<trying, holder, fstatus, slot, lk_pc, put_no>>
    BY DEF read_run
  <1>2. LkTypes /\ LockInv /\ Ring(s) /\ s \in LkStatus /\ lensw[x] \in 1..LkLen
    BY <1>1, SMTT(30) DEF LkIInv, LockInv, LkTypes
  <1>3. n \in 1..lensw[x] /\ n <= s.usage /\ s.rptr + n <= LkDepth
    BY <1>1, <1>2, ReadRunBounds
  <1> HIDE DEF n, s
  <1>4. /\ s.usage \in 0..LkDepth /\ s.rptr \in 0..(LkDepth - 1) /\ s.wptr \in 0..(LkDepth - 1)
        /\ n \in Int /\ n >= 1 /\ lensw[x] \in Int /\ got_no \in Nat /\ put_no \in Nat
    BY <1>2, <1>3, SMTT(30) DEF LkStatus, LkTypes
  <1>5. (s.rptr + n) % LkDepth = IF s.rptr + n = LkDepth THEN 0 ELSE s.rptr + n
    BY <1>3, <1>4, Modulo, SMTT(30)
  <1>6. /\ lstatus'.rptr = (IF s.rptr + n = LkDepth THEN 0 ELSE s.rptr + n)
        /\ lstatus'.usage = s.usage - n /\ lstatus'.wptr = s.wptr /\ lstatus'.modified = TRUE
        /\ lstatus' \in LkStatus
    <2>1. /\ lstatus'.rptr = (s.rptr + n) % LkDepth
          /\ lstatus'.usage = s.usage - n /\ lstatus'.wptr = s.wptr /\ lstatus'.modified = TRUE
      BY <1>1, <1>2 DEF LkStatus
    <2>2. (s.rptr + n) % LkDepth \in 0..(LkDepth - 1) /\ s.usage - n \in 0..LkDepth
      BY <1>3, <1>4, <1>5, SMTT(30)
    <2>3. lstatus' \in LkStatus
      BY <1>1, <1>2, <2>2 DEF LkStatus
    <2> QED
      BY <1>5, <2>1, <2>3
  <1>7. \A i \in 0..(n - 1) : slot[s.rptr + i] = got_no + i
    <2> SUFFICES ASSUME NEW i \in 0..(n - 1) PROVE slot[s.rptr + i] = got_no + i
      OBVIOUS
    <2>1. Around(s.rptr, i) = s.rptr + i /\ i \in 0..(s.usage - 1)
      BY <1>3, <1>4, SMTT(30) DEF Around
    <2> QED
      BY <1>2, <2>1 DEF Ring
  <1>8. out_of_turn' = FALSE
    BY <1>1, <1>2, <1>7 DEF LkTypes
  <1>9. LkTypes'
    <2>1. lensw' \in [LkTask -> 0..LkLen]
      <3>1. lensw[x] - n \in 0..LkLen
        BY <1>2, <1>3, <1>4, SMTT(30)
      <3>2. lensw' = [lensw EXCEPT ![x] = lensw[x] - n] /\ lensw \in [LkTask -> 0..LkLen]
        BY <1>1, <1>2 DEF LkTypes
      <3> QED
        BY <3>1, <3>2
    <2>2. got_no' \in Nat
      BY <1>1, <1>4, SMTT(30)
    <2> QED
      BY <1>1, <1>2, <1>6, <1>8, <2>1, <2>2 DEF LkTypes
  <1>10. Ring(lstatus)'
    <2>1. lstatus'.usage = put_no' - got_no'
      BY <1>1, <1>2, <1>4, <1>6, SMTT(30) DEF Ring
    <2>2. lstatus'.wptr = lstatus'.rptr + lstatus'.usage
          \/ lstatus'.wptr = lstatus'.rptr + lstatus'.usage - LkDepth
      BY <1>2, <1>3, <1>4, <1>6, SMTT(30) DEF Ring
    <2>3. ASSUME NEW i \in 0..(lstatus'.usage - 1)
          PROVE  slot'[Around(lstatus'.rptr, i)] = got_no' + i
      <3>1. i + n \in 0..(s.usage - 1) /\ got_no + (i + n) = got_no' + i
        BY <1>1, <1>3, <1>4, <1>6, SMTT(30)
      <3>2. Around(lstatus'.rptr, i) = Around(s.rptr, i + n)
        BY <1>3, <1>4, <1>6, SMTT(30) DEF Around
      <3> QED
        BY <1>1, <1>2, <3>1, <3>2 DEF Ring
    <2> QED
      BY <2>1, <2>2, <2>3 DEF Ring, Around
  <1>11. s.usage <= fstatus.usage /\ fstatus.usage \in Int
    BY <1>1, <1>2, SMTT(30) DEF LockInv, LkTypes, LkStatus, s
  <1>12. LockInv'
    <2>1. ASSUME NEW y \in LkTask, lk_pc'[y] = "copy" PROVE y = x
      BY <1>1, <1>2, <2>1, SMTT(30) DEF LockInv
    <2>2. x \notin LkWriter
      BY <1>1
    <2>3. lstatus'.usage <= fstatus'.usage
      BY <1>1, <1>3, <1>4, <1>6, <1>11, SMTT(30)
    <2> QED
      BY <1>1, <1>2, <1>6, <1>10, <2>1, <2>2, <2>3 DEF LockInv
  <1> QED
    BY <1>9, <1>12 DEF LkIInv

\* write_run.
LEMMA MwWriteStep ==
  ASSUME LkIInv, NEW x \in LkTask, write_run(x), UNCHANGED trying
  PROVE  LkIInv'
  <1> USE LockedAssumption
  <1> DEFINE s == lstatus
             n == WriteRun(lstatus, lensw[x])
  <1>1. /\ lk_pc[x] = "copy" /\ x \in LkWriter /\ s.usage < LkDepth /\ lensw[x] > 0
        /\ slot' = [i \in DOMAIN slot |->
             IF i \in s.wptr..(s.wptr + n - 1) THEN put_no + i - s.wptr ELSE slot[i]]
        /\ lstatus' = [s EXCEPT !.wptr = (@ + n) % LkDepth, !.usage = @ + n, !.modified = TRUE]
        /\ lensw' = [lensw EXCEPT ![x] = @ - n]
        /\ put_no' = put_no + n
        /\ UNCHANGED <<trying, holder, fstatus, lk_pc, got_no, out_of_turn>>
    BY DEF write_run
  <1>2. LkTypes /\ LockInv /\ Ring(s) /\ s \in LkStatus /\ lensw[x] \in 1..LkLen
    BY <1>1, SMTT(30) DEF LkIInv, LockInv, LkTypes
  <1>3. /\ n \in 1..lensw[x] /\ s.usage + n <= LkDepth /\ s.wptr + n <= LkDepth
        /\ s.rptr <= s.wptr \/ s.wptr + n <= s.rptr
    BY <1>1, <1>2, WriteRunBounds
  <1> HIDE DEF n, s
  <1>4. /\ s.usage \in 0..LkDepth /\ s.rptr \in 0..(LkDepth - 1) /\ s.wptr \in 0..(LkDepth - 1)
        /\ n \in Int /\ n >= 1 /\ lensw[x] \in Int /\ got_no \in Nat /\ put_no \in Nat
    BY <1>2, <1>3, SMTT(30) DEF LkStatus, LkTypes
  <1>5. (s.wptr + n) % LkDepth = IF s.wptr + n = LkDepth THEN 0 ELSE s.wptr + n
    BY <1>3, <1>4, Modulo, SMTT(30)
  <1>6. /\ lstatus'.wptr = (IF s.wptr + n = LkDepth THEN 0 ELSE s.wptr + n)
        /\ lstatus'.usage = s.usage + n /\ lstatus'.rptr = s.rptr /\ lstatus'.modified = TRUE
        /\ lstatus' \in LkStatus
    <2>1. /\ lstatus'.wptr = (s.wptr + n) % LkDepth
          /\ lstatus'.usage = s.usage + n /\ lstatus'.rptr = s.rptr /\ lstatus'.modified = TRUE
      BY <1>1, <1>2 DEF LkStatus
    <2>2. (s.wptr + n) % LkDepth \in 0..(LkDepth - 1) /\ s.usage + n \in 0..LkDepth
      BY <1>3, <1>4, <1>5, SMTT(30)
    <2>3. lstatus' \in LkStatus
      BY <1>1, <1>2, <2>2 DEF LkStatus
    <2> QED
      BY <1>5, <2>1, <2>3
  <1>7. \A i \in 0..(LkDepth - 1) :
          slot'[i] = IF s.wptr <= i /\ i < s.wptr + n THEN put_no + i - s.wptr ELSE slot[i]
    <2>1. DOMAIN slot = 0..(LkDepth - 1)
      BY <1>2 DEF LkTypes
    <2>2. \A i \in 0..(LkDepth - 1) : slot'[i] =
            IF i \in s.wptr..(s.wptr + n - 1) THEN put_no + i - s.wptr ELSE slot[i]
      BY <1>1, <2>1
    <2>3. \A i \in 0..(LkDepth - 1) :
            i \in s.wptr..(s.wptr + n - 1) <=> s.wptr <= i /\ i < s.wptr + n
      BY <1>4, SMTT(30)
    <2> QED
      BY <2>2, <2>3
  <1>8. LkTypes'
    <2>1. lensw' \in [LkTask -> 0..LkLen]
      <3>1. lensw[x] - n \in 0..LkLen
        BY <1>2, <1>3, <1>4, SMTT(30)
      <3>2. lensw' = [lensw EXCEPT ![x] = lensw[x] - n] /\ lensw \in [LkTask -> 0..LkLen]
        BY <1>1, <1>2 DEF LkTypes
      <3> QED
        BY <3>1, <3>2
    <2>2. put_no' \in Nat
      BY <1>1, <1>4, SMTT(30)
    <2>3. slot' \in [0..(LkDepth - 1) -> Int]
      BY <1>1, <1>2, <1>4, SMTT(30) DEF LkTypes
    <2> QED
      BY <1>1, <1>2, <1>6, <2>1, <2>2, <2>3 DEF LkTypes
  <1>9. Ring(lstatus)'
    <2>1. lstatus'.usage = put_no' - got_no'
      BY <1>1, <1>2, <1>4, <1>6, SMTT(30) DEF Ring
    <2>2. lstatus'.wptr = lstatus'.rptr + lstatus'.usage
          \/ lstatus'.wptr = lstatus'.rptr + lstatus'.usage - LkDepth
      BY <1>2, <1>3, <1>4, <1>6, SMTT(30) DEF Ring
    <2>3. ASSUME NEW i \in 0..(lstatus'.usage - 1)
          PROVE  slot'[Around(lstatus'.rptr, i)] = got_no' + i
      <3>1. i \in Nat /\ i < s.usage + n
        BY <1>4, <1>6, SMTT(30)
      <3> DEFINE a == Around(s.rptr, i)
      <3>2. a \in 0..(LkDepth - 1)
        BY <1>3, <1>4, <3>1, SMTT(30) DEF Around
      <3>3. CASE i < s.usage
        <4>1. ~(s.wptr <= a /\ a < s.wptr + n)
          BY <1>2, <1>3, <1>4, <3>1, <3>3, SMTT(30) DEF Ring, Around
        <4>2. slot[a] = got_no + i
          BY <1>2, <1>4, <3>1, <3>3, SMTT(30) DEF Ring
        <4> QED
          BY <1>1, <1>6, <1>7, <3>2, <4>1, <4>2
      <3>4. CASE i >= s.usage
        <4>1. a = s.wptr + (i - s.usage)
          BY <1>2, <1>3, <1>4, <3>1, <3>4, SMTT(30) DEF Ring, Around
        <4>2. s.usage = put_no - got_no
          BY <1>2 DEF Ring
        <4> HIDE DEF a
        <4>3. slot'[a] = put_no + a - s.wptr
          BY <1>4, <1>7, <3>1, <3>2, <3>4, <4>1, SMTT(30)
        <4>4. put_no + a - s.wptr = got_no + i
          BY <1>4, <3>1, <4>1, <4>2, SMTT(30)
        <4> QED
          BY <1>1, <1>6, <4>3, <4>4 DEF a
      <3> QED
        BY <1>4, <3>1, <3>3, <3>4, SMTT(30)
    <2> QED
      BY <2>1, <2>2, <2>3 DEF Ring, Around
  <1>10. fstatus.usage <= s.usage /\ fstatus.usage \in Int
    BY <1>1, <1>2, SMTT(30) DEF LockInv, LkTypes, LkStatus, s
  <1>11. LockInv'
    <2>1. ASSUME NEW y \in LkTask, lk_pc'[y] = "copy" PROVE y = x
      BY <1>1, <1>2, <2>1 DEF LockInv
    <2>2. x \notin LkReader
      BY <1>1
    <2>3. fstatus'.usage <= lstatus'.usage
      BY <1>1, <1>3, <1>4, <1>6, <1>10, SMTT(30)
    <2> QED
      BY <1>1, <1>2, <1>6, <1>9, <2>1, <2>2, <2>3 DEF LockInv
  <1> QED
    BY <1>8, <1>11 DEF LkIInv

\* writeback_status: the shared status is that of the task again.
LEMMA MwWritebackStep ==
  ASSUME LkIInv, NEW x \in LkTask, writeback_status(x), UNCHANGED trying
  PROVE  LkIInv' /\ fstatus'.usage = lstatus.usage
  <1> USE LockedAssumption
  <1>1. /\ lk_pc[x] = "copy" /\ lk_pc' = [lk_pc EXCEPT ![x] = "unlock"]
        /\ fstatus' = IF lstatus.modified THEN [lstatus EXCEPT !.modified = FALSE] ELSE fstatus
        /\ UNCHANGED <<trying, holder, lstatus, slot, lensw, put_no, got_no, out_of_turn>>
    BY DEF writeback_status, LkGoto
  <1>2. LkTypes /\ LockInv /\ Ring(lstatus) /\ (lstatus.modified \/ lstatus = fstatus)
    BY <1>1 DEF LkIInv, LockInv
  <1>3. /\ fstatus' \in LkStatus
        /\ fstatus'.usage = lstatus.usage /\ fstatus'.wptr = lstatus.wptr
        /\ fstatus'.rptr = lstatus.rptr
    BY <1>1, <1>2 DEF LkTypes, LkStatus
  <1>4. LkTypes'
    BY <1>1, <1>2, <1>3 DEF LkTypes
  <1>5. \A y \in LkTask : lk_pc'[y] = IF y = x THEN "unlock" ELSE lk_pc[y]
    BY <1>1, <1>2 DEF LkTypes
  <1>6. Ring(fstatus)'
    BY <1>1, <1>2, <1>3 DEF Ring, Around
  <1>7. \A y \in LkTask : lk_pc'[y] # "copy"
    BY <1>1, <1>2, <1>5, SMTT(30) DEF LockInv
  <1>8. LockInv'
    BY <1>1, <1>2, <1>5, <1>6, <1>7 DEF LockInv
  <1> QED
    BY <1>3, <1>4, <1>8 DEF LkIInv

\* mwmr_unlock.
LEMMA MwUnlockStep ==
  ASSUME LkIInv, NEW x \in LkTask, mwmr_unlock(x), UNCHANGED trying
  PROVE  LkIInv' /\ Ring(fstatus)
  <1> USE LockedAssumption
  <1>1. /\ lk_pc[x] = "unlock" /\ holder' = NoTask /\ lk_pc' = [lk_pc EXCEPT ![x] = "wait"]
        /\ lensw' = IF x \in trying THEN [lensw EXCEPT ![x] = 0] ELSE lensw
        /\ UNCHANGED <<trying, fstatus, lstatus, slot, put_no, got_no, out_of_turn>>
    BY DEF mwmr_unlock, LkGoto
  <1>2. LkTypes /\ LockInv
    BY DEF LkIInv
  <1>3. LkTypes'
    BY <1>1, <1>2, SMTT(30) DEF LkTypes
  <1>4. \A y \in LkTask : lk_pc'[y] = IF y = x THEN "wait" ELSE lk_pc[y]
    BY <1>1, <1>2 DEF LkTypes
  <1>5. \A y \in LkTask : y # x => lk_pc[y] \notin {"copy", "unlock"}
    BY <1>1, <1>2 DEF LockInv
  <1>6. Ring(fstatus)
    BY <1>1, <1>2, <1>5 DEF LockInv
  <1>7. Ring(fstatus)'
    BY <1>1, <1>6 DEF Ring, Around
  <1>8. NoTask \notin LkTask
    BY DEF LkTask
  <1>9. LockInv'
    BY <1>1, <1>4, <1>5, <1>7, <1>8, SMTT(30) DEF LockInv
  <1> QED
    BY <1>3, <1>6, <1>9 DEF LkIInv

\* srl_sched_wait_ge_le, srl_sched_wait_le_le.
LEMMA MwWaitStep ==
  ASSUME LkIInv, NEW x \in LkTask, wait_usage(x), UNCHANGED trying
  PROVE  LkIInv'
  <1>1. /\ lk_pc[x] = "wait" /\ lk_pc' = [lk_pc EXCEPT ![x] = "lock"]
        /\ UNCHANGED <<trying, holder, fstatus, lstatus, slot, lensw, put_no, got_no, out_of_turn>>
    BY DEF wait_usage, LkGoto
  <1>2. LkTypes'
    BY <1>1 DEF LkIInv, LkTypes
  <1>3. \A y \in LkTask : lk_pc'[y] = IF y = x THEN "lock" ELSE lk_pc[y]
    BY <1>1 DEF LkIInv, LkTypes
  <1>4. \A y \in LkTask : \A pc \in {"copy", "unlock"} : lk_pc'[y] = pc <=> lk_pc[y] = pc
    BY <1>1, <1>3, SMTT(30)
  <1>5. LockInv'
    BY <1>1, <1>4 DEF LkIInv, LockInv, Ring, Around
  <1> QED
    BY <1>2, <1>5 DEF LkIInv

\* LkIInv is an invariant of the tasks.
LEMMA LkInductive == LkSpec => []LkIInv
  <1>1. LkInit => LkIInv
    <2> SUFFICES ASSUME LkInit PROVE LkIInv
      OBVIOUS
    <2>1. LkTypes
      BY LockedAssumption, SMTT(30) DEF LkInit, LkTypes, LkStatus, Status
    <2>2. fstatus.usage = 0 /\ fstatus.wptr = 0 /\ fstatus.rptr = 0
      BY DEF LkInit, Status
    <2>3. Ring(fstatus)
      BY <2>2, SMTT(30) DEF LkInit, Ring
    <2>4. LockInv
      BY <2>3, LockedAssumption DEF LkInit, LockInv, LkTask
    <2> QED
      BY <2>1, <2>4 DEF LkIInv
  <1>2. LkIInv /\ [LkNext]_lkVars => LkIInv'
    <2> SUFFICES ASSUME LkIInv, [LkNext]_lkVars PROVE LkIInv'
      OBVIOUS
    <2>1. CASE UNCHANGED lkVars
      BY <2>1 DEF lkVars, LkIInv, LkTypes, LockInv, Ring, Around
    <2>2. CASE LkNext
      BY <2>2, MwLockStep, MwReadStep, MwWriteStep, MwWritebackStep, MwUnlockStep, MwWaitStep
         DEF LkNext, LkStep
    <2> QED
      BY <2>1, <2>2
  <1> QED
    BY <1>1, <1>2, PTL DEF LkSpec

\* Units are read in the order they were written, each once and as written, by
\* any number of tasks through a buffer of any depth (mwmr_soclib.c:150-260).
THEOREM LockedInTurn == LkSpec => []LkInv
  <1>1. LkIInv => LkInv
    BY DEF LkIInv, LkTypes, LkStatus, LkInv, LkTypeOK, ReadInTurn
  <1> QED
    BY <1>1, LkInductive, PTL

\* what the channel has been given and has handed out, as the shared status says
ChPut == IF holder \in LkWriter THEN got_no + fstatus.usage ELSE put_no
ChGot == IF holder \in LkReader THEN put_no - fstatus.usage ELSE got_no

\* Only writeback_status shows: the units of all the runs of a task at once.
LEMMA WritebackShows ==
  ASSUME LkIInv, NEW x \in LkTask, writeback_status(x), UNCHANGED trying
  PROVE  \/ UNCHANGED <<ChPut, ChGot>>
         \/ \E n \in 1..LkDepth :
              \/ ChPut + n <= ChGot + LkDepth /\ ChPut' = ChPut + n /\ UNCHANGED ChGot
              \/ ChGot + n <= ChPut /\ ChGot' = ChGot + n /\ UNCHANGED ChPut
  <1> USE LockedAssumption
  <1>1. /\ lk_pc[x] = "copy" /\ UNCHANGED <<holder, put_no, got_no>>
        /\ fstatus'.usage = lstatus.usage
    BY MwWritebackStep DEF writeback_status
  <1>2. /\ LkTypes /\ holder = x /\ lstatus.usage = put_no - got_no
        /\ x \in LkWriter => fstatus.usage <= lstatus.usage
        /\ x \in LkReader => lstatus.usage <= fstatus.usage
    BY <1>1 DEF LkIInv, LockInv, Ring
  <1>3. /\ fstatus.usage \in 0..LkDepth /\ lstatus.usage \in 0..LkDepth
        /\ put_no \in Nat /\ got_no \in Nat
    BY <1>2 DEF LkTypes, LkStatus
  <1>4. CASE fstatus.usage = lstatus.usage
    BY <1>1, <1>4 DEF ChPut, ChGot
  <1>5. CASE x \in LkWriter /\ fstatus.usage # lstatus.usage
    <2>1. /\ ChPut = got_no + fstatus.usage /\ ChPut' = got_no + lstatus.usage
          /\ ChGot = got_no /\ ChGot' = got_no
      BY <1>1, <1>2, <1>5 DEF ChPut, ChGot
    <2>2. lstatus.usage - fstatus.usage \in 1..LkDepth
      BY <1>2, <1>3, <1>5, SMTT(30)
    <2> QED
      BY <1>3, <2>1, <2>2, SMTT(30)
  <1>6. CASE x \in LkReader /\ fstatus.usage # lstatus.usage
    <2>1. /\ ChGot = put_no - fstatus.usage /\ ChGot' = put_no - lstatus.usage
          /\ ChPut = put_no /\ ChPut' = put_no
      BY <1>1, <1>2, <1>6 DEF ChPut, ChGot
    <2>2. fstatus.usage - lstatus.usage \in 1..LkDepth
      BY <1>2, <1>3, <1>6, SMTT(30)
    <2> QED
      BY <1>3, <2>1, <2>2, SMTT(30)
  <1> QED
    BY <1>4, <1>5, <1>6 DEF LkTask

\* The others do not.
LEMMA OthersStutter ==
  ASSUME LkIInv, NEW x \in LkTask, UNCHANGED trying,
         mwmr_lock(x) \/ read_run(x) \/ write_run(x) \/ mwmr_unlock(x) \/ wait_usage(x)
  PROVE  UNCHANGED <<ChPut, ChGot>>
  <1> USE LockedAssumption
  <1>1. /\ fstatus.usage \in 0..LkDepth /\ put_no \in Nat /\ got_no \in Nat
        /\ lk_pc[x] \in {"copy", "unlock"} => holder = x
        /\ NoTask \notin LkTask
    BY DEF LkIInv, LkTypes, LkStatus, LockInv, LkTask
  <1>2. CASE mwmr_lock(x)
    <2>1. fstatus.usage = put_no - got_no
      <3>1. \A y \in LkTask : lk_pc[y] # "copy"
        BY <1>1, <1>2 DEF LkIInv, LockInv, mwmr_lock
      <3> QED
        BY <3>1 DEF LkIInv, LockInv, Ring
    <2> QED
      BY <1>1, <1>2, <2>1, SMTT(30) DEF mwmr_lock, ChPut, ChGot, LkTask
  <1>3. CASE read_run(x)
    BY <1>1, <1>3 DEF read_run, ChPut, ChGot
  <1>4. CASE write_run(x)
    BY <1>1, <1>4 DEF write_run, ChPut, ChGot
  <1>5. CASE mwmr_unlock(x)
    <2>1. fstatus.usage = put_no - got_no
      BY <1>5, MwUnlockStep DEF Ring
    <2> QED
      BY <1>1, <1>5, <2>1, SMTT(30) DEF mwmr_unlock, ChPut, ChGot, LkTask
  <1>6. CASE wait_usage(x)
    BY <1>6 DEF wait_usage, ChPut, ChGot
  <1> QED
    BY <1>2, <1>3, <1>4, <1>5, <1>6

\* The channel under a spin lock is a bounded buffer: it neither loses nor makes
\* up units and never holds more than its depth (mwmr.h, mwmr_soclib.c).
THEOREM LockedImplements == LkSpec => LkImplements
  <1>1. LkInit => ChPut = 0 /\ ChGot = 0
    BY LockedAssumption DEF LkInit, ChPut, ChGot
  <1>2. LkIInv /\ [LkNext]_lkVars =>
          [\E n \in 1..LkDepth : LkChannel!Put(n) \/ LkChannel!Get(n)]_<<ChPut, ChGot>>
    <2> SUFFICES ASSUME LkIInv, [LkNext]_lkVars
                 PROVE  [\E n \in 1..LkDepth : LkChannel!Put(n) \/ LkChannel!Get(n)]_<<ChPut, ChGot>>
      OBVIOUS
    <2>1. CASE UNCHANGED lkVars
      BY <2>1 DEF lkVars, ChPut, ChGot
    <2>2. ASSUME NEW x \in LkTask, writeback_status(x), UNCHANGED trying
          PROVE  [\E n \in 1..LkDepth : LkChannel!Put(n) \/ LkChannel!Get(n)]_<<ChPut, ChGot>>
      BY <2>2, WritebackShows DEF LkChannel!Put, LkChannel!Get, ChPut, ChGot
    <2> QED
      BY <2>1, <2>2, OthersStutter DEF LkNext, LkStep
  <1> QED
    BY <1>1, <1>2, LkInductive, PTL DEF LkSpec, LkImplements, LkChannel!Channel, ChPut, ChGot

-----------------------------------------------------------------------------
(* MWMR channels without locks.                                            *)

LfSpec == LfInit /\ [][LfNext]_lfVars

Side == {"data", "free"}

\* x has taken room off side s and no place yet, or has moved the head of s and
\* not added the room
Owes(x, s) == (LfAt(x, "tail") /\ From(x) = s) \/ (LfAt(x, "add") /\ To(x) = s)

\* the units of s that size[s] does not tell of for that
Held(s) == {p \in Task \X (1..LfDepth) : Owes(p[1], s) /\ p[2] <= xfer[p[1]]}

\* how far the head of s has come, in units that do not wrap
Reached(s) == tail[s] + size[s] + Cardinality(Held(s)) - (IF s = "free" THEN LfDepth ELSE 0)

\* x has its units and has not moved the head behind them
Has(x) == LfAt(x, "copy") \/ LfAt(x, "head")

\* a task between its first step and its last has units to move
LfTypes ==
  /\ size \in [Side -> Nat] /\ tail \in [Side -> Nat] /\ head \in [Side -> Nat]
  /\ buffer \in [0..(LfDepth - 1) -> Int]
  /\ lf_pc \in [Task -> {"size", "tail", "copy", "head", "add"}]
  /\ todo \in [Task -> 0..LfLen] /\ xfer \in [Task -> 0..LfDepth] /\ place \in [Task -> Nat]
  /\ \A x \in Task : ~LfAt(x, "size") => 1 <= xfer[x] /\ xfer[x] <= todo[x]

\* The heads are where the sizes and the tails say, each behind the other tail.
HeadsFollow ==
  /\ \A s \in Side : Reached(s) \in Nat /\ head[s] = Reached(s) % LfDepth
  /\ Reached("data") <= tail["free"] /\ Reached("free") <= tail["data"]

\* The units of a task are between the head it waits for and the tail it moved,
\* and no other task has them.
UnitsApart ==
  /\ \A x \in Task : Has(x) => /\ Reached(To(x)) <= place[x]
                               /\ place[x] + xfer[x] <= tail[From(x)]
  /\ \A x, y \in Task : (Has(x) /\ Has(y) /\ x # y /\ From(x) = From(y)) =>
       (place[x] + xfer[x] <= place[y] \/ place[y] + xfer[y] <= place[x])

\* What is written and not read is in its place.
InPlace(u) == buffer[u % LfDepth] = u
DataInPlace ==
  /\ \A u \in Nat : (Reached("free") <= u /\ u < Reached("data")) => InPlace(u)
  /\ \A x \in Writer : LfAt(x, "head") =>
       \A u \in Nat : (place[x] <= u /\ u < place[x] + xfer[x]) => InPlace(u)

LfIInv == LfTypes /\ HeadsFollow /\ UnitsApart /\ DataInPlace /\ ~wrong

\* Two units less than the depth apart have different places.
LEMMA PlacesDiffer ==
  ASSUME NEW d \in Nat \ {0}, NEW u \in Nat, NEW v \in Nat, u < v, v < u + d
  PROVE  u % d # v % d
  <1>0. u \div d \in Int /\ v \div d \in Int
    BY SMTT(30)
  <1>1. /\ u = d * (u \div d) + (u % d) /\ v = d * (v \div d) + (v % d)
        /\ u \div d \in Int /\ v \div d \in Int
    BY <1>0, SMTT(30)
  <1>2. PICK a \in Int, b \in Int : a = u \div d /\ b = v \div d
    BY <1>1
  <1>3. ASSUME u % d = v % d
        PROVE  FALSE
    <2>1. v - u = d * b - d * a
      BY <1>1, <1>2, <1>3, SMTT(30)
    <2>2. d * b - d * a = d * (b - a)
      BY <1>2, SMTT(30)
    <2>3. CASE b - a <= 0
      <3>1. d * (b - a) <= 0
        BY <2>3, <1>2, SMTT(30)
      <3> QED
        BY <3>1, <2>1, <2>2, SMTT(30)
    <2>4. CASE b - a >= 1
      <3>1. d * (b - a) >= d
        BY <2>4, <1>2, SMTT(30)
      <3> QED
        BY <3>1, <2>1, <2>2, SMTT(30)
    <2> QED
      BY <2>3, <2>4, <1>2, SMTT(30)
  <1> QED
    BY <1>3

\* The place of a unit.
LEMMA Remainder ==
  ASSUME NEW d \in Nat \ {0}, NEW u \in Nat
  PROVE  u % d \in 0..(d - 1)
  BY SMTT(30)

\* The pairs of a task and the numbers of the units it holds.
LEMMA PieceCount ==
  ASSUME NEW x, NEW n \in Nat
  PROVE  IsFiniteSet({x} \X (1..n)) /\ Cardinality({x} \X (1..n)) = n
  <1>1. IsFiniteSet({x}) /\ Cardinality({x}) = 1
    BY FS_Singleton
  <1>2. IsFiniteSet(1..n) /\ Cardinality(1..n) = n
    BY FS_Interval, SMTT(30)
  <1>3. /\ IsFiniteSet({x} \X (1..n))
        /\ Cardinality({x} \X (1..n)) = Cardinality({x}) * Cardinality(1..n)
    BY <1>1, <1>2, FS_Product
  <1> QED
    BY <1>1, <1>2, <1>3, SMTT(30)

\* A set that gets more elements.
LEMMA PieceAdded ==
  ASSUME NEW A, NEW B, NEW P, IsFiniteSet(A), IsFiniteSet(P), B = A \cup P, A \cap P = {}
  PROVE  Cardinality(A) \in Nat /\ Cardinality(B) = Cardinality(A) + Cardinality(P)
  <1>1. Cardinality({}) = 0
    BY FS_EmptySet
  <1>2. Cardinality(A) \in Nat /\ Cardinality(P) \in Nat
    BY FS_CardinalityType
  <1>3. Cardinality(A \cup P) = Cardinality(A) + Cardinality(P) - Cardinality(A \cap P)
    BY FS_Union
  <1>4. Cardinality(A \cap P) = 0
    BY <1>1
  <1> QED
    BY <1>2, <1>3, <1>4, SMTT(30)

\* There are finitely many.
LEMMA HeldFinite ==
  ASSUME NEW s
  PROVE  IsFiniteSet(Held(s)) /\ Cardinality(Held(s)) \in Nat
  <1>1. IsFiniteSet(Task)
    BY LockfreeAssumption, FS_Union DEF Task
  <1>2. IsFiniteSet(1..LfDepth)
    BY FS_Interval, LockfreeAssumption, SMTT(30)
  <1>3. IsFiniteSet(Task \X (1..LfDepth))
    BY <1>1, <1>2, FS_Product
  <1>4. IsFiniteSet(Held(s))
    BY <1>3, FS_Subset DEF Held
  <1> QED
    BY <1>4, FS_CardinalityType

\* A step of a task that makes it owe its units to side s ...
LEMMA HeldMore ==
  ASSUME NEW x \in Task, NEW s, NEW n \in 0..LfDepth, ~Owes(x, s), Owes(x, s)', xfer'[x] = n,
         \A y \in Task \ {x} : (Owes(y, s)' <=> Owes(y, s)) /\ xfer'[y] = xfer[y]
  PROVE  Cardinality(Held(s)') = Cardinality(Held(s)) + n
  <1>1. Held(s)' = Held(s) \cup ({x} \X (1..n))
    BY LockfreeAssumption, SMTT(30) DEF Held
  <1>2. Held(s) \cap ({x} \X (1..n)) = {}
    BY DEF Held
  <1>3. n \in Nat
    BY LockfreeAssumption, SMTT(30)
  <1>4. PICK A, B, P : A = Held(s) /\ B = Held(s)' /\ P = {x} \X (1..n)
    OBVIOUS
  <1>5. IsFiniteSet(A) /\ IsFiniteSet(P) /\ Cardinality(P) = n
    BY <1>3, <1>4, HeldFinite, PieceCount
  <1>6. Cardinality(B) = Cardinality(A) + Cardinality(P)
    BY <1>1, <1>2, <1>4, <1>5, PieceAdded
  <1> QED
    BY <1>4, <1>5, <1>6

\* ... one after which it does not any more ...
LEMMA HeldLess ==
  ASSUME NEW x \in Task, NEW s, NEW n \in 0..LfDepth, Owes(x, s), ~Owes(x, s)', xfer[x] = n,
         \A y \in Task \ {x} : (Owes(y, s)' <=> Owes(y, s)) /\ xfer'[y] = xfer[y]
  PROVE  /\ Cardinality(Held(s)) = Cardinality(Held(s)') + n
         /\ Cardinality(Held(s)') \in Nat
  <1>1. Held(s) = Held(s)' \cup ({x} \X (1..n))
    BY LockfreeAssumption, SMTT(30) DEF Held
  <1>2. Held(s)' \cap ({x} \X (1..n)) = {}
    BY DEF Held
  <1>3. IsFiniteSet(Held(s)')
    <2>1. Held(s)' \subseteq Held(s)
      BY <1>1
    <2> QED
      BY <2>1, HeldFinite, FS_Subset
  <1>4. n \in Nat
    BY LockfreeAssumption, SMTT(30)
  <1>5. PICK A, B, P : A = Held(s)' /\ B = Held(s) /\ P = {x} \X (1..n)
    OBVIOUS
  <1>6. IsFiniteSet(A) /\ IsFiniteSet(P) /\ Cardinality(P) = n
    BY <1>3, <1>4, <1>5, PieceCount
  <1>7. Cardinality(A) \in Nat /\ Cardinality(B) = Cardinality(A) + Cardinality(P)
    BY <1>1, <1>2, <1>5, <1>6, PieceAdded
  <1> QED
    BY <1>5, <1>6, <1>7

\* ... and one that has nothing to do with side s.
LEMMA HeldSame ==
  ASSUME NEW s, \A y \in Task : (Owes(y, s)' <=> Owes(y, s)) /\ (Owes(y, s) => xfer'[y] = xfer[y])
  PROVE  Held(s)' = Held(s)
  BY DEF Held

\* Readers take units from the data side, writers room from the free side.
LEMMA Sides ==
  ASSUME NEW x \in Task
  PROVE  /\ From(x) \in Side /\ To(x) \in Side /\ From(x) # To(x)
         /\ \A s \in Side : s = From(x) \/ s = To(x)
         /\ x \in Reader => From(x) = "data" /\ To(x) = "free"
         /\ x \in Writer => From(x) = "free" /\ To(x) = "data"
  BY LockfreeAssumption DEF Task, From, To, Side

\* What the tasks that do not move owe.
LEMMA OthersOwe ==
  ASSUME LfTypes, NEW x \in Task, NEW pc, LfGoto(x, pc), NEW s
  PROVE  /\ \A y \in Task \ {x} : Owes(y, s)' <=> Owes(y, s)
         /\ lf_pc'[x] = pc
  BY DEF LfTypes, LfGoto, Owes, LfAt

\* What cpu_atomic_sub_minz takes.
LEMMA MinOfThree ==
  ASSUME NEW a \in Int, NEW b \in Int, NEW c \in Int
  PROVE  /\ Min({a, b, c}) \in {a, b, c}
         /\ Min({a, b, c}) <= a /\ Min({a, b, c}) <= b /\ Min({a, b, c}) <= c
  <1>1. \E x \in {a, b, c} : \A y \in {a, b, c} : x <= y
    BY SMTT(30)
  <1>2. Min({a, b, c}) \in {a, b, c} /\ \A y \in {a, b, c} : Min({a, b, c}) <= y
    BY <1>1 DEF Min
  <1> QED
    BY <1>2

\* cpu_atomic_sub_minz: room is taken off the size.
LEMMA SubStep ==
  ASSUME LfIInv, NEW x \in Task, cpu_atomic_sub_minz(x)
  PROVE  LfIInv'
  <1> PICK n : /\ n = Min({todo[x], LfDepth, size[From(x)]}) /\ n > 0
               /\ LfAt(x, "size") /\ LfGoto(x, "tail")
               /\ size' = [size EXCEPT ![From(x)] = @ - n]
               /\ xfer' = [xfer EXCEPT ![x] = n]
               /\ UNCHANGED <<tail, head, buffer, todo, place, wrong>>
    BY DEF cpu_atomic_sub_minz
  <1>1. LfTypes
    BY DEF LfIInv
  <1>2. n \in 1..LfDepth /\ n <= todo[x] /\ n <= size[From(x)]
    <2>1. todo[x] \in Int /\ LfDepth \in Int /\ size[From(x)] \in Int
      BY <1>1, Sides, LockfreeAssumption, SMTT(30) DEF LfTypes
    <2>2. PICK a \in Int, b \in Int, c \in Int : a = todo[x] /\ b = LfDepth /\ c = size[From(x)]
      BY <2>1
    <2>3. n \in {a, b, c} /\ n <= a /\ n <= b /\ n <= c
      BY <2>2, MinOfThree
    <2> QED
      BY <2>2, <2>3, SMTT(30)
  <1>3. LfTypes'
    <2>1. size' \in [Side -> Nat]
      BY <1>1, <1>2, Sides, SMTT(30) DEF LfTypes
    <2>2. xfer' \in [Task -> 0..LfDepth] /\ lf_pc' \in [Task -> {"size", "tail", "copy", "head", "add"}]
      BY <1>1, <1>2, SMTT(30) DEF LfTypes, LfGoto
    <2>3. \A y \in Task : ~LfAt(y, "size")' => 1 <= xfer'[y] /\ xfer'[y] <= todo'[y]
      BY <1>1, <1>2, SMTT(30) DEF LfTypes, LfGoto, LfAt
    <2> QED
      BY <1>1, <2>1, <2>2, <2>3 DEF LfTypes
  <1>4. ASSUME NEW s \in Side
        PROVE  Reached(s)' = Reached(s)
    <2>1. \A y \in Task \ {x} : (Owes(y, s)' <=> Owes(y, s)) /\ xfer'[y] = xfer[y]
      BY <1>1, OthersOwe DEF LfTypes
    <2>2. CASE s = From(x)
      <3>1. ~Owes(x, s) /\ Owes(x, s)' /\ xfer'[x] = n
        BY <1>1, <2>2, Sides DEF Owes, LfAt, LfGoto, LfTypes, From, To
      <3>0. n \in 0..LfDepth
        BY <1>2, SMTT(30)
      <3>2. Cardinality(Held(s)') = Cardinality(Held(s)) + n
        BY ONLY <3>0, <2>1, <3>1, x \in Task, HeldMore
      <3>3. size'[s] = size[s] - n
        BY <1>1, <2>2 DEF LfTypes
      <3>4. tail[s] \in Int /\ size[s] \in Int /\ n \in Int /\ Cardinality(Held(s)) \in Int /\ LfDepth \in Int
        BY <1>1, <1>2, HeldFinite, LockfreeAssumption, SMTT(30) DEF LfTypes
      <3> QED
        BY <3>2, <3>3, <3>4, SMTT(30) DEF Reached
    <2>3. CASE s # From(x)
      <3>1. ~Owes(x, s) /\ ~Owes(x, s)'
        BY <1>1, <2>3, Sides DEF Owes, LfAt, LfGoto, LfTypes, From, To
      <3>2. Held(s)' = Held(s)
        BY <2>1, <3>1, HeldSame
      <3>3. size'[s] = size[s]
        BY <1>1, <2>3 DEF LfTypes
      <3> QED
        BY <3>2, <3>3 DEF Reached
    <2> QED
      BY <2>2, <2>3
  <1>5. HeadsFollow'
    BY <1>4 DEF LfIInv, HeadsFollow, Side
  <1>6. \A y \in Task : (Has(y)' <=> Has(y)) /\ (Has(y) => xfer'[y] = xfer[y])
    BY <1>1 DEF Has, LfAt, LfGoto, LfTypes
  <1>7. UnitsApart'
    BY <1>4, <1>6, Sides DEF LfIInv, UnitsApart
  <1>8. DataInPlace'
    <2>1. \A y \in Writer : LfAt(y, "head")' => LfAt(y, "head") /\ xfer'[y] = xfer[y]
      BY <1>1 DEF LfAt, LfGoto, LfTypes, Task
    <2> QED
      BY <1>4, <2>1 DEF LfIInv, DataInPlace, InPlace, Side
  <1> QED
    BY <1>3, <1>5, <1>7, <1>8 DEF LfIInv

\* The units from the head of the free side to the tail of the free side, the
\* oldest not read and the last given to a writer, are no more than the depth.
LEMMA Window ==
  ASSUME LfIInv
  PROVE  /\ \A s \in Side : Reached(s) \in Nat /\ tail[s] \in Nat /\ size[s] \in Nat
         /\ Reached("free") <= tail["data"] /\ tail["data"] + size["data"] <= Reached("data")
         /\ Reached("data") <= tail["free"]
         /\ tail["free"] + size["free"] <= Reached("free") + LfDepth
  <1>1. \A s \in Side : Reached(s) \in Nat /\ tail[s] \in Nat /\ size[s] \in Nat
    BY DEF LfIInv, LfTypes, HeadsFollow
  <1>2. \A s \in Side : Cardinality(Held(s)) \in Nat
    BY HeldFinite
  <1>3. "data" \in Side /\ "free" \in Side /\ "data" # "free" /\ LfDepth \in Nat
    BY LockfreeAssumption DEF Side
  <1>4. Reached("data") = tail["data"] + size["data"] + Cardinality(Held("data"))
    BY <1>1, <1>2, <1>3, SMTT(30) DEF Reached
  <1>5. Reached("free") = tail["free"] + size["free"] + Cardinality(Held("free")) - LfDepth
    BY <1>1, <1>2, <1>3 DEF Reached
  <1>6. Reached("data") <= tail["free"] /\ Reached("free") <= tail["data"]
    BY DEF LfIInv, HeadsFollow
  <1>7. /\ tail["data"] + size["data"] <= Reached("data")
        /\ tail["free"] + size["free"] <= Reached("free") + LfDepth
    BY <1>1, <1>2, <1>3, <1>4, <1>5, SMTT(30)
  <1> QED
    BY <1>1, <1>6, <1>7

\* cpu_atomic_add_wrap: the task gets the next units.
LEMMA AddWrapStep ==
  ASSUME LfIInv, NEW x \in Task, cpu_atomic_add_wrap(x)
  PROVE  LfIInv'
  <1>0. /\ LfAt(x, "tail") /\ LfGoto(x, "copy")
        /\ place' = [place EXCEPT ![x] = tail[From(x)]]
        /\ tail' = [tail EXCEPT ![From(x)] = @ + xfer[x]]
        /\ UNCHANGED <<size, head, buffer, todo, xfer, wrong>>
    BY DEF cpu_atomic_add_wrap
  <1>1. LfTypes
    BY DEF LfIInv
  <1>2. xfer[x] \in 0..LfDepth /\ xfer[x] \in Nat /\ tail[From(x)] \in Nat /\ tail[To(x)] \in Nat
    BY <1>1, Sides, LockfreeAssumption, SMTT(30) DEF LfTypes
  <1>3. LfTypes'
    <2>1. tail' \in [Side -> Nat] /\ place' \in [Task -> Nat]
      <3>1. tail[From(x)] + xfer[x] \in Nat
        BY <1>2, SMTT(30)
      <3> QED
        BY <1>0, <1>1, <1>2, <3>1 DEF LfTypes
    <2>2. lf_pc' \in [Task -> {"size", "tail", "copy", "head", "add"}]
      BY <1>0, <1>1 DEF LfTypes, LfGoto
    <2>3. \A y \in Task : ~LfAt(y, "size")' => 1 <= xfer'[y] /\ xfer'[y] <= todo'[y]
      BY <1>0, <1>1 DEF LfTypes, LfGoto, LfAt
    <2> QED
      BY <1>0, <1>1, <2>1, <2>2, <2>3 DEF LfTypes
  <1>4. ASSUME NEW s \in Side
        PROVE  Reached(s)' = Reached(s)
    <2>1. \A y \in Task \ {x} : (Owes(y, s)' <=> Owes(y, s)) /\ xfer'[y] = xfer[y]
      BY <1>0, <1>1, OthersOwe
    <2>2. CASE s = From(x)
      <3>1. Owes(x, s) /\ ~Owes(x, s)'
        BY <1>0, <1>1, <2>2, Sides DEF Owes, LfAt, LfGoto, LfTypes, From, To
      <3>2. PICK n \in 0..LfDepth : n = xfer[x]
        BY <1>2
      <3>3. /\ Cardinality(Held(s)) = Cardinality(Held(s)') + n
            /\ Cardinality(Held(s)') \in Nat
        BY ONLY <2>1, <3>1, <3>2, x \in Task, HeldLess
      <3>4. tail'[s] = tail[s] + n /\ size'[s] = size[s]
        BY <1>0, <1>1, <2>2, <3>2 DEF LfTypes
      <3>5. tail[s] \in Int /\ size[s] \in Int /\ n \in Int /\ LfDepth \in Int
        BY <1>1, <1>2, <3>2, LockfreeAssumption, SMTT(30) DEF LfTypes
      <3> QED
        BY <3>3, <3>4, <3>5, SMTT(30) DEF Reached
    <2>3. CASE s # From(x)
      <3>1. ~Owes(x, s) /\ ~Owes(x, s)'
        BY <1>0, <1>1, <2>3, Sides DEF Owes, LfAt, LfGoto, LfTypes, From, To
      <3>2. Held(s)' = Held(s)
        BY <2>1, <3>1, HeldSame
      <3>3. tail'[s] = tail[s] /\ size'[s] = size[s]
        BY <1>0, <1>1, <2>3 DEF LfTypes
      <3> QED
        BY <3>2, <3>3 DEF Reached
    <2> QED
      BY <2>2, <2>3
  <1>5. \A s \in Side : tail[s] <= tail'[s] /\ tail'[s] \in Nat /\ tail[s] \in Nat /\ Reached(s) \in Nat
    <2>1. ASSUME NEW s \in Side
          PROVE  tail[s] <= tail'[s] /\ tail'[s] \in Nat /\ tail[s] \in Nat
      <3>1. tail[s] \in Nat /\ tail'[s] \in Nat /\ tail' = [tail EXCEPT ![From(x)] = @ + xfer[x]]
        BY <1>0, <1>1, <1>3 DEF LfTypes
      <3>2. tail'[s] = IF s = From(x) THEN tail[s] + xfer[x] ELSE tail[s]
        BY <1>0, <1>1 DEF LfTypes
      <3> QED
        BY <1>2, <3>1, <3>2, SMTT(30)
    <2> QED
      BY <2>1, Window
  <1>6. HeadsFollow'
    <2>1. Reached("data")' <= tail'["free"] /\ Reached("free")' <= tail'["data"]
      BY <1>4, <1>5, Window, SMTT(30) DEF Side
    <2> QED
      BY <1>0, <1>4, <2>1 DEF LfIInv, HeadsFollow
  <1>7. \A y \in Task : y # x => (Has(y)' <=> Has(y)) /\ place'[y] = place[y] /\ xfer'[y] = xfer[y]
    BY <1>0, <1>1 DEF Has, LfAt, LfGoto, LfTypes
  <1>8. place'[x] = tail[From(x)] /\ xfer'[x] = xfer[x] /\ tail'[From(x)] = tail[From(x)] + xfer[x]
    BY <1>0, <1>1, Sides DEF LfTypes
  <1>9. UnitsApart'
    <2>1. ASSUME NEW y \in Task, Has(y)'
          PROVE  Reached(To(y))' <= place'[y] /\ place'[y] + xfer'[y] <= tail'[From(y)]
      <3>1. CASE y = x
        <4>1. Reached(To(x)) <= tail[From(x)]
          BY Window, Sides DEF Side
        <4>2. tail[From(x)] + xfer[x] \in Nat
          BY <1>2, SMTT(30)
        <4> QED
          BY <1>4, <1>8, <3>1, <4>1, <4>2, Sides, SMTT(30)
      <3>2. CASE y # x
        <4>1. /\ Reached(To(y)) <= place[y] /\ place[y] + xfer[y] <= tail[From(y)]
              /\ place[y] \in Nat /\ xfer[y] \in Nat
          BY <1>1, <1>7, <2>1, <3>2, LockfreeAssumption, SMTT(30) DEF LfIInv, UnitsApart, LfTypes
        <4>2. tail[From(y)] <= tail'[From(y)] /\ tail[From(y)] \in Nat /\ tail'[From(y)] \in Nat
          BY <1>5, Sides
        <4> QED
          BY <1>4, <1>7, <3>2, <4>1, <4>2, Sides, SMTT(30)
      <3> QED
        BY <3>1, <3>2
    <2>2. ASSUME NEW y \in Task, Has(y)', y # x, From(y) = From(x)
          PROVE  place'[y] + xfer'[y] <= place'[x]
      BY <1>7, <1>8, <2>2 DEF LfIInv, UnitsApart
    <2>3. ASSUME NEW y \in Task, NEW z \in Task, Has(y)', Has(z)', y # z, From(y) = From(z)
          PROVE  place'[y] + xfer'[y] <= place'[z] \/ place'[z] + xfer'[z] <= place'[y]
      <3>1. CASE y = x
        BY <2>2, <2>3, <3>1
      <3>2. CASE z = x
        BY <2>2, <2>3, <3>2
      <3>3. CASE y # x /\ z # x
        BY <1>7, <2>3, <3>3 DEF LfIInv, UnitsApart
      <3> QED
        BY <3>1, <3>2, <3>3
    <2> QED
      BY <2>1, <2>3 DEF UnitsApart, From, To
  <1>10. DataInPlace'
    <2>1. \A y \in Writer : LfAt(y, "head")' => LfAt(y, "head") /\ xfer'[y] = xfer[y] /\ place'[y] = place[y]
      BY <1>0, <1>1 DEF LfAt, LfGoto, LfTypes, Task
    <2> QED
      BY <1>0, <1>4, <2>1 DEF LfIInv, DataInPlace, InPlace, Side
  <1> QED
    BY <1>0, <1>3, <1>6, <1>9, <1>10 DEF LfIInv

\* copy: a reader finds its units, a writer leaves its own and no others.
LEMMA CopyStep ==
  ASSUME LfIInv, NEW x \in Task, copy(x)
  PROVE  LfIInv'
  <1>0. /\ LfAt(x, "copy") /\ LfGoto(x, "head")
        /\ UNCHANGED <<size, tail, head, todo, xfer, place>>
    BY DEF copy
  <1>1. LfTypes
    BY DEF LfIInv
  <1>2. ASSUME NEW s \in Side
        PROVE  Reached(s)' = Reached(s)
    <2>1. \A y \in Task \ {x} : Owes(y, s)' <=> Owes(y, s)
      BY <1>0, <1>1, OthersOwe
    <2>2. ~Owes(x, s) /\ ~Owes(x, s)'
      BY <1>0, <1>1 DEF Owes, LfAt, LfGoto, LfTypes
    <2>3. Held(s)' = Held(s)
      BY <1>0, <2>1, <2>2, HeldSame
    <2> QED
      BY <1>0, <2>3 DEF Reached
  <1>3. HeadsFollow'
    BY <1>0, <1>2 DEF LfIInv, HeadsFollow, Side
  <1>4. \A y \in Task : Has(y)' <=> Has(y)
    BY <1>0, <1>1 DEF Has, LfAt, LfGoto, LfTypes
  <1>5. UnitsApart'
    BY <1>0, <1>2, <1>4, Sides DEF LfIInv, UnitsApart
  <1>6. \A y \in Task : LfAt(y, "head")' => y = x \/ LfAt(y, "head")
    BY <1>0, <1>1 DEF LfAt, LfGoto, LfTypes
  <1>7. /\ Reached(To(x)) <= place[x] /\ place[x] + xfer[x] <= tail[From(x)]
        /\ place[x] \in Nat /\ xfer[x] \in Nat
    BY <1>0, <1>1, LockfreeAssumption, SMTT(30) DEF LfIInv, UnitsApart, Has, LfTypes
  <1>8. lf_pc' \in [Task -> {"size", "tail", "copy", "head", "add"}]
    BY <1>0, <1>1 DEF LfTypes, LfGoto
  <1>9. \A y \in Task : ~LfAt(y, "size")' => 1 <= xfer'[y] /\ xfer'[y] <= todo'[y]
    BY <1>0, <1>1 DEF LfTypes, LfGoto, LfAt
  <1>10. CASE x \in Reader
    <2>1. buffer' = buffer /\ wrong' = (wrong \/ \E u \in Units(x) : buffer[u % LfDepth] # u)
      BY <1>10 DEF copy
    <2>2. ASSUME NEW u \in Units(x)
          PROVE  buffer[u % LfDepth] = u
      <3>1. u \in Nat /\ place[x] <= u /\ u < place[x] + xfer[x]
        BY <1>7, SMTT(30) DEF Units
      <3>2. Reached("free") <= place[x] /\ place[x] + xfer[x] <= tail["data"]
        BY <1>7, <1>10, Sides
      <3>3. /\ Reached("free") \in Nat /\ Reached("data") \in Nat /\ tail["data"] \in Nat
            /\ tail["data"] <= Reached("data")
        BY Window, SMTT(30) DEF Side
      <3>4. Reached("free") <= u /\ u < Reached("data")
        BY <1>7, <3>1, <3>2, <3>3, SMTT(30)
      <3> QED
        BY <3>1, <3>4 DEF LfIInv, DataInPlace, InPlace
    <2>3. ~wrong'
      BY <2>1, <2>2 DEF LfIInv
    <2>4. x \notin Writer
      BY <1>10, LockfreeAssumption
    <2>5. DataInPlace'
      BY <1>0, <1>2, <1>6, <2>1, <2>4 DEF LfIInv, DataInPlace, InPlace, Side, Task
    <2> QED
      BY <1>0, <1>1, <1>3, <1>5, <1>8, <1>9, <2>1, <2>3, <2>5 DEF LfIInv, LfTypes
  <1>11. CASE x \in Writer
    <2> DEFINE Here(i) == \E u \in Units(x) : u % LfDepth = i
    <2>1. /\ wrong' = wrong
          /\ buffer' = [i \in DOMAIN buffer |->
               IF Here(i) THEN CHOOSE u \in Units(x) : u % LfDepth = i ELSE buffer[i]]
      BY <1>11, LockfreeAssumption DEF copy
    <2>2. /\ DOMAIN buffer = 0..(LfDepth - 1) /\ \A i \in DOMAIN buffer : buffer[i] \in Int
          /\ LfDepth \in Nat \ {0}
      BY <1>1, LockfreeAssumption DEF LfTypes
    <2>3. \A u \in Units(x) : u \in Nat /\ place[x] <= u /\ u < place[x] + xfer[x]
      BY <1>7, SMTT(30) DEF Units
    <2>4. buffer' \in [0..(LfDepth - 1) -> Int]
      BY <2>1, <2>2, <2>3, SMTT(30)
    <2>5. /\ Reached("data") <= place[x] /\ place[x] + xfer[x] <= tail["free"]
      BY <1>7, <1>11, Sides
    <2>6. /\ Reached("free") \in Nat /\ Reached("data") \in Nat /\ tail["free"] \in Nat
          /\ Reached("free") <= Reached("data") /\ tail["free"] <= Reached("free") + LfDepth
      <3>1. "data" \in Side /\ "free" \in Side
        BY DEF Side
      <3> QED
        BY <2>2, <3>1, Window, SMTT(30)
    <2>7. ASSUME NEW u \in Nat, Reached("free") <= u, u < tail["free"],
                 u < place[x] \/ place[x] + xfer[x] <= u
          PROVE  ~Here(u % LfDepth)
      <3> SUFFICES ASSUME NEW v \in Units(x)
                   PROVE  v % LfDepth # u % LfDepth
        OBVIOUS
      <3>1. v \in Nat /\ place[x] <= v /\ v < place[x] + xfer[x]
        BY <2>3
      <3>2. Reached("free") <= v /\ v < tail["free"]
        BY <1>7, <2>5, <2>6, <3>1, SMTT(30)
      <3>3. CASE u < v
        <4>1. v < u + LfDepth
          BY <2>2, <2>6, <2>7, <3>1, <3>2, SMTT(30)
        <4> QED
          BY <2>2, <2>7, <3>1, <3>3, <4>1, PlacesDiffer
      <3>4. CASE v < u
        <4>1. u < v + LfDepth
          BY <2>2, <2>6, <2>7, <3>1, <3>2, SMTT(30)
        <4> QED
          BY <2>2, <2>7, <3>1, <3>4, <4>1, PlacesDiffer
      <3> QED
        BY <1>7, <2>7, <3>1, <3>3, <3>4, SMTT(30)
    <2>8. ASSUME NEW u \in Nat, ~Here(u % LfDepth), InPlace(u)
          PROVE  InPlace(u)'
      <3>1. u % LfDepth \in DOMAIN buffer
        BY <2>2, Remainder
      <3> HIDE DEF Here
      <3>2. buffer'[u % LfDepth] = buffer[u % LfDepth]
        BY <2>1, <2>8, <3>1
      <3> QED
        BY <2>8, <3>2 DEF InPlace
    <2>9. ASSUME NEW u \in Nat, place[x] <= u, u < place[x] + xfer[x]
          PROVE  InPlace(u)'
      <3>1. u \in Units(x) /\ Here(u % LfDepth)
        BY <1>7, <2>9, SMTT(30) DEF Units
      <3>2. PICK w : w = CHOOSE v \in Units(x) : v % LfDepth = u % LfDepth
        OBVIOUS
      <3>3. w \in Units(x) /\ w % LfDepth = u % LfDepth
        BY <3>1, <3>2
      <3>4. w \in Nat /\ place[x] <= w /\ w < place[x] + xfer[x]
        BY <2>3, <3>3
      <3>5. w < u + LfDepth /\ u < w + LfDepth
        BY <1>7, <2>2, <2>5, <2>6, <2>9, <3>4, SMTT(30)
      <3>6. w = u
        <4>1. ~(u < w)
          BY <2>2, <3>3, <3>4, <3>5, PlacesDiffer
        <4>2. ~(w < u)
          BY <2>2, <3>3, <3>4, <3>5, PlacesDiffer
        <4> QED
          BY <3>4, <4>1, <4>2, SMTT(30)
      <3>7. u % LfDepth \in DOMAIN buffer
        BY <2>2, Remainder
      <3>8. buffer'[u % LfDepth] = w
        BY <2>1, <3>1, <3>2, <3>7
      <3> QED
        BY <3>6, <3>8 DEF InPlace
    <2> HIDE DEF Here
    <2>10. ASSUME NEW u \in Nat, Reached("free") <= u, u < Reached("data")
           PROVE  InPlace(u)'
      <3>1. InPlace(u)
        BY <2>10 DEF LfIInv, DataInPlace
      <3>2. u < place[x] /\ u < tail["free"]
        BY <1>7, <2>5, <2>6, <2>10, SMTT(30)
      <3> QED
        BY <2>7, <2>8, <2>10, <3>1, <3>2
    <2>11. ASSUME NEW y \in Writer, LfAt(y, "head")', y # x,
                  NEW u \in Nat, place[y] <= u, u < place[y] + xfer[y]
           PROVE  InPlace(u)'
      <3>1. y \in Task /\ LfAt(y, "head") /\ Has(y) /\ Has(x) /\ From(y) = "free" /\ From(x) = "free"
        BY <1>0, <1>6, <1>11, <2>11, Sides DEF Task, Has
      <3>2. place[y] \in Nat /\ xfer[y] \in Nat
        BY <1>1, <3>1, LockfreeAssumption, SMTT(30) DEF LfTypes
      <3>3. Reached("data") <= place[y] /\ place[y] + xfer[y] <= tail["free"]
        BY <2>11, <3>1, Sides DEF LfIInv, UnitsApart
      <3>4. place[x] + xfer[x] <= place[y] \/ place[y] + xfer[y] <= place[x]
        BY <2>11, <3>1 DEF LfIInv, UnitsApart
      <3>5. InPlace(u)
        BY <2>11, <3>1 DEF LfIInv, DataInPlace
      <3>6. Reached("free") <= u /\ u < tail["free"] /\ (u < place[x] \/ place[x] + xfer[x] <= u)
        BY <1>7, <2>6, <2>11, <3>2, <3>3, <3>4, SMTT(30)
      <3> QED
        BY <2>7, <2>8, <2>11, <3>5, <3>6
    <2>12. DataInPlace'
      <3>1. \A u \in Nat : (Reached("free")' <= u /\ u < Reached("data")') => InPlace(u)'
        BY <1>2, <2>10 DEF Side
      <3>2. ASSUME NEW y \in Writer, LfAt(y, "head")',
                   NEW u \in Nat, place'[y] <= u, u < place'[y] + xfer'[y]
            PROVE  InPlace(u)'
        <4>1. place[y] <= u /\ u < place[y] + xfer[y]
          BY <1>0, <3>2
        <4>2. CASE y = x
          BY <2>9, <4>1, <4>2
        <4>3. CASE y # x
          BY <2>11, <3>2, <4>1, <4>3
        <4> QED
          BY <4>2, <4>3
      <3> QED
        BY <3>1, <3>2 DEF DataInPlace
    <2> QED
      BY <1>0, <1>1, <1>3, <1>5, <1>8, <1>9, <2>1, <2>4, <2>12 DEF LfIInv, LfTypes
  <1> QED
    BY <1>10, <1>11 DEF Task

\* cpu_atomic_wait_and_swap: only the task whose units come next moves the head.
LEMMA SwapStep ==
  ASSUME LfIInv, NEW x \in Task, cpu_atomic_wait_and_swap(x)
  PROVE  LfIInv'
  <1>0. /\ LfAt(x, "head") /\ LfGoto(x, "add") /\ head[To(x)] = place[x] % LfDepth
        /\ head' = [head EXCEPT ![To(x)] = (place[x] + xfer[x]) % LfDepth]
        /\ UNCHANGED <<size, tail, buffer, todo, xfer, place, wrong>>
    BY DEF cpu_atomic_wait_and_swap
  <1>1. LfTypes
    BY DEF LfIInv
  <1>2. /\ Reached(To(x)) <= place[x] /\ place[x] + xfer[x] <= tail[From(x)]
        /\ place[x] \in Nat /\ xfer[x] \in 0..LfDepth /\ xfer[x] \in Nat /\ 1 <= xfer[x]
        /\ LfDepth \in Nat \ {0}
    BY <1>0, <1>1, LockfreeAssumption, SMTT(30) DEF LfIInv, UnitsApart, Has, LfAt, LfTypes
  <1>3. /\ Reached(To(x)) \in Nat /\ tail[From(x)] \in Nat
        /\ tail[From(x)] <= Reached(To(x)) + LfDepth
    <2>1. \A s \in Side : Reached(s) \in Nat /\ tail[s] \in Nat /\ size[s] \in Nat
      BY Window
    <2>2. "data" \in Side /\ "free" \in Side
      BY DEF Side
    <2>3. tail["free"] <= Reached("data") + LfDepth
      BY <1>2, <2>1, <2>2, Window, SMTT(30)
    <2>4. tail["data"] <= Reached("free") + LfDepth
      BY <1>2, <2>1, <2>2, Window, SMTT(30)
    <2> QED
      BY <2>1, <2>3, <2>4, Sides DEF Task
  <1>4. place[x] = Reached(To(x))
    <2>1. Reached(To(x)) % LfDepth = place[x] % LfDepth
      BY <1>0, Sides DEF LfIInv, HeadsFollow
    <2>2. place[x] < Reached(To(x)) + LfDepth
      BY <1>2, <1>3, SMTT(30)
    <2>3. ~(Reached(To(x)) < place[x])
      BY <1>2, <1>3, <2>1, <2>2, PlacesDiffer
    <2> QED
      BY <1>2, <1>3, <2>3, SMTT(30)
  <1>5. Reached(To(x))' = Reached(To(x)) + xfer[x]
    <2>1. PICK s \in Side : s = To(x)
      BY Sides
    <2>2. \A y \in Task \ {x} : (Owes(y, s)' <=> Owes(y, s)) /\ xfer'[y] = xfer[y]
      BY <1>0, <1>1, OthersOwe
    <2>3. ~Owes(x, s) /\ Owes(x, s)'
      BY <1>0, <1>1, <2>1, Sides DEF Owes, LfAt, LfGoto, LfTypes
    <2>4. PICK n \in 0..LfDepth : n = xfer[x] /\ n = xfer'[x]
      BY <1>0, <1>2
    <2>5. Cardinality(Held(s)') = Cardinality(Held(s)) + n
      BY ONLY <2>2, <2>3, <2>4, x \in Task, HeldMore, Zenon
    <2>6. /\ tail[s] \in Int /\ size[s] \in Int /\ n \in Int /\ LfDepth \in Int
          /\ Cardinality(Held(s)) \in Int
      BY <1>1, <1>2, <2>4, HeldFinite, SMTT(30) DEF LfTypes
    <2>7. Reached(s)' = Reached(s) + n
      <3>1. PICK a \in Int, b \in Int, c \in Int, o \in Int :
              /\ a = tail[s] /\ b = size[s] /\ c = Cardinality(Held(s))
              /\ o = IF s = "free" THEN LfDepth ELSE 0
        BY <2>6, SMTT(30)
      <3>2. Reached(s) = a + b + c - o
        BY <3>1 DEF Reached
      <3>3. tail'[s] = a /\ size'[s] = b /\ Cardinality(Held(s)') = c + n
        BY <1>0, <2>5, <3>1
      <3>4. Reached(s)' = a + b + (c + n) - o
        BY <3>1, <3>3 DEF Reached
      <3> QED
        BY <2>6, <3>2, <3>4, SMTT(30)
    <2> QED
      BY <2>1, <2>4, <2>7 DEF To
  <1>6. ASSUME NEW s \in Side, s # To(x)
        PROVE  Reached(s)' = Reached(s)
    <2>1. \A y \in Task \ {x} : Owes(y, s)' <=> Owes(y, s)
      BY <1>0, <1>1, OthersOwe
    <2>2. ~Owes(x, s) /\ ~Owes(x, s)'
      BY <1>0, <1>1, <1>6 DEF Owes, LfAt, LfGoto, LfTypes
    <2>3. Held(s)' = Held(s)
      BY <1>0, <2>1, <2>2, HeldSame
    <2> QED
      BY <1>0, <2>3 DEF Reached
  <1>7. LfTypes'
    <2>1. lf_pc' \in [Task -> {"size", "tail", "copy", "head", "add"}]
      BY <1>0, <1>1 DEF LfTypes, LfGoto
    <2>2. \A y \in Task : ~LfAt(y, "size")' => 1 <= xfer'[y] /\ xfer'[y] <= todo'[y]
      BY <1>0, <1>1 DEF LfTypes, LfGoto, LfAt
    <2>3. (place[x] + xfer[x]) % LfDepth \in Nat
      <3>1. place[x] + xfer[x] \in Nat
        BY <1>2, SMTT(30)
      <3> QED
        BY <1>2, <3>1, SMTT(30)
    <2>4. head' \in [Side -> Nat]
      BY <1>0, <1>1, <2>3 DEF LfTypes
    <2> QED
      BY <1>0, <1>1, <2>1, <2>2, <2>4 DEF LfTypes
  <1>8. \A s \in Side : Reached(s)' \in Nat
    <2>1. Reached(To(x)) + xfer[x] \in Nat
      BY <1>2, <1>3, SMTT(30)
    <2> QED
      BY <1>5, <1>6, <2>1, Window
  <1>9. Reached(To(x))' <= tail[From(x)]
    BY <1>2, <1>4, <1>5
  <1>10. HeadsFollow'
    <2>1. ASSUME NEW s \in Side
          PROVE  head'[s] = Reached(s)' % LfDepth
      <3>1. CASE s = To(x)
        BY <1>0, <1>1, <1>4, <1>5, <3>1 DEF LfTypes
      <3>2. CASE s # To(x)
        BY <1>0, <1>1, <1>6, <3>2 DEF LfTypes, LfIInv, HeadsFollow
      <3> QED
        BY <3>1, <3>2
    <2>2. Reached("data")' <= tail'["free"] /\ Reached("free")' <= tail'["data"]
      <3>1. CASE To(x) = "data"
        <4>1. From(x) = "free"
          BY <3>1, Sides DEF Task
        <4> QED
          BY <1>0, <1>6, <1>9, <3>1, <4>1, Window DEF Side
      <3>2. CASE To(x) = "free"
        <4>1. From(x) = "data"
          BY <3>2, Sides DEF Task
        <4> QED
          BY <1>0, <1>6, <1>9, <3>2, <4>1, Window DEF Side
      <3> QED
        BY <3>1, <3>2, Sides DEF Side
    <2> QED
      BY <1>8, <2>1, <2>2 DEF HeadsFollow
  <1>11. \A y \in Task : Has(y)' => Has(y) /\ y # x
    BY <1>0, <1>1 DEF Has, LfAt, LfGoto, LfTypes
  <1>12. UnitsApart'
    <2>1. ASSUME NEW y \in Task, Has(y)'
          PROVE  Reached(To(y))' <= place'[y] /\ place'[y] + xfer'[y] <= tail'[From(y)]
      <3>1. /\ Has(y) /\ y # x /\ Has(x)
            /\ Reached(To(y)) <= place[y] /\ place[y] + xfer[y] <= tail[From(y)]
        BY <1>0, <1>11, <2>1 DEF LfIInv, UnitsApart, Has
      <3>2. CASE To(y) # To(x)
        BY <1>0, <1>6, <3>1, <3>2, Sides
      <3>3. CASE To(y) = To(x)
        <4>1. From(y) = From(x)
          BY <3>3 DEF From, To
        <4>2. place[x] + xfer[x] <= place[y] \/ place[y] + xfer[y] <= place[x]
          BY <3>1, <4>1 DEF LfIInv, UnitsApart
        <4>3. place[y] \in Nat /\ xfer[y] \in Nat /\ 1 <= xfer[y]
          BY <1>1, <3>1, LockfreeAssumption, SMTT(30) DEF LfTypes, Has, LfAt
        <4>4. place[x] <= place[y]
          BY <1>4, <3>1, <3>3
        <4>5. place[x] + xfer[x] <= place[y]
          BY <1>2, <4>2, <4>3, <4>4, SMTT(30)
        <4>6. Reached(To(y))' = place[x] + xfer[x]
          BY <1>4, <1>5, <3>3 DEF To
        <4> QED
          BY <1>0, <3>1, <4>5, <4>6
      <3> QED
        BY <3>2, <3>3
    <2>2. ASSUME NEW y \in Task, NEW z \in Task, Has(y)', Has(z)', y # z, From(y) = From(z)
          PROVE  place'[y] + xfer'[y] <= place'[z] \/ place'[z] + xfer'[z] <= place'[y]
      BY <1>0, <1>11, <2>2 DEF LfIInv, UnitsApart
    <2> QED
      BY <2>1, <2>2 DEF UnitsApart, From, To
  <1>13. DataInPlace'
    <2>1. \A y \in Writer : LfAt(y, "head")' => LfAt(y, "head")
      BY <1>0, <1>1 DEF LfAt, LfGoto, LfTypes, Task
    <2>2. \A y \in Writer : LfAt(y, "head")' =>
            \A u \in Nat : (place'[y] <= u /\ u < place'[y] + xfer'[y]) => InPlace(u)'
      BY <1>0, <2>1 DEF LfIInv, DataInPlace, InPlace
    <2>3. ASSUME NEW u \in Nat, Reached("free")' <= u, u < Reached("data")'
          PROVE  InPlace(u)
      <3>0. "data" \in Side /\ "free" \in Side
        BY DEF Side
      <3>1. CASE x \in Reader
        <4>1. To(x) = "free"
          BY <3>1, Sides
        <4>2. Reached("data")' = Reached("data") /\ Reached("free")' = Reached("free") + xfer[x]
          BY <1>5, <1>6, <3>0, <4>1
        <4>3. Reached("free") <= u /\ u < Reached("data")
          BY <1>2, <1>3, <2>3, <4>1, <4>2, SMTT(30)
        <4> QED
          BY <4>3 DEF LfIInv, DataInPlace
      <3>2. CASE x \in Writer
        <4>1. To(x) = "data"
          BY <3>2, Sides
        <4>2. Reached("free")' = Reached("free") /\ Reached("data")' = Reached("data") + xfer[x]
          BY <1>5, <1>6, <3>0, <4>1
        <4>3. CASE u < Reached("data")
          BY <2>3, <4>2, <4>3 DEF LfIInv, DataInPlace
        <4>4. CASE place[x] <= u
          <5>1. u < place[x] + xfer[x]
            BY <1>4, <2>3, <4>1, <4>2
          <5> QED
            BY <1>0, <3>2, <4>4, <5>1 DEF LfIInv, DataInPlace
        <4> QED
          BY <1>2, <1>3, <1>4, <4>1, <4>3, <4>4, SMTT(30)
      <3> QED
        BY <3>1, <3>2 DEF Task
    <2>4. \A u \in Nat : InPlace(u) => InPlace(u)'
      BY <1>0 DEF InPlace
    <2> QED
      BY <2>2, <2>3, <2>4 DEF DataInPlace
  <1> QED
    BY <1>0, <1>7, <1>10, <1>12, <1>13 DEF LfIInv

\* cpu_atomic_add: the room is added to the other size.
LEMMA AddStep ==
  ASSUME LfIInv, NEW x \in Task, cpu_atomic_add(x)
  PROVE  LfIInv'
  <1>0. /\ LfAt(x, "add") /\ LfGoto(x, "size")
        /\ size' = [size EXCEPT ![To(x)] = @ + xfer[x]]
        /\ todo' = [todo EXCEPT ![x] = @ - xfer[x]]
        /\ xfer' = [xfer EXCEPT ![x] = 0] /\ place' = [place EXCEPT ![x] = 0]
        /\ UNCHANGED <<tail, head, buffer, wrong>>
    BY DEF cpu_atomic_add
  <1>1. LfTypes
    BY DEF LfIInv
  <1>2. /\ xfer[x] \in 0..LfDepth /\ xfer[x] \in Nat /\ size[To(x)] \in Nat /\ LfDepth \in Nat
        /\ xfer[x] <= todo[x] /\ todo[x] \in 0..LfLen /\ LfLen \in Nat
    BY <1>0, <1>1, Sides, LockfreeAssumption, SMTT(30) DEF LfTypes, LfAt
  <1>3. LfTypes'
    <2>1. size' \in [Side -> Nat]
      <3>1. size[To(x)] + xfer[x] \in Nat
        BY <1>2, SMTT(30)
      <3> QED
        BY <1>0, <1>1, <3>1 DEF LfTypes
    <2>2. todo' \in [Task -> 0..LfLen]
      <3>1. todo[x] - xfer[x] \in 0..LfLen
        BY <1>2, SMTT(30)
      <3> QED
        BY <1>0, <1>1, <3>1 DEF LfTypes
    <2>3. xfer' \in [Task -> 0..LfDepth] /\ place' \in [Task -> Nat]
      BY <1>0, <1>1, <1>2, SMTT(30) DEF LfTypes
    <2>4. lf_pc' \in [Task -> {"size", "tail", "copy", "head", "add"}]
      BY <1>0, <1>1 DEF LfTypes, LfGoto
    <2>5. \A y \in Task : ~LfAt(y, "size")' => 1 <= xfer'[y] /\ xfer'[y] <= todo'[y]
      BY <1>0, <1>1 DEF LfTypes, LfGoto, LfAt
    <2> QED
      BY <1>0, <1>1, <2>1, <2>2, <2>3, <2>4, <2>5 DEF LfTypes
  <1>4. ASSUME NEW s \in Side
        PROVE  Reached(s)' = Reached(s)
    <2>1. \A y \in Task \ {x} : (Owes(y, s)' <=> Owes(y, s)) /\ xfer'[y] = xfer[y]
      BY <1>0, <1>1, OthersOwe DEF LfTypes
    <2>2. CASE s = To(x)
      <3>1. Owes(x, s) /\ ~Owes(x, s)'
        BY <1>0, <1>1, <2>2, Sides DEF Owes, LfAt, LfGoto, LfTypes
      <3>2. PICK n \in 0..LfDepth : n = xfer[x]
        BY <1>2
      <3>3. /\ Cardinality(Held(s)) = Cardinality(Held(s)') + n
            /\ Cardinality(Held(s)') \in Nat
        BY ONLY <2>1, <3>1, <3>2, x \in Task, HeldLess
      <3>4. size'[s] = size[s] + n /\ tail'[s] = tail[s]
        BY <1>0, <1>1, <2>2, <3>2 DEF LfTypes
      <3>5. tail[s] \in Int /\ size[s] \in Int /\ n \in Int /\ LfDepth \in Int
        BY <1>1, <1>2, <3>2, SMTT(30) DEF LfTypes
      <3> QED
        BY <3>3, <3>4, <3>5, SMTT(30) DEF Reached
    <2>3. CASE s # To(x)
      <3>1. ~Owes(x, s) /\ ~Owes(x, s)'
        BY <1>0, <1>1, <2>3 DEF Owes, LfAt, LfGoto, LfTypes
      <3>2. Held(s)' = Held(s)
        BY <2>1, <3>1, HeldSame
      <3>3. size'[s] = size[s] /\ tail'[s] = tail[s]
        BY <1>0, <1>1, <2>3 DEF LfTypes
      <3> QED
        BY <3>2, <3>3 DEF Reached
    <2> QED
      BY <2>2, <2>3
  <1>5. HeadsFollow'
    BY <1>0, <1>4 DEF LfIInv, HeadsFollow, Side
  <1>6. \A y \in Task : Has(y)' => Has(y) /\ xfer'[y] = xfer[y] /\ place'[y] = place[y]
    BY <1>0, <1>1 DEF Has, LfAt, LfGoto, LfTypes
  <1>7. UnitsApart'
    BY <1>0, <1>4, <1>6, Sides DEF LfIInv, UnitsApart
  <1>8. DataInPlace'
    <2>1. \A y \in Writer : LfAt(y, "head")' =>
            LfAt(y, "head") /\ xfer'[y] = xfer[y] /\ place'[y] = place[y]
      BY <1>0, <1>1 DEF LfAt, LfGoto, LfTypes, Task
    <2> QED
      BY <1>0, <1>4, <2>1 DEF LfIInv, DataInPlace, InPlace, Side
  <1> QED
    BY <1>0, <1>3, <1>5, <1>7, <1>8 DEF LfIInv

\* The invariant holds at first ...
LEMMA LfStart == LfInit => LfIInv
  <1> SUFFICES ASSUME LfInit
               PROVE  LfIInv
    OBVIOUS
  <1>1. /\ LfDepth \in Nat \ {0} /\ LfLen \in Nat
        /\ size["data"] = 0 /\ size["free"] = LfDepth
        /\ tail["data"] = 0 /\ tail["free"] = 0 /\ head["data"] = 0 /\ head["free"] = 0
        /\ DOMAIN size = Side /\ DOMAIN tail = Side /\ DOMAIN head = Side
    BY LockfreeAssumption DEF LfInit, Side
  <1>2. size \in [Side -> Nat] /\ tail \in [Side -> Nat] /\ head \in [Side -> Nat]
    BY <1>1, SMTT(30) DEF LfInit, Side
  <1>3. LfTypes
    BY <1>1, <1>2, SMTT(30) DEF LfInit, LfTypes, LfAt
  <1>4. \A s \in Side : Reached(s) = 0
    <2>1. \A s \in Side : Held(s) = {}
      BY DEF LfInit, Held, Owes, LfAt
    <2>2. \A s \in Side : Cardinality(Held(s)) = 0
      BY <2>1, FS_EmptySet
    <2> QED
      BY <1>1, <2>2, SMTT(30) DEF Reached, Side
  <1>5. HeadsFollow
    <2>1. 0 % LfDepth = 0
      BY <1>1, SMTT(30)
    <2> QED
      BY <1>1, <1>4, <2>1, SMTT(30) DEF HeadsFollow, Side
  <1>6. UnitsApart
    BY DEF LfInit, UnitsApart, Has, LfAt
  <1>7. DataInPlace
    <2>1. Reached("free") = 0 /\ Reached("data") = 0
      BY <1>4 DEF Side
    <2> QED
      BY <2>1, SMTT(30) DEF LfInit, DataInPlace, LfAt, Task
  <1> QED
    BY <1>3, <1>5, <1>6, <1>7 DEF LfIInv, LfInit

\* ... is inductive ...
LEMMA LfInductive == LfSpec => []LfIInv
  <1>1. LfIInv /\ UNCHANGED lfVars => LfIInv'
    <2> SUFFICES ASSUME LfIInv, UNCHANGED lfVars
                 PROVE  LfIInv'
      OBVIOUS
    <2>1. \A s : Held(s)' = Held(s)
      BY DEF lfVars, Held, Owes, LfAt
    <2>2. \A s : Reached(s)' = Reached(s)
      BY <2>1 DEF lfVars, Reached
    <2>3. LfTypes' /\ ~wrong'
      BY DEF lfVars, LfIInv, LfTypes, LfAt
    <2>4. HeadsFollow'
      BY <2>2 DEF lfVars, LfIInv, HeadsFollow
    <2>5. UnitsApart'
      BY <2>2 DEF lfVars, LfIInv, UnitsApart, Has, LfAt
    <2>6. DataInPlace'
      BY <2>2 DEF lfVars, LfIInv, DataInPlace, InPlace, LfAt
    <2> QED
      BY <2>3, <2>4, <2>5, <2>6 DEF LfIInv
  <1>2. LfIInv /\ LfNext => LfIInv'
    BY SubStep, AddWrapStep, CopyStep, SwapStep, AddStep DEF LfNext, Transfer
  <1> QED
    BY <1>1, <1>2, LfStart, PTL DEF LfSpec

\* ... and gives what the run checks.
LEMMA LfFollows == LfIInv => LfInv
  <1> SUFFICES ASSUME LfIInv
               PROVE  LfInv
    OBVIOUS
  <1>1. "data" \in Side /\ "free" \in Side /\ LfDepth \in Nat \ {0}
    BY LockfreeAssumption DEF Side
  <1>2. size["data"] \in 0..LfDepth /\ size["free"] \in 0..LfDepth
    BY <1>1, Window, SMTT(30)
  <1>3. \A s \in Side : head[s] \in 0..(LfDepth - 1)
    BY <1>1, Remainder DEF LfIInv, HeadsFollow
  <1> QED
    BY <1>1, <1>2, <1>3 DEF LfInv, LfTypeOK, LfIInv, LfTypes, UnitsInTurn

\* What has been written grows by the units of a writer when it adds them.
LEMMA WrittenMore ==
  ASSUME LfIInv, NEW x \in Writer, cpu_atomic_add(x)
  PROVE  /\ Cardinality(Written) \in Nat
         /\ Cardinality(Written') = Cardinality(Written) + xfer[x]
  <1>1. /\ todo \in [Task -> 0..LfLen] /\ todo[x] \in 0..LfLen /\ x \in Task
        /\ xfer[x] \in 1..todo[x] /\ todo' = [todo EXCEPT ![x] = @ - xfer[x]] /\ LfLen \in Nat
    BY LockfreeAssumption, SMTT(30) DEF LfIInv, LfTypes, Task, LfAt, cpu_atomic_add
  <1>2. PICK t \in Nat, n \in Nat : t = todo[x] /\ n = xfer[x] /\ n >= 1 /\ n <= t /\ t <= LfLen
    BY <1>1, SMTT(30)
  <1>3. PICK A, B, P : A = Written /\ B = Written' /\ P = {x} \X ((t - n + 1)..t)
    OBVIOUS
  <1>4. B = A \cup P
    <2>1. \A y \in Writer : y \in Task /\ todo'[y] = IF y = x THEN t - n ELSE todo[y]
      BY <1>1, <1>2 DEF Task
    <2>2. todo[x] = t /\ \A y \in Writer : todo[y] \in Nat
      BY <1>1, <1>2, SMTT(30) DEF Task
    <2> QED
      BY <1>1, <1>2, <1>3, <2>1, <2>2, SMTT(30) DEF Written
  <1>5. A \cap P = {}
    BY <1>2, <1>3, SMTT(30) DEF Written
  <1>6. IsFiniteSet(A)
    <2>1. IsFiniteSet(1..LfLen)
      BY <1>1, FS_Interval, SMTT(30)
    <2>2. IsFiniteSet(Writer \X (1..LfLen))
      BY <2>1, LockfreeAssumption, FS_Product
    <2> QED
      BY <1>3, <2>2, FS_Subset DEF Written
  <1>7. IsFiniteSet(P) /\ Cardinality(P) = n
    <2>1. IsFiniteSet({x}) /\ Cardinality({x}) = 1
      BY FS_Singleton
    <2>2. t - n + 1 \in Int /\ t \in Int
      BY <1>2, SMTT(30)
    <2>3. IsFiniteSet((t - n + 1)..t) /\ Cardinality((t - n + 1)..t) = n
      BY <1>2, <2>2, FS_Interval, SMTT(30)
    <2>4. /\ IsFiniteSet({x} \X ((t - n + 1)..t))
          /\ Cardinality({x} \X ((t - n + 1)..t)) = Cardinality({x}) * Cardinality((t - n + 1)..t)
      BY <2>1, <2>3, FS_Product
    <2> QED
      BY <1>2, <1>3, <2>1, <2>3, <2>4, SMTT(30)
  <1>8. Cardinality(A) \in Nat /\ Cardinality(B) = Cardinality(A) + Cardinality(P)
    BY <1>4, <1>5, <1>6, <1>7, PieceAdded
  <1> QED
    BY <1>2, <1>3, <1>7, <1>8

\* What has been written is a number.
LEMMA WrittenFinite == Cardinality(Written) \in Nat
  <1>1. IsFiniteSet(1..LfLen)
    BY FS_Interval, LockfreeAssumption, SMTT(30)
  <1>2. IsFiniteSet(Writer \X (1..LfLen))
    BY <1>1, LockfreeAssumption, FS_Product
  <1>3. IsFiniteSet(Written)
    BY <1>2, FS_Subset DEF Written
  <1> QED
    BY <1>3, FS_CardinalityType

\* A step of a task writes units, reads units, or does neither.
LEMMA LfShows ==
  ASSUME LfIInv, LfIInv', NEW x \in Task, Transfer(x)
  PROVE  \/ \E n \in 1..LfDepth : LfChannel!Put(n) \/ LfChannel!Get(n)
         \/ UNCHANGED <<LfPut, LfGot>>
  <1>1. /\ size \in [Side -> Nat] /\ size["data"] \in Nat /\ LfDepth \in Nat
        /\ Cardinality(Written) \in Nat
    BY LockfreeAssumption, WrittenFinite DEF LfIInv, LfTypes, Side
  <1>2. ASSUME todo' = todo, size'.data = size.data
        PROVE  UNCHANGED <<LfPut, LfGot>>
    BY <1>2 DEF LfPut, LfGot, Written
  <1>3. CASE cpu_atomic_sub_minz(x)
    <2>1. PICK n : /\ n = Min({todo[x], LfDepth, size[From(x)]}) /\ n > 0
                   /\ size' = [size EXCEPT ![From(x)] = @ - n] /\ todo' = todo
      BY <1>3 DEF cpu_atomic_sub_minz
    <2>2. CASE x \in Writer
      <3>1. From(x) = "free"
        BY <2>2, Sides
      <3>2. size'.data = size.data
        BY <1>1, <2>1, <3>1 DEF Side
      <3> QED
        BY <1>2, <2>1, <3>2
    <2>3. CASE x \in Reader
      <3>1. From(x) = "data"
        BY <2>3, Sides
      <3>2. PICK a \in Int, b \in Int, c \in Int : a = todo[x] /\ b = LfDepth /\ c = size["data"]
        BY <1>1, SMTT(30) DEF LfIInv, LfTypes
      <3>3. n \in {a, b, c} /\ n <= a /\ n <= b /\ n <= c
        BY <2>1, <3>1, <3>2, MinOfThree
      <3>4. n \in 1..LfDepth /\ n <= size["data"]
        BY <2>1, <3>2, <3>3, SMTT(30)
      <3>5. size'["data"] = size["data"] - n
        BY <1>1, <2>1, <3>1 DEF Side
      <3>6. LfPut' = LfPut
        BY <2>1 DEF LfPut, Written
      <3>7. LfGot' = LfGot + n /\ LfGot + n <= LfPut
        BY <1>1, <3>4, <3>5, <3>6, SMTT(30) DEF LfGot, LfPut
      <3> QED
        BY <3>4, <3>6, <3>7 DEF LfChannel!Get
    <2> QED
      BY <2>2, <2>3 DEF Task
  <1>4. CASE cpu_atomic_add_wrap(x) \/ copy(x) \/ cpu_atomic_wait_and_swap(x)
    BY <1>2, <1>4 DEF cpu_atomic_add_wrap, copy, cpu_atomic_wait_and_swap
  <1>5. CASE cpu_atomic_add(x)
    <2>1. /\ size' = [size EXCEPT ![To(x)] = @ + xfer[x]]
          /\ todo' = [todo EXCEPT ![x] = @ - xfer[x]] /\ LfAt(x, "add")
      BY <1>5 DEF cpu_atomic_add
    <2>2. CASE x \in Reader
      <3>1. To(x) = "free" /\ x \notin Writer
        BY <2>2, Sides, LockfreeAssumption
      <3>2. size'.data = size.data
        BY <1>1, <2>1, <3>1 DEF Side
      <3>3. Written' = Written
        <4>1. \A y \in Writer : todo'[y] = todo[y]
          BY <2>1, <3>1 DEF LfIInv, LfTypes, Task
        <4> QED
          BY <4>1 DEF Written
      <3> QED
        BY <3>2, <3>3 DEF LfPut, LfGot
    <2>3. CASE x \in Writer
      <3>1. To(x) = "data"
        BY <2>3, Sides
      <3>2. PICK n \in 1..LfDepth : n = xfer[x]
        <4>1. xfer[x] \in 0..LfDepth /\ 1 <= xfer[x]
          BY <2>1 DEF LfIInv, LfTypes, LfAt
        <4> QED
          BY <1>1, <4>1, SMTT(30)
      <3>3. size'["data"] = size["data"] + n
        BY <1>1, <2>1, <3>1, <3>2 DEF Side
      <3>4. LfPut' = LfPut + n
        BY <1>5, <2>3, <3>2, WrittenMore DEF LfPut
      <3>5. size'["data"] <= LfDepth
        <4>1. LfInv'
          BY LfFollows, PTL
        <4> QED
          BY <4>1, <1>1, SMTT(30) DEF LfInv, LfTypeOK
      <3>6. LfGot' = LfGot /\ LfPut + n <= LfGot + LfDepth
        BY <1>1, <3>3, <3>4, <3>5, SMTT(30) DEF LfGot, LfPut
      <3> QED
        BY <3>2, <3>4, <3>6 DEF LfChannel!Put
    <2> QED
      BY <2>2, <2>3 DEF Task
  <1> QED
    BY <1>3, <1>4, <1>5 DEF Transfer

\* Readers get the units in the order they were written, however tasks overtake
\* each other: UnitsInTurn, for any readers, writers, depth and lengths
\* (mwmr_soclib_lockfree.c:173, 221).
THEOREM LockfreeInTurn == LfSpec => []LfInv
  BY LfInductive, LfFollows, PTL

\* The channel without locks is a bounded buffer: it neither loses nor makes up
\* units and never holds more than its depth (mwmr_soclib_lockfree.c:144).
THEOREM LockfreeImplements == LfSpec => LfImplements
  <1>1. LfInit => LfPut = 0 /\ LfGot = 0
    <2> SUFFICES ASSUME LfInit
                 PROVE  LfPut = 0 /\ LfGot = 0
      OBVIOUS
    <2>1. Written = {}
      BY LockfreeAssumption, SMTT(30) DEF LfInit, Written, Task
    <2>2. Cardinality(Written) = 0 /\ size.data = 0
      BY <2>1, FS_EmptySet DEF LfInit
    <2> QED
      BY <2>2, SMTT(30) DEF LfPut, LfGot
  <1>2. LfIInv /\ LfIInv' /\ [LfNext]_lfVars =>
          [\E n \in 1..LfDepth : LfChannel!Put(n) \/ LfChannel!Get(n)]_<<LfPut, LfGot>>
    <2> SUFFICES ASSUME LfIInv, LfIInv', [LfNext]_lfVars
                 PROVE  [\E n \in 1..LfDepth : LfChannel!Put(n) \/ LfChannel!Get(n)]_<<LfPut, LfGot>>
      OBVIOUS
    <2>1. CASE UNCHANGED lfVars
      BY <2>1 DEF lfVars, LfPut, LfGot, Written
    <2>2. CASE LfNext
      BY <2>2, LfShows DEF LfNext
    <2> QED
      BY <2>1, <2>2
  <1> QED
    BY <1>1, <1>2, LfInductive, PTL DEF LfSpec, LfImplements, LfChannel!Channel

-----------------------------------------------------------------------------
(* Both kinds of channel.                                                  *)

\* Units are read in the order they were written, in either kind of channel, for
\* any number of readers and writers, any depth and any number of units
\* (mwmr_soclib.c:183-197, mwmr_soclib_lockfree.c:173, 221).
THEOREM ChannelsOrder == LfSpec /\ LkSpec => []ChannelsInOrder
  BY LockfreeInTurn, LockedInTurn, PTL DEF ChannelsInOrder

\* Both kinds of channel implement MwmrChannel: every step moves units in or out
\* of the channel as it allows, or does not show (mwmr.h).
THEOREM ChannelsRefine == LfSpec /\ LkSpec => ChannelsImplement
  BY LockfreeImplements, LockedImplements DEF ChannelsImplement

-----------------------------------------------------------------------------
(* SRL barriers.                                                           *)

SrlSpec == SrlInit /\ [][SrlNext]_srlVars

\* the tasks of the group that is not complete
Group == {x \in SrlTask : Waits(x) /\ entered[x] = rounds}

\* A task of the group that is not complete has read the present serial number:
\* it does not get through by looking at it.
SerialRead == \A x \in Group : ser[x] = serial

SrlIInv ==
  /\ SrlTypeOK /\ rounds \in Nat /\ entered \in [SrlTask -> Nat]
  /\ DOMAIN ser = SrlTask
  /\ \A x \in SrlTask : entered[x] <= rounds
  /\ SerialRead
  /\ BarMax - b_count = Cardinality(Group)

\* srl_barrier_wait: the last task of a group, and the others.
LEMMA BarrierWaitStep ==
  ASSUME SrlIInv, IsFiniteSet(SrlTask), 2^SerialBits \in Nat \ {0},
         NEW x \in SrlTask, srl_barrier_wait(x)
  PROVE  SrlIInv'
  <1>1. /\ SrlTypeOK /\ rounds \in Nat /\ entered \in [SrlTask -> Nat] /\ DOMAIN ser = SrlTask
        /\ \A y \in SrlTask : entered[y] <= rounds
        /\ SerialRead /\ BarMax - b_count = Cardinality(Group) /\ BarMax \in Nat \ {0}
        /\ b_count \in 1..BarMax /\ serial \in 0..(2^SerialBits - 1)
        /\ srl_pc \in [SrlTask -> {"run", "look", "asleep", "woken"}]
    <2>1. Cardinality(SrlTask) \in Nat
      BY FS_CardinalityType
    <2> QED
      BY <2>1, SrlAssumption, SMTT(30) DEF SrlIInv, SrlTypeOK
  <1>2. /\ entered' \in [SrlTask -> Nat] /\ srl_pc[x] = "run"
        /\ \A y \in SrlTask : entered'[y] = IF y = x THEN rounds ELSE entered[y]
    BY <1>1 DEF srl_barrier_wait
  <1>3. CASE b_count = 1
    <2>1. /\ b_count' = BarMax /\ rounds' = rounds + 1 /\ UNCHANGED <<ser, srl_pc>>
          /\ serial' = (serial + 1) % 2^SerialBits
      BY <1>3 DEF srl_barrier_wait
    <2>2. serial' \in 0..(2^SerialBits - 1)
      <3>1. ASSUME NEW m \in Nat \ {0}, NEW n \in Nat PROVE n % m \in 0..(m - 1)
        BY <3>1, SMTT(30)
      <3>2. serial + 1 \in Nat
        BY <1>1, SMTT(30)
      <3> QED
        BY <2>1, <3>1, <3>2
    <2>3. \A y \in SrlTask : entered'[y] <= rounds
      BY <1>1, <1>2, SMTT(30)
    <2>4. Group' = {}
      BY <1>1, <1>2, <2>1, <2>3, SMTT(30) DEF Group
    <2>5. BarMax - b_count' = Cardinality(Group')
      BY <1>1, <2>1, <2>4, FS_EmptySet, SMTT(30)
    <2>6. b_count' \in 1..BarMax /\ rounds' \in Nat /\ \A y \in SrlTask : entered'[y] <= rounds'
      BY <1>1, <1>2, <2>1, <2>3, SMTT(30)
    <2> QED
      BY <1>1, <1>2, <2>1, <2>2, <2>4, <2>5, <2>6 DEF SrlIInv, SrlTypeOK, SerialRead
  <1>4. CASE b_count # 1
    <2>1. /\ b_count' = b_count - 1 /\ UNCHANGED <<serial, rounds>>
          /\ ser' = [ser EXCEPT ![x] = serial] /\ srl_pc' = [srl_pc EXCEPT ![x] = "look"]
      BY <1>4 DEF srl_barrier_wait
    <2>2. /\ srl_pc' \in [SrlTask -> {"run", "look", "asleep", "woken"}]
          /\ \A y \in SrlTask : /\ srl_pc'[y] = IF y = x THEN "look" ELSE srl_pc[y]
                                /\ ser'[y] = IF y = x THEN serial ELSE ser[y]
      BY <1>1, <2>1
    <2>3. Group' = Group \cup {x} /\ x \notin Group
      BY <1>1, <1>2, <2>1, <2>2, SMTT(30) DEF Group, Waits
    <2>4. IsFiniteSet(Group) /\ Cardinality(Group) \in Nat
      BY FS_Subset, FS_CardinalityType DEF Group
    <2>5. Cardinality(Group') = Cardinality(Group) + 1
      BY <2>3, <2>4, FS_AddElement
    <2>6. BarMax - b_count' = Cardinality(Group') /\ b_count' \in 1..BarMax
      BY <1>1, <1>4, <2>1, <2>4, <2>5, SMTT(30)
    <2>7. SerialRead'
      BY <1>1, <2>1, <2>2, <2>3 DEF SerialRead, Group
    <2>8. \A y \in SrlTask : entered'[y] <= rounds'
      BY <1>1, <1>2, <2>1, SMTT(30)
    <2> QED
      BY <1>1, <1>2, <2>1, <2>2, <2>6, <2>7, <2>8 DEF SrlIInv, SrlTypeOK
  <1> QED
    BY <1>3, <1>4

\* srl_sched_wait_ne_cpu: no task of the group that is not complete gets through.
LEMMA SchedWaitStep ==
  ASSUME SrlIInv, NEW x \in SrlTask, SrlStep(x)
  PROVE  SrlIInv'
  <1>1. /\ UNCHANGED <<b_count, serial, ser, rounds, entered>>
        /\ srl_pc[x] # "run"
        /\ \E pc \in {"run", "asleep", "woken"} :
             srl_pc' = [srl_pc EXCEPT ![x] = pc] /\ (pc = "run" => serial # ser[x])
    BY DEF SrlStep, look, candidate, again
  <1>2. /\ srl_pc' \in [SrlTask -> {"run", "look", "asleep", "woken"}]
        /\ \A y \in SrlTask : y # x => srl_pc'[y] = srl_pc[y]
        /\ srl_pc'[x] = "run" => serial # ser[x]
    BY <1>1 DEF SrlIInv, SrlTypeOK
  <1>3. x \in Group => srl_pc'[x] # "run"
    BY <1>2 DEF SrlIInv, SerialRead
  <1>4. Group' = Group
    BY <1>1, <1>2, <1>3 DEF Group, Waits
  <1> QED
    BY <1>1, <1>2, <1>4 DEF SrlIInv, SrlTypeOK, SerialRead

\* Tasks get through an SRL barrier in groups of max, for any finite number of
\* tasks (libsrl/barrier.c:29-63).  That a power of two is a positive number,
\* which takes an induction, is an hypothesis.
THEOREM SrlSafe ==
  ASSUME IsFiniteSet(SrlTask), 2^SerialBits \in Nat \ {0}
  PROVE  SrlSpec => []SrlInv
  <1>1. SrlInit => SrlIInv
    <2> SUFFICES ASSUME SrlInit PROVE SrlIInv
      OBVIOUS
    <2>1. Cardinality(SrlTask) \in Nat
      BY FS_CardinalityType
    <2>2. Group = {}
      BY DEF SrlInit, Group, Waits
    <2> QED
      BY <2>1, <2>2, FS_EmptySet, SrlAssumption, SMTT(30) DEF SrlInit, SrlIInv, SrlTypeOK, SerialRead
  <1>2. SrlIInv /\ [SrlNext]_srlVars => SrlIInv'
    <2> SUFFICES ASSUME SrlIInv, [SrlNext]_srlVars PROVE SrlIInv'
      OBVIOUS
    <2>1. CASE UNCHANGED srlVars
      BY <2>1 DEF srlVars, SrlIInv, SrlTypeOK, SerialRead, Group, Waits
    <2> QED
      BY <2>1, BarrierWaitStep, SchedWaitStep DEF SrlNext
  <1>3. SrlIInv => SrlInv
    BY DEF SrlIInv, SrlInv, SrlGroups, Group
  <1> QED
    BY <1>1, <1>2, <1>3, PTL DEF SrlSpec
=============================================================================
