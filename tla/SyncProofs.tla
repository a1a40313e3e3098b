----------------------------- MODULE SyncProofs -----------------------------
(***************************************************************************)
(* Proofs about Mutex and about Srcu, whose updaters exclude each other by *)
(* a mutex.                                                                *)
(***************************************************************************)
EXTENDS Mutex, Srcu, KListProofs, FiniteSetTheorems, TLAPS

-----------------------------------------------------------------------------
(***************************************************************************)
(* Proofs about Mutex, for every finite set of tasks.  Three inductive     *)
(* invariants, each resting on the ones before it:                         *)
(*   OwnInv    who owns the mutex, from count alone;                       *)
(*   ListInv   who is on wait_list, given who holds wait_lock;             *)
(*   WakeInv   why a waiter is not forgotten, from both.                   *)
(***************************************************************************)

\* Ownership alone is inductive: it does not rest on wait_lock, because no
\* path changes count to 1 or away from 1 without owning or taking the mutex.
OwnInv ==
    /\ count \in Int /\ count <= 1
    /\ pc \in [Task -> PCs]
    /\ MutualExclusion

LEMMA OwnInit == MutexInit => OwnInv
BY DEF MutexInit, OwnInv, MutualExclusion, Owners, PCs

LEMMA OwnNext == OwnInv /\ [MutexNext]_mutexVars => OwnInv'
<1> SUFFICES ASSUME OwnInv, [MutexNext]_mutexVars PROVE OwnInv'
    OBVIOUS
<1> USE DEF OwnInv, MutualExclusion, Owners, PCs, goto
<1>1. ASSUME NEW t \in Task, mutex_lock(t) \/ mutex_lock_interruptible(t)
      PROVE  OwnInv'
      BY <1>1 DEF mutex_lock, mutex_lock_interruptible, fastpath_lock
<1>2. ASSUME NEW t \in Task, mutex_trylock(t) PROVE OwnInv'
      BY <1>2 DEF mutex_trylock
<1>3. ASSUME NEW t \in Task, mutex_unlock(t) PROVE OwnInv'
      BY <1>3 DEF mutex_unlock, fastpath_unlock, OwnInv, MutualExclusion, Owners
<1>4. ASSUME NEW t \in Task, enqueue(t) PROVE OwnInv'
      BY <1>4 DEF enqueue
<1>5. ASSUME NEW t \in Task, try_lock(t) PROVE OwnInv'
      BY <1>5 DEF try_lock
<1>6. ASSUME NEW t \in Task, lock_acquired(t) PROVE OwnInv'
      BY <1>6 DEF lock_acquired
<1>7. ASSUME NEW t \in Task, unlock_slowpath(t) PROVE OwnInv'
      BY <1>7 DEF unlock_slowpath
<1>8. ASSUME NEW t \in Task, wake_waiter(t) PROVE OwnInv'
      BY <1>8 DEF wake_waiter
<1>9. ASSUME NEW t \in Task,
             signal(t) \/ handle_signal(t) \/ spurious_wakeup(t)
      PROVE  OwnInv'
      BY <1>9 DEF signal, handle_signal, spurious_wakeup
<1>10. CASE UNCHANGED mutexVars
      BY <1>10 DEF mutexVars
<1> QED
    BY <1>1, <1>2, <1>3, <1>4, <1>5, <1>6, <1>7, <1>8, <1>9, <1>10 DEF MutexNext

\* Mutual exclusion holds in every behaviour of the mutex code, for every
\* set of tasks (kernel/mutex.c:141-345, asm/mutex.h:26-124).
THEOREM MutexExclusion == MutexSpec => []MutualExclusion
<1>1. OwnInv => MutualExclusion
    BY DEF OwnInv
<1> QED
    BY OwnInit, OwnNext, <1>1, PTL DEF MutexSpec

-----------------------------------------------------------------------------
(***************************************************************************)
(* The wait list.  ListExact is inductive only together with who holds     *)
(* wait_lock: the steps between two accesses to count hold it.             *)
(***************************************************************************)
LockHeld ==
    \A t \in Task : pc[t] \in {"try", "done", "wake"} <=> wait_lock = t

ListInv == MutexTypeOK /\ LockHeld /\ ListExact

LEMMA ListInit == MutexInit => ListInv
BY TaskAssumption
   DEF MutexInit, ListInv, MutexTypeOK, LockHeld, ListExact, OnList, NoDup, PCs

LEMMA ListNext == OwnInv /\ ListInv /\ [MutexNext]_mutexVars => ListInv'
<1> SUFFICES ASSUME OwnInv, ListInv, [MutexNext]_mutexVars PROVE ListInv'
    OBVIOUS
<1>0. /\ wait_list \in Seq(Task) /\ NoDup(wait_list)
      /\ \A t \in Task : OnList(wait_list, t)
                            <=> pc[t] \in {"try", "sleep", "done"}
    BY DEF ListInv, MutexTypeOK, ListExact
<1> USE TaskAssumption DEF ListInv, MutexTypeOK, LockHeld, ListExact, PCs, goto
<1>1. ASSUME NEW t \in Task, mutex_lock(t) \/ mutex_lock_interruptible(t)
      PROVE  ListInv'
    <2>1. interruptible' \in [Task -> BOOLEAN]
        BY <1>1 DEF mutex_lock, mutex_lock_interruptible
    <2>2. UNCHANGED <<wait_list, wait_lock, sig, state>> /\ pc[t] = "idle"
        BY <1>1 DEF mutex_lock, mutex_lock_interruptible
    <2>3. /\ count' \in Int /\ count' <= 1
          /\ goto(t, "own") \/ goto(t, "slow")
        BY <1>1 DEF mutex_lock, mutex_lock_interruptible, fastpath_lock
    <2> QED
        BY <2>1, <2>2, <2>3
<1>2. ASSUME NEW t \in Task, mutex_trylock(t) PROVE ListInv'
      BY <1>2 DEF mutex_trylock
<1>3. ASSUME NEW t \in Task, mutex_unlock(t) PROVE ListInv'
      BY <1>3 DEF mutex_unlock, fastpath_unlock, OwnInv, MutualExclusion, Owners
<1>4. ASSUME NEW t \in Task, enqueue(t) PROVE ListInv'
    <2>1. /\ wait_list' \in Seq(Task) /\ NoDup(wait_list')
          /\ \A u \in Task : OnList(wait_list', u) <=> OnList(wait_list, u) \/ u = t
        BY <1>0, <1>4, AppendList DEF enqueue
    <2> QED
        BY <1>0, <1>4, <2>1 DEF enqueue
<1>5. ASSUME NEW t \in Task, try_lock(t) PROVE ListInv'
    <2>1. /\ list_del(wait_list, t) \in Seq(Task) /\ NoDup(list_del(wait_list, t))
          /\ \A u \in Task : OnList(list_del(wait_list, t), u)
                                <=> OnList(wait_list, u) /\ u # t
        BY <1>0, <1>5, DelList DEF try_lock
    <2> QED
        BY <1>0, <1>5, <2>1 DEF try_lock, remove_waiter
<1>6. ASSUME NEW t \in Task, lock_acquired(t) PROVE ListInv'
    <2>1. /\ wait_list' \in Seq(Task) /\ NoDup(wait_list')
          /\ \A u \in Task : OnList(wait_list', u) <=> OnList(wait_list, u) /\ u # t
        BY <1>0, <1>6, DelList DEF lock_acquired, remove_waiter
    <2> QED
        BY <1>0, <1>6, <2>1 DEF lock_acquired
<1>7. ASSUME NEW t \in Task, unlock_slowpath(t) PROVE ListInv'
      BY <1>7 DEF unlock_slowpath
<1>8. ASSUME NEW t \in Task, wake_waiter(t) PROVE ListInv'
      BY <1>0, <1>8, HeadOn DEF wake_waiter
<1>9. ASSUME NEW t \in Task,
             signal(t) \/ handle_signal(t) \/ spurious_wakeup(t)
      PROVE  ListInv'
      BY <1>9 DEF signal, handle_signal, spurious_wakeup
<1>10. CASE UNCHANGED mutexVars
      BY <1>10 DEF mutexVars
<1> QED
    BY <1>1, <1>2, <1>3, <1>4, <1>5, <1>6, <1>7, <1>8, <1>9, <1>10 DEF MutexNext

\* Every state of the mutex has its type (include/linux/mutex.h:48-52).
THEOREM MutexTypes == MutexSpec => []MutexTypeOK
<1>1. ListInv => MutexTypeOK
    BY DEF ListInv
<1> QED
    BY OwnInit, OwnNext, ListInit, ListNext, <1>1, PTL DEF MutexSpec

\* The wait list holds exactly the tasks inside __mutex_lock_common(), once
\* each (kernel/mutex.c:220-276).
THEOREM MutexListExact == MutexSpec => []ListExact
<1>1. ListInv => ListExact
    BY DEF ListInv
<1> QED
    BY OwnInit, OwnNext, ListInit, ListNext, <1>1, PTL DEF MutexSpec

-----------------------------------------------------------------------------
(***************************************************************************)
(* The wakeup.  While the mutex changes hands under wait_lock the list may *)
(* have waiters and nobody awake; what saves them is that the new owner    *)
(* still has a negative count, so that its unlock takes the slow path.     *)
(***************************************************************************)
WakeInv ==
    /\ NoLostWakeup
    /\ \A t \in Task : pc[t] = "done" => count < 0

LEMMA WakeInit == MutexInit => WakeInv
BY DEF MutexInit, WakeInv, NoLostWakeup

LEMMA WakeNext == OwnInv /\ ListInv /\ WakeInv /\ [MutexNext]_mutexVars => WakeInv'
<1> SUFFICES ASSUME OwnInv, ListInv, WakeInv, [MutexNext]_mutexVars PROVE WakeInv'
    OBVIOUS
<1>0. /\ wait_list # <<>> => Head(wait_list) \in Task
      /\ count \in Int /\ count <= 1
      /\ pc \in [Task -> PCs] /\ state \in [Task -> {"RUNNING", "SLEEPING"}]
      /\ LockHeld
    BY HeadOn DEF ListInv, MutexTypeOK
<1> USE TaskAssumption, <1>0 DEF WakeInv, NoLostWakeup, LockHeld, PCs, goto
<1>1. ASSUME NEW t \in Task, mutex_lock(t) \/ mutex_lock_interruptible(t)
      PROVE  WakeInv'
    <2>1. /\ UNCHANGED <<wait_list, wait_lock, state>> /\ pc[t] = "idle"
          /\ fastpath_lock(t)
        BY <1>1 DEF mutex_lock, mutex_lock_interruptible
    <2> QED
        BY <2>1 DEF fastpath_lock, OwnInv, MutualExclusion, Owners
<1>2. ASSUME NEW t \in Task, mutex_trylock(t) PROVE WakeInv'
      BY <1>2 DEF mutex_trylock, OwnInv, MutualExclusion, Owners
<1>3. ASSUME NEW t \in Task, mutex_unlock(t) PROVE WakeInv'
      BY <1>3 DEF mutex_unlock, fastpath_unlock, OwnInv, MutualExclusion, Owners
<1>4. ASSUME NEW t \in Task, enqueue(t) PROVE WakeInv'
      BY <1>4 DEF enqueue
<1>5. ASSUME NEW t \in Task, try_lock(t) PROVE WakeInv'
      BY <1>5 DEF try_lock, remove_waiter
<1>6. ASSUME NEW t \in Task, lock_acquired(t) PROVE WakeInv'
      BY <1>6 DEF lock_acquired
<1>7. ASSUME NEW t \in Task, unlock_slowpath(t) PROVE WakeInv'
      BY <1>7 DEF unlock_slowpath, OwnInv, MutualExclusion, Owners
<1>8. ASSUME NEW t \in Task, wake_waiter(t) PROVE WakeInv'
      BY <1>8 DEF wake_waiter
<1>9. ASSUME NEW t \in Task,
             signal(t) \/ handle_signal(t) \/ spurious_wakeup(t)
      PROVE  WakeInv'
      BY <1>9 DEF signal, handle_signal, spurious_wakeup
<1>10. CASE UNCHANGED mutexVars
      BY <1>10 DEF mutexVars
<1> QED
    BY <1>1, <1>2, <1>3, <1>4, <1>5, <1>6, <1>7, <1>8, <1>9, <1>10 DEF MutexNext

\* A waiter is never forgotten: whoever unlocks next goes through the slow
\* path, or is in it, or the first waiter is awake (kernel/mutex.c:227-238).
THEOREM MutexNoLostWakeup == MutexSpec => []NoLostWakeup
<1>1. WakeInv => NoLostWakeup
    BY DEF WakeInv
<1> QED
    BY OwnInit, OwnNext, ListInit, ListNext, WakeInit, WakeNext, <1>1, PTL
       DEF MutexSpec

-----------------------------------------------------------------------------
(***************************************************************************)
(* The lower bound of count.                                               *)
(***************************************************************************)
Slow == {t \in Task : pc[t] = "slow"}

LEMMA SlowFinite == IsFiniteSet(Slow) /\ Cardinality(Slow) \in Nat
BY TaskAssumption, FS_Subset, FS_CardinalityType DEF Slow

LEMMA BoundedNext == OwnInv /\ CountBounded /\ [MutexNext]_mutexVars => CountBounded'
<1> SUFFICES ASSUME OwnInv, CountBounded, [MutexNext]_mutexVars PROVE CountBounded'
    OBVIOUS
<1>0. /\ count \in Int /\ count <= 1 /\ pc \in [Task -> PCs]
      /\ count >= -1 - Cardinality(Slow)
      /\ IsFiniteSet(Slow) /\ Cardinality(Slow) \in Nat
    BY SlowFinite DEF OwnInv, CountBounded, Slow
<1>1. SUFFICES count' >= -1 - Cardinality(Slow')
    BY DEF CountBounded, Slow
<1>2. IsFiniteSet(Slow') /\ Cardinality(Slow') \in Nat /\ count' \in Int
    BY TaskAssumption, FS_Subset, FS_CardinalityType, OwnNext DEF Slow, OwnInv
<1>3. ASSUME NEW t \in Task,
             mutex_lock(t) \/ mutex_lock_interruptible(t),
             count' = count - 1, count # 1
      PROVE  Cardinality(Slow') = Cardinality(Slow) + 1
    <2>1. t \notin Slow /\ Slow' = Slow \cup {t}
        BY <1>0, <1>3 DEF mutex_lock, mutex_lock_interruptible, fastpath_lock,
                          goto, Slow
    <2> QED
        BY <1>0, <2>1, FS_AddElement
<1>4. ASSUME NEW t \in Task, mutex_lock(t) \/ mutex_lock_interruptible(t),
             count' = count
      PROVE  Cardinality(Slow') >= Cardinality(Slow)
    <2>1. Slow \subseteq Slow'
        BY <1>0, <1>4 DEF mutex_lock, mutex_lock_interruptible, fastpath_lock,
                          goto, Slow
    <2> QED
        BY <1>2, <2>1, FS_Subset
<1>5. ASSUME NEW t \in Task, mutex_lock(t) \/ mutex_lock_interruptible(t)
      PROVE  \/ count' = 0
             \/ count' = count - 1 /\ count # 1
             \/ count' = count
    BY <1>0, <1>5 DEF mutex_lock, mutex_lock_interruptible, fastpath_lock
<1>6. ASSUME NEW t \in Task, mutex_unlock(t)
      PROVE  Slow' = Slow /\ count' >= count
    BY <1>0, <1>6 DEF mutex_unlock, fastpath_unlock, goto, Slow
<1>7. ASSUME NEW t \in Task,
             \/ mutex_trylock(t) \/ enqueue(t) \/ try_lock(t)
             \/ unlock_slowpath(t)
      PROVE  count' >= -1
    BY <1>7 DEF mutex_trylock, enqueue, try_lock, unlock_slowpath
<1>8. ASSUME NEW t \in Task, lock_acquired(t)
      PROVE  Slow' = Slow /\ (count' = 0 \/ count' = count)
    BY <1>0, <1>8 DEF lock_acquired, goto, Slow
<1>9. ASSUME NEW t \in Task,
             \/ wake_waiter(t) \/ signal(t) \/ handle_signal(t)
             \/ spurious_wakeup(t)
      PROVE  Slow' = Slow /\ count' = count
    BY <1>0, <1>9 DEF wake_waiter, signal, handle_signal, spurious_wakeup,
                      goto, Slow
<1>10. UNCHANGED mutexVars => Slow' = Slow /\ count' = count
    BY DEF mutexVars, Slow
<1>11. \/ \E t \in Task : mutex_lock(t) \/ mutex_lock_interruptible(t)
       \/ \E t \in Task : mutex_unlock(t)
       \/ \E t \in Task : \/ mutex_trylock(t) \/ enqueue(t) \/ try_lock(t)
                          \/ unlock_slowpath(t)
       \/ \E t \in Task : lock_acquired(t)
       \/ \E t \in Task : \/ wake_waiter(t) \/ signal(t) \/ handle_signal(t)
                          \/ spurious_wakeup(t)
       \/ UNCHANGED mutexVars
    BY DEF MutexNext
<1>12. CASE \E t \in Task : mutex_lock(t) \/ mutex_lock_interruptible(t)
    <2>1. PICK t \in Task : mutex_lock(t) \/ mutex_lock_interruptible(t)
        BY <1>12
    <2> QED
        BY <1>0, <1>2, <1>3, <1>4, <1>5, <2>1
<1>13. CASE Slow' = Slow /\ (count' >= count \/ count' = 0)
    BY <1>0, <1>2, <1>13
<1>14. CASE count' >= -1
    BY <1>2, <1>14
<1> QED
    <2>1. count' = count => count' >= count
        BY <1>0
    <2> QED
        BY <2>1, <1>6, <1>7, <1>8, <1>9, <1>10, <1>11, <1>12, <1>13, <1>14

\* count never falls below -1 by more than one for every task on its way
\* into the slow path, so it cannot wrap around (asm/mutex.h:26-44,
\* kernel/mutex.c:223, 238).
THEOREM MutexCountBounded == MutexSpec => []CountBounded
<1>1. MutexInit => CountBounded
    BY SlowFinite DEF MutexInit, CountBounded, Slow
<1> QED
    BY OwnInit, OwnNext, <1>1, BoundedNext, PTL DEF MutexSpec

-----------------------------------------------------------------------------
(***************************************************************************)
(* Refinement.  OwnInv is all it takes: a step either leaves the owners    *)
(* alone, adds one to none, or takes the only one away.                    *)
(***************************************************************************)
LEMMA OwnersStep ==
    ASSUME OwnInv, [MutexNext]_mutexVars
    PROVE  \/ Owners' = Owners
           \/ \E t \in Task : Owners = {} /\ Owners' = {t}
           \/ \E t \in Task : Owners = {t} /\ Owners' = {}
<1> USE DEF OwnInv, MutualExclusion, Owners, PCs, goto
<1>1. ASSUME NEW t \in Task,
             \/ mutex_lock(t) \/ mutex_lock_interruptible(t)
             \/ mutex_trylock(t) \/ enqueue(t) \/ try_lock(t)
      PROVE  Owners' = Owners \/ (Owners = {} /\ Owners' = {t})
    BY <1>1 DEF mutex_lock, mutex_lock_interruptible, fastpath_lock,
                mutex_trylock, enqueue, try_lock
<1>2. ASSUME NEW t \in Task, mutex_unlock(t) \/ unlock_slowpath(t)
      PROVE  Owners' = Owners \/ (Owners = {t} /\ Owners' = {})
    BY <1>2 DEF mutex_unlock, fastpath_unlock, unlock_slowpath
<1>3. ASSUME NEW t \in Task,
             \/ lock_acquired(t) \/ wake_waiter(t) \/ signal(t)
             \/ handle_signal(t) \/ spurious_wakeup(t)
      PROVE  Owners' = Owners
    BY <1>3 DEF lock_acquired, wake_waiter, signal, handle_signal,
                spurious_wakeup
<1>4. CASE UNCHANGED mutexVars
    BY <1>4 DEF mutexVars
<1> QED
    BY <1>1, <1>2, <1>3, <1>4 DEF MutexNext

LEMMA RefineNext == OwnInv /\ [MutexNext]_mutexVars => [RW!Next]_LockMode
<1> SUFFICES ASSUME OwnInv, [MutexNext]_mutexVars PROVE [RW!Next]_LockMode
    OBVIOUS
<1>1. CASE Owners' = Owners
    BY <1>1 DEF LockMode
<1>2. ASSUME NEW t \in Task, Owners = {}, Owners' = {t}
      PROVE  RW!AcquireWrite(t)
    BY <1>2 DEF LockMode, RW!AcquireWrite
<1>3. ASSUME NEW t \in Task, Owners = {t}, Owners' = {}
      PROVE  RW!Release(t)
    BY <1>3 DEF LockMode, RW!Release
<1> QED
    BY OwnersStep, <1>1, <1>2, <1>3 DEF RW!Next

\* The mutex code implements the abstract lock, whichever of its fast and
\* slow paths the tasks take (kernel/mutex.c:92-473, asm/mutex.h:26-124).
THEOREM MutexImplementsRWLock == MutexSpec => ImplementsRWLock
<1>1. MutexInit => RW!Init
    BY DEF MutexInit, RW!Init, LockMode, Owners
<1> QED
    BY OwnInit, OwnNext, RefineNext, <1>1, PTL DEF MutexSpec, ImplementsRWLock, RW!Spec

-----------------------------------------------------------------------------
(***************************************************************************)
(* Proofs about sleepable RCU: a grace period outlasts the readers it must *)
(* and the counters are not freed in use, for any number of readers,       *)
(* updaters and CPUs, any width of the counters that the readers fit in,   *)
(* and although completed wraps.                                           *)
(*                                                                         *)
(* The argument: between grace periods every reader goes by the rank in    *)
(* use.  A flip makes it the old rank; the sync_func() before the flip and *)
(* the one after it see to it that everyone who must be waited for has     *)
(* counted itself and that nobody counts itself in the old rank any more;  *)
(* so what the loop over the CPUs adds up can only be too large, and when  *)
(* it is zero all are on their way out, which the third sync_func() waits  *)
(* for.  The readers of an updater that only watches are counted after one *)
(* flip, in whichever rank, and gone after the next.                       *)
(***************************************************************************)

\* A remainder is the only number below the divisor that differs from the
\* dividend by a multiple of it.
LEMMA ModIs ==
    ASSUME NEW m \in Nat \ {0}, NEW q \in Int, NEW r \in 0 .. m - 1
    PROVE  (m * q + r) % m = r
    OBVIOUS

\* Division with remainder.
LEMMA Division ==
    ASSUME NEW m \in Nat \ {0}, NEW a \in Int
    PROVE  \E q \in Int : a = m * q + (a % m)
<1> DEFINE T == {r \in Nat : \E q \in Int : a = m * q + r}
<1>1. T # {}
    <2>1. CASE a >= 0
        <3>1. a \in Nat /\ 0 \in Int /\ a = m * 0 + a
            BY <2>1
        <3> QED
            BY <3>1
    <2>2. CASE a < 0
        <3> DEFINE r == (m - 1) * (-a)
        <3>1. r \in Nat
            <4>1. m - 1 \in Nat /\ -a \in Nat
                BY <2>2
            <4> QED
                BY <4>1
        <3>2. a = m * a + r
            OBVIOUS
        <3> QED
            BY <3>1, <3>2
    <2>3. a >= 0 \/ a < 0
        OBVIOUS
    <2> QED
        BY <2>1, <2>2, <2>3
<1>2. PICK r \in T : \A y \in T : r <= y
    BY <1>1, Least
<1>3. PICK q \in Int : a = m * q + r
    OBVIOUS
<1>4. r < m
    <2>1. SUFFICES ASSUME r >= m PROVE FALSE
        OBVIOUS
    <2>2. a = m * (q + 1) + (r - m)
        BY <1>3
    <2>3. r - m \in T
        BY <2>1, <2>2
    <2>4. r \in Nat /\ r - m < r
        OBVIOUS
    <2>5. r <= r - m
        BY <1>2, <2>3
    <2> HIDE DEF T
    <2> QED
        BY <2>4, <2>5
<1>5. a % m = r
    BY <1>3, <1>4, ModIs
<1> QED
    BY <1>3, <1>5

\* A multiple of the divisor does not change the remainder.
LEMMA ModShift ==
    ASSUME NEW m \in Nat \ {0}, NEW a \in Int, NEW k \in Int
    PROVE  (a + m * k) % m = a % m
<1>1. PICK q \in Int : a = m * q + (a % m)
    BY Division
<1>2. a + m * k = m * (q + k) + (a % m)
    BY <1>1
<1>3. a % m \in 0 .. m - 1
    OBVIOUS
<1>4. (m * (q + k) + (a % m)) % m = a % m
    BY <1>3, ModIs
<1> QED
    BY <1>2, <1>4

\* int arithmetic may wrap as often as it likes before the sum is looked at.
LEMMA ModSum ==
    ASSUME NEW m \in Nat \ {0}, NEW a \in Int, NEW b \in Int
    PROVE  /\ ((a % m) + b) % m = (a + b) % m
           /\ ((a % m) + (b % m)) % m = (a + b) % m
           /\ a % m \in 0 .. m - 1
<1>1. PICK q \in Int : a = m * q + (a % m)
    BY Division
<1>2. PICK p \in Int : b = m * p + (b % m)
    BY Division
<1>3. a % m \in 0 .. m - 1 /\ b % m \in 0 .. m - 1
    OBVIOUS
<1>4. a + b = ((a % m) + b) + m * q
    BY <1>1
<1>5. a + b = ((a % m) + (b % m)) + m * (q + p)
    BY <1>1, <1>2
<1>6. (((a % m) + b) + m * q) % m = ((a % m) + b) % m
    <2> DEFINE x == (a % m) + b
    <2>1. x \in Int
        BY <1>3
    <2> HIDE DEF x
    <2>2. (x + m * q) % m = x % m
        BY <2>1, ModShift
    <2> QED
        BY <2>2 DEF x
<1>7. (((a % m) + (b % m)) + m * (q + p)) % m = ((a % m) + (b % m)) % m
    <2> DEFINE x == (a % m) + (b % m)  k == q + p
    <2>1. x \in Int /\ k \in Int
        BY <1>3
    <2> HIDE DEF x, k
    <2>2. (x + m * k) % m = x % m
        BY <2>1, ModShift
    <2> QED
        BY <2>2 DEF x, k
<1> QED
    BY <1>3, <1>4, <1>5, <1>6, <1>7

-----------------------------------------------------------------------------
\* Where the holder of sp->mutex is in __synchronize_srcu().
Phase == IF mutex = None THEN "none" ELSE up[mutex].pc

\* From mutex_lock() to mutex_unlock().
Syncing == {"sync1", "sync2", "drain", "sync3"}

\* A reader has no CPU to itself exactly where it may be preempted, no two
\* share one, and outside it keeps nothing.
RegionInv ==
    /\ \A r \in Reader :
         /\ rd[r].pc \in {"out", "in"} <=> rd[r].cpu = None
         /\ rd[r].pc = "out" => rd[r] = Outside
    /\ \A r \in Reader : \A q \in Reader :
         rd[r].cpu = rd[q].cpu /\ rd[r].cpu # None => r = q

\* The holder of sp->mutex, and nobody else, is past mutex_lock(); while the
\* rank it waits for drains, this is not the rank in use.
MutexInv ==
    /\ \A u \in Updater : up[u].pc \in Syncing <=> mutex = u
    /\ \A u \in Updater : up[u].pc = "idle" => up[u] = Idle
    /\ \A u \in Updater : up[u].pc \in {"sync2", "drain"} =>
         up[u].idx \in {0, 1} /\ up[u].idx # completed % 2
    /\ \A u \in Updater : up[u].pc = "sync2" => up[u].next = 1 /\ up[u].sum = 0

\* Nobody uses the counters once they are freed.
FreedInv ==
    ~per_cpu_ref => /\ \A r \in Reader : rd[r] = Outside
                    /\ \A u \in Updater : up[u] = Idle

\* Reader r goes by the rank that is not in use.
OldRank(r) == rd[r].pc \in {"loaded", "in", "leave"} /\ rd[r].idx # completed % 2

\* There are such readers only from a flip until the third sync_func() is over;
\* once the second one is over none of them has its counting still before it,
\* and once the rank is drained they are all on their way out.
RankInv ==
    \A r \in Reader : OldRank(r) =>
        \/ Phase = "sync2" /\ (rd[r].pc = "loaded" => rd[r].cpu \in gp)
        \/ Phase = "drain" /\ rd[r].pc # "loaded"
        \/ Phase = "sync3" /\ rd[r].pc = "leave" /\ rd[r].cpu \in gp

\* The readers an updater with the mutex must outlast: the first sync_func()
\* lets them count themselves before the flip, so they are in the rank drained.
HolderOwes(u) ==
    \A r \in owed[u] :
        /\ up[u].pc = "sync1" => rd[r].pc \in {"in", "leave"} \/ rd[r].cpu \in gp
        /\ up[u].pc \in {"sync2", "drain"} => rd[r].pc \in {"in", "leave"} /\ OldRank(r)
        /\ up[u].pc = "sync3" => rd[r].pc = "leave" /\ rd[r].cpu \in gp

\* How far completed has gone since updater u looked at it, modulo IntMod.
Flips(u) == (completed - up[u].idx) % IntMod

\* The readers an updater without the mutex must outlast: the second sync_func()
\* after one flip makes them all count themselves, in one rank or the other,
\* and the next grace period drains the one that is left.
WaiterOwes(u) ==
    \A r \in owed[u] :
        /\ Flips(u) # 0 => \/ rd[r].pc \in {"in", "leave"}
                           \/ Phase = "sync2" /\ rd[r].cpu \in gp
        /\ Flips(u) \notin {0, 1} =>
             \/ Phase \in {"sync2", "drain"} /\ rd[r].pc \in {"in", "leave"} /\ OldRank(r)
             \/ Phase = "sync3" /\ rd[r].pc = "leave" /\ rd[r].cpu \in gp

\* Whom an updater must outlast is still in its critical section, and an updater
\* that has returned has outlasted them.
OwedInv ==
    \A u \in Updater :
        /\ \A r \in owed[u] : rd[r].pc # "out"
        /\ up[u].pc = "idle" => owed[u] = {}
        /\ HolderOwes(u)
        /\ up[u].pc = "wait" => WaiterOwes(u)

\* The readers that are counted in rank i.
Counted(i) == {r \in Reader : rd[r].pc = "in" /\ rd[r].idx = i}

\* s[k] is what the counters of rank i of the CPUs 1 .. k would add up to if
\* int did not wrap; all of them together count the readers, although one CPU's
\* counter may be negative.
Sums(i, s) ==
    /\ s \in [0 .. NCpu -> Int]
    /\ s[0] = 0
    /\ s[NCpu] = Cardinality(Counted(i))
    /\ \A k \in Cpu : c[k][i] = (s[k] - s[k - 1]) % CountMod

\* What the updater has added up so far exceeds what these counters hold now by
\* the d readers that have left meanwhile through a CPU already read.
ReadSoFar(u, s) ==
    \E d \in Nat :
        /\ Cardinality(Counted(up[u].idx)) + d <= Cardinality(Reader)
        /\ up[u].sum = (s[up[u].next - 1] + d) % CountMod

\* The counters of both ranks count the readers, and so does an updater.
CountInv ==
    \A i \in {0, 1} : \E s :
        /\ Sums(i, s)
        /\ \A u \in Updater : up[u].pc = "drain" /\ up[u].idx = i => ReadSoFar(u, s)

\* The inductive invariant.
Inv ==
    /\ TypeOK
    /\ RegionInv
    /\ MutexInv
    /\ FreedInv
    /\ RankInv
    /\ OwedInv
    /\ CountInv

-----------------------------------------------------------------------------
\* A flip changes the rank in use, also where completed wraps.
LEMMA FlipRank ==
    ASSUME NEW a \in 0 .. IntMod - 1
    PROVE  ((a + 1) % IntMod) % 2 # a % 2
    BY SrcuAssumption

\* A flip adds one to the distance from an earlier value of completed.
LEMMA FlipDistance ==
    ASSUME NEW a \in Int, NEW b \in Int
    PROVE  (((a + 1) % IntMod) - b) % IntMod = (((a - b) % IntMod) + 1) % IntMod
<1>1. IntMod \in Nat \ {0}
    BY SrcuAssumption
<1>2. (((a + 1) % IntMod) + (-b)) % IntMod = ((a + 1) + (-b)) % IntMod
    <2> DEFINE x == a + 1  y == -b
    <2>1. x \in Int /\ y \in Int
        OBVIOUS
    <2> HIDE DEF x, y
    <2>2. ((x % IntMod) + y) % IntMod = (x + y) % IntMod
        BY <1>1, <2>1, ModSum
    <2> QED
        BY <2>2 DEF x, y
<1>3. (((a - b) % IntMod) + 1) % IntMod = ((a - b) + 1) % IntMod
    <2> DEFINE x == a - b  y == 1
    <2>1. x \in Int /\ y \in Int
        OBVIOUS
    <2> HIDE DEF x, y
    <2>2. ((x % IntMod) + y) % IntMod = (x + y) % IntMod
        BY <1>1, <2>1, ModSum
    <2> QED
        BY <2>2 DEF x, y
<1>4. (a + 1) % IntMod \in Int
    BY <1>1
<1>5. ((a + 1) % IntMod) - b = ((a + 1) % IntMod) + (-b)
    BY <1>4
<1>6. (a + 1) + (-b) = (a - b) + 1
    OBVIOUS
<1> QED
    BY <1>2, <1>3, <1>5, <1>6

\* The readers in a rank are finitely many, and fit in a counter.
LEMMA CountedSize ==
    ASSUME NEW i
    PROVE  /\ IsFiniteSet(Counted(i))
           /\ Cardinality(Counted(i)) \in Nat
           /\ Cardinality(Reader) \in Nat
           /\ Cardinality(Counted(i)) <= Cardinality(Reader)
           /\ Cardinality(Reader) < CountMod
<1>1. Counted(i) \in SUBSET Reader
    BY DEF Counted
<1> QED
    BY <1>1, SrcuAssumption, FS_Subset, FS_CardinalityType

\* Facts that the steps of a reader, which have no part in the updaters' state,
\* and those of an updater, which do not count, have in common.
LEMMA CountFrame ==
    ASSUME CountInv,
           c' = c,
           \A i \in {0, 1} : Counted(i)' = Counted(i),
           \A u \in Updater : up'[u].pc = "drain" => up'[u] = up[u]
    PROVE  CountInv'
<1> SUFFICES ASSUME NEW i \in {0, 1}
             PROVE  \E s : /\ Sums(i, s)'
                           /\ \A u \in Updater : up'[u].pc = "drain" /\ up'[u].idx = i => ReadSoFar(u, s)'
    BY DEF CountInv
<1>1. PICK s : /\ Sums(i, s)
               /\ \A u \in Updater : up[u].pc = "drain" /\ up[u].idx = i => ReadSoFar(u, s)
    BY DEF CountInv
<1>2. Sums(i, s)'
    BY <1>1 DEF Sums
<1>3. ASSUME NEW u \in Updater, up'[u].pc = "drain", up'[u].idx = i
      PROVE  ReadSoFar(u, s)'
    BY <1>1, <1>3 DEF ReadSoFar
<1> QED
    BY <1>2, <1>3

\* What the assumption says of the constants, as the proofs use it.
LEMMA SizeAssumption ==
    /\ CountMod \in Nat \ {0}
    /\ IntMod \in Nat \ {0}
    /\ NCpu \in Nat \ {0}
    /\ None \notin Updater /\ None \notin Cpu
<1>1. Cardinality(Reader) \in Nat
    BY SrcuAssumption, FS_CardinalityType
<1> QED
    BY <1>1, SrcuAssumption DEF Cpu

\* One counter changes by e: so do the sums from its CPU on.
LEMMA SumsAt ==
    ASSUME TypeOK, NEW i \in {0, 1}, NEW s, Sums(i, s), NEW cpu \in Cpu, NEW e \in Int,
           NEW s2, s2 = [k \in 0 .. NCpu |-> IF k >= cpu THEN s[k] + e ELSE s[k]],
           c' = [c EXCEPT ![cpu][i] = (@ + e) % CountMod],
           Cardinality(Counted(i)') = Cardinality(Counted(i)) + e
    PROVE  Sums(i, s2)'
<1> USE SizeAssumption
<1>1. s \in [0 .. NCpu -> Int] /\ s[0] = 0 /\ s[NCpu] = Cardinality(Counted(i))
    BY DEF Sums
<1>2. s2 \in [0 .. NCpu -> Int] /\ s2[0] = 0
    BY <1>1 DEF Cpu
<1>3. s2[NCpu] = Cardinality(Counted(i)')
    BY <1>1 DEF Cpu
<1>4. ASSUME NEW k \in Cpu PROVE c'[k][i] = (s2[k] - s2[k - 1]) % CountMod
    <2>1. k - 1 \in 0 .. NCpu /\ k \in 0 .. NCpu /\ c[k][i] = (s[k] - s[k - 1]) % CountMod
        BY DEF Sums, Cpu
    <2>2. CASE k = cpu
        <3> DEFINE x == s[k] - s[k - 1]
        <3>1. x \in Int
            BY <1>1, <2>1
        <3>2. s2[k] - s2[k - 1] = x + e
            BY <1>1, <2>1, <2>2 DEF Cpu
        <3>3. c'[k][i] = ((x % CountMod) + e) % CountMod
            BY <2>1, <2>2 DEF TypeOK
        <3> HIDE DEF x
        <3>4. ((x % CountMod) + e) % CountMod = (x + e) % CountMod
            BY <3>1, ModSum
        <3> QED
            BY <3>2, <3>3, <3>4
    <2>3. CASE k # cpu
        <3>1. c'[k] = c[k]
            BY <2>3 DEF TypeOK
        <3>2. s2[k] - s2[k - 1] = s[k] - s[k - 1]
            BY <1>1, <2>1, <2>3 DEF Cpu
        <3> QED
            BY <2>1, <3>1, <3>2
    <2> QED
        BY <2>2, <2>3
<1> QED
    BY <1>2, <1>3, <1>4 DEF Sums

\* A counter of the other rank changes: the sums of this one stay.
LEMMA OtherRank ==
    ASSUME TypeOK, CountInv, NEW i \in {0, 1}, NEW j \in {0, 1}, j # i, NEW cpu \in Cpu, NEW x,
           c' = [c EXCEPT ![cpu][j] = x],
           Counted(i)' = Counted(i), up' = up
    PROVE  \E s : /\ Sums(i, s)'
                  /\ \A u \in Updater : up'[u].pc = "drain" /\ up'[u].idx = i => ReadSoFar(u, s)'
<1>1. PICK s : /\ Sums(i, s)
               /\ \A u \in Updater : up[u].pc = "drain" /\ up[u].idx = i => ReadSoFar(u, s)
    BY DEF CountInv
<1>2. \A k \in Cpu : c'[k][i] = c[k][i]
    BY DEF TypeOK
<1>3. Sums(i, s)'
    BY <1>1, <1>2 DEF Sums
<1>4. ASSUME NEW u \in Updater, up'[u].pc = "drain", up'[u].idx = i
      PROVE  ReadSoFar(u, s)'
    BY <1>1, <1>4 DEF ReadSoFar
<1> QED
    BY <1>3, <1>4

\* srcu_read_lock() begins: a reader nobody has to wait for yet.
LEMMA ReadLockInv ==
    ASSUME Inv, NEW r \in Reader, NEW cpu \in Cpu, ReadLock(r, cpu)
    PROVE  Inv'
<1> USE SizeAssumption
<1>1. /\ TypeOK /\ RegionInv /\ MutexInv /\ FreedInv /\ RankInv /\ OwedInv /\ CountInv
      /\ rd[r].pc \in {"out", "enter", "loaded", "in", "leave"}
      /\ rd[r].cpu \in Cpu \cup {None} /\ rd[r].idx \in {0, 1}
    BY DEF Inv, TypeOK
<1>2. /\ UNCHANGED <<per_cpu_ref, completed, c, mutex, up, gp, owed>>
      /\ Phase' = Phase
      /\ \A u \in Updater : Flips(u)' = Flips(u)
    BY DEF ReadLock, Phase, Flips
<1>3. /\ rd' \in [Reader -> [pc : {"out", "enter", "loaded", "in", "leave"},
                             cpu : Cpu \cup {None}, idx : {0, 1}]]
      /\ rd[r].pc = "out"
      /\ rd'[r].pc = "enter" /\ rd'[r].cpu = cpu /\ rd'[r].idx = 0
      /\ \A q \in Reader \ {r} : rd'[q] = rd[q]
      /\ \A q \in Reader : rd[q].cpu # cpu
      /\ per_cpu_ref
    BY <1>1 DEF ReadLock, TypeOK, Outside, PreemptOff
<1>4. TypeOK'
    BY <1>1, <1>2, <1>3 DEF TypeOK
<1>5. RegionInv'
    BY <1>1, <1>3 DEF RegionInv, Outside
<1>6. MutexInv'
    BY <1>1, <1>2 DEF MutexInv
<1>7. FreedInv'
    BY <1>1, <1>2, <1>3 DEF FreedInv, Outside
<1>8. \A q \in Reader : q # r =>
          /\ OldRank(q)' <=> OldRank(q)
          /\ rd[q].cpu \in gp /\ rd[q].cpu # None => rd'[q].cpu \in gp'
    BY <1>1, <1>2, <1>3 DEF OldRank, RegionInv
<1>9. RankInv'
    <2> SUFFICES ASSUME NEW q \in Reader, OldRank(q)'
                 PROVE  \/ Phase = "sync2" /\ (rd'[q].pc = "loaded" => rd'[q].cpu \in gp')
                        \/ Phase = "drain" /\ rd'[q].pc # "loaded"
                        \/ Phase = "sync3" /\ rd'[q].pc = "leave" /\ rd'[q].cpu \in gp'
        BY <1>2 DEF RankInv
    <2>1. CASE q = r
        BY <1>1, <1>2, <1>3, <2>1 DEF RankInv, OldRank, RegionInv
    <2>2. CASE q # r
        BY <1>1, <1>2, <1>3, <1>8, <2>2 DEF RankInv, RegionInv
    <2> QED
        BY <2>1, <2>2
<1>10. OwedInv'
    <2> SUFFICES ASSUME NEW u \in Updater
                 PROVE  /\ \A q \in owed'[u] : rd'[q].pc # "out"
                        /\ up[u].pc = "idle" => owed'[u] = {}
                        /\ HolderOwes(u)'
                        /\ up[u].pc = "wait" => WaiterOwes(u)'
        BY <1>2 DEF OwedInv
    <2>1. owed[u] \subseteq Reader /\ owed'[u] \subseteq owed[u] /\ r \notin owed[u]
        BY <1>1, <1>2, <1>3 DEF TypeOK, OwedInv
    <2>2. \A q \in owed'[u] : rd'[q].pc # "out"
        BY <1>1, <1>3, <2>1 DEF OwedInv
    <2>3. up[u].pc = "idle" => owed'[u] = {}
        BY <1>1, <2>1 DEF OwedInv
    <2>4. ASSUME NEW q \in owed'[u]
          PROVE  /\ up[u].pc = "sync1" => rd'[q].pc \in {"in", "leave"} \/ rd'[q].cpu \in gp'
                 /\ up[u].pc \in {"sync2", "drain"} => rd'[q].pc \in {"in", "leave"} /\ OldRank(q)'
                 /\ up[u].pc = "sync3" => rd'[q].pc = "leave" /\ rd'[q].cpu \in gp'
        <3>1. CASE q = r
            BY <1>1, <1>2, <1>3, <2>1, <3>1 DEF OwedInv, HolderOwes, OldRank, RegionInv
        <3>2. CASE q # r
            BY <1>1, <1>3, <1>8, <2>1, <3>2 DEF OwedInv, HolderOwes, RegionInv
        <3> QED
            BY <3>1, <3>2
    <2>5. HolderOwes(u)'
        BY <1>2, <2>4 DEF HolderOwes
    <2>6. ASSUME up[u].pc = "wait", NEW q \in owed'[u]
          PROVE  /\ Flips(u) # 0 => \/ rd'[q].pc \in {"in", "leave"}
                                    \/ Phase = "sync2" /\ rd'[q].cpu \in gp'
                 /\ Flips(u) \notin {0, 1} =>
                      \/ Phase \in {"sync2", "drain"} /\ rd'[q].pc \in {"in", "leave"} /\ OldRank(q)'
                      \/ Phase = "sync3" /\ rd'[q].pc = "leave" /\ rd'[q].cpu \in gp'
        <3>1. CASE q = r
            BY <1>1, <1>2, <1>3, <2>1, <2>6, <3>1 DEF OwedInv, WaiterOwes, OldRank, RegionInv
        <3>2. CASE q # r
            BY <1>1, <1>3, <1>8, <2>1, <2>6, <3>2 DEF OwedInv, WaiterOwes, RegionInv
        <3> QED
            BY <3>1, <3>2
    <2>7. up[u].pc = "wait" => WaiterOwes(u)'
        BY <1>2, <2>6 DEF WaiterOwes
    <2> QED
        BY <2>2, <2>3, <2>5, <2>7
<1>11. CountInv'
    <2>1. \A i \in {0, 1} : Counted(i)' = Counted(i)
        BY <1>3 DEF Counted
    <2>2. \A u \in Updater : up'[u].pc = "drain" => up'[u] = up[u]
        BY <1>2
    <2> QED
        BY <1>1, <1>2, <2>1, <2>2, CountFrame
<1> QED
    BY <1>4, <1>5, <1>6, <1>7, <1>9, <1>10, <1>11 DEF Inv

\* The load of completed: the rank is the one in use.
LEMMA ReadLockIdxInv ==
    ASSUME Inv, NEW r \in Reader, ReadLockIdx(r)
    PROVE  Inv'
<1> USE SizeAssumption
<1>1. /\ TypeOK /\ RegionInv /\ MutexInv /\ FreedInv /\ RankInv /\ OwedInv /\ CountInv
      /\ rd[r].pc \in {"out", "enter", "loaded", "in", "leave"}
      /\ rd[r].cpu \in Cpu \cup {None} /\ rd[r].idx \in {0, 1}
    BY DEF Inv, TypeOK
<1>2. /\ UNCHANGED <<per_cpu_ref, completed, c, mutex, up, gp, owed>>
      /\ Phase' = Phase
      /\ \A u \in Updater : Flips(u)' = Flips(u)
    BY DEF ReadLockIdx, Phase, Flips
<1>3. /\ rd' \in [Reader -> [pc : {"out", "enter", "loaded", "in", "leave"},
                             cpu : Cpu \cup {None}, idx : {0, 1}]]
      /\ rd[r].pc = "enter"
      /\ rd'[r].pc = "loaded" /\ rd'[r].cpu = rd[r].cpu /\ rd'[r].idx = completed % 2
      /\ \A q \in Reader \ {r} : rd'[q] = rd[q]
    <2>1. completed % 2 \in {0, 1}
        BY <1>1 DEF TypeOK
    <2>2. PICK v : v = [rd[r] EXCEPT !.pc = "loaded", !.idx = completed % 2]
        OBVIOUS
    <2>3. /\ v.pc = "loaded" /\ v.cpu = rd[r].cpu /\ v.idx = completed % 2
          /\ v \in [pc : {"out", "enter", "loaded", "in", "leave"},
                    cpu : Cpu \cup {None}, idx : {0, 1}]
        <3>1. rd[r] \in [pc : {"out", "enter", "loaded", "in", "leave"},
                        cpu : Cpu \cup {None}, idx : {0, 1}]
            BY <1>1 DEF TypeOK
        <3> QED
            BY <2>1, <2>2, <3>1
    <2>4. rd[r].pc = "enter" /\ rd' = [rd EXCEPT ![r] = v]
        BY <2>2 DEF ReadLockIdx
    <2> QED
        BY <1>1, <2>3, <2>4 DEF TypeOK
<1>4. TypeOK'
    BY <1>1, <1>2, <1>3 DEF TypeOK
<1>5. RegionInv'
    BY <1>1, <1>3 DEF RegionInv, Outside
<1>6. MutexInv'
    BY <1>1, <1>2 DEF MutexInv
<1>7. FreedInv'
    BY <1>1, <1>2, <1>3 DEF FreedInv, Outside
<1>8. \A q \in Reader : q # r =>
          /\ OldRank(q)' <=> OldRank(q)
          /\ rd[q].cpu \in gp /\ rd[q].cpu # None => rd'[q].cpu \in gp'
    BY <1>1, <1>2, <1>3 DEF OldRank, RegionInv
<1>9. RankInv'
    <2> SUFFICES ASSUME NEW q \in Reader, OldRank(q)'
                 PROVE  \/ Phase = "sync2" /\ (rd'[q].pc = "loaded" => rd'[q].cpu \in gp')
                        \/ Phase = "drain" /\ rd'[q].pc # "loaded"
                        \/ Phase = "sync3" /\ rd'[q].pc = "leave" /\ rd'[q].cpu \in gp'
        BY <1>2 DEF RankInv
    <2>1. CASE q = r
        BY <1>1, <1>2, <1>3, <2>1 DEF RankInv, OldRank, RegionInv
    <2>2. CASE q # r
        BY <1>1, <1>2, <1>3, <1>8, <2>2 DEF RankInv, RegionInv
    <2> QED
        BY <2>1, <2>2
<1>10. OwedInv'
    <2> SUFFICES ASSUME NEW u \in Updater
                 PROVE  /\ \A q \in owed'[u] : rd'[q].pc # "out"
                        /\ up[u].pc = "idle" => owed'[u] = {}
                        /\ HolderOwes(u)'
                        /\ up[u].pc = "wait" => WaiterOwes(u)'
        BY <1>2 DEF OwedInv
    <2>1. owed[u] \subseteq Reader /\ owed'[u] \subseteq owed[u] 
        BY <1>1, <1>2, <1>3 DEF TypeOK, OwedInv
    <2>2. \A q \in owed'[u] : rd'[q].pc # "out"
        BY <1>1, <1>3, <2>1 DEF OwedInv
    <2>3. up[u].pc = "idle" => owed'[u] = {}
        BY <1>1, <2>1 DEF OwedInv
    <2>4. ASSUME NEW q \in owed'[u]
          PROVE  /\ up[u].pc = "sync1" => rd'[q].pc \in {"in", "leave"} \/ rd'[q].cpu \in gp'
                 /\ up[u].pc \in {"sync2", "drain"} => rd'[q].pc \in {"in", "leave"} /\ OldRank(q)'
                 /\ up[u].pc = "sync3" => rd'[q].pc = "leave" /\ rd'[q].cpu \in gp'
        <3>1. CASE q = r
            BY <1>1, <1>2, <1>3, <2>1, <3>1 DEF OwedInv, HolderOwes, OldRank, RegionInv
        <3>2. CASE q # r
            BY <1>1, <1>3, <1>8, <2>1, <3>2 DEF OwedInv, HolderOwes, RegionInv
        <3> QED
            BY <3>1, <3>2
    <2>5. HolderOwes(u)'
        BY <1>2, <2>4 DEF HolderOwes
    <2>6. ASSUME up[u].pc = "wait", NEW q \in owed'[u]
          PROVE  /\ Flips(u) # 0 => \/ rd'[q].pc \in {"in", "leave"}
                                    \/ Phase = "sync2" /\ rd'[q].cpu \in gp'
                 /\ Flips(u) \notin {0, 1} =>
                      \/ Phase \in {"sync2", "drain"} /\ rd'[q].pc \in {"in", "leave"} /\ OldRank(q)'
                      \/ Phase = "sync3" /\ rd'[q].pc = "leave" /\ rd'[q].cpu \in gp'
        <3>1. CASE q = r
            BY <1>1, <1>2, <1>3, <2>1, <2>6, <3>1 DEF OwedInv, WaiterOwes, OldRank, RegionInv
        <3>2. CASE q # r
            BY <1>1, <1>3, <1>8, <2>1, <2>6, <3>2 DEF OwedInv, WaiterOwes, RegionInv
        <3> QED
            BY <3>1, <3>2
    <2>7. up[u].pc = "wait" => WaiterOwes(u)'
        BY <1>2, <2>6 DEF WaiterOwes
    <2> QED
        BY <2>2, <2>3, <2>5, <2>7
<1>11. CountInv'
    <2>1. \A i \in {0, 1} : Counted(i)' = Counted(i)
        BY <1>3 DEF Counted
    <2>2. \A u \in Updater : up'[u].pc = "drain" => up'[u] = up[u]
        BY <1>2
    <2> QED
        BY <1>1, <1>2, <2>1, <2>2, CountFrame
<1> QED
    BY <1>4, <1>5, <1>6, <1>7, <1>9, <1>10, <1>11 DEF Inv

\* The increment: not into a rank that is being added up, because by then no
\* reader of the old rank has it before it.
LEMMA ReadLockCountInv ==
    ASSUME Inv, NEW r \in Reader, ReadLockCount(r)
    PROVE  Inv'
<1> USE SizeAssumption
<1>1. /\ TypeOK /\ RegionInv /\ MutexInv /\ FreedInv /\ RankInv /\ OwedInv /\ CountInv
      /\ rd[r].pc \in {"out", "enter", "loaded", "in", "leave"}
      /\ rd[r].cpu \in Cpu \cup {None} /\ rd[r].idx \in {0, 1}
    BY DEF Inv, TypeOK
<1>2. /\ UNCHANGED <<per_cpu_ref, completed, mutex, up, owed>>
      /\ Phase' = Phase
      /\ \A u \in Updater : Flips(u)' = Flips(u)
    BY DEF ReadLockCount, Phase, Flips
<1>3. /\ rd' \in [Reader -> [pc : {"out", "enter", "loaded", "in", "leave"},
                             cpu : Cpu \cup {None}, idx : {0, 1}]]
      /\ rd[r].pc = "loaded"
      /\ rd'[r].pc = "in" /\ rd'[r].cpu = None /\ rd'[r].idx = rd[r].idx
      /\ \A q \in Reader \ {r} : rd'[q] = rd[q]
      /\ gp' = gp \ {rd[r].cpu}
      /\ c' = [c EXCEPT ![rd[r].cpu][rd[r].idx] = (@ + 1) % CountMod]
    <2>1. PICK v : v = [rd[r] EXCEPT !.pc = "in", !.cpu = None]
        OBVIOUS
    <2>2. /\ v.pc = "in" /\ v.cpu = None /\ v.idx = rd[r].idx
          /\ v \in [pc : {"out", "enter", "loaded", "in", "leave"},
                    cpu : Cpu \cup {None}, idx : {0, 1}]
        <3>1. rd[r] \in [pc : {"out", "enter", "loaded", "in", "leave"},
                        cpu : Cpu \cup {None}, idx : {0, 1}]
            BY <1>1 DEF TypeOK
        <3> QED
            BY <2>1, <3>1
    <2>3. rd' = [rd EXCEPT ![r] = v]
        BY <2>1 DEF ReadLockCount
    <2>4. /\ rd[r].pc = "loaded"
          /\ gp' = gp \ {rd[r].cpu}
          /\ c' = [c EXCEPT ![rd[r].cpu][rd[r].idx] = (@ + 1) % CountMod]
        BY DEF ReadLockCount, PreemptEnable
    <2> QED
        BY <1>1, <2>2, <2>3, <2>4 DEF TypeOK
<1>4. TypeOK'
    <2>1. \A x \in 0 .. CountMod - 1 : (x + 1) % CountMod \in 0 .. CountMod - 1
        OBVIOUS
    <2>2. rd[r].cpu \in Cpu
        BY <1>1, <1>3 DEF RegionInv
    <2>3. c' \in [Cpu -> [{0, 1} -> 0 .. CountMod - 1]]
        BY <1>1, <1>3, <2>1, <2>2 DEF TypeOK
    <2> QED
        BY <1>1, <1>2, <1>3, <2>3 DEF TypeOK
<1>5. RegionInv'
    BY <1>1, <1>3 DEF RegionInv, Outside
<1>6. MutexInv'
    BY <1>1, <1>2 DEF MutexInv
<1>7. FreedInv'
    BY <1>1, <1>2, <1>3 DEF FreedInv, Outside
<1>8. \A q \in Reader : q # r =>
          /\ OldRank(q)' <=> OldRank(q)
          /\ rd[q].cpu \in gp /\ rd[q].cpu # None => rd'[q].cpu \in gp'
    BY <1>1, <1>2, <1>3 DEF OldRank, RegionInv
<1>9. RankInv'
    <2> SUFFICES ASSUME NEW q \in Reader, OldRank(q)'
                 PROVE  \/ Phase = "sync2" /\ (rd'[q].pc = "loaded" => rd'[q].cpu \in gp')
                        \/ Phase = "drain" /\ rd'[q].pc # "loaded"
                        \/ Phase = "sync3" /\ rd'[q].pc = "leave" /\ rd'[q].cpu \in gp'
        BY <1>2 DEF RankInv
    <2>1. CASE q = r
        BY <1>1, <1>2, <1>3, <2>1 DEF RankInv, OldRank, RegionInv
    <2>2. CASE q # r
        BY <1>1, <1>2, <1>3, <1>8, <2>2 DEF RankInv, RegionInv
    <2> QED
        BY <2>1, <2>2
<1>10. OwedInv'
    <2> SUFFICES ASSUME NEW u \in Updater
                 PROVE  /\ \A q \in owed'[u] : rd'[q].pc # "out"
                        /\ up[u].pc = "idle" => owed'[u] = {}
                        /\ HolderOwes(u)'
                        /\ up[u].pc = "wait" => WaiterOwes(u)'
        BY <1>2 DEF OwedInv
    <2>1. owed[u] \subseteq Reader /\ owed'[u] \subseteq owed[u] 
        BY <1>1, <1>2, <1>3 DEF TypeOK, OwedInv
    <2>2. \A q \in owed'[u] : rd'[q].pc # "out"
        BY <1>1, <1>3, <2>1 DEF OwedInv
    <2>3. up[u].pc = "idle" => owed'[u] = {}
        BY <1>1, <2>1 DEF OwedInv
    <2>4. ASSUME NEW q \in owed'[u]
          PROVE  /\ up[u].pc = "sync1" => rd'[q].pc \in {"in", "leave"} \/ rd'[q].cpu \in gp'
                 /\ up[u].pc \in {"sync2", "drain"} => rd'[q].pc \in {"in", "leave"} /\ OldRank(q)'
                 /\ up[u].pc = "sync3" => rd'[q].pc = "leave" /\ rd'[q].cpu \in gp'
        <3>1. CASE q = r
            BY <1>1, <1>2, <1>3, <2>1, <3>1 DEF OwedInv, HolderOwes, OldRank, RegionInv
        <3>2. CASE q # r
            BY <1>1, <1>3, <1>8, <2>1, <3>2 DEF OwedInv, HolderOwes, RegionInv
        <3> QED
            BY <3>1, <3>2
    <2>5. HolderOwes(u)'
        BY <1>2, <2>4 DEF HolderOwes
    <2>6. ASSUME up[u].pc = "wait", NEW q \in owed'[u]
          PROVE  /\ Flips(u) # 0 => \/ rd'[q].pc \in {"in", "leave"}
                                    \/ Phase = "sync2" /\ rd'[q].cpu \in gp'
                 /\ Flips(u) \notin {0, 1} =>
                      \/ Phase \in {"sync2", "drain"} /\ rd'[q].pc \in {"in", "leave"} /\ OldRank(q)'
                      \/ Phase = "sync3" /\ rd'[q].pc = "leave" /\ rd'[q].cpu \in gp'
        <3>1. CASE q = r
            BY <1>1, <1>2, <1>3, <2>1, <2>6, <3>1 DEF OwedInv, WaiterOwes, OldRank, RegionInv
        <3>2. CASE q # r
            BY <1>1, <1>3, <1>8, <2>1, <2>6, <3>2 DEF OwedInv, WaiterOwes, RegionInv
        <3> QED
            BY <3>1, <3>2
    <2>7. up[u].pc = "wait" => WaiterOwes(u)'
        BY <1>2, <2>6 DEF WaiterOwes
    <2> QED
        BY <2>2, <2>3, <2>5, <2>7
<1>11. CountInv'
    <2>1. PICK j \in {0, 1}, cpu \in Cpu : j = rd[r].idx /\ cpu = rd[r].cpu
        BY <1>1, <1>3 DEF RegionInv
    <2>2. c' = [c EXCEPT ![cpu][j] = (@ + 1) % CountMod]
        BY <1>3, <2>1
    <2>3. ASSUME NEW i \in {0, 1}, i # j
          PROVE  \E s : /\ Sums(i, s)'
                        /\ \A u \in Updater : up'[u].pc = "drain" /\ up'[u].idx = i => ReadSoFar(u, s)'
        <3>1. Counted(i)' = Counted(i)
            BY <1>3, <2>1, <2>3 DEF Counted
        <3> QED
            BY <1>1, <1>2, <2>2, <2>3, <3>1, OtherRank
    <2>4. \E s : /\ Sums(j, s)'
                 /\ \A u \in Updater : up'[u].pc = "drain" /\ up'[u].idx = j => ReadSoFar(u, s)'
        <3>1. PICK s : /\ Sums(j, s)
                       /\ \A u \in Updater : up[u].pc = "drain" /\ up[u].idx = j => ReadSoFar(u, s)
            BY <1>1 DEF CountInv
        <3>2. PICK s2 : s2 = [k \in 0 .. NCpu |-> IF k >= cpu THEN s[k] + 1 ELSE s[k]]
            OBVIOUS
        <3>3. 1 \in Int
            OBVIOUS
        <3>4. Counted(j)' = Counted(j) \cup {r} /\ r \notin Counted(j)
            BY <1>1, <1>3, <2>1 DEF Counted
        <3>5. Cardinality(Counted(j)') = Cardinality(Counted(j)) + 1
            BY <3>4, CountedSize, FS_AddElement
        <3>6. Sums(j, s2)'
            BY <1>1, <2>2, <3>1, <3>5, <3>2, <3>3, SumsAt
        <3>7. ASSUME NEW u \in Updater, up'[u].pc = "drain", up'[u].idx = j PROVE FALSE
            <4>1. mutex = u /\ j # completed % 2
                BY <1>1, <1>2, <3>7 DEF MutexInv, Syncing
            <4>2. Phase = "drain"
                BY <1>2, <3>7, <4>1 DEF Phase
            <4>3. OldRank(r)
                BY <1>3, <2>1, <4>1 DEF OldRank
            <4> QED
                BY <1>1, <1>3, <4>2, <4>3 DEF RankInv
        <3> QED
            BY <3>6, <3>7
    <2> QED
        BY <2>3, <2>4 DEF CountInv
<1> QED
    BY <1>4, <1>5, <1>6, <1>7, <1>9, <1>10, <1>11 DEF Inv

\* The decrement, perhaps on a CPU whose counter has been added up already.
LEMMA ReadUnlockInv ==
    ASSUME Inv, NEW r \in Reader, NEW cpu \in Cpu, ReadUnlock(r, cpu)
    PROVE  Inv'
<1> USE SizeAssumption
<1>1. /\ TypeOK /\ RegionInv /\ MutexInv /\ FreedInv /\ RankInv /\ OwedInv /\ CountInv
      /\ rd[r].pc \in {"out", "enter", "loaded", "in", "leave"}
      /\ rd[r].cpu \in Cpu \cup {None} /\ rd[r].idx \in {0, 1}
    BY DEF Inv, TypeOK
<1>2. /\ UNCHANGED <<per_cpu_ref, completed, mutex, up, gp, owed>>
      /\ Phase' = Phase
      /\ \A u \in Updater : Flips(u)' = Flips(u)
    BY DEF ReadUnlock, Phase, Flips
<1>3. /\ rd' \in [Reader -> [pc : {"out", "enter", "loaded", "in", "leave"},
                             cpu : Cpu \cup {None}, idx : {0, 1}]]
      /\ rd[r].pc = "in"
      /\ rd'[r].pc = "leave" /\ rd'[r].cpu = cpu /\ rd'[r].idx = rd[r].idx
      /\ \A q \in Reader \ {r} : rd'[q] = rd[q]
      /\ \A q \in Reader : rd[q].cpu # cpu
      /\ c' = [c EXCEPT ![cpu][rd[r].idx] = (@ - 1) % CountMod]
    BY <1>1 DEF ReadUnlock, TypeOK, PreemptOff
<1>4. TypeOK'
    BY <1>1, <1>2, <1>3 DEF TypeOK
<1>5. RegionInv'
    BY <1>1, <1>3 DEF RegionInv, Outside
<1>6. MutexInv'
    BY <1>1, <1>2 DEF MutexInv
<1>7. FreedInv'
    BY <1>1, <1>2, <1>3 DEF FreedInv, Outside
<1>8. \A q \in Reader : q # r =>
          /\ OldRank(q)' <=> OldRank(q)
          /\ rd[q].cpu \in gp /\ rd[q].cpu # None => rd'[q].cpu \in gp'
    BY <1>1, <1>2, <1>3 DEF OldRank, RegionInv
<1>9. RankInv'
    <2> SUFFICES ASSUME NEW q \in Reader, OldRank(q)'
                 PROVE  \/ Phase = "sync2" /\ (rd'[q].pc = "loaded" => rd'[q].cpu \in gp')
                        \/ Phase = "drain" /\ rd'[q].pc # "loaded"
                        \/ Phase = "sync3" /\ rd'[q].pc = "leave" /\ rd'[q].cpu \in gp'
        BY <1>2 DEF RankInv
    <2>1. CASE q = r
        BY <1>1, <1>2, <1>3, <2>1 DEF RankInv, OldRank, RegionInv
    <2>2. CASE q # r
        BY <1>1, <1>2, <1>3, <1>8, <2>2 DEF RankInv, RegionInv
    <2> QED
        BY <2>1, <2>2
<1>10. OwedInv'
    <2> SUFFICES ASSUME NEW u \in Updater
                 PROVE  /\ \A q \in owed'[u] : rd'[q].pc # "out"
                        /\ up[u].pc = "idle" => owed'[u] = {}
                        /\ HolderOwes(u)'
                        /\ up[u].pc = "wait" => WaiterOwes(u)'
        BY <1>2 DEF OwedInv
    <2>1. owed[u] \subseteq Reader /\ owed'[u] \subseteq owed[u] 
        BY <1>1, <1>2, <1>3 DEF TypeOK, OwedInv
    <2>2. \A q \in owed'[u] : rd'[q].pc # "out"
        BY <1>1, <1>3, <2>1 DEF OwedInv
    <2>3. up[u].pc = "idle" => owed'[u] = {}
        BY <1>1, <2>1 DEF OwedInv
    <2>4. ASSUME NEW q \in owed'[u]
          PROVE  /\ up[u].pc = "sync1" => rd'[q].pc \in {"in", "leave"} \/ rd'[q].cpu \in gp'
                 /\ up[u].pc \in {"sync2", "drain"} => rd'[q].pc \in {"in", "leave"} /\ OldRank(q)'
                 /\ up[u].pc = "sync3" => rd'[q].pc = "leave" /\ rd'[q].cpu \in gp'
        <3>1. CASE q = r
            BY <1>1, <1>2, <1>3, <2>1, <3>1 DEF OwedInv, HolderOwes, OldRank, RegionInv
        <3>2. CASE q # r
            BY <1>1, <1>3, <1>8, <2>1, <3>2 DEF OwedInv, HolderOwes, RegionInv
        <3> QED
            BY <3>1, <3>2
    <2>5. HolderOwes(u)'
        BY <1>2, <2>4 DEF HolderOwes
    <2>6. ASSUME up[u].pc = "wait", NEW q \in owed'[u]
          PROVE  /\ Flips(u) # 0 => \/ rd'[q].pc \in {"in", "leave"}
                                    \/ Phase = "sync2" /\ rd'[q].cpu \in gp'
                 /\ Flips(u) \notin {0, 1} =>
                      \/ Phase \in {"sync2", "drain"} /\ rd'[q].pc \in {"in", "leave"} /\ OldRank(q)'
                      \/ Phase = "sync3" /\ rd'[q].pc = "leave" /\ rd'[q].cpu \in gp'
        <3>1. CASE q = r
            BY <1>1, <1>2, <1>3, <2>1, <2>6, <3>1 DEF OwedInv, WaiterOwes, OldRank, RegionInv
        <3>2. CASE q # r
            BY <1>1, <1>3, <1>8, <2>1, <2>6, <3>2 DEF OwedInv, WaiterOwes, RegionInv
        <3> QED
            BY <3>1, <3>2
    <2>7. up[u].pc = "wait" => WaiterOwes(u)'
        BY <1>2, <2>6 DEF WaiterOwes
    <2> QED
        BY <2>2, <2>3, <2>5, <2>7
<1>11. CountInv'
    <2>1. PICK j \in {0, 1} : j = rd[r].idx
        BY <1>1
    <2>2. c' = [c EXCEPT ![cpu][j] = (@ + (-1)) % CountMod]
        <3>1. c[cpu][j] - 1 = c[cpu][j] + (-1)
            BY <1>1, <2>1 DEF TypeOK
        <3> QED
            BY <1>3, <2>1, <3>1
    <2>3. ASSUME NEW i \in {0, 1}, i # j
          PROVE  \E s : /\ Sums(i, s)'
                        /\ \A u \in Updater : up'[u].pc = "drain" /\ up'[u].idx = i => ReadSoFar(u, s)'
        <3>1. Counted(i)' = Counted(i)
            BY <1>3, <2>1, <2>3 DEF Counted
        <3> QED
            BY <1>1, <1>2, <2>2, <2>3, <3>1, OtherRank
    <2>4. \E s : /\ Sums(j, s)'
                 /\ \A u \in Updater : up'[u].pc = "drain" /\ up'[u].idx = j => ReadSoFar(u, s)'
        <3>1. PICK s : /\ Sums(j, s)
                       /\ \A u \in Updater : up[u].pc = "drain" /\ up[u].idx = j => ReadSoFar(u, s)
            BY <1>1 DEF CountInv
        <3>2. PICK s2 : s2 = [k \in 0 .. NCpu |-> IF k >= cpu THEN s[k] + (-1) ELSE s[k]]
            OBVIOUS
        <3>3. -1 \in Int
            OBVIOUS
        <3>4. Counted(j)' = Counted(j) \ {r} /\ r \in Counted(j)
            BY <1>1, <1>3, <2>1 DEF Counted
        <3>5. Cardinality(Counted(j)') = Cardinality(Counted(j)) + (-1)
            <4>1. Cardinality(Counted(j) \ {r}) = Cardinality(Counted(j)) - 1
                BY <3>4, CountedSize, FS_RemoveElement
            <4> QED
                BY <3>4, <4>1, CountedSize
        <3>6. Sums(j, s2)'
            BY <1>1, <2>2, <3>1, <3>5, <3>2, <3>3, SumsAt
        <3>7. ASSUME NEW u \in Updater, up'[u].pc = "drain", up'[u].idx = j PROVE ReadSoFar(u, s2)'
            <4>1. PICK d \in Nat : /\ Cardinality(Counted(j)) + d <= Cardinality(Reader)
                                   /\ up[u].sum = (s[up[u].next - 1] + d) % CountMod
                BY <1>2, <3>1, <3>7 DEF ReadSoFar
            <4>2. PICK n \in 0 .. NCpu : n = up[u].next - 1 /\ s[n] \in Int
                <5>1. up[u].next - 1 \in 0 .. NCpu
                    <6>1. up[u].next \in Cpu
                        BY <1>1 DEF TypeOK
                    <6> QED
                        BY <6>1 DEF Cpu
                <5>2. s \in [0 .. NCpu -> Int]
                    BY <3>1 DEF Sums
                <5> QED
                    BY <5>1, <5>2
            <4>3. CASE n >= cpu
                <5>1. s2[n] + (d + 1) = s[n] + d
                    <6>1. s2[n] = s[n] + (-1)
                        BY <3>2, <4>2, <4>3
                    <6> QED
                        BY <4>2, <6>1
                <5>2. d + 1 \in Nat /\ Cardinality(Counted(j)') + (d + 1) <= Cardinality(Reader)
                    BY <3>5, <4>1, CountedSize
                <5> QED
                    BY <1>2, <3>7, <4>1, <4>2, <5>1, <5>2 DEF ReadSoFar
            <4>4. CASE ~(n >= cpu)
                <5>1. s2[n] = s[n]
                    BY <3>2, <4>2, <4>4
                <5>2. Cardinality(Counted(j)') + d <= Cardinality(Reader)
                    BY <3>5, <4>1, CountedSize
                <5> QED
                    BY <1>2, <3>7, <4>1, <4>2, <5>1, <5>2 DEF ReadSoFar
            <4> QED
                BY <4>3, <4>4
        <3> QED
            BY <3>6, <3>7
    <2> QED
        BY <2>3, <2>4 DEF CountInv
<1> QED
    BY <1>4, <1>5, <1>6, <1>7, <1>9, <1>10, <1>11 DEF Inv

\* The end of srcu_read_unlock(): nobody has to wait for the reader any more.
LEMMA ReadUnlockDoneInv ==
    ASSUME Inv, NEW r \in Reader, ReadUnlockDone(r)
    PROVE  Inv'
<1> USE SizeAssumption
<1>1. /\ TypeOK /\ RegionInv /\ MutexInv /\ FreedInv /\ RankInv /\ OwedInv /\ CountInv
      /\ rd[r].pc \in {"out", "enter", "loaded", "in", "leave"}
      /\ rd[r].cpu \in Cpu \cup {None} /\ rd[r].idx \in {0, 1}
    BY DEF Inv, TypeOK
<1>2. /\ UNCHANGED <<per_cpu_ref, completed, c, mutex, up>>
      /\ Phase' = Phase
      /\ \A u \in Updater : Flips(u)' = Flips(u)
    BY DEF ReadUnlockDone, Phase, Flips
<1>3. /\ rd' \in [Reader -> [pc : {"out", "enter", "loaded", "in", "leave"},
                             cpu : Cpu \cup {None}, idx : {0, 1}]]
      /\ rd[r].pc = "leave"
      /\ rd'[r].pc = "out" /\ rd'[r].cpu = None /\ rd'[r].idx = 0
      /\ \A q \in Reader \ {r} : rd'[q] = rd[q]
      /\ gp' = gp \ {rd[r].cpu}
      /\ owed' = [u \in Updater |-> owed[u] \ {r}]
      /\ rd'[r] = Outside
    BY <1>1 DEF ReadUnlockDone, TypeOK, Outside, PreemptEnable
<1>4. TypeOK'
    BY <1>1, <1>2, <1>3 DEF TypeOK
<1>5. RegionInv'
    BY <1>1, <1>3 DEF RegionInv, Outside
<1>6. MutexInv'
    BY <1>1, <1>2 DEF MutexInv
<1>7. FreedInv'
    BY <1>1, <1>2, <1>3 DEF FreedInv, Outside
<1>8. \A q \in Reader : q # r =>
          /\ OldRank(q)' <=> OldRank(q)
          /\ rd[q].cpu \in gp /\ rd[q].cpu # None => rd'[q].cpu \in gp'
    BY <1>1, <1>2, <1>3 DEF OldRank, RegionInv
<1>9. RankInv'
    <2> SUFFICES ASSUME NEW q \in Reader, OldRank(q)'
                 PROVE  \/ Phase = "sync2" /\ (rd'[q].pc = "loaded" => rd'[q].cpu \in gp')
                        \/ Phase = "drain" /\ rd'[q].pc # "loaded"
                        \/ Phase = "sync3" /\ rd'[q].pc = "leave" /\ rd'[q].cpu \in gp'
        BY <1>2 DEF RankInv
    <2>1. CASE q = r
        BY <1>1, <1>2, <1>3, <2>1 DEF RankInv, OldRank, RegionInv
    <2>2. CASE q # r
        BY <1>1, <1>2, <1>3, <1>8, <2>2 DEF RankInv, RegionInv
    <2> QED
        BY <2>1, <2>2
<1>10. OwedInv'
    <2> SUFFICES ASSUME NEW u \in Updater
                 PROVE  /\ \A q \in owed'[u] : rd'[q].pc # "out"
                        /\ up[u].pc = "idle" => owed'[u] = {}
                        /\ HolderOwes(u)'
                        /\ up[u].pc = "wait" => WaiterOwes(u)'
        BY <1>2 DEF OwedInv
    <2>1. owed[u] \subseteq Reader /\ owed'[u] \subseteq owed[u] /\ r \notin owed'[u]
        BY <1>1, <1>2, <1>3 DEF TypeOK, OwedInv
    <2>2. \A q \in owed'[u] : rd'[q].pc # "out"
        BY <1>1, <1>3, <2>1 DEF OwedInv
    <2>3. up[u].pc = "idle" => owed'[u] = {}
        BY <1>1, <2>1 DEF OwedInv
    <2>4. ASSUME NEW q \in owed'[u]
          PROVE  /\ up[u].pc = "sync1" => rd'[q].pc \in {"in", "leave"} \/ rd'[q].cpu \in gp'
                 /\ up[u].pc \in {"sync2", "drain"} => rd'[q].pc \in {"in", "leave"} /\ OldRank(q)'
                 /\ up[u].pc = "sync3" => rd'[q].pc = "leave" /\ rd'[q].cpu \in gp'
        <3>1. CASE q = r
            BY <1>1, <1>2, <1>3, <2>1, <3>1 DEF OwedInv, HolderOwes, OldRank, RegionInv
        <3>2. CASE q # r
            BY <1>1, <1>3, <1>8, <2>1, <3>2 DEF OwedInv, HolderOwes, RegionInv
        <3> QED
            BY <3>1, <3>2
    <2>5. HolderOwes(u)'
        BY <1>2, <2>4 DEF HolderOwes
    <2>6. ASSUME up[u].pc = "wait", NEW q \in owed'[u]
          PROVE  /\ Flips(u) # 0 => \/ rd'[q].pc \in {"in", "leave"}
                                    \/ Phase = "sync2" /\ rd'[q].cpu \in gp'
                 /\ Flips(u) \notin {0, 1} =>
                      \/ Phase \in {"sync2", "drain"} /\ rd'[q].pc \in {"in", "leave"} /\ OldRank(q)'
                      \/ Phase = "sync3" /\ rd'[q].pc = "leave" /\ rd'[q].cpu \in gp'
        <3>1. CASE q = r
            BY <1>1, <1>2, <1>3, <2>1, <2>6, <3>1 DEF OwedInv, WaiterOwes, OldRank, RegionInv
        <3>2. CASE q # r
            BY <1>1, <1>3, <1>8, <2>1, <2>6, <3>2 DEF OwedInv, WaiterOwes, RegionInv
        <3> QED
            BY <3>1, <3>2
    <2>7. up[u].pc = "wait" => WaiterOwes(u)'
        BY <1>2, <2>6 DEF WaiterOwes
    <2> QED
        BY <2>2, <2>3, <2>5, <2>7
<1>11. CountInv'
    <2>1. \A i \in {0, 1} : Counted(i)' = Counted(i)
        BY <1>3 DEF Counted
    <2>2. \A u \in Updater : up'[u].pc = "drain" => up'[u] = up[u]
        BY <1>2
    <2> QED
        BY <1>1, <1>2, <2>1, <2>2, CountFrame
<1> QED
    BY <1>4, <1>5, <1>6, <1>7, <1>9, <1>10, <1>11 DEF Inv

\* The call: the caller notes completed, and who is in a critical section.
LEMMA SynchronizeInv ==
    ASSUME Inv, NEW u \in Updater, Synchronize(u)
    PROVE  Inv'
<1> USE SizeAssumption
<1>1. /\ TypeOK /\ RegionInv /\ MutexInv /\ FreedInv /\ RankInv /\ OwedInv /\ CountInv
      /\ up[u] \in [pc : {"idle", "wait", "sync1", "sync2", "drain", "sync3"},
                    idx : 0 .. IntMod - 1, next : Cpu, sum : 0 .. CountMod - 1]
    BY DEF Inv, TypeOK
<1>2. /\ UNCHANGED <<per_cpu_ref, completed, c, mutex, rd, gp>>
      /\ per_cpu_ref /\ up[u] = Idle
      /\ up'[u].pc = "wait" /\ up'[u].idx = completed
      /\ up' \in [Updater -> [pc : {"idle", "wait", "sync1", "sync2", "drain", "sync3"},
                              idx : 0 .. IntMod - 1, next : Cpu, sum : 0 .. CountMod - 1]]
      /\ \A w \in Updater \ {u} : up'[w] = up[w] /\ owed'[w] = owed[w]
      /\ owed'[u] = {r \in Reader : rd[r].pc # "out"}
      /\ owed' \in [Updater -> SUBSET Reader]
    <2>1. PICK v : v = [up[u] EXCEPT !.pc = "wait", !.idx = completed]
        OBVIOUS
    <2>2. /\ v.pc = "wait" /\ v.idx = completed
          /\ v \in [pc : {"idle", "wait", "sync1", "sync2", "drain", "sync3"},
                    idx : 0 .. IntMod - 1, next : Cpu, sum : 0 .. CountMod - 1]
        BY <1>1, <2>1 DEF TypeOK
    <2>3. up' = [up EXCEPT ![u] = v]
        BY <2>1 DEF Synchronize
    <2>4. /\ UNCHANGED <<per_cpu_ref, completed, c, mutex, rd, gp>>
          /\ per_cpu_ref /\ up[u] = Idle
          /\ owed' = [owed EXCEPT ![u] = {r \in Reader : rd[r].pc # "out"}]
        BY DEF Synchronize
    <2> QED
        BY <1>1, <2>2, <2>3, <2>4 DEF TypeOK
<1>3. Phase' = Phase
    <2>1. mutex # u
        BY <1>1, <1>2 DEF MutexInv, Syncing, Idle
    <2>2. mutex \in Updater \cup {None}
        BY <1>1 DEF TypeOK
    <2> QED
        BY <1>2, <2>1, <2>2 DEF Phase
<1>4. /\ \A w \in Updater \ {u} : Flips(w)' = Flips(w)
      /\ Flips(u)' = 0
    <2>1. completed - completed = 0 /\ 0 % IntMod = 0
        BY <1>1 DEF TypeOK
    <2> QED
        BY <1>2, <2>1 DEF Flips
<1>5. TypeOK'
    BY <1>1, <1>2 DEF TypeOK
<1>6. RegionInv' /\ FreedInv'
    BY <1>1, <1>2 DEF RegionInv, FreedInv
<1>7. MutexInv'
    BY <1>1, <1>2 DEF MutexInv, Syncing, Idle
<1>8. \A r \in Reader : OldRank(r)' <=> OldRank(r)
    BY <1>2 DEF OldRank
<1>9. RankInv'
    BY <1>1, <1>2, <1>3, <1>8 DEF RankInv
<1>10. OwedInv'
    <2> SUFFICES ASSUME NEW w \in Updater
                 PROVE  /\ \A r \in owed'[w] : rd[r].pc # "out"
                        /\ up'[w].pc = "idle" => owed'[w] = {}
                        /\ HolderOwes(w)'
                        /\ up'[w].pc = "wait" => WaiterOwes(w)'
        BY <1>2 DEF OwedInv
    <2>1. CASE w = u
        BY <1>2, <1>4, <2>1 DEF HolderOwes, WaiterOwes
    <2>2. CASE w # u
        <3>1. owed[w] \subseteq Reader
            BY <1>1 DEF TypeOK
        <3> QED
            BY <1>1, <1>2, <1>3, <1>4, <1>8, <2>2, <3>1 DEF OwedInv, HolderOwes, WaiterOwes
    <2> QED
        BY <2>1, <2>2
<1>11. CountInv'
    <2>1. \A i \in {0, 1} : Counted(i)' = Counted(i)
        BY <1>2 DEF Counted
    <2>2. \A w \in Updater : up'[w].pc = "drain" => up'[w] = up[w]
        BY <1>2
    <2> QED
        BY <1>1, <1>2, <2>1, <2>2, CountFrame
<1> QED
    BY <1>5, <1>6, <1>7, <1>9, <1>10, <1>11 DEF Inv

\* With the mutex: two flips are two grace periods, which is why the early exit
\* owes nobody; otherwise the first sync_func() waits for the regions that run.
LEMMA SynchronizeLockedInv ==
    ASSUME Inv, NEW u \in Updater, SynchronizeLocked(u)
    PROVE  Inv'
<1> USE SizeAssumption
<1>1. /\ TypeOK /\ RegionInv /\ MutexInv /\ FreedInv /\ RankInv /\ OwedInv /\ CountInv
      /\ up[u] \in [pc : {"idle", "wait", "sync1", "sync2", "drain", "sync3"},
                    idx : 0 .. IntMod - 1, next : Cpu, sum : 0 .. CountMod - 1]
    BY DEF Inv, TypeOK
<1>2. /\ UNCHANGED <<per_cpu_ref, completed, c, rd, owed>>
      /\ up[u].pc = "wait" /\ mutex = None /\ Phase = "none"
    BY DEF SynchronizeLocked, Phase
<1>3. \A r \in Reader : ~OldRank(r)
    BY <1>1, <1>2 DEF RankInv
<1>4. RegionInv' /\ FreedInv' /\ \A r \in Reader : ~OldRank(r)'
    BY <1>1, <1>2, <1>3 DEF RegionInv, FreedInv, OldRank, Idle
<1>5. \A w \in Updater : owed[w] \subseteq Reader
    BY <1>1 DEF TypeOK
<1>6. RankInv'
    BY <1>4 DEF RankInv
<1>7. CASE Signed(completed - up[u].idx) >= 2
    <2>1. /\ up' = [up EXCEPT ![u] = Idle]
          /\ UNCHANGED <<mutex, gp>>
        BY <1>7 DEF SynchronizeLocked
    <2>2. TypeOK'
        <3>1. 0 \in 0 .. IntMod - 1 /\ 1 \in Cpu /\ 0 \in 0 .. CountMod - 1
            BY DEF Cpu
        <3>2. up' \in [Updater -> [pc : {"idle", "wait", "sync1", "sync2", "drain", "sync3"},
                                  idx : 0 .. IntMod - 1, next : Cpu, sum : 0 .. CountMod - 1]]
            BY <1>1, <2>1, <3>1 DEF TypeOK, Idle
        <3> QED
            BY <1>1, <1>2, <2>1, <3>2 DEF TypeOK
    <2>3. MutexInv'
        BY <1>1, <1>2, <2>1 DEF MutexInv, Syncing, Idle, TypeOK
    <2>4. Phase' = Phase
        BY <1>2, <2>1 DEF Phase
    <2>5. Flips(u) \notin {0, 1}
        BY <1>1, <1>7 DEF Flips, Signed, TypeOK
    <2>6. owed[u] = {}
        BY <1>1, <1>2, <2>5 DEF OwedInv, WaiterOwes
    <2>7. OwedInv'
        <3> SUFFICES ASSUME NEW w \in Updater
                     PROVE  /\ \A r \in owed[w] : rd[r].pc # "out"
                            /\ up'[w].pc = "idle" => owed[w] = {}
                            /\ HolderOwes(w)'
                            /\ up'[w].pc = "wait" => WaiterOwes(w)'
            BY <1>2 DEF OwedInv
        <3>1. CASE w = u
            BY <1>1, <1>2, <2>1, <2>6, <3>1 DEF HolderOwes, Idle, TypeOK
        <3>2. CASE w # u
            <4>1. up'[w] = up[w] /\ Flips(w)' = Flips(w)
                BY <1>1, <1>2, <2>1, <3>2 DEF TypeOK, Flips
            <4>2. up[w].pc \notin Syncing
                BY <1>1, <1>2 DEF MutexInv
            <4> QED
                BY <1>1, <1>2, <2>1, <2>4, <4>1, <4>2 DEF OwedInv, HolderOwes, WaiterOwes, Syncing
        <3> QED
            BY <3>1, <3>2
    <2>8. CountInv'
        <3>1. \A i \in {0, 1} : Counted(i)' = Counted(i)
            BY <1>2 DEF Counted
        <3>2. \A w \in Updater : up'[w].pc = "drain" => up'[w] = up[w]
            BY <1>1, <2>1 DEF TypeOK, Idle
        <3> QED
            BY <1>1, <1>2, <3>1, <3>2, CountFrame
    <2> QED
        BY <1>4, <1>6, <2>2, <2>3, <2>7, <2>8 DEF Inv
<1>8. CASE ~(Signed(completed - up[u].idx) >= 2)
    <2>1. /\ mutex' = u /\ gp' = PreemptOff
          /\ up' = [up EXCEPT ![u] = [pc |-> "sync1", idx |-> 0, next |-> 1, sum |-> 0]]
        BY <1>8 DEF SynchronizeLocked, SyncFunc
    <2>2. /\ up'[u].pc = "sync1" /\ Phase' = "sync1"
          /\ \A w \in Updater \ {u} : up'[w] = up[w] /\ Flips(w)' = Flips(w)
        BY <1>1, <1>2, <2>1 DEF TypeOK, Phase, Flips
    <2>3. PreemptOff \subseteq Cpu /\ \A r \in Reader : rd[r].cpu # None => rd[r].cpu \in PreemptOff
        BY <1>1 DEF TypeOK, PreemptOff
    <2>4. TypeOK'
        <3>1. 0 \in 0 .. IntMod - 1 /\ 1 \in Cpu /\ 0 \in 0 .. CountMod - 1
            BY DEF Cpu
        <3>2. up' \in [Updater -> [pc : {"idle", "wait", "sync1", "sync2", "drain", "sync3"},
                                  idx : 0 .. IntMod - 1, next : Cpu, sum : 0 .. CountMod - 1]]
            BY <1>1, <2>1, <3>1 DEF TypeOK
        <3> QED
            BY <1>1, <1>2, <2>1, <2>3, <3>2 DEF TypeOK
    <2>5. MutexInv'
        BY <1>1, <1>2, <2>1, <2>2 DEF MutexInv, Syncing
    <2>6. FreedInv'
        BY <1>1, <1>2 DEF FreedInv, Idle
    <2>7. OwedInv'
        <3> SUFFICES ASSUME NEW w \in Updater
                     PROVE  /\ \A r \in owed[w] : rd[r].pc # "out"
                            /\ up'[w].pc = "idle" => owed[w] = {}
                            /\ HolderOwes(w)'
                            /\ up'[w].pc = "wait" => WaiterOwes(w)'
            BY <1>2 DEF OwedInv
        <3>1. CASE w = u
            BY <1>1, <1>2, <1>5, <2>1, <2>2, <2>3, <3>1 DEF OwedInv, HolderOwes, RegionInv
        <3>2. CASE w # u
            <4>1. up[w].pc \notin Syncing
                BY <1>1, <1>2 DEF MutexInv
            <4> QED
                BY <1>1, <1>2, <2>2, <3>2, <4>1 DEF OwedInv, HolderOwes, WaiterOwes, Syncing
        <3> QED
            BY <3>1, <3>2
    <2>8. CountInv'
        <3>1. \A i \in {0, 1} : Counted(i)' = Counted(i)
            BY <1>2 DEF Counted
        <3>2. \A w \in Updater : up'[w].pc = "drain" => up'[w] = up[w]
            BY <2>2
        <3> QED
            BY <1>1, <1>2, <3>1, <3>2, CountFrame
    <2> QED
        BY <1>4, <1>6, <2>4, <2>5, <2>6, <2>7, <2>8 DEF Inv
<1> QED
    BY <1>7, <1>8

\* The flip: every reader that is counted, or about to be, is of the old rank
\* now, and those about to be have a CPU the second sync_func() waits for.
LEMMA FlipInv ==
    ASSUME Inv, NEW u \in Updater, Flip(u)
    PROVE  Inv'
<1> USE SizeAssumption
<1>1. /\ TypeOK /\ RegionInv /\ MutexInv /\ FreedInv /\ RankInv /\ OwedInv /\ CountInv
      /\ up[u] \in [pc : {"idle", "wait", "sync1", "sync2", "drain", "sync3"},
                    idx : 0 .. IntMod - 1, next : Cpu, sum : 0 .. CountMod - 1]
    BY DEF Inv, TypeOK
<1>2. /\ UNCHANGED <<per_cpu_ref, c, mutex, rd, owed>>
      /\ up[u].pc = "sync1" /\ gp = {} /\ mutex = u /\ Phase = "sync1"
      /\ completed' = (completed + 1) % IntMod /\ gp' = PreemptOff
      /\ up' = [up EXCEPT ![u] = [pc |-> "sync2", idx |-> completed % 2, next |-> 1, sum |-> 0]]
    BY <1>1 DEF Flip, SyncFunc, MutexInv, Syncing, Phase
<1>3. /\ completed \in 0 .. IntMod - 1 /\ completed' \in 0 .. IntMod - 1
      /\ completed % 2 \in {0, 1} /\ completed' % 2 \in {0, 1}
      /\ completed' % 2 # completed % 2
      /\ completed % 2 \in 0 .. IntMod - 1
    <2>1. PICK a \in 0 .. IntMod - 1 : a = completed
        BY <1>1 DEF TypeOK
    <2>2. (a + 1) % IntMod \in 0 .. IntMod - 1 /\ ((a + 1) % IntMod) % 2 # a % 2
        BY FlipRank
    <2>3. \A x \in 0 .. IntMod - 1 : x % 2 \in {0, 1} /\ x % 2 \in 0 .. IntMod - 1
        BY SrcuAssumption
    <2> QED
        BY <1>2, <2>1, <2>2, <2>3
<1>4. /\ up'[u].pc = "sync2" /\ up'[u].idx = completed % 2
      /\ up'[u].next = 1 /\ up'[u].sum = 0 /\ Phase' = "sync2"
      /\ \A w \in Updater \ {u} : up'[w] = up[w] /\ up[w].pc \notin Syncing
    BY <1>1, <1>2 DEF TypeOK, Phase, MutexInv
<1>5. PreemptOff \subseteq Cpu /\ \A r \in Reader : rd[r].cpu # None => rd[r].cpu \in PreemptOff
    BY <1>1 DEF TypeOK, PreemptOff
<1>6. TypeOK'
    <2>1. 1 \in Cpu /\ 0 \in 0 .. CountMod - 1
        BY DEF Cpu
    <2>2. up' \in [Updater -> [pc : {"idle", "wait", "sync1", "sync2", "drain", "sync3"},
                              idx : 0 .. IntMod - 1, next : Cpu, sum : 0 .. CountMod - 1]]
        BY <1>1, <1>2, <1>3, <2>1 DEF TypeOK
    <2> QED
        BY <1>1, <1>2, <1>3, <1>5, <2>2 DEF TypeOK
<1>7. RegionInv' /\ FreedInv'
    BY <1>1, <1>2 DEF RegionInv, FreedInv, Idle
<1>8. MutexInv'
    BY <1>1, <1>2, <1>3, <1>4 DEF MutexInv, Syncing
<1>9. \A r \in Reader : rd[r].pc \in {"loaded", "in", "leave"} => rd[r].idx = completed % 2 /\ OldRank(r)'
    BY <1>1, <1>2, <1>3 DEF RankInv, OldRank
<1>10. RankInv'
    <2> SUFFICES ASSUME NEW r \in Reader, rd[r].pc = "loaded"
                 PROVE  rd[r].cpu \in gp'
        BY <1>2, <1>4 DEF RankInv
    <2> QED
        BY <1>1, <1>2, <1>5 DEF RegionInv
<1>11. OwedInv'
    <2> SUFFICES ASSUME NEW w \in Updater
                 PROVE  /\ \A r \in owed[w] : rd[r].pc # "out"
                        /\ up'[w].pc = "idle" => owed[w] = {}
                        /\ HolderOwes(w)'
                        /\ up'[w].pc = "wait" => WaiterOwes(w)'
        BY <1>2 DEF OwedInv
    <2>1. owed[w] \subseteq Reader
        BY <1>1 DEF TypeOK
    <2>2. CASE w = u
        BY <1>1, <1>2, <1>4, <1>9, <2>1, <2>2 DEF OwedInv, HolderOwes
    <2>3. CASE w # u
        <3>1. up'[w] = up[w] /\ up[w].pc \notin Syncing
            BY <1>4, <2>3
        <3>2. HolderOwes(w)'
            BY <3>1 DEF HolderOwes, Syncing
        <3>3. ASSUME up[w].pc = "wait" PROVE WaiterOwes(w)'
            <4>1. up[w].idx \in 0 .. IntMod - 1
                BY <1>1 DEF TypeOK
            <4>2. Flips(w)' = (Flips(w) + 1) % IntMod
                <5>1. PICK a \in Int, b \in Int : a = completed /\ b = up[w].idx
                    BY <1>3, <4>1
                <5>2. (((a + 1) % IntMod) - b) % IntMod = (((a - b) % IntMod) + 1) % IntMod
                    BY FlipDistance
                <5> QED
                    BY <1>2, <3>1, <5>1, <5>2 DEF Flips
            <4>3. Flips(w) \in 0 .. IntMod - 1
                BY <1>3, <4>1 DEF Flips
            <4>4. Flips(w)' \notin {0, 1} => Flips(w) # 0
                BY <4>2, <4>3
            <4> QED
                BY <1>1, <1>2, <1>4, <1>5, <1>9, <2>1, <3>3, <4>4 DEF OwedInv, WaiterOwes, RegionInv
        <3> QED
            BY <1>1, <3>1, <3>2, <3>3 DEF OwedInv
    <2> QED
        BY <2>2, <2>3
<1>12. CountInv'
    <2>1. \A i \in {0, 1} : Counted(i)' = Counted(i)
        BY <1>2 DEF Counted
    <2>2. \A w \in Updater : up'[w].pc = "drain" => up'[w] = up[w]
        BY <1>4
    <2> QED
        BY <1>1, <1>2, <2>1, <2>2, CountFrame
<1> QED
    BY <1>6, <1>7, <1>8, <1>10, <1>11, <1>12 DEF Inv

\* The end: the third sync_func() has waited for the last of the old rank.
LEMMA SynchronizeUnlockInv ==
    ASSUME Inv, NEW u \in Updater, SynchronizeUnlock(u)
    PROVE  Inv'
<1> USE SizeAssumption
<1>1. /\ TypeOK /\ RegionInv /\ MutexInv /\ FreedInv /\ RankInv /\ OwedInv /\ CountInv
      /\ up[u] \in [pc : {"idle", "wait", "sync1", "sync2", "drain", "sync3"},
                    idx : 0 .. IntMod - 1, next : Cpu, sum : 0 .. CountMod - 1]
    BY DEF Inv, TypeOK
<1>2. /\ UNCHANGED <<per_cpu_ref, completed, c, rd, gp, owed>>
      /\ up[u].pc = "sync3" /\ gp = {} /\ mutex = u /\ Phase = "sync3"
      /\ mutex' = None
      /\ up' = [up EXCEPT ![u] = Idle]
    BY <1>1 DEF SynchronizeUnlock, MutexInv, Syncing, Phase
<1>3. /\ up'[u] = Idle /\ Phase' = "none"
      /\ \A w \in Updater \ {u} : up'[w] = up[w] /\ up[w].pc \notin Syncing /\ Flips(w)' = Flips(w)
    BY <1>1, <1>2 DEF TypeOK, Phase, MutexInv, Flips
<1>4. TypeOK'
    <2>1. 0 \in 0 .. IntMod - 1 /\ 1 \in Cpu /\ 0 \in 0 .. CountMod - 1
        BY DEF Cpu
    <2>2. up' \in [Updater -> [pc : {"idle", "wait", "sync1", "sync2", "drain", "sync3"},
                              idx : 0 .. IntMod - 1, next : Cpu, sum : 0 .. CountMod - 1]]
        BY <1>1, <1>2, <2>1 DEF TypeOK, Idle
    <2> QED
        BY <1>1, <1>2, <2>2 DEF TypeOK
<1>5. RegionInv' /\ FreedInv'
    BY <1>1, <1>2 DEF RegionInv, FreedInv, Idle
<1>6. MutexInv'
    BY <1>1, <1>2, <1>3 DEF MutexInv, Syncing, Idle
<1>7. \A r \in Reader : ~OldRank(r) /\ ~OldRank(r)'
    BY <1>1, <1>2 DEF RankInv, OldRank
<1>8. RankInv'
    BY <1>7 DEF RankInv
<1>9. OwedInv'
    <2> SUFFICES ASSUME NEW w \in Updater
                 PROVE  /\ \A r \in owed[w] : rd[r].pc # "out"
                        /\ up'[w].pc = "idle" => owed[w] = {}
                        /\ HolderOwes(w)'
                        /\ up'[w].pc = "wait" => WaiterOwes(w)'
        BY <1>2 DEF OwedInv
    <2>1. CASE w = u
        BY <1>1, <1>2, <1>3, <2>1 DEF OwedInv, HolderOwes, Idle
    <2>2. CASE w # u
        BY <1>1, <1>2, <1>3, <2>2 DEF OwedInv, HolderOwes, WaiterOwes, Syncing
    <2> QED
        BY <2>1, <2>2
<1>10. CountInv'
    <2>1. \A i \in {0, 1} : Counted(i)' = Counted(i)
        BY <1>2 DEF Counted
    <2>2. \A w \in Updater : up'[w].pc = "drain" => up'[w] = up[w]
        BY <1>3 DEF Idle
    <2> QED
        BY <1>1, <1>2, <2>1, <2>2, CountFrame
<1> QED
    BY <1>4, <1>5, <1>6, <1>8, <1>9, <1>10 DEF Inv

\* Adding one more counter keeps what has been added up at least as large as
\* the number of readers in the rank, and the last one makes it the number.
LEMMA DrainSum ==
    ASSUME TypeOK, MutexInv, CountInv, NEW u \in Updater,
           up[u].pc \in {"sync2", "drain"}
    PROVE  \E s : \E d \in Nat :
             /\ Sums(up[u].idx, s)
             /\ Cardinality(Counted(up[u].idx)) + d <= Cardinality(Reader)
             /\ (up[u].sum + c[up[u].next][up[u].idx]) % CountMod = (s[up[u].next] + d) % CountMod
<1> USE SizeAssumption
<1>1. PICK i \in {0, 1} : i = up[u].idx
    BY DEF MutexInv
<1>2. PICK n \in Cpu : n = up[u].next
    BY DEF TypeOK
<1>3. PICK s : /\ Sums(i, s)
               /\ \A w \in Updater : up[w].pc = "drain" /\ up[w].idx = i => ReadSoFar(w, s)
    BY DEF CountInv
<1>4. /\ s \in [0 .. NCpu -> Int] /\ s[0] = 0
      /\ n \in 0 .. NCpu /\ n - 1 \in 0 .. NCpu
      /\ c[n][i] = (s[n] - s[n - 1]) % CountMod
    BY <1>3 DEF Sums, Cpu
<1>5. PICK d \in Nat : /\ Cardinality(Counted(i)) + d <= Cardinality(Reader)
                       /\ up[u].sum = (s[n - 1] + d) % CountMod
    <2>1. CASE up[u].pc = "drain"
        BY <1>1, <1>2, <1>3, <2>1 DEF ReadSoFar
    <2>2. CASE up[u].pc = "sync2"
        <3>1. n = 1 /\ up[u].sum = 0
            BY <1>2, <2>2 DEF MutexInv
        <3>2. n - 1 = 0 /\ s[n - 1] + 0 = 0 /\ 0 % CountMod = 0 /\ 0 \in Nat
            BY <1>4, <3>1
        <3>3. Cardinality(Counted(i)) + 0 <= Cardinality(Reader)
            BY CountedSize
        <3>4. up[u].sum = (s[n - 1] + 0) % CountMod
            BY <3>1, <3>2
        <3> QED
            BY <3>2, <3>3, <3>4
    <2> QED
        BY <2>1, <2>2
<1>6. (((s[n - 1] + d) % CountMod) + c[n][i]) % CountMod = (s[n] + d) % CountMod
    <2> DEFINE a == s[n - 1] + d  b == s[n] - s[n - 1]
    <2>1. s[n] \in Int /\ s[n - 1] \in Int
        BY <1>4
    <2>2. a \in Int /\ b \in Int /\ a + b = s[n] + d
        BY <2>1
    <2>3. c[n][i] = b % CountMod
        BY <1>4
    <2> HIDE DEF a, b
    <2>4. ((a % CountMod) + (b % CountMod)) % CountMod = (a + b) % CountMod
        BY <2>2, ModSum
    <2> QED
        BY <2>2, <2>3, <2>4 DEF a
<1> QED
    BY <1>1, <1>2, <1>3, <1>5, <1>6

\* When the last sum is zero, nobody is counted in the rank.
LEMMA Drained ==
    ASSUME TypeOK, MutexInv, CountInv, NEW u \in Updater,
           up[u].pc \in {"sync2", "drain"}, up[u].next = NCpu,
           (up[u].sum + c[up[u].next][up[u].idx]) % CountMod = 0
    PROVE  Counted(up[u].idx) = {}
<1>1. PICK s : \E d \in Nat :
             /\ Sums(up[u].idx, s)
             /\ Cardinality(Counted(up[u].idx)) + d <= Cardinality(Reader)
             /\ 0 = (s[NCpu] + d) % CountMod
    BY DrainSum
<1>2. PICK d \in Nat :
             /\ Sums(up[u].idx, s)
             /\ Cardinality(Counted(up[u].idx)) + d <= Cardinality(Reader)
             /\ 0 = (s[NCpu] + d) % CountMod
    BY <1>1
<1>3. PICK n \in Nat : n = Cardinality(Counted(up[u].idx)) /\ s[NCpu] = n
    BY <1>2, CountedSize DEF Sums
<1>4. n + d \in 0 .. CountMod - 1
    BY <1>2, <1>3, CountedSize, SizeAssumption
<1>5. (n + d) % CountMod = n + d
    BY <1>4, SizeAssumption
<1>6. n = 0
    BY <1>2, <1>3, <1>5
<1> QED
    BY <1>3, <1>6, CountedSize, FS_EmptySet

\* The loop over the CPUs, and the start of the third sync_func().
LEMMA DrainCpuInv ==
    ASSUME Inv, NEW u \in Updater, DrainCpu(u)
    PROVE  Inv'
<1> USE SizeAssumption
<1> DEFINE sum == (up[u].sum + c[up[u].next][up[u].idx]) % CountMod
<1>1. TypeOK /\ RegionInv /\ MutexInv /\ FreedInv /\ RankInv /\ OwedInv /\ CountInv
    BY DEF Inv
<1>2. /\ UNCHANGED <<per_cpu_ref, completed, c, mutex, rd, owed>>
      /\ up[u].pc = "drain" \/ (up[u].pc = "sync2" /\ gp = {})
    BY DEF DrainCpu
<1>3. /\ mutex = u /\ Phase = up[u].pc
      /\ up[u].idx \in {0, 1} /\ up[u].idx # completed % 2
      /\ up[u].next \in Cpu /\ up[u].idx \in 0 .. IntMod - 1
      /\ \A w \in Updater \ {u} : up[w].pc \notin Syncing
    BY <1>1, <1>2 DEF MutexInv, Syncing, Phase, TypeOK
<1>4. sum \in 0 .. CountMod - 1
    <2>1. up[u].sum \in 0 .. CountMod - 1 /\ c[up[u].next][up[u].idx] \in 0 .. CountMod - 1
        BY <1>1, <1>3 DEF TypeOK
    <2>2. \A x \in 0 .. CountMod - 1 : \A y \in 0 .. CountMod - 1 : (x + y) % CountMod \in 0 .. CountMod - 1
        OBVIOUS
    <2> QED
        BY <2>1, <2>2
<1>5. RegionInv'
    BY <1>1, <1>2 DEF RegionInv
<1>6. \A i \in {0, 1} : Counted(i)' = Counted(i)
    BY <1>2 DEF Counted
<1>7. \A r \in Reader : OldRank(r)' <=> OldRank(r)
    BY <1>2 DEF OldRank
<1>8. \A r \in Reader : OldRank(r) => rd[r].pc # "loaded"
    BY <1>1, <1>2, <1>3 DEF RankInv
<1>9. \A w \in Updater : owed[w] \subseteq Reader
    BY <1>1 DEF TypeOK
<1>10. FreedInv'
    BY <1>1, <1>2 DEF FreedInv, Idle
<1>11. CASE /\ gp' = gp
            /\ up'[u].pc = "drain" /\ up'[u].idx = up[u].idx
            /\ up'[u].next \in Cpu
            /\ \/ up[u].next < NCpu /\ up'[u].sum = sum /\ up'[u].next = up[u].next + 1
               \/ up'[u].sum = 0 /\ up'[u].next = 1
            /\ up' \in [Updater -> [pc : {"idle", "wait", "sync1", "sync2", "drain", "sync3"},
                                    idx : 0 .. IntMod - 1, next : Cpu, sum : 0 .. CountMod - 1]]
            /\ \A w \in Updater \ {u} : up'[w] = up[w]
    <2>1. Phase' = "drain" /\ \A w \in Updater \ {u} : Flips(w)' = Flips(w)
        BY <1>2, <1>3, <1>11 DEF Phase, Flips
    <2>2. TypeOK'
        BY <1>1, <1>2, <1>11 DEF TypeOK
    <2>3. MutexInv'
        BY <1>1, <1>2, <1>3, <1>11 DEF MutexInv, Syncing
    <2>4. RankInv'
        BY <1>2, <1>7, <1>8, <2>1 DEF RankInv
    <2>5. OwedInv'
        <3> SUFFICES ASSUME NEW w \in Updater
                     PROVE  /\ \A r \in owed[w] : rd[r].pc # "out"
                            /\ up'[w].pc = "idle" => owed[w] = {}
                            /\ HolderOwes(w)'
                            /\ up'[w].pc = "wait" => WaiterOwes(w)'
            BY <1>2 DEF OwedInv
        <3>1. CASE w = u
            BY <1>1, <1>2, <1>7, <1>9, <1>11, <3>1 DEF OwedInv, HolderOwes
        <3>2. CASE w # u
            BY <1>1, <1>2, <1>3, <1>7, <1>9, <1>11, <2>1, <3>2 DEF OwedInv, HolderOwes, WaiterOwes, Syncing
        <3> QED
            BY <3>1, <3>2
    <2>6. CountInv'
        <3> SUFFICES ASSUME NEW i \in {0, 1}
                     PROVE  \E s : /\ Sums(i, s)'
                                   /\ \A w \in Updater : up'[w].pc = "drain" /\ up'[w].idx = i => ReadSoFar(w, s)'
            BY DEF CountInv
        <3>1. \A s : Sums(i, s)' <=> Sums(i, s)
            BY <1>2, <1>6 DEF Sums
        <3>2. \A w \in Updater : up'[w].pc = "drain" => w = u
            BY <1>3, <1>11 DEF Syncing
        <3>3. CASE i # up[u].idx
            <4>1. PICK s : Sums(i, s)
                BY <1>1 DEF CountInv
            <4> QED
                BY <1>11, <3>1, <3>2, <3>3, <4>1
        <3>4. CASE i = up[u].idx
            <4>1. PICK n \in Cpu : n = up'[u].next
                BY <1>11
            <4>2. PICK s : \E d \in Nat :
                     /\ Sums(i, s)
                     /\ Cardinality(Counted(i)) + d <= Cardinality(Reader)
                     /\ sum = (s[up[u].next] + d) % CountMod
                BY <1>1, <1>2, <3>4, DrainSum
            <4>3. PICK d \in Nat :
                     /\ Sums(i, s)
                     /\ Cardinality(Counted(i)) + d <= Cardinality(Reader)
                     /\ sum = (s[up[u].next] + d) % CountMod
                BY <4>2
            <4> HIDE DEF sum
            <4>4. ReadSoFar(u, s)'
                <5>1. CASE up[u].next < NCpu /\ up'[u].sum = sum /\ up'[u].next = up[u].next + 1
                    <6>1. up'[u].next - 1 = up[u].next
                        BY <1>3, <5>1 DEF Cpu
                    <6> QED
                        BY <1>6, <1>11, <3>4, <4>3, <5>1, <6>1 DEF ReadSoFar
                <5>2. CASE up'[u].sum = 0 /\ up'[u].next = 1
                    <6>1. s[0] = 0 /\ up'[u].next - 1 = 0
                        BY <4>3, <5>2 DEF Sums
                    <6>2. up'[u].sum = (s[up'[u].next - 1] + 0) % CountMod
                        BY <5>2, <6>1
                    <6>3. Cardinality(Counted(i)') + 0 <= Cardinality(Reader) /\ 0 \in Nat
                        BY <1>6, CountedSize
                    <6> QED
                        BY <1>11, <3>4, <6>2, <6>3 DEF ReadSoFar
                <5> QED
                    BY <1>11, <5>1, <5>2
            <4> QED
                BY <3>1, <3>2, <4>3, <4>4
        <3> QED
            BY <3>3, <3>4
    <2> QED
        BY <1>5, <1>10, <2>2, <2>3, <2>4, <2>5, <2>6 DEF Inv
<1>12. CASE up[u].next = NCpu /\ sum = 0 /\ SyncFunc(u, "sync3", 0)
    <2>1. /\ gp' = PreemptOff
          /\ up' = [up EXCEPT ![u] = [pc |-> "sync3", idx |-> 0, next |-> 1, sum |-> 0]]
        BY <1>12 DEF SyncFunc
    <2>2. /\ up'[u].pc = "sync3" /\ Phase' = "sync3"
          /\ \A w \in Updater \ {u} : up'[w] = up[w] /\ Flips(w)' = Flips(w)
        BY <1>1, <1>2, <1>3, <2>1 DEF TypeOK, Phase, Flips
    <2>3. PreemptOff \subseteq Cpu /\ \A r \in Reader : rd[r].cpu # None => rd[r].cpu \in PreemptOff
        BY <1>1 DEF TypeOK, PreemptOff
    <2>4. TypeOK'
        <3>1. 0 \in 0 .. IntMod - 1 /\ 1 \in Cpu /\ 0 \in 0 .. CountMod - 1
            BY DEF Cpu
        <3>2. up' \in [Updater -> [pc : {"idle", "wait", "sync1", "sync2", "drain", "sync3"},
                                  idx : 0 .. IntMod - 1, next : Cpu, sum : 0 .. CountMod - 1]]
            BY <1>1, <2>1, <3>1 DEF TypeOK
        <3> QED
            BY <1>1, <1>2, <2>1, <2>3, <3>2 DEF TypeOK
    <2>5. MutexInv'
        BY <1>1, <1>2, <1>3, <2>2 DEF MutexInv, Syncing
    <2>6. Counted(up[u].idx) = {}
        BY <1>1, <1>2, <1>12, Drained
    <2>7. \A r \in Reader : OldRank(r) => rd[r].pc = "leave" /\ rd[r].cpu \in gp'
        <3>1. \A r \in Reader : OldRank(r) => rd[r].idx = up[u].idx
            <4>1. completed % 2 \in {0, 1} /\ \A r \in Reader : rd[r].idx \in {0, 1}
                BY <1>1 DEF TypeOK
            <4> QED
                BY <1>3, <4>1 DEF OldRank
        <3> QED
            BY <1>1, <1>8, <2>1, <2>3, <2>6, <3>1 DEF Counted, OldRank, RegionInv
    <2>8. RankInv'
        BY <1>2, <1>7, <2>2, <2>7 DEF RankInv
    <2>9. OwedInv'
        <3> SUFFICES ASSUME NEW w \in Updater
                     PROVE  /\ \A r \in owed[w] : rd[r].pc # "out"
                            /\ up'[w].pc = "idle" => owed[w] = {}
                            /\ HolderOwes(w)'
                            /\ up'[w].pc = "wait" => WaiterOwes(w)'
            BY <1>2 DEF OwedInv
        <3>1. CASE w = u
            BY <1>1, <1>2, <1>9, <2>2, <2>7, <3>1 DEF OwedInv, HolderOwes
        <3>2. CASE w # u
            BY <1>1, <1>2, <1>3, <1>9, <2>2, <2>7, <3>2 DEF OwedInv, HolderOwes, WaiterOwes, Syncing
        <3> QED
            BY <3>1, <3>2
    <2>10. CountInv'
        <3>1. \A w \in Updater : up'[w].pc = "drain" => up'[w] = up[w]
            BY <2>2
        <3> QED
            BY <1>1, <1>2, <1>6, <3>1, CountFrame
    <2> QED
        BY <1>5, <1>10, <2>4, <2>5, <2>8, <2>9, <2>10 DEF Inv
<1>13. \/ /\ up[u].next < NCpu
          /\ up' = [up EXCEPT ![u].pc = "drain", ![u].sum = sum, ![u].next = @ + 1]
          /\ gp' = gp
       \/ /\ up' = [up EXCEPT ![u].pc = "drain", ![u].sum = 0, ![u].next = 1]
          /\ gp' = gp
       \/ up[u].next = NCpu /\ sum = 0 /\ SyncFunc(u, "sync3", 0)
    BY DEF DrainCpu
<1>14. CASE /\ up[u].next < NCpu
            /\ up' = [up EXCEPT ![u].pc = "drain", ![u].sum = sum, ![u].next = @ + 1]
            /\ gp' = gp
    <2> HIDE DEF sum
    <2>1. up[u].next + 1 \in Cpu
        BY <1>3, <1>14 DEF Cpu
    <2>2. /\ up'[u].pc = "drain" /\ up'[u].idx = up[u].idx
          /\ up'[u].sum = sum /\ up'[u].next = up[u].next + 1
          /\ up' \in [Updater -> [pc : {"idle", "wait", "sync1", "sync2", "drain", "sync3"},
                                  idx : 0 .. IntMod - 1, next : Cpu, sum : 0 .. CountMod - 1]]
          /\ \A w \in Updater \ {u} : up'[w] = up[w]
        <3>1. up[u] \in [pc : {"idle", "wait", "sync1", "sync2", "drain", "sync3"},
                        idx : 0 .. IntMod - 1, next : Cpu, sum : 0 .. CountMod - 1]
            BY <1>1 DEF TypeOK
        <3>2. PICK v : v = [up[u] EXCEPT !.pc = "drain", !.sum = sum, !.next = up[u].next + 1]
            OBVIOUS
        <3>3. /\ v.pc = "drain" /\ v.idx = up[u].idx /\ v.sum = sum /\ v.next = up[u].next + 1
              /\ v \in [pc : {"idle", "wait", "sync1", "sync2", "drain", "sync3"},
                        idx : 0 .. IntMod - 1, next : Cpu, sum : 0 .. CountMod - 1]
            BY <1>4, <2>1, <3>1, <3>2
        <3>4. up' = [up EXCEPT ![u] = v]
            BY <1>14, <3>2
        <3> QED
            BY <1>1, <3>3, <3>4 DEF TypeOK
    <2> QED
        BY <1>11, <1>14, <2>1, <2>2
<1>15. CASE /\ up' = [up EXCEPT ![u].pc = "drain", ![u].sum = 0, ![u].next = 1]
            /\ gp' = gp
    <2> HIDE DEF sum
    <2>1. 1 \in Cpu /\ 0 \in 0 .. CountMod - 1
        BY DEF Cpu
    <2>2. /\ up'[u].pc = "drain" /\ up'[u].idx = up[u].idx
          /\ up'[u].sum = 0 /\ up'[u].next = 1
          /\ up' \in [Updater -> [pc : {"idle", "wait", "sync1", "sync2", "drain", "sync3"},
                                  idx : 0 .. IntMod - 1, next : Cpu, sum : 0 .. CountMod - 1]]
          /\ \A w \in Updater \ {u} : up'[w] = up[w]
        <3>1. up[u] \in [pc : {"idle", "wait", "sync1", "sync2", "drain", "sync3"},
                        idx : 0 .. IntMod - 1, next : Cpu, sum : 0 .. CountMod - 1]
            BY <1>1 DEF TypeOK
        <3>2. PICK v : v = [up[u] EXCEPT !.pc = "drain", !.sum = 0, !.next = 1]
            OBVIOUS
        <3>3. /\ v.pc = "drain" /\ v.idx = up[u].idx /\ v.sum = 0 /\ v.next = 1
              /\ v \in [pc : {"idle", "wait", "sync1", "sync2", "drain", "sync3"},
                        idx : 0 .. IntMod - 1, next : Cpu, sum : 0 .. CountMod - 1]
            BY <2>1, <3>1, <3>2
        <3>4. up' = [up EXCEPT ![u] = v]
            BY <1>15, <3>2
        <3> QED
            BY <1>1, <3>3, <3>4 DEF TypeOK
    <2> QED
        BY <1>11, <1>15, <2>1, <2>2
<1> QED
    BY <1>12, <1>13, <1>14, <1>15

-----------------------------------------------------------------------------
\* What the loop of srcu_readers_active_idx() adds up when nobody interferes:
\* by induction over the CPUs, the sums modulo the width.
LEMMA ReadersActiveSum ==
    ASSUME NEW i \in {0, 1}, NEW s, Sums(i, s)
    PROVE  ReadersActiveIdx(i) = Cardinality(Counted(i)) % CountMod
<1> USE SizeAssumption
<1> DEFINE f == [k \in 0 .. NCpu |-> s[k] % CountMod]
           Rec(g) == [k \in 0 .. NCpu |-> IF k = 0 THEN 0 ELSE (g[k - 1] + c[k][i]) % CountMod]
           Is(g) == g = Rec(g)
<1>1. s \in [0 .. NCpu -> Int] /\ s[0] = 0 /\ 0 % CountMod = 0
    BY DEF Sums
<1>2. ASSUME NEW k \in 1 .. NCpu
      PROVE  ((s[k - 1] % CountMod) + c[k][i]) % CountMod = s[k] % CountMod
    <2> DEFINE a == s[k - 1]  b == s[k] - s[k - 1]
    <2>1. k \in Cpu /\ k - 1 \in 0 .. NCpu /\ k \in 0 .. NCpu
        BY DEF Cpu
    <2>2. s[k] \in Int /\ s[k - 1] \in Int
        BY <1>1, <2>1
    <2>3. a \in Int /\ b \in Int /\ a + b = s[k]
        BY <2>2
    <2>4. c[k][i] = b % CountMod
        BY <2>1 DEF Sums
    <2> HIDE DEF a, b
    <2>5. ((a % CountMod) + (b % CountMod)) % CountMod = (a + b) % CountMod
        BY <2>3, ModSum
    <2> QED
        BY <2>3, <2>4, <2>5 DEF a
<1>3. Is(f)
    <2>1. ASSUME NEW k \in 0 .. NCpu
          PROVE  f[k] = IF k = 0 THEN 0 ELSE (f[k - 1] + c[k][i]) % CountMod
        <3>1. CASE k = 0
            BY <1>1, <3>1
        <3>2. CASE k # 0
            <4>1. k \in 1 .. NCpu /\ k - 1 \in 0 .. NCpu
                BY <3>2
            <4>2. f[k - 1] = s[k - 1] % CountMod /\ f[k] = s[k] % CountMod
                BY <4>1
            <4> QED
                BY <1>2, <3>2, <4>1, <4>2
        <3> QED
            BY <3>1, <3>2
    <2> QED
        BY <2>1
<1>4. ASSUME NEW g, Is(g) PROVE g[NCpu] = s[NCpu] % CountMod
    <2> DEFINE T == {k \in 0 .. NCpu : g[k] # s[k] % CountMod}
    <2>1. SUFFICES ASSUME T # {} PROVE FALSE
        OBVIOUS
    <2>2. PICK k \in T : \A y \in T : k <= y
        <3>1. T \in SUBSET Nat
            OBVIOUS
        <3> HIDE DEF T
        <3> QED
            BY <2>1, <3>1, Least
    <2>3. k # 0 /\ k \in 0 .. NCpu
        <3>1. g[0] = 0
            BY <1>4
        <3> QED
            BY <1>1, <3>1
    <2>4. k - 1 \in 0 .. NCpu /\ ~(k <= k - 1) /\ k \in 1 .. NCpu
        BY <2>3
    <2>5. g[k - 1] = s[k - 1] % CountMod
        BY <2>2, <2>4
    <2>6. g[k] = (g[k - 1] + c[k][i]) % CountMod
        BY <1>4, <2>3
    <2> QED
        BY <1>2, <2>4, <2>5, <2>6
<1> DEFINE h == CHOOSE g : Is(g)
<1>5. Is(h)
    <2> HIDE DEF Is, f
    <2> QED
        BY <1>3
<1>6. ReadersActiveIdx(i) = h[NCpu]
    BY DEF ReadersActiveIdx
<1> HIDE DEF Is, h
<1>7. h[NCpu] = s[NCpu] % CountMod
    BY <1>4, <1>5
<1> QED
    BY <1>6, <1>7 DEF Sums

\* cleanup_srcu_struct(): when the sum of both ranks is zero, nobody is left.
LEMMA CleanupInv ==
    ASSUME Inv, CleanupSrcuStruct
    PROVE  Inv'
<1> USE SizeAssumption
<1>1. TypeOK /\ RegionInv /\ MutexInv /\ FreedInv /\ RankInv /\ OwedInv /\ CountInv
    BY DEF Inv
<1>2. /\ UNCHANGED <<completed, c, mutex, rd, up, gp, owed>>
      /\ per_cpu_ref' = (ReadersActive # 0)
      /\ PreemptOff = {} /\ \A u \in Updater : up[u] = Idle
    BY DEF CleanupSrcuStruct
<1>3. TypeOK' /\ RegionInv' /\ MutexInv'
    BY <1>1, <1>2 DEF TypeOK, RegionInv, MutexInv
<1>4. Phase' = Phase /\ \A r \in Reader : OldRank(r)' <=> OldRank(r)
    BY <1>2 DEF Phase, OldRank
<1>5. RankInv'
    BY <1>1, <1>2, <1>4 DEF RankInv
<1>6. OwedInv'
    BY <1>1, <1>2 DEF OwedInv, HolderOwes, WaiterOwes, OldRank, Phase, Flips
<1>7. CountInv'
    <2>1. \A i \in {0, 1} : Counted(i)' = Counted(i)
        BY <1>2 DEF Counted
    <2>2. \A w \in Updater : up'[w].pc = "drain" => up'[w] = up[w]
        BY <1>2
    <2> QED
        BY <1>1, <1>2, <2>1, <2>2, CountFrame
<1>8. ASSUME ReadersActive = 0 PROVE \A r \in Reader : rd[r] = Outside
    <2>1. PICK m \in Nat, n \in Nat : m = Cardinality(Counted(0)) /\ n = Cardinality(Counted(1))
        BY CountedSize
    <2>2. ReadersActiveIdx(0) = m % CountMod /\ ReadersActiveIdx(1) = n % CountMod
        BY <1>1, <2>1, ReadersActiveSum DEF CountInv
    <2>3. 0 = (m + n) % CountMod
        <3>1. ((m % CountMod) + (n % CountMod)) % CountMod = (m + n) % CountMod
            <4>1. m \in Int /\ n \in Int
                OBVIOUS
            <4> QED
                BY <4>1, ModSum
        <3> QED
            BY <1>8, <2>2, <3>1 DEF ReadersActive
    <2>4. m + n <= Cardinality(Reader)
        <3>1. Counted(0) \cap Counted(1) = {} /\ Counted(0) \cup Counted(1) \subseteq Reader
            BY DEF Counted
        <3>2. Cardinality(Counted(0) \cup Counted(1)) = m + n - Cardinality(Counted(0) \cap Counted(1))
            BY <2>1, CountedSize, FS_Union
        <3>3. Cardinality(Counted(0) \cup Counted(1)) <= Cardinality(Reader)
            BY <3>1, SrcuAssumption, FS_Subset
        <3> QED
            BY <3>1, <3>2, <3>3, FS_EmptySet
    <2>5. (m + n) % CountMod = m + n
        <3>1. m + n \in 0 .. CountMod - 1
            BY <2>4, CountedSize
        <3> QED
            BY <3>1
    <2>6. m = 0 /\ n = 0
        BY <2>3, <2>5
    <2>7. Counted(0) = {} /\ Counted(1) = {}
        BY <2>1, <2>6, CountedSize, FS_EmptySet
    <2>8. \A r \in Reader : rd[r].pc # "in" /\ rd[r].cpu = None
        BY <1>1, <1>2, <2>7 DEF Counted, TypeOK, PreemptOff
    <2> QED
        BY <1>1, <2>8 DEF RegionInv
<1>9. FreedInv'
    BY <1>2, <1>8 DEF FreedInv
<1> QED
    BY <1>3, <1>5, <1>6, <1>7, <1>9 DEF Inv

\* Nobody uses the structure.
Unused ==
    /\ TypeOK
    /\ \A r \in Reader : rd[r] = Outside
    /\ \A u \in Updater : up[u] = Idle
    /\ mutex = None
    /\ \A u \in Updater : owed[u] = {}
    /\ c = ZeroCounters \/ \A i \in {0, 1} : \E s : Sums(i, s)

\* Then its counters count nobody, whatever each of them holds.
LEMMA UnusedInv == Unused => Inv
<1> USE SizeAssumption
<1> SUFFICES ASSUME Unused PROVE Inv
    OBVIOUS
<1>1. /\ TypeOK
      /\ \A r \in Reader : rd[r] = Outside
      /\ \A u \in Updater : up[u] = Idle
      /\ mutex = None
      /\ \A u \in Updater : owed[u] = {}
      /\ c = ZeroCounters \/ \A i \in {0, 1} : \E s : Sums(i, s)
    BY DEF Unused
<1>2. RegionInv /\ MutexInv /\ FreedInv /\ RankInv
    BY <1>1 DEF RegionInv, MutexInv, FreedInv, RankInv, OldRank, Outside, Idle, Syncing
<1>3. OwedInv
    BY <1>1 DEF OwedInv, HolderOwes, WaiterOwes, Idle
<1>4. CountInv
    <2> SUFFICES ASSUME NEW i \in {0, 1} PROVE \E s : Sums(i, s)
        BY <1>1 DEF CountInv, Idle
    <2>1. CASE c = ZeroCounters
        <3> DEFINE s == [k \in 0 .. NCpu |-> 0]
        <3>1. s \in [0 .. NCpu -> Int] /\ s[0] = 0 /\ s[NCpu] = 0
            OBVIOUS
        <3>2. Counted(i) = {}
            BY <1>1 DEF Counted, Outside
        <3>3. Cardinality(Counted(i)) = 0
            BY <3>2, FS_EmptySet
        <3>4. ASSUME NEW k \in Cpu PROVE c[k][i] = (s[k] - s[k - 1]) % CountMod
            <4>1. s[k] = 0 /\ s[k - 1] = 0 /\ 0 - 0 = 0 /\ 0 % CountMod = 0
                BY DEF Cpu
            <4>2. c[k][i] = 0
                BY <2>1 DEF ZeroCounters
            <4> QED
                BY <4>1, <4>2
        <3> HIDE DEF s
        <3> QED
            BY <3>1, <3>3, <3>4 DEF Sums
    <2> QED
        BY <1>1, <2>1
<1> QED
    BY <1>1, <1>2, <1>3, <1>4 DEF Inv

\* init_srcu_struct() at the start leaves the counters zero and everyone outside.
LEMMA InitInv == Init => Inv
<1> SUFFICES ASSUME Init PROVE Inv
    OBVIOUS
<1> USE SizeAssumption
<1>1. TypeOK
    <2>1. 0 \in 0 .. IntMod - 1 /\ 1 \in Cpu /\ 0 \in 0 .. CountMod - 1
        BY DEF Cpu
    <2> QED
        BY <2>1 DEF Init, TypeOK, ZeroCounters, Outside, Idle
<1> QED
    BY <1>1, UnusedInv DEF Init, Unused

\* init_srcu_struct() of a structure that was cleaned up.
LEMMA InitSrcuInv ==
    ASSUME Inv, InitSrcuStruct
    PROVE  Inv'
<1> USE SizeAssumption
<1>1. TypeOK /\ RegionInv /\ MutexInv /\ FreedInv /\ RankInv /\ OwedInv /\ CountInv
    BY DEF Inv
<1>2. /\ UNCHANGED <<mutex, rd, up, gp, owed>>
      /\ ~per_cpu_ref /\ completed' = 0 /\ per_cpu_ref' \in BOOLEAN
      /\ c' = ZeroCounters \/ c' = c
    BY DEF InitSrcuStruct
<1>3. TypeOK'
    <2>1. 0 \in 0 .. IntMod - 1 /\ 0 \in 0 .. CountMod - 1
        OBVIOUS
    <2> QED
        BY <1>1, <1>2, <2>1 DEF TypeOK, ZeroCounters
<1>4. /\ \A r \in Reader : rd'[r] = Outside
      /\ \A u \in Updater : up'[u] = Idle
      /\ \A u \in Updater : owed'[u] = {}
    BY <1>1, <1>2 DEF FreedInv, OwedInv, Idle
<1>5. mutex' = None
    <2>1. \A u \in Updater : mutex # u
        BY <1>1, <1>2 DEF FreedInv, MutexInv, Idle, Syncing
    <2>2. mutex \in Updater \cup {None}
        BY <1>1 DEF TypeOK
    <2> QED
        BY <1>2, <2>1, <2>2
<1>6. c' = ZeroCounters \/ \A i \in {0, 1} : \E s : Sums(i, s)'
    <2>1. CASE c' = c
        <3>1. \A i \in {0, 1} : Counted(i)' = Counted(i)
            BY <1>2 DEF Counted
        <3>2. ASSUME NEW i \in {0, 1} PROVE \E s : Sums(i, s)'
            <4>1. PICK s : Sums(i, s)
                BY <1>1 DEF CountInv
            <4>2. Sums(i, s)'
                BY <2>1, <3>1, <4>1 DEF Sums
            <4> QED
                BY <4>2
        <3> QED
            BY <3>2
    <2> QED
        BY <1>2, <2>1
<1>7. Unused'
    BY <1>3, <1>4, <1>5, <1>6 DEF Unused
<1> QED
    BY <1>7, UnusedInv, PTL

\* A step of something else.
LEMMA StutterInv ==
    ASSUME Inv, UNCHANGED vars
    PROVE  Inv'
<1> USE DEF vars
<1>1. TypeOK' /\ RegionInv' /\ MutexInv' /\ FreedInv'
    BY DEF Inv, TypeOK, RegionInv, MutexInv, FreedInv
<1>2. RankInv' /\ OwedInv'
    BY DEF Inv, RankInv, OwedInv, HolderOwes, WaiterOwes, OldRank, Phase, Flips
<1>3. CountInv'
    <2>1. \A i \in {0, 1} : Counted(i)' = Counted(i)
        BY DEF Counted
    <2> QED
        BY <2>1, CountFrame DEF Inv
<1> QED
    BY <1>1, <1>2, <1>3 DEF Inv

\* Every step of srcu.c keeps the invariant.
LEMMA StepInv == Inv /\ [Next]_vars => Inv'
<1> SUFFICES ASSUME Inv, [Next]_vars PROVE Inv'
    OBVIOUS
<1>1. ASSUME NEW r \in Reader, ReaderStep(r) \/ \E cpu \in Cpu : ReadLock(r, cpu)
      PROVE  Inv'
    BY <1>1, ReadLockInv, ReadLockIdxInv, ReadLockCountInv, ReadUnlockInv, ReadUnlockDoneInv DEF ReaderStep
<1>2. ASSUME NEW u \in Updater, UpdaterStep(u) \/ Synchronize(u)
      PROVE  Inv'
    BY <1>2, SynchronizeInv, SynchronizeLockedInv, FlipInv, DrainCpuInv, SynchronizeUnlockInv DEF UpdaterStep
<1> QED
    BY <1>1, <1>2, InitSrcuInv, CleanupInv, StutterInv DEF Next

-----------------------------------------------------------------------------
\* The inductive invariant, which holds the types of the variables of srcu.c:
\* how readers, counters, ranks and updaters fit at every step.
THEOREM Invariance == Spec => []Inv
    BY InitInv, StepInv, PTL DEF Spec

\* synchronize_srcu() keeps its promise, by the early exit or by a flip of its
\* own: when it returns, no reader that was in its critical section at the
\* call is still in it.
THEOREM GracePeriodHolds == Spec => []GracePeriod
<1>1. Inv => GracePeriod
    BY DEF Inv, OwedInv, GracePeriod
<1> QED
    BY <1>1, Invariance, PTL

\* cleanup_srcu_struct() never frees the counters under a reader.
THEOREM CountersInUse == Spec => []NotFreedInUse
<1>1. Inv => NotFreedInUse
    BY DEF Inv, FreedInv, NotFreedInUse
<1> QED
    BY <1>1, Invariance, PTL
=============================================================================
