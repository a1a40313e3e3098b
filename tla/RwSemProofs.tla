---------------------------- MODULE RwSemProofs ----------------------------
(***************************************************************************)
(* Proofs about RwSem, for every finite set of tasks.                      *)
(*   BaseInv   who holds wait_lock, who is queued, and what the waker's    *)
(*             local tsk points to;                                        *)
(*   HoldInv   what activity says of the holders at every point of a wake  *)
(*             that the readers and writers it grants can run at.          *)
(***************************************************************************)
EXTENDS RwSem, KListProofs, FiniteSetTheorems, TLAPS

\* wait_lock is held over several steps exactly by the task that wakes.
LockHeld == \A t \in Task : Waker(t) <=> wait_lock = t

\* The list holds the waiters that have not been granted, once each.
QueueExact ==
    /\ \A t \in Task : OnList(wait_list, t) <=> Queued(t)
    /\ NoDup(wait_list)

\* Between grant and wake, tsk is a task that has been granted the semaphore
\* and cannot have given it back, since that takes wait_lock.
TskInv ==
    /\ tsk \in Task <=> \E t \in Task : pc[t] = "wake"
    /\ tsk \in Task => /\ pc[tsk] \in {"check", "sched", "read", "write"}
                       /\ ~waiter_task[tsk]

\* Whoever is not queued has no pointer left in its waiter.
NotWaiting == \A t \in Task : ~Waiting(t) => ~waiter_task[t]

\* A waker about to grant has somebody to grant the semaphore to.
SomeoneToGrant == \A t \in Task : pc[t] = "grant" => wait_list # <<>>

BaseInv ==
    TypeOK /\ LockHeld /\ QueueExact /\ TskInv /\ NotWaiting /\ SomeoneToGrant

\* The semaphore at rest.
Rest ==
    /\ ActivityCounts
    /\ HeadIsWriter

\* Before the waiter at the head of the list is granted the semaphore.
Granting ==
    \A t \in Task : pc[t] = "grant" =>
        /\ kind = "writer" =>
              /\ activity = -1 /\ ret = "idle" /\ HeadFlags = "write"
              /\ Readers = {} /\ Writers = {}
        /\ kind = "readers" =>
              /\ activity >= 0 /\ HeadFlags = "read"
              /\ Cardinality(Readers) = activity + woken /\ Writers = {}

\* After it has been granted, while tsk is being woken.
Waking ==
    \A t \in Task : pc[t] = "wake" =>
        /\ kind = "writer" =>
              /\ activity = -1 /\ ret = "idle"
              /\ Readers = {} /\ Writers = {tsk}
        /\ kind = "readers" =>
              /\ activity >= 0
              /\ Cardinality(Readers) = activity + woken + 1 /\ Writers = {}

HoldInv == Exclusion /\ Rest /\ Granting /\ Waking

-----------------------------------------------------------------------------
LEMMA BaseInit == Init => BaseInv
BY TaskAssumption
   DEF Init, BaseInv, TypeOK, LockHeld, QueueExact, TskInv, NotWaiting,
       SomeoneToGrant, Waker, Waiting, Queued, OnList, NoDup, PCs

(***************************************************************************)
(* Which steps the public operations are made of.  up_read(), up_write()   *)
(* and downgrade_write() end either in release() or in begin_wake().       *)
(***************************************************************************)
LEMMA DownSteps ==
    ASSUME NEW t \in Task, TypeOK,
           \/ down_read(t) \/ down_write(t)
           \/ down_read_trylock(t) \/ down_write_trylock(t)
    PROVE  /\ pc[t] = "idle" /\ wait_lock = NoTask
           /\ \/ CanRead /\ take(t, activity + 1, "read")
              \/ CanWrite /\ take(t, -1, "write")
              \/ ~CanRead /\ wait(t, "read")
              \/ ~CanWrite /\ wait(t, "write")
BY DEF down_read, down_write, down_read_trylock, down_write_trylock

LEMMA UpReadSteps ==
    ASSUME NEW t \in Task, up_read(t)
    PROVE  /\ pc[t] = "read" /\ wait_lock = NoTask
           /\ \/ /\ activity - 1 = 0 /\ wait_list # <<>>
                 /\ begin_wake(t, -1, "writer", "idle")
              \/ /\ activity - 1 # 0 \/ wait_list = <<>>
                 /\ release(t, activity - 1, "idle")
BY DEF up_read, rwsem_wake_one_writer

LEMMA UpWriteSteps ==
    ASSUME NEW t \in Task, up_write(t)
    PROVE  /\ pc[t] = "write" /\ wait_lock = NoTask
           /\ \/ /\ wait_list # <<>> /\ HeadFlags = "write"
                 /\ begin_wake(t, -1, "writer", "idle")
              \/ /\ wait_list # <<>> /\ HeadFlags = "read"
                 /\ begin_wake(t, 0, "readers", "idle")
              \/ /\ wait_list = <<>>
                 /\ release(t, 0, "idle")
BY DEF up_write, rwsem_do_wake

LEMMA DowngradeSteps ==
    ASSUME NEW t \in Task, downgrade_write(t)
    PROVE  /\ pc[t] = "write" /\ wait_lock = NoTask
           /\ \/ /\ wait_list # <<>> /\ HeadFlags = "read"
                 /\ begin_wake(t, 1, "readers", "read")
              \/ /\ wait_list = <<>> \/ HeadFlags = "write"
                 /\ release(t, 1, "read")
BY DEF downgrade_write, rwsem_do_wake

\* Readers hold the semaphore only with a positive activity.
LEMMA ReaderCounted ==
    ASSUME TypeOK, ActivityCounts, wait_lock = NoTask, NEW t \in Readers
    PROVE  activity = Cardinality(Readers) /\ activity > 0 /\ Writers = {}
<1>1. IsFiniteSet(Readers)
    BY TaskAssumption, FS_Subset DEF Readers
<1>2. Cardinality(Readers) \in Nat /\ Cardinality(Readers) # 0
    BY <1>1, FS_CardinalityType, FS_EmptySet
<1> QED
    BY <1>2 DEF ActivityCounts

LEMMA BaseNext == BaseInv /\ ActivityCounts /\ [Next]_vars => BaseInv'
<1> SUFFICES ASSUME BaseInv, ActivityCounts, [Next]_vars PROVE BaseInv'
    OBVIOUS
<1>0. /\ wait_list \in Seq(Task) /\ NoDup(wait_list)
      /\ \A t \in Task : OnList(wait_list, t) <=> Queued(t)
    BY DEF BaseInv, TypeOK, QueueExact
<1> USE TaskAssumption
    DEF BaseInv, TypeOK, LockHeld, QueueExact, TskInv, NotWaiting,
        SomeoneToGrant, Waker, Waiting, Queued, PCs, semVars, wakeVars
<1>1. ASSUME NEW t \in Task, pc[t] = "idle", wait_lock = NoTask,
             NEW a \in Int, a >= -1, NEW m \in {"read", "write"}, take(t, a, m)
      PROVE  BaseInv'
    BY <1>1 DEF take
<1>2. ASSUME NEW t \in Task, pc[t] = "idle", wait_lock = NoTask,
             NEW m \in {"read", "write"}, wait(t, m)
      PROVE  BaseInv'
    <2>1. /\ wait_list' \in Seq(Task) /\ NoDup(wait_list') /\ wait_list' # <<>>
          /\ \A u \in Task : OnList(wait_list', u) <=> OnList(wait_list, u) \/ u = t
        <3>1. wait_list' = Append(wait_list, t) /\ ~OnList(wait_list, t)
            BY <1>0, <1>2 DEF wait
        <3> HIDE DEF BaseInv, TypeOK, LockHeld, QueueExact, TskInv, NotWaiting,
                     SomeoneToGrant
        <3> QED
            BY <1>0, <3>1, AppendList
    <2>2. QueueExact'
        BY <1>0, <1>2, <2>1 DEF wait
    <2>3. TypeOK'
        BY <1>2, <2>1 DEF wait, get_task_struct
    <2>4. LockHeld' /\ TskInv' /\ NotWaiting' /\ SomeoneToGrant'
        BY <1>2, <2>1 DEF wait
    <2> QED
        BY <2>2, <2>3, <2>4
<1>3. ASSUME NEW t \in Task, check(t) PROVE BaseInv'
    <2>1. CASE waiter_task[t]
        <3>1. /\ pc[t] = "check"
              /\ pc' = [pc EXCEPT ![t] = "sched"]
              /\ UNCHANGED <<semVars, state, flags, waiter_task, usage, wakeVars>>
            BY <1>3, <2>1 DEF check
        <3>2. TypeOK' /\ SomeoneToGrant'
            BY <3>1
        <3>3. LockHeld' /\ NotWaiting'
            BY <3>1
        <3>4. QueueExact'
            BY <1>0, <3>1
        <3>5. TskInv'
            BY <3>1
        <3> QED
            BY <3>2, <3>3, <3>4, <3>5
    <2>2. CASE ~waiter_task[t]
        <3>1. /\ pc[t] = "check"
              /\ state' = [state EXCEPT ![t] = "RUNNING"]
              /\ pc' = [pc EXCEPT ![t] = flags[t]]
              /\ flags[t] \in {"read", "write"}
              /\ UNCHANGED <<semVars, flags, waiter_task, usage, wakeVars>>
            BY <1>3, <2>2 DEF check
        <3>2. TypeOK' /\ LockHeld' /\ NotWaiting' /\ SomeoneToGrant'
            BY <2>2, <3>1
        <3>3. QueueExact'
            BY <1>0, <2>2, <3>1
        <3>4. TskInv'
            BY <2>2, <3>1
        <3> QED
            BY <3>2, <3>3, <3>4
    <2> QED
        BY <2>1, <2>2
<1>4. ASSUME NEW t \in Task, schedule(t) PROVE BaseInv'
    BY <1>4 DEF schedule
<1>5. ASSUME NEW t \in Task, spurious_wakeup(t) PROVE BaseInv'
    BY <1>5 DEF spurious_wakeup
<1>6. ASSUME NEW t \in Task, pc[t] \in {"read", "write"}, wait_lock = NoTask,
             NEW a \in Int, a >= -1, NEW m \in {"idle", "read"}, release(t, a, m)
      PROVE  BaseInv'
    BY <1>6 DEF release
<1>7. ASSUME NEW t \in Task, pc[t] \in {"read", "write"}, wait_lock = NoTask,
             NEW a \in Int, a >= -1, NEW m \in {"idle", "read"},
             NEW k \in {"writer", "readers"}, wait_list # <<>>,
             begin_wake(t, a, k, m)
      PROVE  BaseInv'
    BY <1>7 DEF begin_wake
<1>8. ASSUME NEW t \in Task, grant(t) PROVE BaseInv'
    <2>1. /\ Head(wait_list) \in Task /\ OnList(wait_list, Head(wait_list))
          /\ wait_list' \in Seq(Task) /\ NoDup(wait_list')
          /\ \A u \in Task : OnList(wait_list', u)
                                <=> OnList(wait_list, u) /\ u # Head(wait_list)
        BY <1>0, <1>8, HeadOn, TailList DEF grant
    <2>2. Queued(Head(wait_list)) /\ wait_lock = t
        BY <1>0, <1>8, <2>1 DEF grant
    <2>3. QueueExact'
        BY <1>0, <1>8, <2>1, <2>2 DEF grant
    <2>4. TypeOK'
        BY <1>8, <2>1 DEF grant
    <2>5. LockHeld' /\ TskInv' /\ NotWaiting' /\ SomeoneToGrant'
        BY <1>8, <2>1, <2>2 DEF grant
    <2> QED
        BY <2>3, <2>4, <2>5
<1>9. ASSUME NEW t \in Task, wake(t) PROVE BaseInv'
    <2>1. tsk \in Task /\ wait_lock = t
        BY <1>9 DEF wake
    <2>2. QueueExact'
        <3>1. /\ pc[t] = "wake" /\ UNCHANGED <<wait_list, waiter_task>>
              /\ \/ pc' = [pc EXCEPT ![t] = "grant"] \/ pc' = [pc EXCEPT ![t] = ret]
            BY <1>9 DEF wake
        <3>2. \A u \in Task : Queued(u)' <=> Queued(u)
            BY <3>1
        <3> QED
            BY <1>0, <3>1, <3>2
    <2>3. TypeOK'
        <3>1. pc' \in [Task -> PCs]
            <4>1. pc' = [pc EXCEPT ![t] = "grant"] \/ pc' = [pc EXCEPT ![t] = ret]
                BY <1>9 DEF wake
            <4> QED
                BY <4>1
        <3>6. wait_lock' \in Task \cup {NoTask}
            BY <1>9, <2>1 DEF wake
        <3>2. state' = [state EXCEPT ![tsk] = "RUNNING"]
            BY <1>9 DEF wake, wake_up_process
        <3>3. usage' = [usage EXCEPT ![tsk] = @ - 1]
            BY <1>9 DEF wake, put_task_struct
        <3>4. woken' \in Nat /\ activity' \in Int /\ activity' >= -1
            BY <1>9 DEF wake
        <3>5. tsk' = NoTask /\ UNCHANGED <<wait_list, flags, waiter_task, kind, ret>>
            BY <1>9 DEF wake
        <3> QED
            BY <2>1, <3>1, <3>2, <3>3, <3>4, <3>5, <3>6
    <2>4. \/ /\ pc' = [pc EXCEPT ![t] = "grant"]
             /\ wait_lock' = t /\ wait_list # <<>>
          \/ /\ pc' = [pc EXCEPT ![t] = ret]
             /\ wait_lock' = NoTask
        BY <1>9, <2>1 DEF wake, MoreReaders
    <2>5. /\ pc[t] = "wake" /\ tsk' = NoTask
          /\ UNCHANGED <<wait_list, waiter_task>>
        BY <1>9 DEF wake
    <2>6. LockHeld'
        BY <2>1, <2>4, <2>5
    <2>7. NotWaiting'
        BY <2>1, <2>4, <2>5
    <2>8. SomeoneToGrant'
        BY <2>1, <2>4, <2>5
    <2>9. TskInv'
        BY <2>1, <2>4, <2>5
    <2> QED
        BY <2>2, <2>3, <2>6, <2>7, <2>8, <2>9
<1>10. CASE UNCHANGED vars
    BY <1>10 DEF vars
<1> HIDE DEF BaseInv, TypeOK, LockHeld, QueueExact, TskInv, NotWaiting,
             SomeoneToGrant, Waker, Waiting, Queued, PCs, semVars, wakeVars
<1>typ. TypeOK /\ activity \in Int /\ activity >= -1
    BY DEF BaseInv, TypeOK
<1>11. ASSUME NEW t \in Task,
              \/ down_read(t) \/ down_write(t)
              \/ down_read_trylock(t) \/ down_write_trylock(t)
       PROVE  BaseInv'
    <2>1. /\ pc[t] = "idle" /\ wait_lock = NoTask
          /\ \/ take(t, activity + 1, "read") \/ take(t, -1, "write")
             \/ wait(t, "read") \/ wait(t, "write")
        BY <1>11, <1>typ, DownSteps
    <2>2. activity + 1 \in Int /\ activity + 1 >= -1
        BY <1>typ
    <2> QED
        BY <1>1, <1>2, <2>1, <2>2
<1>12. ASSUME NEW t \in Task, up_read(t) PROVE BaseInv'
    <2>1. activity > 0
        BY <1>12, <1>typ, UpReadSteps, ReaderCounted DEF Readers
    <2>2. activity - 1 \in Int /\ activity - 1 >= -1
        BY <1>typ, <2>1
    <2> QED
        BY <1>6, <1>7, <1>12, <2>2, UpReadSteps
<1>13. ASSUME NEW t \in Task, up_write(t) PROVE BaseInv'
    BY <1>6, <1>7, <1>13, UpWriteSteps
<1>14. ASSUME NEW t \in Task, downgrade_write(t) PROVE BaseInv'
    BY <1>6, <1>7, <1>14, DowngradeSteps
<1> QED
    BY <1>3, <1>4, <1>5, <1>8, <1>9, <1>10, <1>11, <1>12, <1>13, <1>14 DEF Next

-----------------------------------------------------------------------------
(***************************************************************************)
(* What each step does to the holders.                                     *)
(***************************************************************************)
SameHolders == Readers' = Readers /\ Writers' = Writers

LEMMA TakeHolders ==
    ASSUME BaseInv, NEW t \in Task, pc[t] = "idle", wait_lock = NoTask, NEW a
    PROVE  /\ t \notin Readers \cup Writers
           /\ take(t, a, "read") => /\ Readers' = Readers \cup {t}
                                    /\ Writers' = Writers
           /\ take(t, a, "write") => /\ Readers' = Readers
                                     /\ Writers' = Writers \cup {t}
BY DEF BaseInv, TypeOK, take, Readers, Writers, Granted, Waiting, Waker, wakeVars

LEMMA WaitHolders ==
    ASSUME BaseInv, NEW t \in Task, pc[t] = "idle", NEW m, wait(t, m)
    PROVE  SameHolders
BY DEF BaseInv, TypeOK, wait, SameHolders, Readers, Writers, Granted, Waiting,
       Waker, wakeVars

LEMMA LoopHolders ==
    ASSUME BaseInv, NEW t \in Task,
           check(t) \/ schedule(t) \/ spurious_wakeup(t)
    PROVE  SameHolders
<1> USE DEF BaseInv, TypeOK, SameHolders, Readers, Writers, Granted, Waiting,
            Waker, wakeVars
<1>1. CASE check(t)
    BY <1>1 DEF check
<1>2. CASE schedule(t)
    BY <1>2 DEF schedule
<1>3. CASE spurious_wakeup(t)
    BY <1>3 DEF spurious_wakeup
<1> QED
    BY <1>1, <1>2, <1>3

LEMMA ReleaseHolders ==
    ASSUME BaseInv, NEW t \in Task, wait_lock = NoTask,
           pc[t] \in {"read", "write"}, NEW a, NEW k, NEW m \in {"idle", "read"},
           release(t, a, m) \/ begin_wake(t, a, k, m)
    PROVE  /\ pc[t] = "read" => t \in Readers
           /\ pc[t] = "write" => t \in Writers
           /\ Readers' = IF m = "read" THEN Readers \cup {t} ELSE Readers \ {t}
           /\ Writers' = Writers \ {t}
<1>0. /\ pc \in [Task -> PCs] /\ ret \in {"idle", "read"}
      /\ \A u \in Task : ~Waker(u)
    BY TaskAssumption DEF BaseInv, TypeOK, LockHeld
<1>1. CASE release(t, a, m)
    BY <1>0, <1>1 DEF release, Readers, Writers, Granted, Waiting, Waker, wakeVars
<1>2. CASE begin_wake(t, a, k, m)
    BY <1>0, <1>2 DEF begin_wake, Readers, Writers, Granted, Waiting, Waker
<1> QED
    BY <1>1, <1>2

LEMMA GrantHolders ==
    ASSUME BaseInv, NEW t \in Task, grant(t)
    PROVE  /\ Head(wait_list) \in Task \ (Readers \cup Writers)
           /\ HeadFlags = "read" => /\ Readers' = Readers \cup {Head(wait_list)}
                                    /\ Writers' = Writers
           /\ HeadFlags = "write" => /\ Readers' = Readers
                                     /\ Writers' = Writers \cup {Head(wait_list)}
<1> DEFINE h == Head(wait_list)
<1>1. h \in Task /\ Queued(h) /\ pc[t] = "grant"
    BY HeadOn DEF grant, BaseInv, TypeOK, QueueExact, SomeoneToGrant
<1>2. /\ pc' = [pc EXCEPT ![t] = "wake"]
      /\ waiter_task' = [waiter_task EXCEPT ![h] = FALSE]
      /\ UNCHANGED <<flags, ret>>
    BY DEF grant
<1>3. pc \in [Task -> PCs] /\ waiter_task \in [Task -> BOOLEAN]
    BY DEF BaseInv, TypeOK
<1> HIDE DEF h
<1>4. h # t /\ h \notin Readers \cup Writers
    BY <1>1, <1>3 DEF Queued, Readers, Writers, Granted, Waiting, Waker
<1>5. flags[h] = "read" => Readers' = Readers \cup {h} /\ Writers' = Writers
    BY <1>1, <1>2, <1>3, <1>4
       DEF Queued, Readers, Writers, Granted, Waiting, Waker
<1>6. flags[h] = "write" => Readers' = Readers /\ Writers' = Writers \cup {h}
    BY <1>1, <1>2, <1>3, <1>4
       DEF Queued, Readers, Writers, Granted, Waiting, Waker
<1> QED
    BY <1>1, <1>4, <1>5, <1>6 DEF h, HeadFlags

LEMMA WakeHolders ==
    ASSUME BaseInv, NEW t \in Task, wake(t)
    PROVE  SameHolders
<1>1. pc[t] = "wake" /\ pc \in [Task -> PCs] /\ ret \in {"idle", "read"}
    BY DEF wake, BaseInv, TypeOK
<1>2. \A u \in Task : Waker(u) => u = t
    BY <1>1 DEF BaseInv, LockHeld, Waker
<1>3. /\ pc' = [pc EXCEPT ![t] = "grant"] \/ pc' = [pc EXCEPT ![t] = ret]
      /\ UNCHANGED <<flags, waiter_task, ret>>
    BY DEF wake
<1> QED
    BY <1>1, <1>2, <1>3
       DEF SameHolders, Readers, Writers, Granted, Waiting, Waker

-----------------------------------------------------------------------------
(***************************************************************************)
(* HoldInv is inductive.                                                   *)
(***************************************************************************)
LEMMA ReadersFinite ==
    /\ IsFiniteSet(Readers) /\ Cardinality(Readers) \in Nat
    /\ Cardinality(Readers) = 0 <=> Readers = {}
BY TaskAssumption, FS_Subset, FS_CardinalityType, FS_EmptySet DEF Readers

\* A writer that runs is alone, and activity says so.
LEMMA WriterAlone ==
    ASSUME BaseInv, HoldInv, wait_lock = NoTask, NEW t \in Writers
    PROVE  activity = -1 /\ Readers = {} /\ Writers = {t}
BY DEF HoldInv, Rest, ActivityCounts, Exclusion

LEMMA HoldInit == Init => HoldInv
<1> SUFFICES ASSUME Init PROVE HoldInv
    OBVIOUS
<1>1. Readers = {} /\ Writers = {}
    BY DEF Init, Readers, Writers, Granted, Waiting, Waker
<1> QED
    BY <1>1, FS_EmptySet
       DEF Init, HoldInv, Exclusion, Rest, ActivityCounts, HeadIsWriter,
           Granting, Waking

LEMMA HoldNext == BaseInv /\ HoldInv /\ [Next]_vars => HoldInv'
<1> SUFFICES ASSUME BaseInv, HoldInv, [Next]_vars PROVE HoldInv'
    OBVIOUS
<1>0. /\ activity \in Int /\ woken \in Nat
      /\ pc \in [Task -> PCs] /\ flags \in [Task -> {"read", "write"}]
      /\ wait_list \in Seq(Task) /\ NoTask \notin Task
      /\ wait_list # <<>> => Head(wait_list) \in Task
      /\ IsFiniteSet(Readers) /\ Cardinality(Readers) \in Nat
      /\ Cardinality(Readers) = 0 <=> Readers = {}
    BY TaskAssumption, HeadOn, ReadersFinite DEF BaseInv, TypeOK
<1>1. wait_lock = NoTask => \A u \in Task : pc[u] \notin {"grant", "wake"}
    BY <1>0 DEF BaseInv, LockHeld, Waker
<1>2. ASSUME NEW t, t \notin Readers, Readers' = Readers \cup {t}
      PROVE  Cardinality(Readers') = Cardinality(Readers) + 1
    BY <1>0, <1>2, FS_AddElement
<1>3. ASSUME NEW t \in Readers, Readers' = Readers \ {t}
      PROVE  Cardinality(Readers') = Cardinality(Readers) - 1
    BY <1>0, <1>3, FS_RemoveElement
<1>4. IsFiniteSet(Readers') /\ Cardinality(Readers') \in Nat
      /\ (Cardinality(Readers') = 0 <=> Readers' = {})
    BY TaskAssumption, FS_Subset, FS_CardinalityType, FS_EmptySet DEF Readers
<1> USE DEF HoldInv, Exclusion, Rest, ActivityCounts, HeadIsWriter, HeadFlags,
            Granting, Waking
<1>5. ASSUME NEW t \in Task, pc[t] = "idle", wait_lock = NoTask, CanRead,
             take(t, activity + 1, "read")
      PROVE  HoldInv'
    <2>1. /\ activity' = activity + 1 /\ activity >= 0
          /\ wait_list' = <<>> /\ wait_lock' = NoTask
          /\ pc' = [pc EXCEPT ![t] = "read"]
        BY <1>5 DEF take, CanRead
    <2>2. Writers = {} /\ activity = Cardinality(Readers)
        BY <1>5, <2>1
    <2>3. Writers' = {} /\ Cardinality(Readers') = activity'
        BY <1>2, <1>5, <2>1, <2>2, TakeHolders
    <2> QED
        BY <1>0, <1>1, <1>5, <2>1, <2>3
<1>6. ASSUME NEW t \in Task, pc[t] = "idle", wait_lock = NoTask, CanWrite,
             take(t, -1, "write")
      PROVE  HoldInv'
    <2>1. /\ activity' = -1 /\ activity = 0
          /\ wait_list' = <<>> /\ wait_lock' = NoTask
          /\ pc' = [pc EXCEPT ![t] = "write"]
        BY <1>6 DEF take, CanWrite
    <2>2. Writers' = {t} /\ Readers' = {}
        BY <1>0, <1>6, <2>1, TakeHolders
    <2> QED
        BY <1>0, <1>1, <1>6, <2>1, <2>2
<1>7. ASSUME NEW t \in Task, pc[t] = "idle", wait_lock = NoTask,
             \/ ~CanRead /\ wait(t, "read")
             \/ ~CanWrite /\ wait(t, "write")
      PROVE  HoldInv'
    <2>1. /\ activity' = activity /\ wait_lock' = NoTask
          /\ pc' = [pc EXCEPT ![t] = "check"]
          /\ wait_list' = Append(wait_list, t)
          /\ SameHolders
        BY <1>7, WaitHolders DEF wait
    <2>2. CASE wait_list # <<>>
        <3>1. Head(wait_list) # t
            BY <1>0, <1>7, <2>2, HeadOn DEF BaseInv, QueueExact, Queued, Waiting
        <3>2. Head(wait_list') = Head(wait_list)
              /\ flags'[Head(wait_list)] = flags[Head(wait_list)]
            BY <1>0, <1>7, <2>1, <2>2, <3>1, AppendList DEF wait
        <3> QED
            BY <1>0, <1>1, <1>7, <2>1, <2>2, <3>2 DEF SameHolders
    <2>3. CASE wait_list = <<>>
        <3>1. Head(wait_list') = t
            BY <2>1, <2>3
        <3>2. activity >= 0 => activity > 0 /\ wait(t, "write")
            BY <1>0, <1>7, <2>3 DEF CanRead, CanWrite
        <3>3. activity >= 0 => flags'[t] = "write"
            BY <1>0, <3>2 DEF wait
        <3> QED
            BY <1>0, <1>1, <1>7, <2>1, <3>1, <3>2, <3>3 DEF SameHolders
    <2> QED
        BY <2>2, <2>3
<1>8. ASSUME NEW t \in Task, check(t) \/ schedule(t) \/ spurious_wakeup(t)
      PROVE  HoldInv'
    <2>1. /\ SameHolders
          /\ UNCHANGED <<activity, wait_list, wait_lock, flags, kind, woken, ret, tsk>>
        BY <1>8, LoopHolders
           DEF check, schedule, spurious_wakeup, semVars, wakeVars
    <2>2. \A u \in Task : pc'[u] \in {"grant", "wake"} => pc'[u] = pc[u]
        BY <1>0, <1>8 DEF check, schedule, spurious_wakeup
    <2> QED
        BY <2>1, <2>2 DEF SameHolders
<1>9. ASSUME NEW t \in Task, up_read(t) PROVE HoldInv'
    <2>1. pc[t] = "read" /\ wait_lock = NoTask /\ t \in Readers
        BY <1>9, UpReadSteps DEF Readers
    <2>2. activity = Cardinality(Readers) /\ activity > 0 /\ Writers = {}
        BY <2>1, ReaderCounted DEF BaseInv
    <2>3. /\ Readers' = Readers \ {t} /\ Writers' = {}
          /\ Cardinality(Readers') = activity - 1
        BY <1>3, <1>9, <2>1, <2>2, UpReadSteps, ReleaseHolders
    <2>4. CASE /\ activity - 1 = 0 /\ wait_list # <<>>
               /\ begin_wake(t, -1, "writer", "idle")
        <3>1. Readers' = {}
            BY <1>4, <2>3, <2>4
        <3>2. /\ activity' = -1 /\ wait_lock' = t /\ kind' = "writer"
              /\ ret' = "idle" /\ pc' = [pc EXCEPT ![t] = "grant"]
              /\ UNCHANGED <<wait_list, flags>>
            BY <2>4 DEF begin_wake
        <3> QED
            BY <1>0, <1>1, <2>1, <2>2, <2>3, <2>4, <3>1, <3>2
    <2>5. CASE /\ activity - 1 # 0 \/ wait_list = <<>>
               /\ release(t, activity - 1, "idle")
        <3>1. /\ activity' = activity - 1 /\ pc' = [pc EXCEPT ![t] = "idle"]
              /\ UNCHANGED <<wait_list, wait_lock, flags>>
            BY <2>5 DEF release
        <3> QED
            BY <1>0, <1>1, <2>1, <2>2, <2>3, <2>5, <3>1
    <2> QED
        BY <1>9, <2>4, <2>5, UpReadSteps
<1>10. ASSUME NEW t \in Task, up_write(t) PROVE HoldInv'
    <2>1. pc[t] = "write" /\ wait_lock = NoTask /\ t \in Writers
        BY <1>10, UpWriteSteps DEF Writers
    <2>2. activity = -1 /\ Readers = {} /\ Writers = {t}
        BY <2>1, WriterAlone
    <2>3. Readers' = {} /\ Writers' = {} /\ Cardinality(Readers') = 0
        BY <1>4, <1>10, <2>1, <2>2, UpWriteSteps, ReleaseHolders
    <2>4. CASE \/ /\ wait_list # <<>> /\ HeadFlags = "write"
                  /\ begin_wake(t, -1, "writer", "idle")
               \/ /\ wait_list # <<>> /\ HeadFlags = "read"
                  /\ begin_wake(t, 0, "readers", "idle")
        BY <1>0, <1>1, <2>1, <2>3, <2>4 DEF begin_wake
    <2>5. CASE wait_list = <<>> /\ release(t, 0, "idle")
        BY <1>0, <1>1, <2>1, <2>3, <2>5 DEF release
    <2> QED
        BY <1>10, <2>4, <2>5, UpWriteSteps
<1>11. ASSUME NEW t \in Task, downgrade_write(t) PROVE HoldInv'
    <2>1. pc[t] = "write" /\ wait_lock = NoTask /\ t \in Writers
        BY <1>11, DowngradeSteps DEF Writers
    <2>2. activity = -1 /\ Readers = {} /\ Writers = {t}
        BY <2>1, WriterAlone
    <2>3. Readers' = Readers \cup {t} /\ Writers' = {}
        BY <1>11, <2>1, <2>2, DowngradeSteps, ReleaseHolders
    <2>4. Cardinality(Readers') = 1
        <3>1. Cardinality(Readers) = 0 /\ t \notin Readers
            BY <1>0, <2>2
        <3>2. Cardinality(Readers') = Cardinality(Readers) + 1
            BY <1>2, <2>3, <3>1
        <3> QED
            BY <3>1, <3>2
    <2>5. CASE /\ wait_list # <<>> /\ HeadFlags = "read"
               /\ begin_wake(t, 1, "readers", "read")
        <3>1. /\ activity' = 1 /\ wait_lock' = t /\ kind' = "readers"
              /\ woken' = 0 /\ pc' = [pc EXCEPT ![t] = "grant"]
              /\ UNCHANGED <<wait_list, flags>>
            BY <2>5 DEF begin_wake
        <3>2. Cardinality(Readers') = activity' + woken' /\ activity' >= 0
            BY <2>4, <3>1
        <3> QED
            BY <1>0, <1>1, <2>1, <2>3, <2>5, <3>1, <3>2
    <2>6. CASE /\ wait_list = <<>> \/ HeadFlags = "write"
               /\ release(t, 1, "read")
        BY <1>0, <1>1, <2>1, <2>3, <2>4, <2>6 DEF release
    <2> QED
        BY <1>11, <2>5, <2>6, DowngradeSteps
<1>12. ASSUME NEW t \in Task, grant(t) PROVE HoldInv'
    <2> DEFINE h == Head(wait_list)
    <2>1. pc[t] = "grant" /\ wait_lock = t /\ h \in Task \ (Readers \cup Writers)
        BY <1>12, GrantHolders DEF grant, BaseInv, LockHeld, Waker
    <2>2. /\ pc' = [pc EXCEPT ![t] = "wake"] /\ tsk' = h
          /\ UNCHANGED <<activity, wait_lock, woken, kind, ret>>
        BY <1>12 DEF grant
    <2>3. \A u \in Task : pc'[u] \in {"grant", "wake"} => u = t /\ pc'[u] = "wake"
        BY <1>0, <2>1, <2>2 DEF BaseInv, LockHeld, Waker
    <2>4. CASE kind = "writer"
        <3>1. Readers' = {} /\ Writers' = {h} /\ activity = -1 /\ ret = "idle"
            BY <1>12, <2>1, <2>4, GrantHolders
        <3> QED
            BY <1>0, <2>1, <2>2, <2>3, <2>4, <3>1
    <2>5. CASE kind = "readers"
        <3>1. /\ Readers' = Readers \cup {h} /\ Writers' = {}
              /\ activity >= 0 /\ Cardinality(Readers) = activity + woken
            BY <1>12, <2>1, <2>5, GrantHolders
        <3>2. Cardinality(Readers') = activity + woken + 1
            BY <1>2, <2>1, <3>1
        <3> QED
            BY <1>0, <2>1, <2>2, <2>3, <2>5, <3>1, <3>2
    <2> QED
        BY <2>4, <2>5 DEF BaseInv, TypeOK
<1>13. ASSUME NEW t \in Task, wake(t) PROVE HoldInv'
    <2>1. pc[t] = "wake" /\ wait_lock = t /\ ret \in {"idle", "read"}
        BY <1>13 DEF wake, BaseInv, TypeOK, LockHeld, Waker
    <2>2. Readers' = Readers /\ Writers' = Writers /\ UNCHANGED <<wait_list, flags, kind, ret>>
        BY <1>13, WakeHolders DEF wake, SameHolders
    <2>3. \A u \in Task \ {t} : pc[u] \notin {"grant", "wake"}
        BY <2>1 DEF BaseInv, LockHeld, Waker
    <2>4. CASE kind = "readers" /\ MoreReaders
        <3>1. /\ woken' = woken + 1 /\ pc' = [pc EXCEPT ![t] = "grant"]
              /\ UNCHANGED <<activity, wait_lock>>
            BY <1>13, <2>4 DEF wake
        <3> QED
            BY <1>0, <2>1, <2>2, <2>3, <2>4, <3>1 DEF MoreReaders
    <2>5. CASE kind = "readers" /\ ~MoreReaders
        <3>1. /\ activity' = activity + (woken + 1) /\ wait_lock' = NoTask
              /\ pc' = [pc EXCEPT ![t] = ret]
            BY <1>13, <2>5 DEF wake
        <3>2. /\ Writers = {} /\ activity >= 0
              /\ Cardinality(Readers) = activity + woken + 1
            BY <2>1, <2>5
        <3>3. wait_list # <<>> => HeadFlags = "write"
            BY <1>0, <2>5 DEF MoreReaders
        <3> QED
            BY <1>0, <2>1, <2>2, <2>3, <3>1, <3>2, <3>3
    <2>6. CASE kind = "writer"
        <3>1. /\ wait_lock' = NoTask /\ pc' = [pc EXCEPT ![t] = ret]
              /\ UNCHANGED activity
            BY <1>13, <2>6 DEF wake
        <3>2. Writers = {tsk} /\ Readers = {} /\ activity = -1
            BY <2>1, <2>6
        <3> QED
            BY <1>0, <2>1, <2>2, <2>3, <3>1, <3>2
    <2> QED
        BY <2>4, <2>5, <2>6 DEF BaseInv, TypeOK
<1>14. CASE UNCHANGED vars
    <2>1. Readers' = Readers /\ Writers' = Writers
        BY <1>14 DEF vars, semVars, wakeVars, Readers, Writers, Granted,
                     Waiting, Waker
    <2> QED
        BY <1>14, <2>1 DEF vars, semVars, wakeVars
<1>15. ASSUME NEW t \in Task,
              \/ down_read(t) \/ down_write(t)
              \/ down_read_trylock(t) \/ down_write_trylock(t)
       PROVE  HoldInv'
    BY <1>5, <1>6, <1>7, <1>15, DownSteps DEF BaseInv
<1> QED
    BY <1>8, <1>9, <1>10, <1>11, <1>12, <1>13, <1>14, <1>15 DEF Next

-----------------------------------------------------------------------------
(***************************************************************************)
(* The theorems.                                                           *)
(***************************************************************************)
LEMMA Invariance == Spec => [](BaseInv /\ HoldInv)
<1>1. HoldInv => ActivityCounts
    BY DEF HoldInv, Rest
<1> QED
    BY BaseInit, BaseNext, HoldInit, HoldNext, <1>1, PTL DEF Spec

\* Every state of the semaphore has its type; in particular activity never
\* falls below -1 (lib/rwsem-spinlock.c:61-323).
THEOREM RwSemTypeOK == Spec => []TypeOK
<1>1. BaseInv => TypeOK
    BY DEF BaseInv
<1> QED
    BY Invariance, <1>1, PTL

\* A writer excludes everybody else, for any number of readers and writers
\* (lib/rwsem-spinlock.c:61-323).
THEOREM RwSemExclusion == Spec => []Exclusion
<1>1. HoldInv => Exclusion
    BY DEF HoldInv
<1> QED
    BY Invariance, <1>1, PTL

\* While wait_lock is free, activity counts the holders exactly
\* (include/linux/rwsem-spinlock.h:26-28).
THEOREM RwSemActivity == Spec => []ActivityCounts
<1>1. HoldInv => ActivityCounts
    BY DEF HoldInv, Rest
<1> QED
    BY Invariance, <1>1, PTL

\* The first waiter behind readers is a writer: what
\* __rwsem_wake_one_writer() relies on without looking
\* (lib/rwsem-spinlock.c:120-137).
THEOREM RwSemHeadIsWriter == Spec => []HeadIsWriter
<1>1. HoldInv => HeadIsWriter
    BY DEF HoldInv, Rest
<1> QED
    BY Invariance, <1>1, PTL

\* rwsem_is_locked() never answers 0 while somebody holds the semaphore
\* (lib/rwsem-spinlock.c:20-30).
THEOREM RwSemIsLocked == Spec => []IsLockedSound
<1>1. BaseInv /\ HoldInv => IsLockedSound
    <2> SUFFICES ASSUME BaseInv, HoldInv, wait_lock = NoTask, activity = 0
                 PROVE  Readers \cup Writers = {}
        BY DEF IsLockedSound, rwsem_is_locked
    <2>1. Writers = {} /\ Cardinality(Readers) = 0
        BY DEF HoldInv, Rest, ActivityCounts
    <2> QED
        BY <2>1, ReadersFinite
<1> QED
    BY Invariance, <1>1, PTL

-----------------------------------------------------------------------------
(***************************************************************************)
(* The task references and the wakeup.                                     *)
(***************************************************************************)
LEMMA RefsNext == BaseInv /\ RefsBalanced /\ [Next]_vars => RefsBalanced'
<1> SUFFICES ASSUME BaseInv, RefsBalanced, [Next]_vars PROVE RefsBalanced'
    OBVIOUS
<1>0. /\ TypeOK /\ wait_list \in Seq(Task) /\ NoTask \notin Task
      /\ usage \in [Task -> Int] /\ pc \in [Task -> PCs]
      /\ waiter_task \in [Task -> BOOLEAN] /\ flags \in [Task -> {"read", "write"}]
      /\ ret \in {"idle", "read"}
    BY TaskAssumption DEF BaseInv, TypeOK
<1> USE DEF RefsBalanced, Queued, Waiting, semVars, wakeVars
<1>1. ASSUME NEW t \in Task,
             \/ down_read(t) \/ down_write(t)
             \/ down_read_trylock(t) \/ down_write_trylock(t)
      PROVE  RefsBalanced'
    <2>1. pc[t] = "idle" /\ t # tsk
        BY <1>0, <1>1, DownSteps DEF BaseInv, TskInv
    <2>2. CASE \E a, m : take(t, a, m) /\ m \in {"read", "write"}
        BY <1>0, <2>1, <2>2 DEF take
    <2>3. CASE wait(t, "read") \/ wait(t, "write")
        <3>1. /\ usage' = [usage EXCEPT ![t] = @ + 1] /\ tsk' = tsk
              /\ waiter_task' = [waiter_task EXCEPT ![t] = TRUE]
              /\ pc' = [pc EXCEPT ![t] = "check"]
            BY <2>3 DEF wait, get_task_struct
        <3> QED
            BY <1>0, <2>1, <3>1
    <2> QED
        BY <1>0, <1>1, <2>2, <2>3, DownSteps
<1>2. ASSUME NEW t \in Task, check(t) \/ schedule(t) \/ spurious_wakeup(t)
      PROVE  RefsBalanced'
    BY <1>0, <1>2 DEF check, schedule, spurious_wakeup
<1>3. ASSUME NEW t \in Task, NEW a, NEW m \in {"idle", "read"}, NEW k,
             pc[t] \in {"read", "write"},
             release(t, a, m) \/ begin_wake(t, a, k, m)
      PROVE  RefsBalanced'
    <2>1. /\ pc' = [pc EXCEPT ![t] = m] \/ pc' = [pc EXCEPT ![t] = "grant"]
          /\ UNCHANGED <<waiter_task, usage, tsk>>
        BY <1>3 DEF release, begin_wake
    <2> QED
        BY <1>0, <1>3, <2>1
<1>4. ASSUME NEW t \in Task, grant(t) PROVE RefsBalanced'
    <2>1. Head(wait_list) \in Task /\ Queued(Head(wait_list)) /\ pc[t] = "grant"
        BY <1>0, <1>4, HeadOn DEF grant, BaseInv, QueueExact, SomeoneToGrant
    <2>2. tsk \notin Task
        BY <1>0, <1>4, <2>1 DEF BaseInv, TskInv, LockHeld, Waker
    <2>3. /\ tsk' = Head(wait_list) /\ usage' = usage
          /\ waiter_task' = [waiter_task EXCEPT ![Head(wait_list)] = FALSE]
          /\ pc' = [pc EXCEPT ![t] = "wake"]
        BY <1>4 DEF grant
    <2> QED
        BY <1>0, <2>1, <2>2, <2>3
<1>5. ASSUME NEW t \in Task, wake(t) PROVE RefsBalanced'
    <2>1. tsk \in Task /\ ~waiter_task[tsk] /\ pc[t] = "wake"
        BY <1>5 DEF wake, BaseInv, TskInv
    <2>2. /\ tsk' = NoTask /\ usage' = [usage EXCEPT ![tsk] = @ - 1]
          /\ waiter_task' = waiter_task
          /\ pc' = [pc EXCEPT ![t] = "grant"] \/ pc' = [pc EXCEPT ![t] = ret]
        BY <1>5 DEF wake, put_task_struct
    <2> QED
        BY <1>0, <2>1, <2>2
<1>6. CASE UNCHANGED vars
    BY <1>6 DEF vars
<1>7. ASSUME NEW t \in Task, up_read(t) \/ up_write(t) \/ downgrade_write(t)
      PROVE  RefsBalanced'
    <2>1. /\ pc[t] \in {"read", "write"}
          /\ \E a, k, m : /\ m \in {"idle", "read"}
                          /\ release(t, a, m) \/ begin_wake(t, a, k, m)
        BY <1>7, UpReadSteps, UpWriteSteps, DowngradeSteps
    <2> QED
        BY <1>3, <2>1
<1> QED
    BY <1>1, <1>2, <1>4, <1>5, <1>6, <1>7 DEF Next

\* The reference a waiter takes on its own task_struct is dropped exactly
\* once, after the wakeup (lib/rwsem-spinlock.c:87-89, 102-104, 133-135, 163).
THEOREM RwSemRefsBalanced == Spec => []RefsBalanced
<1>1. Init => RefsBalanced
    BY TaskAssumption DEF Init, RefsBalanced, Queued, Waiting
<1> QED
    BY Invariance, RefsNext, <1>1, PTL DEF Spec

LEMMA WakeupNext == BaseInv /\ NoLostWakeup /\ [Next]_vars => NoLostWakeup'
<1> SUFFICES ASSUME BaseInv, NoLostWakeup, [Next]_vars PROVE NoLostWakeup'
    OBVIOUS
<1>0. /\ TypeOK /\ wait_list \in Seq(Task) /\ NoTask \notin Task
      /\ pc \in [Task -> PCs] /\ state \in [Task -> {"RUNNING", "UNINTERRUPTIBLE"}]
      /\ waiter_task \in [Task -> BOOLEAN] /\ flags \in [Task -> {"read", "write"}]
      /\ ret \in {"idle", "read"}
    BY TaskAssumption DEF BaseInv, TypeOK
<1> USE DEF NoLostWakeup, semVars, wakeVars
<1>1. ASSUME NEW t \in Task,
             \/ down_read(t) \/ down_write(t)
             \/ down_read_trylock(t) \/ down_write_trylock(t)
      PROVE  NoLostWakeup'
    <2>1. CASE \E a, m : take(t, a, m) /\ m \in {"read", "write"}
        BY <1>0, <2>1 DEF take
    <2>2. CASE wait(t, "read") \/ wait(t, "write")
        BY <1>0, <2>2 DEF wait
    <2> QED
        BY <1>0, <1>1, <2>1, <2>2, DownSteps
<1>2. ASSUME NEW t \in Task, check(t) PROVE NoLostWakeup'
    BY <1>0, <1>2 DEF check
<1>3. ASSUME NEW t \in Task, schedule(t) \/ spurious_wakeup(t)
      PROVE  NoLostWakeup'
    BY <1>0, <1>3 DEF schedule, spurious_wakeup
<1>4. ASSUME NEW t \in Task, NEW a, NEW m \in {"idle", "read"}, NEW k,
             release(t, a, m) \/ begin_wake(t, a, k, m)
      PROVE  NoLostWakeup'
    BY <1>0, <1>4 DEF release, begin_wake
<1>5. ASSUME NEW t \in Task, grant(t) PROVE NoLostWakeup'
    <2>1. Head(wait_list) \in Task /\ pc[t] = "grant"
        BY <1>0, <1>5, HeadOn DEF grant, BaseInv, SomeoneToGrant
    <2>2. tsk \notin Task
        BY <1>0, <2>1 DEF BaseInv, TskInv, LockHeld, Waker
    <2> QED
        BY <1>0, <1>5, <2>1, <2>2 DEF grant
<1>6. ASSUME NEW t \in Task, wake(t) PROVE NoLostWakeup'
    <2>1. /\ state' = [state EXCEPT ![tsk] = "RUNNING"]
          /\ waiter_task' = waiter_task
          /\ pc' = [pc EXCEPT ![t] = "grant"] \/ pc' = [pc EXCEPT ![t] = ret]
        BY <1>6 DEF wake, wake_up_process
    <2>2. tsk \in Task
        BY <1>6 DEF wake, BaseInv, TskInv
    <2> QED
        BY <1>0, <2>1, <2>2
<1>7. CASE UNCHANGED vars
    BY <1>7 DEF vars
<1>8. ASSUME NEW t \in Task, up_read(t) \/ up_write(t) \/ downgrade_write(t)
      PROVE  NoLostWakeup'
    BY <1>4, <1>8, UpReadSteps, UpWriteSteps, DowngradeSteps
<1> QED
    BY <1>1, <1>2, <1>3, <1>5, <1>6, <1>7, <1>8 DEF Next

\* No task sleeps on after it was granted the semaphore: the waker's store
\* to waiter->task before the wakeup and the sleeper's store to its state
\* before the test meet in every interleaving (lib/rwsem-spinlock.c:87-88,
\* 171-176).
THEOREM RwSemNoLostWakeup == Spec => []NoLostWakeup
<1>1. Init => NoLostWakeup
    BY DEF Init, NoLostWakeup
<1> QED
    BY Invariance, WakeupNext, <1>1, PTL DEF Spec

-----------------------------------------------------------------------------
(***************************************************************************)
(* Order and refinement.  A step leaves the holders alone, or it is one of *)
(* five changes, each a step of the abstract lock; the two that add a      *)
(* holder add the head of the list, or anybody when the list is empty.     *)
(***************************************************************************)
MayEnter(t) == wait_list = <<>> \/ t = Head(wait_list)

LEMMA HolderStep ==
    ASSUME BaseInv, HoldInv, [Next]_vars
    PROVE  \/ SameHolders
           \/ \E t \in Task \ (Readers \cup Writers) :
                 /\ MayEnter(t) /\ Writers = {} /\ Writers' = {}
                 /\ Readers' = Readers \cup {t}
           \/ \E t \in Task :
                 /\ MayEnter(t) /\ Writers = {} /\ Writers' = {t}
                 /\ Readers = {} /\ Readers' = {}
           \/ \E t \in Readers :
                 /\ Readers' = Readers \ {t} /\ Writers = {} /\ Writers' = {}
           \/ \E t \in Task :
                 /\ Writers = {t} /\ Writers' = {}
                 /\ Readers = {} /\ Readers' \in {{}, {t}}
<1>0. TypeOK /\ kind \in {"writer", "readers"} /\ activity \in Int
    BY DEF BaseInv, TypeOK
<1>1. ASSUME NEW t \in Task, pc[t] = "idle", wait_lock = NoTask, CanRead,
             take(t, activity + 1, "read")
      PROVE  /\ t \notin Readers \cup Writers /\ MayEnter(t)
             /\ Writers = {} /\ Writers' = {} /\ Readers' = Readers \cup {t}
    BY <1>0, <1>1, TakeHolders
       DEF CanRead, MayEnter, HoldInv, Rest, ActivityCounts
<1>2. ASSUME NEW t \in Task, pc[t] = "idle", wait_lock = NoTask, CanWrite,
             take(t, -1, "write")
      PROVE  /\ MayEnter(t) /\ Writers = {} /\ Writers' = {t}
             /\ Readers = {} /\ Readers' = {}
    BY <1>0, <1>2, TakeHolders, ReadersFinite
       DEF CanWrite, MayEnter, HoldInv, Rest, ActivityCounts
<1>3. ASSUME NEW t \in Task, grant(t), kind = "writer"
      PROVE  /\ MayEnter(Head(wait_list)) /\ Head(wait_list) \in Task
             /\ Writers = {} /\ Writers' = {Head(wait_list)}
             /\ Readers = {} /\ Readers' = {}
    BY <1>3, GrantHolders DEF MayEnter, HoldInv, Granting, grant
<1>4. ASSUME NEW t \in Task, grant(t), kind = "readers"
      PROVE  /\ MayEnter(Head(wait_list))
             /\ Head(wait_list) \in Task \ (Readers \cup Writers)
             /\ Writers = {} /\ Writers' = {}
             /\ Readers' = Readers \cup {Head(wait_list)}
    BY <1>4, GrantHolders DEF MayEnter, HoldInv, Granting, grant
<1>5. ASSUME NEW t \in Task, up_read(t)
      PROVE  t \in Readers /\ Readers' = Readers \ {t} /\ Writers = {} /\ Writers' = {}
    <2>1. pc[t] = "read" /\ wait_lock = NoTask /\ t \in Readers
        BY <1>5, UpReadSteps DEF Readers
    <2>2. Writers = {}
        BY <1>0, <2>1, ReaderCounted DEF HoldInv, Rest
    <2> QED
        BY <1>5, <2>1, <2>2, UpReadSteps, ReleaseHolders
<1>6. ASSUME NEW t \in Task, up_write(t)
      PROVE  Writers = {t} /\ Writers' = {} /\ Readers = {} /\ Readers' = {}
    <2>1. pc[t] = "write" /\ wait_lock = NoTask /\ t \in Writers
        BY <1>6, UpWriteSteps DEF Writers
    <2> QED
        BY <1>6, <2>1, UpWriteSteps, ReleaseHolders, WriterAlone
<1>7. ASSUME NEW t \in Task, downgrade_write(t)
      PROVE  Writers = {t} /\ Writers' = {} /\ Readers = {} /\ Readers' = {t}
    <2>1. pc[t] = "write" /\ wait_lock = NoTask /\ t \in Writers
        BY <1>7, DowngradeSteps DEF Writers
    <2>2. Readers = {} /\ Writers = {t}
        BY <2>1, WriterAlone
    <2>3. Readers' = Readers \cup {t} /\ Writers' = Writers \ {t}
        BY <1>7, <2>1, DowngradeSteps, ReleaseHolders
    <2> QED
        BY <2>2, <2>3
<1>8. UNCHANGED vars => SameHolders
    BY DEF vars, semVars, wakeVars, SameHolders, Readers, Writers, Granted,
           Waiting, Waker
<1>9. ASSUME NEW t \in Task,
             \/ down_read(t) \/ down_write(t)
             \/ down_read_trylock(t) \/ down_write_trylock(t)
      PROVE  \/ SameHolders
             \/ /\ t \notin Readers \cup Writers /\ MayEnter(t)
                /\ Writers = {} /\ Writers' = {} /\ Readers' = Readers \cup {t}
             \/ /\ MayEnter(t) /\ Writers = {} /\ Writers' = {t}
                /\ Readers = {} /\ Readers' = {}
    BY <1>0, <1>1, <1>2, <1>9, DownSteps, WaitHolders
<1>10. CASE \E t \in Task : down_read(t) \/ down_write(t)
                          \/ down_read_trylock(t) \/ down_write_trylock(t)
    BY <1>9, <1>10
<1>11. CASE \E t \in Task : \/ check(t) \/ schedule(t) \/ spurious_wakeup(t)
                            \/ wake(t)
    BY <1>11, LoopHolders, WakeHolders
<1>12. CASE \E t \in Task : grant(t)
    BY <1>0, <1>3, <1>4, <1>12
<1>13. CASE \E t \in Task : up_read(t) \/ up_write(t) \/ downgrade_write(t)
    BY <1>5, <1>6, <1>7, <1>13
<1> QED
    BY <1>8, <1>10, <1>11, <1>12, <1>13 DEF Next

\* Whoever becomes a holder has nobody ahead of it on the list, be it by a
\* down, a trylock or a grant (lib/rwsem-spinlock.c:61-137, 142-240).
THEOREM RwSemFifo == Spec => Fifo
<1>1. BaseInv /\ HoldInv /\ [Next]_vars =>
        [\A t \in Task :
           t \in (Readers \cup Writers)' \ (Readers \cup Writers) =>
             wait_list = <<>> \/ t = Head(wait_list)]_vars
    BY HolderStep DEF SameHolders, MayEnter
<1> QED
    BY Invariance, <1>1, PTL DEF Spec, Fifo

LEMMA RefineNext == BaseInv /\ HoldInv /\ [Next]_vars => [RW!Next]_LockMode
<1> SUFFICES ASSUME BaseInv, HoldInv, [Next]_vars PROVE [RW!Next]_LockMode
    OBVIOUS
<1>1. CASE SameHolders
    BY <1>1 DEF SameHolders, LockMode
<1>2. ASSUME NEW t \in Task \ (Readers \cup Writers), Writers = {},
             Writers' = {}, Readers' = Readers \cup {t}
      PROVE  RW!AcquireRead(t)
    BY <1>2 DEF LockMode, RW!AcquireRead
<1>3. ASSUME NEW t \in Task, Writers = {}, Writers' = {t},
             Readers = {}, Readers' = {}
      PROVE  RW!AcquireWrite(t)
    BY <1>3 DEF LockMode, RW!AcquireWrite
<1>4. ASSUME NEW t \in Readers, Readers' = Readers \ {t}, Writers = {},
             Writers' = {}
      PROVE  t \in Task /\ RW!Release(t)
    <2>1. t \in Task
        BY DEF Readers
    <2> QED
        BY <1>4, <2>1 DEF LockMode, RW!Release
<1>5. ASSUME NEW t \in Task, Writers = {t}, Writers' = {},
             Readers = {}, Readers' = {}
      PROVE  RW!Release(t)
    BY <1>5 DEF LockMode, RW!Release
<1>6. ASSUME NEW t \in Task, Writers = {t}, Writers' = {},
             Readers = {}, Readers' = {t}
      PROVE  RW!Downgrade(t)
    BY <1>6 DEF LockMode, RW!Downgrade
<1> QED
    BY HolderStep, <1>1, <1>2, <1>3, <1>4, <1>5, <1>6 DEF RW!Next

\* The semaphore code implements the abstract reader/writer lock for every
\* set of tasks (lib/rwsem-spinlock.c:36-323).
THEOREM RwSemImplementsRWLock == Spec => ImplementsRWLock
<1>1. Init => RW!Init
    BY DEF Init, RW!Init, LockMode, Readers, Writers, Granted, Waiting, Waker
<1> QED
    BY Invariance, RefineNext, <1>1, PTL DEF Spec, ImplementsRWLock, RW!Spec
=============================================================================
