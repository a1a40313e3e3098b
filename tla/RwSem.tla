------------------------------- MODULE RwSem -------------------------------
(***************************************************************************)
(* The generic reader/writer semaphore of lib/rwsem-spinlock.c, the one    *)
(* that CONFIG_RWSEM_GENERIC_SPINLOCK selects on ARM, behind the public    *)
(* entry points of kernel/rwsem.c.                                         *)
(*                                                                         *)
(* A critical section of sem->wait_lock that nobody can look into is one   *)
(* step.  The two things that are read WITHOUT wait_lock, waiter->task and *)
(* the task's scheduling state, are what splits the others: a waker stores *)
(* NULL in waiter->task in one step and calls wake_up_process() in the     *)
(* next, and in between the woken task may already run with the lock.      *)
(***************************************************************************)
EXTENDS Integers, Sequences, FiniteSets

CONSTANTS Task,     \* the tasks that use the semaphore
          NoTask    \* the NULL task pointer; the spin lock has no holder

ASSUME TaskAssumption == IsFiniteSet(Task) /\ NoTask \notin Task

VARIABLES
    activity,     \* sem->activity: -1 one writer, n >= 0 that many readers
    wait_list,    \* sem->wait_list: the tasks whose waiter is on the list
    wait_lock,    \* sem->wait_lock: its holder when held over several steps
    flags,        \* flags[t]: waiter.flags of t's rwsem_waiter
    waiter_task,  \* waiter_task[t]: waiter.task # NULL in t's rwsem_waiter
    state,        \* state[t]: scheduling state of t
    usage,        \* usage[t]: references to t's task_struct
    pc,           \* pc[t]: where t is in the code
    tsk,          \* the waker's local tsk
    woken,        \* the waker's local woken
    kind,         \* whom the waker wakes: "writer" (one) or "readers"
    ret           \* what the waker is after the call: "idle" or "read"

semVars  == <<activity, wait_list, wait_lock>>
wakeVars == <<tsk, woken, kind, ret>>
vars     == <<semVars, flags, waiter_task, state, usage, pc, wakeVars>>

PCs == {"idle", "check", "sched", "read", "write", "grant", "wake"}

TypeOK ==
    /\ activity \in Int /\ activity >= -1
    /\ wait_list \in Seq(Task)
    /\ wait_lock \in Task \cup {NoTask}
    /\ flags \in [Task -> {"read", "write"}]
    /\ waiter_task \in [Task -> BOOLEAN]
    /\ state \in [Task -> {"RUNNING", "UNINTERRUPTIBLE"}]
    /\ usage \in [Task -> Int]
    /\ pc \in [Task -> PCs]
    /\ tsk \in Task \cup {NoTask}
    /\ woken \in Nat
    /\ kind \in {"writer", "readers"}
    /\ ret \in {"idle", "read"}

Init ==
    /\ activity = 0
    /\ wait_list = <<>>
    /\ wait_lock = NoTask
    /\ flags = [t \in Task |-> "read"]
    /\ waiter_task = [t \in Task |-> FALSE]
    /\ state = [t \in Task |-> "RUNNING"]
    /\ usage = [t \in Task |-> 1]
    /\ pc = [t \in Task |-> "idle"]
    /\ tsk = NoTask
    /\ woken = 0
    /\ kind = "writer"
    /\ ret = "idle"

-----------------------------------------------------------------------------
(***************************************************************************)
(* Acquisition.                                                            *)
(***************************************************************************)

get_task_struct_missing(t) == UNCHANGED usage
get_task_struct(t) == usage' = [usage EXCEPT ![t] = @ + 1]
put_task_struct(t) == usage' = [usage EXCEPT ![t] = @ - 1]

wake_up_process_missing(t) == UNCHANGED state
wake_up_process(t) == state' = [state EXCEPT ![t] = "RUNNING"]

CanRead_barging == activity >= 0
CanRead  == activity >= 0 /\ wait_list = <<>>
CanWrite == activity = 0 /\ wait_list = <<>>

\* The granted path of a down: activity changes and the caller goes on.
take(t, a, mode) ==
    /\ activity' = a
    /\ pc' = [pc EXCEPT ![t] = mode]
    /\ UNCHANGED <<wait_list, wait_lock, flags, waiter_task, state, usage,
                   wakeVars>>

\* The contended path: t queues its waiter and goes to the wait loop.
wait(t, mode) ==
    /\ state' = [state EXCEPT ![t] = "UNINTERRUPTIBLE"]
    /\ waiter_task' = [waiter_task EXCEPT ![t] = TRUE]
    /\ flags' = [flags EXCEPT ![t] = mode]
    /\ get_task_struct(t)
    /\ wait_list' = Append(wait_list, t)
    /\ pc' = [pc EXCEPT ![t] = "check"]
    /\ UNCHANGED <<activity, wait_lock, wakeVars>>

down_read(t) ==
    /\ pc[t] = "idle" /\ wait_lock = NoTask
    /\ \/ CanRead /\ take(t, activity + 1, "read")
       \/ ~CanRead /\ wait(t, "read")

down_write(t) ==
    /\ pc[t] = "idle" /\ wait_lock = NoTask
    /\ \/ CanWrite /\ take(t, -1, "write")
       \/ ~CanWrite /\ wait(t, "write")

\* The trylocks; a failed one returns 0 and changes nothing.
down_read_trylock(t) ==
    /\ pc[t] = "idle" /\ wait_lock = NoTask
    /\ CanRead
    /\ take(t, activity + 1, "read")

down_write_trylock(t) ==
    /\ pc[t] = "idle" /\ wait_lock = NoTask
    /\ CanWrite
    /\ take(t, -1, "write")

\* if (!waiter.task) break; tsk->state = TASK_RUNNING; else schedule().
check(t) ==
    /\ pc[t] = "check"
    /\ \/ /\ ~waiter_task[t]
          /\ state' = [state EXCEPT ![t] = "RUNNING"]
          /\ pc' = [pc EXCEPT ![t] = flags[t]]
       \/ /\ waiter_task[t]
          /\ pc' = [pc EXCEPT ![t] = "sched"]
          /\ UNCHANGED state
    /\ UNCHANGED <<semVars, flags, waiter_task, usage, wakeVars>>

\* schedule() returns once the task is runnable; then the state is set again.
schedule(t) ==
    /\ pc[t] = "sched" /\ state[t] = "RUNNING"
    /\ state' = [state EXCEPT ![t] = "UNINTERRUPTIBLE"]
    /\ pc' = [pc EXCEPT ![t] = "check"]
    /\ UNCHANGED <<semVars, flags, waiter_task, usage, wakeVars>>

\* A wakeup meant for another wait of t: a waker of some other semaphore may
\* call wake_up_process(tsk) after tsk has seen waiter.task == NULL and left.
spurious_wakeup(t) ==
    /\ state[t] = "UNINTERRUPTIBLE"
    /\ state' = [state EXCEPT ![t] = "RUNNING"]
    /\ UNCHANGED <<semVars, flags, waiter_task, usage, pc, wakeVars>>

-----------------------------------------------------------------------------
(***************************************************************************)
(* Release.  A release that wakes nobody is one step.  One that wakes      *)
(* keeps wait_lock while it grants ("grant") and wakes ("wake") its tasks. *)
(***************************************************************************)

release(t, a, after) ==
    /\ activity' = a
    /\ pc' = [pc EXCEPT ![t] = after]
    /\ UNCHANGED <<wait_list, wait_lock, flags, waiter_task, state, usage,
                   wakeVars>>

begin_wake(t, a, whom, after) ==
    /\ activity' = a
    /\ wait_lock' = t
    /\ kind' = whom
    /\ woken' = 0
    /\ ret' = after
    /\ pc' = [pc EXCEPT ![t] = "grant"]
    /\ UNCHANGED <<wait_list, flags, waiter_task, state, usage, tsk>>

HeadFlags   == flags[Head(wait_list)]
MoreReaders_any_flags == wait_list # <<>>
MoreReaders == wait_list # <<>> /\ HeadFlags = "read"

\* __rwsem_wake_one_writer() does not look at the flags of the first waiter.
rwsem_wake_one_writer(t) == begin_wake(t, -1, "writer", "idle")

\* __rwsem_do_wake(sem, wakewrite), up to its first list_del.
rwsem_do_wake(t, a, wakewrite, after) ==
    \/ /\ ~wakewrite /\ HeadFlags = "write"
       /\ release(t, a, after)
    \/ /\ wakewrite /\ HeadFlags = "write"
       /\ begin_wake(t, -1, "writer", after)
    \/ /\ HeadFlags = "read"
       /\ begin_wake(t, a, "readers", after)

up_read(t) ==
    /\ pc[t] = "read" /\ wait_lock = NoTask
    /\ \/ /\ activity - 1 = 0 /\ wait_list # <<>>
          /\ rwsem_wake_one_writer(t)
       \/ /\ activity - 1 # 0 \/ wait_list = <<>>
          /\ release(t, activity - 1, "idle")

up_write(t) ==
    /\ pc[t] = "write" /\ wait_lock = NoTask
    /\ \/ wait_list # <<>> /\ rwsem_do_wake(t, 0, TRUE, "idle")
       \/ wait_list = <<>> /\ release(t, 0, "idle")

downgrade_write(t) ==
    /\ pc[t] = "write" /\ wait_lock = NoTask
    /\ \/ wait_list # <<>> /\ rwsem_do_wake(t, 1, FALSE, "read")
       \/ wait_list = <<>> /\ release(t, 1, "read")

\* list_del(&waiter->list); tsk = waiter->task; smp_mb(); waiter->task = NULL
grant(t) ==
    /\ pc[t] = "grant"
    /\ tsk' = Head(wait_list)
    /\ wait_list' = Tail(wait_list)
    /\ waiter_task' = [waiter_task EXCEPT ![Head(wait_list)] = FALSE]
    /\ pc' = [pc EXCEPT ![t] = "wake"]
    /\ UNCHANGED <<activity, wait_lock, flags, state, usage, woken, kind, ret>>

\* The rest of a wake: the writer's "goto out", the readers' loop test, and,
\* after the last reader, sem->activity += woken; then wait_lock is released.
wake(t) ==
    /\ pc[t] = "wake"
    /\ wake_up_process(tsk)
    /\ put_task_struct(tsk)
    /\ tsk' = NoTask
    /\ \/ /\ kind = "readers" /\ MoreReaders
          /\ woken' = woken + 1
          /\ pc' = [pc EXCEPT ![t] = "grant"]
          /\ UNCHANGED <<activity, wait_lock>>
       \/ /\ kind = "readers" /\ ~MoreReaders
          /\ woken' = 0
          /\ activity' = activity + (woken + 1)
          /\ wait_lock' = NoTask
          /\ pc' = [pc EXCEPT ![t] = ret]
       \/ /\ kind = "writer"
          /\ wait_lock' = NoTask
          /\ pc' = [pc EXCEPT ![t] = ret]
          /\ UNCHANGED <<activity, woken>>
    /\ UNCHANGED <<wait_list, flags, waiter_task, kind, ret>>

-----------------------------------------------------------------------------
Next == \E t \in Task :
            \/ down_read(t) \/ down_write(t)
            \/ down_read_trylock(t) \/ down_write_trylock(t)
            \/ check(t) \/ schedule(t) \/ spurious_wakeup(t)
            \/ up_read(t) \/ up_write(t) \/ downgrade_write(t)
            \/ grant(t) \/ wake(t)

(***************************************************************************)
(* Fairness: a runnable task keeps running, a holder releases what it      *)
(* holds, and a task that wants wait_lock for a release gets it (strong    *)
(* fairness: others may take and drop wait_lock in between).  Nothing is   *)
(* assumed about who asks for the semaphore.                               *)
(***************************************************************************)
Fairness == \A t \in Task :
    /\ WF_vars(check(t)) /\ WF_vars(schedule(t))
    /\ WF_vars(grant(t)) /\ WF_vars(wake(t))
    /\ SF_vars(up_read(t)) /\ SF_vars(up_write(t))

Spec     == Init /\ [][Next]_vars
LiveSpec == Spec /\ Fairness

-----------------------------------------------------------------------------
(***************************************************************************)
(* Who holds the semaphore: those that run with it, the waiters it was     *)
(* granted to that have not run yet, and a downgrader that is still waking *)
(* the readers behind it.                                                  *)
(***************************************************************************)

Waiting(t) == pc[t] \in {"check", "sched"}
Queued(t)  == Waiting(t) /\ waiter_task[t]
Granted(t) == Waiting(t) /\ ~waiter_task[t]
Waker(t)   == pc[t] \in {"grant", "wake"}

Readers == {t \in Task : \/ pc[t] = "read"
                         \/ Granted(t) /\ flags[t] = "read"
                         \/ Waker(t) /\ ret = "read"}
Writers == {t \in Task : \/ pc[t] = "write"
                         \/ Granted(t) /\ flags[t] = "write"}

\* int rwsem_is_locked(sem): the answer it gives in this state.
rwsem_is_locked == wait_lock # NoTask \/ activity # 0

(***************************************************************************)
(* Safety.                                                                 *)
(***************************************************************************)

\* A writer excludes everybody else, from the store that grants the lock on,
\* whatever the waker still has to do (lib/rwsem-spinlock.c:61-137).
Exclusion ==
    /\ \A w1, w2 \in Writers : w1 = w2
    /\ Writers # {} => Readers = {}

\* Whenever wait_lock is free, activity says exactly who holds the semaphore
\* (the comment at include/linux/rwsem-spinlock.h:26-28).
ActivityCounts ==
    wait_lock = NoTask =>
        \/ activity = -1 /\ Readers = {} /\ Writers # {}
        \/ activity = Cardinality(Readers) /\ Writers = {}

\* Nobody waits for a free semaphore, and behind readers it is a writer that
\* waits first: the unchecked assumption of __rwsem_wake_one_writer().
HeadIsWriter ==
    wait_lock = NoTask /\ activity >= 0 /\ wait_list # <<>> =>
        activity > 0 /\ HeadFlags = "write"

\* rwsem_is_locked() never says "unlocked" while somebody holds the
\* semaphore, although readers are granted before activity counts them.
IsLockedSound == Readers \cup Writers # {} => rwsem_is_locked

\* The task_struct references a queued or just granted waiter takes are
\* dropped exactly once, so a waker never wakes a task that may be gone.
RefsBalanced ==
    \A t \in Task : usage[t] = IF Queued(t) \/ t = tsk THEN 2 ELSE 1

\* A task on its way to sleep is either still queued or will be woken: no
\* granted task sleeps once the waker is past it (the order of lines 172-175
\* against 87-88).
NoLostWakeup ==
    \A t \in Task : pc[t] = "sched" /\ state[t] = "UNINTERRUPTIBLE" =>
                        waiter_task[t] \/ t = tsk

\* The semaphore is handed over in arrival order: whoever becomes a holder
\* has nobody ahead of it in wait_list; new arrivals never overtake it.
Fifo ==
    [][\A t \in Task :
         t \in (Readers \cup Writers)' \ (Readers \cup Writers) =>
             wait_list = <<>> \/ t = Head(wait_list)]_vars

\* How every task holds the semaphore, as the abstract lock sees it.
LockMode == [t \in Task |-> IF t \in Writers THEN "write"
                            ELSE IF t \in Readers THEN "read" ELSE "none"]

RW == INSTANCE RWLock WITH mode <- LockMode

\* The semaphore implements the abstract reader/writer lock: every step of
\* the code is a step of RWLock or leaves the holders alone.
ImplementsRWLock == RW!Spec

(***************************************************************************)
(* Liveness: everybody that waits gets the semaphore.                      *)
(***************************************************************************)

\* No waiter starves, readers and writers alike, while holders release.
WaitersServed ==
    \A t \in Task : Waiting(t) ~> pc[t] \in {"read", "write"}
=============================================================================
