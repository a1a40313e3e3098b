------------------------------- MODULE Mutex -------------------------------
(***************************************************************************)
(* The mutex of kernel/mutex.c with the ARMv6+ fast paths of               *)
(* arch/arm/include/asm/mutex.h, as built for the target: no spinning on   *)
(* the owner, no mutex debugging.                                          *)
(*                                                                         *)
(* The fast paths change lock->count without lock->wait_lock, so they      *)
(* interleave with every single access a slow path makes to count: a slow  *)
(* path is cut into steps at these accesses.  A fast path is one ldrex/    *)
(* strex pair, which either happens atomically or, when the exclusive      *)
(* store fails, changes nothing and falls through to the slow path.        *)
(***************************************************************************)
EXTENDS Integers, Sequences, FiniteSets, KList

CONSTANTS Task,         \* the tasks that use the mutex
          Signallable,  \* those among them that signals are sent to
          NoTask        \* wait_lock has no holder

ASSUME TaskAssumption ==
    IsFiniteSet(Task) /\ Signallable \subseteq Task /\ NoTask \notin Task

VARIABLES
    count,          \* lock->count: 1 unlocked, 0 locked, < 0 maybe contended
    wait_list,      \* lock->wait_list: the tasks whose mutex_waiter is on it
    wait_lock,      \* the holder of lock->wait_lock between two steps
    interruptible,  \* interruptible[t]: a signal ends t's wait (its state)
    sig,            \* sig[t]: t has a signal pending of the kind that counts
    state,          \* state[t]: "RUNNING" or "SLEEPING"
    pc              \* pc[t]: where t is in the code

mutexVars == <<count, wait_list, wait_lock, interruptible, sig, state, pc>>

PCs == {"idle", "slow", "try", "sleep", "done", "own", "unlock", "wake"}

MutexTypeOK ==
    /\ count \in Int /\ count <= 1
    /\ wait_list \in Seq(Task)
    /\ wait_lock \in Task \cup {NoTask}
    /\ interruptible \in [Task -> BOOLEAN]
    /\ sig \in [Task -> BOOLEAN]
    /\ state \in [Task -> {"RUNNING", "SLEEPING"}]
    /\ pc \in [Task -> PCs]

MutexInit ==
    /\ count = 1
    /\ wait_list = <<>>
    /\ wait_lock = NoTask
    /\ interruptible = [t \in Task |-> FALSE]
    /\ sig = [t \in Task |-> FALSE]
    /\ state = [t \in Task |-> "RUNNING"]
    /\ pc = [t \in Task |-> "idle"]

goto(t, l) == pc' = [pc EXCEPT ![t] = l]

-----------------------------------------------------------------------------
(***************************************************************************)
(* The fast paths.                                                         *)
(***************************************************************************)

fastpath_lock_ignores_strex(t) ==
    \/ count - 1 = 0 /\ count' = 0 /\ goto(t, "own")
    \/ count - 1 # 0 /\ count' = count - 1 /\ goto(t, "slow")
    \/ count - 1 = 0 /\ count' = count /\ goto(t, "own")

\* ldrex, sub, strex: the result decides, unless the exclusive store failed.
fastpath_lock(t) ==
    \/ count - 1 = 0 /\ count' = 0 /\ goto(t, "own")
    \/ count - 1 # 0 /\ count' = count - 1 /\ goto(t, "slow")
    \/ count' = count /\ goto(t, "slow")

\* mutex_lock(), mutex_lock_interruptible() and mutex_lock_killable() differ
\* in the state their slow path sleeps in.
mutex_lock(t) ==
    /\ pc[t] = "idle"
    /\ fastpath_lock(t)
    /\ interruptible' = [interruptible EXCEPT ![t] = FALSE]
    /\ UNCHANGED <<wait_list, wait_lock, sig, state>>

mutex_lock_interruptible(t) ==
    /\ pc[t] = "idle"
    /\ fastpath_lock(t)
    /\ interruptible' = [interruptible EXCEPT ![t] = TRUE]
    /\ UNCHANGED <<wait_list, wait_lock, sig, state>>

\* A trylock retries a failed store; when count is not 1 it changes nothing.
mutex_trylock(t) ==
    /\ pc[t] = "idle"
    /\ count = 1
    /\ count' = 0
    /\ goto(t, "own")
    /\ UNCHANGED <<wait_list, wait_lock, interruptible, sig, state>>

\* ldrex, add, strex: here the value before the addition decides.
fastpath_unlock(t) ==
    \/ count = 0 /\ count' = 1 /\ goto(t, "idle")
    \/ count # 0 /\ count' = count + 1 /\ goto(t, "unlock")
    \/ count' = count /\ goto(t, "unlock")

mutex_unlock(t) ==
    /\ pc[t] = "own"
    /\ fastpath_unlock(t)
    /\ UNCHANGED <<wait_list, wait_lock, interruptible, sig, state>>

-----------------------------------------------------------------------------
(***************************************************************************)
(* __mutex_lock_common().                                                  *)
(***************************************************************************)

\* The waiter is queued and count exchanged for -1 for the first time.
enqueue(t) ==
    /\ pc[t] = "slow" /\ wait_lock = NoTask
    /\ wait_lock' = t
    /\ wait_list' = Append(wait_list, t)
    /\ count' = -1
    /\ goto(t, IF count = 1 THEN "done" ELSE "try")
    /\ UNCHANGED <<interruptible, sig, state>>

remove_waiter(t) == wait_list' = list_del(wait_list, t)

signal_pending_state_never(t) == FALSE
signal_pending_state(t) == interruptible[t] /\ sig[t]

\* One turn of the loop: exchange again; got it, or interrupted, or sleep.
try_lock(t) ==
    /\ \/ pc[t] = "try" /\ wait_lock = t
       \/ pc[t] = "sleep" /\ state[t] = "RUNNING" /\ wait_lock = NoTask
    /\ count' = -1
    /\ \/ /\ count = 1
          /\ wait_lock' = t
          /\ goto(t, "done")
          /\ UNCHANGED <<wait_list, state>>
       \/ /\ count # 1 /\ signal_pending_state(t)
          /\ remove_waiter(t)
          /\ wait_lock' = NoTask
          /\ goto(t, "idle")
          /\ UNCHANGED state
       \/ /\ count # 1 /\ ~signal_pending_state(t)
          /\ state' = [state EXCEPT ![t] = "SLEEPING"]
          /\ wait_lock' = NoTask
          /\ goto(t, "sleep")
          /\ UNCHANGED wait_list
    /\ UNCHANGED <<interruptible, sig>>

lock_acquired_always_zero(t) ==
    /\ pc[t] = "done"
    /\ remove_waiter(t)
    /\ count' = 0
    /\ wait_lock' = NoTask
    /\ goto(t, "own")
    /\ UNCHANGED <<interruptible, sig, state>>

\* done: the waiter leaves the list; count goes to 0 if it was the last one.
lock_acquired(t) ==
    /\ pc[t] = "done"
    /\ remove_waiter(t)
    /\ count' = IF wait_list' = <<>> THEN 0 ELSE count
    /\ wait_lock' = NoTask
    /\ goto(t, "own")
    /\ UNCHANGED <<interruptible, sig, state>>

(***************************************************************************)
(* __mutex_unlock_common_slowpath(): on ARM it always has to unlock, then  *)
(* it wakes the first waiter, which stays on the list.                     *)
(***************************************************************************)
unlock_slowpath(t) ==
    /\ pc[t] = "unlock" /\ wait_lock = NoTask
    /\ wait_lock' = t
    /\ count' = 1
    /\ goto(t, "wake")
    /\ UNCHANGED <<wait_list, interruptible, sig, state>>

wake_waiter(t) ==
    /\ pc[t] = "wake"
    /\ state' = IF wait_list = <<>> THEN state
                ELSE [state EXCEPT ![Head(wait_list)] = "RUNNING"]
    /\ wait_lock' = NoTask
    /\ goto(t, "idle")
    /\ UNCHANGED <<count, wait_list, interruptible, sig>>

-----------------------------------------------------------------------------
(***************************************************************************)
(* Signals and other wakeups.                                              *)
(***************************************************************************)

signal(t) ==
    /\ t \in Signallable /\ ~sig[t]
    /\ sig' = [sig EXCEPT ![t] = TRUE]
    /\ state' = [state EXCEPT ![t] =
                    IF pc[t] = "sleep" /\ interruptible[t] THEN "RUNNING" ELSE @]
    /\ UNCHANGED <<count, wait_list, wait_lock, interruptible, pc>>

handle_signal(t) ==
    /\ pc[t] = "idle" /\ sig[t]
    /\ sig' = [sig EXCEPT ![t] = FALSE]
    /\ UNCHANGED <<count, wait_list, wait_lock, interruptible, state, pc>>

spurious_wakeup(t) ==
    /\ pc[t] = "sleep" /\ state[t] = "SLEEPING"
    /\ state' = [state EXCEPT ![t] = "RUNNING"]
    /\ UNCHANGED <<count, wait_list, wait_lock, interruptible, sig, pc>>

MutexNext == \E t \in Task :
            \/ mutex_lock(t) \/ mutex_lock_interruptible(t)
            \/ mutex_trylock(t) \/ mutex_unlock(t)
            \/ enqueue(t) \/ try_lock(t) \/ lock_acquired(t)
            \/ unlock_slowpath(t) \/ wake_waiter(t)
            \/ signal(t) \/ handle_signal(t) \/ spurious_wakeup(t)

(***************************************************************************)
(* Fairness: runnable tasks run, owners unlock, and whoever spins for      *)
(* wait_lock gets it some time (strong fairness).  Nobody has to lock.     *)
(***************************************************************************)
MutexFairness == \A t \in Task :
    /\ SF_mutexVars(enqueue(t)) /\ SF_mutexVars(try_lock(t))
    /\ WF_mutexVars(lock_acquired(t))
    /\ WF_mutexVars(mutex_unlock(t))
    /\ SF_mutexVars(unlock_slowpath(t)) /\ WF_mutexVars(wake_waiter(t))

MutexSpec     == MutexInit /\ [][MutexNext]_mutexVars
MutexLiveSpec == MutexSpec /\ MutexFairness

-----------------------------------------------------------------------------
(***************************************************************************)
(* A task owns the mutex from the exchange that returns 1 to the store or  *)
(* the addition that sets count to 1.                                      *)
(***************************************************************************)
Owners     == {t \in Task : pc[t] \in {"own", "done", "unlock"}}
Waiting(t) == pc[t] \in {"slow", "try", "sleep"}

\* Two tasks never own the mutex, and count is 1 exactly when nobody does,
\* although fast paths decrement it and slow paths overwrite it at any time.
MutualExclusion ==
    /\ \A t, u \in Owners : t = u
    /\ count = 1 <=> Owners = {}

\* count cannot run away downwards: every decrement that fails to lock is
\* made good by the exchange of the slow path that follows it.
CountBounded == count >= -1 - Cardinality({t \in Task : pc[t] = "slow"})

\* The list holds the tasks inside the slow path, once each: no return path
\* leaves a pointer to a dead stack frame on it.
ListExact ==
    /\ \A t \in Task : OnList(wait_list, t) <=> pc[t] \in {"try", "sleep", "done"}
    /\ NoDup(wait_list)

\* When wait_lock is free and there are waiters, either the next unlock must
\* take the slow path, or an owner is in it, or the first waiter is awake and
\* will exchange count again (the reason for the exchange at line 238).
NoLostWakeup ==
    wait_lock = NoTask /\ wait_list # <<>> =>
        \/ count < 0
        \/ \E t \in Task : pc[t] = "unlock"
        \/ state[Head(wait_list)] = "RUNNING"

\* The mutex as the abstract lock sees it: it has writers only.
LockMode == [t \in Task |-> IF t \in Owners THEN "write" ELSE "none"]

RW == INSTANCE RWLock WITH mode <- LockMode

\* The mutex implements the abstract lock: a task gets it only when nobody
\* has it, whichever of the fast and slow paths it comes from.
ImplementsRWLock == RW!Spec

\* A waiter waits forever only while others keep taking the mutex: it is
\* never left behind on an idle one.
WaiterNotStuck ==
    \A t \in Task :
        <>[](Waiting(t)) =>
            []<><<Owners = {} /\ Owners' # {}>>_mutexVars

\* A signal ends an interruptible wait.
InterruptReturns ==
    \A t \in Task : Waiting(t) /\ interruptible[t] /\ sig[t] ~> ~Waiting(t)
=============================================================================
