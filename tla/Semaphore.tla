----------------------------- MODULE Semaphore -----------------------------
(***************************************************************************)
(* The counting semaphore of kernel/semaphore.c.                           *)
(*                                                                         *)
(* Everything but the sleep itself happens under sem->lock, so a step is   *)
(* one stretch of sem->lock: from the call to the first sleep or the       *)
(* return, and from the end of a sleep to the next one or the return.      *)
(* What makes the code delicate is what arrives during the sleep: an up(), *)
(* a signal and the end of the timeout, in any order and combination.      *)
(***************************************************************************)
EXTENDS Integers, Sequences, FiniteSets, KList

CONSTANTS Task,       \* the tasks that call down and its variants
          InitCount,  \* the val of sema_init()
          MaxCount    \* bound: no up() raises count above it

ASSUME SemAssumption ==
    /\ IsFiniteSet(Task)
    /\ InitCount \in Nat
    /\ MaxCount \in Nat
    /\ InitCount <= MaxCount

VARIABLES
    count,      \* sem->count
    wait_list,  \* sem->wait_list: the tasks whose semaphore_waiter is on it
    got_up,     \* got_up[t]: waiter.up of t's waiter
    mode,       \* mode[t]: the state t sleeps in
    timeout,    \* timeout[t]: "max" (never ends), "left" or "zero"
    state,      \* state[t]: "RUNNING" or "SLEEPING" in mode[t]
    sig,        \* sig[t]: the signal pending for t
    pc,         \* pc[t]: "idle" or "sleep" (schedule_timeout() or after it)
    owed        \* ghost: calls of down that returned 0 minus calls of up()

vars == <<count, wait_list, got_up, mode, timeout, state, sig, pc, owed>>

Modes == {"UNINTERRUPTIBLE", "INTERRUPTIBLE", "KILLABLE"}

TypeOK ==
    /\ count \in Nat
    /\ wait_list \in Seq(Task)
    /\ got_up \in [Task -> BOOLEAN]
    /\ mode \in [Task -> Modes]
    /\ timeout \in [Task -> {"max", "left", "zero"}]
    /\ state \in [Task -> {"RUNNING", "SLEEPING"}]
    /\ sig \in [Task -> {"none", "signal", "fatal"}]
    /\ pc \in [Task -> {"idle", "sleep"}]
    /\ owed \in Int

Init ==
    /\ count = InitCount
    /\ wait_list = <<>>
    /\ got_up = [t \in Task |-> FALSE]
    /\ mode = [t \in Task |-> "UNINTERRUPTIBLE"]
    /\ timeout = [t \in Task |-> "max"]
    /\ state = [t \in Task |-> "RUNNING"]
    /\ sig = [t \in Task |-> "none"]
    /\ pc = [t \in Task |-> "idle"]
    /\ owed = 0

-----------------------------------------------------------------------------
\* signal_pending_state(m, t) when t has signal s pending.
signal_pending_state(m, s) ==
    \/ m = "INTERRUPTIBLE" /\ s # "none"
    \/ m = "KILLABLE" /\ s = "fatal"

\* What ends a wait without the semaphore: a signal or the timeout.
gives_up_no_timeout(t) == signal_pending_state(mode[t], sig[t])
gives_up(t) == signal_pending_state(mode[t], sig[t]) \/ timeout[t] = "zero"

take_without_decrement ==
    /\ count > 0
    /\ owed' = owed + 1
    /\ UNCHANGED <<count, wait_list, got_up, mode, timeout, state, sig, pc>>

\* The uncontended half of every down: sem->count-- and return 0.
take ==
    /\ count > 0
    /\ count' = count - 1
    /\ owed' = owed + 1
    /\ UNCHANGED <<wait_list, got_up, mode, timeout, state, sig, pc>>

\* The contended half, __down_common() up to its first sleep.  A pending
\* signal or a timeout that is over makes it return at once: the waiter is
\* added and removed in the same stretch of sem->lock.
down_common(t, m, limit) ==
    /\ count = 0
    /\ \/ /\ signal_pending_state(m, sig[t]) \/ limit = "zero"
          /\ UNCHANGED <<wait_list, got_up, mode, timeout, state, pc>>
       \/ /\ ~signal_pending_state(m, sig[t]) /\ limit # "zero"
          /\ wait_list' = Append(wait_list, t)
          /\ got_up' = [got_up EXCEPT ![t] = FALSE]
          /\ mode' = [mode EXCEPT ![t] = m]
          /\ timeout' = [timeout EXCEPT ![t] = limit]
          /\ state' = [state EXCEPT ![t] = "SLEEPING"]
          /\ pc' = [pc EXCEPT ![t] = "sleep"]
    /\ UNCHANGED <<count, sig, owed>>

down(t) ==
    pc[t] = "idle" /\ (take \/ down_common(t, "UNINTERRUPTIBLE", "max"))

down_interruptible(t) ==
    pc[t] = "idle" /\ (take \/ down_common(t, "INTERRUPTIBLE", "max"))

down_killable(t) ==
    pc[t] = "idle" /\ (take \/ down_common(t, "KILLABLE", "max"))

down_timeout(t) ==
    /\ pc[t] = "idle"
    /\ \/ take
       \/ \E jiffies \in {"zero", "left"} :
             down_common(t, "UNINTERRUPTIBLE", jiffies)

\* down_trylock(), from a task or an interrupt; a failure changes nothing.
down_trylock == count - 1 >= 0 /\ take

\* t is back from schedule_timeout() and takes sem->lock again: the rest of
\* the loop body and the test at the head of the next iteration.
resume(t) ==
    /\ pc[t] = "sleep" /\ state[t] = "RUNNING"
    /\ \/ /\ got_up[t]
          /\ pc' = [pc EXCEPT ![t] = "idle"]
          /\ owed' = owed + 1
          /\ UNCHANGED <<wait_list, state>>
       \/ /\ ~got_up[t]
          /\ gives_up(t)
          /\ wait_list' = list_del(wait_list, t)
          /\ pc' = [pc EXCEPT ![t] = "idle"]
          /\ UNCHANGED <<state, owed>>
       \/ /\ ~got_up[t]
          /\ ~gives_up(t)
          /\ state' = [state EXCEPT ![t] = "SLEEPING"]
          /\ UNCHANGED <<wait_list, pc, owed>>
    /\ UNCHANGED <<count, got_up, mode, timeout, sig>>

up_waiter_no_wakeup ==
    /\ wait_list' = Tail(wait_list)
    /\ got_up' = [got_up EXCEPT ![Head(wait_list)] = TRUE]
    /\ UNCHANGED <<state, count>>

up_waiter_last_first ==
    LET w == wait_list[Len(wait_list)]
    IN  /\ wait_list' = list_del(wait_list, w)
        /\ got_up' = [got_up EXCEPT ![w] = TRUE]
        /\ state' = [state EXCEPT ![w] = "RUNNING"]
        /\ UNCHANGED count

\* __up(): the first waiter is taken off the list, marked and woken.
up_waiter ==
    /\ wait_list' = Tail(wait_list)
    /\ got_up' = [got_up EXCEPT ![Head(wait_list)] = TRUE]
    /\ state' = [state EXCEPT ![Head(wait_list)] = "RUNNING"]
    /\ UNCHANGED count

\* up(), which anybody may call: a holder, another task, an interrupt.
up ==
    /\ \/ /\ wait_list = <<>>
          /\ count < MaxCount
          /\ count' = count + 1
          /\ UNCHANGED <<wait_list, got_up, state>>
       \/ wait_list # <<>> /\ up_waiter
    /\ owed' = owed - 1
    /\ UNCHANGED <<mode, timeout, sig, pc>>

-----------------------------------------------------------------------------
(***************************************************************************)
(* What the rest of the kernel does to a sleeper.                          *)
(***************************************************************************)

\* The timer of schedule_timeout() runs out; the task may be awake already.
expire(t) ==
    /\ pc[t] = "sleep" /\ timeout[t] = "left"
    /\ timeout' = [timeout EXCEPT ![t] = "zero"]
    /\ state' = [state EXCEPT ![t] = "RUNNING"]
    /\ UNCHANGED <<count, wait_list, got_up, mode, sig, pc, owed>>

\* A signal is sent; it wakes the task if it sleeps in a mode that allows it.
signal(t) ==
    /\ \E s \in {"signal", "fatal"} :
          /\ sig[t] # "fatal" /\ s # sig[t]
          /\ sig' = [sig EXCEPT ![t] = s]
          /\ state' = [state EXCEPT ![t] =
                          IF pc[t] = "sleep" /\ signal_pending_state(mode[t], s)
                          THEN "RUNNING" ELSE @]
    /\ UNCHANGED <<count, wait_list, got_up, mode, timeout, pc, owed>>

\* Outside of the semaphore code the task handles its signal.
handle_signal(t) ==
    /\ pc[t] = "idle" /\ sig[t] # "none"
    /\ sig' = [sig EXCEPT ![t] = "none"]
    /\ UNCHANGED <<count, wait_list, got_up, mode, timeout, state, pc, owed>>

\* A wake-up that was meant for something else.
spurious_wakeup(t) ==
    /\ pc[t] = "sleep" /\ state[t] = "SLEEPING"
    /\ state' = [state EXCEPT ![t] = "RUNNING"]
    /\ UNCHANGED <<count, wait_list, got_up, mode, timeout, sig, pc, owed>>

Next ==
    \/ up
    \/ down_trylock
    \/ \E t \in Task :
          \/ down(t) \/ down_interruptible(t) \/ down_killable(t)
          \/ down_timeout(t) \/ resume(t) \/ expire(t) \/ signal(t)
          \/ handle_signal(t) \/ spurious_wakeup(t)

\* The fairness of the scheduler and of the timer: awake tasks run, timers
\* that were started run out.  Nobody has to call up().
SchedFairness == \A t \in Task : WF_vars(resume(t)) /\ WF_vars(expire(t))

Spec     == Init /\ [][Next]_vars
LiveSpec == Spec /\ SchedFairness

-----------------------------------------------------------------------------
\* The waiters that have been handed the semaphore and have not run since.
Granted == {t \in Task : pc[t] = "sleep" /\ got_up[t]}

\* No call of down or up() loses or makes up a unit of the semaphore, even
\* when up(), a signal and a timeout hit the same sleeper (lines 214-234).
TokensConserved == count + Cardinality(Granted) + owed = InitCount

\* A unit is never left in count while somebody waits for it: up() and the
\* waiters that give up (lines 183-186, 227-233) keep the two apart.
NoIdleToken == count > 0 => wait_list = <<>>

\* The list holds the sleepers that were not handed the semaphore, once each:
\* no return path leaves a pointer to a dead stack frame on it.
ListExact ==
    /\ \A t \in Task : OnList(wait_list, t) <=> pc[t] = "sleep" /\ ~got_up[t]
    /\ NoDup(wait_list)

\* Nobody sleeps on after being handed the semaphore, after the end of its
\* timeout, or with a signal pending that ends its kind of sleep.
NoLostWakeup ==
    \A t \in Task : pc[t] = "sleep" /\ state[t] = "SLEEPING" =>
        ~got_up[t] /\ timeout[t] # "zero" /\ ~signal_pending_state(mode[t], sig[t])

\* Units go to waiters in the order of arrival and nobody overtakes them: a
\* unit is taken from count only when no one waits, and handed to the first.
Fifo ==
    [][/\ count' < count => wait_list = <<>>
       /\ \A t \in Task : t \in Granted' \ Granted => t = Head(wait_list)]_vars

\* A sleep that its timeout or a fatal signal is to end comes back even if
\* nobody ever calls up(): down_timeout(), and down_killable() and
\* down_interruptible() after a fatal signal.
BoundedDownReturns ==
    \A t \in Task :
        pc[t] = "sleep"
            /\ \/ timeout[t] = "left"
               \/ sig[t] = "fatal" /\ mode[t] # "UNINTERRUPTIBLE"
        ~> pc[t] = "idle"

\* While those that got the semaphore release it, no sleeper starves.
SleepersServed ==
    WF_vars(owed > 0 /\ up) => \A t \in Task : pc[t] = "sleep" ~> pc[t] = "idle"
=============================================================================
