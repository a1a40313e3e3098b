------------------------------ MODULE WakeLock ------------------------------
(***************************************************************************)
(* Android wake locks: kernel/power/wakelock.c as it is in this tree, with *)
(* the has_wake_lock_locked_test() that has_wake_lock() calls.             *)
(*                                                                         *)
(* wakelock.c keeps its data under list_lock with interrupts off, so every *)
(* entry point is one step on the record wl; the operators below take such *)
(* a record and return the new one, the way the C functions call each      *)
(* other.  The suspend work runs on the single thread of                   *)
(* suspend_work_queue and interleaves with everybody else between its      *)
(* calls.  Only locks of type WAKE_LOCK_SUSPEND are modelled: the list of  *)
(* the other type never meets the suspend code.  The configuration of the  *)
(* board (imx5_android_defconfig) is PREEMPT without SMP, so that          *)
(* wake_unlock() called with list_lock held does not deadlock.             *)
(***************************************************************************)
EXTENDS KList, FiniteSetsExt, SequencesExt

CONSTANTS
    main_wake_lock,   \* held while the user wants the system on
    unknown_wakeup,   \* taken by suspend() itself
    power_manager,    \* the lock that has the name "PowerManagerService"
    UserLock,         \* locks user space takes, through the kernel
    DriverLock,       \* locks drivers take, at any time the CPU runs
    Work,             \* what others put on suspend_work_queue
    MaxTimeout        \* bound: the longest timeout, in ticks

Lock == {main_wake_lock, unknown_wakeup} \cup UserLock \cup DriverLock

ASSUME LockAssumption ==
    /\ main_wake_lock # unknown_wakeup
    /\ {main_wake_lock, unknown_wakeup} \cap (UserLock \cup DriverLock) = {}
    /\ UserLock \cap DriverLock = {}
    /\ IsFiniteSet(Lock)
    /\ power_manager \notin DriverLock \cup {main_wake_lock, unknown_wakeup}
    /\ MaxTimeout \in Nat \ {0}

VARIABLES
    wl,       \* the static data of wakelock.c, see WLType
    worker,   \* where the thread of suspend_work_queue is
    callback  \* the timer has expired, its callback waits for list_lock

wlVars == <<wl, worker, callback>>

Off == -1   \* a timer that is not pending

WLType ==
    [active  : Seq(Lock),                \* active_wake_locks[WAKE_LOCK_SUSPEND]
     timed   : SUBSET Lock,              \* WAKE_LOCK_AUTO_EXPIRE
     left    : [Lock -> 0 .. MaxTimeout], \* expires - jiffies, 0 when past or unused
     timer   : Off .. MaxTimeout,        \* expire_timer, relative to jiffies
     event   : BOOLEAN,                  \* current_event_num # entry_event_num
     queue   : Seq({"suspend"} \cup Work)]      \* suspend_work_queue

\* main_wake_lock is taken at boot, by wakelocks_init().
WLInit ==
    [active  |-> <<main_wake_lock>>,
     timed   |-> {},
     left    |-> [l \in Lock |-> 0],
     timer   |-> Off,
     event   |-> FALSE,
     queue   |-> <<>>]

-----------------------------------------------------------------------------
(***************************************************************************)
(* Functions of wakelock.c that run under list_lock.                       *)
(***************************************************************************)

IsActive(w, l) == l \in ToSet(w.active)

\* queue_work(): nothing happens when the work is pending already.
queue_work(w, work) ==
    IF work \in ToSet(w.queue) THEN w
    ELSE [w EXCEPT !.queue = Append(@, work)]

\* expire_wake_lock() for every lock of S, and the first half of wake_unlock.
deactivate(w, S) ==
    [w EXCEPT !.active  = list_del_all(@, S),
              !.timed   = @ \ S,
              !.left    = [l \in Lock |-> IF l \in S THEN 0 ELSE @[l]]]

\* Every active lock has a timeout: a scan from the head meets no other.
AllTimed(w) == ToSet(w.active) \subseteq w.timed

\* Where the scan stops, if it does, and the locks that it meets before.
FirstUntimed(w) == {i \in DOMAIN w.active :
                        /\ w.active[i] \notin w.timed
                        /\ \A j \in 1 .. i - 1 : w.active[j] \in w.timed}
TimedAhead(w) == {w.active[i] : i \in {k \in DOMAIN w.active :
                                         \A j \in 1 .. k : w.active[j] \in w.timed}}

\* The return value of has_wake_lock_locked() and what it does to the lists.
has_wake_lock_locked_ret_shortest(w) ==
    IF ~AllTimed(w) THEN -1
    ELSE LET running == {w.left[l] : l \in ToSet(w.active)} \ {0}
         IN  IF running = {} THEN 0 ELSE Min(running)

has_wake_lock_locked_ret(w) ==
    IF AllTimed(w) THEN Max({w.left[l] : l \in ToSet(w.active)} \cup {0}) ELSE -1

has_wake_lock_locked(w) ==
    deactivate(w, {l \in TimedAhead(w) : w.left[l] = 0})

\* Both ends of wake_lock_internal() and wake_unlock(): the timer is started
\* or stopped, and when no lock is left the suspend work is queued.
rearm_keeps_timer(w, r) ==
    IF r > 0 THEN w
    ELSE LET off == [w EXCEPT !.timer = Off]
         IN  IF r = 0 THEN queue_work(off, "suspend") ELSE off

rearm(w, r) ==
    IF r > 0 THEN [w EXCEPT !.timer = r]
    ELSE LET off == [w EXCEPT !.timer = Off]
         IN  IF r = 0 THEN queue_work(off, "suspend") ELSE off

\* The move of a lock on the active list: an untimed one to the head, one
\* with a timeout to the tail, which is what lets a scan stop early.
activate(w, l, timeout) ==
    LET rest == list_del_all(w.active, {l})
    IN  IF timeout = Off
        THEN [w EXCEPT !.active = <<l>> \o rest, !.timed = @ \ {l},
                       !.left[l] = 0]
        ELSE [w EXCEPT !.active = Append(rest, l), !.timed = @ \cup {l},
                       !.left[l] = timeout]

\* wake_lock_internal(l, timeout): timeout is Off for wake_lock(l).
wake_lock_internal(w, l, timeout) ==
    LET added == [activate(w, l, timeout) EXCEPT !.event = TRUE]
    IN  IF timeout = Off THEN rearm(added, -1)
        ELSE rearm(has_wake_lock_locked(added), has_wake_lock_locked_ret(added))

wake_unlock(w, l) ==
    LET off == deactivate(w, {l})
    IN  rearm(has_wake_lock_locked(off), has_wake_lock_locked_ret(off))

\* has_wake_lock_locked_test(): locks with a timeout are dropped, over or not,
\* and so is a first untimed lock that has the name "PowerManagerService".
has_wake_lock_ret(w) ==
    IF \E i \in FirstUntimed(w) : w.active[i] # power_manager THEN -1 ELSE 0

has_wake_lock(w) ==
    LET dropped == deactivate(w, TimedAhead(w))
    IN  IF \E i \in FirstUntimed(w) : w.active[i] = power_manager
        THEN wake_unlock(dropped, power_manager) ELSE dropped

-----------------------------------------------------------------------------
(***************************************************************************)
(* Who calls.  User space is frozen from suspend_prepare() to the thaw of  *)
(* suspend_finish(); drivers run until the CPU stops.                      *)
(***************************************************************************)

Awake  == worker # "asleep"
Thawed == worker \notin {"frozen", "asleep"}

MayUse(l) == IF l \in DriverLock THEN Awake ELSE Thawed

wake_lock(l) ==
    /\ MayUse(l)
    /\ wl' = wake_lock_internal(wl, l, Off)
    /\ UNCHANGED <<worker, callback>>

wake_lock_timeout(l) ==
    /\ MayUse(l)
    /\ \E timeout \in 0 .. MaxTimeout :
          wl' = wake_lock_internal(wl, l, timeout)
    /\ UNCHANGED <<worker, callback>>

wake_unlock_call(l) ==
    /\ MayUse(l)
    /\ wl' = wake_unlock(wl, l)
    /\ UNCHANGED <<worker, callback>>

(***************************************************************************)
(* Time.                                                                   *)
(***************************************************************************)
Down(n) == IF n > 0 THEN n - 1 ELSE n

tick ==
    /\ Awake
    /\ (\E l \in wl.timed : wl.left[l] > 0) \/ wl.timer > 0
    /\ wl' = [wl EXCEPT !.left = [l \in Lock |-> Down(@[l])],
                        !.timer = Down(@)]
    /\ UNCHANGED <<worker, callback>>

timer_expires ==
    /\ Awake /\ wl.timer = 0 /\ ~callback
    /\ wl' = [wl EXCEPT !.timer = Off]
    /\ callback' = TRUE
    /\ UNCHANGED worker

expire_wake_locks ==
    /\ Awake /\ callback
    /\ LET w == has_wake_lock_locked(wl)
       IN  wl' = IF has_wake_lock_locked_ret(wl) = 0
                 THEN queue_work(w, "suspend") ELSE w
    /\ callback' = FALSE
    /\ UNCHANGED worker

(***************************************************************************)
(* The thread of suspend_work_queue: suspend(), with pm_suspend() cut at   *)
(* the points where the set of those who may run changes.                  *)
(***************************************************************************)

\* run_workqueue() clears the pending bit before it calls the function.
run_work ==
    /\ worker = "idle" /\ wl.queue # <<>>
    /\ worker' = Head(wl.queue)
    /\ wl' = [wl EXCEPT !.queue = Tail(@)]
    /\ UNCHANGED callback

suspend_check ==
    /\ worker = "suspend"
    /\ wl' = has_wake_lock(wl)
    /\ worker' = IF has_wake_lock_ret(wl) = 0 THEN "entry" ELSE "idle"
    /\ UNCHANGED callback

\* entry_event_num = current_event_num, then sys_sync().
suspend_entry ==
    /\ worker = "entry"
    /\ wl' = [wl EXCEPT !.event = FALSE]
    /\ worker' = "pm_suspend"
    /\ UNCHANGED callback

\* pm_suspend() begins, or fails: another suspend is under way, say.
pm_suspend ==
    /\ worker = "pm_suspend"
    /\ worker' \in {"freezing", "exit"}
    /\ UNCHANGED <<wl, callback>>

\* User space runs until the last task is frozen; freezing may fail.
freeze_processes ==
    /\ worker = "freezing"
    /\ worker' \in {"frozen", "exit"}
    /\ UNCHANGED <<wl, callback>>

\* A device fails to suspend before the platform device "power" is asked.
suspend_fails ==
    /\ worker = "frozen"
    /\ worker' = "exit"
    /\ UNCHANGED <<wl, callback>>

\* power_suspend_late() has the last word.
power_suspend_late ==
    /\ worker = "frozen"
    /\ wl' = has_wake_lock(wl)
    /\ worker' = IF has_wake_lock_ret(wl) = 0 THEN "asleep" ELSE "exit"
    /\ UNCHANGED callback

\* The hardware wakes the system up; pm_suspend() returns.
wakeup ==
    /\ worker = "asleep"
    /\ worker' = "exit"
    /\ UNCHANGED <<wl, callback>>

suspend_exit ==
    /\ worker = "exit"
    /\ wl' = IF wl.event THEN wl
             ELSE wake_lock_internal(wl, unknown_wakeup, MaxTimeout)
    /\ worker' = "idle"
    /\ UNCHANGED callback

suspend == \/ run_work \/ suspend_check \/ suspend_entry \/ pm_suspend
           \/ freeze_processes \/ suspend_fails \/ power_suspend_late \/ wakeup \/ suspend_exit

-----------------------------------------------------------------------------
Init ==
    /\ wl = WLInit
    /\ worker = "idle"
    /\ callback = FALSE

\* main_wake_lock is used without a timeout, by the early suspend code.
Next ==
    \/ \E l \in UserLock \cup DriverLock \cup {main_wake_lock} :
          wake_lock(l) \/ wake_unlock_call(l)
    \/ \E l \in (UserLock \cup DriverLock) \ {power_manager} :
          wake_lock_timeout(l)
    \/ tick \/ timer_expires \/ expire_wake_locks
    \/ run_work \/ suspend_check \/ suspend_entry \/ pm_suspend
    \/ freeze_processes \/ suspend_fails \/ power_suspend_late \/ wakeup \/ suspend_exit

(***************************************************************************)
(* Fairness: time passes, timers run, the work queue's thread runs, and a  *)
(* sleeping system is woken some time.  Nobody has to use a lock.          *)
(***************************************************************************)
Fairness ==
    /\ WF_wlVars(tick) /\ WF_wlVars(timer_expires)
    /\ WF_wlVars(expire_wake_locks) /\ WF_wlVars(suspend)

Spec     == Init /\ [][Next]_wlVars
LiveSpec == Spec /\ Fairness

-----------------------------------------------------------------------------
TypeOK ==
    /\ wl \in WLType
    /\ worker \in {"idle", "suspend", "entry", "pm_suspend", "freezing",
                   "frozen", "asleep", "exit"} \cup Work
    /\ callback \in BOOLEAN

InSuspend == worker \in {"suspend", "entry", "pm_suspend", "freezing",
                         "frozen", "asleep", "exit"}

\* A suspend is never forgotten: while every active lock has a timeout, or
\* none is left, the suspend work is queued or runs, or the timer is on its
\* way to queue it (lines 330-345, 484-496, 528-541 and 322-326).
SuspendScheduled ==
    AllTimed(wl) =>
        \/ "suspend" \in ToSet(wl.queue)
        \/ InSuspend
        \/ wl.timer # Off
        \/ callback

\* When the timer is left to its own, it expires after the last of the
\* active locks: expire_wake_locks() does not start it again.
TimerCoversLocks ==
    AllTimed(wl) /\ ~InSuspend /\ "suspend" \notin ToSet(wl.queue) /\ ~callback =>
        \A l \in ToSet(wl.active) : wl.left[l] <= wl.timer

\* With no lock left but the one that suspend() takes itself, the system
\* tries to suspend again and again.
SuspendRetried ==
    <>[](ToSet(wl.active) \subseteq {unknown_wakeup})
        => []<>(worker = "pm_suspend")

(***************************************************************************)
(* What include/linux/wakelock.h promises.                                 *)
(***************************************************************************)

\* Locks that are held: untimed, or their time is not over.
HeldLocks(w) == {l \in ToSet(w.active) : l \notin w.timed \/ w.left[l] > 0}

\* wakelock.h:22-24: an active wake lock prevents a full system suspend.
NoSleepWhileLocked == worker = "asleep" => HeldLocks(wl) = {}
=============================================================================
