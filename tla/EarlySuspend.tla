---------------------------- MODULE EarlySuspend ----------------------------
(***************************************************************************)
(* Early suspend, kernel/power/earlysuspend.c, on top of the wake locks:   *)
(* user space writes the state it wants to /sys/power/state, drivers       *)
(* register handlers, and the works early_suspend_work and                 *)
(* late_resume_work share the single thread of suspend_work_queue with     *)
(* suspend_work of wakelock.c.                                             *)
(*                                                                         *)
(* A stretch under state_lock is one step.  early_suspend_lock is held     *)
(* while handlers run, and state is read and written by others meanwhile.  *)
(* The mode a handler is told, pos->pm_mode, is left out: what the works   *)
(* and requests do depends on mode and last_mode only.                     *)
(***************************************************************************)
EXTENDS WakeLock

CONSTANTS Requester,    \* tasks that write to /sys/power/state
          Handler,      \* the early_suspend structures drivers register
          level         \* level[h]: the level a handler asks for

\* The places of the worker that are not a barrier's.
Place == {"idle", "suspend", "entry", "pm_suspend", "freezing", "frozen", "asleep",
          "exit", "early_suspend", "es_handlers", "es_finish", "late_resume",
          "lr_handlers"}

ASSUME EarlySuspendAssumption ==
    /\ level \in [Handler -> Int]
    /\ Work = {"early_suspend", "late_resume"} \cup Requester
    /\ Requester \cap Place = {}

VARIABLES
    state,      \* the bits of state that are set
    mode,       \* mode: how handlers are to suspend
    last_mode,  \* last_mode
    requested,  \* requested_suspend_state
    handlers,   \* early_suspend_handlers
    off,        \* off[h]: the last call to h was suspend
    flushing    \* flushing[r]: r's new_state while it flushes

esVars == <<state, mode, last_mode, requested, handlers, off, flushing>>
vars   == <<wlVars, esVars>>

AllBits == {"SUSPEND_REQUESTED", "SUSPENDED"}
NoState == "none"

ESInit ==
    /\ Init
    /\ state = {} /\ mode = "NORMAL" /\ last_mode = "unset"
    /\ requested = "mem"
    /\ handlers = <<>>
    /\ off = [h \in Handler |-> FALSE]
    /\ flushing = [r \in Requester |-> NoState]

-----------------------------------------------------------------------------
\* The worker holds early_suspend_lock while it is in one of these places.
early_suspend_lock_free == worker \notin {"es_handlers", "lr_handlers"}

\* Before the first handler of a higher level.
Position(h) == {pos \in 1 .. Len(handlers) + 1 :
                   /\ \A i \in 1 .. pos - 1 : level[handlers[i]] <= level[h]
                   /\ pos \in DOMAIN handlers => level[handlers[pos]] > level[h]}

\* A version that does not look at state.
register_early_suspend_state_ignored(h) ==
    /\ early_suspend_lock_free /\ Thawed
    /\ h \notin ToSet(handlers)
    /\ \E pos \in Position(h) : handlers' = InsertAt(handlers, pos, h)
    /\ off' = [off EXCEPT ![h] = FALSE]
    /\ UNCHANGED <<wlVars, state, mode, last_mode, requested, flushing>>

register_early_suspend(h) ==
    /\ early_suspend_lock_free /\ Thawed
    /\ h \notin ToSet(handlers)
    /\ \E pos \in Position(h) : handlers' = InsertAt(handlers, pos, h)
    /\ off' = [off EXCEPT ![h] = "SUSPENDED" \in state]
    /\ UNCHANGED <<wlVars, state, mode, last_mode, requested, flushing>>

unregister_early_suspend(h) ==
    /\ early_suspend_lock_free /\ Thawed
    /\ h \in ToSet(handlers)
    /\ handlers' = list_del(handlers, h)
    /\ off' = [off EXCEPT ![h] = FALSE]
    /\ UNCHANGED <<wlVars, state, mode, last_mode, requested, flushing>>

-----------------------------------------------------------------------------
(***************************************************************************)
(* The two works.                                                          *)
(***************************************************************************)

early_suspend_abort_returns ==
    /\ worker = "early_suspend"
    /\ \/ /\ state = {"SUSPEND_REQUESTED"}
          /\ state' = AllBits
          /\ worker' = "es_handlers"
       \/ /\ state # {"SUSPEND_REQUESTED"}
          /\ worker' = "idle"
          /\ UNCHANGED state
    /\ UNCHANGED <<wl, callback, mode, last_mode, requested, handlers, off, flushing>>

early_suspend ==
    /\ worker = "early_suspend"
    /\ \/ /\ state = {"SUSPEND_REQUESTED"}
          /\ state' = AllBits
          /\ worker' = "es_handlers"
       \/ /\ state # {"SUSPEND_REQUESTED"}
          /\ worker' = "es_finish"
          /\ UNCHANGED state
    /\ UNCHANGED <<wl, callback, mode, last_mode, requested, handlers, off, flushing>>

call_suspend ==
    /\ worker = "es_handlers"
    /\ off' = [h \in Handler |-> h \in ToSet(handlers)]
    /\ worker' = "es_finish"
    /\ UNCHANGED <<wl, callback, state, mode, last_mode, requested, handlers,
                   flushing>>

early_suspend_finish_unchecked ==
    /\ worker = "es_finish"
    /\ wl' = wake_unlock(wl, main_wake_lock)
    /\ worker' = "idle"
    /\ UNCHANGED <<callback, esVars>>

\* The state may have changed while the handlers ran: it is looked at again.
early_suspend_finish ==
    /\ worker = "es_finish"
    /\ wl' = IF state = AllBits THEN wake_unlock(wl, main_wake_lock) ELSE wl
    /\ worker' = "idle"
    /\ UNCHANGED <<callback, esVars>>

late_resume_unchecked ==
    /\ worker = "late_resume"
    /\ state' = state \ {"SUSPENDED"}
    /\ worker' = "lr_handlers"
    /\ UNCHANGED <<wl, callback, mode, last_mode, requested, handlers, off, flushing>>

late_resume ==
    /\ worker = "late_resume"
    /\ \/ /\ state = {"SUSPENDED"}
          /\ state' = {}
          /\ worker' = "lr_handlers"
       \/ /\ state # {"SUSPENDED"}
          /\ worker' = "idle"
          /\ UNCHANGED state
    /\ UNCHANGED <<wl, callback, mode, last_mode, requested, handlers, off, flushing>>

call_resume ==
    /\ worker = "lr_handlers"
    /\ off' = [h \in Handler |-> FALSE]
    /\ worker' = "idle"
    /\ UNCHANGED <<wl, callback, state, mode, last_mode, requested, handlers, flushing>>

-----------------------------------------------------------------------------
(***************************************************************************)
(* request_suspend_state().                                                *)
(***************************************************************************)

NewMode(s) == IF s = "standby" THEN "EINK" ELSE "NORMAL"

\* Standby is suspend to memory in another mode.
NewState(s) == IF s = "on" THEN "on" ELSE "mem"

\* The user turns the system on: it stays awake from here on, and the
\* handlers are resumed by the work.
turn_on_no_work(w) == wake_lock_internal(w, main_wake_lock, Off)

turn_on(w) ==
    queue_work(wake_lock_internal(w, main_wake_lock, Off), "late_resume")

\* The part that follows the first test, under state_lock.  old_sleep is the
\* value read at the start, before a flush.
finish_request(s, old_sleep, m) ==
    /\ \/ /\ ~old_sleep /\ s # "on"
          /\ state' = state \cup {"SUSPEND_REQUESTED"}
          /\ wl' = queue_work(wl, "early_suspend")
       \/ /\ old_sleep /\ s = "on"
          /\ state' = state \ {"SUSPEND_REQUESTED"}
          /\ wl' = turn_on(wl)
       \/ /\ old_sleep <=> s # "on"
          /\ UNCHANGED <<state, wl>>
    /\ last_mode' = IF s # "on" THEN m ELSE last_mode
    /\ requested' = NewState(s)

\* Handlers that are suspended in another mode have to be resumed first.
NeedsFlush(s) ==
    /\ s # "on" /\ "SUSPEND_REQUESTED" \notin state
    /\ "SUSPENDED" \in state /\ last_mode # NewMode(s)

request_suspend_state(r, s) ==
    /\ Thawed /\ flushing[r] = NoState
    /\ mode' = NewMode(s)
    /\ ~NeedsFlush(s)
    /\ finish_request(s, "SUSPEND_REQUESTED" \in state, NewMode(s))
    /\ UNCHANGED <<worker, callback, handlers, off, flushing>>

\* flush_workqueue(): a barrier goes to the tail of the queue, unless the
\* queue is empty and its thread idle.
request_flush(r, s) ==
    /\ Thawed /\ flushing[r] = NoState
    /\ mode' = NewMode(s)
    /\ NeedsFlush(s)
    /\ flushing' = [flushing EXCEPT ![r] = NewState(s)]
    /\ wl' = IF worker = "idle" /\ wl.queue = <<>> THEN wl ELSE queue_work(wl, r)
    /\ UNCHANGED <<worker, callback, state, last_mode, requested, handlers, off>>

\* The thread reaches r's barrier and completes it.
run_barrier(r) ==
    /\ worker = r
    /\ worker' = "idle"
    /\ UNCHANGED <<wl, callback, esVars>>

\* r is back from the flush, takes state_lock again and goes on with the
\* old_sleep of before.
request_after_flush(r) ==
    /\ Thawed /\ flushing[r] # NoState
    /\ worker # r /\ r \notin ToSet(wl.queue)
    /\ finish_request(flushing[r], FALSE, mode)
    /\ flushing' = [flushing EXCEPT ![r] = NoState]
    /\ UNCHANGED <<worker, callback, mode, handlers, off>>

-----------------------------------------------------------------------------
\* pm_suspend(requested_suspend_state): the state "on" is refused.  The
\* state may change while user space is being frozen.
es_pm_suspend ==
    /\ pm_suspend
    /\ worker' = "freezing" => requested = "mem"
    /\ UNCHANGED esVars

\* A task that waits in flush_workqueue() cannot be frozen.
es_freeze_processes ==
    /\ freeze_processes
    /\ worker' = "frozen" => \A r \in Requester : flushing[r] = NoState
    /\ UNCHANGED esVars

WorkStep ==
    \/ early_suspend \/ call_suspend \/ early_suspend_finish
    \/ late_resume \/ call_resume
    \/ \E r \in Requester : run_barrier(r)

SuspendStep ==
    \/ es_pm_suspend \/ es_freeze_processes
    \/ (\/ run_work \/ suspend_check \/ suspend_entry \/ suspend_fails
        \/ power_suspend_late \/ wakeup \/ suspend_exit) /\ UNCHANGED esVars

ESNext ==
    \/ \E l \in UserLock \cup DriverLock :
          /\ wake_lock(l) \/ wake_unlock_call(l)
          /\ UNCHANGED esVars
    \/ \E l \in DriverLock : wake_lock_timeout(l) /\ UNCHANGED esVars
    \/ tick /\ UNCHANGED esVars
    \/ timer_expires /\ UNCHANGED esVars
    \/ expire_wake_locks /\ UNCHANGED esVars
    \/ SuspendStep
    \/ WorkStep
    \/ \E h \in Handler : register_early_suspend(h) \/ unregister_early_suspend(h)
    \/ \E r \in Requester :
          \/ \E s \in {"on", "mem", "standby"} :
                request_suspend_state(r, s) \/ request_flush(r, s)
          \/ request_after_flush(r)

\* As for the wake locks, and a task that called request_suspend_state()
\* comes back from its flush.
ESFairness ==
    /\ WF_vars(tick /\ UNCHANGED esVars)
    /\ WF_vars(timer_expires /\ UNCHANGED esVars)
    /\ WF_vars(expire_wake_locks /\ UNCHANGED esVars)
    /\ WF_vars(SuspendStep) /\ WF_vars(WorkStep)
    /\ \A r \in Requester : WF_vars(request_after_flush(r))

ESSpec     == ESInit /\ [][ESNext]_vars
ESLiveSpec == ESSpec /\ ESFairness

-----------------------------------------------------------------------------
Registered == ToSet(handlers)

\* While the user wants the system on, main_wake_lock is held: the three
\* places that change the two (lines 86-87, 115-116, 187-190) never let them
\* disagree, although early_suspend() drops state_lock in between.
MainHeldUnlessRequested ==
    "SUSPEND_REQUESTED" \notin state => IsActive(wl, main_wake_lock)

\* Outside early_suspend_lock every registered handler agrees with the bit
\* SUSPENDED, also one that registered at the wrong moment.
HandlersAgree ==
    early_suspend_lock_free =>
        \A h \in Registered : off[h] <=> "SUSPENDED" \in state

\* No handler is suspended twice or resumed twice in a row.
CallsAlternate ==
    /\ worker = "es_handlers" => \A h \in Registered : ~off[h]
    /\ worker = "lr_handlers" => \A h \in Registered : off[h]

\* What handlers are told is in step with the state, whenever they register
\* and however the requests follow each other.
HandlersInStep == HandlersAgree /\ CallsAlternate

\* After a request to suspend that stays, and with no other lock in use, the
\* system gets to pm_suspend() again and again.
SuspendReached ==
    <>[]("SUSPEND_REQUESTED" \in state
         /\ ToSet(wl.active) \subseteq {main_wake_lock, unknown_wakeup})
        => []<>(worker = "pm_suspend")

\* After a request to be on that stays, every handler is resumed for good.
ResumeReached ==
    <>[]("SUSPEND_REQUESTED" \notin state /\ \A r \in Requester : flushing[r] = NoState)
        => <>[](\A h \in Registered : ~off[h])

\* A request that lasts is carried out, whatever the works find on the way.
RequestsCarriedOut == SuspendReached /\ ResumeReached
=============================================================================
