----------------------------- MODULE Workqueue ------------------------------
(***************************************************************************)
(* Work queues, kernel/workqueue.c: one workqueue with a cpu_workqueue and *)
(* a thread for every CPU, works that are queued at once, after a delay or *)
(* by themselves, and tasks that flush and cancel them.                    *)
(*                                                                         *)
(* A stretch under cwq->lock is one step, and so is an access to           *)
(* work->data outside of it.  WORK_STRUCT_PENDING and the pointer in       *)
(* work->data are two variables.  The barrier a task waits for is named    *)
(* by the task.                                                            *)
(***************************************************************************)
EXTENDS Integers, Sequences, FiniteSets, SequencesExt, KList

CONSTANTS
    Work, Task,
    NCpu,
    Delayed,   \* the works that are part of a delayed_work
    Requeues,  \* the works whose function may queue them again
    None

ASSUME WorkqueueAssumption ==
    /\ NCpu \in Nat \ {0}
    /\ IsFiniteSet(Work) /\ IsFiniteSet(Task)
    /\ Work \cap Task = {}
    /\ Delayed \subseteq Work /\ Requeues \subseteq Work
    /\ None \notin Work \cup Task \cup 1 .. NCpu

Cpu == 1 .. NCpu

VARIABLES
    pending,   \* pending[w]: WORK_STRUCT_PENDING
    data,      \* data[w]: the cwq in work->data
    timer,     \* timer[w]: dwork->timer
    worklist,  \* worklist[c]: cwq->worklist
    current,   \* current[c]: cwq->current_work
    thread,    \* thread[c]: where worker_thread is
    asleep,    \* asleep[c]: it sleeps, or will when it calls schedule()
    op,        \* op[t]: the call task t is in, with its locals
    done,      \* done[t]: the completion of t's barrier
    before     \* before[t]: runs of works that t's flush has to wait for, a history

vars == <<pending, data, timer, worklist, current, thread, asleep, op, done, before>>
workVars   == <<pending, data, timer>>
queueVars  == <<worklist, current, thread, asleep>>
clientVars == <<op, done, before>>

NoOp == [fn |-> "none", pc |-> "idle", work |-> None, cwq |-> None, ret |-> 0]

Runs == Work \X Cpu \X {"queued", "running"}

Init ==
    /\ pending = [w \in Work |-> FALSE]
    /\ data = [w \in Work |-> None]
    /\ timer = [w \in Work |-> "off"]
    /\ worklist = [c \in Cpu |-> <<>>]
    /\ current = [c \in Cpu |-> None]
    /\ thread = [c \in Cpu |-> "idle"]
    /\ asleep = [c \in Cpu |-> FALSE]
    /\ op = [t \in Task |-> NoOp]
    /\ done = [t \in Task |-> FALSE]
    /\ before = [t \in Task |-> {}]

-----------------------------------------------------------------------------
(***************************************************************************)
(* Inserting.                                                              *)
(***************************************************************************)

Queued(w) == \E c \in Cpu : OnList(worklist[c], w)

\* The list s with x right behind w.
AddBehind(s, w, x) == InsertAt(s, 1 + CHOOSE i \in DOMAIN s : s[i] = w, x)

wake_up_missing(c) == UNCHANGED asleep

wake_up(c) == asleep' = [asleep EXCEPT ![c] = FALSE]

\* insert_work(): the work goes to the place that makes the list s.
insert_work_no_data(c, w, s) ==
    /\ worklist' = [worklist EXCEPT ![c] = s]
    /\ wake_up(c)
    /\ UNCHANGED data

insert_work(c, w, s) ==
    /\ data' = [data EXCEPT ![w] = c]
    /\ worklist' = [worklist EXCEPT ![c] = s]
    /\ wake_up(c)

\* A barrier is pending on t's stack; its data is never read by others.
insert_wq_barrier(t, c, s) ==
    /\ worklist' = [worklist EXCEPT ![c] = s]
    /\ wake_up(c)
    /\ done' = [done EXCEPT ![t] = FALSE]

Goto(t, l) == op' = [op EXCEPT ![t].pc = l]
Idle(t)    == op' = [op EXCEPT ![t] = NoOp]

\* The runs of works in S that are queued or under way on the CPUs of C.
RunsOf(S, C) ==
    {r \in Runs : /\ r[1] \in S /\ r[2] \in C
                  /\ IF r[3] = "queued" THEN OnList(worklist[r[2]], r[1])
                     ELSE current[r[2]] = r[1]}

\* w goes to c.  The comment of flush_work() expects that this does not happen
\* between its call and its look at the queue, unless on the CPU it looks at.
Requeued(w, c) ==
    [t \in Task |-> IF /\ op[t].pc \in {"flush", "flush_lock"}
                       /\ op[t].work = w /\ data[w] # c
                    THEN {} ELSE before[t]]

\* queue_work_on(): whoever sets the bit inserts the work, in a second step.
queue_work_on(t, w, c) ==
    /\ op[t].pc = "idle" /\ ~pending[w]
    /\ pending' = [pending EXCEPT ![w] = TRUE]
    /\ op' = [op EXCEPT ![t] = [NoOp EXCEPT !.fn = "queue", !.pc = "insert",
                                            !.work = w, !.cwq = c]]
    /\ UNCHANGED <<data, timer, queueVars, done, before>>

do_queue_work(t) ==
    /\ op[t].pc = "insert"
    /\ insert_work(op[t].cwq, op[t].work, Append(worklist[op[t].cwq], op[t].work))
    /\ IF op[t].fn = "queue"
       THEN Idle(t) /\ before' = Requeued(op[t].work, op[t].cwq)
       ELSE /\ Goto(t, "flush")
            /\ before' = [Requeued(op[t].work, op[t].cwq) EXCEPT
                            ![t] = RunsOf({op[t].work}, {op[t].cwq})
                                     \cup {<<op[t].work, op[t].cwq, "queued">>}]
    /\ UNCHANGED <<pending, timer, current, thread, done>>

queue_delayed_work_on(t, w, c) ==
    /\ w \in Delayed
    /\ op[t].pc = "idle" /\ ~pending[w]
    /\ pending' = [pending EXCEPT ![w] = TRUE]
    /\ op' = [op EXCEPT ![t] = [NoOp EXCEPT !.fn = "queue", !.pc = "arm",
                                            !.work = w, !.cwq = c]]
    /\ UNCHANGED <<data, timer, queueVars, done, before>>

add_timer(t) ==
    /\ op[t].pc = "arm"
    /\ data' = [data EXCEPT ![op[t].work] = op[t].cwq]
    /\ timer' = [timer EXCEPT ![op[t].work] = "armed"]
    /\ Idle(t)
    /\ before' = Requeued(op[t].work, op[t].cwq)
    /\ UNCHANGED <<pending, queueVars, done>>

\* The timer is off its list before its function is called, on any CPU.
timer_fires(w) ==
    /\ timer[w] = "armed"
    /\ timer' = [timer EXCEPT ![w] = "fired"]
    /\ UNCHANGED <<pending, data, queueVars, clientVars>>

delayed_work_timer_fn(w) ==
    /\ timer[w] = "fired"
    /\ \E c \in Cpu :
          insert_work(c, w, Append(worklist[c], w)) /\ before' = Requeued(w, c)
    /\ timer' = [timer EXCEPT ![w] = "off"]
    /\ UNCHANGED <<pending, current, thread, op, done>>

-----------------------------------------------------------------------------
(***************************************************************************)
(* worker_thread() and run_workqueue().                                    *)
(***************************************************************************)

ThreadGoto(c, l) == thread' = [thread EXCEPT ![c] = l]

prepare_to_wait(c) ==
    /\ thread[c] = "idle"
    /\ asleep' = [asleep EXCEPT ![c] = TRUE]
    /\ ThreadGoto(c, "test")
    /\ UNCHANGED <<workVars, worklist, current, clientVars>>

test_worklist(c) ==
    /\ thread[c] = "test"
    /\ \/ worklist[c] = <<>> /\ ThreadGoto(c, "schedule") /\ UNCHANGED asleep
       \/ worklist[c] # <<>> /\ ThreadGoto(c, "awake") /\ wake_up(c)
    /\ UNCHANGED <<workVars, worklist, current, clientVars>>

schedule(c) ==
    /\ thread[c] = "schedule" /\ ~asleep[c]
    /\ ThreadGoto(c, "awake")
    /\ UNCHANGED <<workVars, worklist, current, asleep, clientVars>>

\* The queued run of w on c has become a running one, or is over.
StartRun(w, c) ==
    before' = [t \in Task |->
                  IF <<w, c, "queued">> \in before[t]
                  THEN (before[t] \ {<<w, c, "queued">>}) \cup {<<w, c, "running">>}
                  ELSE before[t]]
EndRun(w, c, how) == before' = [t \in Task |-> before[t] \ {<<w, c, how>>}]

run_workqueue(c) ==
    /\ thread[c] = "awake"
    /\ \/ /\ worklist[c] = <<>>
          /\ ThreadGoto(c, "idle")
          /\ UNCHANGED <<worklist, current, before>>
       \/ /\ worklist[c] # <<>>
          /\ current' = [current EXCEPT ![c] = Head(worklist[c])]
          /\ worklist' = [worklist EXCEPT ![c] = Tail(@)]
          /\ StartRun(Head(worklist[c]), c)
          /\ ThreadGoto(c, "dequeued")
    /\ UNCHANGED <<workVars, asleep, op, done>>

work_clear_pending_missing(c) ==
    /\ thread[c] = "dequeued"
    /\ ThreadGoto(c, "run")
    /\ UNCHANGED <<workVars, worklist, current, asleep, clientVars>>

\* The bit is cleared before the function runs: it may be queued again.
work_clear_pending(c) ==
    /\ thread[c] = "dequeued"
    /\ pending' = IF current[c] \in Work THEN [pending EXCEPT ![current[c]] = FALSE]
                  ELSE pending
    /\ ThreadGoto(c, "run")
    /\ UNCHANGED <<data, timer, worklist, current, asleep, clientVars>>

\* A work's function may queue its own work again.
func_requeue(c) ==
    /\ thread[c] = "run" /\ current[c] \in Requeues /\ ~pending[current[c]]
    /\ pending' = [pending EXCEPT ![current[c]] = TRUE]
    /\ ThreadGoto(c, "requeue")
    /\ UNCHANGED <<data, timer, worklist, current, asleep, clientVars>>

func_requeue_insert(c) ==
    /\ thread[c] = "requeue"
    /\ insert_work(c, current[c], Append(worklist[c], current[c]))
    /\ before' = Requeued(current[c], c)
    /\ ThreadGoto(c, "run")
    /\ UNCHANGED <<pending, timer, current, op, done>>

wq_barrier_func_silent(c) ==
    /\ thread[c] = "run" /\ current[c] \in Task
    /\ ThreadGoto(c, "ran")
    /\ UNCHANGED <<workVars, worklist, current, asleep, clientVars>>

wq_barrier_func(c) ==
    /\ thread[c] = "run" /\ current[c] \in Task
    /\ done' = [done EXCEPT ![current[c]] = TRUE]
    /\ ThreadGoto(c, "ran")
    /\ UNCHANGED <<workVars, worklist, current, asleep, op, before>>

\* The function has returned.
func_returns(c) ==
    /\ thread[c] = "ran" \/ (thread[c] = "run" /\ current[c] \in Work)
    /\ current' = [current EXCEPT ![c] = None]
    /\ EndRun(current[c], c, "running")
    /\ ThreadGoto(c, "awake")
    /\ UNCHANGED <<workVars, worklist, asleep, op, done>>

-----------------------------------------------------------------------------
(***************************************************************************)
(* Flushing.                                                               *)
(***************************************************************************)

flush_workqueue(t) ==
    /\ op[t].pc = "idle"
    /\ op' = [op EXCEPT ![t] = [NoOp EXCEPT !.fn = "flush_workqueue",
                                            !.pc = "flush_cpu", !.cwq = 1]]
    /\ before' = [before EXCEPT ![t] = RunsOf(Work, Cpu)]
    /\ UNCHANGED <<workVars, queueVars, done>>

NextCpu(t) == op' = [op EXCEPT ![t].pc = IF op[t].fn = "flush_workqueue"
                                         THEN "flush_cpu" ELSE "wait_on_cpu",
                               ![t].cwq = @ + 1]

\* A thread that runs a work is busy although its list is empty.
IsBusy_list_only(c) == worklist[c] # <<>>

IsBusy(c) == worklist[c] # <<>> \/ current[c] # None

flush_cpu_workqueue(t) ==
    /\ op[t].pc = "flush_cpu"
    /\ LET c == op[t].cwq IN
       \/ /\ c \in Cpu /\ IsBusy(c)
          /\ insert_wq_barrier(t, c, Append(worklist[c], t))
          /\ Goto(t, "wait")
       \/ /\ c \in Cpu /\ ~IsBusy(c)
          /\ NextCpu(t)
          /\ UNCHANGED <<worklist, asleep, done>>
       \/ /\ c \notin Cpu
          /\ Goto(t, "return")
          /\ UNCHANGED <<worklist, asleep, done>>
    /\ UNCHANGED <<workVars, current, thread, before>>

wait_for_completion(t) ==
    /\ op[t].pc = "wait" /\ done[t]
    /\ IF op[t].fn = "flush_work" THEN Goto(t, "return") ELSE NextCpu(t)
    /\ done' = [done EXCEPT ![t] = FALSE]
    /\ UNCHANGED <<workVars, queueVars, before>>

flush_return(t) ==
    /\ op[t].pc = "return"
    /\ Idle(t)
    /\ before' = [before EXCEPT ![t] = {}]
    /\ UNCHANGED <<workVars, queueVars, done>>

flush_work_call(t, w) ==
    /\ op[t].pc = "idle"
    /\ op' = [op EXCEPT ![t] = [NoOp EXCEPT !.fn = "flush_work", !.pc = "flush",
                                            !.work = w]]
    /\ before' = [before EXCEPT ![t] = RunsOf({w}, {data[w]})]
    /\ UNCHANGED <<workVars, queueVars, done>>

\* flush_delayed_work(): a timer that was armed is stopped, and the work
\* queued at once; del_timer_sync() waits for a function that runs.
flush_delayed_work(t, w) ==
    /\ op[t].pc = "idle" /\ timer[w] = "armed"
    /\ timer' = [timer EXCEPT ![w] = "off"]
    /\ \E c \in Cpu :
          op' = [op EXCEPT ![t] = [NoOp EXCEPT !.fn = "flush_work", !.pc = "insert",
                                               !.work = w, !.cwq = c]]
    /\ UNCHANGED <<pending, data, queueVars, done, before>>

flush_work(t) ==
    /\ op[t].pc = "flush"
    /\ op' = [op EXCEPT ![t].cwq = data[op[t].work],
                        ![t].pc = IF data[op[t].work] = None THEN "return"
                                  ELSE "flush_lock"]
    /\ UNCHANGED <<workVars, queueVars, done, before>>

\* Where flush_work() puts its barrier: behind the work, or at the head.
flush_work_list(t, c, w) ==
    IF Queued(w) THEN AddBehind(worklist[c], w, t) ELSE <<t>> \o worklist[c]

\* Looks only at the list: a work that runs is not waited for.
flush_work_locked_list_only(t) ==
    /\ op[t].pc = "flush_lock"
    /\ LET w == op[t].work
           c == op[t].cwq
       IN  \/ /\ Queued(w) /\ data[w] = c
              /\ insert_wq_barrier(t, c, flush_work_list(t, c, w))
              /\ Goto(t, "wait")
           \/ /\ ~(Queued(w) /\ data[w] = c)
              /\ Goto(t, "return")
              /\ UNCHANGED <<worklist, asleep, done>>
    /\ UNCHANGED <<workVars, current, thread, before>>

flush_work_locked(t) ==
    /\ op[t].pc = "flush_lock"
    /\ LET w == op[t].work
           c == op[t].cwq
       IN  \/ /\ IF Queued(w) THEN data[w] = c ELSE current[c] = w
              /\ insert_wq_barrier(t, c, flush_work_list(t, c, w))
              /\ Goto(t, "wait")
           \/ /\ IF Queued(w) THEN data[w] # c ELSE current[c] # w
              /\ Goto(t, "return")
              /\ UNCHANGED <<worklist, asleep, done>>
    /\ UNCHANGED <<workVars, current, thread, before>>

-----------------------------------------------------------------------------
(***************************************************************************)
(* __cancel_work_timer().                                                  *)
(***************************************************************************)

cancel_call(t, w, fn) ==
    /\ op[t].pc = "idle"
    /\ fn = "cancel_delayed_work_sync" => w \in Delayed
    /\ op' = [op EXCEPT ![t] = [NoOp EXCEPT !.fn = fn, !.pc = "del_timer", !.work = w]]
    /\ UNCHANGED <<workVars, queueVars, done, before>>

\* The beginning of the loop: a timer that is stopped leaves us the bit.
del_timer(t) ==
    /\ op[t].pc = "del_timer"
    /\ \/ /\ op[t].fn = "cancel_delayed_work_sync" /\ timer[op[t].work] = "armed"
          /\ timer' = [timer EXCEPT ![op[t].work] = "off"]
          /\ op' = [op EXCEPT ![t].pc = "wait_on_work", ![t].ret = 1]
       \/ /\ op[t].fn = "cancel_work_sync" \/ timer[op[t].work] # "armed"
          /\ op' = [op EXCEPT ![t].pc = "grab", ![t].ret = -1]
          /\ UNCHANGED timer
    /\ UNCHANGED <<pending, data, queueVars, done, before>>

\* try_to_grab_pending(): the test_and_set_bit(), the read of the queue, and
\* what is done under the lock of that queue.
try_to_grab_pending(t) ==
    /\ op[t].pc = "grab"
    /\ pending' = [pending EXCEPT ![op[t].work] = TRUE]
    /\ op' = [op EXCEPT ![t].pc  = IF pending[op[t].work] THEN "grab_data"
                                   ELSE "wait_on_work",
                        ![t].ret = IF pending[op[t].work] THEN -1 ELSE 0]
    /\ UNCHANGED <<data, timer, queueVars, done, before>>

grab_data(t) ==
    /\ op[t].pc = "grab_data"
    /\ op' = [op EXCEPT ![t].cwq = data[op[t].work],
                        ![t].pc  = IF data[op[t].work] = None THEN "wait_on_work"
                                   ELSE "grab_lock"]
    /\ UNCHANGED <<workVars, queueVars, done, before>>

grab_locked(t) ==
    /\ op[t].pc = "grab_lock"
    /\ LET w == op[t].work
           c == op[t].cwq
       IN  \/ /\ Queued(w) /\ data[w] = c
              /\ worklist' = [worklist EXCEPT ![c] = list_del(@, w)]
              /\ EndRun(w, c, "queued")
              /\ op' = [op EXCEPT ![t].pc = "wait_on_work", ![t].ret = 1]
           \/ /\ ~(Queued(w) /\ data[w] = c)
              /\ Goto(t, "wait_on_work")
              /\ UNCHANGED <<worklist, before>>
    /\ UNCHANGED <<workVars, current, thread, asleep, done>>

\* Once the bit is ours the loop ends.
CancelLoop_zero_retries(t) == IF op[t].ret <= 0 THEN "del_timer" ELSE "clear"

CancelLoop(t) == IF op[t].ret < 0 THEN "del_timer" ELSE "clear"

wait_on_work_skipped(t) ==
    /\ op[t].pc = "wait_on_work"
    /\ Goto(t, CancelLoop(t))
    /\ UNCHANGED <<workVars, queueVars, done, before>>

wait_on_work(t) ==
    /\ op[t].pc = "wait_on_work"
    /\ op' = IF data[op[t].work] = None
             THEN [op EXCEPT ![t].pc = CancelLoop(t)]
             ELSE [op EXCEPT ![t].pc = "wait_on_cpu", ![t].cwq = 1]
    /\ UNCHANGED <<workVars, queueVars, done, before>>

\* A barrier right behind the work that is running.
wait_on_cpu_work(t) ==
    /\ op[t].pc = "wait_on_cpu"
    /\ LET c == op[t].cwq IN
       \/ /\ c \in Cpu /\ current[c] = op[t].work
          /\ insert_wq_barrier(t, c, <<t>> \o worklist[c])
          /\ Goto(t, "wait")
       \/ /\ c \in Cpu /\ current[c] # op[t].work
          /\ NextCpu(t)
          /\ UNCHANGED <<worklist, asleep, done>>
       \/ /\ c \notin Cpu
          /\ Goto(t, CancelLoop(t))
          /\ UNCHANGED <<worklist, asleep, done>>
    /\ UNCHANGED <<workVars, current, thread, before>>

clear_wq_data(t) ==
    /\ op[t].pc = "clear"
    /\ pending' = [pending EXCEPT ![op[t].work] = FALSE]
    /\ data' = [data EXCEPT ![op[t].work] = None]
    /\ Idle(t)
    /\ UNCHANGED <<timer, queueVars, done, before>>

-----------------------------------------------------------------------------
ThreadStep(c) ==
    \/ prepare_to_wait(c) \/ test_worklist(c) \/ schedule(c)
    \/ run_workqueue(c) \/ work_clear_pending(c) \/ func_requeue_insert(c)
    \/ wq_barrier_func(c) \/ func_returns(c)

\* The rest of a call that has begun.
TaskStep(t) ==
    \/ do_queue_work(t) \/ add_timer(t)
    \/ flush_cpu_workqueue(t) \/ wait_for_completion(t) \/ flush_return(t)
    \/ flush_work(t) \/ flush_work_locked(t)
    \/ del_timer(t) \/ try_to_grab_pending(t) \/ grab_data(t) \/ grab_locked(t)
    \/ wait_on_work(t) \/ wait_on_cpu_work(t) \/ clear_wq_data(t)

Call(t) ==
    \/ flush_workqueue(t)
    \/ \E w \in Work :
          \/ flush_work_call(t, w) \/ flush_delayed_work(t, w)
          \/ \E c \in Cpu : queue_work_on(t, w, c) \/ queue_delayed_work_on(t, w, c)
          \/ \E fn \in {"cancel_work_sync", "cancel_delayed_work_sync"} :
                cancel_call(t, w, fn)

Next ==
    \/ \E c \in Cpu : ThreadStep(c) \/ func_requeue(c)
    \/ \E w \in Work : timer_fires(w) \/ delayed_work_timer_fn(w)
    \/ \E t \in Task : TaskStep(t) \/ Call(t)

\* Threads and timers run, functions return, calls that have begun go on.
Fairness ==
    /\ \A c \in Cpu : WF_vars(ThreadStep(c))
    /\ \A w \in Work : WF_vars(timer_fires(w)) /\ WF_vars(delayed_work_timer_fn(w))
    /\ \A t \in Task : WF_vars(TaskStep(t))

Spec     == Init /\ [][Next]_vars
LiveSpec == Spec /\ Fairness

-----------------------------------------------------------------------------
CancelFns == {"cancel_work_sync", "cancel_delayed_work_sync"}

\* t has the pending bit of w: it is about to queue or to arm it, or cancels.
TaskOwns(t, w) ==
    /\ op[t].work = w
    /\ \/ op[t].pc \in {"insert", "arm", "clear"}
       \/ op[t].fn \in CancelFns /\ op[t].ret >= 0
             /\ op[t].pc \in {"wait_on_work", "wait_on_cpu", "wait"}

CpuOwns(c, w) == thread[c] \in {"dequeued", "requeue"} /\ current[c] = w

\* Everybody the pending bit of w may belong to.
Owners(w) ==
    {<<"task", t>> : t \in {t \in Task : TaskOwns(t, w)}}
    \cup {<<"thread", c>> : c \in {c \in Cpu : CpuOwns(c, w)}}
    \cup {<<"list", c>> : c \in {c \in Cpu : OnList(worklist[c], w)}}
    \cup {<<"timer", w>> : x \in {w} \cap {v \in Work : timer[v] # "off"}}

\* The pending bit of a work is set exactly while it has an owner, and it
\* never has two: one list, or the timer, or a task that queues or cancels it,
\* or the thread that has just dequeued it (the comments of lines 590-609).
PendingHasOneOwner ==
    \A w \in Work : Cardinality(Owners(w)) = IF pending[w] THEN 1 ELSE 0

\* The assertions of the code: no work is on two lists or twice on one
\* (lines 312, 365), and the thread finds its queue in work->data (line 409).
BugOns ==
    /\ \A c \in Cpu : NoDup(worklist[c])
    /\ \A c \in Cpu : thread[c] = "dequeued" /\ current[c] \in Work =>
          data[current[c]] = c

\* The pending bit is what keeps a work on one list at a time: it has one
\* owner, and the assertions hold.
PendingProtocol == PendingHasOneOwner /\ BugOns

\* When cancel_work_sync() is about to return, the work is neither queued nor
\* waiting for its timer nor running on any CPU (lines 694-696).
CancelIsSync ==
    \A t \in Task : op[t].pc = "clear" =>
        LET w == op[t].work
        IN  ~Queued(w) /\ timer[w] = "off" /\ \A c \in Cpu : current[c] # w

\* When flush_workqueue() returns, every run of every work that was queued or
\* under way on any CPU when it was called is over, whatever was queued or
\* cancelled meanwhile (lines 519-520).
FlushWaits ==
    \A t \in Task : op[t].fn = "flush_workqueue" /\ op[t].pc = "return" => before[t] = {}

\* When flush_work() returns, the run that its work was last queued for before
\* the call, and one under way on the same CPU, are over (line 539), by the
\* early returns too.  As the comment expects of the caller (lines 544-546),
\* the work is not queued elsewhere before flush_work() looks; a run left on
\* another CPU by an earlier requeueing is not waited for.
FlushWorkWaits ==
    \A t \in Task : op[t].fn = "flush_work" /\ op[t].pc = "return" => before[t] = {}

\* A work on a list leaves it: barriers, requeueing works and cancels that go
\* on for ever do not starve it.
QueuedWorkRuns ==
    \A w \in Work : \A c \in Cpu : OnList(worklist[c], w) ~> ~OnList(worklist[c], w)

\* A task that waits for its barrier goes on.
BarrierCompletes == \A t \in Task : op[t].pc = "wait" ~> op[t].pc # "wait"

\* A cancel ends, unless the work is queued, or cancelled by others, again and
\* again: the loop takes no lock and may always come at the wrong time.
CancelReturns ==
    \A t \in Task : \A w \in Work :
        \/ op[t].fn \in CancelFns /\ op[t].work = w ~> op[t].pc = "idle"
        \/ []<>(\E u \in Task \ {t} : /\ op[u].pc \in {"insert", "arm", "clear"}
                                      /\ op[u].work = w)
        \/ []<>(\E c \in Cpu : thread[c] = "requeue" /\ current[c] = w)
=============================================================================
