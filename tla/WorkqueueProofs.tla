-------------------------- MODULE WorkqueueProofs ---------------------------
(***************************************************************************)
(* Proofs about the work queues.  The pending bit is a token: whoever sets *)
(* it owns the work, and hands it on, from the task that queues it to the  *)
(* timer or a list, from the list to the thread or to a task that cancels. *)
(* The invariant says who has it at every place of every call, what        *)
(* work->data is worth to somebody who has not got the lock, and where the *)
(* barriers of the waiting tasks are.                                      *)
(***************************************************************************)
EXTENDS Workqueue, KListProofs, FiniteSetTheorems

Fns == {"none", "queue", "flush_workqueue", "flush_work"} \cup CancelFns
Pcs == {"idle", "insert", "arm", "flush_cpu", "wait", "return", "flush", "flush_lock",
        "del_timer", "grab", "grab_data", "grab_lock", "wait_on_work", "wait_on_cpu",
        "clear"}
ThreadPcs == {"idle", "test", "schedule", "awake", "dequeued", "run", "requeue", "ran"}
OpType == [fn : Fns, pc : Pcs, work : Work \cup {None},
           cwq : 1 .. NCpu + 1 \cup {None}, ret : {-1, 0, 1}]

Types ==
    /\ pending \in [Work -> BOOLEAN]
    /\ data \in [Work -> Cpu \cup {None}]
    /\ timer \in [Work -> {"off", "armed", "fired"}]
    /\ worklist \in [Cpu -> Seq(Work \cup Task)]
    /\ current \in [Cpu -> Work \cup Task \cup {None}]
    /\ thread \in [Cpu -> ThreadPcs]
    /\ asleep \in [Cpu -> BOOLEAN]
    /\ op \in [Task -> OpType]
    /\ done \in [Task -> BOOLEAN]
    /\ before \in [Task -> SUBSET Runs]

\* The call and the locals a task can have at each place of the code.
OpOK(t) ==
    LET o == op[t] IN
    /\ o.pc \in {"insert", "arm"} =>
          o.work \in Work /\ o.cwq \in Cpu /\ o.fn \in {"queue", "flush_work"}
    /\ o.pc \in {"flush", "flush_lock"} => o.work \in Work /\ o.fn = "flush_work"
    /\ o.pc \in {"flush_lock", "grab_lock", "wait"} => o.cwq \in Cpu
    /\ o.pc \in {"flush_cpu", "wait_on_cpu"} => o.cwq \in 1 .. NCpu + 1
    /\ o.pc = "flush_cpu" => o.fn = "flush_workqueue"
    /\ o.pc = "return" => o.fn \in {"flush_workqueue", "flush_work"}
    /\ o.pc \in {"del_timer", "grab", "grab_data", "grab_lock", "wait_on_work",
                 "wait_on_cpu", "clear"} => o.fn \in CancelFns
    /\ o.pc = "wait" => o.fn \in {"flush_workqueue", "flush_work"} \cup CancelFns
    /\ o.fn \in CancelFns => o.work \in Work
    /\ o.pc = "clear" => o.ret >= 0
    /\ o.pc \in {"grab", "grab_data", "grab_lock"} => o.ret = -1
OPs == \A t \in Task : OpOK(t)

\* A thread has a current work exactly while it is in run_workqueue()'s loop.
ThreadOK(c) ==
    /\ thread[c] \in {"idle", "test", "schedule", "awake"} <=> current[c] = None
    /\ thread[c] = "requeue" => current[c] \in Work
    /\ thread[c] = "ran" => current[c] \in Task
Ths == \A c \in Cpu : ThreadOK(c)

Dups == \A c \in Cpu : NoDup(worklist[c])

\* A barrier that is queued, or about to run, belongs to a task that waits for
\* it on that CPU, and is in one place only.
BarrierOK(t, c) ==
    /\ OnList(worklist[c], t) => op[t].pc = "wait" /\ op[t].cwq = c /\ ~done[t]
    /\ current[c] = t /\ thread[c] \in {"dequeued", "run"} =>
          op[t].pc = "wait" /\ op[t].cwq = c /\ ~done[t] /\ ~OnList(worklist[c], t)
BarrierInv == \A t \in Task : \A c \in Cpu : BarrierOK(t, c)

\* One task, one thread, one list or the timer owns w, or nobody does and the
\* bit is clear.
OneOwner(w) ==
    /\ \A t, u \in Task : TaskOwns(t, w) /\ TaskOwns(u, w) => t = u
    /\ \A c, d \in Cpu : CpuOwns(c, w) /\ CpuOwns(d, w) => c = d
    /\ \A c, d \in Cpu : OnList(worklist[c], w) /\ OnList(worklist[d], w) => c = d
    /\ \A t \in Task : TaskOwns(t, w) =>
          timer[w] = "off" /\ \A c \in Cpu : ~CpuOwns(c, w) /\ ~OnList(worklist[c], w)
    /\ \A c \in Cpu : CpuOwns(c, w) =>
          timer[w] = "off" /\ \A d \in Cpu : ~OnList(worklist[d], w)
    /\ \A c \in Cpu : OnList(worklist[c], w) => timer[w] = "off"
    /\ pending[w] <=> \/ timer[w] # "off"
                      \/ \E t \in Task : TaskOwns(t, w)
                      \/ \E c \in Cpu : CpuOwns(c, w) \/ OnList(worklist[c], w)
OwnInv == \A w \in Work : OneOwner(w)

\* work->data names the queue a work is on or was just taken from, and is not
\* cleared under a work that runs.
DataOK(w, c) ==
    /\ OnList(worklist[c], w) => data[w] = c
    /\ thread[c] = "dequeued" /\ current[c] = w => data[w] = c
    /\ data[w] = None => current[c] # w
DataInv == \A w \in Work : \A c \in Cpu : DataOK(w, c)

\* A cancel that owns its work has seen every CPU behind it not running it:
\* nobody can have started it there again.
CancelOK(t) ==
    op[t].fn \in CancelFns /\ op[t].ret >= 0 =>
        /\ op[t].pc = "clear" => \A d \in Cpu : current[d] # op[t].work
        /\ op[t].pc \in {"wait_on_cpu", "wait"} =>
              \A d \in Cpu : d < op[t].cwq => current[d] # op[t].work
        /\ op[t].pc = "wait" /\ done[t] => current[op[t].cwq] # op[t].work
CancelInv == \A t \in Task : CancelOK(t)

\* A run that t's flush waits for is still ahead: on a CPU that the flush has
\* not come to, or in front of its barrier.  Until flush_work() has its barrier
\* the run is where work->data says, and that is where it will look.
FlushRun(t, r) ==
    /\ IF r[3] = "queued" THEN OnList(worklist[r[2]], r[1]) ELSE current[r[2]] = r[1]
    /\ op[t].fn \in {"flush_workqueue", "flush_work"}
    /\ op[t].pc \in {"flush_cpu", "flush", "flush_lock", "wait"}
    /\ op[t].fn = "flush_workqueue" => r[2] >= op[t].cwq
    /\ op[t].pc \in {"flush", "flush_lock"} =>
          r[1] = op[t].work /\ r[2] = data[op[t].work]
    /\ op[t].fn = "flush_work" /\ op[t].pc \in {"flush_lock", "wait"} =>
          r[2] = op[t].cwq
    /\ op[t].pc = "wait" /\ r[2] = op[t].cwq =>
          /\ OnList(worklist[r[2]], t)
          /\ r[3] = "queued" => Ahead(worklist[r[2]], r[1], t)
FlushInv == \A t \in Task : \A r \in before[t] : FlushRun(t, r)

Inv ==
    /\ Types /\ OPs /\ Ths /\ Dups /\ BarrierInv
    /\ OwnInv /\ DataInv /\ CancelInv /\ FlushInv

-----------------------------------------------------------------------------
(***************************************************************************)
(* What the steps do to the call of a task, to a thread and to a list.     *)
(***************************************************************************)

\* The call of t is now this one, at this place, with these locals.
TaskMoves(t, f, p, w, c, r) ==
    /\ op' \in [Task -> OpType]
    /\ op'[t].fn = f /\ op'[t].pc = p /\ op'[t].work = w /\ op'[t].cwq = c
                /\ op'[t].ret = r
    /\ \A u \in Task : u # t => op'[u] = op[u]

\* The list of c gains x, and keeps its order.
ListGains(c, x) ==
    /\ worklist' \in [Cpu -> Seq(Work \cup Task)]
    /\ \A d \in Cpu : d # c => worklist'[d] = worklist[d]
    /\ \A y : OnList(worklist'[c], y) <=> OnList(worklist[c], y) \/ y = x
    /\ NoDup(worklist'[c])
    /\ \A y, z : Ahead(worklist[c], y, z) => Ahead(worklist'[c], y, z)

\* The list of c loses x, and keeps its order.
ListLoses(c, x) ==
    /\ worklist' \in [Cpu -> Seq(Work \cup Task)]
    /\ \A d \in Cpu : d # c => worklist'[d] = worklist[d]
    /\ \A y : OnList(worklist'[c], y) <=> OnList(worklist[c], y) /\ y # x
    /\ NoDup(worklist'[c])
    /\ \A y, z : Ahead(worklist[c], y, z) /\ y # x /\ z # x
                    => Ahead(worklist'[c], y, z)

\* The thread of c goes on to l.
ThreadMoves(c, l) ==
    /\ thread' \in [Cpu -> ThreadPcs]
    /\ thread'[c] = l
    /\ \A d \in Cpu : d # c => thread'[d] = thread[d]

\* A task begins a call, or is done with it.
LEMMA CallMoves ==
    ASSUME Types, NEW t \in Task, NEW o \in OpType, op' = [op EXCEPT ![t] = o]
    PROVE  TaskMoves(t, o.fn, o.pc, o.work, o.cwq, o.ret)
<1>1. op \in [Task -> OpType]
    BY DEF Types
<1>2. op'[t] = o /\ op' \in [Task -> OpType]
    BY <1>1
<1> QED
    BY <1>1, <1>2 DEF TaskMoves

\* A call returns.
LEMMA IdleMoves ==
    ASSUME Types, NEW t \in Task, Idle(t)
    PROVE  TaskMoves(t, "none", "idle", None, None, 0)
<1>1. NoOp \in OpType
    BY DEF NoOp, OpType, Fns, Pcs
<1> QED
    BY <1>1, CallMoves DEF Idle, NoOp

\* The places of the code that a step goes to.
LEMMA PcsMembers ==
    /\ "wait" \in Pcs /\ "return" \in Pcs /\ "flush" \in Pcs /\ "flush_cpu" \in Pcs
    /\ "flush_lock" \in Pcs /\ "del_timer" \in Pcs /\ "grab" \in Pcs
    /\ "grab_data" \in Pcs /\ "grab_lock" \in Pcs /\ "wait_on_work" \in Pcs
    /\ "wait_on_cpu" \in Pcs /\ "clear" \in Pcs
BY DEF Pcs

\* A task goes on in its call.
LEMMA PcMoves ==
    ASSUME Types, NEW t \in Task, NEW p \in Pcs, op' = [op EXCEPT ![t].pc = p]
    PROVE  TaskMoves(t, op[t].fn, p, op[t].work, op[t].cwq, op[t].ret)
<1>1. op \in [Task -> OpType] /\ op[t] \in OpType
    BY DEF Types
<1>2. op'[t] = [op[t] EXCEPT !.pc = p]
    BY <1>1
<1>3. op'[t] = [fn |-> op[t].fn, pc |-> p, work |-> op[t].work, cwq |-> op[t].cwq,
            ret |-> op[t].ret]
    BY <1>1, <1>2 DEF OpType
<1>4. op'[t] \in OpType
    BY <1>1, <1>3 DEF OpType
<1>5. op' = [op EXCEPT ![t] = op'[t]]
    OBVIOUS
<1>6. op' \in [Task -> OpType]
    BY <1>1, <1>4, <1>5
<1>7. \A u \in Task : u # t => op'[u] = op[u]
    BY <1>1
<1> QED
    BY <1>3, <1>6, <1>7 DEF TaskMoves

\* It has tried to get the bit.
LEMMA RetMoves ==
    ASSUME Types, NEW t \in Task, NEW p \in Pcs, NEW r \in {-1, 0, 1},
           op' = [op EXCEPT ![t].pc = p, ![t].ret = r]
    PROVE  TaskMoves(t, op[t].fn, p, op[t].work, op[t].cwq, r)
<1>1. op \in [Task -> OpType] /\ op[t] \in OpType
    BY DEF Types
<1>2. op'[t] = [op[t] EXCEPT !.pc = p, !.ret = r]
    BY <1>1
<1>3. op'[t] = [fn |-> op[t].fn, pc |-> p, work |-> op[t].work, cwq |-> op[t].cwq,
            ret |-> r]
    BY <1>1, <1>2 DEF OpType
<1>4. op'[t] \in OpType
    BY <1>1, <1>3 DEF OpType
<1>5. op' = [op EXCEPT ![t] = op'[t]]
    OBVIOUS
<1>6. op' \in [Task -> OpType]
    BY <1>1, <1>4, <1>5
<1>7. \A u \in Task : u # t => op'[u] = op[u]
    BY <1>1
<1> QED
    BY <1>3, <1>6, <1>7 DEF TaskMoves

\* It goes on with the queue of c.
LEMMA CwqMoves ==
    ASSUME Types, NEW t \in Task, NEW p \in Pcs, NEW c \in 1 .. NCpu + 1 \cup {None},
           op' = [op EXCEPT ![t].pc = p, ![t].cwq = c]
    PROVE  TaskMoves(t, op[t].fn, p, op[t].work, c, op[t].ret)
<1>1. op \in [Task -> OpType] /\ op[t] \in OpType
    BY DEF Types
<1>2. op'[t] = [op[t] EXCEPT !.pc = p, !.cwq = c]
    BY <1>1
<1>3. op'[t] = [fn |-> op[t].fn, pc |-> p, work |-> op[t].work, cwq |-> c,
            ret |-> op[t].ret]
    BY <1>1, <1>2 DEF OpType
<1>4. op'[t] \in OpType
    BY <1>1, <1>3 DEF OpType
<1>5. op' = [op EXCEPT ![t] = op'[t]]
    OBVIOUS
<1>6. op' \in [Task -> OpType]
    BY <1>1, <1>4, <1>5
<1>7. \A u \in Task : u # t => op'[u] = op[u]
    BY <1>1
<1> QED
    BY <1>3, <1>6, <1>7 DEF TaskMoves

\* insert_work() at the end of a list: everything else is ahead.
LEMMA AppendGains ==
    ASSUME Types, Dups, NEW c \in Cpu, NEW x \in Work \cup Task, ~OnList(worklist[c], x),
           worklist' = [worklist EXCEPT ![c] = Append(worklist[c], x)]
    PROVE  /\ ListGains(c, x)
           /\ \A y : OnList(worklist[c], y) => Ahead(worklist'[c], y, x)
<1> DEFINE s == Append(worklist[c], x)
<1>1. worklist[c] \in Seq(Work \cup Task) /\ NoDup(worklist[c])
    BY DEF Types, Dups
<1>2. s \in Seq(Work \cup Task) /\ NoDup(s) /\ \A y : OnList(s, y)
            <=> OnList(worklist[c], y) \/ y = x
    BY <1>1, AppendList
<1>3. /\ \A y, z : Ahead(worklist[c], y, z) => Ahead(s, y, z)
      /\ \A y : OnList(worklist[c], y) => Ahead(s, y, x)
    BY <1>1, AppendAhead
<1> HIDE DEF s
<1>4. /\ worklist' \in [Cpu -> Seq(Work \cup Task)] /\ worklist'[c] = s
      /\ \A d \in Cpu : d # c => worklist'[d] = worklist[d]
    BY <1>2 DEF Types, s
<1> QED
    BY <1>2, <1>3, <1>4 DEF ListGains

\* insert_work() in front of a list.
LEMMA HeadGains ==
    ASSUME Types, Dups, NEW c \in Cpu, NEW x \in Work \cup Task, ~OnList(worklist[c], x),
           worklist' = [worklist EXCEPT ![c] = <<x>> \o worklist[c]]
    PROVE  ListGains(c, x)
<1> DEFINE s == <<x>> \o worklist[c]
<1>1. worklist[c] \in Seq(Work \cup Task) /\ NoDup(worklist[c])
    BY DEF Types, Dups
<1>2. /\ s \in Seq(Work \cup Task) /\ NoDup(s)
      /\ \A y : OnList(s, y) <=> OnList(worklist[c], y) \/ y = x
      /\ \A y, z : Ahead(worklist[c], y, z) => Ahead(s, y, z)
    BY <1>1, HeadList
<1> HIDE DEF s
<1>3. /\ worklist' \in [Cpu -> Seq(Work \cup Task)] /\ worklist'[c] = s
      /\ \A d \in Cpu : d # c => worklist'[d] = worklist[d]
    BY <1>2 DEF Types, s
<1> QED
    BY <1>2, <1>3 DEF ListGains

\* insert_work() behind a work of the list.
LEMMA BehindGains ==
    ASSUME Types, Dups, NEW c \in Cpu, NEW x \in Work \cup Task, ~OnList(worklist[c], x),
           NEW w, OnList(worklist[c], w),
           worklist' = [worklist EXCEPT ![c] = AddBehind(worklist[c], w, x)]
    PROVE  ListGains(c, x) /\ Ahead(worklist'[c], w, x)
<1> DEFINE k == CHOOSE i \in DOMAIN worklist[c] : worklist[c][i] = w
           s == InsertAt(worklist[c], 1 + k, x)
<1>1. worklist[c] \in Seq(Work \cup Task) /\ NoDup(worklist[c])
    BY DEF Types, Dups
<1>2. k \in DOMAIN worklist[c] /\ worklist[c][k] = w
    BY DEF OnList
<1>3. k \in 1 .. Len(worklist[c]) /\ 1 + k \in 1 .. Len(worklist[c]) + 1
    BY <1>1, <1>2
<1> HIDE DEF k
<1>4. /\ s \in Seq(Work \cup Task) /\ NoDup(s)
      /\ \A y : OnList(s, y) <=> OnList(worklist[c], y) \/ y = x
      /\ \A y, z : Ahead(worklist[c], y, z) => Ahead(s, y, z)
    BY <1>1, <1>3, InsertList
<1>5. Ahead(s, w, x)
    <2>1. k < 1 + k
        BY <1>3
    <2> QED
        BY <1>1, <1>2, <1>3, <2>1, InsertBehind
<1> HIDE DEF s
<1>6. /\ worklist' \in [Cpu -> Seq(Work \cup Task)] /\ worklist'[c] = s
      /\ \A d \in Cpu : d # c => worklist'[d] = worklist[d]
    BY <1>4 DEF Types, s, k, AddBehind
<1> QED
    BY <1>4, <1>5, <1>6 DEF ListGains

\* list_del_init() of an entry.
LEMMA DelLoses ==
    ASSUME Types, Dups, NEW c \in Cpu, NEW x, OnList(worklist[c], x),
           worklist' = [worklist EXCEPT ![c] = list_del(@, x)]
    PROVE  ListLoses(c, x)
<1> DEFINE s == list_del(worklist[c], x)
<1>1. worklist[c] \in Seq(Work \cup Task) /\ NoDup(worklist[c])
    BY DEF Types, Dups
<1>2. /\ s \in Seq(Work \cup Task) /\ NoDup(s)
      /\ \A y : OnList(s, y) <=> OnList(worklist[c], y) /\ y # x
    BY <1>1, DelList
<1>3. \A y, z : Ahead(worklist[c], y, z) /\ y # x /\ z # x => Ahead(s, y, z)
    BY <1>1, DelAhead
<1> HIDE DEF s
<1>4. /\ worklist' \in [Cpu -> Seq(Work \cup Task)] /\ worklist'[c] = s
      /\ \A d \in Cpu : d # c => worklist'[d] = worklist[d]
    BY <1>2 DEF Types, s
<1> QED
    BY <1>2, <1>3, <1>4 DEF ListLoses

\* Task t puts its barrier on the list of c, and waits.
BarrierStep(t, c) ==
    /\ UNCHANGED <<pending, data, timer, current, thread>>
    /\ op[t].pc \in {"flush_cpu", "flush_lock", "wait_on_cpu"} /\ op[t].cwq = c
    /\ op[t].fn \in {"flush_workqueue", "flush_work"} \cup CancelFns
    /\ asleep' \in [Cpu -> BOOLEAN]
    /\ done' \in [Task -> BOOLEAN]
    /\ ~done'[t] /\ \A u \in Task : u # t => done'[u] = done[u]
    /\ ListGains(c, t)
    /\ TaskMoves(t, op[t].fn, "wait", op[t].work, c, op[t].ret)

\* The invariant survives insert_wq_barrier(), if the runs that t waits for
\* are in front of the barrier.
LEMMA BarrierInserted ==
    ASSUME Inv, NEW t \in Task, NEW c \in Cpu, BarrierStep(t, c),
           before' \in [Task -> SUBSET Runs],
           \A u \in Task : u # t => before'[u] = before[u],
           \A r \in before'[t] : FlushRun(t, r)'
    PROVE  Inv'
<1>1. Types /\ OPs /\ Ths /\ Dups /\ BarrierInv /\ OwnInv /\ DataInv /\ CancelInv
      /\ FlushInv
    BY DEF Inv
<1>2. /\ \A d \in Cpu : \A v : OnList(worklist'[d], v) <=> OnList(worklist[d], v) \/ (d = c
            /\ v = t)
      /\ \A v \in Work : v # t
    BY WorkqueueAssumption DEF BarrierStep, ListGains
<1>3. \A u \in Task, v \in Work : TaskOwns(u, v)' <=> TaskOwns(u, v)
    BY <1>1 DEF BarrierStep, TaskMoves, TaskOwns, OPs, OpOK, CancelFns
<1>4. \A d \in Cpu, v \in Work : CpuOwns(d, v)' <=> CpuOwns(d, v)
    BY DEF BarrierStep, CpuOwns
<1>5. Types' /\ Ths' /\ Dups'
    BY <1>1 DEF BarrierStep, TaskMoves, ListGains, Types, Ths, ThreadOK, Dups
<1>6. OPs'
    BY <1>1 DEF BarrierStep, TaskMoves, OPs, OpOK, CancelFns
<1>7. BarrierInv'
    <2> SUFFICES ASSUME NEW u \in Task, NEW d \in Cpu
                 PROVE  BarrierOK(u, d)'
        BY DEF BarrierInv
    <2>1. BarrierOK(u, d)
        BY <1>1 DEF BarrierInv
    <2>2. CASE u = t
        BY <1>2, <2>1, <2>2 DEF BarrierStep, TaskMoves, BarrierOK
    <2>3. CASE u # t
        BY <1>2, <2>1, <2>3 DEF BarrierStep, TaskMoves, BarrierOK
    <2> QED
        BY <2>2, <2>3
<1>8. OwnInv' /\ DataInv'
    <2>1. \A d \in Cpu, v \in Work : OnList(worklist'[d], v) <=> OnList(worklist[d], v)
        BY <1>2
    <2>2. UNCHANGED <<pending, timer, data, current, thread>>
        BY DEF BarrierStep
    <2>3. OwnInv'
        BY <1>1, <1>3, <1>4, <2>1, <2>2 DEF OwnInv, OneOwner
    <2>4. DataInv'
        BY <1>1, <2>1, <2>2 DEF DataInv, DataOK
    <2> QED
        BY <2>3, <2>4
<1>9. CancelInv'
    BY <1>1 DEF BarrierStep, TaskMoves, CancelInv, CancelOK, OPs, OpOK, CancelFns
<1>10. FlushInv'
    <2> SUFFICES ASSUME NEW u \in Task, NEW r \in before'[u], u # t
                 PROVE  FlushRun(u, r)'
        BY DEF FlushInv
    <2>1. FlushRun(u, r) /\ r \in Runs
        BY <1>1 DEF FlushInv, Types
    <2>2. r[2] \in Cpu
        BY <2>1 DEF Runs
    <2>3. Ahead(worklist[r[2]], r[1], u) => Ahead(worklist'[r[2]], r[1], u)
        BY <2>2 DEF BarrierStep, ListGains
    <2> QED
        BY <1>2, <2>1, <2>2, <2>3 DEF BarrierStep, TaskMoves, FlushRun
<1> QED
    BY <1>5, <1>6, <1>7, <1>8, <1>9, <1>10 DEF Inv

\* The invariant survives a step in which a task only goes on in its call, owns
\* what it owned, and notes the runs it has to wait for.
LEMMA MovesAndNotes ==
    ASSUME Inv, UNCHANGED <<pending, data, timer, worklist, current, thread, asleep, done>>,
           NEW t \in Task, op' \in [Task -> OpType],
           \A u \in Task : u # t => op'[u] = op[u],
           op[t].pc # "wait", OpOK(t)', CancelOK(t)',
           before' \in [Task -> SUBSET Runs],
           \A u \in Task : u # t => before'[u] = before[u],
           \A r \in before'[t] : FlushRun(t, r)',
           \A v \in Work : TaskOwns(t, v)' <=> TaskOwns(t, v)
    PROVE  Inv'
<1>1. Types /\ OPs /\ Ths /\ Dups /\ BarrierInv /\ OwnInv /\ DataInv /\ CancelInv
      /\ FlushInv
    BY DEF Inv
<1>2. \A u \in Task, v \in Work : TaskOwns(u, v)' <=> TaskOwns(u, v)
    BY DEF TaskOwns
<1>3. \A d \in Cpu, v \in Work : CpuOwns(d, v)' <=> CpuOwns(d, v)
    BY DEF CpuOwns
<1>4. Types' /\ Ths' /\ Dups' /\ DataInv'
    BY <1>1 DEF Types, Ths, ThreadOK, Dups, DataInv, DataOK
<1>5. OPs' /\ BarrierInv'
    BY <1>1 DEF OPs, OpOK, BarrierInv, BarrierOK
<1>6. OwnInv'
    BY <1>1, <1>2, <1>3 DEF OwnInv, OneOwner
<1>7. CancelInv'
    BY <1>1 DEF CancelInv, CancelOK
<1>8. FlushInv'
    <2> SUFFICES ASSUME NEW u \in Task, NEW r \in before'[u], u # t
                 PROVE  FlushRun(u, r)'
        BY DEF FlushInv
    <2>1. FlushRun(u, r)
        BY <1>1 DEF FlushInv
    <2> QED
        BY <2>1 DEF FlushRun
<1> QED
    BY <1>4, <1>5, <1>6, <1>7, <1>8 DEF Inv

\* The same when there is nothing to note.
LEMMA OnlyMoves ==
    ASSUME Inv, UNCHANGED <<pending, data, timer, worklist, current, thread, asleep, done, before>>,
           NEW t \in Task, op' \in [Task -> OpType],
           \A u \in Task : u # t => op'[u] = op[u],
           op[t].pc # "wait", OpOK(t)', CancelOK(t)',
           \A r \in before[t] : FlushRun(t, r)',
           \A v \in Work : TaskOwns(t, v)' <=> TaskOwns(t, v)
    PROVE  Inv'
<1>1. /\ before' \in [Task -> SUBSET Runs]
      /\ \A u \in Task : before'[u] = before[u]
      /\ \A r \in before'[t] : FlushRun(t, r)'
    BY DEF Inv, Types
<1> QED
    BY <1>1, MovesAndNotes

\* What is left of the runs to wait for when w goes to c: a flush_work() that
\* has not got its barrier yet finds its work where it was.
LEMMA RequeuedRuns ==
    ASSUME Types, NEW w \in Work, NEW c \in Cpu,
           data' = [data EXCEPT ![w] = c]
    PROVE  /\ Requeued(w, c) \in [Task -> SUBSET Runs]
           /\ \A u \in Task : Requeued(w, c)[u] \subseteq before[u]
           /\ \A u \in Task : \A r \in Requeued(w, c)[u] :
                 op[u].pc \in {"flush", "flush_lock"} /\ op[u].work \in Work =>
                    data'[op[u].work] = data[op[u].work]
<1>1. \A u \in Task : /\ Requeued(w, c)[u] \in SUBSET Runs
                      /\ Requeued(w, c)[u] \subseteq before[u]
    BY DEF Types, Requeued
<1>2. Requeued(w, c) \in [Task -> SUBSET Runs]
    BY DEF Types, Requeued
<1>3. ASSUME NEW u \in Task, NEW r \in Requeued(w, c)[u],
             op[u].pc \in {"flush", "flush_lock"}, op[u].work \in Work
      PROVE  data'[op[u].work] = data[op[u].work]
    <2>1. CASE op[u].work = w
        <3>1. data[w] = c
            BY <1>3, <2>1 DEF Requeued
        <3> QED
            BY <2>1, <3>1 DEF Types
    <2>2. CASE op[u].work # w
        BY <1>3, <2>2 DEF Types
    <2> QED
        BY <2>1, <2>2
<1> QED
    BY <1>1, <1>2, <1>3

-----------------------------------------------------------------------------
(***************************************************************************)
(* Every action keeps the invariant.                                       *)
(***************************************************************************)

\* prepare_to_wait() of worker_thread().
LEMMA PrepareToWaitInv ==
    ASSUME Inv, NEW c \in Cpu,
           prepare_to_wait(c)
    PROVE  Inv'
<1>1. Types /\ OPs /\ Ths /\ Dups /\ BarrierInv /\ OwnInv /\ DataInv /\ CancelInv
      /\ FlushInv
    BY DEF Inv
<1>2. /\ UNCHANGED <<pending, data, timer, worklist, current, op, done, before>>
      /\ asleep' \in [Cpu -> BOOLEAN]
      /\ thread[c] \in {"idle", "test", "schedule", "awake"}
    BY <1>1 DEF prepare_to_wait, Types, wake_up, workVars, clientVars
<1>3. ThreadMoves(c, "test")
    BY <1>1 DEF Types, ThreadGoto, ThreadMoves, ThreadPcs, prepare_to_wait
<1>4. \A u \in Task, v \in Work : TaskOwns(u, v)' <=> TaskOwns(u, v)
    BY <1>2 DEF TaskOwns
<1>5. \A d \in Cpu, v \in Work : CpuOwns(d, v)' <=> CpuOwns(d, v)
    BY <1>2, <1>3 DEF CpuOwns, ThreadMoves
<1>6. OPs' /\ Dups' /\ CancelInv' /\ FlushInv'
    BY <1>1, <1>2 DEF OPs, OpOK, CancelFns, Dups, CancelInv, CancelOK, FlushInv, FlushRun
<1>7. Types'
    BY <1>1, <1>2, <1>3 DEF Types, ThreadMoves
<1>8. Ths'
    BY <1>1, <1>2, <1>3 DEF Ths, ThreadOK, ThreadMoves
<1>9. BarrierInv'
    BY <1>1, <1>2, <1>3 DEF BarrierInv, BarrierOK, ThreadMoves
<1>10. OwnInv'
    BY <1>1, <1>2, <1>4, <1>5 DEF OwnInv, OneOwner
<1>11. DataInv'
    BY <1>1, <1>2, <1>3 DEF DataInv, DataOK, ThreadMoves
<1> QED
    BY <1>6, <1>7, <1>8, <1>9, <1>10, <1>11 DEF Inv

\* schedule() of worker_thread().
LEMMA ScheduleInv ==
    ASSUME Inv, NEW c \in Cpu,
           schedule(c)
    PROVE  Inv'
<1>1. Types /\ OPs /\ Ths /\ Dups /\ BarrierInv /\ OwnInv /\ DataInv /\ CancelInv
      /\ FlushInv
    BY DEF Inv
<1>2. /\ UNCHANGED <<pending, data, timer, worklist, current, op, done, before>>
      /\ asleep' \in [Cpu -> BOOLEAN]
      /\ thread[c] \in {"idle", "test", "schedule", "awake"}
    BY <1>1 DEF schedule, Types, wake_up, workVars, clientVars
<1>3. ThreadMoves(c, "awake")
    BY <1>1 DEF Types, ThreadGoto, ThreadMoves, ThreadPcs, schedule
<1>4. \A u \in Task, v \in Work : TaskOwns(u, v)' <=> TaskOwns(u, v)
    BY <1>2 DEF TaskOwns
<1>5. \A d \in Cpu, v \in Work : CpuOwns(d, v)' <=> CpuOwns(d, v)
    BY <1>2, <1>3 DEF CpuOwns, ThreadMoves
<1>6. OPs' /\ Dups' /\ CancelInv' /\ FlushInv'
    BY <1>1, <1>2 DEF OPs, OpOK, CancelFns, Dups, CancelInv, CancelOK, FlushInv, FlushRun
<1>7. Types'
    BY <1>1, <1>2, <1>3 DEF Types, ThreadMoves
<1>8. Ths'
    BY <1>1, <1>2, <1>3 DEF Ths, ThreadOK, ThreadMoves
<1>9. BarrierInv'
    BY <1>1, <1>2, <1>3 DEF BarrierInv, BarrierOK, ThreadMoves
<1>10. OwnInv'
    BY <1>1, <1>2, <1>4, <1>5 DEF OwnInv, OneOwner
<1>11. DataInv'
    BY <1>1, <1>2, <1>3 DEF DataInv, DataOK, ThreadMoves
<1> QED
    BY <1>6, <1>7, <1>8, <1>9, <1>10, <1>11 DEF Inv

\* worker_thread() looks at its list.
LEMMA TestWorklistInv ==
    ASSUME Inv, NEW c \in Cpu,
           test_worklist(c)
    PROVE  Inv'
<1>1. Types /\ OPs /\ Ths /\ Dups /\ BarrierInv /\ OwnInv /\ DataInv /\ CancelInv
      /\ FlushInv
    BY DEF Inv
<1>2. /\ UNCHANGED <<pending, data, timer, worklist, current, op, done, before>>
      /\ asleep' \in [Cpu -> BOOLEAN]
      /\ thread[c] \in {"idle", "test", "schedule", "awake"}
    BY <1>1 DEF test_worklist, Types, wake_up, workVars, clientVars
<1>3. ThreadMoves(c, "schedule") \/ ThreadMoves(c, "awake")
    BY <1>1 DEF Types, ThreadGoto, ThreadMoves, ThreadPcs, test_worklist
<1>4. \A u \in Task, v \in Work : TaskOwns(u, v)' <=> TaskOwns(u, v)
    BY <1>2 DEF TaskOwns
<1>5. \A d \in Cpu, v \in Work : CpuOwns(d, v)' <=> CpuOwns(d, v)
    BY <1>2, <1>3 DEF CpuOwns, ThreadMoves
<1>6. OPs' /\ Dups' /\ CancelInv' /\ FlushInv'
    BY <1>1, <1>2 DEF OPs, OpOK, CancelFns, Dups, CancelInv, CancelOK, FlushInv, FlushRun
<1>7. Types'
    BY <1>1, <1>2, <1>3 DEF Types, ThreadMoves
<1>8. Ths'
    BY <1>1, <1>2, <1>3 DEF Ths, ThreadOK, ThreadMoves
<1>9. BarrierInv'
    BY <1>1, <1>2, <1>3 DEF BarrierInv, BarrierOK, ThreadMoves
<1>10. OwnInv'
    BY <1>1, <1>2, <1>4, <1>5 DEF OwnInv, OneOwner
<1>11. DataInv'
    BY <1>1, <1>2, <1>3 DEF DataInv, DataOK, ThreadMoves
<1> QED
    BY <1>6, <1>7, <1>8, <1>9, <1>10, <1>11 DEF Inv

\* run_workqueue() takes the first entry, or leaves.
LEMMA RunWorkqueueInv ==
    ASSUME Inv, NEW c \in Cpu,
           run_workqueue(c)
    PROVE  Inv'
<1>1. Types /\ OPs /\ Ths /\ Dups /\ BarrierInv /\ OwnInv /\ DataInv /\ CancelInv
      /\ FlushInv
    BY DEF Inv
<1>2. /\ UNCHANGED <<pending, data, timer, asleep, op, done>>
      /\ thread[c] = "awake" /\ current[c] = None
    BY <1>1 DEF run_workqueue, workVars, Ths, ThreadOK
<1>3. CASE worklist[c] = <<>>
    <2>1. UNCHANGED <<worklist, current, before>> /\ ThreadMoves(c, "idle")
        BY <1>1, <1>2, <1>3 DEF run_workqueue, ThreadGoto, ThreadMoves, Types, ThreadPcs
    <2>2. \A d \in Cpu, v \in Work : CpuOwns(d, v)' <=> CpuOwns(d, v)
        BY <1>2, <2>1 DEF CpuOwns, ThreadMoves
    <2>3. \A u \in Task, v \in Work : TaskOwns(u, v)' <=> TaskOwns(u, v)
        BY <1>2 DEF TaskOwns
    <2>4. Types' /\ OPs' /\ Ths' /\ Dups' /\ BarrierInv'
        BY <1>1, <1>2, <2>1
           DEF Types, OPs, OpOK, Ths, ThreadOK, Dups, BarrierInv, BarrierOK, ThreadMoves
    <2>5. OwnInv'
        BY <1>1, <1>2, <2>1, <2>2, <2>3 DEF OwnInv, OneOwner
    <2>6. DataInv' /\ CancelInv' /\ FlushInv'
        BY <1>1, <1>2, <2>1
           DEF DataInv, DataOK, CancelInv, CancelOK, FlushInv, FlushRun, ThreadMoves
    <2> QED
        BY <2>4, <2>5, <2>6 DEF Inv
<1>4. CASE worklist[c] # <<>>
    <2> DEFINE x == Head(worklist[c])
    <2>1. x \in Work \cup Task /\ OnList(worklist[c], x)
        BY <1>1, <1>4, HeadOn DEF Types
    <2>2. /\ worklist' = [worklist EXCEPT ![c] = Tail(@)]
          /\ current' = [current EXCEPT ![c] = x]
          /\ StartRun(x, c)
          /\ ThreadMoves(c, "dequeued")
        BY <1>1, <1>2, <1>4 DEF run_workqueue, ThreadGoto, ThreadMoves, Types, ThreadPcs
    <2>3. ListLoses(c, x)
        <3>1. worklist'[c] = Tail(worklist[c]) /\ \A d \in Cpu : d # c
                    => worklist'[d] = worklist[d]
            BY <1>1, <2>2 DEF Types
        <3>2. worklist[c] \in Seq(Work \cup Task) /\ NoDup(worklist[c])
            BY <1>1 DEF Types, Dups
        <3>3. /\ Tail(worklist[c]) \in Seq(Work \cup Task)
              /\ \A y : OnList(Tail(worklist[c]), y) <=> OnList(worklist[c], y) /\ y # x
              /\ NoDup(Tail(worklist[c]))
            BY <3>2, <1>4, TailList
        <3>4. \A y, z : Ahead(worklist[c], y, z) /\ y # x /\ z # x
                    => Ahead(Tail(worklist[c]), y, z)
            BY <3>2, <1>4, TailAhead
        <3>5. worklist' \in [Cpu -> Seq(Work \cup Task)]
            BY <1>1, <2>2, <3>3 DEF Types
        <3> QED
            BY <3>1, <3>3, <3>4, <3>5 DEF ListLoses
    <2>4. /\ current' \in [Cpu -> Work \cup Task \cup {None}]
          /\ current'[c] = x /\ \A d \in Cpu : d # c => current'[d] = current[d]
        BY <1>1, <2>1, <2>2 DEF Types
    <2>5. x # None
        BY <2>1, WorkqueueAssumption
    <2>6. /\ before' \in [Task -> SUBSET Runs]
          /\ \A t \in Task : \A r \in before'[t] : r \in Runs /\ r # <<x, c, "queued">>
          /\ \A t \in Task : \A r \in before'[t] :
                \/ r \in before[t]
                \/ r = <<x, c, "running">> /\ <<x, c, "queued">> \in before[t]
        <3>1. ASSUME NEW t \in Task
              PROVE  /\ before'[t] \subseteq Runs
                     /\ \A r \in before'[t] : r # <<x, c, "queued">>
                     /\ \A r \in before'[t] :
                           \/ r \in before[t]
                           \/ r = <<x, c, "running">> /\ <<x, c, "queued">> \in before[t]
            <4>1. before[t] \subseteq Runs
                BY <1>1 DEF Types
            <4>2. CASE <<x, c, "queued">> \in before[t]
                <5>1. x \in Work
                    BY <4>1, <4>2 DEF Runs
                <5>2. <<x, c, "running">> \in Runs
                    BY <5>1 DEF Runs
                <5>3. before'[t] = (before[t] \ {<<x, c, "queued">>}) \cup {<<x, c, "running">>}
                    BY <2>2, <4>2 DEF StartRun
                <5>4. <<x, c, "running">> # <<x, c, "queued">>
                    OBVIOUS
                <5> QED
                    BY <4>1, <4>2, <5>2, <5>3, <5>4
            <4>3. CASE <<x, c, "queued">> \notin before[t]
                BY <2>2, <4>1, <4>3 DEF StartRun
            <4> QED
                BY <4>2, <4>3
        <3>2. DOMAIN before' = Task /\ before' = [t \in Task |-> before'[t]]
            BY <2>2 DEF StartRun
        <3> QED
            BY <3>1, <3>2
    <2>7. \A u \in Task, v \in Work : TaskOwns(u, v)' <=> TaskOwns(u, v)
        BY <1>2 DEF TaskOwns
    <2>8. \A d \in Cpu, v \in Work : CpuOwns(d, v)' <=> CpuOwns(d, v) \/ (d = c /\ v = x)
        BY <1>1, <1>2, <2>2, <2>4, <2>5, WorkqueueAssumption DEF CpuOwns, ThreadMoves
    <2>9. Types' /\ OPs' /\ Ths' /\ Dups'
        BY <1>1, <1>2, <2>2, <2>3, <2>4, <2>5, <2>6
           DEF Types, OPs, OpOK, Ths, ThreadOK, Dups, ThreadMoves, ListLoses
    <2>10. BarrierInv'
        BY <1>1, <1>2, <2>1, <2>2, <2>3, <2>4
           DEF BarrierInv, BarrierOK, ThreadMoves, ListLoses
    <2>11. OwnInv'
        <3>1. \A d \in Cpu : \A v : OnList(worklist'[d], v) <=> OnList(worklist[d], v)
                    /\ ~(d = c /\ v = x)
            BY <2>3 DEF ListLoses
        <3> QED
            <4> SUFFICES ASSUME NEW v \in Work
                         PROVE  OneOwner(v)'
                BY DEF OwnInv
            <4>1. OneOwner(v)
                BY <1>1 DEF OwnInv
            <4>2. CASE v = x
                BY <1>2, <2>1, <2>7, <2>8, <3>1, <4>1, <4>2 DEF OneOwner
            <4>3. CASE v # x
                BY <1>2, <2>7, <2>8, <3>1, <4>1, <4>3 DEF OneOwner
            <4> QED
                BY <4>2, <4>3
    <2>12. DataInv'
        <3>1. \A d \in Cpu : \A v : OnList(worklist'[d], v) => OnList(worklist[d], v)
            BY <2>3 DEF ListLoses
        <3>2. c # None
            BY WorkqueueAssumption DEF Cpu
        <3> SUFFICES ASSUME NEW v \in Work, NEW d \in Cpu
                     PROVE  DataOK(v, d)'
            BY DEF DataInv
        <3>3. DataOK(v, d) /\ DataOK(v, c)
            BY <1>1 DEF DataInv
        <3>4. CASE d = c
            BY <1>2, <2>1, <2>4, <3>1, <3>2, <3>3, <3>4 DEF DataOK
        <3>5. CASE d # c
            BY <1>2, <2>2, <2>4, <3>1, <3>3, <3>5 DEF DataOK, ThreadMoves
        <3> QED
            BY <3>4, <3>5
    <2>13. CancelInv'
        BY <1>1, <1>2, <2>1, <2>3, <2>4, <2>5, <2>7
           DEF CancelInv, CancelOK, OwnInv, OneOwner, TaskOwns, Types, OPs, OpOK
    <2>14. FlushInv'
        <3> SUFFICES ASSUME NEW t \in Task, NEW r \in before'[t]
                     PROVE  FlushRun(t, r)'
            BY DEF FlushInv
        <3>1. r \in Runs /\ r # <<x, c, "queued">>
            BY <2>6
        <3>2. CASE r \in before[t]
            <4>1. FlushRun(t, r)
                BY <1>1, <3>2 DEF FlushInv
            <4>2. r[1] \in Work /\ r[2] \in Cpu /\ r[3] \in {"queued", "running"}
                        /\ r = <<r[1], r[2], r[3]>>
                BY <3>1 DEF Runs
            <4>3. r[3] = "running" => r[2] # c
                BY <1>2, <4>1, <4>2, WorkqueueAssumption DEF FlushRun
            <4>4. r[3] = "queued" => ~(r[1] = x /\ r[2] = c)
                BY <3>1, <4>2
            <4>5. x = t /\ r[2] = c => op[t].pc # "wait" \/ r[2] # op[t].cwq
                <5> SUFFICES ASSUME x = t, r[2] = c, op[t].pc = "wait", r[2] = op[t].cwq
                             PROVE  FALSE
                    OBVIOUS
                <5>1. Ahead(worklist[c], r[1], t)
                    BY <4>1, <4>2, <4>3 DEF FlushRun
                <5> QED
                    BY <1>1, <1>4, <5>1, TailAhead DEF Types, Dups
            <4> QED
                BY <1>2, <2>3, <2>4, <4>1, <4>2, <4>3, <4>4, <4>5 DEF FlushRun, ListLoses
        <3>3. CASE r = <<x, c, "running">> /\ <<x, c, "queued">> \in before[t]
            <4>1. FlushRun(t, <<x, c, "queued">>)
                BY <1>1, <3>3 DEF FlushInv
            <4>2. x \in Work /\ x # t
                BY <3>1, <3>3, WorkqueueAssumption DEF Runs
            <4> QED
                BY <1>2, <2>3, <2>4, <3>3, <4>1, <4>2 DEF FlushRun, ListLoses
        <3> QED
            BY <2>6, <3>2, <3>3
    <2> QED
        BY <2>9, <2>10, <2>11, <2>12, <2>13, <2>14 DEF Inv
<1> QED
    BY <1>3, <1>4

\* The bit is cleared: the thread no longer owns the work.
LEMMA WorkClearPendingInv ==
    ASSUME Inv, NEW c \in Cpu,
           work_clear_pending(c)
    PROVE  Inv'
<1>1. Types /\ OPs /\ Ths /\ Dups /\ BarrierInv /\ OwnInv /\ DataInv /\ CancelInv
      /\ FlushInv
    BY DEF Inv
<1>2. /\ UNCHANGED <<data, timer, worklist, current, asleep, op, done, before>>
      /\ thread[c] = "dequeued"
      /\ ThreadMoves(c, "run")
    BY <1>1
       DEF work_clear_pending, Types, ThreadGoto, ThreadMoves, ThreadPcs, workVars, queueVars,
           clientVars
<1>3. /\ pending' \in [Work -> BOOLEAN]
      /\ \A v \in Work : pending'[v] <=> pending[v] /\ v # current[c]
    BY <1>1 DEF work_clear_pending, Types
<1>4. \A u \in Task, v \in Work : TaskOwns(u, v)' <=> TaskOwns(u, v)
    BY <1>2 DEF TaskOwns
<1>5. \A d \in Cpu, v \in Work : CpuOwns(d, v)' <=> CpuOwns(d, v) /\ d # c
    BY <1>1, <1>2 DEF CpuOwns, ThreadMoves, Ths, ThreadOK
<1>6. \A v \in Work : v = current[c] <=> CpuOwns(c, v)
    BY <1>2 DEF CpuOwns
<1>7. OPs' /\ Dups' /\ CancelInv' /\ FlushInv'
    BY <1>1, <1>2 DEF OPs, OpOK, CancelFns, Dups, CancelInv, CancelOK, FlushInv, FlushRun
<1>8. Types'
    BY <1>1, <1>2, <1>3, <1>6 DEF Types, ThreadMoves
<1>9. Ths'
    BY <1>1, <1>2, <1>3, <1>6 DEF Ths, ThreadOK, ThreadMoves
<1>10. BarrierInv'
    BY <1>1, <1>2, <1>3, <1>6 DEF BarrierInv, BarrierOK, ThreadMoves
<1>11. OwnInv'
    BY <1>1, <1>2, <1>3, <1>4, <1>5, <1>6 DEF OwnInv, OneOwner
<1>12. DataInv'
    BY <1>1, <1>2, <1>3, <1>6 DEF DataInv, DataOK, ThreadMoves
<1> QED
    BY <1>7, <1>8, <1>9, <1>10, <1>11, <1>12 DEF Inv

\* A function queues its own work: its thread owns it.
LEMMA FuncRequeueInv ==
    ASSUME Inv, NEW c \in Cpu,
           func_requeue(c)
    PROVE  Inv'
<1>1. Types /\ OPs /\ Ths /\ Dups /\ BarrierInv /\ OwnInv /\ DataInv /\ CancelInv
      /\ FlushInv
    BY DEF Inv
<1>2. /\ UNCHANGED <<data, timer, worklist, current, asleep, op, done, before>>
      /\ thread[c] = "run" /\ current[c] \in Work /\ ~pending[current[c]]
      /\ ThreadMoves(c, "requeue")
    BY <1>1, WorkqueueAssumption
       DEF func_requeue, Types, ThreadGoto, ThreadMoves, ThreadPcs, workVars, queueVars,
           clientVars
<1>3. /\ pending' \in [Work -> BOOLEAN]
      /\ \A v \in Work : pending'[v] <=> pending[v] \/ v = current[c]
    BY <1>1 DEF func_requeue, Types
<1>4. \A u \in Task, v \in Work : TaskOwns(u, v)' <=> TaskOwns(u, v)
    BY <1>2 DEF TaskOwns
<1>5. \A d \in Cpu, v \in Work : CpuOwns(d, v)' <=> CpuOwns(d, v) \/ (d = c
            /\ v = current[c])
    BY <1>1, <1>2 DEF CpuOwns, ThreadMoves, Ths, ThreadOK
<1>6. OPs' /\ Dups' /\ CancelInv' /\ FlushInv'
    BY <1>1, <1>2 DEF OPs, OpOK, CancelFns, Dups, CancelInv, CancelOK, FlushInv, FlushRun
<1>7. Types'
    BY <1>1, <1>2, <1>3 DEF Types, ThreadMoves
<1>8. Ths'
    BY <1>1, <1>2, <1>3 DEF Ths, ThreadOK, ThreadMoves
<1>9. BarrierInv'
    BY <1>1, <1>2, <1>3 DEF BarrierInv, BarrierOK, ThreadMoves
<1>10. OwnInv'
    BY <1>1, <1>2, <1>3, <1>4, <1>5 DEF OwnInv, OneOwner
<1>11. DataInv'
    BY <1>1, <1>2, <1>3 DEF DataInv, DataOK, ThreadMoves
<1> QED
    BY <1>6, <1>7, <1>8, <1>9, <1>10, <1>11 DEF Inv

\* A barrier runs, and completes.
LEMMA WqBarrierFuncInv ==
    ASSUME Inv, NEW c \in Cpu,
           wq_barrier_func(c)
    PROVE  Inv'
<1>1. Types /\ OPs /\ Ths /\ Dups /\ BarrierInv /\ OwnInv /\ DataInv /\ CancelInv
      /\ FlushInv
    BY DEF Inv
<1>2. /\ UNCHANGED <<pending, data, timer, worklist, current, asleep, op, before>>
      /\ thread[c] = "run" /\ current[c] \in Task
      /\ ThreadMoves(c, "ran")
    BY <1>1
       DEF wq_barrier_func, Types, ThreadGoto, ThreadMoves, ThreadPcs, workVars, queueVars,
           clientVars
<1>3. /\ done' \in [Task -> BOOLEAN]
      /\ \A u \in Task : done'[u] <=> done[u] \/ u = current[c]
    BY <1>1, <1>2 DEF wq_barrier_func, Types
<1>4. \A u \in Task, v \in Work : TaskOwns(u, v)' <=> TaskOwns(u, v)
    BY <1>2 DEF TaskOwns
<1>5. \A d \in Cpu, v \in Work : CpuOwns(d, v)' <=> CpuOwns(d, v)
    BY <1>1, <1>2 DEF CpuOwns, ThreadMoves, Ths, ThreadOK
<1>6. OPs' /\ Dups' /\ FlushInv'
    BY <1>1, <1>2 DEF OPs, OpOK, CancelFns, Dups, FlushInv, FlushRun
<1>7. Types'
    BY <1>1, <1>2, <1>3 DEF Types, ThreadMoves
<1>8. Ths'
    BY <1>1, <1>2, <1>3 DEF Ths, ThreadOK, ThreadMoves
<1>9. BarrierInv'
    BY <1>1, <1>2, <1>3 DEF BarrierInv, BarrierOK, ThreadMoves
<1>10. OwnInv'
    BY <1>1, <1>2, <1>3, <1>4, <1>5 DEF OwnInv, OneOwner
<1>11. DataInv'
    BY <1>1, <1>2, <1>3 DEF DataInv, DataOK, ThreadMoves
<1>12. CancelInv'
    BY <1>1, <1>2, <1>3, WorkqueueAssumption
       DEF CancelInv, CancelOK, ThreadMoves, BarrierInv, BarrierOK, Types, OPs, OpOK
<1> QED
    BY <1>6, <1>7, <1>8, <1>9, <1>10, <1>11, <1>12 DEF Inv

\* A function has returned.
LEMMA FuncReturnsInv ==
    ASSUME Inv, NEW c \in Cpu,
           func_returns(c)
    PROVE  Inv'
<1>1. Types /\ OPs /\ Ths /\ Dups /\ BarrierInv /\ OwnInv /\ DataInv /\ CancelInv
      /\ FlushInv
    BY DEF Inv
<1>2. /\ UNCHANGED <<pending, data, timer, worklist, asleep, op, done>>
      /\ thread[c] \in {"run", "ran"}
      /\ ThreadMoves(c, "awake")
    BY <1>1
       DEF func_returns, Types, ThreadGoto, ThreadMoves, ThreadPcs, workVars, queueVars,
           clientVars
<1>3. /\ current' \in [Cpu -> Work \cup Task \cup {None}]
      /\ current'[c] = None
      /\ \A d \in Cpu : d # c => current'[d] = current[d]
    BY <1>1, <1>2 DEF func_returns, Types
<1>4. /\ before' \in [Task -> SUBSET Runs]
      /\ \A t \in Task : before'[t] = before[t] \ {<<current[c], c, "running">>}
    BY <1>1, <1>2 DEF func_returns, Types, EndRun
<1>5. \A u \in Task, v \in Work : TaskOwns(u, v)' <=> TaskOwns(u, v)
    BY <1>2 DEF TaskOwns
<1>6. \A d \in Cpu, v \in Work : CpuOwns(d, v)' <=> CpuOwns(d, v)
    BY <1>1, <1>2, <1>3 DEF CpuOwns, ThreadMoves, Ths, ThreadOK
<1>7. OPs' /\ Dups'
    BY <1>1, <1>2 DEF OPs, OpOK, CancelFns, Dups
<1>8. Types'
    BY <1>1, <1>2, <1>3, <1>4 DEF Types, ThreadMoves
<1>9. Ths'
    BY <1>1, <1>2, <1>3, <1>4 DEF Ths, ThreadOK, ThreadMoves
<1>10. BarrierInv'
    BY <1>1, <1>2, <1>3, <1>4 DEF BarrierInv, BarrierOK, ThreadMoves
<1>11. OwnInv'
    BY <1>1, <1>2, <1>3, <1>4, <1>5, <1>6 DEF OwnInv, OneOwner
<1>12. DataInv'
    BY <1>1, <1>2, <1>3, <1>4, WorkqueueAssumption DEF DataInv, DataOK, ThreadMoves
<1>13. CancelInv'
    BY <1>1, <1>2, <1>3, <1>4, WorkqueueAssumption
       DEF CancelInv, CancelOK, ThreadMoves, OPs, OpOK
<1>14. FlushInv'
    <2> SUFFICES ASSUME NEW t \in Task, NEW r \in before'[t]
                 PROVE  FlushRun(t, r)'
        BY DEF FlushInv
    <2>1. FlushRun(t, r) /\ r # <<current[c], c, "running">>
        BY <1>1, <1>4 DEF FlushInv
    <2>2. r[1] \in Work /\ r[2] \in Cpu /\ r[3] \in {"queued", "running"}
                /\ r = <<r[1], r[2], r[3]>>
        BY <1>4 DEF Runs
    <2>3. r[3] = "running" => r[2] # c
        BY <2>1, <2>2 DEF FlushRun
    <2> QED
        BY <1>2, <1>3, <2>1, <2>2, <2>3 DEF FlushRun
<1> QED
    BY <1>7, <1>8, <1>9, <1>10, <1>11, <1>12, <1>13, <1>14 DEF Inv

\* A timer fires.
LEMMA TimerFiresInv ==
    ASSUME Inv, NEW w \in Work,
           timer_fires(w)
    PROVE  Inv'
<1>1. Types /\ OPs /\ Ths /\ Dups /\ BarrierInv /\ OwnInv /\ DataInv /\ CancelInv
      /\ FlushInv
    BY DEF Inv
<1>2. /\ UNCHANGED <<pending, data, worklist, current, thread, asleep, op, done, before>>
      /\ timer' \in [Work -> {"off", "armed", "fired"}]
      /\ timer[w] # "off" /\ timer'[w] # "off"
      /\ \A v \in Work : v # w => timer'[v] = timer[v]
    BY <1>1 DEF timer_fires, Types, workVars, queueVars, clientVars
<1>3. \A u \in Task, v \in Work : TaskOwns(u, v)' <=> TaskOwns(u, v)
    BY <1>2 DEF TaskOwns
<1>4. \A d \in Cpu, v \in Work : CpuOwns(d, v)' <=> CpuOwns(d, v)
    BY <1>2 DEF CpuOwns
<1>5. OPs' /\ Ths' /\ Dups' /\ BarrierInv' /\ DataInv' /\ CancelInv' /\ FlushInv'
    BY <1>1, <1>2
       DEF OPs, OpOK, CancelFns, Ths, ThreadOK, Dups, BarrierInv, BarrierOK, DataInv, DataOK,
           CancelInv, CancelOK, FlushInv, FlushRun
<1>6. Types'
    BY <1>1, <1>2 DEF Types
<1>7. OwnInv'
    BY <1>1, <1>2, <1>3, <1>4 DEF OwnInv, OneOwner
<1> QED
    BY <1>5, <1>6, <1>7 DEF Inv

\* The timer is armed: the work goes from the task to the timer.
LEMMA AddTimerInv ==
    ASSUME Inv, NEW t \in Task,
           add_timer(t)
    PROVE  Inv'
<1>1. Types /\ OPs /\ Ths /\ Dups /\ BarrierInv /\ OwnInv /\ DataInv /\ CancelInv
      /\ FlushInv
    BY DEF Inv
<1>2. /\ UNCHANGED <<pending, worklist, current, thread, asleep, done>>
      /\ op[t].pc = "arm" /\ op[t].work \in Work /\ op[t].cwq \in Cpu
    BY <1>1 DEF add_timer, OPs, OpOK, workVars, queueVars, clientVars
<1>3. TaskMoves(t, "none", "idle", None, None, 0)
    BY <1>1, IdleMoves DEF add_timer
<1>4. /\ data' \in [Work -> Cpu \cup {None}]
      /\ timer' \in [Work -> {"off", "armed", "fired"}]
      /\ timer'[op[t].work] # "off"
      /\ data'[op[t].work] # None
      /\ \A v \in Work : v # op[t].work => timer'[v] = timer[v] /\ data'[v] = data[v]
    BY <1>1, <1>2, WorkqueueAssumption DEF add_timer, Types, Cpu
<1>5. \A v \in Work : TaskOwns(t, v) <=> v = op[t].work
    BY <1>2 DEF TaskOwns
<1>6. \A u \in Task, v \in Work : TaskOwns(u, v)' <=> TaskOwns(u, v) /\ u # t
    BY <1>1, <1>2, <1>3 DEF TaskOwns, TaskMoves, OPs, OpOK, CancelFns
<1>7. \A d \in Cpu, v \in Work : CpuOwns(d, v)' <=> CpuOwns(d, v)
    BY <1>2 DEF CpuOwns
<1>8. Ths' /\ Dups'
    BY <1>1, <1>2 DEF Ths, ThreadOK, Dups
<1>0. /\ before' \in [Task -> SUBSET Runs]
      /\ \A u \in Task : before'[u] \subseteq before[u]
      /\ \A u \in Task : \A r \in before'[u] :
            op[u].pc \in {"flush", "flush_lock"} /\ op[u].work \in Work =>
               data'[op[u].work] = data[op[u].work]
    <2>1. data' = [data EXCEPT ![op[t].work] = op[t].cwq]
          /\ before' = Requeued(op[t].work, op[t].cwq)
        BY DEF add_timer
    <2> QED
        BY <1>1, <1>2, <2>1, RequeuedRuns
<1>9. Types'
    BY <1>0, <1>1, <1>2, <1>3, <1>4, <1>5 DEF Types, TaskMoves
<1>10. OPs'
    BY <1>1, <1>2, <1>3, <1>4, <1>5 DEF OPs, OpOK, CancelFns, TaskMoves
<1>11. BarrierInv'
    BY <1>1, <1>2, <1>3, <1>4, <1>5 DEF BarrierInv, BarrierOK, TaskMoves
<1>12. OwnInv'
    <2> SUFFICES ASSUME NEW v \in Work
                 PROVE  OneOwner(v)'
        BY DEF OwnInv
    <2>1. OneOwner(v)
        BY <1>1 DEF OwnInv
    <2>2. CASE v = op[t].work
        BY <1>2, <1>3, <1>4, <1>5, <1>6, <1>7, <2>1, <2>2 DEF OneOwner, TaskMoves
    <2>3. CASE v # op[t].work
        BY <1>2, <1>3, <1>4, <1>5, <1>6, <1>7, <2>1, <2>3 DEF OneOwner, TaskMoves
    <2> QED
        BY <2>2, <2>3
<1>13. DataInv'
    BY <1>1, <1>2, <1>4, <1>5 DEF DataInv, DataOK, OwnInv, OneOwner, CpuOwns
<1>14. CancelInv'
    BY <1>1, <1>2, <1>3, <1>4, <1>5 DEF CancelInv, CancelOK, TaskMoves
<1>15. FlushInv'
    <2> SUFFICES ASSUME NEW u \in Task, NEW r \in before'[u]
                 PROVE  FlushRun(u, r)'
        BY DEF FlushInv
    <2>1. FlushRun(u, r) /\ r \in before[u]
        BY <1>1, <1>0 DEF FlushInv
    <2>2. op[u].pc \in {"flush", "flush_lock"} => data'[op[u].work] = data[op[u].work]
        BY <1>1, <1>0 DEF OPs, OpOK
    <2>3. u # t
        BY <1>2, <2>1 DEF FlushRun
    <2> QED
        BY <1>2, <1>3, <2>1, <2>2, <2>3 DEF FlushRun, TaskMoves
<1> QED
    BY <1>8, <1>9, <1>10, <1>11, <1>12, <1>13, <1>14, <1>15 DEF Inv

\* queue_work_on() sets the bit, and the task owns the work.
LEMMA QueueWorkOnInv ==
    ASSUME Inv, NEW t \in Task, NEW w \in Work, NEW c \in Cpu,
           queue_work_on(t, w, c)
    PROVE  Inv'
<1>1. Types /\ OPs /\ Ths /\ Dups /\ BarrierInv /\ OwnInv /\ DataInv /\ CancelInv
      /\ FlushInv
    BY DEF Inv
<1>2. /\ UNCHANGED <<data, timer, worklist, current, thread, asleep, done, before>>
      /\ op[t].pc = "idle" /\ ~pending[w]
      /\ pending' \in [Work -> BOOLEAN]
      /\ \A v \in Work : pending'[v] <=> pending[v] \/ v = w
    BY <1>1 DEF queue_work_on, Types, workVars, queueVars, clientVars
<1>3. TaskMoves(t, "queue", "insert", w, c, 0)
    <2> DEFINE o == [fn |-> "queue", pc |-> "insert", work |-> w, cwq |-> c, ret |-> 0]
    <2>1. o \in OpType
        BY WorkqueueAssumption DEF OpType, Fns, Pcs, Cpu
    <2>2. op' = [op EXCEPT ![t] = o]
        <3>1. PICK n :
                    n = [NoOp EXCEPT !.fn = "queue", !.pc = "insert", !.work = w, !.cwq = c]
            OBVIOUS
        <3>2. n = o
            BY <3>1 DEF NoOp
        <3> QED
            BY <3>1, <3>2 DEF queue_work_on
    <2> QED
        BY <1>1, <2>1, <2>2, CallMoves
<1>4. \A u \in Task, v \in Work : TaskOwns(u, v)' <=> TaskOwns(u, v) \/ (u = t /\ v = w)
    BY <1>1, <1>2, <1>3 DEF TaskOwns, TaskMoves, OPs, OpOK, CancelFns
<1>5. \A d \in Cpu, v \in Work : CpuOwns(d, v)' <=> CpuOwns(d, v)
    BY <1>2 DEF CpuOwns
<1>6. Ths' /\ Dups' /\ DataInv'
    BY <1>1, <1>2 DEF Ths, ThreadOK, Dups, DataInv, DataOK
<1>7. Types'
    BY <1>1, <1>2, <1>3 DEF Types, TaskMoves
<1>8. OPs'
    BY <1>1, <1>2, <1>3 DEF OPs, OpOK, CancelFns, TaskMoves
<1>9. BarrierInv'
    BY <1>1, <1>2, <1>3 DEF BarrierInv, BarrierOK, TaskMoves
<1>10. OwnInv'
    BY <1>1, <1>2, <1>4, <1>5 DEF OwnInv, OneOwner
<1>11. CancelInv'
    BY <1>1, <1>2, <1>3 DEF CancelInv, CancelOK, TaskMoves
<1>12. FlushInv'
    BY <1>1, <1>2, <1>3 DEF FlushInv, FlushRun, TaskMoves
<1> QED
    BY <1>6, <1>7, <1>8, <1>9, <1>10, <1>11, <1>12 DEF Inv

\* queue_delayed_work_on() sets the bit, and the task owns the work.
LEMMA QueueDelayedWorkOnInv ==
    ASSUME Inv, NEW t \in Task, NEW w \in Work, NEW c \in Cpu,
           queue_delayed_work_on(t, w, c)
    PROVE  Inv'
<1>1. Types /\ OPs /\ Ths /\ Dups /\ BarrierInv /\ OwnInv /\ DataInv /\ CancelInv
      /\ FlushInv
    BY DEF Inv
<1>2. /\ UNCHANGED <<data, timer, worklist, current, thread, asleep, done, before>>
      /\ op[t].pc = "idle" /\ ~pending[w]
      /\ pending' \in [Work -> BOOLEAN]
      /\ \A v \in Work : pending'[v] <=> pending[v] \/ v = w
    BY <1>1 DEF queue_delayed_work_on, Types, workVars, queueVars, clientVars
<1>3. TaskMoves(t, "queue", "arm", w, c, 0)
    <2> DEFINE o == [fn |-> "queue", pc |-> "arm", work |-> w, cwq |-> c, ret |-> 0]
    <2>1. o \in OpType
        BY WorkqueueAssumption DEF OpType, Fns, Pcs, Cpu
    <2>2. op' = [op EXCEPT ![t] = o]
        <3>1. PICK n :
                    n = [NoOp EXCEPT !.fn = "queue", !.pc = "arm", !.work = w, !.cwq = c]
            OBVIOUS
        <3>2. n = o
            BY <3>1 DEF NoOp
        <3> QED
            BY <3>1, <3>2 DEF queue_delayed_work_on
    <2> QED
        BY <1>1, <2>1, <2>2, CallMoves
<1>4. \A u \in Task, v \in Work : TaskOwns(u, v)' <=> TaskOwns(u, v) \/ (u = t /\ v = w)
    BY <1>1, <1>2, <1>3 DEF TaskOwns, TaskMoves, OPs, OpOK, CancelFns
<1>5. \A d \in Cpu, v \in Work : CpuOwns(d, v)' <=> CpuOwns(d, v)
    BY <1>2 DEF CpuOwns
<1>6. Ths' /\ Dups' /\ DataInv'
    BY <1>1, <1>2 DEF Ths, ThreadOK, Dups, DataInv, DataOK
<1>7. Types'
    BY <1>1, <1>2, <1>3 DEF Types, TaskMoves
<1>8. OPs'
    BY <1>1, <1>2, <1>3 DEF OPs, OpOK, CancelFns, TaskMoves
<1>9. BarrierInv'
    BY <1>1, <1>2, <1>3 DEF BarrierInv, BarrierOK, TaskMoves
<1>10. OwnInv'
    BY <1>1, <1>2, <1>4, <1>5 DEF OwnInv, OneOwner
<1>11. CancelInv'
    BY <1>1, <1>2, <1>3 DEF CancelInv, CancelOK, TaskMoves
<1>12. FlushInv'
    BY <1>1, <1>2, <1>3 DEF FlushInv, FlushRun, TaskMoves
<1> QED
    BY <1>6, <1>7, <1>8, <1>9, <1>10, <1>11, <1>12 DEF Inv

\* A flush returns.
LEMMA FlushReturnInv ==
    ASSUME Inv, NEW t \in Task,
           flush_return(t)
    PROVE  Inv'
<1>1. Types /\ OPs /\ Ths /\ Dups /\ BarrierInv /\ OwnInv /\ DataInv /\ CancelInv
      /\ FlushInv
    BY DEF Inv
<1>2. /\ UNCHANGED <<pending, data, timer, worklist, current, thread, asleep, done>>
      /\ op[t].pc = "return"
      /\ before' \in [Task -> SUBSET Runs]
      /\ before'[t] = {}
      /\ \A u \in Task : u # t => before'[u] = before[u]
    BY <1>1 DEF flush_return, Types, workVars, queueVars, clientVars
<1>3. TaskMoves(t, "none", "idle", None, None, 0)
    BY <1>1, IdleMoves DEF flush_return
<1>4. \A u \in Task, v \in Work : TaskOwns(u, v)' <=> TaskOwns(u, v)
    BY <1>1, <1>2, <1>3 DEF TaskOwns, TaskMoves, OPs, OpOK, CancelFns
<1>5. \A d \in Cpu, v \in Work : CpuOwns(d, v)' <=> CpuOwns(d, v)
    BY <1>2 DEF CpuOwns
<1>6. Ths' /\ Dups' /\ DataInv'
    BY <1>1, <1>2 DEF Ths, ThreadOK, Dups, DataInv, DataOK
<1>7. Types'
    BY <1>1, <1>2, <1>3 DEF Types, TaskMoves
<1>8. OPs'
    BY <1>1, <1>2, <1>3 DEF OPs, OpOK, CancelFns, TaskMoves
<1>9. BarrierInv'
    BY <1>1, <1>2, <1>3 DEF BarrierInv, BarrierOK, TaskMoves
<1>10. OwnInv'
    BY <1>1, <1>2, <1>4, <1>5 DEF OwnInv, OneOwner
<1>11. CancelInv'
    BY <1>1, <1>2, <1>3 DEF CancelInv, CancelOK, TaskMoves
<1>12. FlushInv'
    BY <1>1, <1>2, <1>3 DEF FlushInv, FlushRun, TaskMoves
<1> QED
    BY <1>6, <1>7, <1>8, <1>9, <1>10, <1>11, <1>12 DEF Inv

\* flush_delayed_work() stops the timer: the work goes to the task.
LEMMA FlushDelayedWorkInv ==
    ASSUME Inv, NEW t \in Task, NEW w \in Work,
           flush_delayed_work(t, w)
    PROVE  Inv'
<1>1. Types /\ OPs /\ Ths /\ Dups /\ BarrierInv /\ OwnInv /\ DataInv /\ CancelInv
      /\ FlushInv
    BY DEF Inv
<1>2. /\ UNCHANGED <<pending, data, worklist, current, thread, asleep, done, before>>
      /\ op[t].pc = "idle"
      /\ timer[w] # "off" /\ timer'[w] = "off"
      /\ timer' \in [Work -> {"off", "armed", "fired"}]
      /\ \A v \in Work : v # w => timer'[v] = timer[v]
    BY <1>1 DEF flush_delayed_work, Types, workVars, queueVars, clientVars
<1>3. \E c \in Cpu : TaskMoves(t, "flush_work", "insert", w, c, 0)
    <2>1. PICK c \in Cpu :
              op' = [op EXCEPT ![t] = [NoOp EXCEPT !.fn = "flush_work", !.pc = "insert",
                                                   !.work = w, !.cwq = c]]
        BY DEF flush_delayed_work
    <2> DEFINE o == [fn |-> "flush_work", pc |-> "insert", work |-> w, cwq |-> c,
                     ret |-> 0]
    <2>2. o \in OpType
        BY WorkqueueAssumption DEF OpType, Fns, Pcs, Cpu
    <2>3. PICK n : n = [NoOp EXCEPT !.fn = "flush_work", !.pc = "insert",
                                    !.work = w, !.cwq = c]
        OBVIOUS
    <2>4. n = o
        BY <2>3 DEF NoOp
    <2>5. op' = [op EXCEPT ![t] = o]
        BY <2>1, <2>3, <2>4
    <2>6. TaskMoves(t, "flush_work", "insert", w, c, 0)
        BY <1>1, <2>2, <2>5, CallMoves
    <2> QED
        BY <2>6
<1>4. \A u \in Task, v \in Work : TaskOwns(u, v)' <=> TaskOwns(u, v) \/ (u = t /\ v = w)
    BY <1>1, <1>2, <1>3 DEF TaskOwns, TaskMoves, OPs, OpOK, CancelFns
<1>5. \A d \in Cpu, v \in Work : CpuOwns(d, v)' <=> CpuOwns(d, v)
    BY <1>2 DEF CpuOwns
<1>6. Ths' /\ Dups' /\ DataInv'
    BY <1>1, <1>2 DEF Ths, ThreadOK, Dups, DataInv, DataOK
<1>7. Types'
    BY <1>1, <1>2, <1>3 DEF Types, TaskMoves
<1>8. OPs'
    BY <1>1, <1>2, <1>3 DEF OPs, OpOK, CancelFns, TaskMoves
<1>9. BarrierInv'
    BY <1>1, <1>2, <1>3 DEF BarrierInv, BarrierOK, TaskMoves
<1>10. OwnInv'
    BY <1>1, <1>2, <1>4, <1>5 DEF OwnInv, OneOwner
<1>11. CancelInv'
    BY <1>1, <1>2, <1>3 DEF CancelInv, CancelOK, TaskMoves
<1>12. FlushInv'
    BY <1>1, <1>2, <1>3 DEF FlushInv, FlushRun, TaskMoves
<1> QED
    BY <1>6, <1>7, <1>8, <1>9, <1>10, <1>11, <1>12 DEF Inv

\* __cancel_work_timer() stops the timer, or goes to grab the bit.
LEMMA DelTimerInv ==
    ASSUME Inv, NEW t \in Task,
           del_timer(t)
    PROVE  Inv'
<1>1. Types /\ OPs /\ Ths /\ Dups /\ BarrierInv /\ OwnInv /\ DataInv /\ CancelInv
      /\ FlushInv
    BY DEF Inv
<1>2. /\ UNCHANGED <<pending, data, worklist, current, thread, asleep, done, before>>
      /\ op[t].pc = "del_timer" /\ op[t].work \in Work
    BY <1>1 DEF del_timer, OPs, OpOK, workVars, queueVars, clientVars
<1>3. \/ /\ TaskMoves(t, op[t].fn, "wait_on_work", op[t].work, op[t].cwq, 1)
         /\ timer[op[t].work] # "off"
         /\ timer' \in [Work -> {"off", "armed", "fired"}]
         /\ timer'[op[t].work] = "off"
         /\ \A v \in Work : v # op[t].work => timer'[v] = timer[v]
      \/ /\ TaskMoves(t, op[t].fn, "grab", op[t].work, op[t].cwq, -1)
         /\ UNCHANGED timer
    <2>1. CASE /\ timer[op[t].work] = "armed"
               /\ timer' = [timer EXCEPT ![op[t].work] = "off"]
               /\ op' = [op EXCEPT ![t].pc = "wait_on_work", ![t].ret = 1]
        BY <1>1, <1>2, <2>1, RetMoves, PcsMembers DEF Types
    <2>2. CASE /\ op' = [op EXCEPT ![t].pc = "grab", ![t].ret = -1]
               /\ UNCHANGED timer
        BY <1>1, <1>2, <2>2, RetMoves, PcsMembers
    <2> QED
        BY <2>1, <2>2 DEF del_timer
<1>4. \A u \in Task, v \in Work : TaskOwns(u, v)' <=> 
          \/ TaskOwns(u, v)
          \/ u = t /\ v = op[t].work /\ op'[t].pc = "wait_on_work"
    BY <1>1, <1>2, <1>3 DEF TaskOwns, TaskMoves, OPs, OpOK, CancelFns
<1>5. \A d \in Cpu, v \in Work : CpuOwns(d, v)' <=> CpuOwns(d, v)
    BY <1>2 DEF CpuOwns
<1>6. Ths' /\ Dups' /\ DataInv'
    BY <1>1, <1>2 DEF Ths, ThreadOK, Dups, DataInv, DataOK
<1>7. Types'
    BY <1>1, <1>2, <1>3 DEF Types, TaskMoves
<1>8. OPs'
    BY <1>1, <1>2, <1>3 DEF OPs, OpOK, CancelFns, TaskMoves
<1>9. BarrierInv'
    BY <1>1, <1>2, <1>3 DEF BarrierInv, BarrierOK, TaskMoves
<1>10. OwnInv'
    <2> SUFFICES ASSUME NEW v \in Work
                 PROVE  OneOwner(v)'
        BY DEF OwnInv
    <2>1. OneOwner(v)
        BY <1>1 DEF OwnInv
    <2>2. CASE v = op[t].work
        BY <1>2, <1>3, <1>4, <1>5, <2>1, <2>2 DEF OneOwner, TaskMoves
    <2>3. CASE v # op[t].work
        BY <1>2, <1>3, <1>4, <1>5, <2>1, <2>3 DEF OneOwner, TaskMoves
    <2> QED
        BY <2>2, <2>3
<1>11. CancelInv'
    BY <1>1, <1>2, <1>3 DEF CancelInv, CancelOK, TaskMoves
<1>12. FlushInv'
    BY <1>1, <1>2, <1>3 DEF FlushInv, FlushRun, TaskMoves
<1> QED
    BY <1>6, <1>7, <1>8, <1>9, <1>10, <1>11, <1>12 DEF Inv

\* try_to_grab_pending() sets the bit, and owns the work if it was clear.
LEMMA TryToGrabPendingInv ==
    ASSUME Inv, NEW t \in Task,
           try_to_grab_pending(t)
    PROVE  Inv'
<1>1. Types /\ OPs /\ Ths /\ Dups /\ BarrierInv /\ OwnInv /\ DataInv /\ CancelInv
      /\ FlushInv
    BY DEF Inv
<1>2. /\ UNCHANGED <<data, timer, worklist, current, thread, asleep, done, before>>
      /\ op[t].pc = "grab" /\ op[t].work \in Work
      /\ pending' \in [Work -> BOOLEAN]
      /\ \A v \in Work : pending'[v] <=> pending[v] \/ v = op[t].work
    BY <1>1 DEF try_to_grab_pending, Types, OPs, OpOK, workVars, queueVars, clientVars
<1>3. \/ /\ pending[op[t].work]
         /\ TaskMoves(t, op[t].fn, "grab_data", op[t].work, op[t].cwq, -1)
      \/ /\ ~pending[op[t].work]
         /\ TaskMoves(t, op[t].fn, "wait_on_work", op[t].work, op[t].cwq, 0)
    <2>1. CASE pending[op[t].work]
        <3>1. op' = [op EXCEPT ![t].pc = "grab_data", ![t].ret = -1]
            BY <2>1 DEF try_to_grab_pending
        <3> QED
            BY <1>1, <2>1, <3>1, RetMoves, PcsMembers
    <2>2. CASE ~pending[op[t].work]
        <3>1. op' = [op EXCEPT ![t].pc = "wait_on_work", ![t].ret = 0]
            BY <2>2 DEF try_to_grab_pending
        <3> QED
            BY <1>1, <2>2, <3>1, RetMoves, PcsMembers
    <2> QED
        BY <2>1, <2>2
<1>4. \A u \in Task, v \in Work : TaskOwns(u, v)' <=> 
          \/ TaskOwns(u, v)
          \/ u = t /\ v = op[t].work /\ op'[t].pc = "wait_on_work"
    BY <1>1, <1>2, <1>3 DEF TaskOwns, TaskMoves, OPs, OpOK, CancelFns
<1>5. \A d \in Cpu, v \in Work : CpuOwns(d, v)' <=> CpuOwns(d, v)
    BY <1>2 DEF CpuOwns
<1>6. Ths' /\ Dups' /\ DataInv'
    BY <1>1, <1>2 DEF Ths, ThreadOK, Dups, DataInv, DataOK
<1>7. Types'
    BY <1>1, <1>2, <1>3 DEF Types, TaskMoves
<1>8. OPs'
    BY <1>1, <1>2, <1>3 DEF OPs, OpOK, CancelFns, TaskMoves
<1>9. BarrierInv'
    BY <1>1, <1>2, <1>3 DEF BarrierInv, BarrierOK, TaskMoves
<1>10. OwnInv'
    <2> SUFFICES ASSUME NEW v \in Work
                 PROVE  OneOwner(v)'
        BY DEF OwnInv
    <2>1. OneOwner(v)
        BY <1>1 DEF OwnInv
    <2>2. CASE v = op[t].work
        BY <1>2, <1>3, <1>4, <1>5, <2>1, <2>2 DEF OneOwner, TaskMoves
    <2>3. CASE v # op[t].work
        BY <1>2, <1>3, <1>4, <1>5, <2>1, <2>3 DEF OneOwner, TaskMoves
    <2> QED
        BY <2>2, <2>3
<1>11. CancelInv'
    BY <1>1, <1>2, <1>3 DEF CancelInv, CancelOK, TaskMoves
<1>12. FlushInv'
    BY <1>1, <1>2, <1>3 DEF FlushInv, FlushRun, TaskMoves
<1> QED
    BY <1>6, <1>7, <1>8, <1>9, <1>10, <1>11, <1>12 DEF Inv

\* The cancel is over: the bit and the queue are cleared.
LEMMA ClearWqDataInv ==
    ASSUME Inv, NEW t \in Task,
           clear_wq_data(t)
    PROVE  Inv'
<1>1. Types /\ OPs /\ Ths /\ Dups /\ BarrierInv /\ OwnInv /\ DataInv /\ CancelInv
      /\ FlushInv
    BY DEF Inv
<1>2. /\ UNCHANGED <<timer, worklist, current, thread, asleep, done, before>>
      /\ op[t].pc = "clear" /\ op[t].work \in Work
      /\ pending' \in [Work -> BOOLEAN] /\ data' \in [Work -> Cpu \cup {None}]
      /\ data'[op[t].work] = None
      /\ \A v \in Work : v # op[t].work => data'[v] = data[v]
      /\ \A v \in Work : pending'[v] <=> pending[v] /\ v # op[t].work
    BY <1>1 DEF clear_wq_data, Types, OPs, OpOK, workVars, queueVars, clientVars
<1>3. TaskMoves(t, "none", "idle", None, None, 0)
    BY <1>1, IdleMoves DEF clear_wq_data
<1>4. \A v \in Work : TaskOwns(t, v) <=> v = op[t].work
    BY <1>2 DEF TaskOwns
<1>5. \A d \in Cpu : current[d] # op[t].work
    BY <1>1, <1>2 DEF CancelInv, CancelOK, OPs, OpOK
<1>6. \A u \in Task, v \in Work : TaskOwns(u, v)' <=> TaskOwns(u, v) /\ u # t
    BY <1>1, <1>2, <1>3 DEF TaskOwns, TaskMoves, OPs, OpOK, CancelFns
<1>7. \A d \in Cpu, v \in Work : CpuOwns(d, v)' <=> CpuOwns(d, v)
    BY <1>2 DEF CpuOwns
<1>8. Ths' /\ Dups'
    BY <1>1, <1>2 DEF Ths, ThreadOK, Dups
<1>9. Types'
    BY <1>1, <1>2, <1>3, <1>4, <1>5 DEF Types, TaskMoves
<1>10. OPs'
    BY <1>1, <1>2, <1>3, <1>4, <1>5 DEF OPs, OpOK, CancelFns, TaskMoves
<1>11. BarrierInv'
    BY <1>1, <1>2, <1>3, <1>4, <1>5 DEF BarrierInv, BarrierOK, TaskMoves
<1>12. OwnInv'
    <2> SUFFICES ASSUME NEW v \in Work
                 PROVE  OneOwner(v)'
        BY DEF OwnInv
    <2>1. OneOwner(v)
        BY <1>1 DEF OwnInv
    <2>2. CASE v = op[t].work
        BY <1>2, <1>3, <1>4, <1>5, <1>6, <1>7, <2>1, <2>2 DEF OneOwner, TaskMoves
    <2>3. CASE v # op[t].work
        BY <1>2, <1>3, <1>4, <1>5, <1>6, <1>7, <2>1, <2>3 DEF OneOwner, TaskMoves
    <2> QED
        BY <2>2, <2>3
<1>13. DataInv'
    BY <1>1, <1>2, <1>4, <1>5 DEF DataInv, DataOK, OwnInv, OneOwner, CpuOwns
<1>14. CancelInv'
    BY <1>1, <1>2, <1>3, <1>4, <1>5 DEF CancelInv, CancelOK, TaskMoves
<1>15. FlushInv'
    <2> SUFFICES ASSUME NEW u \in Task, NEW r \in before[u]
                 PROVE  FlushRun(u, r)'
        BY <1>2 DEF FlushInv
    <2>1. FlushRun(u, r) /\ r[1] \in Work /\ r[2] \in Cpu
        BY <1>1 DEF FlushInv, Types, Runs
    <2>2. \A d \in Cpu : ~OnList(worklist[d], op[t].work)
        BY <1>1, <1>2, <1>4 DEF OwnInv, OneOwner
    <2>3. r[1] # op[t].work
        BY <1>5, <2>1, <2>2 DEF FlushRun
    <2>4. u # t
        BY <1>2, <2>1 DEF FlushRun
    <2> QED
        BY <1>2, <1>3, <2>1, <2>3, <2>4 DEF FlushRun, TaskMoves
<1> QED
    BY <1>8, <1>9, <1>10, <1>11, <1>12, <1>13, <1>14, <1>15 DEF Inv

\* flush_work() begins.
LEMMA FlushWorkCallInv ==
    ASSUME Inv, NEW t \in Task, NEW w \in Work, flush_work_call(t, w)
    PROVE  Inv'
<1>1. Types /\ OPs /\ DataInv /\ CancelInv /\ FlushInv
    BY DEF Inv
<1>2. /\ UNCHANGED <<pending, data, timer, worklist, current, thread, asleep, done>>
      /\ op[t].pc = "idle"
      /\ before' = [before EXCEPT ![t] = RunsOf({w}, {data[w]})]
    BY <1>1 DEF flush_work_call, workVars, queueVars, OPs, OpOK
<1>3. TaskMoves(t, "flush_work", "flush", w, None, 0)
    <2> DEFINE o == [fn |-> "flush_work", pc |-> "flush", work |-> w, cwq |-> None,
                ret |-> 0]
    <2>1. o \in OpType
        BY WorkqueueAssumption DEF OpType, Fns, Pcs
    <2>2. PICK n : n = [NoOp EXCEPT !.fn = "flush_work", !.pc = "flush", !.work = w]
        OBVIOUS
    <2>3. n = o
        BY <2>2 DEF NoOp
    <2> QED
        BY <1>1, <2>1, <2>2, <2>3, CallMoves DEF flush_work_call
<1>4. /\ before' \in [Task -> SUBSET Runs] /\ before'[t] = RunsOf({w}, {data[w]})
      /\ \A u \in Task : u # t => before'[u] = before[u]
    BY <1>1, <1>2 DEF Types, RunsOf
<1>8. ASSUME NEW r \in before'[t]
      PROVE  FlushRun(t, r)'
    <2>1. /\ r[1] = w /\ r[2] = data[w]
          /\ IF r[3] = "queued" THEN OnList(worklist[r[2]], r[1]) ELSE current[r[2]] = r[1]
        BY <1>4 DEF RunsOf
    <2> QED
        BY <1>2, <1>3, <2>1 DEF FlushRun, TaskMoves
<1>5. OpOK(t)'
    BY <1>1, <1>2, <1>3 DEF OPs, OpOK, TaskMoves, CancelFns
<1>6. CancelOK(t)'
    BY <1>1, <1>2, <1>3 DEF TaskMoves, CancelFns, CancelInv, CancelOK
<1>7. \A v \in Work : TaskOwns(t, v)' <=> TaskOwns(t, v)
    BY <1>1, <1>2, <1>3 DEF TaskOwns, TaskMoves, CancelFns, OPs, OpOK
<1> QED
    BY <1>2, <1>3, <1>4, <1>5, <1>6, <1>7, <1>8, MovesAndNotes DEF TaskMoves

\* cancel_work_sync() or cancel_delayed_work_sync() begins.
LEMMA CancelCallInv ==
    ASSUME Inv, NEW t \in Task, NEW w \in Work, NEW fn \in CancelFns, cancel_call(t, w, fn)
    PROVE  Inv'
<1>1. Types /\ OPs /\ DataInv /\ CancelInv /\ FlushInv
    BY DEF Inv
<1>2. /\ UNCHANGED <<pending, data, timer, worklist, current, thread, asleep, done, before>>
      /\ op[t].pc = "idle"
    BY <1>1 DEF cancel_call, workVars, queueVars, OPs, OpOK
<1>3. TaskMoves(t, fn, "del_timer", w, None, 0)
    <2> DEFINE o == [fn |-> fn, pc |-> "del_timer", work |-> w, cwq |-> None, ret |-> 0]
    <2>1. o \in OpType
        BY WorkqueueAssumption DEF OpType, Fns, Pcs
    <2>2. PICK n : n = [NoOp EXCEPT !.fn = fn, !.pc = "del_timer", !.work = w]
        OBVIOUS
    <2>3. n = o
        BY <2>2 DEF NoOp
    <2> QED
        BY <1>1, <2>1, <2>2, <2>3, CallMoves DEF cancel_call
<1>4. before[t] = {}
    BY <1>1, <1>2 DEF FlushInv, FlushRun
<1>5. OpOK(t)'
    BY <1>1, <1>2, <1>3 DEF OPs, OpOK, TaskMoves, CancelFns
<1>6. CancelOK(t)'
    BY <1>1, <1>2, <1>3 DEF TaskMoves, CancelFns, CancelInv, CancelOK
<1>7. \A v \in Work : TaskOwns(t, v)' <=> TaskOwns(t, v)
    BY <1>1, <1>2, <1>3 DEF TaskOwns, TaskMoves, CancelFns, OPs, OpOK
<1> QED
    BY <1>2, <1>3, <1>4, <1>5, <1>6, <1>7, OnlyMoves DEF TaskMoves

\* flush_work() reads the queue of its work.
LEMMA FlushWorkInv ==
    ASSUME Inv, NEW t \in Task, flush_work(t)
    PROVE  Inv'
<1>1. Types /\ OPs /\ DataInv /\ CancelInv /\ FlushInv
    BY DEF Inv
<1>2. /\ UNCHANGED <<pending, data, timer, worklist, current, thread, asleep, done, before>>
      /\ op[t].pc = "flush" /\ op[t].work \in Work /\ op[t].fn = "flush_work"
    BY <1>1 DEF flush_work, workVars, queueVars, OPs, OpOK
<1>3. \/ data[op[t].work] \notin Cpu
                  /\ TaskMoves(t, op[t].fn, "return", op[t].work, data[op[t].work], op[t].ret)
      \/ data[op[t].work] \in Cpu
                  /\ TaskMoves(t, op[t].fn, "flush_lock", op[t].work, data[op[t].work], op[t].ret)
    <2>1. data[op[t].work] \in 1 .. NCpu + 1 \cup {None}
        BY <1>1, <1>2, WorkqueueAssumption DEF Types, Cpu
    <2>2. CASE data[op[t].work] = None
        <3>1. op' = [op EXCEPT ![t].cwq = data[op[t].work], ![t].pc = "return"]
            BY <2>2 DEF flush_work
        <3>2. data[op[t].work] \notin Cpu
            BY <2>2, WorkqueueAssumption DEF Cpu
        <3> QED
            BY <1>1, <2>1, <3>1, <3>2, CwqMoves, PcsMembers
    <2>3. CASE data[op[t].work] # None
        <3>1. op' = [op EXCEPT ![t].cwq = data[op[t].work], ![t].pc = "flush_lock"]
            BY <2>3 DEF flush_work
        <3>2. data[op[t].work] \in Cpu
            BY <1>1, <1>2, <2>3 DEF Types
        <3> QED
            BY <1>1, <2>1, <3>1, <3>2, CwqMoves, PcsMembers
    <2> QED
        BY <2>2, <2>3
<1>4. ASSUME NEW r \in before[t]
      PROVE  FlushRun(t, r)'
    <2>1. FlushRun(t, r) /\ r \in Runs
        BY <1>1 DEF FlushInv, Types
    <2>2. data[op[t].work] \in Cpu
        BY <1>2, <2>1 DEF FlushRun, Runs
    <2>3. TaskMoves(t, op[t].fn, "flush_lock", op[t].work, data[op[t].work], op[t].ret)
        BY <1>3, <2>2
    <2> QED
        BY <1>2, <2>1, <2>3 DEF FlushRun, TaskMoves
<1>5. OpOK(t)'
    BY <1>1, <1>2, <1>3 DEF OPs, OpOK, TaskMoves, CancelFns
<1>6. CancelOK(t)'
    BY <1>1, <1>2, <1>3 DEF TaskMoves, CancelFns, CancelInv, CancelOK
<1>7. \A v \in Work : TaskOwns(t, v)' <=> TaskOwns(t, v)
    BY <1>1, <1>2, <1>3 DEF TaskOwns, TaskMoves, CancelFns, OPs, OpOK
<1> QED
    BY <1>2, <1>3, <1>4, <1>5, <1>6, <1>7, OnlyMoves DEF TaskMoves

\* try_to_grab_pending() reads the queue of its work.
LEMMA GrabDataInv ==
    ASSUME Inv, NEW t \in Task, grab_data(t)
    PROVE  Inv'
<1>1. Types /\ OPs /\ DataInv /\ CancelInv /\ FlushInv
    BY DEF Inv
<1>2. /\ UNCHANGED <<pending, data, timer, worklist, current, thread, asleep, done, before>>
      /\ op[t].pc = "grab_data" /\ op[t].work \in Work /\ op[t].fn \in CancelFns
      /\ op[t].ret = -1
    BY <1>1 DEF grab_data, workVars, queueVars, OPs, OpOK
<1>3. \/ TaskMoves(t, op[t].fn, "wait_on_work", op[t].work, data[op[t].work], op[t].ret)
      \/ data[op[t].work] \in Cpu
                  /\ TaskMoves(t, op[t].fn, "grab_lock", op[t].work, data[op[t].work], op[t].ret)
    <2>1. data[op[t].work] \in 1 .. NCpu + 1 \cup {None}
        BY <1>1, <1>2, WorkqueueAssumption DEF Types, Cpu
    <2>2. CASE data[op[t].work] = None
        <3>1. op' = [op EXCEPT ![t].cwq = data[op[t].work], ![t].pc = "wait_on_work"]
            BY <2>2 DEF grab_data
        <3> QED
            BY <1>1, <2>1, <3>1, CwqMoves, PcsMembers
    <2>3. CASE data[op[t].work] # None
        <3>1. op' = [op EXCEPT ![t].cwq = data[op[t].work], ![t].pc = "grab_lock"]
            BY <2>3 DEF grab_data
        <3>2. data[op[t].work] \in Cpu
            BY <1>1, <1>2, <2>3 DEF Types
        <3> QED
            BY <1>1, <2>1, <3>1, <3>2, CwqMoves, PcsMembers
    <2> QED
        BY <2>2, <2>3
<1>4. before[t] = {}
    BY <1>1, <1>2 DEF FlushInv, FlushRun
<1>5. OpOK(t)'
    BY <1>1, <1>2, <1>3 DEF OPs, OpOK, TaskMoves, CancelFns
<1>6. CancelOK(t)'
    BY <1>1, <1>2, <1>3 DEF TaskMoves, CancelFns, CancelInv, CancelOK
<1>7. \A v \in Work : TaskOwns(t, v)' <=> TaskOwns(t, v)
    BY <1>1, <1>2, <1>3 DEF TaskOwns, TaskMoves, CancelFns, OPs, OpOK
<1> QED
    BY <1>2, <1>3, <1>4, <1>5, <1>6, <1>7, OnlyMoves DEF TaskMoves

\* wait_on_work() begins: with no queue there is nothing to wait for.
LEMMA WaitOnWorkInv ==
    ASSUME Inv, NEW t \in Task, wait_on_work(t)
    PROVE  Inv'
<1>1. Types /\ OPs /\ DataInv /\ CancelInv /\ FlushInv
    BY DEF Inv
<1>2. /\ UNCHANGED <<pending, data, timer, worklist, current, thread, asleep, done, before>>
      /\ op[t].pc = "wait_on_work" /\ op[t].work \in Work /\ op[t].fn \in CancelFns
      /\ op[t].ret \in {-1, 0, 1}
    BY <1>1 DEF wait_on_work, workVars, queueVars, OPs, OpOK, Types, OpType
<1>3. \/ /\ data[op[t].work] = None
         /\ \/ op[t].ret < 0
                     /\ TaskMoves(t, op[t].fn, "del_timer", op[t].work, op[t].cwq, op[t].ret)
            \/ op[t].ret >= 0
                        /\ TaskMoves(t, op[t].fn, "clear", op[t].work, op[t].cwq, op[t].ret)
      \/ TaskMoves(t, op[t].fn, "wait_on_cpu", op[t].work, 1, op[t].ret)
    <2>1. CASE data[op[t].work] = None /\ op[t].ret < 0
        <3>1. op' = [op EXCEPT ![t].pc = "del_timer"]
            BY <2>1 DEF wait_on_work, CancelLoop
        <3> QED
            BY <1>1, <2>1, <3>1, PcMoves, PcsMembers
    <2>2. CASE data[op[t].work] = None /\ ~(op[t].ret < 0)
        <3>1. op' = [op EXCEPT ![t].pc = "clear"]
            BY <2>2 DEF wait_on_work, CancelLoop
        <3>2. op[t].ret >= 0
            BY <1>2, <2>2
        <3> QED
            BY <1>1, <2>2, <3>1, <3>2, PcMoves, PcsMembers
    <2>3. CASE data[op[t].work] # None
        <3>1. op' = [op EXCEPT ![t].pc = "wait_on_cpu", ![t].cwq = 1]
            BY <2>3 DEF wait_on_work
        <3>2. 1 \in 1 .. NCpu + 1 /\ "wait_on_cpu" \in Pcs
            BY WorkqueueAssumption DEF Pcs
        <3> QED
            BY <1>1, <3>1, <3>2, CwqMoves
    <2> QED
        BY <2>1, <2>2, <2>3
<1>4. before[t] = {}
    BY <1>1, <1>2 DEF FlushInv, FlushRun
<1>5. OpOK(t)'
    BY <1>1, <1>2, <1>3, WorkqueueAssumption DEF OPs, OpOK, TaskMoves, CancelFns
<1>6. CancelOK(t)'
    BY <1>1, <1>2, <1>3
       DEF TaskMoves, CancelFns, CancelInv, CancelOK, DataInv, DataOK, Cpu
<1>7. \A v \in Work : TaskOwns(t, v)' <=> TaskOwns(t, v)
    BY <1>1, <1>2, <1>3 DEF TaskOwns, TaskMoves, CancelFns, OPs, OpOK
<1> QED
    BY <1>2, <1>3, <1>4, <1>5, <1>6, <1>7, OnlyMoves DEF TaskMoves

\* insert_work(): the work goes from the task to the list.
LEMMA DoQueueWorkInv ==
    ASSUME Inv, NEW t \in Task,
           do_queue_work(t)
    PROVE  Inv'
<1>1. Types /\ OPs /\ Ths /\ Dups /\ BarrierInv /\ OwnInv /\ DataInv /\ CancelInv
      /\ FlushInv
    BY DEF Inv
<1>2. /\ UNCHANGED <<pending, timer, current, thread, done>>
      /\ op[t].pc = "insert" /\ op[t].work \in Work /\ op[t].cwq \in Cpu
      /\ op[t].fn \in {"queue", "flush_work"}
      /\ asleep' \in [Cpu -> BOOLEAN]
    BY <1>1 DEF do_queue_work, insert_work, wake_up, Types, OPs, OpOK
<1>3. /\ data' \in [Work -> Cpu \cup {None}]
      /\ data'[op[t].work] = op[t].cwq
      /\ \A v \in Work : v # op[t].work => data'[v] = data[v]
    BY <1>1, <1>2 DEF do_queue_work, insert_work, Types
<1>4. /\ \A v \in Work : TaskOwns(t, v) <=> v = op[t].work
      /\ \A d \in Cpu : ~CpuOwns(d, op[t].work) /\ ~OnList(worklist[d], op[t].work)
    <2>1. \A v \in Work : TaskOwns(t, v) <=> v = op[t].work
        BY <1>2 DEF TaskOwns
    <2> QED
        BY <1>1, <1>2, <2>1 DEF OwnInv, OneOwner
<1>5. ListGains(op[t].cwq, op[t].work)
    <2>1. worklist' = [worklist EXCEPT ![op[t].cwq] = Append(worklist[op[t].cwq], op[t].work)]
        BY DEF do_queue_work, insert_work
    <2> QED
        BY <1>1, <1>2, <1>4, <2>1, AppendGains
<1>6. \A d \in Cpu : \A v : OnList(worklist'[d], v) <=> OnList(worklist[d], v)
            \/ (d = op[t].cwq /\ v = op[t].work)
    BY <1>5 DEF ListGains
<1>7. \/ TaskMoves(t, "none", "idle", None, None, 0)
      \/ op[t].fn = "flush_work"
                  /\ TaskMoves(t, op[t].fn, "flush", op[t].work, op[t].cwq, op[t].ret)
    BY <1>1, <1>2, IdleMoves, PcMoves, PcsMembers DEF do_queue_work, Goto
<1>8. \A u \in Task, v \in Work : TaskOwns(u, v)' <=> TaskOwns(u, v) /\ u # t
    BY <1>1, <1>2, <1>7 DEF TaskOwns, TaskMoves, CancelFns
<1>9. \A d \in Cpu, v \in Work : CpuOwns(d, v)' <=> CpuOwns(d, v)
    BY <1>2 DEF CpuOwns
<1>10. Ths'
    BY <1>1, <1>2 DEF Ths, ThreadOK
<1>0. /\ before' \in [Task -> SUBSET Runs]
      /\ \A u \in Task : u # t => before'[u] \subseteq before[u]
      /\ \A u \in Task : \A r \in before'[u] :
            u # t /\ op[u].pc \in {"flush", "flush_lock"} /\ op[u].work \in Work =>
               data'[op[u].work] = data[op[u].work]
      /\ op[t].fn = "queue" => before'[t] \subseteq before[t]
      /\ op[t].fn # "queue" =>
            before'[t] = RunsOf({op[t].work}, {op[t].cwq})
                           \cup {<<op[t].work, op[t].cwq, "queued">>}
    <2> DEFINE q == Requeued(op[t].work, op[t].cwq)
               n == RunsOf({op[t].work}, {op[t].cwq})
                      \cup {<<op[t].work, op[t].cwq, "queued">>}
    <2>1. data' = [data EXCEPT ![op[t].work] = op[t].cwq]
        BY DEF do_queue_work, insert_work
    <2>2. /\ q \in [Task -> SUBSET Runs]
          /\ \A u \in Task : q[u] \subseteq before[u]
          /\ \A u \in Task : \A r \in q[u] :
                op[u].pc \in {"flush", "flush_lock"} /\ op[u].work \in Work =>
                   data'[op[u].work] = data[op[u].work]
        BY <1>1, <1>2, <2>1, RequeuedRuns
    <2>3. n \in SUBSET Runs
        BY <1>2 DEF RunsOf, Runs
    <2>4. before' = IF op[t].fn = "queue" THEN q ELSE [q EXCEPT ![t] = n]
        BY DEF do_queue_work
    <2> HIDE DEF q, n
    <2>5. /\ before' \in [Task -> SUBSET Runs]
          /\ \A u \in Task : u # t => before'[u] = q[u]
          /\ op[t].fn = "queue" => before'[t] = q[t]
          /\ op[t].fn # "queue" => before'[t] = n
        BY <2>2, <2>3, <2>4
    <2> QED
        BY <2>2, <2>5 DEF n
<1>11. Types'
    BY <1>0, <1>1, <1>2, <1>3, <1>4, <1>5, <1>6, <1>7 DEF Types, TaskMoves, ListGains
<1>12. OPs'
    BY <1>1, <1>2, <1>3, <1>4, <1>6, <1>7 DEF OPs, OpOK, CancelFns, TaskMoves
<1>13. Dups'
    BY <1>1, <1>2, <1>3, <1>4, <1>5, <1>6 DEF Dups, ListGains
<1>14. BarrierInv'
    <2> SUFFICES ASSUME NEW u \in Task, NEW d \in Cpu
                 PROVE  BarrierOK(u, d)'
        BY DEF BarrierInv
    <2>1. BarrierOK(u, d)
        BY <1>1 DEF BarrierInv
    <2>2. u # op[t].work
        BY <1>2, WorkqueueAssumption
    <2> QED
        BY <1>2, <1>6, <1>7, <2>1, <2>2 DEF BarrierOK, TaskMoves, ListGains
<1>15. OwnInv'
    <2> SUFFICES ASSUME NEW v \in Work
                 PROVE  OneOwner(v)'
        BY DEF OwnInv
    <2>1. OneOwner(v)
        BY <1>1 DEF OwnInv
    <2>2. \A d \in Cpu : OnList(worklist'[d], v) <=> OnList(worklist[d], v)
                \/ (d = op[t].cwq /\ v = op[t].work)
        BY <1>6
    <2>3. CASE v = op[t].work
        BY <1>2, <1>4, <1>8, <1>9, <2>1, <2>2, <2>3 DEF OneOwner
    <2>4. CASE v # op[t].work
        BY <1>2, <1>4, <1>8, <1>9, <2>1, <2>2, <2>4 DEF OneOwner
    <2> QED
        BY <2>3, <2>4
<1>16. DataInv'
    <2> SUFFICES ASSUME NEW v \in Work, NEW d \in Cpu
                 PROVE  DataOK(v, d)'
        BY DEF DataInv
    <2>1. DataOK(v, d)
        BY <1>1 DEF DataInv
    <2>2. CASE v = op[t].work
        <3>1. OnList(worklist'[d], v) => d = op[t].cwq
            BY <1>4, <1>6, <2>2
        <3>2. ~(thread'[d] = "dequeued" /\ current'[d] = v)
            <4>1. ~CpuOwns(d, v)'
                BY <1>4, <1>7, <1>9, <2>2
            <4> QED
                BY <4>1 DEF CpuOwns
        <3>3. data'[v] = op[t].cwq /\ op[t].cwq # None
            BY <1>2, <1>3, <2>2, WorkqueueAssumption DEF Cpu
        <3> QED
            BY <3>1, <3>2, <3>3 DEF DataOK
    <2>3. CASE v # op[t].work
        BY <1>2, <1>3, <1>6, <2>1, <2>3 DEF DataOK, TaskMoves, ListGains
    <2> QED
        BY <2>2, <2>3
<1>17. CancelInv'
    BY <1>1, <1>2, <1>3, <1>4, <1>6, <1>7 DEF CancelInv, CancelOK, TaskMoves
<1>18. FlushInv'
    <2> SUFFICES ASSUME NEW u \in Task, NEW r \in before'[u]
                 PROVE  FlushRun(u, r)'
        BY DEF FlushInv
    <2>1. CASE u = t
        <3>1. before[t] = {}
            BY <1>1, <1>2 DEF FlushInv, FlushRun
        <3>2. op[t].fn # "queue"
              /\ r \in RunsOf({op[t].work}, {op[t].cwq})
                         \cup {<<op[t].work, op[t].cwq, "queued">>}
            BY <1>0, <2>1, <3>1
        <3>3. /\ r[1] = op[t].work /\ r[2] = op[t].cwq
              /\ r[3] = "queued" \/ current[op[t].cwq] = op[t].work
            BY <3>2 DEF RunsOf
        <3>4. TaskMoves(t, op[t].fn, "flush", op[t].work, op[t].cwq, op[t].ret)
            BY <1>1, <3>2, PcMoves, PcsMembers DEF do_queue_work, Goto
        <3>5. op[t].fn = "flush_work"
            BY <1>2, <3>2
        <3> QED
            BY <1>2, <1>3, <1>6, <2>1, <3>3, <3>4, <3>5 DEF FlushRun, TaskMoves
    <2>2. CASE u # t
        <3>1. FlushRun(u, r) /\ r \in before[u]
            BY <1>0, <1>1, <2>2 DEF FlushInv
        <3>2. r[2] \in Cpu
            BY <1>1, <3>1 DEF Types, Runs
        <3>3. Ahead(worklist[r[2]], r[1], u) => Ahead(worklist'[r[2]], r[1], u)
            BY <1>5, <3>2 DEF ListGains
        <3>4. op[u].pc \in {"flush", "flush_lock"} => data'[op[u].work] = data[op[u].work]
            BY <1>0, <1>1, <2>2 DEF OPs, OpOK
        <3> QED
            BY <1>2, <1>6, <1>7, <2>2, <3>1, <3>2, <3>3, <3>4 DEF FlushRun, TaskMoves
    <2> QED
        BY <2>1, <2>2
<1> QED
    BY <1>10, <1>11, <1>12, <1>13, <1>14, <1>15, <1>16, <1>17, <1>18 DEF Inv

\* A function that queues its own work: it goes from the thread to the list.
LEMMA FuncRequeueInsertInv ==
    ASSUME Inv, NEW c \in Cpu,
           func_requeue_insert(c)
    PROVE  Inv'
<1>1. Types /\ OPs /\ Ths /\ Dups /\ BarrierInv /\ OwnInv /\ DataInv /\ CancelInv
      /\ FlushInv
    BY DEF Inv
<1>2. /\ UNCHANGED <<pending, timer, current, op, done>>
      /\ thread[c] = "requeue" /\ current[c] \in Work
      /\ ThreadMoves(c, "run")
      /\ asleep' \in [Cpu -> BOOLEAN]
    BY <1>1
       DEF func_requeue_insert, insert_work, wake_up, Types, Ths, ThreadOK, ThreadGoto,
           ThreadMoves, ThreadPcs, clientVars
<1>3. /\ data' \in [Work -> Cpu \cup {None}]
      /\ data'[current[c]] = c
      /\ \A v \in Work : v # current[c] => data'[v] = data[v]
    BY <1>1, <1>2 DEF func_requeue_insert, insert_work, Types
<1>4. /\ \A v \in Work : CpuOwns(c, v) <=> v = current[c]
      /\ \A d \in Cpu : ~OnList(worklist[d], current[c])
    <2>1. \A v \in Work : CpuOwns(c, v) <=> v = current[c]
        BY <1>2 DEF CpuOwns
    <2> QED
        BY <1>1, <1>2, <2>1 DEF OwnInv, OneOwner
<1>5. ListGains(c, current[c])
    <2>1. worklist' = [worklist EXCEPT ![c] = Append(worklist[c], current[c])]
        BY DEF func_requeue_insert, insert_work
    <2> QED
        BY <1>1, <1>2, <1>4, <2>1, AppendGains
<1>6. \A d \in Cpu : \A v : OnList(worklist'[d], v) <=> OnList(worklist[d], v) \/ (d = c
            /\ v = current[c])
    BY <1>5 DEF ListGains
<1>7. \A d \in Cpu : ~CpuOwns(d, current[c]) \/ d = c
    BY <1>1, <1>2, <1>4 DEF OwnInv, OneOwner
<1>8. \A u \in Task, v \in Work : TaskOwns(u, v)' <=> TaskOwns(u, v)
    BY <1>2 DEF TaskOwns
<1>9. \A d \in Cpu, v \in Work : CpuOwns(d, v)' <=> CpuOwns(d, v) /\ d # c
    BY <1>2 DEF CpuOwns, ThreadMoves
<1>10. OPs' /\ CancelInv'
    BY <1>1, <1>2 DEF OPs, OpOK, CancelFns, CancelInv, CancelOK
<1>18. /\ before' \in [Task -> SUBSET Runs]
       /\ \A u \in Task : before'[u] \subseteq before[u]
       /\ \A u \in Task : \A r \in before'[u] :
             op[u].pc \in {"flush", "flush_lock"} /\ op[u].work \in Work =>
                data'[op[u].work] = data[op[u].work]
    <2>1. data' = [data EXCEPT ![current[c]] = c] /\ before' = Requeued(current[c], c)
        BY DEF func_requeue_insert, insert_work
    <2> QED
        BY <1>1, <1>2, <2>1, RequeuedRuns
<1>11. Types'
    BY <1>18, <1>1, <1>2, <1>3, <1>4, <1>5, <1>6, <1>7 DEF Types, ThreadMoves, ListGains
<1>12. Ths'
    BY <1>1, <1>2, <1>3, <1>4, <1>6, <1>7 DEF Ths, ThreadOK, ThreadMoves
<1>13. Dups'
    BY <1>1, <1>2, <1>3, <1>4, <1>5, <1>6, <1>7 DEF Dups, ThreadMoves, ListGains
<1>14. BarrierInv'
    <2> SUFFICES ASSUME NEW u \in Task, NEW d \in Cpu
                 PROVE  BarrierOK(u, d)'
        BY DEF BarrierInv
    <2>1. BarrierOK(u, d)
        BY <1>1 DEF BarrierInv
    <2>2. u # current[c]
        BY <1>2, WorkqueueAssumption
    <2> QED
        BY <1>2, <1>6, <1>7, <2>1, <2>2 DEF BarrierOK, ThreadMoves, ListGains
<1>15. OwnInv'
    <2> SUFFICES ASSUME NEW v \in Work
                 PROVE  OneOwner(v)'
        BY DEF OwnInv
    <2>1. OneOwner(v)
        BY <1>1 DEF OwnInv
    <2>2. \A d \in Cpu : OnList(worklist'[d], v) <=> OnList(worklist[d], v) \/ (d = c
                /\ v = current[c])
        BY <1>6
    <2>3. CASE v = current[c]
        BY <1>2, <1>4, <1>8, <1>9, <2>1, <2>2, <2>3 DEF OneOwner
    <2>4. CASE v # current[c]
        BY <1>2, <1>4, <1>8, <1>9, <2>1, <2>2, <2>4 DEF OneOwner
    <2> QED
        BY <2>3, <2>4
<1>16. DataInv'
    <2> SUFFICES ASSUME NEW v \in Work, NEW d \in Cpu
                 PROVE  DataOK(v, d)'
        BY DEF DataInv
    <2>1. DataOK(v, d)
        BY <1>1 DEF DataInv
    <2>2. CASE v = current[c]
        <3>1. OnList(worklist'[d], v) => d = c
            BY <1>4, <1>6, <2>2
        <3>2. ~(thread'[d] = "dequeued" /\ current'[d] = v)
            <4>1. ~CpuOwns(d, v)'
                BY <1>4, <1>7, <1>9, <2>2
            <4> QED
                BY <4>1 DEF CpuOwns
        <3>3. data'[v] = c /\ c # None
            BY <1>2, <1>3, <2>2, WorkqueueAssumption DEF Cpu
        <3> QED
            BY <3>1, <3>2, <3>3 DEF DataOK
    <2>3. CASE v # current[c]
        BY <1>2, <1>3, <1>6, <2>1, <2>3 DEF DataOK, ThreadMoves, ListGains
    <2> QED
        BY <2>2, <2>3
<1>17. FlushInv'
    <2> SUFFICES ASSUME NEW u \in Task, NEW r \in before'[u]
                 PROVE  FlushRun(u, r)'
        BY DEF FlushInv
    <2>1. FlushRun(u, r) /\ r \in before[u]
        BY <1>1, <1>18 DEF FlushInv
    <2>2. r[2] \in Cpu
        BY <1>1, <2>1 DEF Types, Runs
    <2>4. op[u].pc \in {"flush", "flush_lock"} => data'[op[u].work] = data[op[u].work]
        BY <1>1, <1>18 DEF OPs, OpOK
    <2>3. Ahead(worklist[r[2]], r[1], u) => Ahead(worklist'[r[2]], r[1], u)
        BY <1>5, <2>2 DEF ListGains
    <2> QED
        BY <1>2, <1>6, <1>7, <2>1, <2>2, <2>3, <2>4 DEF FlushRun, ThreadMoves
<1> QED
    BY <1>10, <1>11, <1>12, <1>13, <1>14, <1>15, <1>16, <1>17 DEF Inv

\* The timer function: the work goes from the timer to a list.
LEMMA DelayedWorkTimerFnInv ==
    ASSUME Inv, NEW w \in Work,
           delayed_work_timer_fn(w)
    PROVE  Inv'
<1>1. Types /\ OPs /\ Ths /\ Dups /\ BarrierInv /\ OwnInv /\ DataInv /\ CancelInv
      /\ FlushInv
    BY DEF Inv
<1>0. PICK c \in Cpu : insert_work(c, w, Append(worklist[c], w)) /\ before' = Requeued(w, c)
    BY DEF delayed_work_timer_fn
<1>2. /\ UNCHANGED <<pending, current, thread, op, done>>
      /\ asleep' \in [Cpu -> BOOLEAN]
      /\ timer[w] # "off" /\ timer'[w] = "off"
      /\ timer' \in [Work -> {"off", "armed", "fired"}]
      /\ \A v \in Work : v # w => timer'[v] = timer[v]
    BY <1>0, <1>1 DEF delayed_work_timer_fn, insert_work, wake_up, Types, clientVars
<1>3. /\ data' \in [Work -> Cpu \cup {None}]
      /\ data'[w] = c
      /\ \A v \in Work : v # w => data'[v] = data[v]
    BY <1>0, <1>1 DEF insert_work, Types
<1>4. /\ \A u \in Task : ~TaskOwns(u, w)
      /\ \A d \in Cpu : ~CpuOwns(d, w) /\ ~OnList(worklist[d], w)
    BY <1>1, <1>2 DEF OwnInv, OneOwner
<1>5. ListGains(c, w)
    <2>1. worklist' = [worklist EXCEPT ![c] = Append(worklist[c], w)]
        BY <1>0 DEF insert_work
    <2> QED
        BY <1>1, <1>4, <2>1, AppendGains
<1>6. \A d \in Cpu : \A v : OnList(worklist'[d], v) <=> OnList(worklist[d], v) \/ (d = c
            /\ v = w)
    BY <1>5 DEF ListGains
<1>7. w \notin Task
    BY WorkqueueAssumption
<1>8. \A u \in Task, v \in Work : TaskOwns(u, v)' <=> TaskOwns(u, v)
    BY <1>2 DEF TaskOwns
<1>9. \A d \in Cpu, v \in Work : CpuOwns(d, v)' <=> CpuOwns(d, v)
    BY <1>2 DEF CpuOwns
<1>10. OPs' /\ Ths' /\ CancelInv'
    BY <1>1, <1>2 DEF OPs, OpOK, CancelFns, Ths, ThreadOK, CancelInv, CancelOK
<1>18. /\ before' \in [Task -> SUBSET Runs]
       /\ \A u \in Task : before'[u] \subseteq before[u]
       /\ \A u \in Task : \A r \in before'[u] :
             op[u].pc \in {"flush", "flush_lock"} /\ op[u].work \in Work =>
                data'[op[u].work] = data[op[u].work]
    <2>1. data' = [data EXCEPT ![w] = c]
        BY <1>0 DEF insert_work
    <2> QED
        BY <1>0, <1>1, <2>1, RequeuedRuns
<1>11. Types'
    BY <1>18, <1>1, <1>2, <1>3, <1>4, <1>5, <1>6, <1>7 DEF Types, ListGains
<1>12. Dups'
    BY <1>1, <1>2, <1>3, <1>4, <1>5, <1>6, <1>7 DEF Dups, ListGains
<1>13. BarrierInv'
    <2> SUFFICES ASSUME NEW u \in Task, NEW d \in Cpu
                 PROVE  BarrierOK(u, d)'
        BY DEF BarrierInv
    <2>1. BarrierOK(u, d)
        BY <1>1 DEF BarrierInv
    <2>2. u # w
        BY <1>2, WorkqueueAssumption
    <2> QED
        BY <1>2, <1>6, <1>7, <2>1, <2>2 DEF BarrierOK, ListGains
<1>14. OwnInv'
    <2> SUFFICES ASSUME NEW v \in Work
                 PROVE  OneOwner(v)'
        BY DEF OwnInv
    <2>1. OneOwner(v)
        BY <1>1 DEF OwnInv
    <2>2. \A d \in Cpu : OnList(worklist'[d], v) <=> OnList(worklist[d], v) \/ (d = c
                /\ v = w)
        BY <1>6
    <2>3. CASE v = w
        BY <1>2, <1>4, <1>8, <1>9, <2>1, <2>2, <2>3 DEF OneOwner
    <2>4. CASE v # w
        BY <1>2, <1>4, <1>8, <1>9, <2>1, <2>2, <2>4 DEF OneOwner
    <2> QED
        BY <2>3, <2>4
<1>15. DataInv'
    <2> SUFFICES ASSUME NEW v \in Work, NEW d \in Cpu
                 PROVE  DataOK(v, d)'
        BY DEF DataInv
    <2>1. DataOK(v, d)
        BY <1>1 DEF DataInv
    <2>2. CASE v = w
        <3>1. OnList(worklist'[d], v) => d = c
            BY <1>4, <1>6, <2>2
        <3>2. ~(thread'[d] = "dequeued" /\ current'[d] = v)
            <4>1. ~CpuOwns(d, v)'
                BY <1>4, <1>7, <1>9, <2>2
            <4> QED
                BY <4>1 DEF CpuOwns
        <3>3. data'[v] = c /\ c # None
            BY <1>2, <1>3, <2>2, WorkqueueAssumption DEF Cpu
        <3> QED
            BY <3>1, <3>2, <3>3 DEF DataOK
    <2>3. CASE v # w
        BY <1>2, <1>3, <1>6, <2>1, <2>3 DEF DataOK, ListGains
    <2> QED
        BY <2>2, <2>3
<1>16. FlushInv'
    <2> SUFFICES ASSUME NEW u \in Task, NEW r \in before'[u]
                 PROVE  FlushRun(u, r)'
        BY DEF FlushInv
    <2>1. FlushRun(u, r) /\ r \in before[u]
        BY <1>1, <1>18 DEF FlushInv
    <2>2. r[2] \in Cpu
        BY <1>1, <2>1 DEF Types, Runs
    <2>4. op[u].pc \in {"flush", "flush_lock"} => data'[op[u].work] = data[op[u].work]
        BY <1>1, <1>18 DEF OPs, OpOK
    <2>3. Ahead(worklist[r[2]], r[1], u) => Ahead(worklist'[r[2]], r[1], u)
        BY <1>5, <2>2 DEF ListGains
    <2> QED
        BY <1>2, <1>6, <1>7, <2>1, <2>2, <2>3, <2>4 DEF FlushRun
<1> QED
    BY <1>10, <1>11, <1>12, <1>13, <1>14, <1>15, <1>16 DEF Inv

\* flush_workqueue() begins: the runs it has to wait for are noted.
LEMMA FlushWorkqueueInv ==
    ASSUME Inv, NEW t \in Task,
           flush_workqueue(t)
    PROVE  Inv'
<1>1. Types /\ OPs /\ Ths /\ Dups /\ BarrierInv /\ OwnInv /\ DataInv /\ CancelInv
      /\ FlushInv
    BY DEF Inv
<1>2. /\ UNCHANGED <<pending, data, timer, worklist, current, thread, asleep, done>>
      /\ op[t].pc = "idle"
      /\ before' \in [Task -> SUBSET Runs]
      /\ before'[t] = RunsOf(Work, Cpu)
      /\ \A u \in Task : u # t => before'[u] = before[u]
    BY <1>1 DEF flush_workqueue, Types, RunsOf, workVars, queueVars, clientVars
<1>3. TaskMoves(t, "flush_workqueue", "flush_cpu", None, 1, 0)
    <2> DEFINE o == [fn |-> "flush_workqueue", pc |-> "flush_cpu",
                work |-> None, cwq |-> 1, ret |-> 0]
    <2>1. o \in OpType
        BY WorkqueueAssumption DEF OpType, Fns, Pcs, Cpu
    <2>2. op' = [op EXCEPT ![t] = o]
        <3>1. PICK n :
                    n = [NoOp EXCEPT !.fn = "flush_workqueue", !.pc = "flush_cpu", !.cwq = 1]
            OBVIOUS
        <3>2. n = o
            BY <3>1 DEF NoOp
        <3> QED
            BY <3>1, <3>2 DEF flush_workqueue
    <2> QED
        BY <1>1, <2>1, <2>2, CallMoves
<1>4. \A u \in Task, v \in Work : TaskOwns(u, v)' <=> TaskOwns(u, v)
    BY <1>1, <1>2, <1>3 DEF TaskOwns, TaskMoves, OPs, OpOK, CancelFns
<1>5. \A d \in Cpu, v \in Work : CpuOwns(d, v)' <=> CpuOwns(d, v)
    BY <1>2 DEF CpuOwns
<1>6. Ths' /\ Dups' /\ DataInv'
    BY <1>1, <1>2 DEF Ths, ThreadOK, Dups, DataInv, DataOK
<1>7. Types'
    BY <1>1, <1>2, <1>3 DEF Types, TaskMoves
<1>8. OPs'
    BY <1>1, <1>2, <1>3, WorkqueueAssumption DEF OPs, OpOK, CancelFns, TaskMoves
<1>9. BarrierInv'
    BY <1>1, <1>2, <1>3 DEF BarrierInv, BarrierOK, TaskMoves
<1>10. OwnInv'
    BY <1>1, <1>2, <1>4, <1>5 DEF OwnInv, OneOwner
<1>11. CancelInv'
    BY <1>1, <1>2, <1>3 DEF CancelInv, CancelOK, TaskMoves
<1>12. FlushInv'
    <2> SUFFICES ASSUME NEW u \in Task, NEW r \in before'[u]
                 PROVE  FlushRun(u, r)'
        BY DEF FlushInv
    <2>1. CASE u = t
        <3>1. /\ r \in Runs
              /\ IF r[3] = "queued" THEN OnList(worklist[r[2]], r[1])
                          ELSE current[r[2]] = r[1]
            BY <1>2, <2>1 DEF RunsOf
        <3>2. r[2] \in Cpu /\ r[2] >= 1
            BY <3>1, WorkqueueAssumption DEF Runs, Cpu
        <3> QED
            BY <1>2, <1>3, <2>1, <3>1, <3>2 DEF FlushRun, TaskMoves
    <2>2. CASE u # t
        <3>1. FlushRun(u, r)
            BY <1>1, <1>2, <2>2 DEF FlushInv
        <3> QED
            BY <1>2, <1>3, <2>2, <3>1 DEF FlushRun, TaskMoves
    <2> QED
        BY <2>1, <2>2
<1> QED
    BY <1>6, <1>7, <1>8, <1>9, <1>10, <1>11, <1>12 DEF Inv

\* The barrier has completed: the next CPU, or the end.
LEMMA WaitForCompletionInv ==
    ASSUME Inv, NEW t \in Task,
           wait_for_completion(t)
    PROVE  Inv'
<1>1. Types /\ OPs /\ Ths /\ Dups /\ BarrierInv /\ OwnInv /\ DataInv /\ CancelInv
      /\ FlushInv
    BY DEF Inv
<1>2. /\ UNCHANGED <<pending, data, timer, worklist, current, thread, asleep, before>>
      /\ op[t].pc = "wait" /\ done[t] /\ op[t].cwq \in Cpu
      /\ op[t].fn \in {"flush_workqueue", "flush_work"} \cup CancelFns
      /\ done' \in [Task -> BOOLEAN]
      /\ done'[t] = FALSE
      /\ \A u \in Task : u # t => done'[u] = done[u]
    BY <1>1 DEF wait_for_completion, Types, OPs, OpOK, workVars, queueVars, clientVars
<1>3. \/ op[t].fn = "flush_work"
            /\ TaskMoves(t, op[t].fn, "return", op[t].work, op[t].cwq, op[t].ret)
      \/ op[t].fn = "flush_workqueue"
                  /\ TaskMoves(t, op[t].fn, "flush_cpu", op[t].work, op[t].cwq + 1, op[t].ret)
      \/ op[t].fn \in CancelFns
                  /\ TaskMoves(t, op[t].fn, "wait_on_cpu", op[t].work, op[t].cwq + 1, op[t].ret)
    <2>1. CASE op[t].fn = "flush_work"
        BY <1>1, <2>1, PcMoves, PcsMembers DEF wait_for_completion, Goto
    <2>2. CASE op[t].fn # "flush_work"
        <3>1. op[t].cwq + 1 \in 1 .. NCpu + 1
            BY <1>2, WorkqueueAssumption DEF Cpu
        <3>2. op' = [op EXCEPT ![t].pc = IF op[t].fn = "flush_workqueue" THEN "flush_cpu" ELSE "wait_on_cpu",
                               ![t].cwq = op[t].cwq + 1]
            BY <1>1, <2>2 DEF wait_for_completion, NextCpu, Types, OpType
        <3> QED
            BY <1>1, <1>2, <2>2, <3>1, <3>2, CwqMoves, PcsMembers
    <2> QED
        BY <2>1, <2>2
<1>4. \A d \in Cpu : ~OnList(worklist[d], t)
    BY <1>1, <1>2 DEF BarrierInv, BarrierOK
<1>5. \A u \in Task, v \in Work : TaskOwns(u, v)' <=> TaskOwns(u, v)
    BY <1>1, <1>2, <1>3 DEF TaskOwns, TaskMoves, OPs, OpOK, CancelFns
<1>6. \A d \in Cpu, v \in Work : CpuOwns(d, v)' <=> CpuOwns(d, v)
    BY <1>2 DEF CpuOwns
<1>7. Ths' /\ Dups' /\ DataInv'
    BY <1>1, <1>2 DEF Ths, ThreadOK, Dups, DataInv, DataOK
<1>8. Types'
    BY <1>1, <1>2, <1>3, <1>4 DEF Types, TaskMoves
<1>9. OPs'
    BY <1>1, <1>2, <1>3, <1>4, WorkqueueAssumption
       DEF OPs, OpOK, CancelFns, TaskMoves, Cpu
<1>10. BarrierInv'
    BY <1>1, <1>2, <1>3, <1>4 DEF BarrierInv, BarrierOK, TaskMoves
<1>11. OwnInv'
    BY <1>1, <1>2, <1>4, <1>5, <1>6 DEF OwnInv, OneOwner
<1>12. CancelInv'
    <2> SUFFICES ASSUME NEW u \in Task
                 PROVE  CancelOK(u)'
        BY DEF CancelInv
    <2>1. CancelOK(u)
        BY <1>1 DEF CancelInv
    <2>2. CASE u = t
        <3>1. \A d \in Cpu : d < op[t].cwq + 1 => d < op[t].cwq \/ d = op[t].cwq
            BY <1>2, WorkqueueAssumption DEF Cpu
        <3> QED
            BY <1>2, <1>3, <2>1, <2>2, <3>1 DEF CancelOK, TaskMoves, CancelFns
    <2>3. CASE u # t
        BY <1>2, <1>3, <2>1, <2>3 DEF CancelOK, TaskMoves
    <2> QED
        BY <2>2, <2>3
<1>13. FlushInv'
    <2> SUFFICES ASSUME NEW u \in Task, NEW r \in before[u]
                 PROVE  FlushRun(u, r)'
        BY <1>2 DEF FlushInv
    <2>1. FlushRun(u, r)
        BY <1>1 DEF FlushInv
    <2>2. CASE u = t
        <3>1. r[2] \in Cpu
            BY <1>1 DEF Types, Runs
        <3>2. r[2] # op[t].cwq
            BY <1>2, <1>4, <2>1, <2>2, <3>1 DEF FlushRun
        <3>3. op[t].fn = "flush_workqueue" /\ r[2] >= op[t].cwq
            BY <1>2, <2>1, <2>2, <3>2 DEF FlushRun
        <3>4. r[2] >= op[t].cwq + 1
            BY <1>2, <3>1, <3>2, <3>3, WorkqueueAssumption DEF Cpu
        <3> QED
            BY <1>2, <1>3, <2>1, <2>2, <3>3, <3>4 DEF FlushRun, TaskMoves, CancelFns
    <2>3. CASE u # t
        BY <1>2, <1>3, <2>1, <2>3 DEF FlushRun, TaskMoves
    <2> QED
        BY <2>2, <2>3
<1> QED
    BY <1>7, <1>8, <1>9, <1>10, <1>11, <1>12, <1>13 DEF Inv

\* flush_cpu_workqueue(): a barrier at the end of the list of a CPU that is
\* busy; the next CPU, or the end.
LEMMA FlushCpuWorkqueueInv ==
    ASSUME Inv, NEW t \in Task, flush_cpu_workqueue(t)
    PROVE  Inv'
<1> DEFINE c == op[t].cwq
<1>1. Types /\ OPs /\ Ths /\ Dups /\ BarrierInv /\ OwnInv /\ DataInv /\ CancelInv
      /\ FlushInv
    BY DEF Inv
<1>2. /\ UNCHANGED <<pending, data, timer, current, thread, before>>
      /\ op[t].pc = "flush_cpu" /\ op[t].fn = "flush_workqueue" /\ c \in 1 .. NCpu + 1
    BY <1>1 DEF flush_cpu_workqueue, workVars, OPs, OpOK
<1>3. CASE /\ c \in Cpu
           /\ insert_wq_barrier(t, c, Append(worklist[c], t))
           /\ Goto(t, "wait")
    <2>1. ~OnList(worklist[c], t)
        BY <1>1, <1>2, <1>3 DEF BarrierInv, BarrierOK
    <2>2. worklist' = [worklist EXCEPT ![c] = Append(worklist[c], t)]
        BY <1>3 DEF insert_wq_barrier
    <2>3. /\ ListGains(c, t)
          /\ \A y : OnList(worklist[c], y) => Ahead(worklist'[c], y, t)
        BY <1>1, <1>3, <2>1, <2>2, AppendGains
    <2>4. TaskMoves(t, op[t].fn, "wait", op[t].work, c, op[t].ret)
        BY <1>1, <1>3, PcMoves, PcsMembers DEF Goto
    <2>5. /\ asleep' \in [Cpu -> BOOLEAN] /\ done' \in [Task -> BOOLEAN]
          /\ ~done'[t] /\ \A u \in Task : u # t => done'[u] = done[u]
        BY <1>1, <1>3 DEF insert_wq_barrier, wake_up, Types
    <2>6. BarrierStep(t, c)
        BY <1>2, <2>3, <2>4, <2>5 DEF BarrierStep
    <2>7. ASSUME NEW r \in before[t]
          PROVE  FlushRun(t, r)'
        <3>1. FlushRun(t, r) /\ r \in Runs
            BY <1>1 DEF FlushInv, Types
        <3>2. r[2] \in Cpu
            BY <3>1 DEF Runs
        <3>3. \A d \in Cpu : \A v : OnList(worklist'[d], v) <=> OnList(worklist[d], v)
                    \/ (d = c /\ v = t)
            BY <2>3 DEF ListGains
        <3> QED
            BY <1>2, <2>3, <2>4, <3>1, <3>2, <3>3 DEF FlushRun, TaskMoves
    <2> QED
        BY <1>1, <1>2, <1>3, <2>6, <2>7, BarrierInserted DEF Types
<1>4. CASE /\ c \in Cpu /\ ~IsBusy(c)
           /\ NextCpu(t)
           /\ UNCHANGED <<worklist, asleep, done>>
    <2>1. c + 1 \in 1 .. NCpu + 1
                /\ op' = [op EXCEPT ![t].pc = "flush_cpu", ![t].cwq = c + 1]
        BY <1>1, <1>2, <1>4, WorkqueueAssumption DEF NextCpu, Cpu, Types
    <2>2. TaskMoves(t, op[t].fn, "flush_cpu", op[t].work, c + 1, op[t].ret)
        BY <1>1, <2>1, CwqMoves, PcsMembers
    <2>3. ASSUME NEW r \in before[t]
          PROVE  FlushRun(t, r)'
        <3>1. FlushRun(t, r) /\ r \in Runs
            BY <1>1 DEF FlushInv, Types
        <3>2. r[1] \in Work /\ r[2] \in Cpu
            BY <3>1 DEF Runs
        <3>3. r[2] # c
            BY <1>4, <3>1, <3>2, WorkqueueAssumption DEF FlushRun, IsBusy, OnList
        <3>4. r[2] >= c + 1
            BY <1>2, <3>1, <3>2, <3>3, WorkqueueAssumption DEF FlushRun, Cpu
        <3> QED
            BY <1>2, <1>4, <2>2, <3>1, <3>4 DEF FlushRun, TaskMoves
    <2>4. OpOK(t)' /\ CancelOK(t)'
        BY <1>2, <2>1, <2>2 DEF OpOK, CancelOK, TaskMoves, CancelFns
    <2>5. \A v \in Work : TaskOwns(t, v)' <=> TaskOwns(t, v)
        BY <1>2, <2>2 DEF TaskOwns, TaskMoves, CancelFns
    <2> QED
        BY <1>2, <1>4, <2>2, <2>3, <2>4, <2>5, OnlyMoves DEF TaskMoves
<1>5. CASE /\ c \notin Cpu
           /\ Goto(t, "return")
           /\ UNCHANGED <<worklist, asleep, done>>
    <2>1. TaskMoves(t, op[t].fn, "return", op[t].work, c, op[t].ret)
        BY <1>1, <1>5, PcMoves, PcsMembers DEF Goto
    <2>2. before[t] = {}
        <3> SUFFICES ASSUME NEW r \in before[t]
                     PROVE  FALSE
            OBVIOUS
        <3>1. FlushRun(t, r) /\ r \in Runs
            BY <1>1 DEF FlushInv, Types
        <3>2. r[2] \in 1 .. NCpu /\ r[2] >= c
            BY <1>2, <3>1 DEF FlushRun, Runs, Cpu
        <3> QED
            BY <1>2, <1>5, <3>2, WorkqueueAssumption DEF Cpu
    <2>3. OpOK(t)' /\ CancelOK(t)'
        BY <1>2, <2>1 DEF OpOK, CancelOK, TaskMoves, CancelFns
    <2>4. \A v \in Work : TaskOwns(t, v)' <=> TaskOwns(t, v)
        BY <1>2, <2>1 DEF TaskOwns, TaskMoves, CancelFns
    <2> QED
        BY <1>2, <1>5, <2>1, <2>2, <2>3, <2>4, OnlyMoves DEF TaskMoves
<1> QED
    BY <1>3, <1>4, <1>5 DEF flush_cpu_workqueue

\* flush_work() has the lock: a barrier behind the work, or in front of the
\* list when the work is running; nothing when it is neither.
LEMMA FlushWorkLockedInv ==
    ASSUME Inv, NEW t \in Task, flush_work_locked(t)
    PROVE  Inv'
<1> DEFINE c == op[t].cwq
           w == op[t].work
<1>1. Types /\ OPs /\ Ths /\ Dups /\ BarrierInv /\ OwnInv /\ DataInv /\ CancelInv
      /\ FlushInv
    BY DEF Inv
<1>2. /\ UNCHANGED <<pending, data, timer, current, thread, before>>
      /\ op[t].pc = "flush_lock" /\ op[t].fn = "flush_work" /\ c \in Cpu /\ w \in Work
    BY <1>1 DEF flush_work_locked, workVars, OPs, OpOK
<1>3. CASE /\ IF Queued(w) THEN data[w] = c ELSE current[c] = w
           /\ insert_wq_barrier(t, c, flush_work_list(t, c, w))
           /\ Goto(t, "wait")
    <2>1. ~OnList(worklist[c], t)
        BY <1>1, <1>2 DEF BarrierInv, BarrierOK
    <2>2. worklist' = [worklist EXCEPT ![c] = flush_work_list(t, c, w)]
        BY <1>3 DEF insert_wq_barrier
    <2>3. OnList(worklist[c], w) <=> Queued(w)
        BY <1>1, <1>2, <1>3 DEF Queued, DataInv, DataOK
    <2>4. ListGains(c, t) /\ (OnList(worklist[c], w) => Ahead(worklist'[c], w, t))
        <3>1. CASE Queued(w)
            <4>1. worklist' = [worklist EXCEPT ![c] = AddBehind(worklist[c], w, t)]
                BY <2>2, <3>1 DEF flush_work_list
            <4> QED
                BY <1>1, <1>2, <2>1, <2>3, <3>1, <4>1, BehindGains
        <3>2. CASE ~Queued(w)
            <4>1. worklist' = [worklist EXCEPT ![c] = <<t>> \o worklist[c]]
                BY <2>2, <3>2 DEF flush_work_list
            <4> QED
                BY <1>1, <1>2, <2>1, <2>3, <3>2, <4>1, HeadGains
        <3> QED
            BY <3>1, <3>2
    <2>5. TaskMoves(t, op[t].fn, "wait", op[t].work, c, op[t].ret)
        BY <1>1, <1>3, PcMoves, PcsMembers DEF Goto
    <2>6. /\ asleep' \in [Cpu -> BOOLEAN] /\ done' \in [Task -> BOOLEAN]
          /\ ~done'[t] /\ \A u \in Task : u # t => done'[u] = done[u]
        BY <1>1, <1>2, <1>3 DEF insert_wq_barrier, wake_up, Types
    <2>7. BarrierStep(t, c)
        BY <1>2, <2>4, <2>5, <2>6 DEF BarrierStep
    <2>8. before' \in [Task -> SUBSET Runs] /\ \A u \in Task : before'[u] = before[u]
        BY <1>1, <1>2 DEF Types
    <2>9. ASSUME NEW r \in before'[t]
          PROVE  FlushRun(t, r)'
        <3>1. /\ r[1] = w /\ r[2] = c
              /\ IF r[3] = "queued" THEN OnList(worklist[c], w) ELSE current[c] = w
            BY <1>1, <1>2, <2>8 DEF FlushInv, FlushRun
        <3>2. OnList(worklist'[c], t) /\ (OnList(worklist[c], w)
                    => OnList(worklist'[c], w))
            BY <2>4 DEF ListGains
        <3> QED
            BY <1>2, <2>4, <2>5, <3>1, <3>2 DEF FlushRun, TaskMoves
    <2> QED
        BY <1>2, <2>7, <2>8, <2>9, BarrierInserted
<1>4. CASE /\ IF Queued(w) THEN data[w] # c ELSE current[c] # w
           /\ Goto(t, "return")
           /\ UNCHANGED <<worklist, asleep, done>>
    <2>1. TaskMoves(t, op[t].fn, "return", op[t].work, c, op[t].ret)
        BY <1>1, <1>4, PcMoves, PcsMembers DEF Goto
    <2>2. before[t] = {}
        <3> SUFFICES ASSUME NEW r \in before[t]
                     PROVE  FALSE
            OBVIOUS
        <3>1. /\ r[1] = w /\ r[2] = c /\ data[w] = c
              /\ IF r[3] = "queued" THEN OnList(worklist[c], w) ELSE current[c] = w
            BY <1>1, <1>2 DEF FlushInv, FlushRun
        <3> QED
            BY <1>2, <1>4, <3>1 DEF Queued
    <2>3. OpOK(t)' /\ CancelOK(t)'
        BY <1>2, <2>1 DEF OpOK, CancelOK, TaskMoves, CancelFns
    <2>4. \A v \in Work : TaskOwns(t, v)' <=> TaskOwns(t, v)
        BY <1>2, <2>1 DEF TaskOwns, TaskMoves, CancelFns
    <2> QED
        BY <1>2, <1>4, <2>1, <2>2, <2>3, <2>4, OnlyMoves DEF TaskMoves
<1> QED
    BY <1>3, <1>4 DEF flush_work_locked

\* wait_on_cpu_work(): a barrier behind the work that runs on a CPU; the next
\* CPU, or the end of the loop.
LEMMA WaitOnCpuWorkInv ==
    ASSUME Inv, NEW t \in Task, wait_on_cpu_work(t)
    PROVE  Inv'
<1> DEFINE c == op[t].cwq
<1>1. Types /\ OPs /\ Ths /\ Dups /\ BarrierInv /\ OwnInv /\ DataInv /\ CancelInv
      /\ FlushInv
    BY DEF Inv
<1>2. /\ UNCHANGED <<pending, data, timer, current, thread, before>>
      /\ op[t].pc = "wait_on_cpu" /\ op[t].fn \in CancelFns /\ c \in 1 .. NCpu + 1
      /\ op[t].work \in Work /\ op[t].ret \in {-1, 0, 1}
    BY <1>1 DEF wait_on_cpu_work, workVars, OPs, OpOK, Types, OpType
<1>3. before[t] = {}
    BY <1>1, <1>2 DEF FlushInv, FlushRun
<1>4. CASE /\ c \in Cpu
           /\ insert_wq_barrier(t, c, <<t>> \o worklist[c])
           /\ Goto(t, "wait")
    <2>1. ~OnList(worklist[c], t)
        BY <1>1, <1>2, <1>4 DEF BarrierInv, BarrierOK
    <2>2. worklist' = [worklist EXCEPT ![c] = <<t>> \o worklist[c]]
        BY <1>4 DEF insert_wq_barrier
    <2>3. ListGains(c, t)
        BY <1>1, <1>4, <2>1, <2>2, HeadGains
    <2>4. TaskMoves(t, op[t].fn, "wait", op[t].work, c, op[t].ret)
        BY <1>1, <1>4, PcMoves, PcsMembers DEF Goto
    <2>5. /\ asleep' \in [Cpu -> BOOLEAN] /\ done' \in [Task -> BOOLEAN]
          /\ ~done'[t] /\ \A u \in Task : u # t => done'[u] = done[u]
        BY <1>1, <1>4 DEF insert_wq_barrier, wake_up, Types
    <2>6. BarrierStep(t, c)
        BY <1>2, <2>3, <2>4, <2>5 DEF BarrierStep
    <2> QED
        BY <1>1, <1>2, <1>3, <1>4, <2>6, BarrierInserted DEF Types
<1>5. CASE /\ c \in Cpu /\ current[c] # op[t].work
           /\ NextCpu(t)
           /\ UNCHANGED <<worklist, asleep, done>>
    <2>1. c + 1 \in 1 .. NCpu + 1 /\ \A d \in Cpu : d < c + 1 => d < c \/ d = c
        BY <1>5, WorkqueueAssumption DEF Cpu
    <2>2. op' = [op EXCEPT ![t].pc = "wait_on_cpu", ![t].cwq = c + 1]
        BY <1>1, <1>2, <1>5 DEF NextCpu, CancelFns, Types
    <2>3. TaskMoves(t, op[t].fn, "wait_on_cpu", op[t].work, c + 1, op[t].ret)
        BY <1>1, <2>1, <2>2, CwqMoves, PcsMembers
    <2>4. OpOK(t)'
        BY <1>2, <2>1, <2>3 DEF OpOK, TaskMoves
    <2>5. CancelOK(t)'
        BY <1>1, <1>2, <1>5, <2>1, <2>3 DEF CancelInv, CancelOK, TaskMoves
    <2>6. \A v \in Work : TaskOwns(t, v)' <=> TaskOwns(t, v)
        BY <1>2, <2>3 DEF TaskOwns, TaskMoves
    <2> QED
        BY <1>2, <1>3, <1>5, <2>3, <2>4, <2>5, <2>6, OnlyMoves DEF TaskMoves
<1>6. CASE /\ c \notin Cpu
           /\ Goto(t, CancelLoop(t))
           /\ UNCHANGED <<worklist, asleep, done>>
    <2>1. \A d \in Cpu : d < c
        BY <1>2, <1>6, WorkqueueAssumption DEF Cpu
    <2>2. \/ op[t].ret < 0
                /\ TaskMoves(t, op[t].fn, "del_timer", op[t].work, c, op[t].ret)
          \/ op[t].ret >= 0 /\ TaskMoves(t, op[t].fn, "clear", op[t].work, c, op[t].ret)
        <3>1. CASE op[t].ret < 0
            <4>1. op' = [op EXCEPT ![t].pc = "del_timer"]
                BY <1>6, <3>1 DEF Goto, CancelLoop
            <4> QED
                BY <1>1, <3>1, <4>1, PcMoves, PcsMembers
        <3>2. CASE ~(op[t].ret < 0)
            <4>1. op' = [op EXCEPT ![t].pc = "clear"]
                BY <1>6, <3>2 DEF Goto, CancelLoop
            <4>2. op[t].ret >= 0
                BY <1>2, <3>2
            <4> QED
                BY <1>1, <4>1, <4>2, PcMoves, PcsMembers
        <3> QED
            BY <3>1, <3>2
    <2>3. OpOK(t)'
        BY <1>2, <2>2 DEF OpOK, TaskMoves
    <2>4. CancelOK(t)'
        BY <1>1, <1>2, <1>6, <2>1, <2>2 DEF CancelInv, CancelOK, TaskMoves
    <2>5. \A v \in Work : TaskOwns(t, v)' <=> TaskOwns(t, v)
        BY <1>2, <2>2 DEF TaskOwns, TaskMoves
    <2> QED
        BY <1>2, <1>3, <1>6, <2>2, <2>3, <2>4, <2>5, OnlyMoves DEF TaskMoves
<1> QED
    BY <1>4, <1>5, <1>6 DEF wait_on_cpu_work

\* try_to_grab_pending() has the lock: the work goes from the list to the
\* task, or the loop begins again.
LEMMA GrabLockedInv ==
    ASSUME Inv, NEW t \in Task, grab_locked(t)
    PROVE  Inv'
<1> DEFINE c == op[t].cwq
           w == op[t].work
<1>1. Types /\ OPs /\ Ths /\ Dups /\ BarrierInv /\ OwnInv /\ DataInv /\ CancelInv
      /\ FlushInv
    BY DEF Inv
<1>2. /\ UNCHANGED <<pending, data, timer, current, thread, asleep, done>>
      /\ op[t].pc = "grab_lock" /\ op[t].fn \in CancelFns /\ c \in Cpu /\ w \in Work
      /\ op[t].ret = -1
    BY <1>1 DEF grab_locked, workVars, OPs, OpOK
<1>3. before[t] = {}
    BY <1>1, <1>2 DEF FlushInv, FlushRun
<1>4. CASE /\ Queued(w) /\ data[w] = c
           /\ worklist' = [worklist EXCEPT ![c] = list_del(@, w)]
           /\ EndRun(w, c, "queued")
           /\ op' = [op EXCEPT ![t].pc = "wait_on_work", ![t].ret = 1]
    <2>1. OnList(worklist[c], w) /\ w \notin Task
        BY <1>1, <1>2, <1>4, WorkqueueAssumption DEF Queued, DataInv, DataOK
    <2>2. ListLoses(c, w)
        BY <1>1, <1>2, <1>4, <2>1, DelLoses
    <2>3. \A d \in Cpu : \A v : OnList(worklist'[d], v) <=> OnList(worklist[d], v)
                /\ ~(d = c /\ v = w)
        BY <2>2 DEF ListLoses
    <2>4. TaskMoves(t, op[t].fn, "wait_on_work", w, c, 1)
        BY <1>1, <1>4, RetMoves, PcsMembers
    <2>5. /\ before' \in [Task -> SUBSET Runs]
          /\ \A u \in Task : before'[u] = before[u] \ {<<w, c, "queued">>}
        BY <1>1, <1>4 DEF EndRun, Types
    <2>6. \A u \in Task, v \in Work : TaskOwns(u, v)' <=> TaskOwns(u, v) \/ (u = t
                /\ v = w)
        BY <1>2, <2>4 DEF TaskOwns, TaskMoves
    <2>7. \A d \in Cpu, v \in Work : CpuOwns(d, v)' <=> CpuOwns(d, v)
        BY <1>2 DEF CpuOwns
    <2>8. Types' /\ Ths' /\ Dups'
        BY <1>1, <1>2, <2>2, <2>4, <2>5
           DEF Types, Ths, ThreadOK, Dups, TaskMoves, ListLoses
    <2>9. OPs' /\ CancelInv'
        BY <1>1, <1>2, <2>4 DEF OPs, OpOK, CancelInv, CancelOK, TaskMoves
    <2>10. BarrierInv' /\ DataInv'
        <3>1. \A d \in Cpu : \A v : OnList(worklist'[d], v) => OnList(worklist[d], v)
            BY <2>3
        <3>2. BarrierInv'
            BY <1>1, <1>2, <2>4, <3>1 DEF BarrierInv, BarrierOK, TaskMoves
        <3>3. DataInv'
            BY <1>1, <1>2, <3>1 DEF DataInv, DataOK
        <3> QED
            BY <3>2, <3>3
    <2>11. OwnInv'
        <3> SUFFICES ASSUME NEW v \in Work
                     PROVE  OneOwner(v)'
            BY DEF OwnInv
        <3>1. OneOwner(v)
            BY <1>1 DEF OwnInv
        <3>2. \A d \in Cpu : OnList(worklist'[d], v) <=> OnList(worklist[d], v)
                    /\ ~(d = c /\ v = w)
            BY <2>3
        <3>3. CASE v = w
            BY <1>2, <2>1, <2>6, <2>7, <3>1, <3>2, <3>3 DEF OneOwner
        <3>4. CASE v # w
            BY <1>2, <2>6, <2>7, <3>1, <3>2, <3>4 DEF OneOwner
        <3> QED
            BY <3>3, <3>4
    <2>12. FlushInv'
        <3> SUFFICES ASSUME NEW u \in Task, NEW r \in before'[u]
                     PROVE  FlushRun(u, r)'
            BY DEF FlushInv
        <3>1. FlushRun(u, r) /\ r \in Runs /\ r # <<w, c, "queued">> /\ u # t
            BY <1>1, <1>3, <2>5 DEF FlushInv, Types
        <3>2. r[1] \in Work /\ r[2] \in Cpu /\ r[3] \in {"queued", "running"}
              /\ r = <<r[1], r[2], r[3]>>
            BY <3>1 DEF Runs
        <3>3. r[3] = "queued" => ~(r[1] = w /\ r[2] = c)
            BY <3>1, <3>2
        <3>4. r[3] = "queued" /\ Ahead(worklist[r[2]], r[1], u)
                    => Ahead(worklist'[r[2]], r[1], u)
            BY <2>1, <2>2, <3>2, <3>3 DEF ListLoses
        <3> QED
            BY <1>2, <2>1, <2>3, <2>4, <3>1, <3>2, <3>3, <3>4 DEF FlushRun, TaskMoves
    <2> QED
        BY <2>8, <2>9, <2>10, <2>11, <2>12 DEF Inv
<1>5. CASE Goto(t, "wait_on_work") /\ UNCHANGED <<worklist, before>>
    <2>1. TaskMoves(t, op[t].fn, "wait_on_work", w, c, op[t].ret)
        BY <1>1, <1>5, PcMoves, PcsMembers DEF Goto
    <2>2. OpOK(t)' /\ CancelOK(t)'
        BY <1>2, <2>1 DEF OpOK, CancelOK, TaskMoves
    <2>3. \A v \in Work : TaskOwns(t, v)' <=> TaskOwns(t, v)
        BY <1>2, <2>1 DEF TaskOwns, TaskMoves
    <2> QED
        BY <1>2, <1>3, <1>5, <2>1, <2>2, <2>3, OnlyMoves DEF TaskMoves
<1> QED
    BY <1>4, <1>5 DEF grab_locked

\* At the beginning nobody owns anything.
LEMMA InitInv == Init => Inv
<1> SUFFICES ASSUME Init
             PROVE  Inv
    OBVIOUS
<1>1. Types /\ OPs
    BY DEF Init, Types, OPs, OpOK, NoOp, OpType, Fns, Pcs, ThreadPcs, CancelFns
<1>2. \A c \in Cpu : \A x : ~OnList(worklist[c], x)
    BY DEF Init, OnList
<1>3. Dups
    BY DEF Init, Dups, NoDup
<1>4. Ths /\ BarrierInv /\ CancelInv /\ FlushInv
    BY <1>2, WorkqueueAssumption
       DEF Init, Ths, ThreadOK, BarrierInv, BarrierOK, CancelInv, CancelOK, FlushInv, NoOp,
           CancelFns
<1>5. OwnInv /\ DataInv
    <2>1. \A u \in Task, v \in Work : ~TaskOwns(u, v)
        BY DEF Init, TaskOwns, NoOp, CancelFns
    <2>2. \A d \in Cpu, v \in Work : ~CpuOwns(d, v)
        BY DEF Init, CpuOwns
    <2> QED
        BY <1>2, <2>1, <2>2, WorkqueueAssumption
           DEF Init, OwnInv, OneOwner, DataInv, DataOK
<1> QED
    BY <1>1, <1>3, <1>4, <1>5 DEF Inv

\* Every step keeps the invariant.
LEMMA StepInv == Inv /\ [Next]_vars => Inv'
<1> SUFFICES ASSUME Inv, [Next]_vars
             PROVE  Inv'
    OBVIOUS
<1>1. ASSUME NEW c \in Cpu, ThreadStep(c) \/ func_requeue(c)
      PROVE  Inv'
    BY <1>1, PrepareToWaitInv, TestWorklistInv, ScheduleInv, RunWorkqueueInv,
       WorkClearPendingInv, FuncRequeueInsertInv, WqBarrierFuncInv, FuncReturnsInv,
       FuncRequeueInv DEF ThreadStep
<1>2. ASSUME NEW w \in Work, timer_fires(w) \/ delayed_work_timer_fn(w)
      PROVE  Inv'
    BY <1>2, TimerFiresInv, DelayedWorkTimerFnInv
<1>3. ASSUME NEW t \in Task, TaskStep(t)
      PROVE  Inv'
    BY <1>3, DoQueueWorkInv, AddTimerInv, FlushCpuWorkqueueInv, WaitForCompletionInv,
       FlushReturnInv, FlushWorkInv, FlushWorkLockedInv, DelTimerInv, TryToGrabPendingInv,
       GrabDataInv, GrabLockedInv, WaitOnWorkInv, WaitOnCpuWorkInv, ClearWqDataInv
       DEF TaskStep
<1>4. ASSUME NEW t \in Task, Call(t)
      PROVE  Inv'
    BY <1>4, FlushWorkqueueInv, FlushWorkCallInv, FlushDelayedWorkInv, QueueWorkOnInv,
       QueueDelayedWorkOnInv, CancelCallInv DEF Call, CancelFns
<1>5. CASE UNCHANGED vars
    <2>1. /\ \A t \in Task, w \in Work : TaskOwns(t, w)' <=> TaskOwns(t, w)
          /\ \A c \in Cpu, w \in Work : CpuOwns(c, w)' <=> CpuOwns(c, w)
        BY <1>5 DEF vars, TaskOwns, CpuOwns
    <2>2. OwnInv'
        BY <1>5, <2>1 DEF vars, Inv, OwnInv, OneOwner
    <2>3. Types' /\ OPs' /\ Ths' /\ Dups'
        BY <1>5 DEF vars, Inv, Types, OPs, OpOK, Ths, ThreadOK, Dups
    <2>4. BarrierInv' /\ DataInv' /\ CancelInv' /\ FlushInv'
        BY <1>5
           DEF vars, Inv, BarrierInv, BarrierOK, DataInv, DataOK, CancelInv, CancelOK,
                    FlushInv, FlushRun
    <2> QED
        BY <2>2, <2>3, <2>4 DEF Inv
<1> QED
    BY <1>1, <1>2, <1>3, <1>4, <1>5 DEF Next

\* Every state of the work queue has the invariant.
THEOREM Invariance == Spec => []Inv
BY InitInv, StepInv, PTL DEF Spec

\* The owners of a work are at most one, and none exactly when the bit is clear.
LEMMA OwnersCount ==
    ASSUME Inv
    PROVE  PendingHasOneOwner
<1> SUFFICES ASSUME NEW w \in Work
             PROVE  Cardinality(Owners(w)) = IF pending[w] THEN 1 ELSE 0
    BY DEF PendingHasOneOwner
<1>1. OneOwner(w) /\ pending[w] \in BOOLEAN
    BY DEF Inv, OwnInv, Types
<1>2. ASSUME NEW x \in Owners(w), NEW y \in Owners(w)
      PROVE  x = y
    <2>1. ASSUME NEW z \in Owners(w)
          PROVE  \/ \E t \in Task : z = <<"task", t>> /\ TaskOwns(t, w)
                 \/ \E c \in Cpu : z = <<"thread", c>> /\ CpuOwns(c, w)
                 \/ \E c \in Cpu : z = <<"list", c>> /\ OnList(worklist[c], w)
                 \/ z = <<"timer", w>> /\ timer[w] # "off"
        BY DEF Owners
    <2>2. /\ \/ \E t \in Task : x = <<"task", t>> /\ TaskOwns(t, w)
             \/ \E c \in Cpu : x = <<"thread", c>> /\ CpuOwns(c, w)
             \/ \E c \in Cpu : x = <<"list", c>> /\ OnList(worklist[c], w)
             \/ x = <<"timer", w>> /\ timer[w] # "off"
          /\ \/ \E t \in Task : y = <<"task", t>> /\ TaskOwns(t, w)
             \/ \E c \in Cpu : y = <<"thread", c>> /\ CpuOwns(c, w)
             \/ \E c \in Cpu : y = <<"list", c>> /\ OnList(worklist[c], w)
             \/ y = <<"timer", w>> /\ timer[w] # "off"
        BY <2>1
    <2> QED
        BY <1>1, <2>2 DEF OneOwner
<1>3. pending[w] <=> Owners(w) # {}
    <2>1. /\ \A t \in Task : TaskOwns(t, w) => <<"task", t>> \in Owners(w)
          /\ \A c \in Cpu : CpuOwns(c, w) => <<"thread", c>> \in Owners(w)
          /\ \A c \in Cpu : OnList(worklist[c], w) => <<"list", c>> \in Owners(w)
          /\ timer[w] # "off" => <<"timer", w>> \in Owners(w)
        BY DEF Owners
    <2>2. Owners(w) # {} => \/ timer[w] # "off"
                            \/ \E t \in Task : TaskOwns(t, w)
                            \/ \E c \in Cpu : CpuOwns(c, w) \/ OnList(worklist[c], w)
        BY DEF Owners
    <2> QED
        BY <1>1, <2>1, <2>2 DEF OneOwner
<1>4. CASE pending[w]
    <2>1. PICK x : Owners(w) = {x}
        <3>1. PICK x : x \in Owners(w)
            BY <1>3, <1>4
        <3>2. Owners(w) = {x}
            BY <1>2, <3>1
        <3> QED
            BY <3>2
    <2> QED
        BY <1>4, <2>1, FS_Singleton
<1>5. CASE ~pending[w]
    BY <1>3, <1>5, FS_EmptySet
<1> QED
    BY <1>4, <1>5

\* For every number of works, tasks and CPUs the pending bit is set exactly
\* while the work has an owner, it never has two, and the BUG_ONs of insert and
\* run (lines 312, 365, 409) do not fire.
THEOREM PendingBit == Spec => []PendingProtocol
<1>1. Inv => PendingProtocol
    BY OwnersCount DEF PendingProtocol, BugOns, Inv, Dups, DataInv, DataOK
<1> QED
    BY <1>1, Invariance, PTL

\* cancel_work_sync() returns only when the work is on no list, its timer is
\* off and no CPU runs it, whatever requeues and other cancels race with it.
THEOREM CancelSync == Spec => []CancelIsSync
<1>1. Inv => CancelIsSync
    <2> SUFFICES ASSUME Inv, NEW t \in Task, op[t].pc = "clear"
                 PROVE  LET w == op[t].work
                        IN  ~Queued(w) /\ timer[w] = "off" /\ \A c \in Cpu :
                                    current[c] # w
        BY DEF CancelIsSync
    <2>1. op[t].work \in Work /\ op[t].fn \in CancelFns /\ op[t].ret >= 0
        BY DEF Inv, OPs, OpOK
    <2>2. TaskOwns(t, op[t].work)
        BY DEF TaskOwns
    <2>3. OneOwner(op[t].work) /\ CancelOK(t)
        BY <2>1 DEF Inv, OwnInv, CancelInv
    <2> QED
        BY <2>1, <2>2, <2>3 DEF OneOwner, CancelOK, Queued
<1> QED
    BY <1>1, Invariance, PTL

\* flush_workqueue() returns only when every run that it found queued or under
\* way on any CPU is over.
THEOREM FlushDone == Spec => []FlushWaits
<1>1. Inv => FlushWaits
    BY DEF Inv, FlushInv, FlushRun, FlushWaits
<1> QED
    BY <1>1, Invariance, PTL

\* flush_work() returns, by its early returns too, only when the run its work
\* was last queued for before the call is over, if the work is not queued
\* elsewhere before flush_work() looks.
THEOREM FlushWorkDone == Spec => []FlushWorkWaits
<1>1. Inv => FlushWorkWaits
    BY DEF Inv, FlushInv, FlushRun, FlushWorkWaits
<1> QED
    BY <1>1, Invariance, PTL

=============================================================================
