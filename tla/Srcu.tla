-------------------------------- MODULE Srcu --------------------------------
(***************************************************************************)
(* Sleepable RCU, kernel/srcu.c: readers that count themselves in one of   *)
(* two ranks of per-CPU counters, and updaters that flip the rank in use   *)
(* and wait until the old one drains.                                      *)
(*                                                                         *)
(* The code has no memory barrier on the read side: inside a region with   *)
(* preemption disabled the accesses of a CPU may take effect in any order, *)
(* and only sync_func(), which waits for every such region, orders them.   *)
(* So a reader may look at the protected data from the moment it disables  *)
(* preemption in srcu_read_lock() until it enables it again at the end of  *)
(* srcu_read_unlock(), whatever the order of the statements in between.    *)
(* int arithmetic wraps, in widths TLC can enumerate.                      *)
(***************************************************************************)
EXTENDS Integers, FiniteSets

CONSTANTS
    Reader, Updater,
    NCpu,      \* the possible CPUs are 1 .. NCpu
    IntMod,    \* how many values the int sp->completed has
    CountMod,  \* how many values an int counter has
    MaxFlips,  \* bound: no call of synchronize_srcu() after as many flips
    None

ASSUME SrcuAssumption ==
    /\ IsFiniteSet(Reader) /\ IsFiniteSet(Updater)
    /\ NCpu \in Nat \ {0}
    /\ IntMod \in Nat \ {0} /\ IntMod % 2 = 0
    /\ CountMod \in Nat /\ Cardinality(Reader) < CountMod
    /\ MaxFlips \in Nat
    /\ None \notin Reader \cup Updater \cup 1 .. NCpu

Cpu == 1 .. NCpu

VARIABLES
    per_cpu_ref,  \* FALSE: the counters are not allocated (NULL)
    completed,    \* sp->completed
    c,            \* c[cpu][idx]: the counters
    mutex,        \* the holder of sp->mutex
    rd,           \* rd[r]: where reader r is, its CPU and its index
    up,           \* up[u]: where updater u is, its idx, its cursor and its sum
    gp,           \* the CPUs the running sync_func() still waits for
    owed          \* owed[u]: the readers u's grace period has to outlast

vars == <<per_cpu_ref, completed, c, mutex, rd, up, gp, owed>>

Outside == [pc |-> "out", cpu |-> None, idx |-> 0]
Idle    == [pc |-> "idle", idx |-> 0, next |-> 1, sum |-> 0]

ZeroCounters == [k \in Cpu |-> [i \in {0, 1} |-> 0]]

Init ==
    /\ per_cpu_ref = TRUE
    /\ completed = 0
    /\ c = ZeroCounters
    /\ mutex = None
    /\ rd = [r \in Reader |-> Outside]
    /\ up = [u \in Updater |-> Idle]
    /\ gp = {}
    /\ owed = [u \in Updater |-> {}]

-----------------------------------------------------------------------------
(* Signed comparison of a difference modulo IntMod. *)
Signed(n) == IF n % IntMod < IntMod \div 2 THEN n % IntMod ELSE (n % IntMod) - IntMod

PreemptOff == {rd[r].cpu : r \in Reader} \ {None}

(* Reader r gives its CPU up; a sync_func() that waited for it need not. *)
PreemptEnable(r) == gp' = gp \ {rd[r].cpu}

(***************************************************************************)
(* init_srcu_struct(), called when nobody uses the structure.              *)
(***************************************************************************)
InitSrcuStruct ==
    /\ ~per_cpu_ref
    /\ completed' = 0
    /\ \E ok \in BOOLEAN : \* alloc_percpu() may fail
         /\ per_cpu_ref' = ok
         /\ c' = IF ok THEN ZeroCounters ELSE c
    /\ UNCHANGED <<mutex, rd, up, gp, owed>>

(***************************************************************************)
(* cleanup_srcu_struct(), called when no call of the structure is in       *)
(* progress and none will be made; a reader may have been forgotten.       *)
(***************************************************************************)
ReadersActiveIdx(idx) ==
    LET sum[k \in 0 .. NCpu] ==
          IF k = 0 THEN 0 ELSE (sum[k - 1] + c[k][idx]) % CountMod
    IN  sum[NCpu]

(* Looks at the counters of one CPU only. *)
ReadersActive_OneCpu == (c[1][0] + c[1][1]) % CountMod

ReadersActive == (ReadersActiveIdx(0) + ReadersActiveIdx(1)) % CountMod

CleanupSrcuStruct ==
    /\ per_cpu_ref
    /\ mutex = None /\ PreemptOff = {} /\ \A u \in Updater : up[u] = Idle
    /\ per_cpu_ref' = (ReadersActive # 0)
    /\ UNCHANGED <<completed, c, mutex, rd, up, gp, owed>>

-----------------------------------------------------------------------------
(***************************************************************************)
(* __srcu_read_lock(): preempt_disable() on the CPU the reader runs on,    *)
(* the load of completed, the increment.                                   *)
(***************************************************************************)
ReadLock(r, cpu) ==
    /\ per_cpu_ref
    /\ rd[r] = Outside /\ cpu \notin PreemptOff
    /\ rd' = [rd EXCEPT ![r] = [pc |-> "enter", cpu |-> cpu, idx |-> 0]]
    /\ UNCHANGED <<per_cpu_ref, completed, c, mutex, up, gp, owed>>

ReadLockIdx(r) ==
    /\ rd[r].pc = "enter"
    /\ rd' = [rd EXCEPT ![r].pc = "loaded", ![r].idx = completed % 2]
    /\ UNCHANGED <<per_cpu_ref, completed, c, mutex, up, gp, owed>>

ReadLockCount(r) ==
    /\ rd[r].pc = "loaded"
    /\ c' = [c EXCEPT ![rd[r].cpu][rd[r].idx] = (@ + 1) % CountMod]
    /\ rd' = [rd EXCEPT ![r].pc = "in", ![r].cpu = None]
    /\ PreemptEnable(r)
    /\ UNCHANGED <<per_cpu_ref, completed, mutex, up, owed>>

(***************************************************************************)
(* __srcu_read_unlock(), perhaps on another CPU: the decrement, and        *)
(* preempt_enable() when the reader's accesses have taken effect.          *)
(***************************************************************************)
ReadUnlock(r, cpu) ==
    /\ rd[r].pc = "in" /\ cpu \notin PreemptOff
    /\ c' = [c EXCEPT ![cpu][rd[r].idx] = (@ - 1) % CountMod]
    /\ rd' = [rd EXCEPT ![r].pc = "leave", ![r].cpu = cpu]
    /\ UNCHANGED <<per_cpu_ref, completed, mutex, up, gp, owed>>

ReadUnlockDone(r) ==
    /\ rd[r].pc = "leave"
    /\ rd' = [rd EXCEPT ![r] = Outside]
    /\ owed' = [u \in Updater |-> owed[u] \ {r}]
    /\ PreemptEnable(r)
    /\ UNCHANGED <<per_cpu_ref, completed, c, mutex, up>>

-----------------------------------------------------------------------------
(* sync_func() begins: it waits for every region that runs now. *)
SyncFunc(u, pc, idx) ==
    /\ gp' = PreemptOff
    /\ up' = [up EXCEPT ![u] = [pc |-> pc, idx |-> idx, next |-> 1, sum |-> 0]]

(* __synchronize_srcu(): what is completed when the caller arrives. *)
Synchronize(u) ==
    /\ per_cpu_ref /\ completed < MaxFlips
    /\ up[u] = Idle
    /\ up' = [up EXCEPT ![u].pc = "wait", ![u].idx = completed]
    /\ owed' = [owed EXCEPT ![u] = {r \in Reader : rd[r].pc # "out"}]
    /\ UNCHANGED <<per_cpu_ref, completed, c, mutex, rd, gp>>

(* An early exit after one flip of somebody else. *)
SynchronizeLocked_OneFlip(u) ==
    /\ up[u].pc = "wait" /\ mutex = None
    /\ IF Signed(completed - up[u].idx) >= 1
       THEN /\ up' = [up EXCEPT ![u] = Idle]
            /\ UNCHANGED <<mutex, gp>>
       ELSE /\ mutex' = u
            /\ SyncFunc(u, "sync1", 0)
    /\ UNCHANGED <<per_cpu_ref, completed, c, rd, owed>>

(* mutex_lock(), the early exit, and the first sync_func(). *)
SynchronizeLocked(u) ==
    /\ up[u].pc = "wait" /\ mutex = None
    /\ IF Signed(completed - up[u].idx) >= 2
       THEN /\ up' = [up EXCEPT ![u] = Idle]
            /\ UNCHANGED <<mutex, gp>>
       ELSE /\ mutex' = u
            /\ SyncFunc(u, "sync1", 0)
    /\ UNCHANGED <<per_cpu_ref, completed, c, rd, owed>>

(* The flip of a version that waits for the rank now in use. *)
Flip_NewRank(u) ==
    /\ up[u].pc = "sync1" /\ gp = {}
    /\ completed' = (completed + 1) % IntMod
    /\ SyncFunc(u, "sync2", completed' % 2)
    /\ UNCHANGED <<per_cpu_ref, c, mutex, rd, owed>>

(* The flip, and the second sync_func(). *)
Flip(u) ==
    /\ up[u].pc = "sync1" /\ gp = {}
    /\ completed' = (completed + 1) % IntMod
    /\ SyncFunc(u, "sync2", completed % 2)
    /\ UNCHANGED <<per_cpu_ref, c, mutex, rd, owed>>

(***************************************************************************)
(* srcu_readers_active_idx() reads the counter of one CPU after another.   *)
(* The loop ends when the sum is zero, and the third sync_func() starts;   *)
(* otherwise schedule_timeout_interruptible(1) and the sum once more.      *)
(***************************************************************************)
DrainCpu(u) ==
    LET sum == (up[u].sum + c[up[u].next][up[u].idx]) % CountMod
    IN  /\ up[u].pc = "drain" \/ (up[u].pc = "sync2" /\ gp = {})
        /\ \/ /\ up[u].next < NCpu
              /\ up' = [up EXCEPT ![u].pc = "drain", ![u].sum = sum, ![u].next = @ + 1]
              /\ UNCHANGED gp
           \/ /\ up[u].next = NCpu /\ sum # 0
              /\ up' = [up EXCEPT ![u].pc = "drain", ![u].sum = 0, ![u].next = 1]
              /\ UNCHANGED gp
           \/ /\ up[u].next = NCpu /\ sum = 0
              /\ SyncFunc(u, "sync3", 0)
        /\ UNCHANGED <<per_cpu_ref, completed, c, mutex, rd, owed>>

SynchronizeUnlock(u) ==
    /\ up[u].pc = "sync3" /\ gp = {}
    /\ mutex' = None
    /\ up' = [up EXCEPT ![u] = Idle]
    /\ UNCHANGED <<per_cpu_ref, completed, c, rd, gp, owed>>

ReaderStep(r) ==
    \/ ReadLockIdx(r)
    \/ ReadLockCount(r)
    \/ \E cpu \in Cpu : ReadUnlock(r, cpu)
    \/ ReadUnlockDone(r)

UpdaterStep(u) ==
    \/ SynchronizeLocked(u)
    \/ Flip(u)
    \/ DrainCpu(u)
    \/ SynchronizeUnlock(u)

Next ==
    \/ InitSrcuStruct
    \/ CleanupSrcuStruct
    \/ \E r \in Reader : ReaderStep(r) \/ \E cpu \in Cpu : ReadLock(r, cpu)
    \/ \E u \in Updater : UpdaterStep(u) \/ Synchronize(u)

Spec == Init /\ [][Next]_vars

(***************************************************************************)
(* A reader leaves its critical section, for which the scheduler gives it  *)
(* a CPU in the end, and an updater is scheduled.  Nobody is obliged to    *)
(* call lock or synchronize, and readers may come for ever.                *)
(***************************************************************************)
Fairness ==
    /\ \A r \in Reader : WF_vars(ReaderStep(r)) /\ SF_vars(\E cpu \in Cpu : ReadUnlock(r, cpu))
    /\ \A u \in Updater : WF_vars(UpdaterStep(u))

LiveSpec == Spec /\ Fairness

-----------------------------------------------------------------------------
(* The types of the variables. *)
TypeOK ==
    /\ per_cpu_ref \in BOOLEAN
    /\ completed \in 0 .. IntMod - 1
    /\ c \in [Cpu -> [{0, 1} -> 0 .. CountMod - 1]]
    /\ mutex \in Updater \cup {None}
    /\ rd \in [Reader -> [pc : {"out", "enter", "loaded", "in", "leave"},
                          cpu : Cpu \cup {None}, idx : {0, 1}]]
    /\ up \in [Updater -> [pc : {"idle", "wait", "sync1", "sync2", "drain", "sync3"},
                           idx : 0 .. IntMod - 1, next : Cpu,
                           sum : 0 .. CountMod - 1]]
    /\ gp \subseteq Cpu
    /\ owed \in [Updater -> SUBSET Reader]

(***************************************************************************)
(* The promise of synchronize_srcu(): when it returns, by the early exit   *)
(* or after a flip of its own, no reader that was in its critical section  *)
(* at the call is still in it, even one whose accesses the CPU moved out   *)
(* of the counted stretch.                                                 *)
(***************************************************************************)
GracePeriod == \A u \in Updater : up[u].pc = "idle" => owed[u] = {}

(***************************************************************************)
(* cleanup_srcu_struct() never frees the counters under a reader that has  *)
(* not unlocked, whichever rank it is counted in.                          *)
(***************************************************************************)
NotFreedInUse == ~per_cpu_ref => \A r \in Reader : rd[r] = Outside

(***************************************************************************)
(* An updater that holds sp->mutex returns although new readers may come   *)
(* for ever: the flip leaves them the other rank.                          *)
(***************************************************************************)
GracePeriodEnds == \A u \in Updater : (mutex = u) ~> (mutex # u)
=============================================================================
