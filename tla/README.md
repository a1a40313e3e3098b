# Verification of the i.MX Android kernel's locks, work queues, power management and Android drivers

The repository is the Linux 2.6.35 kernel of an i.MX5 electronic-paper device,
with the Android additions (`src/kernel_imx`). Most of its fourteen million
lines are unmodified upstream code, drivers that the board does not build, and
other architectures. This project models the parts that carry concurrent
control logic of their own and that the rest rests on: the blocking locks,
sleepable RCU, the work queues, the wake locks, early suspend, and three Android
drivers: the log device, anonymous shared memory and binder.

Contents: [inventory](#inventory), [modules and code](#modules-and-code),
[runs](#runs), [bounds](#bounds), [fairness](#fairness),
[findings](#findings), [other instances](#other-instances), [proofs](#proofs),
[what is only model-checked](#what-is-only-model-checked),
[what is not modelled](#what-is-not-modelled), [plan](#plan).

## Inventory

| Component | State | Operations | Interacts with | What is hard | What makes it correct |
|---|---|---|---|---|---|
| Mutex (`kernel/mutex.c`, `asm/mutex.h`) | `count`, `wait_list`, `wait_lock` | `mutex_lock`, `_interruptible`, `_killable`, `mutex_trylock`, `mutex_unlock` | scheduler, signals; used by everything below | the ldrex/strex fast paths change `count` between any two accesses of a slow path | one owner; `count` is 1 exactly when free; no waiter is forgotten |
| Counting semaphore (`kernel/semaphore.c`) | `count`, `wait_list`, `waiter.up` | `down` and four variants, `up` | scheduler, signals, timers | `up`, a signal and a timeout hitting the same sleeper | units are conserved and handed over in order |
| Read/write semaphore (`lib/rwsem-spinlock.c`) | `activity`, `wait_list`, `waiter.task`, task references | `down_read`, `down_write`, trylocks, `up_read`, `up_write`, `downgrade_write`, `rwsem_is_locked` | scheduler, task lifetime | a waiter runs as soon as its `task` pointer is cleared, before it is woken and before `activity` counts it | writers are alone; references balance; no starvation |
| Work queues (`kernel/workqueue.c`) | pending bit, `work->data`, lists, `current_work`, timers | `queue_work`, `queue_delayed_work`, `flush_workqueue`, `flush_work`, `cancel_work_sync`, `cancel_delayed_work_sync`, the worker thread | timers, scheduler; runs the suspend works | queueing, running, cancelling and the timer all race for the pending bit | one owner of the pending bit; cancel and flush are synchronous |
| Wake locks (`kernel/power/wakelock.c`) | the active list, timeouts, the expiry timer, the event number | `wake_lock`, `wake_lock_timeout`, `wake_unlock`, `has_wake_lock`, timer callback, suspend work | work queue, timers, the suspend core | locks are taken while the suspend work is between its checks | a suspend is never forgotten; none should happen while a lock is held |
| Early suspend (`kernel/power/earlysuspend.c`) | `state`, `mode`, `last_mode`, handlers | `request_suspend_state`, register and unregister, `early_suspend` and `late_resume` works | wake locks, suspend work queue, drivers | requests change `state` while the works run; one request drops its lock in the middle | the main wake lock is held unless sleep is asked for; handlers alternate |
| Android logger (`drivers/staging/android/logger.c`) | ring buffer, `w_off`, `head`, readers with `r_off` | open, release, write, read, flush | mutex, wait queue, user memory | wrap-around, lapped readers, writes that fail half way | readers always stand at whole entries, in order |
| Sleepable RCU (`kernel/srcu.c`) | `completed`, two ranks of per-CPU counters, `sp->mutex` | `init_srcu_struct`, `cleanup_srcu_struct`, `srcu_read_lock`, `srcu_read_unlock`, `synchronize_srcu` and `_expedited` | scheduler (`synchronize_sched`), preemption | no barrier on the read side; readers change CPU; updaters share each other's flips | a grace period outlasts the readers it must and ends; the counters are not freed under a reader |
| Anonymous shared memory (`mm/ashmem.c`) | areas, their lists of unpinned ranges, one LRU list, `lru_count` | open, release, `SET_SIZE`, mmap, `PIN`, `UNPIN`, `GET_PIN_STATUS`, `PURGE_ALL_CACHES`, the shrinker | page allocator, reclaim, shmem | ranges are split and merged while the shrinker takes them; the driver allocates in the middle of both | a pinned page is never purged and whoever pins a purged page is told |
| Binder (`drivers/staging/android/binder.c`) | stacks of transactions, the todo lists of threads, processes and nodes, buffers, `return_error` | `BC_TRANSACTION`, `BC_REPLY`, `BC_FREE_BUFFER`, reads, `BINDER_THREAD_EXIT`, release of a process | wait queues, user memory | nested calls across processes whose threads exit and die at any point; two places for an error | every call is answered; nobody sleeps beside work |

The components interact by calls under locks (`queue_work` under `list_lock`,
`wake_lock` under `state_lock`), by shared works (`suspend_work`,
`early_suspend_work` and `late_resume_work` share one worker thread), and by
callbacks (the expiry timer, the early suspend handlers, the power driver's
late check).

## Modules and code

**`RWLock`** is the abstract specification: a task holds the lock for reading,
for writing or not at all, and a writer is alone. `Mutex` and `RwSem` are both
shown to implement it through a refinement mapping (`LockMode`) that tells who
holds the lock from the code's own variables, the grants that have not yet
been noticed by the new holder included.

**`KList`** holds the list operations the locks share. A wait list is a
sequence of tasks, because a task has one waiter on its stack.

**`RwSem`** has one action per entry point. A critical section of `wait_lock`
that nobody can look into is one step. The release paths are cut in two,
`grant` (`list_del` and the store to `waiter->task`) and `wake`
(`wake_up_process`, `put_task_struct`, the loop test, `activity += woken`),
because `waiter->task` and the task state are read without `wait_lock`. The
sleeper's loop is `check` and `schedule`. This is the grain of a
multiprocessor; the board's uniprocessor kernel has fewer interleavings.

**`Semaphore`** has one step per stretch of `sem->lock`. `down_common` is the
way to the first sleep, `resume` the rest of the loop. Signals, the end of a
timeout and wakeups meant for something else are environment actions. The
variable `owed` is a ghost that counts what has been taken.

**`Mutex`** is cut at every access to `count`. A failed exclusive store on the
ARM fast path is a step that changes nothing and goes to the slow path.
`mutex_lock_killable` is `mutex_lock_interruptible` with another kind of
signal, so the model has one of them.

**`Workqueue`** models one workqueue with a thread for each CPU. The pending
bit and the pointer in `work->data` are two variables; accesses to them
outside `cwq->lock` are steps of their own. Each calling task has a record
`op` with the call it is in and that call's local variables; its barrier on a
list is named by the task. The ghost `before` records which runs a flush has
to outlast: for `flush_workqueue` all runs on all CPUs, for `flush_work` those of
its work on the CPU where it was queued last, read when the call begins and not
at the code's own look. If the work is queued on another CPU before that look, which
workqueue.c:544-546 asks the caller to prevent, it has to outlast nothing.

**`WakeLock`** keeps the static data of wakelock.c in one record `wl`, and has
one operator per C function that takes such a record and returns the new one.
The functions run under `list_lock` with interrupts off, so an entry point is
one step. The suspend work is a sequence of steps (`worker`): the first check,
`sys_sync`, `pm_suspend` with the freezing that may fail, the power driver's
late check, the sleep, and the comparison of event numbers afterwards. Time is
relative: `left` and `timer` count down together in `tick`.

**`EarlySuspend`** extends `WakeLock`: the works of both files share the worker
thread and its queue. A stretch of `state_lock` is one step;
`request_suspend_state` is cut where it drops the lock to flush the queue, and
`early_suspend` and `late_resume` where they call the handlers.

**`Logger`** represents the buffer as cells that know the entry they belong to
and their place in it. The two cells of the length are read one by one, the
way `get_entry_len` treats the end of the buffer. A write is cut at the read
of `w_off` before the mutex, at every reader that `fix_up_readers` looks at,
after the header and after every segment. `logger_release` takes no mutex and may
come at any of these points; a writer that stands at the freed reader is lost
(`"lost"`), and the mutex with it. The history `intact` turns false when a failed
write restores an `orig` that is older than the beginning of its own entry.

**`Srcu`** has one step per memory access of the code that another CPU can
tell apart: the load of `completed` and the increment of a reader are two, the
sum over the CPUs is one per CPU. The code comments rely on `synchronize_sched`
and not on barriers, so the model lets a reader use the protected data for the
whole stretch from the moment it disables preemption in `srcu_read_lock` until it
enables it at the end of `srcu_read_unlock`, and `SyncFunc` waits for the regions
without preemption that run when it is called. `owed` is a ghost: the readers that
were inside when an updater called.

**`AshmemPages`** is the abstract specification of a shared memory area: a set
of unpinned pages, a set of lost ones, and the answer of a pin. **`Ashmem`** has
the lists: one step per stretch of `ashmem_mutex`, the walks of `ashmem_pin` and
`ashmem_unpin` as operators on the list (`PinHit`, `Merged`) with their early
exits, and every outcome of `range_alloc`: success, failure, and an allocation
that reclaims memory (`ReclaimInside`), which enters the shrinker if the LRU list
as it is then, without the ranges the call has deleted, is long enough for
`shrink_slab` to scan a batch (mm/vmscan.c:212-256). `SET_SIZE`, which takes no lock, is two steps. What the
driver forgets when an allocation fails (the pages of the half range it could
not record become pinned again, with no word of their loss) is allowed by the
abstract specification only in steps marked `oom`.

**`Binder`** models transactions. All of an ioctl runs under `binder_lock`, which a
reader gives up only to wait, so every command of a write and every delivery of
a read is one step. The operators `SendFailedReply`, `ReleaseWork`, `Disown`,
`FreeThread` and `FreeThreads` work on a record of the state because one step calls them many
times (a dying process fails every call it has). `owed` is a ghost that counts
the returns a thread has still to read; commands raise it and reads lower it. A read
whose buffer ends after `return_error2` leaves both errors where they are
(binder.c:2217-2221).

The `MC` modules (`MCEarlySuspend`, `MCLogger`, `MCAshmem`,
`MCBinder`) add the symmetry sets, the constant functions and the state constraint
of the log; the other modules are checked directly, with the
configuration named after them. The modules whose names end in `Proofs` hold the
theorems, `SyncProofs` those of `Mutex` and `Srcu`, `SuspendProofs` those of
`WakeLock` and `EarlySuspend`.
`PROJECT.json` maps every definition to its lines.

## Runs

| Run | Question | Result |
|---|---|---|
| `MCRwSem` | Three tasks using every entry point: do the task references balance (`RefsBalanced`), is a wakeup lost (`NoLostWakeup`), is the order of arrival kept (`Fifo`), is it the abstract lock, in which a writer is alone (`ImplementsRWLock`), does a waiter starve (`WaitersServed`)? | all hold |
| `MCSemaphore` | Are units lost or made up when up, signal and timeout meet (`TokensConserved`); order (`Fifo`); do timeouts and fatal signals end a wait on a semaphore that nobody releases (`BoundedDownReturns`); does a sleeper starve while holders release (`SleepersServed`)? | all hold |
| `MCMutex` | At the grain of single accesses to `count`: the abstract lock (`ImplementsRWLock`), a waiter that nobody will wake (`NoLostWakeup`, `WaiterNotStuck`), a signal that ends a wait (`InterruptReturns`) | all hold |
| `MCSrcu` | Two readers that move between two CPUs, two updaters: does `synchronize_srcu` return only when the readers it found are gone, by the early exit too (`GracePeriod`); does it return although readers come for ever (`GracePeriodEnds`); are the counters freed under a reader (`NotFreedInUse`)? | all hold |
| `MCWorkqueue` | Two CPUs, two works, one of which is delayed and requeues itself, a task: one owner of the pending bit and the code's `BUG_ON`s (`PendingProtocol`), what a cancel, `flush_workqueue` and `flush_work` promise when they return (`CancelIsSync`, `FlushWaits`, `FlushWorkWaits`); do queued works run, barriers complete, cancels return (`QueuedWorkRuns`, `BarrierCompletes`, `CancelReturns`)? | all hold, `CancelReturns` unless the work is queued again and again |
| `MCEarlySuspend` | A requester, a handler, the main lock, a driver's and PowerManagerService's, the works of both files on one worker: is a suspend ever forgotten (`SuspendScheduled`), does the one timer cover every timed lock (`TimerCoversLocks`), is the handler called in turn and in step with `state` (`HandlersInStep`), is the main lock held unless sleep is asked for (`MainHeldUnlessRequested`), are lasting requests carried out, with suspend tried again and again when no other lock is left (`RequestsCarriedOut`)? | a suspend is not forgotten; the others hold |
| `MCSleepLocked` | The same without the driver's lock: does an active wake lock keep the machine awake (`NoSleepWhileLocked`)? | violated |
| `MCLogger` | Two writers whose writes fail anywhere, one reader that closes at any time: until a failed write takes back more than its own entry, does the reader stand at whole entries (`EntriesReadable`), read in order (`ReadInOrder`), and is it woken (`SleepingReaderWoken`)? | yes |
| `MCAshmem` | Two areas of three pages, three ranges: are the lists sorted, disjoint and the LRU list and its count exact (`ListsConsistent`); does a status request find every unpinned page (`UnpinnedFound`); does the driver keep the abstract promise page by page (`ImplementsPages`)? | all hold |
| `MCAshmemStatus` | Is the answer of a status request what its comment says, "unpinned" exactly if a page of the request is (`PinStatus`)? | violated |
| `MCAshmemReclaim` | Can the driver wait for itself (`NoSelfDeadlock`)? | violated |
| `MCBinder` | A process with one thread and one with two: does a thread get exactly the returns it is owed, but for an error that is returned again when the buffer ends after it (`AnswersBalance`), does every waiting caller have somebody or something that will answer it (`CallNotForgotten`), do the stacks of transactions fit each other (`StackDiscipline`), does a thread sleep beside work (`NoLostWakeup`), are one-way calls to a node let go one at a time (`AsyncOneAtATime`)? | all hold |

Every property of a passing run has a mutant in `PROJECT.json`: a plausible
slip in one of the mapped definitions (a dropped guard, a store that comes too
late, a missing wakeup) under which TLC reports that property.

## Bounds

* `RwSem` and `Mutex`: three tasks, which give a holder, a first and a second
  waiter, or an owner, a waiter and a task in the fast path. The safety
  properties are proved for any number.
* `Semaphore`: two tasks sleep; those that take with `down_trylock` and call
  `up` need no identity, so that two sleepers queue up behind other holders.
  `MaxCount` limits `up` without waiters, which has no bound in the code.
* `Workqueue`: two CPUs show a work that moves and runs on both, two works a work
  behind one that queues itself again, one task a call against the works' own
  requeueing, their timers and the threads. Nothing else is bounded; the
  state space is finite. With two tasks and one work, where a cancel meets a flush or
  another cancel, the four safety properties hold too (1.8 million states), and they are
  proved for any number of CPUs, works and tasks.
* `WakeLock` and `EarlySuspend`: `MaxTimeout` 2 gives locks that expire before, with
  and after one another. The event number is kept as "changed since the work read it", which
  is all that the comparison tells. One requester makes its next request while the works
  of the last one run; with two requesters, so that one can come while the other
  flushes, and PowerManagerService's lock the safety properties hold too (`MaxTimeout` 1, 1.95 million
  states), and they are proved for any locks, timeouts, requesters and handlers.
* `Srcu`: two readers and two CPUs make single counters negative (a reader locks
  on one and unlocks on the other); two updaters share flips. An `int` is a
  number modulo `IntMod` where it counts flips and modulo `CountMod` where it counts
  readers; 8 keeps the signed comparison of `completed` honest and 4 lets the counters
  go negative. `MaxFlips` ends the calls before `completed` wraps. The proofs have none
  of these bounds: any even `IntMod`, any `CountMod` above the number of readers,
  and any number of flips, wrapping included.
* `Ashmem`: three pages give a hole in the middle of a range, two areas ranges of
  one behind ranges of the other on the LRU list. `RangeId` limits the ranges; an
  allocation beyond it is one that fails, which the code allows at any time.
  `MaxSize` is the number of pages of the largest area. `ShrinkBatch` is the
  `SHRINK_BATCH` of mm/vmscan.c, 128 pages there and 2 here, so that areas of three
  pages can reach it. The safety properties and the
  refinement are proved for any number of areas and ranges and for any sizes.
* `Binder`: two transactions at a time, so that a nested call back to the caller's
  thread, two calls to one process, and a one-way call waiting for another all
  happen; two threads in one process race for its list and let one die while the
  other goes on. `MaxWork` limits what a thread leaves unread when it sends. With
  one thread each and three transactions the properties hold too, and a random walk
  over three processes, four threads, five transactions and three million states
  found no violation.
* `Logger`: eight cells, headers of two cells, payloads of one or two, so that
  headers, lengths and payloads all wrap, and two entries of the greatest length
  just fit. Two writers stand between their reads of `w_off` and their mutex at the same
  time. `MaxWrites` is the number of entries; three go round the buffer once. One writer
  and five entries, which go round more than twice, and two writers and four entries
  (safety only) hold as well. The constraint `WhileIntact` stops at logs that
  every property excepts; without it the run takes four times as long and finds the
  same. `CHECK_DEADLOCK FALSE` because a writer lost at a freed reader keeps the
  mutex, for which everybody else then waits.
  With room for two entries the properties are proved for every
  size, payload, number of writers, readers and writes; with less `EntriesReadable` fails,
  although logger.c:536-538 asks for more than one only; the devices that the
  file defines are far larger.

## Fairness

* Runnable tasks run: weak fairness of every step a task can take by itself.
  Sleepers have no fairness, since they are not enabled until woken.
* Whoever spins for a spin lock gets it at some time: strong fairness of the
  steps that take `wait_lock` in `Mutex`, and of the release steps of `RwSem`.
  The ARM spin locks of the tree give no order, but every critical section is
  short and ends.
* Holders release (`mutex_unlock`, `up_read`, `up_write`), because the
  liveness of a lock is about the lock and not about its users. For the
  semaphore this is a premise of `SleepersServed`, since `BoundedDownReturns` is
  about a semaphore that nobody releases. Nobody has to
  acquire, queue, cancel, write or send a signal.
* Timers that are pending expire, and the worker threads run: weak fairness.
* A reader of `Srcu` leaves its critical section, and the scheduler gives it a CPU
  in the end: strong fairness of `ReadUnlock`, because other readers may take
  the CPUs in between; weak fairness of its other steps and of the updaters.
* Faults and failures have no fairness.

## Findings

**Shared memory, a task that waits for itself** (`MCAshmemReclaim`). `range_alloc`
allocates with `GFP_KERNEL` under `ashmem_mutex`; when memory is
short such an allocation calls `shrink_slab`, and `ashmem_shrink`, whose test lets
a `GFP_KERNEL` mask pass, takes `ashmem_mutex`. ashmem.c:345-346 says that the
shrinker returns -1 if it "cannot proceed without risk of deadlock (due to
gfp_mask)". The run unpins one range and then another that does not touch it. (If the
second touches the first, the first has left the LRU list before the allocation,
`lru_count` is 0 and the shrinker is not entered.)

**Shared memory, a wrong answer** (`MCAshmemStatus`). An unpin with the offset at the end
of the area and length 0 makes a range without pages, and a status request that ends at
the last page finds it: the answer is `ASHMEM_IS_UNPINNED` with every page pinned.
ashmem.c:560-561 says "Returns ASHMEM_IS_UNPINNED if _any_ pages in the given interval are
unpinned and ASHMEM_IS_PINNED otherwise". The other direction, that no unpinned page is
overlooked, holds (`UnpinnedFound`).

**Wake locks, sleep under a lock** (`MCSleepLocked`). `has_wake_lock`
calls `has_wake_lock_locked_test`, which drops timed locks that still have time
left, and at an untimed lock named PowerManagerService ends with 0, without
looking at the locks behind it; wakelock.h:69-70 says that it answers
non-zero if a lock is held. In the run a request to turn on takes
the main lock while the processes are frozen, PowerManagerService takes its own, and the
late check lets the machine sleep with the main lock active, against wakelock.h:22-24.
`MainHeldUnlessRequested` is therefore about the lock and not about the sleep.

Three things that the models show and that no run of the list asks about:

* binder: a thread that exits with an undelivered one-way call forgets it. Its buffer can
  no longer be freed by the user, and the later one-way calls of the node are kept back
  for ever. No line of the code denies it.
* `flush_work` looks only at the CPU where the work was queued last. With several CPUs a
  run on another one may go on after it returns, although workqueue.c:539 says "block
  until a work_struct's callback has terminated"; `FlushWorkWaits` is stated
  accordingly.
* the log: `logger_aio_write` reads `orig` before it takes the mutex (logger.c:328) and
  restores it after a failed copy (line 367); entries that another writer has finished in
  between are cut off and readers are left beyond the write offset. `EntriesReadable`
  and `ReadInOrder` except a log to which this has happened.

## Other instances

The modules state more than the listed runs check. The following need only a
configuration of their own.

* `MCLogger` without the constraint, and `EntriesReadable` without its conjunct
  `intact`: violated as just told.
* `Logger` with any writer and reader, `wpc[w] # "lost"` as invariant: violated.
  `logger_release` (logger.c:431-440) unlinks and frees a reader without the mutex that
  logger.c:53-54 says protects it, while `fix_up_readers` is at it.
* `WakeLock` by itself, `LiveSpec`, with `UserLock = {pms}`, two driver's locks, `Work = {}`
  and `MaxTimeout = 2`: `SuspendScheduled`, `TimerCoversLocks` and `SuspendRetried`
  (suspend is tried again and again with no lock left, whoever has used them) hold.
* The typing of `Mutex`, `Semaphore`, `RwSem`, `WakeLock`, `Srcu`, `Ashmem` and `Logger`
  (`TypeOK`), and of `Workqueue` and `EarlySuspend` (in the inductive invariants of the
  proof modules), is proved.

## Proofs

`KListProofs` states what appending, adding at the head, inserting behind a node,
`list_del`, removing every node of a set and taking the first node do to the
members of a list, to its freedom from duplicates and to the order of what stays
(`Ahead`), and what the order in the new list says of the order in the old one. The other proof modules cite these lemmas and the cardinality theorems of
the library. `Least` (a nonempty set of naturals has a least member) is there for
the few places that need induction over data: a fact about every place of a list or
about every value of a recursive function is shown by looking at the first place
where it would fail.

All theorems are about `Spec`, `MutexSpec`, `AshSpec` or `ESSpec` (safety; no fairness). The
assumptions are those named in the modules:

* the locks: tasks form a finite set that does not contain the NULL task;
  `InitCount` and `MaxCount` are naturals in order;
* `Workqueue`: at least one CPU, finitely many works and tasks, all different;
* `WakeLock`: finitely many locks; the lock that `has_wake_lock_locked_test` looks for
  by name is neither `main_wake_lock`, nor `unknown_wakeup`, nor a driver's, since
  the name is that of a user space lock;
* `EarlySuspend`: the works are the two works and a barrier for each requester;
* `Ashmem`: finitely many ranges at a time, areas of at least one page and at most
  `MaxSize`; NULL is neither a range nor a number;
* `Binder`: finitely many processes, threads and ids; `None` is none of these and no
  `struct`, and no id is the marker of a `TRANSACTION_COMPLETE`;
* `Logger`: a buffer that holds two of the largest entries (those of
  logger.c hold 16 to 64) and whose size is a power of two. Any number of writers and
  readers, with or without faults;
* `Srcu`: at least one CPU, `IntMod` even (as 2^32 is, so that the last bit of
  `completed` survives its wrapping), fewer readers than `CountMod`.

Every inductive invariant was first checked with TLC on the instances of the runs; that
of `Binder`, which says that a numbering of the calls exists, with the one that counts
the steps of `FromChain`.

**`SyncProofs`, the mutex.** `OwnInv` (count at most 1, and count is 1 exactly when there
is no owner, of whom there is at most one) is inductive by itself: no path
moves `count` to or from 1 without owning or taking the mutex. From it follow
`MutexExclusion` and `MutexImplementsRWLock`. `ListInv` adds who holds
`wait_lock`, without which the list could not be seen to be exact
(`MutexTypes`, `MutexListExact`). `WakeInv` adds that the task that has
just taken the mutex in the slow path still sees a negative `count`: this is
why the waiters behind it are not forgotten (`MutexNoLostWakeup`).
`MutexCountBounded` counts the tasks on their way into the slow path.

**`SemaphoreProofs`.** `SemInv` is typing, the exact list, and no unit in
`count` while somebody waits. The lemma `GrantedStep` sums up what a step does
to `count`, to the units handed over but not yet noticed and to `owed`;
`SemaphoreTokens` and `SemaphoreFifo` follow from it.

**`RwSemProofs`.** `BaseInv` ties `wait_lock` to the waker, the list to the
queued waiters and the waker's `tsk` to a task that has been granted the
semaphore. `HoldInv` says what `activity` means at each point at which others
can look: at rest it counts the holders; while readers are woken it lags behind
by `woken`, or `woken + 1` after a grant; while a writer is woken it is -1 with
nobody, or `tsk`, holding. Exclusion alone is not inductive: that the semaphore
can be given to the first waiter without looking at its flags rests on
`HeadIsWriter`, and this on the exact count. Exclusion, accounting,
`rwsem_is_locked`, references, wakeups, order and the refinement of `RWLock`
follow.

**`SuspendProofs`.** The lemmas say what each function of wakelock.c makes of the
record `wl`: `Scan` about the walk of `has_wake_lock_locked` over the active list,
`WakeLockInternal`, `WakeUnlock`, `HasWakeLock`. `WLInv` is typing (`WakeLockTypes`), that
the timer, its callback or an untimed lock covers the locks with a timeout, and that
a system without any of these has the suspend work queued or running at a place from
which it will look again; `SuspendIsScheduled` and `TimerCovers` follow. `ESInv` adds for
early suspend that `main_wake_lock` is on the list and untimed unless both bits
of `state` are set (`MainInv`), and what every handler was told last, at each place
of the two works (`HandlerInv`): `MainHeld`, `HandlersStayInStep`, and
`EarlySuspendScheduled`, the two properties of the wake locks again with the
richer worker. Nothing is said of the sleep itself,
which does not follow the locks (see "findings").

**`WorkqueueProofs`.** The pending bit is a token. `OwnInv` says for each work that one
task, one thread, one list or the timer has the token, or nobody and the bit is
clear; it is inductive only together with where each call is (`OPs`), where
each thread is (`Ths`), and what `work->data` is worth to somebody without
`cwq->lock` (`DataInv`: it names the queue a work is on, and is not cleared under
a work that runs). `PendingBit` follows, the code's `BUG_ON`s included. `CancelInv`
says that a cancel with the token has left behind no CPU that runs the work, since
nobody else can start it; when it comes to clear the bit, no CPU does
(`CancelSync`). `BarrierInv` ties a barrier to the task that waits for it, and
`FlushInv` says that a run that a flush waits for is on a CPU still to be visited or in
front of the barrier there (`Ahead`), so that none is left at the return
(`FlushDone`, `FlushWorkDone`). For `flush_work` it says that until the code looks, the runs
to wait for are on the CPU of `work->data`; if the work is then neither queued nor
current there, they are over, so that the early returns are right.

**`SyncProofs`, sleepable RCU.** Between grace periods every reader goes by the rank in use
(`RankInv`). A flip makes it the old one. The `synchronize_sched` before the flip lets the
readers that must be waited for count themselves first; the one after it ends
the counting in the old rank. From then on readers only leave it, so that the
sum over the CPUs, which is not taken at one moment, can only be too large:
`CountInv` says that there are prefix sums `s` of the counters, which together give the
number of readers in the rank, and a number `d` of readers that left through a CPU already
read, with which the updater's sum is `s + d` modulo `CountMod`. A sum of zero hence
means that all are on their way out, and the third `synchronize_sched` waits for
those. An updater that waits for the mutex and leaves early has its readers counted,
in one rank or the other, after the first flip and gone after the second
(`WaiterOwes`); the proof goes by the number of flips modulo `IntMod`, so that the early
exit is right although `completed` wraps. `GracePeriodHolds` and `CountersInUse`
follow from `Invariance`. The arithmetic of `%` that the provers lack is proved in the
first lemmas (`ModShift`, `ModSum`).

**`AndroidProofs`, shared memory.** That lists are sorted is not inductive by itself: that a merge or a
hole keeps the order needs the types and the bounds of the ranges, that a cut range stays
between its neighbours needs that ranges do not overlap, and that the count never
goes below zero needs that it is exact. `ListsInv` says all of it of values and not of
the variables (the ranges, the lists of the areas, the LRU list, the count), because one
call goes through many such states: the lemmas `DelLists`, `InsLists`, `CutLists` and
`PurgeLists` say that deleting, inserting, cutting and purging a range keep it, and the
steps are put together from them. `lru_count` is a sum over a set of ranges; the proofs take
it as the number of pairs of a range and a page in it (`Pairs`), about which the
library's theorems on cardinalities say enough. A walk over a list that stops at the first
range before the request reaches all ranges that meet it (`ReachedIs`, `MeetsPages`).
`ashmem_unpin` walks again from the front after each merge with a request that has
grown; `MergeOk` says that the request stays the interval of its own pages and of the
ranges merged so far, and that the ranges left are as they were; each
round takes a range off the list, so that after as many rounds as there are
ranges nothing meets the request (`MergedIs`, `MergedFits`) and its
place in the list is free. `LostInv` (every lost page is in a
range marked purged) is what a pin needs for its answer. `AshInv`
is all of this with the sizes of the areas (`AreaOk`). `AshmemListsConsistent` and `AshmemUnpinnedFound`
follow from it; for `AshmemImplementsPages` each step maps the pages of the lists
before and after it (`PagesOf`, `HasPurged`) to a step of `AshmemPages` on one area, or to none.

**`AndroidProofs`, the log.** Offsets wrap and entries lie across the end of the
buffer. The proofs look at the buffer from an offset `o` on (`Line`), where nothing wraps:
`Good` says that the first cells of such a line are whole entries, each younger than the
one before, and `Stands` that this is so from `o` up to where the log ends. `EntriesReadable` only
speaks of moments at which the mutex is free. The inductive invariant `LogInv` has two parts.
`LogBase` (types, a list of open readers without duplicates, one writer inside, the ids) holds
always. `LogCore` holds while the log is `Sound`: `intact`, and no writer stands at a
reader that has been freed. A log that is not sound never becomes so again
(`SoundBefore`), and a release leaves the others where they are (`CloseCore`).
`LogCore` says for the moments at which the mutex is not free (`BusyInv`) that the entry being written begins at some `base`, that its cells
up to `done` are written (`Written`), that everybody still stands before the old entries,
which end at `base`, and that whoever `fix_up_readers` has passed has room for the new
entry between `base` and himself (`Room`). `FixUpIs` is the heart: `clock_interval` finds
exactly the offsets without that room, and `get_next_entry` leads them to an entry, or to
`base`, with it. Here the buffer has to hold two entries: the next entry that starts after `len`
cells may be as far as one entry beyond that. Storing cells does not disturb who has room (`StandsFrame`),
and at the end the new entry is one more in front of everybody (`StandsExtend`); if a copy
fails and the log stays intact, `w_off` goes back to `base` and the old entries are there as
before (`FaultCore`). The recursive
functions of `get_next_entry` and `Readable` are unfolded with `StepsExist` and followed
with `Least`. That a line is `Good` with entries younger than `last` gives `ReadInOrder`.

**`BinderProofs`.** The calls that wait for an answer form chains: a thread that calls
while it handles a call makes the new one its child (`from_parent`). `ChainsBy` says
that the calls can be numbered (`d`) and the chains named (`r`) so that a chain is a line
(`Parents`, `Linear`); a call that is queued is the last of its chain (`QueuedTips`); a call
that is not has a handler that lives, or the handler is gone and there is a child
(`Handlers`); the calls a thread has sent or handles are all of one chain, its
`transaction_stack` points at the last of them (`Tops`) and `to_parent` at the one before
(`Handled`); a call queued to a certain thread continues the chain that the thread waits
for (`Targets`). Without the last one a nested call delivered to the thread that waits
would not end up on top of its own chain. The lemmas `ChainsCall`,
`ChainsDeliver`, `ChainsPop`, `ChainsDisown` and `ChainsAnswer` say that each thing that can
happen to a call keeps this; the numbering is existentially quantified and chosen anew
by each. `WalkIs` and `StackIsRel` say what the loops over `from_parent` and over the stack
find, by the first place where they could go wrong.

`SInv` adds types, the links between transactions and buffers (`Linked`), that a thread
with both errors set waits for no third (`Errors`, without which
`binder_send_failed_reply` would leave a call on the sender's stack), and who may sleep
(`Waits`), for a record `S` of the state, the threads `th` that are left and the works
`P` that are still on a list. So one lemma each for an answer, a list
and a thread (`Answer`, `ReleaseAll`, `FreeThreadIs`, `FreeThreadsIs`) carries a dying process
through all its intermediate states, and `Frame` says that what the others are owed is
the same after each. `Inv` is `SInv` of the variables with the types of the lists
(`Types`), that a work is on one list (`Apart`), that what is on a list fits there
(`Placed`), that nothing is left of who is gone (`Gone`), and `Awake`, `OneAsync` and
`Balance`, from which `NoLostWakeup`, `AsyncOneAtATime` and `AnswersBalance` follow.
`StacksAreInOrder` follows from the chains once more: taking the call off the
handler's stack makes it as good as queued, and an answer to a queued call finds its
sender (`UptoTop`). For `CallsAreNotForgotten` take, of the calls whose answer comes over
the waiting one, the one furthest away: were it neither queued nor handled, it would have
a child, and the child would be further away.

## What is only model-checked

Liveness, in all modules, since it rests on fairness. The violations, by their nature,
are traces of TLC. All other properties of the runs are proved.

## What is not modelled

* Mutex: spinning on the owner and the debugging variants, which the
  configuration of the board leaves out, and `atomic_dec_and_mutex_lock`.
* Work queues: creating and destroying queues, CPU hotplug, the freezer,
  `schedule_on_each_cpu`, `work_on_cpu`.
* Wake locks: `wake_lock_init` and `wake_lock_destroy`, idle locks (their list
  never meets the suspend code), the statistics (who is charged for keeping the
  system up, and for how long) and `/proc/wakelocks`. `wake_unlock` called by `has_wake_lock` with `list_lock`
  held goes through on the uniprocessor board and is modelled so; on a
  multiprocessor it would stop there.
* Early suspend: the mode that a handler is told (`pm_mode`).
* Suspend core: the device callbacks, the platform code and the test levels.
* Logger: `poll` and the ioctls that only look; what becomes of the memory of a reader freed
  under `fix_up_readers` beyond the loss of that writer, and an unlocked `list_del`
  that meets a `list_add_tail` half way.
* Sleepable RCU: `sp->mutex` is taken in one step (module `Mutex` is about its
  inside), the rest of RCU is not modelled, `synchronize_sched` is what it
  promises, and an updater's own earlier stores are taken to be visible when it
  calls.
* Ashmem: the name, the protection mask, read and llseek, which leave the ranges
  alone, and the contents of pages. `SET_SIZE` with 0 (`Sizes` has no such size): by the
  unlocked race it may come after the first mmap, and then line 610 wraps `pgend`.
* Binder: node and reference counts, death notifications, the spawning of looper
  threads, the allocator of buffers, file descriptors, poll and priorities. Every
  process has one node and does not call it itself; a read returns one work and has
  room for at least one return; a failed call always fails with `BR_FAILED_REPLY` or
  `BR_DEAD_REPLY` (after the cookie mismatch of lines 1607-1613 `return_error` is not
  initialised); a process released is not opened again.
* What the modules take from other parts of the kernel as steps of the environment
  (signals, wakeups of a wait queue, preemption, `synchronize_sched`) is marked
  external in `PROJECT.json`, although its code is in the repository too.
* Memory ordering: all models but `Srcu` are sequentially consistent. The barriers of the
  code (`smp_mb` before clearing `waiter->task`, `smp_wmb` in `insert_work`)
  are taken to do what they are there for.
* The other components that `PROJECT.json` lists as not modelled: unmodified
  upstream subsystems (memory management, file systems, networking, the
  scheduler), drivers whose logic is register programming, and the parts
  of the plan below.

## Plan

Order of the modules, by how much of the system rests on them:

1. Done: `RWLock`, `RwSem`, `Semaphore`, `Mutex` with their proofs;
   `Workqueue`; `WakeLock`; `EarlySuspend`; `Logger`; `Srcu`; `AshmemPages` and
   `Ashmem`; `Binder`'s transactions.
2. Next, extensions: `destroy_workqueue`, CPU hotplug and the freezer in
   `Workqueue`; `wake_lock_init` and `wake_lock_destroy`; user space wake locks
   (`userwakelock.c`) on top of `WakeLock`; the console and frame buffer
   handlers on top of `EarlySuspend`.
3. New components: binder's references and death notifications, the update lists
   of the electronic paper frame buffer.
4. Abstract specifications worth stating: a FIFO queue of entries with loss at
   the old end for `Logger`; an on/off machine for `EarlySuspend`; a work that is
   idle, queued or running for `Workqueue`.
5. Proofs done: all safety properties of `RwSem`, `Semaphore`, `Mutex`, `WakeLock`,
   `EarlySuspend`, `Workqueue`, `Srcu`, `Ashmem`, `Logger` and `Binder`.
