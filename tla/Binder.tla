------------------------------- MODULE Binder -------------------------------
(***************************************************************************)
(* Binder transactions, drivers/staging/android/binder.c: threads of       *)
(* several processes that call the nodes of other processes, with or       *)
(* without waiting for a reply, call back while they handle a call, free   *)
(* the buffers they were given, exit and die.                              *)
(*                                                                         *)
(* Every process has one node, and everyone else a reference to it.  All   *)
(* of an ioctl is done under binder_lock, which a thread gives up only to  *)
(* wait: a command of a write, and the delivery of a work by a read, are   *)
(* one step each.  A struct binder_transaction and its buffer have the     *)
(* same name; the buffer may live longer.                                  *)
(***************************************************************************)
EXTENDS Integers, Sequences, FiniteSets, SequencesExt, FiniteSetsExt

CONSTANTS
    Proc, Thread,
    ProcOf,     \* ProcOf[x]: the process of thread x
    Id,         \* the transactions and buffers there may be at a time, a bound
    MaxWork,    \* the works a thread may leave unread when it sends, a bound
    None

(* struct binder_transaction. *)
Transaction ==
    [from : Thread \cup {None}, from_parent : Id \cup {None},
     to_thread : Thread \cup {None}, to_parent : Id \cup {None},
     one_way : BOOLEAN, reply : BOOLEAN,
     buffer : BOOLEAN]         \* the pointer to the buffer is not null

(* struct binder_buffer. *)
Buffer ==
    [proc : Proc,
     transaction : BOOLEAN,    \* the pointer to the transaction is not null
     async : BOOLEAN, allow_user_free : BOOLEAN]

ASSUME BinderAssumption ==
    /\ IsFiniteSet(Proc) /\ IsFiniteSet(Thread) /\ IsFiniteSet(Id)
    /\ ProcOf \in [Thread -> Proc]
    /\ MaxWork \in Nat
    /\ None \notin Proc \cup Thread \cup Id \cup Transaction \cup Buffer
    /\ "complete" \notin Id

VARIABLES
    live,        \* live[p]: p has not been released
    threads,     \* the threads that have a struct binder_thread
    pc,          \* pc[x]: in user space, or waiting in a read
    stack,       \* stack[x]: transaction_stack
    todo,        \* todo[x]: thread->todo
    proc_todo,   \* proc_todo[p]: proc->todo
    async_todo,  \* async_todo[p]: the node's async_todo
    has_async,   \* has_async[p]: the node's has_async_transaction
    err, err2,   \* return_error and return_error2 of a thread
    tr,          \* tr[i]: the struct binder_transaction, or None
    buf,         \* buf[i]: the struct binder_buffer, or None
    owed         \* owed[x]: the returns that x has not been given for good

vars == <<live, threads, pc, stack, todo, proc_todo, async_todo, has_async,
          err, err2, tr, buf, owed>>

Complete == "complete"  \* a BINDER_WORK_TRANSACTION_COMPLETE
Ok == "ok"
Dead == "dead"          \* BR_DEAD_REPLY
Failed == "failed"      \* BR_FAILED_REPLY

(* Waiting in a read for work of the thread or of the process, asleep or   *)
(* about to take it.                                                       *)
Waiting == {"thread_wait", "thread_sleep", "proc_wait", "proc_sleep"}

Init ==
    /\ live = [p \in Proc |-> TRUE]
    /\ threads = Thread
    /\ pc = [x \in Thread |-> "user"]
    /\ stack = [x \in Thread |-> None]
    /\ todo = [x \in Thread |-> <<>>]
    /\ proc_todo = [p \in Proc |-> <<>>]
    /\ async_todo = [p \in Proc |-> <<>>]
    /\ has_async = [p \in Proc |-> FALSE]
    /\ err = [x \in Thread |-> Ok]
    /\ err2 = [x \in Thread |-> Ok]
    /\ tr = [i \in Id |-> None]
    /\ buf = [i \in Id |-> None]
    /\ owed = [x \in Thread |-> 0]

-----------------------------------------------------------------------------
ThreadsOf(p) == {x \in threads : ProcOf[x] = p}

Free == {i \in Id : tr[i] = None /\ buf[i] = None}

(* wake_up_interruptible() of a thread, in the function q of the pcs. *)
WakeThread(q, x) == [q EXCEPT ![x] = IF @ = "thread_sleep" THEN "thread_wait" ELSE @]

WakeProc_None(q, p) == {q}

(* wake_up_interruptible() of a process wakes one of its sleepers. *)
WakeProc(q, p) ==
    LET asleep == {x \in ThreadsOf(p) : q[x] = "proc_sleep"}
    IN  IF asleep = {} THEN {q} ELSE {[q EXCEPT ![x] = "proc_wait"] : x \in asleep}

(* i, its from_parent, and so on. *)
FromChain(T, i) ==
    LET C[k \in 0 .. Cardinality(Id)] ==
          IF k = 0 THEN i
          ELSE LET j == C[k - 1] IN IF j = None THEN None ELSE T[j].from_parent
    IN  C

(* The transaction_stack of thread x from its top i: through to_parent     *)
(* where x is the target, through from_parent where it is the sender.      *)
StackFrom(T, x, i) ==
    LET C[k \in 0 .. Cardinality(Id)] ==
          IF k = 0 THEN i
          ELSE LET j == C[k - 1]
               IN  IF j = None THEN None
                   ELSE IF T[j].to_thread = x THEN T[j].to_parent ELSE T[j].from_parent
    IN  {C[k] : k \in DOMAIN C} \ {None}

(***************************************************************************)
(* binder_send_failed_reply() and the frees, on a record S of the state    *)
(* they work on, because they are called several times in one step.        *)
(***************************************************************************)
State == [tr |-> tr, buf |-> buf, stack |-> stack, err |-> err, err2 |-> err2, pc |-> pc]

(* The variables that S stands for get its values. *)
Becomes(T) ==
    \E S \in {T} : /\ tr' = S.tr /\ buf' = S.buf /\ stack' = S.stack
                  /\ err' = S.err /\ err2' = S.err2 /\ pc' = S.pc

(* kfree() of the transactions in D; their buffers stay. *)
FreeTransactions(S, D) ==
    [S EXCEPT !.tr = [i \in Id |-> IF i \in D THEN None ELSE S.tr[i]],
              !.buf = [i \in Id |-> IF i \in D /\ S.buf[i] # None
                                    THEN [S.buf[i] EXCEPT !.transaction = FALSE]
                                    ELSE S.buf[i]]]

(* How many transactions from i up, the innermost first, have lost their   *)
(* sender: those that an answer to i walks over.                           *)
Senderless(T, i) ==
    LET C == FromChain(T, i)
    IN  Min({k \in DOMAIN C : C[k] = None \/ (C[k] # None /\ T[C[k]].from # None)})

(* Without the second place for an error. *)
SendFailedReply_OneError(S, i, code) ==
    LET C == FromChain(S.tr, i)
        n == Senderless(S.tr, i)
        gone == {C[k] : k \in 0 .. n - 1}
        t == C[n]
        x == S.tr[t].from
    IN  IF t = None THEN FreeTransactions(S, gone)
        ELSE [FreeTransactions(S, gone \cup {t}) EXCEPT
                !.stack[x] = S.tr[t].from_parent,
                !.err[x] = code,
                !.pc = WakeThread(S.pc, x)]

(* The transactions whose sender is gone are popped, up to the first that  *)
(* has one; its sender gets the error, if there is room for it.            *)
SendFailedReply(S, i, code) ==
    LET C == FromChain(S.tr, i)
        n == Senderless(S.tr, i)
        gone == {C[k] : k \in 0 .. n - 1}
        t == C[n]
        x == S.tr[t].from
    IN  IF t = None \/ (S.err[x] # Ok /\ S.err2[x] # Ok) THEN FreeTransactions(S, gone)
        ELSE [FreeTransactions(S, gone \cup {t}) EXCEPT
                !.stack[x] = S.tr[t].from_parent,
                !.err2[x] = IF S.err[x] # Ok THEN S.err[x] ELSE @,
                !.err[x] = code,
                !.pc = WakeThread(S.pc, x)]

(* binder_release_work(): the undelivered calls fail; the undelivered      *)
(* replies and one-way calls are forgotten, and their buffers stay.        *)
ReleaseOne(S, w) ==
    IF w = Complete THEN S
    ELSE IF ~S.tr[w].reply /\ ~S.tr[w].one_way THEN SendFailedReply(S, w, Dead)
    ELSE FreeTransactions(S, {w})

ReleaseWork(S, list) ==
    LET R[k \in 0 .. Len(list)] == IF k = 0 THEN S ELSE ReleaseOne(R[k - 1], list[k])
    IN  R[Len(list)]

(* The loop of binder_free_thread(): the transactions on the stack lose    *)
(* the thread.                                                             *)
Disown(S, x) ==
    LET mine == StackFrom(S.tr, x, S.stack[x])
        in == {i \in mine : S.tr[i].to_thread = x}
    IN  [S EXCEPT
           !.tr = [i \in Id |-> IF i \in in
                                THEN [S.tr[i] EXCEPT !.to_thread = None, !.buffer = FALSE]
                                ELSE IF i \in mine THEN [S.tr[i] EXCEPT !.from = None]
                                ELSE S.tr[i]],
           !.buf = [i \in Id |-> IF i \in in /\ S.tr[i].buffer
                                 THEN [S.buf[i] EXCEPT !.transaction = FALSE]
                                 ELSE S.buf[i]]]

(* A thread that does not tell the caller it dies on. *)
FreeThread_Silent(S, x) ==
    [ReleaseWork(Disown(S, x), todo[x]) EXCEPT !.stack[x] = None, !.err[x] = Ok, !.err2[x] = Ok]

(* binder_free_thread(): the call that the thread was handling fails, and  *)
(* so do the calls that it had not read.                                   *)
FreeThread(S, x) ==
    LET t == S.stack[x]
        R == Disown(S, x)
        Q == IF t # None /\ S.tr[t].to_thread = x THEN SendFailedReply(R, t, Dead) ELSE R
    IN  [ReleaseWork(Q, todo[x]) EXCEPT !.stack[x] = None, !.err[x] = Ok, !.err2[x] = Ok]

(* The threads of order, one after the other. *)
FreeThreads(S, order) ==
    LET R[k \in 0 .. Len(order)] == IF k = 0 THEN S ELSE FreeThread(R[k - 1], order[k])
    IN  R[Len(order)]

-----------------------------------------------------------------------------
(***************************************************************************)
(* The commands of binder_thread_write(), which it takes only while there  *)
(* is no error to return.                                                  *)
(***************************************************************************)
MayWrite(x) == x \in threads /\ pc[x] = "user" /\ err[x] = Ok

(* binder_transaction() returns the error code to its caller. *)
Fail(x, code) ==
    /\ err' = [err EXCEPT ![x] = code]
    /\ owed' = [owed EXCEPT ![x] = @ + 1]
    /\ UNCHANGED <<live, threads, pc, stack, todo, proc_todo, async_todo, has_async, err2, tr, buf>>

(* x is waiting for the reply to a call of its own. *)
BadStack(x) == stack[x] # None /\ tr[stack[x]].to_thread # x

(* The sender, furthest up the calls x is handling, that is of process p. *)
TargetThread(x, p) ==
    LET C == FromChain(tr, stack[x])
        K == {k \in DOMAIN C : C[k] # None /\ tr[C[k]].from # None /\ ProcOf[tr[C[k]].from] = p}
    IN  IF stack[x] = None \/ K = {} THEN None ELSE tr[C[Max(K)]].from

(* BC_TRANSACTION to the node of p with a reply. *)
Call(x, p) ==
    /\ MayWrite(x) /\ p # ProcOf[x]
    /\ \/ ~live[p] /\ Fail(x, Dead)
       \/ live[p] /\ Fail(x, Failed)         \* a bad stack, no memory, no buffer, a bad object
       \/ /\ live[p] /\ ~BadStack(x) /\ Len(todo[x]) < MaxWork
          /\ \E i \in Free :
               LET target == TargetThread(x, p)
               IN  /\ tr' = [tr EXCEPT ![i] = [from |-> x, from_parent |-> stack[x],
                                               to_thread |-> target, to_parent |-> None,
                                               one_way |-> FALSE, reply |-> FALSE, buffer |-> TRUE]]
                   /\ buf' = [buf EXCEPT ![i] = [proc |-> p, transaction |-> TRUE, async |-> FALSE,
                                                 allow_user_free |-> FALSE]]
                   /\ stack' = [stack EXCEPT ![x] = i]
                   /\ IF target # None
                      THEN /\ todo' = [todo EXCEPT ![target] = Append(@, i), ![x] = Append(@, Complete)]
                           /\ pc' = WakeThread(pc, target)
                           /\ UNCHANGED proc_todo
                      ELSE /\ todo' = [todo EXCEPT ![x] = Append(@, Complete)]
                           /\ proc_todo' = [proc_todo EXCEPT ![p] = Append(@, i)]
                           /\ pc' \in WakeProc(pc, p)
                   /\ owed' = [owed EXCEPT ![x] = @ + 2]
                   /\ UNCHANGED <<live, threads, async_todo, has_async, err, err2>>

(* BC_TRANSACTION to the node of p with TF_ONE_WAY. *)
CallOneWay(x, p) ==
    /\ MayWrite(x) /\ p # ProcOf[x]
    /\ \/ ~live[p] /\ Fail(x, Dead)
       \/ live[p] /\ Fail(x, Failed)         \* no memory, no buffer, a bad object
       \/ /\ live[p] /\ Len(todo[x]) < MaxWork
          /\ \E i \in Free :
               /\ tr' = [tr EXCEPT ![i] = [from |-> None, from_parent |-> None,
                                           to_thread |-> None, to_parent |-> None,
                                           one_way |-> TRUE, reply |-> FALSE, buffer |-> TRUE]]
               /\ buf' = [buf EXCEPT ![i] = [proc |-> p, transaction |-> TRUE, async |-> TRUE,
                                             allow_user_free |-> FALSE]]
               /\ IF has_async[p]
                  THEN /\ async_todo' = [async_todo EXCEPT ![p] = Append(@, i)]
                       /\ UNCHANGED <<proc_todo, has_async, pc>>
                  ELSE /\ has_async' = [has_async EXCEPT ![p] = TRUE]
                       /\ proc_todo' = [proc_todo EXCEPT ![p] = Append(@, i)]
                       /\ pc' \in WakeProc(pc, p)
                       /\ UNCHANGED async_todo
               /\ todo' = [todo EXCEPT ![x] = Append(@, Complete)]
               /\ owed' = [owed EXCEPT ![x] = @ + 1]
               /\ UNCHANGED <<live, threads, stack, err, err2>>

(* BC_REPLY to the call on top of x's stack.  The test of the caller's     *)
(* stack fails in no reachable state; when it does, the call is leaked.    *)
Reply(x) ==
    LET t == stack[x]
        popped == [State EXCEPT !.stack[x] = tr[t].to_parent]
        acknowledged == [popped EXCEPT !.err[x] = Complete]
        rest == <<live, threads, proc_todo, async_todo, has_async>>
        caller == tr[t].from
    IN
    /\ MayWrite(x)
    /\ \/ (t = None \/ BadStack(x)) /\ Fail(x, Failed)
       \/ /\ t # None /\ ~BadStack(x)
          /\ owed' = [owed EXCEPT ![x] = @ + 1]
          /\ \/ /\ caller = None
                /\ Becomes(SendFailedReply(acknowledged, t, Dead))
                /\ UNCHANGED <<rest, todo>>
             \/ /\ caller # None
                /\ IF stack[caller] # t
                   THEN Becomes([popped EXCEPT !.err[x] = Failed])
                   ELSE Becomes(SendFailedReply(acknowledged, t, Failed))
                /\ UNCHANGED <<rest, todo>>
             \/ /\ caller # None /\ stack[caller] = t /\ Len(todo[x]) < MaxWork
                /\ \E i \in Free \cup {j \in {t} : buf[j] = None} :
                     LET S == FreeTransactions(popped, {t})
                     IN  Becomes([S EXCEPT
                           !.stack[caller] = tr[t].from_parent,
                           !.tr[i] = [from |-> None, from_parent |-> None,
                                      to_thread |-> caller, to_parent |-> None,
                                      one_way |-> FALSE, reply |-> TRUE, buffer |-> TRUE],
                           !.buf[i] = [proc |-> ProcOf[caller], transaction |-> TRUE, async |-> FALSE,
                                       allow_user_free |-> FALSE],
                           !.pc = WakeThread(S.pc, caller)])
                         /\ todo' = [todo EXCEPT ![caller] = Append(@, i), ![x] = Append(@, Complete)]
                /\ UNCHANGED rest

(* Lets the next one-way call go and forgets that it is under way. *)
FreeBuffer_ClearFlag(x, i) ==
    LET p == ProcOf[x]
    IN
    /\ MayWrite(x)
    /\ buf[i] # None /\ buf[i].proc = p /\ buf[i].allow_user_free
    /\ tr' = IF buf[i].transaction THEN [tr EXCEPT ![i].buffer = FALSE] ELSE tr
    /\ buf' = [buf EXCEPT ![i] = None]
    /\ has_async' = [has_async EXCEPT ![p] = @ /\ ~buf[i].async]
    /\ IF buf[i].async /\ async_todo[p] # <<>>
       THEN /\ todo' = [todo EXCEPT ![x] = Append(@, Head(async_todo[p]))]
            /\ async_todo' = [async_todo EXCEPT ![p] = Tail(@)]
       ELSE UNCHANGED <<async_todo, todo>>
    /\ UNCHANGED <<live, threads, pc, stack, proc_todo, err, err2, owed>>

(* BC_FREE_BUFFER.  When the buffer is that of a one-way call, the next    *)
(* one-way call of the node is let go, to this thread.                     *)
FreeBuffer(x, i) ==
    LET p == ProcOf[x]
    IN
    /\ MayWrite(x)
    /\ buf[i] # None /\ buf[i].proc = p /\ buf[i].allow_user_free
    /\ tr' = IF buf[i].transaction THEN [tr EXCEPT ![i].buffer = FALSE] ELSE tr
    /\ buf' = [buf EXCEPT ![i] = None]
    /\ IF ~buf[i].async
       THEN UNCHANGED <<has_async, async_todo, todo>>
       ELSE IF async_todo[p] = <<>>
       THEN has_async' = [has_async EXCEPT ![p] = FALSE] /\ UNCHANGED <<async_todo, todo>>
       ELSE /\ todo' = [todo EXCEPT ![x] = Append(@, Head(async_todo[p]))]
            /\ async_todo' = [async_todo EXCEPT ![p] = Tail(@)]
            /\ UNCHANGED has_async
    /\ UNCHANGED <<live, threads, pc, stack, proc_todo, err, err2, owed>>

-----------------------------------------------------------------------------
(***************************************************************************)
(* binder_thread_read().  A read returns after one work; the ioctl then    *)
(* wakes one more thread when the process has work left.                   *)
(***************************************************************************)
Return(S, x, left) ==
    LET p == ProcOf[x]
        q == [S.pc EXCEPT ![x] = "user"]
    IN  \E r \in (IF left # <<>> THEN WakeProc(q, p) ELSE {q}) : Becomes([S EXCEPT !.pc = r])

(* The errors there are, the older first.  A buffer that ends behind the   *)
(* older one ends the read, and both stay: the older is returned again.    *)
ReturnErrors(x) ==
    /\ err[x] # Ok
    /\ \/ /\ Return([State EXCEPT !.err[x] = Ok, !.err2[x] = Ok], x, proc_todo[ProcOf[x]])
          /\ owed' = [owed EXCEPT ![x] = @ - (IF err2[x] # Ok THEN 2 ELSE 1)]
       \/ err2[x] # Ok /\ Return(State, x, proc_todo[ProcOf[x]]) /\ UNCHANGED owed
    /\ UNCHANGED <<live, threads, todo, proc_todo, async_todo, has_async>>

(* A read begins: it returns the errors, or waits for work, of the thread  *)
(* if it is in a call or has work, and else of the process.  It is on the  *)
(* wait queue before it tests for work, so that it may sleep in one step.  *)
Read(x) ==
    LET forProc == stack[x] = None /\ todo[x] = <<>>
    IN
    /\ x \in threads /\ pc[x] = "user"
    /\ \/ ReturnErrors(x)
       \/ /\ err[x] = Ok
          /\ pc' = [pc EXCEPT ![x] =
                      IF forProc THEN IF proc_todo[ProcOf[x]] = <<>> THEN "proc_sleep" ELSE "proc_wait"
                      ELSE IF todo[x] = <<>> THEN "thread_sleep" ELSE "thread_wait"]
          /\ UNCHANGED <<live, threads, stack, todo, proc_todo, async_todo, has_async, err, err2,
                         tr, buf, owed>>

(* Another thread took the work that x was woken for. *)
SleepAgain(x) ==
    /\ pc[x] = "proc_wait" /\ proc_todo[ProcOf[x]] = <<>>
    /\ pc' = [pc EXCEPT ![x] = "proc_sleep"]
    /\ UNCHANGED <<live, threads, stack, todo, proc_todo, async_todo, has_async, err, err2,
                   tr, buf, owed>>

(* Leaves the sender's choice of thread in to_thread. *)
Deliver_NoTarget(x, w) ==
    IF w = Complete THEN State
    ELSE IF tr[w].reply \/ tr[w].one_way
    THEN [FreeTransactions(State, {w}) EXCEPT !.buf[w].allow_user_free = TRUE]
    ELSE [State EXCEPT !.buf[w].allow_user_free = TRUE,
                       !.tr[w].to_parent = stack[x],
                       !.stack[x] = w]

(* One work is returned to x: what a call, a one-way call, a reply or an   *)
(* acknowledgement does to the state.                                      *)
Deliver(x, w) ==
    IF w = Complete THEN State
    ELSE IF tr[w].reply \/ tr[w].one_way
    THEN [FreeTransactions(State, {w}) EXCEPT !.buf[w].allow_user_free = TRUE]
    ELSE [State EXCEPT !.buf[w].allow_user_free = TRUE,
                       !.tr[w].to_parent = stack[x], !.tr[w].to_thread = x,
                       !.stack[x] = w]

ReadWork(x) ==
    LET p == ProcOf[x]
        returned(w) == IF w = Complete \/ tr[w].reply THEN 1 ELSE 0
    IN
    /\ pc[x] \in {"thread_wait", "proc_wait"}
    /\ \/ /\ todo[x] # <<>>
          /\ Return(Deliver(x, Head(todo[x])), x, proc_todo[p])
          /\ todo' = [todo EXCEPT ![x] = Tail(@)]
          /\ owed' = [owed EXCEPT ![x] = @ - returned(Head(todo[x]))]
          /\ UNCHANGED proc_todo
       \/ /\ todo[x] = <<>> /\ pc[x] = "proc_wait" /\ proc_todo[p] # <<>>
          /\ Return(Deliver(x, Head(proc_todo[p])), x, Tail(proc_todo[p]))
          /\ proc_todo' = [proc_todo EXCEPT ![p] = Tail(@)]
          /\ UNCHANGED <<todo, owed>>
    /\ UNCHANGED <<live, threads, async_todo, has_async>>

(* No work for a thread that was woken for an error: the read retries. *)
ReadRetry(x) == pc[x] = "thread_wait" /\ todo[x] = <<>> /\ ReturnErrors(x)

(* A signal, a flush (BINDER_LOOPER_STATE_NEED_RETURN) or O_NONBLOCK ends  *)
(* the read.                                                               *)
Interrupted(x) ==
    /\ pc[x] \in Waiting
    /\ Return(State, x, proc_todo[ProcOf[x]])
    /\ UNCHANGED <<live, threads, todo, proc_todo, async_todo, has_async, owed>>

-----------------------------------------------------------------------------
(* BINDER_THREAD_EXIT. *)
ThreadExit(x) ==
    /\ x \in threads /\ pc[x] = "user"
    /\ Becomes(FreeThread(State, x))
    /\ threads' = threads \ {x}
    /\ todo' = [todo EXCEPT ![x] = <<>>]
    /\ owed' = [owed EXCEPT ![x] = 0]
    /\ UNCHANGED <<live, proc_todo, async_todo, has_async>>

(* binder_get_thread(): the first ioctl of a thread. *)
GetThread(x) ==
    /\ x \notin threads /\ live[ProcOf[x]]
    /\ threads' = threads \cup {x}
    /\ UNCHANGED <<live, pc, stack, todo, proc_todo, async_todo, has_async, err, err2, tr, buf, owed>>

(* binder_deferred_release(), once no thread of the process is in an       *)
(* ioctl: frees its threads in the order of their pids, its work and its   *)
(* buffers.  The one-way calls that its node kept back are leaked with it. *)
DeferredRelease(p) ==
    LET own == ThreadsOf(p)
        kept == ToSet(async_todo[p])
    IN
    /\ live[p] /\ \A x \in own : pc[x] = "user"
    /\ live' = [live EXCEPT ![p] = FALSE]
    /\ threads' = threads \ own
    /\ \E order \in SetToSeqs(own) :
         LET R == ReleaseWork(FreeThreads(State, order), proc_todo[p])
             mine(i) == R.buf[i] # None /\ R.buf[i].proc = p
         IN  Becomes([R EXCEPT
               !.tr = [i \in Id |-> IF i \in kept THEN None
                                    ELSE IF mine(i) /\ R.buf[i].transaction
                                    THEN [R.tr[i] EXCEPT !.buffer = FALSE]
                                    ELSE R.tr[i]],
               !.buf = [i \in Id |-> IF mine(i) THEN None ELSE R.buf[i]]])
    /\ todo' = [x \in Thread |-> IF x \in own THEN <<>> ELSE todo[x]]
    /\ owed' = [x \in Thread |-> IF x \in own THEN 0 ELSE owed[x]]
    /\ proc_todo' = [proc_todo EXCEPT ![p] = <<>>]
    /\ async_todo' = [async_todo EXCEPT ![p] = <<>>]
    /\ has_async' = [has_async EXCEPT ![p] = FALSE]

Next ==
    \/ \E x \in Thread, p \in Proc : Call(x, p) \/ CallOneWay(x, p)
    \/ \E x \in Thread, i \in Id : FreeBuffer(x, i)
    \/ \E x \in Thread :
         \/ Reply(x)
         \/ Read(x) \/ SleepAgain(x) \/ ReadWork(x) \/ ReadRetry(x) \/ Interrupted(x)
         \/ ThreadExit(x) \/ GetThread(x)
    \/ \E p \in Proc : DeferredRelease(p)

Spec == Init /\ [][Next]_vars

-----------------------------------------------------------------------------
Pending(i) == tr[i] # None /\ ~tr[i].reply /\ ~tr[i].one_way

Queued(i) == \/ \E x \in threads : i \in ToSet(todo[x])
             \/ \E p \in Proc : live[p] /\ i \in ToSet(proc_todo[p])

Returned(T, w) == w = Complete \/ (w # Complete /\ T[w].reply)

(***************************************************************************)
(* What a thread is owed is on its way: a transaction that still has it    *)
(* as sender, a reply or an acknowledgement in its todo, or an error to    *)
(* return.  So no command is left without its acknowledgement and no call  *)
(* without its answer, a reply or an error, whoever dies or fails in       *)
(* between, and none gets a second one.  Only the older of two errors may  *)
(* be read more than once, until a buffer has room for both: it is owed    *)
(* until it is cleared.                                                    *)
(***************************************************************************)
AnswersBalance ==
    \A x \in threads :
        owed[x] = Cardinality({i \in Id : Pending(i) /\ tr[i].from = x})
                  + Cardinality({k \in DOMAIN todo[x] : Returned(tr, todo[x][k])})
                  + (IF err[x] # Ok THEN 1 ELSE 0) + (IF err2[x] # Ok THEN 1 ELSE 0)

(***************************************************************************)
(* A caller that waits is waiting for someone: its call is queued, or is   *)
(* handled by a thread that lives, or what is left of it hangs on such a   *)
(* call through transactions whose senders are gone.                       *)
(***************************************************************************)
CallNotForgotten ==
    LET held(j) == Queued(j) \/ tr[j].to_thread \in threads
        below(j) == LET C == FromChain(tr, j) IN {C[k] : k \in 0 .. Senderless(tr, j)}
    IN  \A i \in Id : Pending(i) /\ tr[i].from # None =>
            \E j \in Id : Pending(j) /\ held(j) /\ i \in below(j)

(***************************************************************************)
(* BUG_ON() of binder_pop_transaction() and BUG() of binder_free_thread(). *)
(* Whoever answers a call, the thread that handles it or the one that      *)
(* releases the list it is queued on, finds it on top of the stack of the  *)
(* sender it must tell; and everything on a stack is the thread's own.     *)
(***************************************************************************)
StackDiscipline ==
    LET top(y, t, w) == IF w = y THEN tr[t].to_parent ELSE stack[w]
        ok(y, t) == LET u == FromChain(tr, t)[Senderless(tr, t)]
                    IN  u # None => tr[u].from \in threads /\ top(y, t, tr[u].from) = u
    IN  /\ \A y \in threads : stack[y] # None /\ tr[stack[y]].to_thread = y => ok(y, stack[y])
        /\ \A i \in Id : Pending(i) /\ Queued(i) => tr[i].buffer /\ ok(None, i)
        /\ \A y \in threads : \A i \in StackFrom(tr, y, stack[y]) :
               Pending(i) /\ y \in {tr[i].from, tr[i].to_thread}

(***************************************************************************)
(* No thread sleeps beside its work: one that waits for a reply has        *)
(* neither work nor an error, and when the process has work and a thread   *)
(* that sleeps, another has been woken.                                    *)
(***************************************************************************)
NoLostWakeup ==
    \A x \in threads :
        /\ pc[x] = "thread_sleep" => todo[x] = <<>> /\ err[x] = Ok
        /\ pc[x] = "proc_sleep" =>
             /\ todo[x] = <<>> /\ stack[x] = None
             /\ proc_todo[ProcOf[x]] # <<>> => \E y \in ThreadsOf(ProcOf[x]) : pc[y] = "proc_wait"

(***************************************************************************)
(* The one-way calls of a node are handled one at a time: until the buffer *)
(* of one is freed the others are kept back, and none is kept back when    *)
(* there is nothing to wait for.                                           *)
(***************************************************************************)
AsyncOneAtATime ==
    \A p \in Proc :
        Cardinality({i \in Id : buf[i] # None /\ buf[i].async /\ buf[i].proc = p
                                /\ i \notin ToSet(async_todo[p])})
        = (IF has_async[p] THEN 1 ELSE 0)
        /\ (async_todo[p] # <<>> => has_async[p])
=============================================================================
