-------------------------- MODULE SemaphoreProofs --------------------------
(***************************************************************************)
(* Proofs about Semaphore, for every finite set of tasks, every initial    *)
(* count and every bound on it.  SemInv is the inductive invariant: the    *)
(* wait list is exact, and a unit is never left in count while the list    *)
(* has a waiter.  Conservation of the units, the order in which they are   *)
(* handed out and the wakeups all rest on it.                              *)
(***************************************************************************)
EXTENDS Semaphore, KListProofs, FiniteSetTheorems, TLAPS

SemInv == TypeOK /\ ListExact /\ NoIdleToken

LEMMA SemInit == Init => SemInv
BY SemAssumption
   DEF Init, SemInv, TypeOK, ListExact, NoIdleToken, OnList, NoDup, Modes

LEMMA SemNext == SemInv /\ [Next]_vars => SemInv'
<1> SUFFICES ASSUME SemInv, [Next]_vars PROVE SemInv'
    OBVIOUS
<1>0. /\ wait_list \in Seq(Task) /\ NoDup(wait_list)
      /\ \A t \in Task : OnList(wait_list, t) <=> pc[t] = "sleep" /\ ~got_up[t]
    BY DEF SemInv, TypeOK, ListExact
<1> USE SemAssumption DEF SemInv, TypeOK, ListExact, NoIdleToken, Modes
<1>1. ASSUME take PROVE SemInv'
    BY <1>1 DEF take
<1>2. ASSUME NEW t \in Task, NEW m \in Modes, NEW limit \in {"max", "left", "zero"},
             pc[t] = "idle", down_common(t, m, limit)
      PROVE  SemInv'
    <2>1. /\ Append(wait_list, t) \in Seq(Task)
          /\ NoDup(Append(wait_list, t))
          /\ \A u \in Task : OnList(Append(wait_list, t), u)
                                <=> OnList(wait_list, u) \/ u = t
        BY <1>0, <1>2, AppendList
    <2>2. CASE UNCHANGED <<wait_list, got_up, mode, timeout, state, pc>>
        BY <1>2, <2>2 DEF down_common
    <2>3. CASE /\ wait_list' = Append(wait_list, t)
               /\ got_up' = [got_up EXCEPT ![t] = FALSE]
               /\ mode' = [mode EXCEPT ![t] = m]
               /\ timeout' = [timeout EXCEPT ![t] = limit]
               /\ state' = [state EXCEPT ![t] = "SLEEPING"]
               /\ pc' = [pc EXCEPT ![t] = "sleep"]
        <3>1. UNCHANGED <<count, sig, owed>> /\ count = 0
            BY <1>2 DEF down_common
        <3>2. ListExact'
            BY <1>0, <1>2, <2>1, <2>3
        <3>3. TypeOK'
            BY <1>2, <2>1, <2>3, <3>1
        <3> QED
            BY <3>1, <3>2, <3>3
    <2> QED
        BY <1>2, <2>2, <2>3 DEF down_common
<1>3. ASSUME NEW t \in Task, resume(t) PROVE SemInv'
    <2>1. pc[t] = "sleep" /\ ~got_up[t] =>
             /\ list_del(wait_list, t) \in Seq(Task)
             /\ NoDup(list_del(wait_list, t))
             /\ \A u \in Task : OnList(list_del(wait_list, t), u)
                                   <=> OnList(wait_list, u) /\ u # t
             /\ wait_list # <<>>
        BY <1>0, DelList, OnType
    <2> QED
        BY <1>0, <1>3, <2>1 DEF resume
<1>4. ASSUME up PROVE SemInv'
    <2>1. CASE wait_list = <<>>
        BY <1>4, <2>1 DEF up
    <2>2. CASE wait_list # <<>>
        <3>1. /\ Head(wait_list) \in Task /\ OnList(wait_list, Head(wait_list))
              /\ Tail(wait_list) \in Seq(Task) /\ NoDup(Tail(wait_list))
              /\ \A u \in Task : OnList(Tail(wait_list), u)
                                    <=> OnList(wait_list, u) /\ u # Head(wait_list)
            BY <1>0, <2>2, HeadOn, TailList
        <3>2. /\ wait_list' = Tail(wait_list)
              /\ got_up' = [got_up EXCEPT ![Head(wait_list)] = TRUE]
              /\ state' = [state EXCEPT ![Head(wait_list)] = "RUNNING"]
              /\ owed' = owed - 1
              /\ UNCHANGED <<count, mode, timeout, sig, pc>>
            BY <1>4, <2>2 DEF up, up_waiter
        <3>3. got_up' \in [Task -> BOOLEAN] /\ state' \in [Task -> {"RUNNING", "SLEEPING"}]
            BY <3>1, <3>2
        <3>4. TypeOK'
            BY <3>1, <3>2, <3>3
        <3>5. ListExact'
            BY <1>0, <3>1, <3>2
        <3> QED
            BY <2>2, <3>2, <3>4, <3>5
    <2> QED
        BY <2>1, <2>2
<1>5. ASSUME NEW t \in Task, expire(t) PROVE SemInv'
    BY <1>5 DEF expire
<1>6. ASSUME NEW t \in Task,
             signal(t) \/ handle_signal(t) \/ spurious_wakeup(t)
      PROVE  SemInv'
    BY <1>6 DEF signal, handle_signal, spurious_wakeup
<1>7. CASE UNCHANGED vars
    BY <1>7 DEF vars
<1> QED
    BY <1>1, <1>2, <1>3, <1>4, <1>5, <1>6, <1>7
       DEF Next, down_trylock, down, down_interruptible, down_killable,
           down_timeout

\* Every state of the semaphore has its type; in particular count, an
\* unsigned int in the code, is never decremented below zero
\* (kernel/semaphore.c:53-188).
THEOREM SemaphoreTypeOK == Spec => []TypeOK
<1>1. SemInv => TypeOK
    BY DEF SemInv
<1> QED
    BY SemInit, SemNext, <1>1, PTL DEF Spec

\* The wait list holds exactly the sleepers that were not handed the
\* semaphore, once each (kernel/semaphore.c:204-263).
THEOREM SemaphoreListExact == Spec => []ListExact
<1>1. SemInv => ListExact
    BY DEF SemInv
<1> QED
    BY SemInit, SemNext, <1>1, PTL DEF Spec

\* Nobody waits while count is positive (kernel/semaphore.c:178-188).
THEOREM SemaphoreNoIdleToken == Spec => []NoIdleToken
<1>1. SemInv => NoIdleToken
    BY DEF SemInv
<1> QED
    BY SemInit, SemNext, <1>1, PTL DEF Spec

-----------------------------------------------------------------------------
(***************************************************************************)
(* What a step does to the waiters that have been handed the semaphore.    *)
(***************************************************************************)
LEMMA GrantedFinite == IsFiniteSet(Granted) /\ Cardinality(Granted) \in Nat
BY SemAssumption, FS_Subset, FS_CardinalityType DEF Granted

LEMMA GrantedStep ==
    ASSUME SemInv, [Next]_vars
    PROVE  \/ \* down() without waiting, or down_trylock()
              /\ Granted' = Granted /\ count' = count - 1 /\ owed' = owed + 1
              /\ count > 0
           \/ \* up() without waiters
              /\ Granted' = Granted /\ count' = count + 1 /\ owed' = owed - 1
           \/ \* up() with a waiter
              /\ wait_list # <<>> /\ Head(wait_list) \in Task \ Granted
              /\ Granted' = Granted \cup {Head(wait_list)}
              /\ count' = count /\ owed' = owed - 1
           \/ \* a waiter returns 0
              \E t \in Granted : /\ Granted' = Granted \ {t}
                                 /\ count' = count /\ owed' = owed + 1
           \/ Granted' = Granted /\ count' = count /\ owed' = owed
<1>0. /\ wait_list \in Seq(Task)
      /\ \A t \in Task : OnList(wait_list, t) <=> pc[t] = "sleep" /\ ~got_up[t]
      /\ count \in Nat /\ owed \in Int
      /\ got_up \in [Task -> BOOLEAN] /\ pc \in [Task -> {"idle", "sleep"}]
    BY DEF SemInv, TypeOK, ListExact
<1>1. CASE take
    BY <1>0, <1>1 DEF take, Granted
<1>2. CASE up /\ wait_list = <<>>
    BY <1>0, <1>2 DEF up, Granted
<1>3. CASE up /\ wait_list # <<>>
    <2>1. /\ Head(wait_list) \in Task
          /\ pc[Head(wait_list)] = "sleep" /\ ~got_up[Head(wait_list)]
        BY <1>0, <1>3, HeadOn
    <2>2. /\ got_up' = [got_up EXCEPT ![Head(wait_list)] = TRUE]
          /\ owed' = owed - 1 /\ UNCHANGED <<count, pc>>
        BY <1>3 DEF up, up_waiter
    <2>3. Granted' = Granted \cup {Head(wait_list)}
        BY <1>0, <2>1, <2>2 DEF Granted
    <2> QED
        BY <1>3, <2>1, <2>2, <2>3 DEF Granted
<1>4. ASSUME NEW t \in Task, NEW m, NEW limit,
             pc[t] = "idle", down_common(t, m, limit)
      PROVE  Granted' = Granted /\ count' = count /\ owed' = owed
    BY <1>0, <1>4 DEF down_common, Granted
<1>5. ASSUME NEW t \in Task, resume(t), got_up[t]
      PROVE  /\ t \in Granted /\ Granted' = Granted \ {t}
             /\ count' = count /\ owed' = owed + 1
    BY <1>0, <1>5 DEF resume, Granted
<1>6. ASSUME NEW t \in Task, resume(t), ~got_up[t]
      PROVE  Granted' = Granted /\ count' = count /\ owed' = owed
    BY <1>0, <1>6 DEF resume, Granted
<1>7. ASSUME NEW t \in Task,
             \/ expire(t) \/ signal(t) \/ handle_signal(t)
             \/ spurious_wakeup(t)
      PROVE  Granted' = Granted /\ count' = count /\ owed' = owed
    BY <1>7 DEF expire, signal, handle_signal, spurious_wakeup, Granted
<1>8. UNCHANGED vars => Granted' = Granted /\ count' = count /\ owed' = owed
    BY DEF vars, Granted
<1> QED
    BY <1>1, <1>2, <1>3, <1>4, <1>5, <1>6, <1>7, <1>8
       DEF Next, down_trylock, down, down_interruptible, down_killable,
           down_timeout

LEMMA TokensNext == SemInv /\ TokensConserved /\ [Next]_vars => TokensConserved'
<1> SUFFICES ASSUME SemInv, TokensConserved, [Next]_vars PROVE TokensConserved'
    OBVIOUS
<1>0. /\ count \in Nat /\ owed \in Int
      /\ count + Cardinality(Granted) + owed = InitCount
      /\ IsFiniteSet(Granted) /\ Cardinality(Granted) \in Nat
    BY GrantedFinite DEF SemInv, TypeOK, TokensConserved
<1>1. SUFFICES count' + Cardinality(Granted') + owed' = InitCount
    BY DEF TokensConserved
<1>2. ASSUME NEW t, t \notin Granted, Granted' = Granted \cup {t}
      PROVE  Cardinality(Granted') = Cardinality(Granted) + 1
    BY <1>0, <1>2, FS_AddElement
<1>3. ASSUME NEW t \in Granted, Granted' = Granted \ {t}
      PROVE  Cardinality(Granted') = Cardinality(Granted) - 1
    BY <1>0, <1>3, FS_RemoveElement
<1>4. CASE Granted' = Granted
    BY <1>0, <1>4, GrantedStep, <1>2, <1>3
<1>5. CASE /\ wait_list # <<>> /\ Head(wait_list) \in Task \ Granted
           /\ Granted' = Granted \cup {Head(wait_list)}
           /\ count' = count /\ owed' = owed - 1
    <2>1. Cardinality(Granted') = Cardinality(Granted) + 1
        BY <1>2, <1>5
    <2>2. count' = count /\ owed' = owed - 1
        BY <1>5
    <2> QED
        BY <1>0, <2>1, <2>2
<1>6. CASE \E t \in Granted : /\ Granted' = Granted \ {t}
                              /\ count' = count /\ owed' = owed + 1
    <2>1. Cardinality(Granted') = Cardinality(Granted) - 1
        BY <1>3, <1>6
    <2>2. count' = count /\ owed' = owed + 1
        BY <1>6
    <2> QED
        BY <1>0, <2>1, <2>2
<1> QED
    BY GrantedStep, <1>4, <1>5, <1>6

\* No unit of the semaphore is lost or made up, whatever up(), signals and
\* timeouts do to the same sleeper (kernel/semaphore.c:204-263).
THEOREM SemaphoreTokens == Spec => []TokensConserved
<1>1. Init => TokensConserved
    <2> SUFFICES ASSUME Init PROVE TokensConserved
        OBVIOUS
    <2>1. Granted = {}
        BY DEF Init, Granted
    <2> QED
        BY <2>1, FS_EmptySet, SemAssumption DEF Init, TokensConserved
<1> QED
    BY SemInit, SemNext, TokensNext, <1>1, PTL DEF Spec

\* Units are handed to the waiters in the order of their arrival, and nobody
\* overtakes them (kernel/semaphore.c:53-188, 210, 256-263).
THEOREM SemaphoreFifo == Spec => Fifo
<1>1. ASSUME SemInv, [Next]_vars
      PROVE  /\ count' < count => wait_list = <<>>
             /\ \A t \in Task : t \in Granted' \ Granted => t = Head(wait_list)
    <2>1. count \in Nat /\ (count > 0 => wait_list = <<>>)
        BY <1>1 DEF SemInv, TypeOK, NoIdleToken
    <2> QED
        BY <1>1, <2>1, GrantedStep
<1>2. SemInv /\ [Next]_vars =>
        [/\ count' < count => wait_list = <<>>
         /\ \A t \in Task : t \in Granted' \ Granted => t = Head(wait_list)]_vars
    BY <1>1
<1> QED
    BY SemInit, SemNext, <1>2, PTL DEF Spec, Fifo

-----------------------------------------------------------------------------
LEMMA WakeupNext == SemInv /\ NoLostWakeup /\ [Next]_vars => NoLostWakeup'
<1> SUFFICES ASSUME SemInv, NoLostWakeup, [Next]_vars PROVE NoLostWakeup'
    OBVIOUS
<1>0. /\ got_up \in [Task -> BOOLEAN] /\ mode \in [Task -> Modes]
      /\ timeout \in [Task -> {"max", "left", "zero"}]
      /\ state \in [Task -> {"RUNNING", "SLEEPING"}]
      /\ sig \in [Task -> {"none", "signal", "fatal"}]
      /\ pc \in [Task -> {"idle", "sleep"}]
      /\ wait_list \in Seq(Task)
    BY DEF SemInv, TypeOK
<1> USE <1>0 DEF NoLostWakeup
<1>1. CASE take
    BY <1>1 DEF take
<1>2. CASE up
    BY <1>2, HeadOn DEF up, up_waiter
<1>3. ASSUME NEW t \in Task, NEW m, NEW limit, down_common(t, m, limit)
      PROVE  NoLostWakeup'
    BY <1>3 DEF down_common
<1>4. ASSUME NEW t \in Task, resume(t) PROVE NoLostWakeup'
    BY <1>4 DEF resume, gives_up
<1>5. ASSUME NEW t \in Task, expire(t) \/ spurious_wakeup(t) PROVE NoLostWakeup'
    BY <1>5 DEF expire, spurious_wakeup
<1>6. ASSUME NEW t \in Task, signal(t) \/ handle_signal(t) PROVE NoLostWakeup'
    BY <1>6 DEF signal, handle_signal
<1>7. CASE UNCHANGED vars
    BY <1>7 DEF vars
<1> QED
    BY <1>1, <1>2, <1>3, <1>4, <1>5, <1>6, <1>7
       DEF Next, down_trylock, down, down_interruptible, down_killable,
           down_timeout

\* Nobody sleeps on after up(), the end of its timeout or a signal that its
\* kind of sleep answers to (kernel/semaphore.c:214-234).
THEOREM SemaphoreNoLostWakeup == Spec => []NoLostWakeup
<1>1. Init => NoLostWakeup
    BY DEF Init, NoLostWakeup
<1> QED
    BY SemInit, SemNext, WakeupNext, <1>1, PTL DEF Spec
=============================================================================
