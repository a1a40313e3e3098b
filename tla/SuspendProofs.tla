--------------------------- MODULE SuspendProofs ---------------------------
(***************************************************************************)
(* Proofs about the wake locks and early suspend, for every set of locks,  *)
(* handlers and requesters, every timeout and every level.                 *)
(***************************************************************************)
EXTENDS EarlySuspend, KListProofs, FiniteSetTheorems

-----------------------------------------------------------------------------
(***************************************************************************)
(* Lists and sets of numbers.                                              *)
(***************************************************************************)

\* The set that the proofs speak of is the one of the lemmas on lists.
LEMMA ToSetOnList ==
    ASSUME NEW s, NEW y
    PROVE  y \in ToSet(s) <=> OnList(s, y)
BY DEF ToSet, OnList

\* list_add_tail() puts a lock on the list.
LEMMA AddTailSet ==
    ASSUME NEW V, NEW s \in Seq(V), NEW x \in V
    PROVE  Append(s, x) \in Seq(V) /\ ToSet(Append(s, x)) = ToSet(s) \cup {x}
<1>1. \A y : y \in ToSet(Append(s, x)) <=> y \in ToSet(s) \cup {x}
    BY AppendList, ToSetOnList
<1> QED
    BY <1>1, AppendList

\* So does list_add(), at the head.
LEMMA AddHeadSet ==
    ASSUME NEW V, NEW s \in Seq(V), NEW x \in V
    PROVE  <<x>> \o s \in Seq(V) /\ ToSet(<<x>> \o s) = ToSet(s) \cup {x}
<1>1. \A y : y \in ToSet(<<x>> \o s) <=> y \in ToSet(s) \cup {x}
    BY HeadList, ToSetOnList
<1> QED
    BY <1>1, HeadList

\* list_del() of the nodes of S.
LEMMA DelAllSet ==
    ASSUME NEW V, NEW s \in Seq(V), NEW S
    PROVE  /\ list_del_all(s, S) \in Seq(V)
           /\ ToSet(list_del_all(s, S)) = ToSet(s) \ S
<1>1. \A y : y \in ToSet(list_del_all(s, S)) <=> y \in ToSet(s) \ S
    BY DelAllList, ToSetOnList
<1> QED
    BY <1>1, DelAllList

\* The members of a list of V are members of V.
LEMMA SetType ==
    ASSUME NEW V, NEW s \in Seq(V)
    PROVE  ToSet(s) \subseteq V
BY DEF ToSet

\* Max is the maximum of a set of bounded numbers that is not empty.
LEMMA MaxIsMax ==
    ASSUME NEW n \in Nat, NEW S \in SUBSET (0 .. n), S # {}
    PROVE  Max(S) \in S /\ \A y \in S : y <= Max(S)
<1> DEFINE T == {m \in Nat : \A y \in S : y <= m}
<1>1. n \in T
    OBVIOUS
<1>2. PICK m \in T : \A y \in T : m <= y
    <2>1. T \in SUBSET Nat /\ T # {}
        BY <1>1
    <2> HIDE DEF T
    <2> QED
        BY <2>1, Least
<1>3. m \in S
    <2>1. SUFFICES ASSUME m \notin S PROVE FALSE
        OBVIOUS
    <2>2. PICK y \in S : TRUE
        OBVIOUS
    <2>3. m # 0
        BY <2>1, <2>2
    <2>4. m - 1 \in T
        BY <2>1, <2>3
    <2> QED
        BY <2>4, <1>2
<1> QED
    BY <1>3 DEF Max

-----------------------------------------------------------------------------
(***************************************************************************)
(* The operators of WakeLock.                                              *)
(***************************************************************************)

\* The fields of the record, one by one.
LEMMA WLFields ==
    ASSUME NEW w \in WLType
    PROVE  /\ w.active \in Seq(Lock) /\ ToSet(w.active) \subseteq Lock
           /\ w.timed \subseteq Lock
           /\ w.left \in [Lock -> 0 .. MaxTimeout]
           /\ w.timer \in Off .. MaxTimeout
           /\ w.event \in BOOLEAN
           /\ w.queue \in Seq({"suspend"} \cup Work)
BY SetType DEF WLType

\* queue_work() puts the work on the queue, if it is not there already, and
\* does nothing else.
LEMMA QueueWork ==
    ASSUME NEW w \in WLType, NEW work \in {"suspend"} \cup Work
    PROVE  LET v == queue_work(w, work)
           IN  /\ v \in WLType
               /\ v.active = w.active /\ v.timed = w.timed /\ v.left = w.left
               /\ v.timer = w.timer /\ v.event = w.event
               /\ ToSet(v.queue) = ToSet(w.queue) \cup {work}
<1>1. CASE work \in ToSet(w.queue)
    BY <1>1 DEF queue_work
<1>2. CASE work \notin ToSet(w.queue)
    <2>1. queue_work(w, work) = [w EXCEPT !.queue = Append(w.queue, work)]
        BY <1>2 DEF queue_work
    <2>2. /\ Append(w.queue, work) \in Seq({"suspend"} \cup Work)
          /\ ToSet(Append(w.queue, work)) = ToSet(w.queue) \cup {work}
        <3> DEFINE Q == {"suspend"} \cup Work
        <3>1. w.queue \in Seq(Q) /\ work \in Q
            BY WLFields
        <3> HIDE DEF Q
        <3>2. /\ Append(w.queue, work) \in Seq(Q)
              /\ ToSet(Append(w.queue, work)) = ToSet(w.queue) \cup {work}
            BY <3>1, AddTailSet
        <3> QED
            BY <3>2 DEF Q
    <2> QED
        BY <2>1, <2>2 DEF WLType
<1> QED
    BY <1>1, <1>2

\* Locks that are deactivated leave the list; the others keep what they have.
LEMMA Deactivate ==
    ASSUME NEW w \in WLType, NEW S
    PROVE  LET v == deactivate(w, S)
           IN  /\ v \in WLType
               /\ ToSet(v.active) = ToSet(w.active) \ S
               /\ v.timed = w.timed \ S
               /\ \A l \in Lock : v.left[l] = IF l \in S THEN 0 ELSE w.left[l]
               /\ v.timer = w.timer /\ v.event = w.event /\ v.queue = w.queue
<1> DEFINE a == list_del_all(w.active, S)
<1>1. a \in Seq(Lock) /\ ToSet(a) = ToSet(w.active) \ S
    BY DelAllSet, WLFields
<1> HIDE DEF a
<1> DEFINE f == [l \in Lock |-> IF l \in S THEN 0 ELSE w.left[l]]
<1>2. deactivate(w, S) = [w EXCEPT !.active = a, !.timed = w.timed \ S, !.left = f]
    BY DEF deactivate, a
<1>3. /\ f \in [Lock -> 0 .. MaxTimeout]
      /\ \A l \in Lock : f[l] = IF l \in S THEN 0 ELSE w.left[l]
    BY WLFields, LockAssumption
<1> HIDE DEF f
<1>4. w.timed \ S \in SUBSET Lock
    BY WLFields
<1>5. deactivate(w, S) \in WLType
    BY <1>1, <1>2, <1>3, <1>4 DEF WLType
<1>6. LET v == deactivate(w, S)
      IN  /\ v.active = a /\ v.timed = w.timed \ S /\ v.left = f
          /\ v.timer = w.timer /\ v.event = w.event /\ v.queue = w.queue
    BY <1>2 DEF WLType
<1> QED
    BY <1>1, <1>3, <1>5, <1>6

\* The active locks without a timeout.
Untimed(w) == ToSet(w.active) \ w.timed

\* While only locks with a timeout are active, the timer runs at least as
\* long as each of them.
Cover(w) ==
    AllTimed(w) => \A l \in ToSet(w.active) : w.left[l] > 0 => w.left[l] <= w.timer

\* While only locks with a timeout are active, suspend_work is queued, the
\* timer is pending, or its callback is about to run.
Sched(w, c) ==
    AllTimed(w) => "suspend" \in ToSet(w.queue) \/ w.timer # Off \/ c

\* The locks before the first one without a timeout are active and have one.
LEMMA AheadTimed ==
    ASSUME NEW w \in WLType, NEW l \in TimedAhead(w)
    PROVE  l \in w.timed /\ l \in ToSet(w.active) /\ l \in Lock
<1>1. PICK i \in DOMAIN w.active :
         w.active[i] = l /\ \A j \in 1 .. i : w.active[j] \in w.timed
    BY DEF TimedAhead
<1>2. i \in 1 .. i
    BY WLFields
<1>3. l \in w.timed /\ l \in ToSet(w.active)
    BY <1>1, <1>2 DEF ToSet
<1> QED
    BY <1>3, WLFields

\* has_wake_lock_locked() takes locks off the list whose time is over, and
\* only those.
LEMMA Scan ==
    ASSUME NEW w \in WLType
    PROVE  LET v == has_wake_lock_locked(w)
           IN  /\ v \in WLType
               /\ ToSet(v.active) \subseteq ToSet(w.active)
               /\ v.timed \subseteq w.timed
               /\ Untimed(v) = Untimed(w)
               /\ AllTimed(v) <=> AllTimed(w)
               /\ \A l \in Lock : v.left[l] = w.left[l]
               /\ v.timer = w.timer /\ v.event = w.event /\ v.queue = w.queue
<1> DEFINE S == {l \in TimedAhead(w) : w.left[l] = 0}
           v == deactivate(w, S)
<1>1. \A l \in S : l \in w.timed /\ l \in Lock /\ w.left[l] = 0
    BY AheadTimed
<1> HIDE DEF S
<1>2. /\ v \in WLType
      /\ ToSet(v.active) = ToSet(w.active) \ S
      /\ v.timed = w.timed \ S
      /\ \A l \in Lock : v.left[l] = IF l \in S THEN 0 ELSE w.left[l]
      /\ v.timer = w.timer /\ v.event = w.event /\ v.queue = w.queue
    BY Deactivate
<1> HIDE DEF v
<1>3. Untimed(v) = Untimed(w)
    BY <1>1, <1>2 DEF Untimed
<1>4. AllTimed(v) <=> AllTimed(w)
    BY <1>3 DEF Untimed, AllTimed
<1>5. \A l \in Lock : v.left[l] = w.left[l]
    BY <1>1, <1>2
<1>6. has_wake_lock_locked(w) = v
    BY DEF has_wake_lock_locked, v, S
<1> QED
    BY <1>2, <1>3, <1>4, <1>5, <1>6

\* What has_wake_lock_locked() returns: -1 when a lock without a timeout is
\* active, otherwise the longest time that an active lock has left.
LEMMA ScanRet ==
    ASSUME NEW w \in WLType
    PROVE  LET r == has_wake_lock_locked_ret(w)
           IN  /\ r \in -1 .. MaxTimeout
               /\ ~AllTimed(w) => r = -1
               /\ AllTimed(w) => /\ r >= 0
                                 /\ \A l \in ToSet(w.active) : w.left[l] <= r
                                 /\ r > 0 => \E l \in ToSet(w.active) : w.left[l] = r
<1> DEFINE S == {w.left[l] : l \in ToSet(w.active)} \cup {0}
<1>1. MaxTimeout \in Nat
    BY LockAssumption
<1>2. S \in SUBSET (0 .. MaxTimeout) /\ S # {}
    BY <1>1, WLFields
<1>3. has_wake_lock_locked_ret(w) = IF AllTimed(w) THEN Max(S) ELSE -1
    BY DEF has_wake_lock_locked_ret
<1>4. Max(S) \in S /\ \A y \in S : y <= Max(S)
    <2> HIDE DEF S
    <2> QED
        BY <1>1, <1>2, MaxIsMax
<1> DEFINE m == Max(S)
<1> HIDE DEF m
<1>5. m \in S /\ m \in 0 .. MaxTimeout /\ \A y \in S : y <= m
    BY <1>2, <1>4 DEF m
<1>6. \A l \in ToSet(w.active) : w.left[l] <= m
    BY <1>5
<1>7. m > 0 => \E l \in ToSet(w.active) : w.left[l] = m
    BY <1>5
<1>8. has_wake_lock_locked_ret(w) = IF AllTimed(w) THEN m ELSE -1
    BY <1>3 DEF m
<1> QED
    BY <1>1, <1>5, <1>6, <1>7, <1>8

\* The end of wake_lock_internal() and of wake_unlock(): whatever was there
\* before, the timer covers the locks and a suspend is on its way.
LEMMA ScanRearm ==
    ASSUME NEW w \in WLType
    PROVE  LET v == rearm(has_wake_lock_locked(w), has_wake_lock_locked_ret(w))
           IN  /\ v \in WLType
               /\ Untimed(v) = Untimed(w)
               /\ v.timed \subseteq w.timed
               /\ v.event = w.event
               /\ Cover(v)
               /\ Sched(v, FALSE)
<1> DEFINE u == has_wake_lock_locked(w)
           r == has_wake_lock_locked_ret(w)
           x == [u EXCEPT !.timer = Off]
           v == rearm(u, r)
<1>1. /\ u \in WLType
      /\ ToSet(u.active) \subseteq ToSet(w.active)
      /\ u.timed \subseteq w.timed
      /\ Untimed(u) = Untimed(w)
      /\ AllTimed(u) <=> AllTimed(w)
      /\ \A l \in Lock : u.left[l] = w.left[l]
      /\ u.event = w.event
    BY Scan
<1>2. /\ r \in -1 .. MaxTimeout
      /\ ~AllTimed(w) => r = -1
      /\ AllTimed(w) => r >= 0 /\ \A l \in ToSet(w.active) : w.left[l] <= r
    BY ScanRet
<1> HIDE DEF u, r
<1>3. MaxTimeout \in Nat /\ Off = -1 /\ Off \in Off .. MaxTimeout
    BY LockAssumption DEF Off
<1>4. CASE r > 0
    <2>1. v = [u EXCEPT !.timer = r]
        BY <1>4 DEF rearm
    <2>2. /\ v \in WLType /\ v.active = u.active /\ v.timed = u.timed
          /\ v.left = u.left /\ v.event = u.event /\ v.timer = r
        BY <1>1, <1>2, <1>3, <1>4, <2>1 DEF WLType
    <2> HIDE DEF v
    <2>3. Untimed(v) = Untimed(w)
        BY <1>1, <2>2 DEF Untimed
    <2>4. Cover(v)
        BY <1>1, <1>2, <2>2, WLFields DEF Cover, AllTimed
    <2>5. Sched(v, FALSE)
        BY <1>3, <1>4, <2>2 DEF Sched
    <2> QED
        BY <1>1, <2>2, <2>3, <2>4, <2>5 DEF v, u, r
<1>5. CASE r = 0
    <2>1. v = queue_work(x, "suspend")
        BY <1>5 DEF rearm
    <2>2. /\ x \in WLType /\ x.active = u.active /\ x.timed = u.timed
          /\ x.left = u.left /\ x.event = u.event
        BY <1>1, <1>3 DEF WLType
    <2> HIDE DEF x, v
    <2>3. /\ v \in WLType /\ v.active = x.active /\ v.timed = x.timed
          /\ v.left = x.left /\ v.event = x.event /\ "suspend" \in ToSet(v.queue)
        BY <2>1, <2>2, QueueWork
    <2>4. Untimed(v) = Untimed(w)
        BY <1>1, <2>2, <2>3 DEF Untimed
    <2>5. Cover(v)
        BY <1>1, <1>2, <1>5, <2>2, <2>3, WLFields DEF Cover, AllTimed
    <2>6. Sched(v, FALSE)
        BY <2>3 DEF Sched
    <2> QED
        BY <1>1, <2>2, <2>3, <2>4, <2>5, <2>6 DEF v, u, r
<1>6. CASE r = -1
    <2>1. v = x
        BY <1>6 DEF rearm
    <2>2. /\ v \in WLType /\ v.active = u.active /\ v.timed = u.timed
          /\ v.left = u.left /\ v.event = u.event
        BY <1>1, <1>3, <2>1 DEF WLType
    <2> HIDE DEF v
    <2>3. ~AllTimed(v) /\ Untimed(v) = Untimed(w)
        BY <1>1, <1>2, <1>6, <2>2 DEF Untimed, AllTimed
    <2> QED
        BY <1>1, <2>2, <2>3 DEF v, u, r, Cover, Sched
<1>7. r > 0 \/ r = 0 \/ r = -1
    BY <1>2, <1>3
<1> QED
    BY <1>4, <1>5, <1>6, <1>7

\* A lock becomes active, with or without a timeout.
LEMMA Activate ==
    ASSUME NEW w \in WLType, NEW l \in Lock, NEW timeout \in Off .. MaxTimeout
    PROVE  LET v == activate(w, l, timeout)
           IN  /\ v \in WLType
               /\ ToSet(v.active) = ToSet(w.active) \cup {l}
               /\ v.timed = IF timeout = Off THEN w.timed \ {l} ELSE w.timed \cup {l}
<1> DEFINE rest == list_del_all(w.active, {l})
           v == activate(w, l, timeout)
<1>1. rest \in Seq(Lock) /\ ToSet(rest) = ToSet(w.active) \ {l}
    BY DelAllSet, WLFields
<1> HIDE DEF rest
<1>2. MaxTimeout \in Nat /\ Off = -1
    BY LockAssumption DEF Off
<1>3. CASE timeout = Off
    <2> DEFINE a == <<l>> \o rest
               f == [w.left EXCEPT ![l] = 0]
    <2>1. a \in Seq(Lock) /\ ToSet(a) = ToSet(w.active) \cup {l}
        BY <1>1, AddHeadSet
    <2>2. f \in [Lock -> 0 .. MaxTimeout] /\ w.timed \ {l} \in SUBSET Lock
        BY <1>2, WLFields
    <2> HIDE DEF a, f
    <2>3. v = [w EXCEPT !.active = a, !.timed = w.timed \ {l}, !.left = f]
        BY <1>3 DEF activate, rest, a, f, WLType
    <2>4. v \in WLType /\ v.active = a /\ v.timed = w.timed \ {l}
        BY <2>1, <2>2, <2>3 DEF WLType
    <2> QED
        BY <1>3, <2>1, <2>4
<1>4. CASE timeout # Off
    <2> DEFINE a == Append(rest, l)
               f == [w.left EXCEPT ![l] = timeout]
    <2>1. a \in Seq(Lock) /\ ToSet(a) = ToSet(w.active) \cup {l}
        BY <1>1, AddTailSet
    <2>2. f \in [Lock -> 0 .. MaxTimeout] /\ w.timed \cup {l} \in SUBSET Lock
        BY <1>2, <1>4, WLFields
    <2> HIDE DEF a, f
    <2>3. v = [w EXCEPT !.active = a, !.timed = w.timed \cup {l}, !.left = f]
        BY <1>4 DEF activate, rest, a, f, WLType
    <2>4. v \in WLType /\ v.active = a /\ v.timed = w.timed \cup {l}
        BY <2>1, <2>2, <2>3 DEF WLType
    <2> QED
        BY <1>4, <2>1, <2>4
<1> QED
    BY <1>3, <1>4

\* wake_lock_internal(): the call is an event, the lock is active, and the
\* others are as they were.
LEMMA WakeLockInternal ==
    ASSUME NEW w \in WLType, NEW l \in Lock, NEW timeout \in Off .. MaxTimeout
    PROVE  LET v == wake_lock_internal(w, l, timeout)
           IN  /\ v \in WLType
               /\ v.event = TRUE
               /\ Untimed(w) \ {l} \subseteq Untimed(v)
               /\ v.timed \subseteq w.timed \cup {l}
               /\ timeout = Off => l \in Untimed(v)
               /\ Cover(v)
               /\ Sched(v, FALSE)
<1> DEFINE a == activate(w, l, timeout)
           e == [a EXCEPT !.event = TRUE]
           v == wake_lock_internal(w, l, timeout)
<1>1. /\ a \in WLType
      /\ ToSet(a.active) = ToSet(w.active) \cup {l}
      /\ a.timed = IF timeout = Off THEN w.timed \ {l} ELSE w.timed \cup {l}
    BY Activate
<1> HIDE DEF a
<1>2. /\ e \in WLType /\ e.active = a.active /\ e.timed = a.timed /\ e.event = TRUE
    BY <1>1 DEF WLType
<1> HIDE DEF e
<1>3. /\ Untimed(w) \ {l} \subseteq Untimed(e)
      /\ e.timed \subseteq w.timed \cup {l}
      /\ timeout = Off => l \in Untimed(e)
    BY <1>1, <1>2 DEF Untimed
<1>4. CASE timeout = Off
    <2>1. v = rearm(e, -1)
        BY <1>4 DEF wake_lock_internal, e, a
    <2>2. v = [e EXCEPT !.timer = Off]
        BY <2>1 DEF rearm
    <2>3. Off \in Off .. MaxTimeout
        BY LockAssumption DEF Off
    <2>4. /\ v \in WLType /\ v.active = e.active /\ v.timed = e.timed
          /\ v.event = e.event
        BY <1>2, <2>2, <2>3 DEF WLType
    <2> HIDE DEF v
    <2>5. Untimed(v) = Untimed(e) /\ ~AllTimed(v)
        BY <1>3, <1>4, <2>4 DEF Untimed, AllTimed
    <2>6. Cover(v) /\ Sched(v, FALSE)
        BY <2>5 DEF Cover, Sched
    <2> QED
        BY <1>2, <1>3, <2>4, <2>5, <2>6 DEF v
<1>5. CASE timeout # Off
    <2>1. v = rearm(has_wake_lock_locked(e), has_wake_lock_locked_ret(e))
        BY <1>5 DEF wake_lock_internal, e, a
    <2> HIDE DEF v
    <2>2. /\ v \in WLType /\ Untimed(v) = Untimed(e) /\ v.timed \subseteq e.timed
          /\ v.event = e.event /\ Cover(v) /\ Sched(v, FALSE)
        BY <1>2, <2>1, ScanRearm
    <2> QED
        BY <1>2, <1>3, <1>5, <2>2 DEF v
<1> QED
    BY <1>4, <1>5

\* wake_unlock(): the lock is not active any more, and the others are as they
\* were, but for those whose time is over.
LEMMA WakeUnlock ==
    ASSUME NEW w \in WLType, NEW l
    PROVE  LET v == wake_unlock(w, l)
           IN  /\ v \in WLType
               /\ v.event = w.event
               /\ Untimed(w) \ {l} \subseteq Untimed(v)
               /\ v.timed \subseteq w.timed
               /\ Cover(v)
               /\ Sched(v, FALSE)
<1> DEFINE u == deactivate(w, {l})
           v == wake_unlock(w, l)
<1>1. /\ u \in WLType /\ ToSet(u.active) = ToSet(w.active) \ {l}
      /\ u.timed = w.timed \ {l} /\ u.event = w.event
    BY Deactivate
<1> HIDE DEF u
<1>2. v = rearm(has_wake_lock_locked(u), has_wake_lock_locked_ret(u))
    BY DEF wake_unlock, u
<1> HIDE DEF v
<1>3. /\ v \in WLType /\ Untimed(v) = Untimed(u) /\ v.timed \subseteq u.timed
      /\ v.event = u.event /\ Cover(v) /\ Sched(v, FALSE)
    BY <1>1, <1>2, ScanRearm
<1>4. Untimed(w) \ {l} \subseteq Untimed(u)
    BY <1>1 DEF Untimed
<1> QED
    BY <1>1, <1>3, <1>4 DEF v

\* has_wake_lock() as suspend() and power_suspend_late() call it.
LEMMA HasWakeLock ==
    ASSUME NEW w \in WLType, Cover(w)
    PROVE  LET v == has_wake_lock(w)
           IN  /\ v \in WLType
               /\ v.event = w.event
               /\ Untimed(w) \ {power_manager} \subseteq Untimed(v)
               /\ v.timed \subseteq w.timed
               /\ Cover(v)
               /\ \A c : Sched(w, c) => Sched(v, c)
               /\ has_wake_lock_ret(w) # 0 => ~AllTimed(v)
<1> DEFINE S == TimedAhead(w)
           d == deactivate(w, S)
           v == has_wake_lock(w)
           Stop == \E i \in FirstUntimed(w) : w.active[i] = power_manager
<1>1. \A l \in S : l \in w.timed
    BY AheadTimed
<1> HIDE DEF S
<1>2. /\ d \in WLType /\ ToSet(d.active) = ToSet(w.active) \ S
      /\ d.timed = w.timed \ S
      /\ \A l \in Lock : d.left[l] = IF l \in S THEN 0 ELSE w.left[l]
      /\ d.timer = w.timer /\ d.event = w.event /\ d.queue = w.queue
    BY Deactivate
<1> HIDE DEF d
<1>3. Untimed(d) = Untimed(w)
    BY <1>1, <1>2 DEF Untimed
<1>4. AllTimed(d) <=> AllTimed(w)
    BY <1>3 DEF Untimed, AllTimed
<1>5. Cover(d)
    BY <1>2, <1>4, WLFields DEF Cover
<1>6. ASSUME NEW i \in FirstUntimed(w)
      PROVE  ~AllTimed(w) /\ w.active[i] \in Lock
    BY WLFields DEF FirstUntimed, AllTimed, ToSet
<1>7. CASE Stop
    <2>1. v = wake_unlock(d, power_manager)
        BY <1>7 DEF has_wake_lock, d, S
    <2> HIDE DEF v
    <2>2. /\ v \in WLType /\ v.event = d.event /\ v.timed \subseteq d.timed
          /\ Untimed(d) \ {power_manager} \subseteq Untimed(v)
          /\ Cover(v) /\ Sched(v, FALSE)
        BY <1>2, <2>1, WakeUnlock
    <2>3. \A c : Sched(v, c)
        BY <2>2 DEF Sched
    <2>4. has_wake_lock_ret(w) # 0 => ~AllTimed(v)
        <3>1. SUFFICES ASSUME has_wake_lock_ret(w) # 0 PROVE ~AllTimed(v)
            OBVIOUS
        <3>2. PICK i \in FirstUntimed(w) : w.active[i] # power_manager
            BY <3>1 DEF has_wake_lock_ret
        <3>3. w.active[i] \in Untimed(w)
            BY DEF FirstUntimed, Untimed, ToSet
        <3> QED
            BY <1>3, <2>2, <3>2, <3>3 DEF AllTimed, Untimed
    <2> QED
        BY <1>2, <1>3, <2>2, <2>3, <2>4 DEF v
<1>8. CASE ~Stop
    <2>1. v = d
        BY <1>8 DEF has_wake_lock, d, S
    <2> HIDE DEF v
    <2>2. \A c : Sched(w, c) => Sched(v, c)
        BY <1>2, <1>4, <2>1 DEF Sched
    <2>3. has_wake_lock_ret(w) # 0 => ~AllTimed(v)
        BY <1>4, <1>6, <2>1 DEF has_wake_lock_ret
    <2> QED
        BY <1>2, <1>3, <1>5, <2>1, <2>2, <2>3 DEF v
<1> QED
    BY <1>7, <1>8

-----------------------------------------------------------------------------
(***************************************************************************)
(* The inductive invariant of the wake locks.  A suspend that begins takes *)
(* suspend_work off the queue; from then on it is suspend() itself that    *)
(* keeps the promise: an event during the suspend leaves the timer or the  *)
(* work behind, and without an event suspend() takes unknown_wakeup.       *)
(***************************************************************************)
SuspInv ==
    \/ Sched(wl, callback)
    \/ worker \in {"suspend", "entry"}
    \/ /\ worker \in {"pm_suspend", "freezing", "frozen", "asleep", "exit"}
       /\ ~wl.event

WLInv ==
    /\ wl \in WLType
    /\ callback \in BOOLEAN
    /\ Cover(wl)
    /\ SuspInv

\* Every step that wakelock.c takes, for any lock.
WLStep ==
    \/ \E l \in Lock : wake_lock(l) \/ wake_lock_timeout(l) \/ wake_unlock_call(l)
    \/ tick \/ timer_expires \/ expire_wake_locks
    \/ run_work \/ suspend_check \/ suspend_entry \/ pm_suspend
    \/ freeze_processes \/ suspend_fails \/ power_suspend_late \/ wakeup \/ suspend_exit

\* Initially main_wake_lock is active and has no timeout.
LEMMA WLInitInv == Init => WLInv
<1> SUFFICES ASSUME Init PROVE WLInv
    OBVIOUS
<1> DEFINE f == [l \in Lock |-> 0]
<1>1. wl = [active |-> <<main_wake_lock>>, timed |-> {}, left |-> f, timer |-> Off,
            event |-> FALSE, queue |-> <<>>]
    BY DEF Init, WLInit
<1>2. /\ f \in [Lock -> 0 .. MaxTimeout] /\ Off \in Off .. MaxTimeout
      /\ <<main_wake_lock>> \in Seq(Lock)
    BY LockAssumption DEF Off, Lock
<1> HIDE DEF f
<1>3. wl \in WLType
    BY <1>1, <1>2 DEF WLType
<1>4. wl.active = <<main_wake_lock>> /\ wl.timed = {}
    BY <1>1
<1>5. main_wake_lock \in ToSet(wl.active)
    BY <1>4 DEF ToSet
<1>6. ~AllTimed(wl)
    BY <1>4, <1>5 DEF AllTimed
<1>7. callback \in BOOLEAN
    BY DEF Init
<1> QED
    BY <1>3, <1>6, <1>7 DEF WLInv, Cover, SuspInv, Sched

\* A tick shortens what the locks have left and the timer alike.
LEMMA TickInv == WLInv /\ tick => WLInv'
<1> SUFFICES ASSUME WLInv, tick PROVE WLInv'
    OBVIOUS
<1> DEFINE f == [l \in Lock |-> Down(wl.left[l])]
           t == Down(wl.timer)
<1>1. wl \in WLType /\ Cover(wl) /\ MaxTimeout \in Nat /\ Off = -1
    BY LockAssumption DEF WLInv, Off
<1>2. wl' = [wl EXCEPT !.left = f, !.timer = t] /\ UNCHANGED <<worker, callback>>
    BY DEF tick
<1>3. /\ f \in [Lock -> 0 .. MaxTimeout]
      /\ \A l \in Lock : f[l] = IF wl.left[l] > 0 THEN wl.left[l] - 1 ELSE wl.left[l]
    BY <1>1, WLFields DEF Down
<1>4. /\ t \in Off .. MaxTimeout
      /\ t = IF wl.timer > 0 THEN wl.timer - 1 ELSE wl.timer
    BY <1>1, WLFields DEF Down
<1> HIDE DEF f, t
<1>5. /\ wl' \in WLType /\ wl'.active = wl.active /\ wl'.timed = wl.timed
      /\ wl'.left = f /\ wl'.timer = t /\ wl'.event = wl.event /\ wl'.queue = wl.queue
    BY <1>1, <1>2, <1>3, <1>4 DEF WLType
<1>6. AllTimed(wl') <=> AllTimed(wl)
    BY <1>5 DEF AllTimed
<1>7. Cover(wl')
    <2>1. SUFFICES ASSUME AllTimed(wl), NEW l \in ToSet(wl.active), f[l] > 0
                   PROVE  f[l] <= t
        BY <1>5, <1>6 DEF Cover
    <2>2. l \in Lock /\ wl.left[l] \in 0 .. MaxTimeout /\ wl.timer \in Off .. MaxTimeout
        BY <1>1, WLFields
    <2>3. wl.left[l] > 0 /\ f[l] = wl.left[l] - 1
        BY <1>3, <2>1, <2>2
    <2>4. wl.left[l] <= wl.timer
        BY <1>1, <2>1, <2>3 DEF Cover
    <2> QED
        BY <1>1, <1>4, <2>2, <2>3, <2>4
<1>8. Sched(wl, callback) => Sched(wl', callback')
    <2>1. wl.timer # Off => t # Off
        BY <1>1, <1>4, WLFields
    <2> QED
        BY <1>2, <1>5, <1>6, <2>1 DEF Sched
<1>9. SuspInv'
    BY <1>2, <1>5, <1>8 DEF WLInv, SuspInv
<1> QED
    BY <1>2, <1>5, <1>7, <1>9 DEF WLInv

\* The timer's callback, in its two halves.
LEMMA TimerInv == WLInv /\ (timer_expires \/ expire_wake_locks) => WLInv'
<1> SUFFICES ASSUME WLInv PROVE timer_expires \/ expire_wake_locks => WLInv'
    OBVIOUS
<1>1. wl \in WLType /\ Cover(wl) /\ MaxTimeout \in Nat /\ Off = -1
    BY LockAssumption DEF WLInv, Off
<1>2. ASSUME timer_expires PROVE WLInv'
    <2>1. wl' = [wl EXCEPT !.timer = Off] /\ callback' = TRUE /\ wl.timer = 0
        BY <1>2 DEF timer_expires
    <2>2. Off \in Off .. MaxTimeout
        BY <1>1
    <2>3. /\ wl' \in WLType /\ wl'.active = wl.active /\ wl'.timed = wl.timed
          /\ wl'.left = wl.left
        BY <1>1, <2>1, <2>2 DEF WLType
    <2>4. Cover(wl')
        BY <1>1, <2>1, <2>3, WLFields DEF Cover, AllTimed
    <2> QED
        BY <2>1, <2>3, <2>4 DEF WLInv, SuspInv, Sched
<1>3. ASSUME expire_wake_locks PROVE WLInv'
    <2> DEFINE w == has_wake_lock_locked(wl)
               r == has_wake_lock_locked_ret(wl)
               q == queue_work(w, "suspend")
    <2>1. /\ wl' = IF r = 0 THEN q ELSE w
          /\ callback' = FALSE
        BY <1>3 DEF expire_wake_locks
    <2>2. /\ w \in WLType
          /\ ToSet(w.active) \subseteq ToSet(wl.active)
          /\ AllTimed(w) <=> AllTimed(wl)
          /\ \A l \in Lock : w.left[l] = wl.left[l]
          /\ w.timer = wl.timer
        BY <1>1, Scan
    <2>3. /\ r \in -1 .. MaxTimeout
          /\ AllTimed(wl) => /\ r >= 0
                             /\ r > 0 => \E l \in ToSet(wl.active) : wl.left[l] = r
        BY <1>1, ScanRet
    <2> HIDE DEF w, r
    <2>4. /\ q \in WLType /\ q.active = w.active /\ q.timed = w.timed
          /\ q.left = w.left /\ q.timer = w.timer /\ "suspend" \in ToSet(q.queue)
        BY <2>2, QueueWork
    <2> HIDE DEF q
    <2>5. /\ wl' \in WLType /\ wl'.active = w.active /\ wl'.timed = w.timed
          /\ wl'.left = w.left /\ wl'.timer = w.timer
        BY <2>1, <2>2, <2>4
    <2>6. AllTimed(wl') <=> AllTimed(wl)
        BY <2>2, <2>5 DEF AllTimed
    <2>7. Cover(wl')
        BY <1>1, <2>2, <2>5, <2>6, WLFields DEF Cover
    <2>8. Sched(wl', FALSE)
        <3>1. CASE r = 0
            BY <2>1, <2>4, <3>1 DEF Sched
        <3>2. CASE r # 0
            <4>1. SUFFICES ASSUME AllTimed(wl) PROVE wl'.timer # Off
                BY <2>6 DEF Sched
            <4>2. PICK l \in ToSet(wl.active) : wl.left[l] = r /\ r > 0
                BY <1>1, <2>3, <3>2, <4>1
            <4>3. r <= wl.timer
                BY <1>1, <4>1, <4>2 DEF Cover
            <4> QED
                BY <1>1, <2>2, <2>3, <2>5, <4>2, <4>3, WLFields
        <3> QED
            BY <3>1, <3>2
    <2> QED
        BY <2>1, <2>5, <2>7, <2>8 DEF WLInv, SuspInv
<1> QED
    BY <1>2, <1>3

\* Every step of wakelock.c preserves the invariant.
LEMMA WLStepInv == WLInv /\ WLStep => WLInv'
<1> SUFFICES ASSUME WLInv, WLStep PROVE WLInv'
    OBVIOUS
<1>1. wl \in WLType /\ callback \in BOOLEAN /\ Cover(wl) /\ SuspInv
    BY DEF WLInv
<1>2. unknown_wakeup \in Lock /\ MaxTimeout \in Off .. MaxTimeout
      /\ 0 .. MaxTimeout \subseteq Off .. MaxTimeout /\ Off \in Off .. MaxTimeout
    BY LockAssumption DEF Lock, Off
<1>3. ASSUME NEW l \in Lock, NEW timeout \in Off .. MaxTimeout,
             wl' = wake_lock_internal(wl, l, timeout), callback' = callback
      PROVE  WLInv'
    <2>1. wl' \in WLType /\ Cover(wl') /\ Sched(wl', FALSE)
        BY <1>1, <1>3, WakeLockInternal
    <2> QED
        BY <1>1, <1>3, <2>1 DEF WLInv, SuspInv, Sched
<1>4. ASSUME NEW l \in Lock, wake_lock(l) PROVE WLInv'
    BY <1>2, <1>3, <1>4 DEF wake_lock
<1>5. ASSUME NEW l \in Lock, wake_lock_timeout(l) PROVE WLInv'
    BY <1>2, <1>3, <1>5 DEF wake_lock_timeout
<1>6. ASSUME NEW l \in Lock, wake_unlock_call(l) PROVE WLInv'
    <2>1. wl' \in WLType /\ Cover(wl') /\ Sched(wl', FALSE) /\ callback' = callback
        BY <1>1, <1>6, WakeUnlock DEF wake_unlock_call
    <2> QED
        BY <1>1, <2>1 DEF WLInv, SuspInv, Sched
<1>7. ASSUME run_work PROVE WLInv'
    <2>1. /\ worker = "idle" /\ wl.queue # <<>> /\ worker' = Head(wl.queue)
          /\ wl' = [wl EXCEPT !.queue = Tail(wl.queue)] /\ callback' = callback
        BY <1>7 DEF run_work
    <2> DEFINE Q == {"suspend"} \cup Work
    <2>2. wl.queue \in Seq(Q) /\ "suspend" \in Q
        BY <1>1, WLFields
    <2> HIDE DEF Q
    <2>3. /\ Tail(wl.queue) \in Seq(Q)
          /\ "suspend" \in ToSet(wl.queue) /\ Head(wl.queue) # "suspend"
                => "suspend" \in ToSet(Tail(wl.queue))
        <3>1. /\ Tail(wl.queue) \in Seq(Q) /\ DOMAIN Tail(wl.queue) = 1 .. Len(wl.queue) - 1
              /\ \A i \in 1 .. Len(wl.queue) - 1 : Tail(wl.queue)[i] = wl.queue[i + 1]
              /\ Head(wl.queue) = wl.queue[1]
            BY <2>1, <2>2
        <3>2. ASSUME "suspend" \in ToSet(wl.queue), Head(wl.queue) # "suspend"
              PROVE  "suspend" \in ToSet(Tail(wl.queue))
            <4>1. PICK i \in DOMAIN wl.queue : wl.queue[i] = "suspend"
                BY <3>2 DEF ToSet
            <4>2. i - 1 \in 1 .. Len(wl.queue) - 1 /\ (i - 1) + 1 = i
                BY <2>2, <3>1, <3>2, <4>1
            <4>3. Tail(wl.queue)[i - 1] = "suspend"
                BY <3>1, <4>1, <4>2
            <4> QED
                BY <3>1, <4>2, <4>3 DEF ToSet
        <3> QED
            BY <3>1, <3>2
    <2>4. /\ wl' \in WLType /\ wl'.queue = Tail(wl.queue) /\ wl'.active = wl.active
          /\ wl'.timed = wl.timed /\ wl'.left = wl.left /\ wl'.timer = wl.timer
        BY <1>1, <2>1, <2>3 DEF WLType, Q
    <2>5. AllTimed(wl') <=> AllTimed(wl)
        BY <2>4 DEF AllTimed
    <2>6. Cover(wl')
        BY <1>1, <2>4, <2>5 DEF Cover
    <2>7. Sched(wl, callback)
        BY <1>1, <2>1 DEF SuspInv
    <2>8. SuspInv'
        BY <2>1, <2>3, <2>4, <2>5, <2>7 DEF SuspInv, Sched
    <2> QED
        BY <1>1, <2>1, <2>4, <2>6, <2>8 DEF WLInv
<1>8. ASSUME wl' = has_wake_lock(wl)
      PROVE  /\ wl' \in WLType /\ Cover(wl') /\ wl'.event = wl.event
             /\ Sched(wl, callback) => Sched(wl', callback)
             /\ has_wake_lock_ret(wl) # 0 => ~AllTimed(wl')
    BY <1>1, <1>8, HasWakeLock
<1>9. ASSUME suspend_check PROVE WLInv'
    <2>1. has_wake_lock_ret(wl) # 0 => Sched(wl', callback)
        BY <1>8, <1>9 DEF suspend_check, Sched
    <2> QED
        BY <1>1, <1>8, <1>9, <2>1 DEF suspend_check, WLInv, SuspInv
<1>10. ASSUME power_suspend_late PROVE WLInv'
    <2>1. worker = "frozen" /\ wl' = has_wake_lock(wl) /\ callback' = callback
          /\ worker' \in {"asleep", "exit"}
        BY <1>10 DEF power_suspend_late
    <2> QED
        BY <1>1, <1>8, <2>1 DEF WLInv, SuspInv
<1>11. ASSUME suspend_entry PROVE WLInv'
    <2>1. wl' = [wl EXCEPT !.event = FALSE] /\ worker' = "pm_suspend" /\ callback' = callback
        BY <1>11 DEF suspend_entry
    <2>2. /\ wl' \in WLType /\ wl'.event = FALSE /\ wl'.active = wl.active
          /\ wl'.timed = wl.timed /\ wl'.left = wl.left /\ wl'.timer = wl.timer
        BY <1>1, <2>1 DEF WLType
    <2>3. Cover(wl')
        BY <1>1, <2>2 DEF Cover, AllTimed
    <2> QED
        BY <1>1, <2>1, <2>2, <2>3 DEF WLInv, SuspInv
<1>12. ASSUME pm_suspend \/ freeze_processes \/ suspend_fails \/ wakeup
       PROVE  WLInv'
    BY <1>1, <1>12 DEF pm_suspend, freeze_processes, suspend_fails, wakeup,
                       WLInv, SuspInv
<1>13. ASSUME suspend_exit PROVE WLInv'
    <2>1. CASE wl.event
        BY <1>1, <1>13, <2>1 DEF suspend_exit, WLInv, SuspInv
    <2>2. CASE ~wl.event
        BY <1>2, <1>3, <1>13, <2>2 DEF suspend_exit
    <2> QED
        BY <2>1, <2>2
<1> QED
    BY <1>4, <1>5, <1>6, <1>7, <1>9, <1>10, <1>11, <1>12, <1>13, TickInv, TimerInv
    DEF WLStep

\* Steps that leave the wake locks alone.
LEMMA WLStutterInv == WLInv /\ UNCHANGED wlVars => WLInv'
BY DEF WLInv, SuspInv, wlVars

\* What the invariant says of the timer and of the suspend work.
LEMMA WLInvImplies == WLInv => SuspendScheduled /\ TimerCoversLocks
<1> SUFFICES ASSUME WLInv PROVE SuspendScheduled /\ TimerCoversLocks
    OBVIOUS
<1>1. wl \in WLType /\ Cover(wl) /\ Off = -1 /\ MaxTimeout \in Nat
    BY LockAssumption DEF WLInv, Off
<1>2. SuspendScheduled
    BY DEF WLInv, SuspInv, Sched, SuspendScheduled, InSuspend
<1>3. TimerCoversLocks
    <2>1. SUFFICES ASSUME AllTimed(wl), ~InSuspend, "suspend" \notin ToSet(wl.queue),
                          ~callback, NEW l \in ToSet(wl.active)
                   PROVE  wl.left[l] <= wl.timer
        BY DEF TimerCoversLocks
    <2>2. wl.timer # Off
        BY <2>1 DEF WLInv, SuspInv, Sched, InSuspend
    <2>3. wl.timer \in 0 .. MaxTimeout /\ wl.left[l] \in 0 .. MaxTimeout
        BY <1>1, <2>1, <2>2, WLFields
    <2> QED
        BY <1>1, <2>1, <2>3 DEF Cover
<1> QED
    BY <1>2, <1>3

LEMMA WLSpecInv == Spec => []WLInv
<1>1. WLInv /\ [Next]_wlVars => WLInv'
    <2>1. Next => WLStep
        <3>1. /\ UserLock \cup DriverLock \cup {main_wake_lock} \subseteq Lock
              /\ (UserLock \cup DriverLock) \ {power_manager} \subseteq Lock
            BY DEF Lock
        <3> QED
            BY <3>1 DEF Next, WLStep
    <2> QED
        BY <2>1, WLStepInv, WLStutterInv
<1> QED
    BY <1>1, WLInitInv, PTL DEF Spec

\* The data of wakelock.c have their types: the list holds locks, and no
\* timeout or timer is ever out of range (wakelock.c:231-248, 426-551).
THEOREM WakeLockTypes == Spec => []TypeOK
<1> DEFINE P == worker \in {"idle", "suspend", "entry", "pm_suspend", "freezing",
                            "frozen", "asleep", "exit"} \cup Work
<1>1. Init => P
    BY DEF Init
<1>2. WLInv /\ P /\ [Next]_wlVars => P'
    <2>1. SUFFICES ASSUME WLInv, P, Next PROVE P'
        BY DEF wlVars
    <2>2. CASE run_work
        <3> DEFINE Q == {"suspend"} \cup Work
        <3>1. wl.queue \in Seq(Q)
            BY <2>1, WLFields DEF WLInv
        <3> HIDE DEF Q
        <3>2. worker' \in Q
            BY <2>2, <3>1, HeadOn DEF run_work
        <3> QED
            BY <3>2 DEF Q
    <2>3. CASE suspend_check \/ power_suspend_late
        BY <2>3 DEF suspend_check, power_suspend_late
    <2>4. CASE suspend_entry \/ pm_suspend \/ freeze_processes \/ suspend_fails
                \/ wakeup \/ suspend_exit
        BY <2>4 DEF suspend_entry, pm_suspend, freeze_processes, suspend_fails,
                    wakeup, suspend_exit
    <2>5. CASE UNCHANGED worker
        BY <2>1, <2>5
    <2> QED
        BY <2>1, <2>2, <2>3, <2>4, <2>5
        DEF Next, wake_lock, wake_lock_timeout, wake_unlock_call, tick,
            timer_expires, expire_wake_locks
<1>3. WLInv /\ P => TypeOK
    BY DEF WLInv, TypeOK
<1> QED
    BY <1>1, <1>2, <1>3, WLSpecInv, PTL DEF Spec

\* A suspend is never forgotten, whoever takes and releases locks while one
\* is under way (wakelock.c:296-346, 484-496, 528-541).
THEOREM SuspendIsScheduled == Spec => []SuspendScheduled
BY WLSpecInv, WLInvImplies, PTL

\* The timer outlasts every active lock when nothing else will look at them
\* (wakelock.c:231-248, 484-496, 528-541).
THEOREM TimerCovers == Spec => []TimerCoversLocks
BY WLSpecInv, WLInvImplies, PTL

-----------------------------------------------------------------------------
(***************************************************************************)
(* Early suspend.                                                          *)
(***************************************************************************)

\* The list of handlers gains the handler, wherever it is put.
LEMMA InsertSet ==
    ASSUME NEW V, NEW s \in Seq(V), NEW x \in V, NEW pos \in 1 .. Len(s) + 1
    PROVE  /\ InsertAt(s, pos, x) \in Seq(V)
           /\ ToSet(InsertAt(s, pos, x)) = ToSet(s) \cup {x}
           /\ NoDup(s) /\ x \notin ToSet(s) => NoDup(InsertAt(s, pos, x))
<1>1. /\ InsertAt(s, pos, x) \in Seq(V)
      /\ \A y : OnList(InsertAt(s, pos, x), y) <=> OnList(s, y) \/ y = x
      /\ NoDup(s) /\ ~OnList(s, x) => NoDup(InsertAt(s, pos, x))
    BY InsertList
<1>2. \A y : y \in ToSet(InsertAt(s, pos, x)) <=> y \in ToSet(s) \cup {x}
    BY <1>1, ToSetOnList
<1> QED
    BY <1>1, <1>2, ToSetOnList

\* main_wake_lock is never given a timeout, and nobody but early_suspend()
\* releases it: while it is not active, the user asked for a suspend and the
\* handlers are suspended or are being suspended.
MainInv ==
    /\ main_wake_lock \notin wl.timed
    /\ main_wake_lock \in ToSet(wl.active) \/ state = AllBits

\* What handlers know, with the bit that the worker set before it called them.
HandlerInv ==
    /\ HandlersInStep
    /\ worker = "es_handlers" => "SUSPENDED" \in state
    /\ worker = "lr_handlers" => "SUSPENDED" \notin state

ESTypes ==
    /\ state \in SUBSET AllBits
    /\ handlers \in Seq(Handler) /\ NoDup(handlers)
    /\ off \in [Handler -> BOOLEAN]

ESInv == WLInv /\ ESTypes /\ MainInv /\ HandlerInv

\* The steps of wakelock.c that others than early suspend cause.
OtherStep ==
    \/ \E l \in Lock \ {main_wake_lock} :
          wake_lock(l) \/ wake_lock_timeout(l) \/ wake_unlock_call(l)
    \/ tick \/ timer_expires \/ expire_wake_locks
    \/ run_work \/ suspend_check \/ suspend_entry \/ pm_suspend
    \/ freeze_processes \/ suspend_fails \/ power_suspend_late \/ wakeup \/ suspend_exit

\* They leave main_wake_lock as it is.
LEMMA MainKept ==
    ASSUME WLInv, main_wake_lock \notin wl.timed, OtherStep
    PROVE  /\ main_wake_lock \notin wl'.timed
           /\ main_wake_lock \in ToSet(wl.active) => main_wake_lock \in ToSet(wl'.active)
<1> DEFINE m == main_wake_lock
           Kept(v) == m \notin v.timed /\ (m \in Untimed(wl) => m \in Untimed(v))
<1>1. wl \in WLType /\ Cover(wl)
    BY DEF WLInv
<1>2. /\ unknown_wakeup \in Lock /\ MaxTimeout \in Off .. MaxTimeout
      /\ 0 .. MaxTimeout \subseteq Off .. MaxTimeout /\ Off \in Off .. MaxTimeout
      /\ m # unknown_wakeup /\ m # power_manager
    BY LockAssumption DEF Lock, Off
<1>3. SUFFICES Kept(wl')
    BY DEF Untimed
<1>4. ASSUME NEW l \in Lock \ {m}, NEW timeout \in Off .. MaxTimeout
      PROVE  Kept(wake_lock_internal(wl, l, timeout))
    <2> DEFINE v == wake_lock_internal(wl, l, timeout)
    <2>1. Untimed(wl) \ {l} \subseteq Untimed(v) /\ v.timed \subseteq wl.timed \cup {l}
        BY <1>1, WakeLockInternal
    <2> HIDE DEF v
    <2>2. Kept(v)
        BY <2>1
    <2> QED
        BY <2>2 DEF v
<1>5. ASSUME NEW l \in Lock \ {m}, wake_lock(l) \/ wake_lock_timeout(l) PROVE Kept(wl')
    BY <1>2, <1>4, <1>5 DEF wake_lock, wake_lock_timeout
<1>6. ASSUME NEW l \in Lock \ {m}, wake_unlock_call(l) PROVE Kept(wl')
    BY <1>1, <1>6, WakeUnlock DEF wake_unlock_call
<1>7. ASSUME suspend_check \/ power_suspend_late PROVE Kept(wl')
    BY <1>1, <1>2, <1>7, HasWakeLock DEF suspend_check, power_suspend_late
<1>8. ASSUME suspend_exit PROVE Kept(wl')
    BY <1>2, <1>4, <1>8 DEF suspend_exit
<1>9. ASSUME tick \/ timer_expires \/ run_work \/ suspend_entry PROVE Kept(wl')
    <2>1. wl'.timed = wl.timed /\ wl'.active = wl.active
        BY <1>1, <1>9 DEF tick, timer_expires, run_work, suspend_entry, WLType
    <2> QED
        BY <2>1 DEF Untimed
<1>10. ASSUME expire_wake_locks PROVE Kept(wl')
    <2> DEFINE w == has_wake_lock_locked(wl)
    <2>1. w \in WLType /\ w.timed \subseteq wl.timed /\ Untimed(w) = Untimed(wl)
        BY <1>1, Scan
    <2>2. wl' = queue_work(w, "suspend") \/ wl' = w
        BY <1>10 DEF expire_wake_locks
    <2> HIDE DEF w
    <2>3. wl'.active = w.active /\ wl'.timed = w.timed
        BY <2>1, <2>2, QueueWork
    <2> QED
        BY <2>1, <2>3 DEF Untimed
<1>11. ASSUME pm_suspend \/ freeze_processes \/ suspend_fails \/ wakeup PROVE Kept(wl')
    BY <1>11 DEF pm_suspend, freeze_processes, suspend_fails, wakeup
<1> QED
    BY <1>5, <1>6, <1>7, <1>8, <1>9, <1>10, <1>11 DEF OtherStep

\* They do not bring the worker to a place where it calls handlers.
LEMMA WorkerApart ==
    ASSUME WLInv, OtherStep
    PROVE  worker' # worker => {worker, worker'} \cap {"es_handlers", "lr_handlers"} = {}
<1>1. CASE run_work
    <2> DEFINE Q == {"suspend"} \cup Work
    <2>1. wl.queue \in Seq(Q)
        BY WLFields DEF WLInv
    <2> HIDE DEF Q
    <2>2. worker' \in Q /\ worker = "idle"
        BY <1>1, <2>1, HeadOn DEF run_work
    <2> QED
        BY <2>2, EarlySuspendAssumption DEF Q, Place
<1>2. CASE suspend_check \/ power_suspend_late \/ suspend_entry \/ pm_suspend
            \/ freeze_processes \/ suspend_fails \/ wakeup \/ suspend_exit
    BY <1>2 DEF suspend_check, power_suspend_late, suspend_entry, pm_suspend,
                freeze_processes, suspend_fails, wakeup, suspend_exit
<1> QED
    BY <1>1, <1>2 DEF OtherStep, wake_lock, wake_lock_timeout, wake_unlock_call,
                      tick, timer_expires, expire_wake_locks

\* The worker goes from one work of earlysuspend.c to the next.
LEMMA WLMove ==
    ASSUME WLInv, UNCHANGED <<wl, callback>>,
           worker \notin {"suspend", "entry", "pm_suspend", "freezing", "frozen",
                          "asleep", "exit"}
    PROVE  WLInv'
BY DEF WLInv, SuspInv

\* Work is queued behind what is on the queue.
LEMMA WLQueue ==
    ASSUME WLInv, UNCHANGED <<worker, callback>>,
           NEW work \in {"suspend"} \cup Work, wl' = queue_work(wl, work)
    PROVE  /\ WLInv'
           /\ wl'.timed = wl.timed /\ wl'.active = wl.active
<1>1. /\ wl' \in WLType /\ wl'.active = wl.active /\ wl'.timed = wl.timed
      /\ wl'.left = wl.left /\ wl'.timer = wl.timer /\ wl'.event = wl.event
      /\ ToSet(wl.queue) \subseteq ToSet(wl'.queue)
    BY QueueWork DEF WLInv
<1>2. Cover(wl') /\ (Sched(wl, callback) => Sched(wl', callback'))
    BY <1>1 DEF WLInv, Cover, Sched, AllTimed
<1> QED
    BY <1>1, <1>2 DEF WLInv, SuspInv

\* The steps of wakelock.c.
LEMMA ESOtherInv == ESInv /\ OtherStep /\ UNCHANGED esVars => ESInv'
<1> SUFFICES ASSUME ESInv, OtherStep, UNCHANGED esVars PROVE ESInv'
    OBVIOUS
<1>1. WLInv /\ main_wake_lock \notin wl.timed
    BY DEF ESInv, MainInv
<1>2. WLInv'
    <2>1. OtherStep => WLStep
        BY DEF OtherStep, WLStep
    <2> QED
        BY <1>1, <2>1, WLStepInv
<1>3. MainInv'
    BY <1>1, MainKept DEF ESInv, MainInv, esVars
<1>4. HandlerInv'
    <2>1. worker' # worker => {worker, worker'} \cap {"es_handlers", "lr_handlers"} = {}
        BY <1>1, WorkerApart
    <2> QED
        BY <2>1 DEF ESInv, HandlerInv, HandlersInStep, HandlersAgree, CallsAlternate,
                    early_suspend_lock_free, Registered, esVars
<1> QED
    BY <1>2, <1>3, <1>4 DEF ESInv, ESTypes, esVars

\* The works of earlysuspend.c: what they find in state when they look again
\* decides, not what they found before.
LEMMA ESWorkInv == ESInv /\ WorkStep => ESInv'
<1> SUFFICES ASSUME ESInv, WorkStep PROVE ESInv'
    OBVIOUS
<1>1. WLInv /\ ESTypes /\ MainInv /\ HandlerInv
    BY DEF ESInv
<1>2. ToSet(handlers) \subseteq Handler
    BY <1>1, SetType DEF ESTypes
<1> USE DEF HandlersInStep, HandlersAgree, CallsAlternate, early_suspend_lock_free,
            Registered, AllBits
<1>3. CASE early_suspend
    <2>1. WLInv'
        BY <1>1, <1>3, WLMove DEF early_suspend
    <2>2. ESTypes' /\ MainInv'
        BY <1>1, <1>3 DEF early_suspend, ESTypes, MainInv
    <2>3. HandlerInv'
        BY <1>1, <1>3 DEF early_suspend, HandlerInv
    <2> QED
        BY <2>1, <2>2, <2>3 DEF ESInv
<1>4. CASE call_suspend
    <2>1. WLInv'
        BY <1>1, <1>4, WLMove DEF call_suspend
    <2>2. ESTypes' /\ MainInv'
        BY <1>1, <1>4 DEF call_suspend, ESTypes, MainInv
    <2>3. HandlerInv'
        <3>1. \A h \in ToSet(handlers) : off'[h] = TRUE
            BY <1>2, <1>4 DEF call_suspend
        <3> QED
            BY <1>1, <1>4, <3>1 DEF call_suspend, HandlerInv
    <2> QED
        BY <2>1, <2>2, <2>3 DEF ESInv
<1>5. CASE early_suspend_finish
    <2>1. worker = "es_finish" /\ worker' = "idle" /\ callback' = callback /\ UNCHANGED esVars
        BY <1>5 DEF early_suspend_finish
    <2>2. HandlerInv' /\ ESTypes'
        BY <1>1, <2>1 DEF HandlerInv, ESTypes, esVars
    <2>3. CASE state = AllBits
        <3>1. wl' = wake_unlock(wl, main_wake_lock)
            BY <1>5, <2>3 DEF early_suspend_finish
        <3>2. /\ wl' \in WLType /\ wl'.timed \subseteq wl.timed
              /\ Cover(wl') /\ Sched(wl', FALSE)
            BY <1>1, <3>1, WakeUnlock DEF WLInv
        <3>3. WLInv'
            BY <1>1, <2>1, <3>2 DEF WLInv, SuspInv, Sched
        <3>4. MainInv'
            BY <1>1, <2>1, <2>3, <3>2 DEF MainInv, esVars
        <3> QED
            BY <2>2, <3>3, <3>4 DEF ESInv
    <2>4. CASE state # AllBits
        <3>1. wl' = wl
            BY <1>5, <2>4 DEF early_suspend_finish
        <3>2. WLInv'
            BY <1>1, <2>1, <3>1, WLMove
        <3> QED
            BY <1>1, <2>1, <2>2, <3>1, <3>2 DEF ESInv, MainInv, esVars
    <2> QED
        BY <2>3, <2>4
<1>6. CASE late_resume
    <2>1. WLInv'
        BY <1>1, <1>6, WLMove DEF late_resume
    <2>2. ESTypes' /\ MainInv'
        <3>1. /\ UNCHANGED <<wl, handlers, off>>
              /\ \/ state = {"SUSPENDED"} /\ state' = {}
                 \/ state' = state
            BY <1>6 DEF late_resume
        <3>2. {} \in SUBSET AllBits /\ {"SUSPENDED"} # AllBits
            OBVIOUS
        <3> QED
            BY <1>1, <3>1, <3>2 DEF ESTypes, MainInv
    <2>3. HandlerInv'
        BY <1>1, <1>6 DEF late_resume, HandlerInv
    <2> QED
        BY <2>1, <2>2, <2>3 DEF ESInv
<1>7. CASE call_resume
    <2>1. WLInv'
        BY <1>1, <1>7, WLMove DEF call_resume
    <2>2. ESTypes' /\ MainInv'
        <3>1. off' \in [Handler -> BOOLEAN] /\ UNCHANGED <<wl, state, handlers>>
            BY <1>7 DEF call_resume
        <3> QED
            BY <1>1, <3>1 DEF ESTypes, MainInv
    <2>3. HandlerInv'
        <3>1. \A h \in ToSet(handlers) : off'[h] = FALSE
            BY <1>2, <1>7 DEF call_resume
        <3> QED
            BY <1>1, <1>7, <3>1 DEF call_resume, HandlerInv
    <2> QED
        BY <2>1, <2>2, <2>3 DEF ESInv
<1>8. ASSUME NEW r \in Requester, run_barrier(r) PROVE ESInv'
    <2>1. worker \notin Place /\ worker' = "idle" /\ UNCHANGED <<wl, callback, esVars>>
        BY <1>8, EarlySuspendAssumption DEF run_barrier
    <2>2. WLInv'
        BY <1>1, <2>1, WLMove DEF Place
    <2>3. ESTypes' /\ MainInv' /\ HandlerInv'
        BY <1>1, <2>1 DEF ESTypes, MainInv, HandlerInv, Place, esVars
    <2> QED
        BY <2>2, <2>3 DEF ESInv
<1> QED
    BY <1>3, <1>4, <1>5, <1>6, <1>7, <1>8 DEF WorkStep

\* Handlers come and go while the worker does not call any.
LEMMA ESRegisterInv ==
    ASSUME ESInv, NEW h \in Handler,
           register_early_suspend(h) \/ unregister_early_suspend(h)
    PROVE  ESInv'
<1>1. WLInv /\ ESTypes /\ MainInv /\ HandlerInv
    BY DEF ESInv
<1>2. UNCHANGED <<wlVars, state>> /\ early_suspend_lock_free
    BY DEF register_early_suspend, unregister_early_suspend
<1>3. WLInv' /\ MainInv'
    BY <1>1, <1>2, WLStutterInv DEF MainInv, wlVars
<1>4. CASE register_early_suspend(h)
    <2>1. PICK pos \in 1 .. Len(handlers) + 1 : handlers' = InsertAt(handlers, pos, h)
        BY <1>4 DEF register_early_suspend, Position
    <2>2. /\ handlers' \in Seq(Handler) /\ ToSet(handlers') = ToSet(handlers) \cup {h}
          /\ NoDup(handlers')
        BY <1>1, <1>4, <2>1, InsertSet DEF ESTypes, register_early_suspend
    <2>3. /\ off' \in [Handler -> BOOLEAN]
          /\ off'[h] <=> "SUSPENDED" \in state
          /\ \A g \in Handler \ {h} : off'[g] = off[g]
        <3> DEFINE b == "SUSPENDED" \in state
        <3>1. off' = [off EXCEPT ![h] = b] /\ off \in [Handler -> BOOLEAN] /\ b \in BOOLEAN
            BY <1>1, <1>4 DEF ESTypes, register_early_suspend
        <3> HIDE DEF b
        <3>2. /\ off' \in [Handler -> BOOLEAN] /\ off'[h] = b
              /\ \A g \in Handler \ {h} : off'[g] = off[g]
            BY <3>1
        <3> QED
            BY <3>2 DEF b
    <2>4. ToSet(handlers) \subseteq Handler
        BY <1>1, SetType DEF ESTypes
    <2>5. HandlerInv'
        BY <1>1, <1>2, <2>2, <2>3, <2>4
        DEF HandlerInv, HandlersInStep, HandlersAgree, CallsAlternate,
            early_suspend_lock_free, Registered, wlVars
    <2> QED
        BY <1>1, <1>2, <1>3, <2>2, <2>3, <2>5 DEF ESInv, ESTypes
<1>5. CASE unregister_early_suspend(h)
    <2>1. handlers' = list_del(handlers, h) /\ h \in ToSet(handlers)
          /\ off' = [off EXCEPT ![h] = FALSE]
        BY <1>5 DEF unregister_early_suspend
    <2>2. OnList(handlers, h)
        BY <2>1, ToSetOnList
    <2>3. /\ handlers' \in Seq(Handler) /\ NoDup(handlers')
          /\ \A y : y \in ToSet(handlers') <=> y \in ToSet(handlers) /\ y # h
        <3>1. \A y : OnList(handlers', y) <=> OnList(handlers, y) /\ y # h
            BY <1>1, <2>1, <2>2, DelList DEF ESTypes
        <3> QED
            BY <1>1, <2>1, <2>2, <3>1, DelList, ToSetOnList DEF ESTypes
    <2>4. ToSet(handlers) \subseteq Handler
        BY <1>1, SetType DEF ESTypes
    <2>5. off' \in [Handler -> BOOLEAN] /\ \A g \in Handler \ {h} : off'[g] = off[g]
        BY <1>1, <2>1 DEF ESTypes
    <2>6. HandlerInv'
        BY <1>1, <1>2, <2>3, <2>4, <2>5
        DEF HandlerInv, HandlersInStep, HandlersAgree, CallsAlternate,
            early_suspend_lock_free, Registered, wlVars
    <2> QED
        BY <1>1, <1>2, <1>3, <2>3, <2>5, <2>6 DEF ESInv, ESTypes
<1> QED
    BY <1>4, <1>5

\* request_suspend_state(): the bit and main_wake_lock change together, and
\* neither a flush nor the mode disturbs what the invariant says.
LEMMA ESRequestInv ==
    ASSUME ESInv, NEW r \in Requester,
           \/ \E s \in {"on", "mem", "standby"} :
                 request_suspend_state(r, s) \/ request_flush(r, s)
           \/ request_after_flush(r)
    PROVE  ESInv'
<1>1. WLInv /\ ESTypes /\ MainInv /\ HandlerInv
    BY DEF ESInv
<1>2. /\ UNCHANGED <<worker, callback, handlers, off>>
      /\ \/ \E s, old, m : finish_request(s, old, m)
         \/ UNCHANGED state /\ (wl' = wl \/ wl' = queue_work(wl, r))
    BY DEF request_suspend_state, request_flush, request_after_flush
<1>3. {"early_suspend", "late_resume", r} \subseteq {"suspend"} \cup Work
    BY EarlySuspendAssumption
<1>4. main_wake_lock \in Lock /\ Off \in Off .. MaxTimeout
    BY LockAssumption DEF Lock, Off
<1>5. /\ state' \in {state, state \cup {"SUSPEND_REQUESTED"}, state \ {"SUSPEND_REQUESTED"}}
      /\ WLInv'
      /\ main_wake_lock \notin wl'.timed
      /\ main_wake_lock \in ToSet(wl.active) => main_wake_lock \in ToSet(wl'.active)
      /\ state' = state \ {"SUSPEND_REQUESTED"} /\ state' # state
            => main_wake_lock \in ToSet(wl'.active)
    <2>1. CASE UNCHANGED <<state, wl>>
        BY <1>1, <1>2, <2>1, WLStutterInv DEF wlVars, MainInv
    <2>2. ASSUME NEW work \in {"early_suspend", r}, wl' = queue_work(wl, work),
                 state' \in {state, state \cup {"SUSPEND_REQUESTED"}}
          PROVE  <1>5!1 /\ <1>5!2 /\ <1>5!3 /\ <1>5!4 /\ <1>5!5
        <3>1. WLInv' /\ wl'.timed = wl.timed /\ wl'.active = wl.active
            BY <1>1, <1>2, <1>3, <2>2, WLQueue
        <3> QED
            BY <1>1, <2>2, <3>1 DEF MainInv
    <2>3. CASE wl' = turn_on(wl) /\ state' = state \ {"SUSPEND_REQUESTED"}
        <3> DEFINE w == wake_lock_internal(wl, main_wake_lock, Off)
        <3>1. /\ w \in WLType /\ main_wake_lock \in Untimed(w)
              /\ Cover(w) /\ Sched(w, FALSE)
            BY <1>1, <1>4, WakeLockInternal DEF WLInv
        <3>2. wl' = queue_work(w, "late_resume")
            BY <2>3 DEF turn_on
        <3> HIDE DEF w
        <3>3. /\ wl' \in WLType /\ wl'.active = w.active /\ wl'.timed = w.timed
              /\ wl'.left = w.left /\ wl'.timer = w.timer
              /\ ToSet(w.queue) \subseteq ToSet(wl'.queue)
            BY <1>3, <3>1, <3>2, QueueWork
        <3>4. Cover(wl') /\ Sched(wl', callback')
            BY <3>1, <3>3 DEF Cover, Sched, AllTimed
        <3>5. WLInv'
            BY <1>1, <1>2, <3>3, <3>4 DEF WLInv, SuspInv
        <3> QED
            BY <2>3, <3>1, <3>3, <3>5 DEF Untimed
    <2> QED
        BY <1>2, <2>1, <2>2, <2>3 DEF finish_request
<1>6. MainInv'
    BY <1>1, <1>5 DEF MainInv, AllBits, ESTypes
<1>7. ESTypes'
    BY <1>1, <1>2, <1>5 DEF ESTypes, AllBits
<1>8. HandlerInv'
    <2>1. "SUSPENDED" \in state' <=> "SUSPENDED" \in state
        BY <1>5
    <2> QED
        BY <1>1, <1>2, <2>1
        DEF HandlerInv, HandlersInStep, HandlersAgree, CallsAlternate,
            early_suspend_lock_free, Registered
<1> QED
    BY <1>5, <1>6, <1>7, <1>8 DEF ESInv

\* The steps that cause no other change than one of wakelock.c.
LEMMA ESOther ==
    ASSUME \/ \E l \in UserLock \cup DriverLock :
                 /\ wake_lock(l) \/ wake_unlock_call(l)
                 /\ UNCHANGED esVars
           \/ \E l \in DriverLock : wake_lock_timeout(l) /\ UNCHANGED esVars
           \/ tick /\ UNCHANGED esVars
           \/ timer_expires /\ UNCHANGED esVars
           \/ expire_wake_locks /\ UNCHANGED esVars
           \/ SuspendStep
    PROVE  OtherStep /\ UNCHANGED esVars
<1>1. UserLock \cup DriverLock \subseteq Lock \ {main_wake_lock}
    BY LockAssumption DEF Lock
<1> QED
    BY <1>1 DEF OtherStep, SuspendStep, es_pm_suspend, es_freeze_processes

LEMMA ESSpecInv == ESSpec => []ESInv
<1>1. ESInit => ESInv
    <2> SUFFICES ASSUME ESInit PROVE ESInv
        OBVIOUS
    <2>1. WLInv
        BY WLInitInv DEF ESInit
    <2>2. ESTypes /\ HandlerInv
        BY DEF ESInit, Init, ESTypes, HandlerInv, HandlersInStep, HandlersAgree,
               CallsAlternate, Registered, ToSet, NoDup, AllBits
    <2>3. MainInv
        <3>1. wl.active = <<main_wake_lock>> /\ wl.timed = {}
            BY DEF ESInit, Init, WLInit
        <3> QED
            BY <3>1 DEF MainInv, ToSet
    <2> QED
        BY <2>1, <2>2, <2>3 DEF ESInv
<1>2. ESInv /\ ESNext => ESInv'
    BY ESOther, ESOtherInv, ESWorkInv, ESRegisterInv, ESRequestInv DEF ESNext
<1>3. ESInv /\ UNCHANGED vars => ESInv'
    BY WLStutterInv DEF ESInv, ESTypes, MainInv, HandlerInv, HandlersInStep,
        HandlersAgree, CallsAlternate, early_suspend_lock_free, Registered,
        vars, esVars, wlVars
<1> QED
    BY <1>1, <1>2, <1>3, PTL DEF ESSpec

\* A suspend is not forgotten either when the works of early suspend and the
\* barriers of the flushes share the queue (earlysuspend.c:178-193).
THEOREM EarlySuspendScheduled == ESSpec => [](SuspendScheduled /\ TimerCoversLocks)
<1>1. ESInv => SuspendScheduled /\ TimerCoversLocks
    BY WLInvImplies DEF ESInv
<1> QED
    BY <1>1, ESSpecInv, PTL

\* While the user wants the system on, main_wake_lock is held, although
\* early_suspend() drops state_lock before it releases the lock
\* (earlysuspend.c:86-87, 115-116, 187-190).
THEOREM MainHeld == ESSpec => []MainHeldUnlessRequested
<1>1. ESInv => MainHeldUnlessRequested
    BY DEF ESInv, MainInv, MainHeldUnlessRequested, IsActive, AllBits
<1> QED
    BY <1>1, ESSpecInv, PTL

\* What handlers are told is in step with the state, whenever they register
\* and however the requests follow each other (earlysuspend.c:49-72, 75-108,
\* 120-149).
THEOREM HandlersStayInStep == ESSpec => []HandlersInStep
<1>1. ESInv => HandlersInStep
    BY DEF ESInv, HandlerInv
<1> QED
    BY <1>1, ESSpecInv, PTL
=============================================================================
