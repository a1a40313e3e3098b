------------------------------- MODULE RWLock -------------------------------
(***************************************************************************)
(* What a blocking lock of the kernel promises, whatever its queue, its    *)
(* fast paths and its wakeups look like: a task holds it for reading, for  *)
(* writing or not at all, and a writer is alone.  The read/write semaphore *)
(* and the mutex are shown to implement it.                                *)
(***************************************************************************)
CONSTANT Task

VARIABLE mode   \* mode[t]: how t holds the lock

Init == mode = [t \in Task |-> "none"]

AcquireRead(t) ==
    /\ mode[t] = "none"
    /\ \A u \in Task : mode[u] # "write"
    /\ mode' = [mode EXCEPT ![t] = "read"]

AcquireWrite(t) ==
    /\ \A u \in Task : mode[u] = "none"
    /\ mode' = [mode EXCEPT ![t] = "write"]

Downgrade(t) ==
    /\ mode[t] = "write"
    /\ mode' = [mode EXCEPT ![t] = "read"]

Release(t) ==
    /\ mode[t] # "none"
    /\ mode' = [mode EXCEPT ![t] = "none"]

Next == \E t \in Task : \/ AcquireRead(t) \/ AcquireWrite(t)
                        \/ Downgrade(t) \/ Release(t)

Spec == Init /\ [][Next]_mode
=============================================================================
