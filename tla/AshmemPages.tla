---------------------------- MODULE AshmemPages -----------------------------
(***************************************************************************)
(* What an anonymous shared memory area promises, page by page: a page is  *)
(* lost only while it is unpinned, and whoever pins it again is told.      *)
(* What the driver forgets when it has no memory for its own records is    *)
(* allowed here, and marked by oom.                                        *)
(***************************************************************************)
EXTENDS Integers

CONSTANTS Area, Page

Interval == {s .. e : s, e \in Page}

VARIABLES
    unpinned,  \* unpinned[a]: the pages that may be taken away
    lost,      \* lost[a]: the unpinned pages that were taken away
    told,      \* the last step was a pin, and its answer that something was purged
    oom        \* the last step ran out of memory

pageVars == <<unpinned, lost, told, oom>>

Init ==
    /\ unpinned = [a \in Area |-> {}]
    /\ lost = [a \in Area |-> {}]
    /\ told = FALSE
    /\ oom = FALSE

(* Some page of I was lost: the answer is yes; otherwise it may be either. *)
Pin(a, I) ==
    /\ ~oom'
    /\ lost[a] \cap I # {} => told'
    /\ lost' = [lost EXCEPT ![a] = @ \ I]
    /\ unpinned' = [unpinned EXCEPT ![a] = @ \ I]

Unpin(a, I) ==
    /\ ~oom' /\ ~told'
    /\ lost' = lost
    /\ unpinned' = [unpinned EXCEPT ![a] = @ \cup I]

Purge ==
    /\ ~oom' /\ ~told'
    /\ unpinned' = unpinned
    /\ \A a \in Area : lost[a] \subseteq lost'[a] /\ lost'[a] \subseteq unpinned[a]

Close(a) ==
    /\ ~oom' /\ ~told'
    /\ lost' = [lost EXCEPT ![a] = {}]
    /\ unpinned' = [unpinned EXCEPT ![a] = {}]

(* Without memory more pages than were asked for stop being unpinned, and  *)
(* their loss is forgotten; the answer of a pin is still right.            *)
Forget(a) ==
    /\ unpinned'[a] \subseteq unpinned[a]
    /\ \A b \in Area : /\ b # a => unpinned'[b] = unpinned[b]
                       /\ lost'[b] = lost[b] \cap unpinned'[b]

PinOom(a, I) ==
    /\ oom'
    /\ lost[a] \cap I # {} => told'
    /\ unpinned'[a] \cap I = {}
    /\ Forget(a)

UnpinOom(a) == oom' /\ Forget(a) /\ ~told'

Quiet == ~oom' /\ ~told' /\ UNCHANGED <<unpinned, lost>>

Next ==
    \/ Quiet
    \/ Purge
    \/ \E a \in Area : Close(a) \/ UnpinOom(a)
    \/ \E a \in Area, I \in Interval : Pin(a, I) \/ Unpin(a, I) \/ PinOom(a, I)

Spec == Init /\ [][Next]_pageVars
=============================================================================
