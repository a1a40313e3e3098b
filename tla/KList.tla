------------------------------- MODULE KList -------------------------------
(***************************************************************************)
(* The wait queues of the locks are circular lists (include/linux/list.h)  *)
(* of nodes on the stacks of the waiting tasks.  A list is a sequence of   *)
(* tasks, since a task has at most one node on a list at any time.         *)
(***************************************************************************)
EXTENDS Integers, Sequences, FiniteSets

\* x's node is on the list.
OnList(s, x) == \E i \in DOMAIN s : s[i] = x

\* No task has two nodes on the list.
NoDup(s) == \A i, j \in DOMAIN s : s[i] = s[j] => i = j

\* list_del() of x's node, which is on the list.
list_del(s, x) ==
    LET k == CHOOSE i \in DOMAIN s : s[i] = x
    IN  [j \in 1 .. Len(s) - 1 |-> IF j < k THEN s[j] ELSE s[j + 1]]

\* list_del() of every node that belongs to a member of S, in a walk of the
\* list: the others stay, in their order.
list_del_all(s, S) ==
    LET walk[i \in 0 .. Len(s)] ==
            IF i = 0 THEN <<>>
            ELSE IF s[i] \in S THEN walk[i - 1] ELSE Append(walk[i - 1], s[i])
    IN  walk[Len(s)]
=============================================================================
