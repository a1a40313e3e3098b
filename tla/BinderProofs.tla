---------------------------- MODULE BinderProofs ----------------------------
(***************************************************************************)
(* Proofs about binder transactions.  The calls that wait for an answer    *)
(* form chains: a thread that handles a call and calls on puts the new one *)
(* at the end.  The stacks of the threads are the chains, seen by each     *)
(* thread.  First what a call, a delivery, a pop, an answer and the end of *)
(* a thread do to the chains; then what the walks of binder.c over         *)
(* from_parent and to_parent find; then the frees, on a record of the      *)
(* state; and last the steps, the invariant and what follows from it.      *)
(***************************************************************************)
EXTENDS Binder, KListProofs, FiniteSetTheorems, TLAPS

\* The calls that wait for an answer.
Calls(T) == {i \in Id : T[i] # None /\ ~T[i].reply /\ ~T[i].one_way}

\* The calls that thread x has sent or is handling; those in Q are nobody's yet.
Rel(T, Q, x) == {i \in Calls(T) : T[i].from = x \/ (i \notin Q /\ T[i].to_thread = x)}

\* Call i is the last of its chain: r names the chains, d numbers the calls of each.
Tip(T, d, r, i) == \A j \in Calls(T) : r[j] = r[i] => d[j] <= d[i]

\* The from_parent of a call is the call that its sender was handling, before it in the chain.
Parents(T, Q, d, r) ==
    \A i \in Calls(T) : T[i].from_parent # None =>
        /\ T[i].from_parent \in Calls(T) /\ T[i].from_parent \notin Q
        /\ T[T[i].from_parent].to_thread = T[i].from
        /\ r[T[i].from_parent] = r[i] /\ d[T[i].from_parent] < d[i]

\* A chain is a line: the calls before a call come through its from_parent.
Linear(T, d, r) ==
    \A i, j \in Calls(T) : r[i] = r[j] /\ i # j =>
        /\ d[i] # d[j]
        /\ d[j] < d[i] => T[i].from_parent # None /\ d[j] <= d[T[i].from_parent]

\* A sender is a thread that is there, and does not handle its own call.
Senders(T, th) ==
    \A i \in Calls(T) : T[i].from # None => T[i].from \in th /\ T[i].from # T[i].to_thread

\* A call that is not queued is handled, or its handler is gone and has called on.
Handlers(T, th, Q, d, r) ==
    \A i \in Calls(T) : i \notin Q =>
        /\ T[i].to_thread = None => ~Tip(T, d, r, i)
        /\ T[i].to_thread # None => T[i].to_thread \in th

\* A call that is queued is the last of its chain.
QueuedTips(T, Q, d, r) == \A i \in Q : i \in Calls(T) /\ Tip(T, d, r, i)

\* The top of the stack of x is the last of the calls that x has sent or handles, all of one chain.
Tops(T, s, th, Q, d, r) ==
    \A x \in th :
        /\ s[x] = None => Rel(T, Q, x) = {}
        /\ s[x] # None => s[x] \in Rel(T, Q, x)
        /\ \A i \in Rel(T, Q, x) : r[i] = r[s[x]] /\ d[i] <= d[s[x]]

\* Below a call that x handles, to_parent leads to the one before it on the stack of x.
Handled(T, Q, d, r) ==
    \A i \in Calls(T) : i \notin Q /\ T[i].to_thread # None =>
        /\ T[i].to_parent # None =>
             /\ T[i].to_parent \in Calls(T) /\ T[T[i].to_parent].from = T[i].to_thread
             /\ d[T[i].to_parent] < d[i]
        /\ \A j \in Rel(T, Q, T[i].to_thread) : d[j] < d[i] =>
             T[i].to_parent # None /\ d[j] <= d[T[i].to_parent]

\* A call queued to a certain thread is in the chain of the call that the thread waits for.
Targets(T, s, th, Q, r) ==
    \A m \in Q : T[m].to_thread \in th =>
        /\ s[T[m].to_thread] # None
        /\ T[s[T[m].to_thread]].from = T[m].to_thread
        /\ r[s[T[m].to_thread]] = r[m] /\ s[T[m].to_thread] # m

\* The calls are in chains, by the numbers d and the names r.
ChainsBy(T, s, th, Q, d, r) ==
    /\ None \notin th
    /\ d \in [Id -> Nat]
    /\ Parents(T, Q, d, r)
    /\ Linear(T, d, r)
    /\ Senders(T, th)
    /\ Handlers(T, th, Q, d, r)
    /\ QueuedTips(T, Q, d, r)
    /\ Tops(T, s, th, Q, d, r)
    /\ Handled(T, Q, d, r)
    /\ Targets(T, s, th, Q, r)

\* The calls are in chains, in some way.
Chains(T, s, th, Q) == \E d : \E r : ChainsBy(T, s, th, Q, d, r)

\* The parts of ChainsBy.
LEMMA ChainsParts ==
    ASSUME NEW T, NEW s, NEW th, NEW Q, NEW d, NEW r, ChainsBy(T, s, th, Q, d, r)
    PROVE  /\ None \notin th
           /\ d \in [Id -> Nat]
           /\ \A i \in Calls(T) : d[i] \in Nat /\ i \in Id
           /\ Parents(T, Q, d, r)
           /\ Linear(T, d, r)
           /\ Senders(T, th)
           /\ Handlers(T, th, Q, d, r)
           /\ QueuedTips(T, Q, d, r)
           /\ Tops(T, s, th, Q, d, r)
           /\ Handled(T, Q, d, r)
           /\ Targets(T, s, th, Q, r)
BY DEF ChainsBy, Calls

\* A call that is not the last of its chain has a child.
LEMMA ChildOf ==
    ASSUME NEW T, NEW s, NEW th, NEW Q, NEW d, NEW r, ChainsBy(T, s, th, Q, d, r),
           NEW i \in Calls(T), ~Tip(T, d, r, i)
    PROVE  \E c \in Calls(T) : T[c].from_parent = i /\ r[c] = r[i] /\ d[i] < d[c]
<1> DEFINE below == {d[j] : j \in {k \in Calls(T) : r[k] = r[i] /\ d[i] < d[k]}}
<1>1. \A j \in Calls(T) : d[j] \in Nat
    BY ChainsParts
<1>2. below \in SUBSET Nat /\ below # {}
    BY <1>1 DEF Tip
<1>3. PICK n \in below : \A y \in below : n <= y
    <2> HIDE DEF below
    <2> QED
        BY <1>2, Least
<1>4. PICK c \in Calls(T) : r[c] = r[i] /\ d[i] < d[c] /\ d[c] = n
    BY <1>3
<1>5. c # i
    BY <1>1, <1>4
<1>6. T[c].from_parent # None /\ d[i] <= d[T[c].from_parent]
    BY <1>4, <1>5, ChainsParts DEF Linear
<1>7. T[c].from_parent \in Calls(T) /\ r[T[c].from_parent] = r[i] /\ d[T[c].from_parent] < d[c]
    BY <1>4, <1>6, ChainsParts DEF Parents
<1>8. ~(d[i] < d[T[c].from_parent])
    BY <1>1, <1>3, <1>4, <1>7
<1>9. d[T[c].from_parent] = d[i]
    BY <1>1, <1>6, <1>7, <1>8
<1>10. T[c].from_parent = i
    BY <1>7, <1>9, ChainsParts DEF Linear
<1> QED
    BY <1>4, <1>10

\* A call that its handler has on top of its stack is the last of its chain.
LEMMA TopIsTip ==
    ASSUME NEW T, NEW s, NEW th, NEW Q, NEW d, NEW r, ChainsBy(T, s, th, Q, d, r),
           NEW x \in th, s[x] # None, T[s[x]].to_thread = x
    PROVE  s[x] \in Calls(T) /\ s[x] \notin Q /\ Tip(T, d, r, s[x])
<1>1. s[x] \in Rel(T, Q, x)
    BY ChainsParts DEF Tops
<1>2. s[x] \in Calls(T) /\ s[x] \notin Q
    BY <1>1, ChainsParts DEF Rel, Senders
<1>3. ASSUME ~Tip(T, d, r, s[x]) PROVE FALSE
    <2>1. PICK c \in Calls(T) : T[c].from_parent = s[x] /\ d[s[x]] < d[c]
        BY <1>2, <1>3, ChildOf
    <2>2. T[c].from = x
        BY <2>1, ChainsParts DEF Parents
    <2>3. d[c] <= d[s[x]]
        BY <2>2, ChainsParts DEF Rel, Tops
    <2> QED
        BY <1>2, <2>1, <2>3, ChainsParts
<1> QED
    BY <1>2, <1>3

\* Two last calls of a chain are the same.
LEMMA TipUnique ==
    ASSUME NEW T, NEW s, NEW th, NEW Q, NEW d, NEW r, ChainsBy(T, s, th, Q, d, r),
           NEW i \in Calls(T), NEW j \in Calls(T), r[i] = r[j],
           Tip(T, d, r, i), Tip(T, d, r, j)
    PROVE  i = j
<1>1. d[i] \in Nat /\ d[j] \in Nat
    BY ChainsParts
<1>2. d[i] = d[j]
    BY <1>1 DEF Tip
<1> QED
    BY <1>2, ChainsParts DEF Linear

-----------------------------------------------------------------------------
(***************************************************************************)
(* What the steps do to the chains.  T and U are the transactions before   *)
(* and after, s and v the stacks.                                          *)
(***************************************************************************)

\* The fields that the chains are made of.
SameCall(T, U, i) ==
    /\ U[i].from = T[i].from /\ U[i].from_parent = T[i].from_parent
    /\ U[i].to_thread = T[i].to_thread /\ U[i].to_parent = T[i].to_parent

\* Nothing happens to the calls.
LEMMA ChainsSame ==
    ASSUME NEW T, NEW U, NEW s, NEW th, NEW Q, Chains(T, s, th, Q),
           Calls(U) = Calls(T), \A i \in Calls(T) : SameCall(T, U, i)
    PROVE  Chains(U, s, th, Q)
<1>1. PICK d, r : ChainsBy(T, s, th, Q, d, r)
    BY DEF Chains
<1>2. \A x : Rel(U, Q, x) = Rel(T, Q, x)
    BY DEF Rel, SameCall
<1>3. \A i : Tip(U, d, r, i) <=> Tip(T, d, r, i)
    BY DEF Tip
<1>4. Parents(U, Q, d, r) /\ Linear(U, d, r) /\ Senders(U, th)
    BY <1>1, ChainsParts DEF Parents, Linear, Senders, SameCall
<1>5. Handlers(U, th, Q, d, r) /\ QueuedTips(U, Q, d, r)
    BY <1>1, <1>3, ChainsParts DEF Handlers, QueuedTips, SameCall
<1>6. Tops(U, s, th, Q, d, r)
    BY <1>1, <1>2, ChainsParts DEF Tops
<1>7. Handled(U, Q, d, r)
    BY <1>1, <1>2, ChainsParts DEF Handled, SameCall
<1>8. Targets(U, s, th, Q, r)
    <2>1. \A x \in th : s[x] # None => s[x] \in Calls(T)
        BY <1>1, ChainsParts DEF Tops, Rel
    <2>2. \A m \in Q : m \in Calls(T)
        BY <1>1, ChainsParts DEF QueuedTips
    <2> QED
        BY <1>1, <2>1, <2>2, ChainsParts DEF Targets, SameCall
<1> QED
    BY <1>1, <1>4, <1>5, <1>6, <1>7, <1>8, ChainsParts DEF Chains, ChainsBy

\* A thread comes.
LEMMA ChainsThread ==
    ASSUME NEW T, NEW s, NEW th, NEW Q, Chains(T, s, th, Q),
           NEW x, x \notin th, x # None, s[x] = None, \A m \in Q : T[m].to_thread # x
    PROVE  Chains(T, s, th \cup {x}, Q)
<1>1. PICK d, r : ChainsBy(T, s, th, Q, d, r)
    BY DEF Chains
<1>2. Rel(T, Q, x) = {}
    BY <1>1, ChainsParts DEF Rel, Senders, Handlers
<1>3. Senders(T, th \cup {x}) /\ Handlers(T, th \cup {x}, Q, d, r)
    BY <1>1, ChainsParts DEF Senders, Handlers
<1>4. Tops(T, s, th \cup {x}, Q, d, r)
    BY <1>1, <1>2, ChainsParts DEF Tops
<1>5. Targets(T, s, th \cup {x}, Q, r)
    BY <1>1, ChainsParts DEF Targets
<1> QED
    BY <1>1, <1>3, <1>4, <1>5 DEF Chains, ChainsBy

\* A new call i of thread x, on top of the call that x handles if there is one.
\* Its target y, if it has one, has sent a call of the same chain.
CallStep(T, U, s, v, th, Q, x, i) ==
    /\ Chains(T, s, th, Q)
    /\ x \in th
    /\ i \in Id
    /\ i \notin Calls(T)
    /\ None \notin Id
    /\ s[x] # None => T[s[x]].to_thread = x
    /\ Calls(U) = Calls(T) \cup {i}
    /\ \A j \in Calls(T) : SameCall(T, U, j)
    /\ U[i].from = x
    /\ U[i].from_parent = s[x]
    /\ U[i].to_thread # x
    /\ v[x] = i
    /\ \A y \in th : y # x => v[y] = s[y]
    /\ U[i].to_thread \in th =>
           /\ s[x] # None
           /\ \A d, r : ChainsBy(T, s, th, Q, d, r) =>
                \E j \in Calls(T) : r[j] = r[s[x]] /\ T[j].from = U[i].to_thread

\* A new call is queued at the end of its chain.
LEMMA ChainsCall ==
    ASSUME NEW T, NEW U, NEW s, NEW v, NEW th, NEW Q, NEW x, NEW i,
           CallStep(T, U, s, v, th, Q, x, i)
    PROVE  Chains(U, v, th, Q \cup {i})
<1> USE DEF CallStep
<1>1. PICK d, r : ChainsBy(T, s, th, Q, d, r)
    BY DEF Chains
<1>2. PICK z : z \notin {r[j] : j \in Calls(T)}
    BY NoSetContainsEverything
<1> DEFINE e == [j \in Id |-> IF j = i THEN IF s[x] = None THEN 0 ELSE d[s[x]] + 1 ELSE d[j]]
           q == [j \in Id |-> IF j = i THEN IF s[x] = None THEN z ELSE r[s[x]] ELSE r[j]]
<1>3. s[x] # None => /\ s[x] \in Calls(T) /\ s[x] \notin Q /\ Tip(T, d, r, s[x])
                     /\ s[x] # i /\ d[s[x]] \in Nat
    BY <1>1, TopIsTip, ChainsParts
<1>4. /\ e \in [Id -> Nat]
      /\ \A j \in Calls(T) : e[j] = d[j] /\ q[j] = r[j] /\ j # i /\ e[j] \in Nat /\ j \in Id
      /\ s[x] = None => \A j \in Calls(T) : q[j] # q[i]
      /\ s[x] # None => e[i] = d[s[x]] + 1 /\ q[i] = r[s[x]]
    <2>1. \A j \in Calls(T) : d[j] \in Nat /\ j \in Id
        BY <1>1, ChainsParts
    <2>2. d \in [Id -> Nat]
        BY <1>1, ChainsParts
    <2> QED
        BY <1>2, <1>3, <2>1, <2>2
<1> HIDE DEF e, q
<1>5. /\ Tip(U, e, q, i)
      /\ \A j \in Calls(T) : q[j] = q[i] => e[j] < e[i] /\ s[x] # None /\ e[j] <= e[s[x]]
    BY <1>3, <1>4 DEF Tip
<1>6. \A j \in Calls(T) : Tip(U, e, q, j) <=> Tip(T, d, r, j) /\ j # s[x]
    <2> SUFFICES ASSUME NEW j \in Calls(T)
                 PROVE  Tip(U, e, q, j) <=> Tip(T, d, r, j) /\ j # s[x]
        OBVIOUS
    <2>1. CASE q[j] = q[i]
        <3>1. ~Tip(U, e, q, j)
            BY <1>4, <1>5, <2>1 DEF Tip
        <3>2. Tip(T, d, r, j) => j = s[x]
            BY <1>1, <1>3, <1>4, <1>5, <2>1, TipUnique
        <3> QED
            BY <3>1, <3>2
    <2>2. CASE q[j] # q[i]
        <3>1. j # s[x]
            BY <1>4, <2>2
        <3> QED
            BY <1>4, <2>2, <3>1 DEF Tip
    <2> QED
        BY <2>1, <2>2
<1>7. /\ Rel(U, Q \cup {i}, x) = Rel(T, Q, x) \cup {i}
      /\ \A y : y # x => Rel(U, Q \cup {i}, y) = Rel(T, Q, y)
    BY <1>4 DEF Rel, SameCall
<1>8. Parents(U, Q \cup {i}, e, q)
    <2>1. Parents(T, Q, d, r)
        BY <1>1, ChainsParts
    <2>2. ASSUME NEW j \in Calls(T), U[j].from_parent # None
          PROVE  /\ U[j].from_parent \in Calls(T) /\ U[j].from_parent \notin Q
                 /\ U[U[j].from_parent].to_thread = U[j].from
                 /\ q[U[j].from_parent] = q[j] /\ e[U[j].from_parent] < e[j]
        BY <1>4, <2>1, <2>2 DEF Parents, SameCall
    <2>3. ASSUME s[x] # None
          PROVE  U[s[x]].to_thread = x /\ q[s[x]] = q[i] /\ e[s[x]] < e[i]
        BY <1>3, <1>4, <2>3 DEF SameCall
    <2> QED
        BY <1>3, <1>4, <2>2, <2>3 DEF Parents
<1>9. Linear(U, e, q)
    <2>1. Linear(T, d, r)
        BY <1>1, ChainsParts
    <2>2. ASSUME NEW j \in Calls(T), NEW k \in Calls(T), q[j] = q[k], j # k
          PROVE  /\ e[j] # e[k]
                 /\ e[k] < e[j] => U[j].from_parent # None /\ e[k] <= e[U[j].from_parent]
        <3>1. T[j].from_parent # None => T[j].from_parent \in Calls(T)
            BY <1>1, ChainsParts DEF Parents
        <3> QED
            BY <1>4, <2>1, <2>2, <3>1 DEF Linear, SameCall
    <2>3. ASSUME NEW j \in Calls(T), q[j] = q[i]
          PROVE  e[j] # e[i] /\ ~(e[i] < e[j]) /\ U[i].from_parent # None
                 /\ e[j] <= e[U[i].from_parent]
        <3>1. e[j] \in Nat /\ e[i] \in Nat
            BY <1>4
        <3> QED
            BY <1>5, <2>3, <3>1
    <2> QED
        BY <2>2, <2>3 DEF Linear
<1>10. Senders(U, th)
    BY <1>1, ChainsParts DEF Senders, SameCall
<1>11. Handlers(U, th, Q \cup {i}, e, q)
    <2>1. ASSUME NEW j \in Calls(T), j \notin Q
          PROVE  /\ U[j].to_thread = None => ~Tip(U, e, q, j)
                 /\ U[j].to_thread # None => U[j].to_thread \in th
        BY <1>1, <1>6, <2>1, ChainsParts DEF Handlers, SameCall
    <2> QED
        BY <2>1 DEF Handlers
<1>12. QueuedTips(U, Q \cup {i}, e, q)
    BY <1>1, <1>3, <1>5, <1>6, ChainsParts DEF QueuedTips
<1>13. Tops(U, v, th, Q \cup {i}, e, q)
    <2>1. Tops(T, s, th, Q, d, r)
        BY <1>1, ChainsParts
    <2>2. ASSUME NEW y \in th, y # x
          PROVE  /\ v[y] = None => Rel(U, Q \cup {i}, y) = {}
                 /\ v[y] # None => v[y] \in Rel(U, Q \cup {i}, y)
                 /\ \A j \in Rel(U, Q \cup {i}, y) : q[j] = q[v[y]] /\ e[j] <= e[v[y]]
        <3>1. Rel(T, Q, y) \subseteq Calls(T)
            BY DEF Rel
        <3>2. v[y] = s[y] /\ Rel(U, Q \cup {i}, y) = Rel(T, Q, y)
            BY <1>7, <2>2
        <3>3. CASE s[y] = None
            BY <2>1, <3>2, <3>3 DEF Tops
        <3>4. CASE s[y] # None
            <4>1. s[y] \in Rel(T, Q, y) /\ s[y] \in Calls(T)
                BY <2>1, <3>1, <3>4 DEF Tops
            <4>2. \A j \in Rel(T, Q, y) : j \in Calls(T) /\ r[j] = r[s[y]] /\ d[j] <= d[s[y]]
                BY <2>1, <3>1 DEF Tops
            <4> QED
                BY <1>4, <3>2, <3>4, <4>1, <4>2
        <3> QED
            BY <3>3, <3>4
    <2>3. \A j \in Rel(U, Q \cup {i}, x) : q[j] = q[i] /\ e[j] <= e[i]
        <3>1. ASSUME NEW j \in Rel(T, Q, x) PROVE q[j] = q[i] /\ e[j] <= e[i]
            <4>1. j \in Calls(T) /\ s[x] # None /\ r[j] = r[s[x]] /\ d[j] <= d[s[x]]
                BY <2>1 DEF Tops, Rel
            <4>2. e[j] \in Nat /\ d[s[x]] \in Nat
                BY <1>3, <1>4, <4>1
            <4> QED
                BY <1>4, <4>1, <4>2
        <3>2. e[i] \in Nat
            BY <1>4
        <3> QED
            BY <1>7, <3>1, <3>2
    <2>4. v[x] \in Rel(U, Q \cup {i}, x) /\ v[x] # None
        BY <1>7
    <2> QED
        BY <2>2, <2>3, <2>4 DEF Tops
<1>14. Handled(U, Q \cup {i}, e, q)
    <2>1. Handled(T, Q, d, r)
        BY <1>1, ChainsParts
    <2>2. ASSUME NEW j \in Calls(T), j \notin Q, U[j].to_thread # None
          PROVE  /\ U[j].to_parent # None =>
                      /\ U[j].to_parent \in Calls(U) /\ U[U[j].to_parent].from = U[j].to_thread
                      /\ e[U[j].to_parent] < e[j]
                 /\ \A k \in Rel(U, Q \cup {i}, U[j].to_thread) : e[k] < e[j] =>
                      U[j].to_parent # None /\ e[k] <= e[U[j].to_parent]
        <3>1. U[j].to_thread = T[j].to_thread /\ U[j].to_parent = T[j].to_parent
            BY DEF SameCall
        <3>2. T[j].to_parent # None => /\ T[j].to_parent \in Calls(T)
                                       /\ T[T[j].to_parent].from = T[j].to_thread
                                       /\ d[T[j].to_parent] < d[j]
            BY <2>1, <2>2, <3>1 DEF Handled
        <3>3. ASSUME NEW k \in Rel(T, Q, T[j].to_thread), e[k] < e[j]
              PROVE  T[j].to_parent # None /\ e[k] <= e[T[j].to_parent]
            <4>1. k \in Calls(T)
                BY DEF Rel
            <4> QED
                BY <1>4, <2>1, <2>2, <3>1, <3>2, <3>3, <4>1 DEF Handled
        <3>4. ASSUME T[j].to_thread = x PROVE ~(e[i] < e[j])
            <4>1. j \in Rel(U, Q \cup {i}, x)
                BY <1>4, <2>2, <3>1, <3>4 DEF Rel
            <4>2. e[j] <= e[i]
                BY <1>13, <4>1 DEF Tops
            <4> QED
                BY <1>4, <4>2
        <3>5. ASSUME U[j].to_parent # None
              PROVE  /\ U[j].to_parent \in Calls(U) /\ U[U[j].to_parent].from = U[j].to_thread
                     /\ e[U[j].to_parent] < e[j]
            BY <1>4, <3>1, <3>2, <3>5 DEF SameCall
        <3>6. ASSUME NEW k \in Rel(U, Q \cup {i}, U[j].to_thread), e[k] < e[j]
              PROVE  U[j].to_parent # None /\ e[k] <= e[U[j].to_parent]
            <4>1. k \in Rel(T, Q, T[j].to_thread)
                BY <1>7, <3>1, <3>4, <3>6, ZenonT(40)
            <4> QED
                BY <3>1, <3>3, <3>6, <4>1
        <3> QED
            BY <3>5, <3>6
    <2> QED
        BY <2>2 DEF Handled
<1>15. Targets(U, v, th, Q \cup {i}, q)
    <2>1. Targets(T, s, th, Q, r)
        BY <1>1, ChainsParts
    <2>2. \A m \in Q : m \in Calls(T)
        BY <1>1, ChainsParts DEF QueuedTips
    <2>3. \A y \in th : s[y] # None => s[y] \in Calls(T)
        BY <1>1, ChainsParts DEF Tops, Rel
    <2>4. \A m \in Q : T[m].to_thread # x
        BY <1>1, <1>3, <2>1, <2>2, ChainsParts DEF Targets, Senders
    <2>5. ASSUME NEW m \in Q, U[m].to_thread \in th
          PROVE  /\ v[U[m].to_thread] # None
                 /\ U[v[U[m].to_thread]].from = U[m].to_thread
                 /\ q[v[U[m].to_thread]] = q[m] /\ v[U[m].to_thread] # m
        <3>1. U[m].to_thread = T[m].to_thread
            BY <2>2 DEF SameCall
        <3> QED
            BY <1>4, <2>1, <2>2, <2>3, <2>4, <2>5, <3>1 DEF Targets, SameCall
    <2>6. ASSUME NEW y \in th, U[i].to_thread = y
          PROVE  v[y] # None /\ U[v[y]].from = y /\ q[v[y]] = q[i] /\ v[y] # i
        <3>1. y # x /\ v[y] = s[y]
            BY <2>6
        <3>2. PICK j \in Calls(T) : r[j] = r[s[x]] /\ T[j].from = y
            BY <1>1, <2>6
        <3>3. s[x] # None
            BY <2>6
        <3>4. j \in Rel(T, Q, y)
            BY <3>2 DEF Rel
        <3>5. s[y] # None /\ s[y] \in Rel(T, Q, y) /\ r[s[y]] = r[s[x]]
            BY <1>1, <3>2, <3>4, ChainsParts DEF Tops
        <3>6. s[y] \in Calls(T) /\ s[y] # i
            BY <2>3, <3>5
        <3>7. T[s[y]].from = y
            <4>1. SUFFICES ASSUME T[s[y]].to_thread = y PROVE FALSE
                BY <3>5 DEF Rel
            <4>2. Tip(T, d, r, s[y])
                BY <1>1, <3>5, <4>1, TopIsTip
            <4>3. s[y] = s[x]
                BY <1>1, <1>3, <3>3, <3>5, <3>6, <4>2, TipUnique
            <4> QED
                BY <3>1, <3>3, <4>1, <4>3
        <3> QED
            BY <1>4, <3>1, <3>3, <3>5, <3>6, <3>7 DEF SameCall
    <2> QED
        BY <2>5, <2>6 DEF Targets
<1> QED
    BY <1>1, <1>4, <1>8, <1>9, <1>10, <1>11, <1>12, <1>13, <1>14, <1>15, ChainsParts
    DEF Chains, ChainsBy

\* The call w is delivered to thread x: it was meant for x, or for any thread
\* of its process and x has nothing to do.
DeliverStep(T, U, s, v, th, Q, x, w) ==
    /\ Chains(T, s, th, Q)
    /\ x \in th
    /\ w \in Q
    /\ T[w].from # x
    /\ T[w].to_thread = x \/ s[x] = None
    /\ None \notin Id
    /\ Calls(U) = Calls(T)
    /\ \A j \in Calls(T) : j # w => SameCall(T, U, j)
    /\ U[w].from = T[w].from
    /\ U[w].from_parent = T[w].from_parent
    /\ U[w].to_thread = x
    /\ U[w].to_parent = s[x]
    /\ v[x] = w
    /\ \A y \in th : y # x => v[y] = s[y]

\* A call that is delivered goes on top of the stack of its handler.
LEMMA ChainsDeliver ==
    ASSUME NEW T, NEW U, NEW s, NEW v, NEW th, NEW Q, NEW x, NEW w,
           DeliverStep(T, U, s, v, th, Q, x, w)
    PROVE  Chains(U, v, th, Q \ {w})
<1> USE DEF DeliverStep
<1>1. PICK d, r : ChainsBy(T, s, th, Q, d, r)
    BY DEF Chains
<1> DEFINE P == Q \ {w}
<1>2. w \in Calls(T) /\ w \in Id /\ w # None /\ Tip(T, d, r, w) /\ x # None
    BY <1>1, ChainsParts DEF QueuedTips
<1>3. \A j \in Calls(T) : d[j] \in Nat
    BY <1>1, ChainsParts
<1>4. \A j \in Calls(T) : Tip(U, d, r, j) <=> Tip(T, d, r, j)
    BY DEF Tip
<1>5. \A j \in Calls(T) : U[j].from = T[j].from /\ U[j].from_parent = T[j].from_parent
    BY DEF SameCall
<1>6. /\ Rel(U, P, x) = Rel(T, Q, x) \cup {w}
      /\ \A y : y # x => Rel(U, P, y) = Rel(T, Q, y)
    <2>1. Rel(U, P, x) = Rel(T, Q, x) \cup {w}
        BY <1>2 DEF Rel, SameCall
    <2>2. ASSUME NEW y, y # x PROVE Rel(U, P, y) = Rel(T, Q, y)
        BY <1>2, <2>2 DEF Rel, SameCall
    <2> QED
        BY <2>1, <2>2
<1>7. ASSUME s[x] # None
      PROVE  /\ T[w].to_thread = x /\ s[x] \in Calls(T) /\ s[x] # w /\ T[s[x]].from = x
             /\ r[s[x]] = r[w] /\ d[s[x]] < d[w]
    <2>1. T[w].to_thread = x
        BY <1>7
    <2>2. s[x] # w /\ T[s[x]].from = x /\ r[s[x]] = r[w]
        BY <1>1, <2>1, ChainsParts DEF Targets
    <2>3. s[x] \in Calls(T)
        BY <1>1, <1>7, ChainsParts DEF Tops, Rel
    <2>4. d[s[x]] <= d[w]
        BY <1>2, <2>2, <2>3 DEF Tip
    <2>5. d[s[x]] # d[w]
        BY <1>1, <1>2, <2>2, <2>3, ChainsParts DEF Linear
    <2> QED
        BY <1>2, <1>3, <2>1, <2>2, <2>3, <2>4, <2>5
<1>8. \A j \in Rel(T, Q, x) : j \in Calls(T) /\ s[x] # None /\ r[j] = r[w] /\ d[j] < d[w]
                              /\ d[j] <= d[s[x]]
    <2> SUFFICES ASSUME NEW j \in Rel(T, Q, x)
                 PROVE  j \in Calls(T) /\ s[x] # None /\ r[j] = r[w] /\ d[j] < d[w]
                        /\ d[j] <= d[s[x]]
        OBVIOUS
    <2>1. j \in Calls(T) /\ s[x] # None /\ r[j] = r[s[x]] /\ d[j] <= d[s[x]]
        BY <1>1, ChainsParts DEF Tops, Rel
    <2> QED
        BY <1>2, <1>3, <1>7, <2>1
<1>9. Parents(U, P, d, r)
    <2> SUFFICES ASSUME NEW j \in Calls(T), T[j].from_parent # None
                 PROVE  /\ T[j].from_parent \in Calls(T) /\ T[j].from_parent \notin Q
                        /\ U[T[j].from_parent].to_thread = T[j].from
                        /\ r[T[j].from_parent] = r[j] /\ d[T[j].from_parent] < d[j]
        BY <1>5 DEF Parents
    <2>1. /\ T[j].from_parent \in Calls(T) /\ T[j].from_parent \notin Q
          /\ T[T[j].from_parent].to_thread = T[j].from
          /\ r[T[j].from_parent] = r[j] /\ d[T[j].from_parent] < d[j]
        BY <1>1, ChainsParts DEF Parents
    <2> QED
        BY <2>1 DEF SameCall
<1>10. Linear(U, d, r)
    BY <1>1, <1>5, ChainsParts DEF Linear
<1>11. Senders(U, th)
    BY <1>1, <1>2, ChainsParts DEF Senders, SameCall
<1>12. Handlers(U, th, P, d, r)
    BY <1>1, <1>2, <1>4, ChainsParts DEF Handlers, SameCall
<1>13. QueuedTips(U, P, d, r)
    BY <1>1, <1>4, ChainsParts DEF QueuedTips
<1>14. Tops(U, v, th, P, d, r)
    <2>1. \A j \in Rel(U, P, x) : r[j] = r[v[x]] /\ d[j] <= d[v[x]]
        BY <1>2, <1>3, <1>6, <1>8
    <2>2. v[x] # None /\ v[x] \in Rel(U, P, x)
        BY <1>2, <1>6
    <2>3. ASSUME NEW y \in th, y # x
          PROVE  /\ v[y] = None => Rel(U, P, y) = {}
                 /\ v[y] # None => v[y] \in Rel(U, P, y)
                 /\ \A i \in Rel(U, P, y) : r[i] = r[v[y]] /\ d[i] <= d[v[y]]
        <3>1. v[y] = s[y] /\ Rel(U, P, y) = Rel(T, Q, y)
            BY <1>6, <2>3
        <3>2. /\ s[y] = None => Rel(T, Q, y) = {}
              /\ s[y] # None => s[y] \in Rel(T, Q, y)
              /\ \A k \in Rel(T, Q, y) : r[k] = r[s[y]] /\ d[k] <= d[s[y]]
            BY <1>1, ChainsParts DEF Tops
        <3> QED
            BY <3>1, <3>2
    <2> QED
        BY <2>1, <2>2, <2>3 DEF Tops
<1>15. Handled(U, P, d, r)
    <2>1. /\ U[w].to_parent # None =>
               /\ U[w].to_parent \in Calls(T) /\ U[U[w].to_parent].from = x
               /\ d[U[w].to_parent] < d[w]
          /\ \A j \in Rel(U, P, x) : d[j] < d[w] =>
               U[w].to_parent # None /\ d[j] <= d[U[w].to_parent]
        <3>1. s[x] # None => s[x] \in Calls(T) /\ U[s[x]].from = x /\ d[s[x]] < d[w]
            BY <1>5, <1>7
        <3>2. \A j \in Rel(U, P, x) : d[j] < d[w] => s[x] # None /\ d[j] <= d[s[x]]
            <4>1. ~(d[w] < d[w])
                BY <1>2, <1>3
            <4> QED
                BY <1>6, <1>8, <4>1
        <3> QED
            BY <3>1, <3>2
    <2>2. ASSUME NEW i \in Calls(T), i \notin Q, T[i].to_thread # None
          PROVE  /\ T[i].to_parent # None =>
                      /\ T[i].to_parent \in Calls(T)
                      /\ T[T[i].to_parent].from = T[i].to_thread
                      /\ d[T[i].to_parent] < d[i]
                 /\ \A j \in Rel(U, P, T[i].to_thread) : d[j] < d[i] =>
                      T[i].to_parent # None /\ d[j] <= d[T[i].to_parent]
        <3>1. T[i].to_thread = x => ~(d[w] < d[i])
            <4>1. T[i].to_thread = x => i \in Rel(T, Q, x)
                BY <2>2 DEF Rel
            <4> QED
                BY <1>2, <1>3, <1>8, <4>1
        <3>2. \A j \in Rel(U, P, T[i].to_thread) : j \in Rel(T, Q, T[i].to_thread)
                                                   \/ (j = w /\ T[i].to_thread = x)
            BY <1>6
        <3> QED
            BY <1>1, <2>2, <3>1, <3>2, ChainsParts DEF Handled
    <2>3. ASSUME NEW i \in Calls(U), i \notin P, U[i].to_thread # None
          PROVE  /\ U[i].to_parent # None =>
                      /\ U[i].to_parent \in Calls(U)
                      /\ U[U[i].to_parent].from = U[i].to_thread
                      /\ d[U[i].to_parent] < d[i]
                 /\ \A j \in Rel(U, P, U[i].to_thread) : d[j] < d[i] =>
                      U[i].to_parent # None /\ d[j] <= d[U[i].to_parent]
        <3>1. CASE i = w
            BY <2>1, <3>1
        <3>2. CASE i # w
            <4>1. U[i].to_thread = T[i].to_thread /\ U[i].to_parent = T[i].to_parent
                  /\ i \notin Q /\ i \in Calls(T)
                BY <2>3, <3>2 DEF SameCall
            <4> QED
                BY <1>5, <2>2, <2>3, <4>1, Zenon
        <3> QED
            BY <3>1, <3>2
    <2> QED
        BY <2>3 DEF Handled
<1>16. Targets(U, v, th, P, r)
    <2> SUFFICES ASSUME NEW m \in P, U[m].to_thread \in th
                 PROVE  /\ v[U[m].to_thread] # None
                        /\ U[v[U[m].to_thread]].from = U[m].to_thread
                        /\ r[v[U[m].to_thread]] = r[m] /\ v[U[m].to_thread] # m
        BY DEF Targets
    <2>1. m \in Q /\ m # w /\ m \in Calls(T) /\ Tip(T, d, r, m) /\ U[m].to_thread = T[m].to_thread
        BY <1>1, ChainsParts DEF QueuedTips, SameCall
    <2>2. /\ s[T[m].to_thread] # None
          /\ T[s[T[m].to_thread]].from = T[m].to_thread
          /\ r[s[T[m].to_thread]] = r[m] /\ s[T[m].to_thread] # m
        BY <1>1, <2>1, ChainsParts DEF Targets
    <2>3. T[m].to_thread # x
        <3>1. SUFFICES ASSUME T[m].to_thread = x PROVE FALSE
            OBVIOUS
        <3>2. r[m] = r[w]
            BY <1>7, <2>2, <3>1
        <3> QED
            BY <1>1, <1>2, <2>1, <3>2, TipUnique
    <2>4. v[T[m].to_thread] = s[T[m].to_thread] /\ s[T[m].to_thread] \in Calls(T)
        BY <1>1, <2>1, <2>2, <2>3, ChainsParts DEF Tops, Rel
    <2> QED
        BY <1>5, <2>1, <2>2, <2>4
<1> QED
    BY <1>1, <1>9, <1>10, <1>11, <1>12, <1>13, <1>14, <1>15, <1>16, ChainsParts
    DEF Chains, ChainsBy

\* Thread x takes the call i that it handles off its stack to answer it: the
\* call is nobody's again.
PopStep(T, U, s, v, th, Q, x, i) ==
    /\ Chains(T, s, th, Q)
    /\ x \in th
    /\ i = s[x]
    /\ i # None
    /\ T[i].to_thread = x
    /\ Calls(U) = Calls(T)
    /\ \A j \in Calls(T) : j # i => SameCall(T, U, j)
    /\ U[i].from = T[i].from
    /\ U[i].from_parent = T[i].from_parent
    /\ U[i].to_thread = None
    /\ v[x] = T[i].to_parent
    /\ \A y \in th : y # x => v[y] = s[y]

\* A call that its handler takes off its stack is as good as queued.
LEMMA ChainsPop ==
    ASSUME NEW T, NEW U, NEW s, NEW v, NEW th, NEW Q, NEW x, NEW i,
           PopStep(T, U, s, v, th, Q, x, i)
    PROVE  i \in Calls(T) /\ Chains(U, v, th, Q \cup {i})
<1> USE DEF PopStep
<1>1. PICK d, r : ChainsBy(T, s, th, Q, d, r)
    BY DEF Chains
<1> DEFINE P == Q \cup {i}
<1>2. i \in Calls(T) /\ i \notin Q /\ Tip(T, d, r, i) /\ x # None
    BY <1>1, TopIsTip, ChainsParts
<1>3. \A j \in Calls(T) : d[j] \in Nat
    BY <1>1, ChainsParts
<1>4. \A j : Tip(U, d, r, j) <=> Tip(T, d, r, j)
    BY DEF Tip
<1>5. \A j \in Calls(T) : U[j].from = T[j].from /\ U[j].from_parent = T[j].from_parent
    BY DEF SameCall
<1>6. /\ Rel(U, P, x) = Rel(T, Q, x) \ {i}
      /\ \A y : y # x => Rel(U, P, y) = Rel(T, Q, y)
    <2>1. T[i].from # x
        BY <1>1, <1>2, ChainsParts DEF Senders
    <2>2. Rel(U, P, x) = Rel(T, Q, x) \ {i}
        BY <1>2, <2>1 DEF Rel, SameCall
    <2>3. ASSUME NEW y, y # x PROVE Rel(U, P, y) = Rel(T, Q, y)
        BY <1>2, <2>3 DEF Rel, SameCall
    <2> QED
        BY <2>2, <2>3
<1>7. Parents(U, P, d, r)
    <2> SUFFICES ASSUME NEW j \in Calls(T), T[j].from_parent # None
                 PROVE  /\ T[j].from_parent \in Calls(T) /\ T[j].from_parent \notin P
                        /\ U[T[j].from_parent].to_thread = T[j].from
                        /\ r[T[j].from_parent] = r[j] /\ d[T[j].from_parent] < d[j]
        BY <1>5 DEF Parents
    <2>1. /\ T[j].from_parent \in Calls(T) /\ T[j].from_parent \notin Q
          /\ T[T[j].from_parent].to_thread = T[j].from
          /\ r[T[j].from_parent] = r[j] /\ d[T[j].from_parent] < d[j]
        BY <1>1, ChainsParts DEF Parents
    <2>2. T[j].from_parent # i
        BY <1>2, <1>3, <2>1 DEF Tip
    <2> QED
        BY <2>1, <2>2 DEF SameCall
<1>8. Linear(U, d, r)
    BY <1>1, <1>5, ChainsParts DEF Linear
<1>9. Senders(U, th)
    BY <1>1, ChainsParts DEF Senders, SameCall
<1>10. Handlers(U, th, P, d, r)
    BY <1>1, <1>4, ChainsParts DEF Handlers, SameCall
<1>11. QueuedTips(U, P, d, r)
    BY <1>1, <1>2, <1>4, ChainsParts DEF QueuedTips
<1>12. Tops(U, v, th, P, d, r)
    <2>1. \A j \in Rel(T, Q, x) : j \in Calls(T) /\ r[j] = r[i] /\ d[j] <= d[i]
        BY <1>1, ChainsParts DEF Tops, Rel
    <2>2. \A j \in Rel(T, Q, x) : j # i => d[j] < d[i]
        <3>1. \A j \in Rel(T, Q, x) : j # i => d[j] # d[i]
            BY <1>1, <1>2, <2>1, ChainsParts DEF Linear
        <3> QED
            BY <1>2, <1>3, <2>1, <3>1
    <2>3. \A j \in Rel(T, Q, x) : j # i => v[x] # None /\ d[j] <= d[v[x]]
        BY <1>1, <1>2, <2>2, ChainsParts DEF Handled
    <2>4. v[x] # None => v[x] \in Calls(T) /\ T[v[x]].from = x /\ d[v[x]] < d[i]
        BY <1>1, <1>2, ChainsParts DEF Handled
    <2>5. v[x] # None => v[x] \in Rel(T, Q, x) /\ v[x] # i
        BY <1>2, <1>3, <2>4 DEF Rel
    <2>6. ASSUME NEW y \in th, y # x
          PROVE  /\ v[y] = None => Rel(U, P, y) = {}
                 /\ v[y] # None => v[y] \in Rel(U, P, y)
                 /\ \A j \in Rel(U, P, y) : r[j] = r[v[y]] /\ d[j] <= d[v[y]]
        <3>1. v[y] = s[y] /\ Rel(U, P, y) = Rel(T, Q, y)
            BY <1>6, <2>6
        <3>2. /\ s[y] = None => Rel(T, Q, y) = {}
              /\ s[y] # None => s[y] \in Rel(T, Q, y)
              /\ \A k \in Rel(T, Q, y) : r[k] = r[s[y]] /\ d[k] <= d[s[y]]
            BY <1>1, ChainsParts DEF Tops
        <3> QED
            BY <3>1, <3>2
    <2>7. /\ v[x] = None => Rel(U, P, x) = {}
          /\ v[x] # None => v[x] \in Rel(U, P, x)
          /\ \A j \in Rel(U, P, x) : r[j] = r[v[x]] /\ d[j] <= d[v[x]]
        BY <1>6, <2>1, <2>3, <2>5
    <2> QED
        BY <2>6, <2>7 DEF Tops
<1>13. Handled(U, P, d, r)
    <2> SUFFICES ASSUME NEW j \in Calls(T), j \notin P, U[j].to_thread # None
                 PROVE  /\ U[j].to_parent # None =>
                             /\ U[j].to_parent \in Calls(T)
                             /\ U[U[j].to_parent].from = U[j].to_thread
                             /\ d[U[j].to_parent] < d[j]
                        /\ \A k \in Rel(U, P, U[j].to_thread) : d[k] < d[j] =>
                             U[j].to_parent # None /\ d[k] <= d[U[j].to_parent]
        BY DEF Handled
    <2>1. j # i /\ j \notin Q /\ U[j].to_thread = T[j].to_thread /\ U[j].to_parent = T[j].to_parent
        BY DEF SameCall
    <2>2. \A y : Rel(U, P, y) \subseteq Rel(T, Q, y)
        BY <1>6
    <2>3. /\ T[j].to_parent # None =>
               /\ T[j].to_parent \in Calls(T)
               /\ T[T[j].to_parent].from = T[j].to_thread
               /\ d[T[j].to_parent] < d[j]
          /\ \A k \in Rel(T, Q, T[j].to_thread) : d[k] < d[j] =>
               T[j].to_parent # None /\ d[k] <= d[T[j].to_parent]
        BY <1>1, <2>1, ChainsParts DEF Handled
    <2> QED
        BY <1>5, <2>1, <2>2, <2>3
<1>14. Targets(U, v, th, P, r)
    <2> SUFFICES ASSUME NEW m \in P, U[m].to_thread \in th
                 PROVE  /\ v[U[m].to_thread] # None
                        /\ U[v[U[m].to_thread]].from = U[m].to_thread
                        /\ r[v[U[m].to_thread]] = r[m] /\ v[U[m].to_thread] # m
        BY DEF Targets
    <2>0. m # i
        BY <1>1, ChainsParts
    <2>1. m \in Q /\ m \in Calls(T) /\ U[m].to_thread = T[m].to_thread
        BY <1>1, <2>0, ChainsParts DEF QueuedTips, SameCall
    <2>2. /\ s[T[m].to_thread] # None
          /\ T[s[T[m].to_thread]].from = T[m].to_thread
          /\ r[s[T[m].to_thread]] = r[m] /\ s[T[m].to_thread] # m
        BY <1>1, <2>1, ChainsParts DEF Targets
    <2>3. T[m].to_thread # x
        BY <1>1, <1>2, <2>2, ChainsParts DEF Senders
    <2>4. v[T[m].to_thread] = s[T[m].to_thread] /\ s[T[m].to_thread] \in Calls(T)
        BY <1>1, <2>1, <2>2, <2>3, ChainsParts DEF Tops, Rel
    <2> QED
        BY <1>5, <2>1, <2>2, <2>4
<1> QED
    BY <1>1, <1>2, <1>7, <1>8, <1>9, <1>10, <1>11, <1>12, <1>13, <1>14, ChainsParts
    DEF Chains, ChainsBy

\* Thread x is freed: its transactions lose it, and the call that it handles
\* is nobody's until it is answered.
DisownStep(T, U, s, v, th, Q, P, x) ==
    /\ Chains(T, s, th, Q)
    /\ x \in th
    /\ P = Q \cup {i \in {s[x]} : i # None /\ T[i].to_thread = x}
    /\ Calls(U) = Calls(T)
    /\ \A j \in Calls(T) :
           /\ U[j].from_parent = T[j].from_parent /\ U[j].to_parent = T[j].to_parent
           /\ U[j].from = IF T[j].from = x THEN None ELSE T[j].from
           /\ U[j].to_thread = IF j \notin Q /\ T[j].to_thread = x THEN None ELSE T[j].to_thread
    /\ \A y \in th : y # x => v[y] = s[y]

\* The chains stay when a thread is freed.
LEMMA ChainsDisown ==
    ASSUME NEW T, NEW U, NEW s, NEW v, NEW th, NEW Q, NEW P, NEW x,
           DisownStep(T, U, s, v, th, Q, P, x)
    PROVE  Chains(U, v, th \ {x}, P)
<1> USE DEF DisownStep
<1>1. PICK d, r : ChainsBy(T, s, th, Q, d, r)
    BY DEF Chains
<1>2. x # None
    BY <1>1, ChainsParts
<1>3. \A j \in Calls(T) : d[j] \in Nat
    BY <1>1, ChainsParts
<1>4. \A j : Tip(U, d, r, j) <=> Tip(T, d, r, j)
    BY DEF Tip
<1>5. \A i \in P : i \notin Q => /\ i = s[x] /\ i # None /\ T[i].to_thread = x
                                 /\ i \in Calls(T) /\ Tip(T, d, r, i) /\ U[i].to_thread = None
    BY <1>1, TopIsTip
<1>6. \A i \in P : i \in Calls(T) /\ Tip(T, d, r, i)
    BY <1>1, <1>5, ChainsParts DEF QueuedTips
<1>7. \A y : y # x /\ y # None => Rel(U, P, y) = Rel(T, Q, y)
    <2> SUFFICES ASSUME NEW y, y # x, y # None, NEW j \in Calls(T)
                 PROVE  j \in Rel(U, P, y) <=> j \in Rel(T, Q, y)
        BY DEF Rel
    <2>1. U[j].from = y <=> T[j].from = y
        OBVIOUS
    <2>2. (j \notin P /\ U[j].to_thread = y) <=> (j \notin Q /\ T[j].to_thread = y)
        BY <1>5
    <2> QED
        BY <2>1, <2>2 DEF Rel
<1>8. Parents(U, P, d, r)
    <2> SUFFICES ASSUME NEW j \in Calls(T), T[j].from_parent # None
                 PROVE  /\ T[j].from_parent \in Calls(T) /\ T[j].from_parent \notin P
                        /\ U[T[j].from_parent].to_thread = U[j].from
                        /\ r[T[j].from_parent] = r[j] /\ d[T[j].from_parent] < d[j]
        BY DEF Parents
    <2>1. /\ T[j].from_parent \in Calls(T) /\ T[j].from_parent \notin Q
          /\ T[T[j].from_parent].to_thread = T[j].from
          /\ r[T[j].from_parent] = r[j] /\ d[T[j].from_parent] < d[j]
        BY <1>1, ChainsParts DEF Parents
    <2>2. T[j].from_parent \notin P
        BY <1>3, <1>6, <2>1 DEF Tip
    <2> QED
        BY <2>1, <2>2
<1>9. Linear(U, d, r)
    BY <1>1, ChainsParts DEF Linear
<1>10. Senders(U, th \ {x})
    BY <1>1, ChainsParts DEF Senders
<1>11. Handlers(U, th \ {x}, P, d, r)
    <2> SUFFICES ASSUME NEW j \in Calls(T), j \notin P
                 PROVE  /\ U[j].to_thread = None => ~Tip(T, d, r, j)
                        /\ U[j].to_thread # None => U[j].to_thread \in th \ {x}
        BY <1>4 DEF Handlers
    <2>1. j \notin Q
        OBVIOUS
    <2>2. /\ T[j].to_thread = None => ~Tip(T, d, r, j)
          /\ T[j].to_thread # None => T[j].to_thread \in th
        BY <1>1, <2>1, ChainsParts DEF Handlers
    <2>3. ASSUME T[j].to_thread = x PROVE ~Tip(T, d, r, j)
        <3>1. j \in Rel(T, Q, x)
            BY <2>1, <2>3 DEF Rel
        <3>2. s[x] # None /\ s[x] \in Calls(T) /\ r[j] = r[s[x]] /\ d[j] <= d[s[x]]
            BY <1>1, <3>1, ChainsParts DEF Tops, Rel
        <3>3. j # s[x]
            BY <2>3, <3>2
        <3>4. d[j] # d[s[x]]
            BY <1>1, <3>2, <3>3, ChainsParts DEF Linear
        <3>5. d[j] < d[s[x]]
            BY <1>3, <3>2, <3>4
        <3> QED
            BY <1>3, <3>2, <3>5 DEF Tip
    <2> QED
        BY <2>1, <2>2, <2>3
<1>12. QueuedTips(U, P, d, r)
    BY <1>4, <1>6 DEF QueuedTips
<1>13. Tops(U, v, th \ {x}, P, d, r)
    <2>1. ASSUME NEW y \in th, y # x
          PROVE  /\ v[y] = None => Rel(U, P, y) = {}
                 /\ v[y] # None => v[y] \in Rel(U, P, y)
                 /\ \A j \in Rel(U, P, y) : r[j] = r[v[y]] /\ d[j] <= d[v[y]]
        <3>1. v[y] = s[y] /\ Rel(U, P, y) = Rel(T, Q, y)
            BY <1>1, <1>7, <2>1, ChainsParts
        <3>2. /\ s[y] = None => Rel(T, Q, y) = {}
              /\ s[y] # None => s[y] \in Rel(T, Q, y)
              /\ \A k \in Rel(T, Q, y) : r[k] = r[s[y]] /\ d[k] <= d[s[y]]
            BY <1>1, ChainsParts DEF Tops
        <3> QED
            BY <3>1, <3>2
    <2> QED
        BY <2>1 DEF Tops
<1>14. Handled(U, P, d, r)
    <2> SUFFICES ASSUME NEW j \in Calls(T), j \notin P, U[j].to_thread # None
                 PROVE  /\ T[j].to_parent # None =>
                             /\ T[j].to_parent \in Calls(T)
                             /\ U[T[j].to_parent].from = U[j].to_thread
                             /\ d[T[j].to_parent] < d[j]
                        /\ \A k \in Rel(U, P, U[j].to_thread) : d[k] < d[j] =>
                             T[j].to_parent # None /\ d[k] <= d[T[j].to_parent]
        BY DEF Handled
    <2>1. j \notin Q /\ U[j].to_thread = T[j].to_thread /\ T[j].to_thread # x
        OBVIOUS
    <2>2. Rel(U, P, U[j].to_thread) = Rel(T, Q, T[j].to_thread)
        BY <1>7, <2>1
    <2>3. /\ T[j].to_parent # None =>
               /\ T[j].to_parent \in Calls(T)
               /\ T[T[j].to_parent].from = T[j].to_thread
               /\ d[T[j].to_parent] < d[j]
          /\ \A k \in Rel(T, Q, T[j].to_thread) : d[k] < d[j] =>
               T[j].to_parent # None /\ d[k] <= d[T[j].to_parent]
        BY <1>1, <2>1, ChainsParts DEF Handled
    <2> QED
        BY <2>1, <2>2, <2>3
<1>15. Targets(U, v, th \ {x}, P, r)
    <2> SUFFICES ASSUME NEW m \in P, U[m].to_thread \in th \ {x}
                 PROVE  /\ v[U[m].to_thread] # None
                        /\ U[v[U[m].to_thread]].from = U[m].to_thread
                        /\ r[v[U[m].to_thread]] = r[m] /\ v[U[m].to_thread] # m
        BY DEF Targets
    <2>1. m \in Q /\ m \in Calls(T) /\ U[m].to_thread = T[m].to_thread
        BY <1>1, <1>5, <1>6, ChainsParts
    <2>2. /\ s[T[m].to_thread] # None
          /\ T[s[T[m].to_thread]].from = T[m].to_thread
          /\ r[s[T[m].to_thread]] = r[m] /\ s[T[m].to_thread] # m
        BY <1>1, <2>1, ChainsParts DEF Targets
    <2>3. v[T[m].to_thread] = s[T[m].to_thread] /\ s[T[m].to_thread] \in Calls(T)
        BY <1>1, <2>1, <2>2, ChainsParts DEF Tops, Rel
    <2> QED
        BY <2>1, <2>2, <2>3
<1> QED
    BY <1>1, <1>8, <1>9, <1>10, <1>11, <1>12, <1>13, <1>14, <1>15, ChainsParts
    DEF Chains, ChainsBy

\* An answer to the call i walks over the calls g, which have lost their senders,
\* to t, which has one, or beyond the first call of the chain.
Walk(T, i, g, t, d, r) ==
    /\ g \subseteq Calls(T)
    /\ t # None => t \in Calls(T) /\ T[t].from # None /\ t \notin g
    /\ i \in g \cup {t}
    /\ \A j \in g : T[j].from = None /\ T[j].from_parent \in g \cup {t}
    /\ \A j \in g \cup {t} : j # None =>
         /\ r[j] = r[i]
         /\ j # i => \E c \in g : T[c].from_parent = j
         /\ \A k \in Calls(T) : r[k] = r[i] /\ k \notin g \cup {t} => d[k] < d[j]

\* The answer: the calls walked over are freed, and the sender that is told
\* has the call on top of its stack.
AnswerStep(T, U, s, v, th, Q, i, g, t) ==
    /\ Chains(T, s, th, Q)
    /\ i \in Q
    /\ i # None
    /\ None \notin Calls(T)
    /\ \A d, r : ChainsBy(T, s, th, Q, d, r) => Walk(T, i, g, t, d, r)
    /\ Calls(U) = Calls(T) \ (g \cup {t})
    /\ \A j \in Calls(U) : SameCall(T, U, j)
    /\ t # None => v[T[t].from] = T[t].from_parent
    /\ \A y \in th : (t # None => y # T[t].from) => v[y] = s[y]

\* The chains stay when a call is answered, and the answer finds its sender.
LEMMA ChainsAnswer ==
    ASSUME NEW T, NEW U, NEW s, NEW v, NEW th, NEW Q, NEW i, NEW g, NEW t,
           AnswerStep(T, U, s, v, th, Q, i, g, t)
    PROVE  /\ t # None => t \in Calls(T) /\ T[t].from \in th /\ s[T[t].from] = t
                          /\ (T[t].from_parent # None =>
                                T[T[t].from_parent].to_thread = T[t].from)
           /\ Chains(U, v, th, Q \ {i})
<1> USE DEF AnswerStep
<1>1. PICK d, r : ChainsBy(T, s, th, Q, d, r)
    BY DEF Chains
<1>2. Walk(T, i, g, t, d, r)
    BY <1>1
<1> DEFINE D == g \cup {t}
           x == T[t].from
           P == Q \ {i}
<1>3. \A j \in Calls(T) : d[j] \in Nat /\ j # None
    BY <1>1, ChainsParts
<1>4. i \in Calls(T) /\ Tip(T, d, r, i)
    BY <1>1, ChainsParts DEF QueuedTips
\* Whoever is walked over is not in Q, but for i, and has no handler.
<1>5. \A j \in D : j # None /\ j # i => j \in Calls(T) /\ j \notin Q /\ T[j].to_thread = None
    <2> SUFFICES ASSUME NEW j \in D, j # None, j # i
                 PROVE  j \in Calls(T) /\ j \notin Q /\ T[j].to_thread = None
        OBVIOUS
    <2>1. PICK c \in g : T[c].from_parent = j
        BY <1>2 DEF Walk
    <2>2. c \in Calls(T) /\ T[c].from = None
        BY <1>2 DEF Walk
    <2> QED
        BY <1>1, <2>1, <2>2, ChainsParts DEF Parents
<1>6. \A j \in D : j # None => j \in Calls(T) /\ r[j] = r[i]
    BY <1>2, <1>4, <1>5 DEF Walk
<1>7. t # None => /\ t \in Calls(T) /\ x \in th /\ x # None
                  /\ T[t].from_parent # None =>
                       T[T[t].from_parent].to_thread = x
    BY <1>1, <1>2, ChainsParts DEF Walk, Senders, Parents
\* Only t is somebody's.
<1>8. \A y : \A j \in Rel(T, Q, y) : y # None /\ j \in D => j = t /\ t # None /\ y = x
    <2> SUFFICES ASSUME NEW y, NEW j \in Rel(T, Q, y), y # None, j \in D
                 PROVE  j = t /\ t # None /\ y = x
        OBVIOUS
    <2>1. j \in Calls(T) /\ (T[j].from = y \/ (j \notin Q /\ T[j].to_thread = y))
        BY DEF Rel
    <2>2. T[j].from = y
        BY <1>3, <1>5, <2>1
    <2>3. j \notin g
        BY <1>2, <2>2 DEF Walk
    <2> QED
        BY <1>3, <2>1, <2>2, <2>3
<1>9. ASSUME t # None PROVE s[x] = t
    <2>1. t \in Rel(T, Q, x)
        BY <1>7, <1>9 DEF Rel
    <2>2. s[x] # None /\ s[x] \in Rel(T, Q, x) /\ r[t] = r[s[x]] /\ d[t] <= d[s[x]]
        BY <1>1, <1>7, <1>9, <2>1, ChainsParts DEF Tops
    <2>3. s[x] \in Calls(T) /\ r[s[x]] = r[i]
        BY <1>6, <1>9, <2>2 DEF Rel
    <2>4. s[x] \in D
        <3>1. SUFFICES ASSUME s[x] \notin D PROVE FALSE
            OBVIOUS
        <3>2. d[s[x]] < d[t]
            BY <1>2, <1>9, <2>3, <3>1 DEF Walk
        <3> QED
            BY <1>3, <1>7, <1>9, <2>2, <2>3, <3>2
    <2> QED
        BY <1>7, <1>8, <1>9, <2>2, <2>4
<1>10. Calls(U) \subseteq Calls(T)
    OBVIOUS
<1>11. \A y : y # None => Rel(U, P, y) = Rel(T, Q, y) \ D
    <2> SUFFICES ASSUME NEW y, y # None, NEW j \in Calls(U)
                 PROVE  j \in Rel(U, P, y) <=> j \in Rel(T, Q, y)
        BY DEF Rel
    <2>1. j # i
        BY <1>2 DEF Walk
    <2> QED
        BY <2>1 DEF Rel, SameCall
<1>12. Parents(U, P, d, r)
    <2> SUFFICES ASSUME NEW j \in Calls(U), U[j].from_parent # None
                 PROVE  /\ U[j].from_parent \in Calls(U) /\ U[j].from_parent \notin P
                        /\ U[U[j].from_parent].to_thread = U[j].from
                        /\ r[U[j].from_parent] = r[j] /\ d[U[j].from_parent] < d[j]
        BY DEF Parents
    <2>1. /\ j \in Calls(T) /\ j \notin D
          /\ U[j].from_parent = T[j].from_parent /\ U[j].from = T[j].from
        BY DEF SameCall
    <2>2. /\ T[j].from_parent \in Calls(T) /\ T[j].from_parent \notin Q
          /\ T[T[j].from_parent].to_thread = T[j].from
          /\ r[T[j].from_parent] = r[j] /\ d[T[j].from_parent] < d[j]
        BY <1>1, <2>1, ChainsParts DEF Parents
    <2>3. T[j].from_parent \notin D
        <3>1. SUFFICES ASSUME T[j].from_parent \in D PROVE FALSE
            OBVIOUS
        <3>2. r[j] = r[i]
            BY <1>3, <1>6, <2>2, <3>1
        <3>3. d[j] < d[T[j].from_parent]
            BY <1>2, <1>3, <2>1, <2>2, <3>1, <3>2 DEF Walk
        <3> QED
            BY <1>3, <2>1, <2>2, <3>3
    <2> QED
        BY <2>1, <2>2, <2>3 DEF SameCall
<1>13. Linear(U, d, r)
    BY <1>1, <1>10, ChainsParts DEF Linear, SameCall
<1>14. Senders(U, th)
    BY <1>1, <1>10, ChainsParts DEF Senders, SameCall
<1>15. Handlers(U, th, P, d, r)
    <2> SUFFICES ASSUME NEW j \in Calls(U), j \notin P
                 PROVE  /\ U[j].to_thread = None => ~Tip(U, d, r, j)
                        /\ U[j].to_thread # None => U[j].to_thread \in th
        BY DEF Handlers
    <2>1. j \in Calls(T) /\ j \notin D /\ j \notin Q /\ U[j].to_thread = T[j].to_thread
        BY <1>2 DEF Walk, SameCall
    <2>2. ASSUME T[j].to_thread = None PROVE ~Tip(U, d, r, j)
        <3>1. ~Tip(T, d, r, j)
            BY <1>1, <2>1, <2>2, ChainsParts DEF Handlers
        <3>2. PICK c \in Calls(T) : T[c].from_parent = j /\ r[c] = r[j] /\ d[j] < d[c]
            BY <1>1, <2>1, <3>1, ChildOf
        <3>3. T[c].from = None
            BY <1>1, <1>3, <2>1, <2>2, <3>2, ChainsParts DEF Parents
        <3>4. c \notin D
            BY <1>2, <1>3, <2>1, <3>2, <3>3 DEF Walk
        <3>5. c \in Calls(U)
            BY <3>2, <3>4
        <3> QED
            BY <1>3, <2>1, <3>2, <3>5 DEF Tip
    <2> QED
        BY <1>1, <2>1, <2>2, ChainsParts DEF Handlers
<1>16. QueuedTips(U, P, d, r)
    <2> SUFFICES ASSUME NEW m \in P PROVE m \in Calls(U) /\ Tip(U, d, r, m)
        BY DEF QueuedTips
    <2>1. m \in Calls(T) /\ Tip(T, d, r, m) /\ m \in Q /\ m # i
        BY <1>1, ChainsParts DEF QueuedTips
    <2>2. m \notin D
        BY <1>3, <1>5, <2>1
    <2> QED
        BY <2>1, <2>2 DEF Tip
<1>17. Tops(U, v, th, P, d, r)
    <2>1. ASSUME NEW y \in th, t # None => y # x
          PROVE  /\ v[y] = None => Rel(U, P, y) = {}
                 /\ v[y] # None => v[y] \in Rel(U, P, y)
                 /\ \A j \in Rel(U, P, y) : r[j] = r[v[y]] /\ d[j] <= d[v[y]]
        <3>0. y # None
            BY <1>1, ChainsParts
        <3>1. v[y] = s[y] /\ Rel(U, P, y) = Rel(T, Q, y)
            BY <1>8, <1>11, <2>1, <3>0
        <3>2. /\ s[y] = None => Rel(T, Q, y) = {}
              /\ s[y] # None => s[y] \in Rel(T, Q, y)
              /\ \A k \in Rel(T, Q, y) : r[k] = r[s[y]] /\ d[k] <= d[s[y]]
            BY <1>1, ChainsParts DEF Tops
        <3> QED
            BY <3>1, <3>2
    <2>2. ASSUME t # None
          PROVE  /\ v[x] = None => Rel(U, P, x) = {}
                 /\ v[x] # None => v[x] \in Rel(U, P, x)
                 /\ \A j \in Rel(U, P, x) : r[j] = r[v[x]] /\ d[j] <= d[v[x]]
        <3>1. s[x] = t /\ v[x] = T[t].from_parent /\ x \in th /\ t \in Calls(T)
            BY <1>7, <1>9, <2>2
        <3>2. Rel(U, P, x) = Rel(T, Q, x) \ {t}
            <4>1. x # None
                BY <1>7, <2>2
            <4>2. Rel(U, P, x) = Rel(T, Q, x) \ D
                BY <1>11, <4>1
            <4>3. \A j \in Rel(T, Q, x) : j \in D <=> j = t
                BY <1>8, <4>1
            <4> QED
                BY <4>2, <4>3
        <3>3. ASSUME NEW j \in Rel(T, Q, x), j # t
              PROVE  r[j] = r[t] /\ v[x] # None /\ d[j] <= d[v[x]]
            <4>1. j \in Calls(T) /\ r[j] = r[t] /\ d[j] <= d[t]
                BY <1>1, <3>1, ChainsParts DEF Tops, Rel
            <4>2. d[j] # d[t]
                BY <1>1, <3>1, <3>3, <4>1, ChainsParts DEF Linear
            <4>3. d[j] < d[t]
                BY <1>3, <3>1, <4>1, <4>2
            <4> QED
                BY <1>1, <3>1, <3>3, <4>1, <4>3, ChainsParts DEF Linear
        <3>4. ASSUME v[x] # None
              PROVE  v[x] \in Rel(T, Q, x) /\ v[x] # t /\ r[v[x]] = r[t]
            <4>1. /\ v[x] \in Calls(T) /\ v[x] \notin Q /\ T[v[x]].to_thread = x
                  /\ r[v[x]] = r[t] /\ d[v[x]] < d[t]
                BY <1>1, <3>1, <3>4, ChainsParts DEF Parents
            <4> QED
                BY <1>3, <4>1 DEF Rel
        <3> QED
            BY <3>2, <3>3, <3>4
    <2> QED
        BY <2>1, <2>2 DEF Tops
<1>18. Handled(U, P, d, r)
    <2> SUFFICES ASSUME NEW j \in Calls(U), j \notin P, U[j].to_thread # None
                 PROVE  /\ U[j].to_parent # None =>
                             /\ U[j].to_parent \in Calls(U)
                             /\ U[U[j].to_parent].from = U[j].to_thread
                             /\ d[U[j].to_parent] < d[j]
                        /\ \A k \in Rel(U, P, U[j].to_thread) : d[k] < d[j] =>
                             U[j].to_parent # None /\ d[k] <= d[U[j].to_parent]
        BY DEF Handled
    <2>1. /\ j \in Calls(T) /\ j \notin Q /\ j \notin D
          /\ U[j].to_thread = T[j].to_thread /\ U[j].to_parent = T[j].to_parent
        BY <1>2 DEF Walk, SameCall
    <2>2. Rel(U, P, T[j].to_thread) \subseteq Rel(T, Q, T[j].to_thread)
        BY <1>11, <2>1
    <2>3. /\ T[j].to_parent # None =>
               /\ T[j].to_parent \in Calls(T)
               /\ T[T[j].to_parent].from = T[j].to_thread
               /\ d[T[j].to_parent] < d[j]
          /\ \A k \in Rel(T, Q, T[j].to_thread) : d[k] < d[j] =>
               T[j].to_parent # None /\ d[k] <= d[T[j].to_parent]
        BY <1>1, <2>1, ChainsParts DEF Handled
    <2>4. ASSUME T[j].to_parent # None PROVE T[j].to_parent \notin D
        <3>1. SUFFICES ASSUME T[j].to_parent \in D PROVE FALSE
            OBVIOUS
        <3>2. T[j].to_parent \in Rel(T, Q, T[j].to_thread)
            BY <2>3, <2>4 DEF Rel
        <3>3. T[j].to_parent = t /\ t # None /\ T[j].to_thread = x
            BY <1>8, <2>1, <3>1, <3>2
        <3>4. j \in Rel(T, Q, x)
            BY <2>1, <3>3 DEF Rel
        <3>5. d[j] <= d[t]
            BY <1>1, <1>7, <1>9, <3>3, <3>4, ChainsParts DEF Tops
        <3> QED
            BY <1>3, <1>7, <2>1, <2>3, <2>4, <3>3, <3>5
    <2> QED
        BY <2>1, <2>2, <2>3, <2>4 DEF SameCall
<1>19. Targets(U, v, th, P, r)
    <2> SUFFICES ASSUME NEW m \in P, U[m].to_thread \in th
                 PROVE  /\ v[U[m].to_thread] # None
                        /\ U[v[U[m].to_thread]].from = U[m].to_thread
                        /\ r[v[U[m].to_thread]] = r[m] /\ v[U[m].to_thread] # m
        BY DEF Targets
    <2>1. /\ m \in Q /\ m # i /\ m \in Calls(U) /\ m \in Calls(T) /\ Tip(T, d, r, m)
          /\ U[m].to_thread = T[m].to_thread
        BY <1>1, <1>16, ChainsParts DEF QueuedTips, SameCall
    <2>2. /\ s[T[m].to_thread] # None
          /\ T[s[T[m].to_thread]].from = T[m].to_thread
          /\ r[s[T[m].to_thread]] = r[m] /\ s[T[m].to_thread] # m
        BY <1>1, <2>1, ChainsParts DEF Targets
    <2>3. t # None => T[m].to_thread # x
        <3>1. SUFFICES ASSUME t # None, T[m].to_thread = x PROVE FALSE
            OBVIOUS
        <3>2. r[m] = r[i]
            BY <1>6, <1>9, <2>2, <3>1
        <3> QED
            BY <1>1, <1>4, <2>1, <3>2, TipUnique
    <2>4. v[T[m].to_thread] = s[T[m].to_thread]
        BY <2>1, <2>3
    <2>5. s[T[m].to_thread] \in Rel(T, Q, T[m].to_thread) /\ T[m].to_thread # None
        BY <1>1, <2>1, <2>2, ChainsParts DEF Tops
    <2>6. s[T[m].to_thread] \in Calls(U)
        BY <1>8, <2>3, <2>5 DEF Rel
    <2> QED
        BY <2>1, <2>2, <2>4, <2>6 DEF SameCall
<1> QED
    BY <1>1, <1>7, <1>9, <1>12, <1>13, <1>14, <1>15, <1>16, <1>17, <1>18, <1>19, ChainsParts
    DEF Chains, ChainsBy

-----------------------------------------------------------------------------
(***************************************************************************)
(* What the walks over the calls find.                                     *)
(***************************************************************************)
N == Cardinality(Id)

\* The number of ids is a number.
LEMMA NType == N \in Nat /\ IsFiniteSet(Id)
BY BinderAssumption, FS_CardinalityType DEF N

\* C is the walk from i to its from_parent and on.
ChainFn(T, i, C) ==
    /\ C[0] = i
    /\ \A k \in 1 .. N : C[k] = IF C[k - 1] = None THEN None ELSE T[C[k - 1]].from_parent

\* The recursive definition of FromChain has a solution.
LEMMA FromChainIs ==
    ASSUME NEW T, NEW i
    PROVE  ChainFn(T, i, FromChain(T, i)) /\ DOMAIN FromChain(T, i) = 0 .. N
<1> DEFINE Step(v) == IF v = None THEN None ELSE T[v].from_parent
           Is(f, m) == f = [k \in 0 .. m |-> IF k = 0 THEN i ELSE Step(f[k - 1])]
           Bad == {m \in Nat : ~\E f : Is(f, m)}
<1> HIDE DEF Step
<1>1. Bad = {}
    <2>1. SUFFICES ASSUME Bad # {} PROVE FALSE
        OBVIOUS
    <2>2. PICK m \in Bad : \A y \in Bad : m <= y
        <3>1. Bad \in SUBSET Nat
            OBVIOUS
        <3> HIDE DEF Bad
        <3> QED
            BY <2>1, <3>1, Least
    <2>3. m # 0
        <3>1. Is([k \in 0 .. 0 |-> i], 0)
            OBVIOUS
        <3> QED
            BY <3>1
    <2>4. m - 1 \in Nat /\ m - 1 \notin Bad /\ m \in Nat
        <3>1. m \in Nat
            OBVIOUS
        <3>2. m - 1 \in Nat /\ ~(m <= m - 1)
            BY <2>3, <3>1
        <3> HIDE DEF Bad
        <3> QED
            BY <2>2, <3>1, <3>2
    <2>5. PICK f : Is(f, m - 1)
        BY <2>4
    <2> DEFINE g == [k \in 0 .. m |-> IF k = m THEN Step(f[m - 1]) ELSE f[k]]
    <2>6. ASSUME NEW k \in 0 .. m
          PROVE  g[k] = IF k = 0 THEN i ELSE Step(g[k - 1])
        <3>1. CASE k = 0
            BY <2>3, <2>4, <2>5, <3>1
        <3>2. CASE k = m
            <4>1. g[k - 1] = f[m - 1]
                BY <2>3, <2>4, <3>2
            <4> QED
                BY <2>3, <3>2, <4>1
        <3>3. CASE k # 0 /\ k # m
            <4>1. k \in 0 .. m - 1 /\ k - 1 \in 0 .. m /\ k - 1 # m
                BY <2>4, <3>3
            <4>2. f[k] = Step(f[k - 1])
                BY <2>5, <3>3, <4>1
            <4> QED
                BY <3>3, <4>1, <4>2
        <3> QED
            BY <3>1, <3>2, <3>3
    <2>7. Is(g, m)
        BY <2>6
    <2> QED
        BY <2>2, <2>7
<1>2. \E f : Is(f, N)
    BY <1>1, NType
<1> DEFINE C == CHOOSE f : Is(f, N)
<1>3. Is(C, N)
    <2> HIDE DEF Is
    <2> QED
        BY <1>2
<1>4. FromChain(T, i) = C
    BY DEF FromChain, Step, N
<1> HIDE DEF C
<1>5. C[0] = i /\ DOMAIN C = 0 .. N /\ \A k \in 1 .. N : C[k] = Step(C[k - 1])
    BY <1>3, NType
<1> QED
    BY <1>4, <1>5 DEF ChainFn, Step

\* The walk stays among the calls, and goes beyond the first of the chain.
LEMMA ChainEnds ==
    ASSUME NEW T, NEW s, NEW th, NEW Q, NEW d, NEW r, ChainsBy(T, s, th, Q, d, r),
           NEW i \in Calls(T), NEW C, ChainFn(T, i, C)
    PROVE  /\ \A k \in 0 .. N : C[k] # None => C[k] \in Calls(T) /\ r[C[k]] = r[i]
           /\ \A l \in 0 .. N : \A k \in 0 .. l - 1 :
                C[l] # None => C[k] # None /\ d[C[l]] < d[C[k]]
           /\ C[N] = None
<1> USE NType
<1>0. None \notin Id /\ \A j \in Calls(T) : j \in Id /\ d[j] \in Nat
    BY ChainsParts, BinderAssumption
<1>1. ASSUME NEW k \in 1 .. N, C[k] # None, C[k - 1] # None => C[k - 1] \in Calls(T)
      PROVE  /\ C[k - 1] # None /\ C[k] \in Calls(T)
             /\ d[C[k]] < d[C[k - 1]] /\ r[C[k]] = r[C[k - 1]]
    <2>1. C[k - 1] # None /\ C[k] = T[C[k - 1]].from_parent
        BY <1>1 DEF ChainFn
    <2> QED
        BY <1>1, <2>1, ChainsParts DEF Parents
<1>2. \A k \in 0 .. N : C[k] # None => C[k] \in Calls(T) /\ r[C[k]] = r[i]
    <2> DEFINE Bad == {k \in 0 .. N : C[k] # None /\ ~(C[k] \in Calls(T) /\ r[C[k]] = r[i])}
    <2>1. SUFFICES ASSUME Bad # {} PROVE FALSE
        OBVIOUS
    <2>2. PICK k \in Bad : \A y \in Bad : k <= y
        <3>1. Bad \in SUBSET Nat
            OBVIOUS
        <3> HIDE DEF Bad
        <3> QED
            BY <2>1, <3>1, Least
    <2>3. k # 0
        BY <2>2 DEF ChainFn
    <2>4. k \in 1 .. N /\ k - 1 \in 0 .. N /\ k - 1 \notin Bad
        BY <2>2, <2>3
    <2>5. C[k - 1] # None => C[k - 1] \in Calls(T) /\ r[C[k - 1]] = r[i]
        BY <2>4
    <2>6. C[k] \in Calls(T) /\ r[C[k]] = r[i]
        BY <1>1, <2>2, <2>4, <2>5
    <2> QED
        BY <2>2, <2>6
<1>3. \A l \in 0 .. N : \A k \in 0 .. l - 1 : C[l] # None => C[k] # None /\ d[C[l]] < d[C[k]]
    <2> DEFINE Bad == {l \in 0 .. N : \E k \in 0 .. l - 1 :
                         C[l] # None /\ ~(C[k] # None /\ d[C[l]] < d[C[k]])}
    <2>1. SUFFICES ASSUME Bad # {} PROVE FALSE
        OBVIOUS
    <2>2. PICK l \in Bad : \A y \in Bad : l <= y
        <3>1. Bad \in SUBSET Nat
            OBVIOUS
        <3> HIDE DEF Bad
        <3> QED
            BY <2>1, <3>1, Least
    <2>3. PICK k \in 0 .. l - 1 : C[l] # None /\ ~(C[k] # None /\ d[C[l]] < d[C[k]])
        BY <2>2
    <2>4. l \in 1 .. N /\ l - 1 \in 0 .. N /\ l - 1 \notin Bad
        BY <2>2, <2>3
    <2>5. C[l - 1] # None => C[l - 1] \in Calls(T)
        BY <1>2, <2>4
    <2>6. C[l - 1] # None /\ C[l] \in Calls(T) /\ d[C[l]] < d[C[l - 1]]
        BY <1>1, <2>3, <2>4, <2>5
    <2>7. k # l - 1
        BY <2>3, <2>6
    <2>8. k \in 0 .. l - 1 - 1
        BY <2>3, <2>4, <2>7
    <2>9. C[k] # None /\ d[C[l - 1]] < d[C[k]]
        BY <2>4, <2>6, <2>8
    <2>10. k \in 0 .. N
        BY <2>3, <2>4
    <2>11. C[k] \in Calls(T) /\ C[l - 1] \in Calls(T)
        BY <1>2, <2>5, <2>6, <2>9, <2>10
    <2>12. d[C[l]] < d[C[k]]
        BY <1>0, <2>6, <2>9, <2>11
    <2> QED
        BY <2>3, <2>9, <2>12
<1>4. C[N] = None
    <2>1. SUFFICES ASSUME C[N] # None PROVE FALSE
        OBVIOUS
    <2>2. ASSUME NEW k \in 0 .. N PROVE C[k] # None /\ C[k] \in Id
        <3>1. C[k] # None
            <4>1. CASE k = N
                BY <2>1, <4>1
            <4>2. CASE k # N
                <5>1. k \in 0 .. N - 1 /\ N \in 0 .. N
                    BY <4>2
                <5> QED
                    BY <1>3, <2>1, <5>1
            <4> QED
                BY <4>1, <4>2
        <3> QED
            BY <1>0, <1>2, <3>1
    <2> DEFINE f == [k \in 0 .. N |-> C[k]]
    <2>3. f \in [0 .. N -> Id]
        BY <2>2
    <2>4. ASSUME NEW k \in 0 .. N, NEW l \in 0 .. N, k < l PROVE C[k] # C[l]
        <3>1. k \in 0 .. l - 1
            BY <2>4
        <3>2. d[C[l]] < d[C[k]]
            BY <1>3, <2>2, <3>1
        <3>3. d[C[l]] \in Nat
            BY <1>0, <1>2, <2>2
        <3> QED
            BY <3>2, <3>3
    <2>5. \A k, l \in 0 .. N : f[k] = f[l] => k = l
        BY <2>4
    <2>6. f \in Injection(0 .. N, Id)
        BY <2>3, <2>5 DEF Injection, IsInjective
    <2>7. Cardinality(0 .. N) <= Cardinality(Id)
        <3> HIDE DEF f
        <3> QED
            BY <2>6, FS_Injection
    <2>8. Cardinality(0 .. N) = N + 1
        BY FS_Interval
    <2> QED
        BY <2>7, <2>8 DEF N
<1> QED
    BY <1>2, <1>3, <1>4

\* n is the first place of the walk that has a sender, or is beyond the end.
FirstSender(T, C, n) ==
    /\ n \in 0 .. N
    /\ C[n] = None \/ T[C[n]].from # None
    /\ \A k \in 0 .. n - 1 : C[k] # None /\ T[C[k]].from = None

\* Senderless finds that place.
LEMMA SenderlessIs ==
    ASSUME NEW T, NEW i, FromChain(T, i)[N] = None
    PROVE  FirstSender(T, FromChain(T, i), Senderless(T, i))
<1> DEFINE C == FromChain(T, i)
           K == {k \in 0 .. N : C[k] = None \/ (C[k] # None /\ T[C[k]].from # None)}
<1>1. DOMAIN C = 0 .. N
    BY FromChainIs
<1>2. K # {} /\ K \in SUBSET Nat
    BY NType
<1>3. PICK m \in K : \A y \in K : m <= y
    <2> HIDE DEF K
    <2> QED
        BY <1>2, Least
<1> DEFINE n == CHOOSE x \in K : \A y \in K : x <= y
<1>4. n \in K /\ \A y \in K : n <= y
    <2> HIDE DEF K
    <2> QED
        BY <1>3
<1>5. Senderless(T, i) = n
    BY <1>1 DEF Senderless, Min
<1> HIDE DEF n, C
<1>6. ASSUME NEW k \in 0 .. n - 1 PROVE C[k] # None /\ T[C[k]].from = None
    <2>1. k \in 0 .. N /\ ~(n <= k)
        BY <1>4, NType
    <2>2. k \notin K
        BY <1>4, <2>1
    <2> QED
        BY <2>1, <2>2
<1>7. n \in 0 .. N /\ (C[n] = None \/ T[C[n]].from # None)
    BY <1>4
<1> QED
    BY <1>5, <1>6, <1>7 DEF FirstSender, C

\* What an answer walks over.
LEMMA WalkIs ==
    ASSUME NEW T, NEW s, NEW th, NEW Q, NEW d, NEW r, ChainsBy(T, s, th, Q, d, r),
           NEW i \in Calls(T), Tip(T, d, r, i), NEW C, ChainFn(T, i, C),
           NEW n, FirstSender(T, C, n)
    PROVE  Walk(T, i, {C[k] : k \in 0 .. n - 1}, C[n], d, r)
<1> DEFINE g == {C[k] : k \in 0 .. n - 1}
           t == C[n]
<1> USE NType
<1>1. /\ \A k \in 0 .. N : C[k] # None => C[k] \in Calls(T) /\ r[C[k]] = r[i]
      /\ \A l \in 0 .. N : \A k \in 0 .. l - 1 : C[l] # None => C[k] # None /\ d[C[l]] < d[C[k]]
    BY ChainEnds
<1>2. n \in 0 .. N /\ \A k \in 0 .. n - 1 : k \in 0 .. N /\ k + 1 \in 1 .. N /\ k + 1 \in 0 .. n
    BY DEF FirstSender
<1>3. \A j \in Calls(T) : d[j] \in Nat
    BY ChainsParts
<1>4. g \subseteq Calls(T) /\ \A j \in g : T[j].from = None /\ j # None
    BY <1>1, <1>2 DEF FirstSender
<1>5. ASSUME t # None PROVE t \in Calls(T) /\ T[t].from # None /\ t \notin g
    <2>1. t \in Calls(T) /\ T[t].from # None
        BY <1>1, <1>2, <1>5 DEF FirstSender
    <2> QED
        BY <1>4, <2>1
<1>6. \A j \in g : T[j].from_parent \in g \cup {t}
    <2> SUFFICES ASSUME NEW k \in 0 .. n - 1 PROVE T[C[k]].from_parent \in g \cup {t}
        OBVIOUS
    <2>1. k + 1 \in 1 .. N /\ k + 1 - 1 = k /\ C[k] # None
        BY <1>2 DEF FirstSender
    <2>2. C[k + 1] = T[C[k]].from_parent
        BY <2>1 DEF ChainFn
    <2>3. k + 1 = n \/ k + 1 \in 0 .. n - 1
        BY <1>2
    <2> QED
        BY <2>2, <2>3
<1>7. i \in g \cup {t}
    <2>1. n = 0 \/ 0 \in 0 .. n - 1
        BY <1>2
    <2> QED
        BY <2>1 DEF ChainFn
<1>8. \A j \in g \cup {t} : \E k \in 0 .. n : j = C[k]
    BY <1>2
<1>9. ASSUME NEW k \in 0 .. n, C[k] # None
      PROVE  r[C[k]] = r[i] /\ (C[k] # i => \E c \in g : T[c].from_parent = C[k])
    <2>1. k \in 0 .. N
        BY <1>2
    <2>2. r[C[k]] = r[i]
        BY <1>1, <1>9, <2>1
    <2>3. ASSUME C[k] # i PROVE \E c \in g : T[c].from_parent = C[k]
        <3>1. k # 0
            BY <2>3 DEF ChainFn
        <3>2. k - 1 \in 0 .. n - 1 /\ k \in 1 .. N
            BY <1>2, <3>1
        <3>3. C[k] = T[C[k - 1]].from_parent
            BY <1>9, <3>2 DEF ChainFn
        <3> QED
            BY <3>2, <3>3
    <2> QED
        BY <2>2, <2>3
<1>10. ASSUME NEW j \in Calls(T), r[j] = r[i], j \notin g \cup {t}
       PROVE  \A k \in 0 .. n : C[k] # None => d[j] < d[C[k]]
    <2> DEFINE Bad == {k \in 0 .. n : C[k] # None /\ ~(d[j] < d[C[k]])}
    <2>1. SUFFICES ASSUME Bad # {} PROVE FALSE
        OBVIOUS
    <2>2. PICK k \in Bad : \A y \in Bad : k <= y
        <3>1. Bad \in SUBSET Nat
            BY <1>2
        <3> HIDE DEF Bad
        <3> QED
            BY <2>1, <3>1, Least
    <2>3. k \in 0 .. n /\ k \in 0 .. N /\ C[k] # None /\ C[k] \in Calls(T)
        BY <1>1, <1>2, <2>2
    <2>4. k # 0
        <3>1. SUFFICES ASSUME k = 0 PROVE FALSE
            OBVIOUS
        <3>2. C[k] = i /\ j # i
            BY <1>7, <1>10, <3>1 DEF ChainFn
        <3>3. d[j] <= d[i] /\ d[j] # d[i]
            BY <1>10, <3>2, ChainsParts DEF Tip, Linear
        <3> QED
            BY <1>3, <1>10, <2>2, <3>2, <3>3
    <2>5. k - 1 \in 0 .. n /\ k - 1 \in 0 .. n - 1 /\ k - 1 \in 0 .. N /\ k \in 1 .. N /\ ~(k <= k - 1)
        BY <1>2, <2>3, <2>4
    <2>6. C[k - 1] # None /\ C[k - 1] \in Calls(T) /\ r[C[k - 1]] = r[i]
        BY <1>1, <1>2, <2>5 DEF FirstSender
    <2>7. d[j] < d[C[k - 1]]
        BY <2>2, <2>5, <2>6
    <2>8. C[k] = T[C[k - 1]].from_parent
        BY <2>5, <2>6 DEF ChainFn
    <2>9. d[j] <= d[C[k]]
        <3>1. j # C[k - 1]
            BY <1>3, <2>6, <2>7
        <3> QED
            BY <1>10, <2>6, <2>7, <2>8, <3>1, ChainsParts DEF Linear
    <2>10. j # C[k]
        <3>1. C[k] \in g \cup {t}
            BY <1>2, <2>3
        <3> QED
            BY <1>10, <3>1
    <2>11. r[C[k]] = r[j]
        BY <1>1, <1>10, <2>3
    <2>12. d[j] # d[C[k]]
        BY <1>10, <2>3, <2>10, <2>11, ChainsParts DEF Linear
    <2> QED
        BY <1>3, <2>2, <2>3, <2>9, <2>12
<1>11. ASSUME NEW j \in g \cup {t}, j # None
       PROVE  /\ r[j] = r[i]
              /\ j # i => \E c \in g : T[c].from_parent = j
              /\ \A k \in Calls(T) : r[k] = r[i] /\ k \notin g \cup {t} => d[k] < d[j]
    BY <1>8, <1>9, <1>10, <1>11, Zenon
<1> QED
    BY <1>4, <1>5, <1>6, <1>7, <1>11 DEF Walk

-----------------------------------------------------------------------------
\* C is the walk over the stack of x, from its top i.
StackFn(T, x, i, C) ==
    /\ C[0] = i
    /\ \A k \in 1 .. N : C[k] = IF C[k - 1] = None THEN None
                                ELSE IF T[C[k - 1]].to_thread = x THEN T[C[k - 1]].to_parent
                                ELSE T[C[k - 1]].from_parent

\* The recursive definition of StackFrom has a solution.
LEMMA StackFromIs ==
    ASSUME NEW T, NEW x, NEW i
    PROVE  \E C : StackFn(T, x, i, C) /\ StackFrom(T, x, i) = {C[k] : k \in 0 .. N} \ {None}
<1> DEFINE Step(v) == IF v = None THEN None
                      ELSE IF T[v].to_thread = x THEN T[v].to_parent ELSE T[v].from_parent
           Is(f, m) == f = [k \in 0 .. m |-> IF k = 0 THEN i ELSE Step(f[k - 1])]
           Bad == {m \in Nat : ~\E f : Is(f, m)}
<1> HIDE DEF Step
<1>1. Bad = {}
    <2>1. SUFFICES ASSUME Bad # {} PROVE FALSE
        OBVIOUS
    <2>2. PICK m \in Bad : \A y \in Bad : m <= y
        <3>1. Bad \in SUBSET Nat
            OBVIOUS
        <3> HIDE DEF Bad
        <3> QED
            BY <2>1, <3>1, Least
    <2>3. m # 0
        <3>1. Is([k \in 0 .. 0 |-> i], 0)
            OBVIOUS
        <3> QED
            BY <3>1
    <2>4. m - 1 \in Nat /\ m - 1 \notin Bad /\ m \in Nat
        <3>1. m \in Nat
            OBVIOUS
        <3>2. m - 1 \in Nat /\ ~(m <= m - 1)
            BY <2>3, <3>1
        <3> HIDE DEF Bad
        <3> QED
            BY <2>2, <3>1, <3>2
    <2>5. PICK f : Is(f, m - 1)
        BY <2>4
    <2> DEFINE g == [k \in 0 .. m |-> IF k = m THEN Step(f[m - 1]) ELSE f[k]]
    <2>6. ASSUME NEW k \in 0 .. m
          PROVE  g[k] = IF k = 0 THEN i ELSE Step(g[k - 1])
        <3>1. CASE k = 0
            BY <2>3, <2>4, <2>5, <3>1
        <3>2. CASE k = m
            <4>1. g[k - 1] = f[m - 1]
                BY <2>3, <2>4, <3>2
            <4> QED
                BY <2>3, <3>2, <4>1
        <3>3. CASE k # 0 /\ k # m
            <4>1. k \in 0 .. m - 1 /\ k - 1 \in 0 .. m /\ k - 1 # m
                BY <2>4, <3>3
            <4>2. f[k] = Step(f[k - 1])
                BY <2>5, <3>3, <4>1
            <4> QED
                BY <3>3, <4>1, <4>2
        <3> QED
            BY <3>1, <3>2, <3>3
    <2>7. Is(g, m)
        BY <2>6
    <2> QED
        BY <2>2, <2>7
<1>2. \E f : Is(f, N)
    BY <1>1, NType
<1> DEFINE C == CHOOSE f : Is(f, N)
<1>3. Is(C, N)
    <2> HIDE DEF Is
    <2> QED
        BY <1>2
<1>4. StackFrom(T, x, i) = {C[k] : k \in DOMAIN C} \ {None}
    BY DEF StackFrom, Step, N
<1> HIDE DEF C
<1>5. C[0] = i /\ DOMAIN C = 0 .. N /\ \A k \in 1 .. N : C[k] = Step(C[k - 1])
    BY <1>3, NType
<1>6. StackFn(T, x, i, C)
    BY <1>5 DEF StackFn, Step
<1> QED
    BY <1>4, <1>5, <1>6

\* One step down the stack of x.
LEMMA StackStep ==
    ASSUME NEW T, NEW s, NEW th, NEW Q, NEW d, NEW r, ChainsBy(T, s, th, Q, d, r),
           NEW x \in th, NEW j \in Rel(T, Q, x), NEW n,
           n = IF T[j].to_thread = x THEN T[j].to_parent ELSE T[j].from_parent
    PROVE  /\ n # None => n \in Rel(T, Q, x) /\ d[n] < d[j]
           /\ \A k \in Rel(T, Q, x) : d[k] < d[j] => n # None /\ d[k] <= d[n]
<1>1. x # None /\ j \in Calls(T)
    BY ChainsParts DEF Rel
<1>2. CASE T[j].to_thread = x
    <2>1. j \notin Q
        BY <1>1, <1>2, ChainsParts DEF Rel, Senders
    <2> QED
        BY <1>1, <1>2, <2>1, ChainsParts DEF Handled, Rel
<1>3. CASE T[j].to_thread # x
    <2>1. T[j].from = x /\ n = T[j].from_parent
        BY <1>3 DEF Rel
    <2>2. n # None => n \in Rel(T, Q, x) /\ d[n] < d[j]
        BY <1>1, <2>1, ChainsParts DEF Parents, Rel
    <2>3. ASSUME NEW k \in Rel(T, Q, x), d[k] < d[j] PROVE n # None /\ d[k] <= d[n]
        <3>1. r[k] = r[j] /\ k \in Calls(T)
            BY ChainsParts DEF Tops, Rel
        <3>2. k # j
            BY <1>1, <2>3, ChainsParts
        <3> QED
            BY <1>1, <2>1, <2>3, <3>1, <3>2, ChainsParts DEF Linear
    <2> QED
        BY <2>2, <2>3
<1> QED
    BY <1>2, <1>3

\* The stack of x holds the calls that it has sent or is handling, and no other.
LEMMA StackIsRel ==
    ASSUME NEW T, NEW s, NEW th, NEW Q, NEW d, NEW r, ChainsBy(T, s, th, Q, d, r),
           NEW x \in th
    PROVE  StackFrom(T, x, s[x]) = Rel(T, Q, x)
<1> USE NType
<1>0. /\ None \notin Id
      /\ \A j \in Rel(T, Q, x) : j \in Id /\ d[j] \in Nat /\ j # None
      /\ \A j, k \in Rel(T, Q, x) : d[j] = d[k] => j = k
    <2>1. None \notin Id /\ \A j \in Rel(T, Q, x) : j \in Calls(T) /\ j \in Id /\ d[j] \in Nat
        BY ChainsParts, BinderAssumption DEF Rel
    <2>2. ASSUME NEW j \in Rel(T, Q, x), NEW k \in Rel(T, Q, x), d[j] = d[k] PROVE j = k
        <3>1. r[j] = r[k]
            BY ChainsParts DEF Tops
        <3> QED
            BY <2>1, <2>2, <3>1, ChainsParts DEF Linear
    <2> QED
        BY <2>1, <2>2
<1>1. PICK C : StackFn(T, x, s[x], C) /\ StackFrom(T, x, s[x]) = {C[k] : k \in 0 .. N} \ {None}
    BY StackFromIs
<1>2. \A k \in 0 .. N : C[k] # None => C[k] \in Rel(T, Q, x)
    <2> DEFINE Bad == {k \in 0 .. N : C[k] # None /\ C[k] \notin Rel(T, Q, x)}
    <2>1. SUFFICES ASSUME Bad # {} PROVE FALSE
        OBVIOUS
    <2>2. PICK k \in Bad : \A y \in Bad : k <= y
        <3>1. Bad \in SUBSET Nat
            OBVIOUS
        <3> HIDE DEF Bad
        <3> QED
            BY <2>1, <3>1, Least
    <2>3. k # 0
        BY <1>1, <2>2, ChainsParts DEF StackFn, Tops
    <2>4. k \in 1 .. N /\ k - 1 \in 0 .. N /\ k - 1 \notin Bad
        BY <2>2, <2>3
    <2>5. C[k - 1] # None
        BY <1>1, <2>2, <2>4 DEF StackFn
    <2>6. C[k - 1] \in Rel(T, Q, x)
        BY <2>4, <2>5
    <2>7. C[k] = IF T[C[k - 1]].to_thread = x THEN T[C[k - 1]].to_parent ELSE T[C[k - 1]].from_parent
        BY <1>1, <2>4, <2>5 DEF StackFn
    <2> QED
        BY <2>2, <2>6, <2>7, StackStep
<1>3. ASSUME NEW k \in 1 .. N, C[k - 1] # None
      PROVE  /\ C[k] # None => d[C[k]] < d[C[k - 1]]
             /\ \A j \in Rel(T, Q, x) : d[j] < d[C[k - 1]] => C[k] # None /\ d[j] <= d[C[k]]
    <2>1. k - 1 \in 0 .. N
        OBVIOUS
    <2>2. C[k - 1] \in Rel(T, Q, x)
        BY <1>2, <1>3, <2>1
    <2>3. C[k] = IF T[C[k - 1]].to_thread = x THEN T[C[k - 1]].to_parent ELSE T[C[k - 1]].from_parent
        BY <1>1, <1>3 DEF StackFn
    <2> QED
        BY <2>2, <2>3, StackStep
<1>4. \A l \in 0 .. N : \A k \in 0 .. l - 1 : C[l] # None => C[k] # None /\ d[C[l]] < d[C[k]]
    <2> DEFINE Bad == {l \in 0 .. N : \E k \in 0 .. l - 1 :
                         C[l] # None /\ ~(C[k] # None /\ d[C[l]] < d[C[k]])}
    <2>1. SUFFICES ASSUME Bad # {} PROVE FALSE
        OBVIOUS
    <2>2. PICK l \in Bad : \A y \in Bad : l <= y
        <3>1. Bad \in SUBSET Nat
            OBVIOUS
        <3> HIDE DEF Bad
        <3> QED
            BY <2>1, <3>1, Least
    <2>3. PICK k \in 0 .. l - 1 : C[l] # None /\ ~(C[k] # None /\ d[C[l]] < d[C[k]])
        BY <2>2
    <2>4. l \in 1 .. N /\ l - 1 \in 0 .. N /\ l - 1 \notin Bad
        BY <2>2, <2>3
    <2>5. C[l - 1] # None
        BY <1>1, <2>3, <2>4 DEF StackFn
    <2>6. d[C[l]] < d[C[l - 1]]
        BY <1>3, <2>3, <2>4, <2>5
    <2>7. k # l - 1
        BY <2>3, <2>5, <2>6
    <2>8. k \in 0 .. l - 1 - 1 /\ k \in 0 .. N
        BY <2>3, <2>4, <2>7
    <2>9. C[k] # None /\ d[C[l - 1]] < d[C[k]]
        BY <2>4, <2>5, <2>8
    <2>10. d[C[k]] \in Nat /\ d[C[l]] \in Nat /\ d[C[l - 1]] \in Nat
        BY <1>0, <1>2, <2>3, <2>4, <2>5, <2>8, <2>9
    <2> QED
        BY <2>3, <2>6, <2>9, <2>10
<1>5. C[N] = None
    <2>1. SUFFICES ASSUME C[N] # None PROVE FALSE
        OBVIOUS
    <2>2. ASSUME NEW k \in 0 .. N PROVE C[k] # None /\ C[k] \in Id /\ d[C[k]] \in Nat
        <3>1. C[k] # None
            <4>1. CASE k = N
                BY <2>1, <4>1
            <4>2. CASE k # N
                <5>1. k \in 0 .. N - 1 /\ N \in 0 .. N
                    BY <4>2
                <5> QED
                    BY <1>4, <2>1, <5>1
            <4> QED
                BY <4>1, <4>2
        <3> QED
            BY <1>0, <1>2, <3>1
    <2> DEFINE f == [k \in 0 .. N |-> C[k]]
    <2>3. f \in [0 .. N -> Id]
        BY <2>2
    <2>4. ASSUME NEW k \in 0 .. N, NEW l \in 0 .. N, k < l PROVE C[k] # C[l]
        <3>1. k \in 0 .. l - 1
            BY <2>4
        <3>2. d[C[l]] < d[C[k]]
            BY <1>4, <2>2, <3>1
        <3> QED
            BY <2>2, <3>2
    <2>5. \A k, l \in 0 .. N : f[k] = f[l] => k = l
        BY <2>4
    <2>6. f \in Injection(0 .. N, Id)
        BY <2>3, <2>5 DEF Injection, IsInjective
    <2>7. Cardinality(0 .. N) <= Cardinality(Id)
        <3> HIDE DEF f
        <3> QED
            BY <2>6, FS_Injection
    <2>8. Cardinality(0 .. N) = N + 1
        BY FS_Interval
    <2> QED
        BY <2>7, <2>8 DEF N
<1>6. ASSUME NEW j \in Rel(T, Q, x) PROVE \E k \in 0 .. N : C[k] = j
    <2> DEFINE Bad == {k \in 0 .. N : C[k] = None \/ ~(d[j] < d[C[k]])}
    <2>1. SUFFICES ASSUME \A k \in 0 .. N : C[k] # j PROVE FALSE
        OBVIOUS
    <2>2. N \in Bad /\ Bad \in SUBSET Nat
        BY <1>5
    <2>3. PICK k \in Bad : \A y \in Bad : k <= y
        <3> HIDE DEF Bad
        <3> QED
            BY <2>2, Least
    <2>4. k # 0
        <3>1. SUFFICES ASSUME k = 0 PROVE FALSE
            OBVIOUS
        <3>2. C[0] = s[x] /\ 0 \in 0 .. N
            BY <1>1 DEF StackFn
        <3>3. s[x] # None /\ s[x] \in Rel(T, Q, x) /\ d[j] <= d[s[x]]
            BY ChainsParts DEF Tops
        <3>4. d[j] # d[s[x]]
            BY <1>0, <2>1, <3>2, <3>3
        <3> QED
            BY <1>0, <2>3, <3>1, <3>2, <3>3, <3>4
    <2>5. k \in 1 .. N /\ k - 1 \in 0 .. N /\ k - 1 \notin Bad /\ k \in 0 .. N
        BY <2>3, <2>4
    <2>6. C[k - 1] # None /\ d[j] < d[C[k - 1]]
        BY <2>5
    <2>7. C[k] # None /\ d[j] <= d[C[k]]
        BY <1>3, <2>5, <2>6
    <2>8. C[k] \in Rel(T, Q, x) /\ C[k] # j
        BY <1>2, <2>1, <2>5, <2>7
    <2> QED
        BY <1>0, <2>3, <2>7, <2>8
<1> QED
    BY <1>0, <1>1, <1>2, <1>6

-----------------------------------------------------------------------------
(***************************************************************************)
(* The state that the frees work on.  th are the threads that are left,    *)
(* and P the works that are on a list still.                               *)
(***************************************************************************)
Code == {Ok, Dead, Failed, Complete}

\* The types of the fields of State.
StateType ==
    [tr : [Id -> Transaction \cup {None}], buf : [Id -> Buffer \cup {None}],
     stack : [Thread -> Id \cup {None}], err : [Thread -> Code], err2 : [Thread -> Code],
     pc : [Thread -> Waiting \cup {"user"}]]

\* A transaction and its buffer point at each other, or neither does.
Linked(S) ==
    \A i \in Id : (S.buf[i] # None /\ S.buf[i].transaction) <=> (S.tr[i] # None /\ S.tr[i].buffer)

\* A thread with two errors waits for no further answer.
Errors(S, th) ==
    \A x \in th : S.err2[x] # Ok =>
        S.err[x] # Ok /\ (S.stack[x] # None => S.tr[S.stack[x]].to_thread = x)

\* A thread that waits for the process is in no call, and one that sleeps has no error.
Waits(S, th) ==
    \A x \in th :
        /\ S.pc[x] \in {"proc_wait", "proc_sleep"} => S.stack[x] = None /\ S.err[x] = Ok
        /\ S.pc[x] = "thread_sleep" => S.err[x] = Ok

\* The state is in order.
SInv(S, th, P) ==
    /\ S \in StateType /\ th \subseteq Thread
    /\ P \subseteq {i \in Id : S.tr[i] # None}
    /\ \A i \in Id : S.tr[i] # None /\ i \notin P => i \in Calls(S.tr)
    /\ Chains(S.tr, S.stack, th, P \cap Calls(S.tr))
    /\ Linked(S) /\ Errors(S, th) /\ Waits(S, th)

\* The calls and errors that thread x is to be told of.
From(T, x) == {i \in Calls(T) : T[i].from = x}

\* How many answers and errors x is still to be told of.
Due(S, x) ==
    Cardinality(From(S.tr, x)) + (IF S.err[x] # Ok THEN 1 ELSE 0) + (IF S.err2[x] # Ok THEN 1 ELSE 0)

\* Same, but the sender may be gone.
SameWork(t, u) ==
    /\ u # None /\ t # None /\ u.from \in {t.from, None} /\ u.from_parent = t.from_parent
    /\ u.to_thread = t.to_thread /\ u.to_parent = t.to_parent
    /\ u.one_way = t.one_way /\ u.reply = t.reply /\ u.buffer = t.buffer

\* The same buffer, whatever it says of its transaction.
SameBuf(b, c) ==
    /\ c = None <=> b = None
    /\ b # None => c.proc = b.proc /\ c.async = b.async /\ c.allow_user_free = b.allow_user_free

\* What the frees leave alone, from S to R.
Frame(S, R, th, P) ==
    /\ \A i \in P : SameWork(S.tr[i], R.tr[i]) /\ R.buf[i] = S.buf[i]
    /\ \A i \in Id : SameBuf(S.buf[i], R.buf[i]) /\ (R.tr[i] # None => S.tr[i] # None)
    /\ \A x \in Thread : R.pc[x] = S.pc[x] \/ (S.pc[x] = "thread_sleep" /\ R.pc[x] = "thread_wait")
    /\ \A x \in th : Due(R, x) = Due(S, x)

\* The threads in Z are left alone.
Still(S, R, Z) ==
    \A x \in Z : /\ R.stack[x] = S.stack[x] /\ R.pc[x] = S.pc[x]
                 /\ R.err[x] = S.err[x] /\ R.err2[x] = S.err2[x]

\* The types of the fields, one by one.
LEMMA StateParts ==
    ASSUME NEW S, S \in StateType
    PROVE  /\ S.tr \in [Id -> Transaction \cup {None}] /\ S.buf \in [Id -> Buffer \cup {None}]
           /\ S.stack \in [Thread -> Id \cup {None}] /\ S.err \in [Thread -> Code]
           /\ S.err2 \in [Thread -> Code] /\ S.pc \in [Thread -> Waiting \cup {"user"}]
BY DEF StateType

\* None and Complete are no ids.
LEMMA Names ==
    /\ None \notin Id /\ None \notin Thread /\ None \notin Proc
    /\ None \notin Transaction /\ None \notin Buffer /\ Complete \notin Id
BY BinderAssumption DEF Complete

\* What two steps leave alone.
LEMMA FrameTrans ==
    ASSUME NEW S, NEW R, NEW V, NEW th, NEW P, NEW tg, NEW Q, tg \subseteq th, Q \subseteq P,
           Frame(S, R, th, P), Frame(R, V, tg, Q)
    PROVE  Frame(S, V, tg, Q)
<1>1. \A i \in Q : SameWork(S.tr[i], V.tr[i]) /\ V.buf[i] = S.buf[i]
    BY DEF Frame, SameWork
<1>2. \A i \in Id : SameBuf(S.buf[i], V.buf[i]) /\ (V.tr[i] # None => S.tr[i] # None)
    BY DEF Frame, SameBuf
<1>3. \A x \in Thread : V.pc[x] = S.pc[x] \/ (S.pc[x] = "thread_sleep" /\ V.pc[x] = "thread_wait")
    BY DEF Frame
<1>4. \A x \in tg : Due(V, x) = Due(S, x)
    BY DEF Frame
<1> QED
    BY <1>1, <1>2, <1>3, <1>4 DEF Frame

\* What FreeTransactions returns.
LEMMA FreeIs ==
    ASSUME NEW S, S \in StateType, NEW D, NEW R, R = FreeTransactions(S, D)
    PROVE  /\ R \in StateType
           /\ R.tr = [i \in Id |-> IF i \in D THEN None ELSE S.tr[i]]
           /\ R.stack = S.stack /\ R.err = S.err /\ R.err2 = S.err2 /\ R.pc = S.pc
           /\ \A i \in Id : i \notin D => R.buf[i] = S.buf[i]
           /\ \A i \in Id : SameBuf(S.buf[i], R.buf[i])
           /\ \A i \in D \cap Id : R.buf[i] # None => ~R.buf[i].transaction
<1> DEFINE T == [i \in Id |-> IF i \in D THEN None ELSE S.tr[i]]
           B == [i \in Id |-> IF i \in D /\ S.buf[i] # None
                              THEN [S.buf[i] EXCEPT !.transaction = FALSE] ELSE S.buf[i]]
<1>1. T \in [Id -> Transaction \cup {None}]
    BY StateParts
<1>2. ASSUME NEW i \in Id, S.buf[i] # None
      PROVE  /\ [S.buf[i] EXCEPT !.transaction = FALSE] \in Buffer
             /\ ~[S.buf[i] EXCEPT !.transaction = FALSE].transaction
             /\ SameBuf(S.buf[i], [S.buf[i] EXCEPT !.transaction = FALSE])
    <2>1. S.buf[i] \in Buffer
        BY <1>2, StateParts
    <2>2. [S.buf[i] EXCEPT !.transaction = FALSE] \in Buffer
        BY <2>1 DEF Buffer
    <2> QED
        BY <2>1, <2>2, Names DEF Buffer, SameBuf
<1>3. /\ B \in [Id -> Buffer \cup {None}]
      /\ \A i \in Id : i \notin D => B[i] = S.buf[i]
      /\ \A i \in Id : SameBuf(S.buf[i], B[i])
      /\ \A i \in D \cap Id : B[i] # None => ~B[i].transaction
    BY <1>2, StateParts DEF SameBuf
<1>4. R = [S EXCEPT !.tr = T, !.buf = B]
    BY DEF FreeTransactions
<1> HIDE DEF T, B
<1>5. /\ R.tr = T /\ R.buf = B /\ R.stack = S.stack /\ R.err = S.err /\ R.err2 = S.err2 /\ R.pc = S.pc
      /\ R \in StateType
    BY <1>1, <1>3, <1>4 DEF StateType
<1> QED
    BY <1>3, <1>5 DEF T

\* What waking x does to the pcs.
LEMMA WakeIs ==
    ASSUME NEW q \in [Thread -> Waiting \cup {"user"}], NEW x \in Thread
    PROVE  /\ WakeThread(q, x) \in [Thread -> Waiting \cup {"user"}]
           /\ \A y \in Thread : y # x => WakeThread(q, x)[y] = q[y]
           /\ WakeThread(q, x)[x] = IF q[x] = "thread_sleep" THEN "thread_wait" ELSE q[x]
BY DEF WakeThread, Waiting

\* The senders are counted.
LEMMA FromFinite ==
    ASSUME NEW T, NEW x
    PROVE  IsFiniteSet(From(T, x)) /\ Cardinality(From(T, x)) \in Nat
<1>1. From(T, x) \in SUBSET Id
    BY DEF From, Calls
<1>2. IsFiniteSet(From(T, x))
    BY <1>1, NType, FS_Subset
<1> QED
    BY <1>2, FS_CardinalityType

\* A reply or a one-way call is forgotten.
LEMMA FreeWork ==
    ASSUME NEW S, NEW th, NEW P, SInv(S, th, P), NEW w \in P, w \notin Calls(S.tr),
           NEW R, R = FreeTransactions(S, {w})
    PROVE  SInv(R, th, P \ {w}) /\ Frame(S, R, th, P \ {w}) /\ Still(S, R, Thread)
<1>1. /\ R \in StateType
      /\ R.tr = [i \in Id |-> IF i \in {w} THEN None ELSE S.tr[i]]
      /\ R.stack = S.stack /\ R.err = S.err /\ R.err2 = S.err2 /\ R.pc = S.pc
      /\ \A i \in Id : i \notin {w} => R.buf[i] = S.buf[i]
      /\ \A i \in Id : SameBuf(S.buf[i], R.buf[i])
      /\ \A i \in {w} \cap Id : R.buf[i] # None => ~R.buf[i].transaction
    BY FreeIs DEF SInv
<1>2. w \in Id /\ S \in StateType
    BY DEF SInv
<1>3. /\ \A i \in Id : i # w => R.tr[i] = S.tr[i]
      /\ R.tr[w] = None
    BY <1>1, <1>2
<1>4. Calls(R.tr) = Calls(S.tr)
    BY <1>2, <1>3 DEF Calls
<1>5. \A i \in Calls(S.tr) : R.tr[i] = S.tr[i] /\ SameCall(S.tr, R.tr, i)
    BY <1>3 DEF Calls, SameCall
<1>6. Chains(R.tr, R.stack, th, (P \ {w}) \cap Calls(R.tr))
    <2>1. (P \ {w}) \cap Calls(R.tr) = P \cap Calls(S.tr)
        BY <1>4
    <2>2. Chains(R.tr, S.stack, th, P \cap Calls(S.tr))
        BY <1>4, <1>5, ChainsSame DEF SInv
    <2> QED
        BY <1>1, <2>1, <2>2
<1>7. Linked(R)
    BY <1>1, <1>3, ZenonT(40) DEF Linked, SInv
<1>8. \A x \in th : S.stack[x] # None => S.stack[x] \in Calls(S.tr)
    BY ChainsParts DEF SInv, Chains, Tops, Rel
<1>9. Errors(R, th) /\ Waits(R, th)
    <2>1. Errors(S, th) /\ Waits(S, th)
        BY DEF SInv
    <2>2. ASSUME NEW x \in th, R.err2[x] # Ok
          PROVE  R.err[x] # Ok /\ (R.stack[x] # None => R.tr[R.stack[x]].to_thread = x)
        <3>1. R.err[x] = S.err[x] /\ R.err2[x] = S.err2[x] /\ R.stack[x] = S.stack[x]
            BY <1>1
        <3>2. S.stack[x] # None => R.tr[S.stack[x]] = S.tr[S.stack[x]]
            BY <1>5, <1>8
        <3> QED
            BY <2>1, <2>2, <3>1, <3>2 DEF Errors
    <2>3. Waits(R, th)
        BY <1>1, <2>1 DEF Waits
    <2> QED
        BY <2>2, <2>3 DEF Errors
<1>10. SInv(R, th, P \ {w})
    <2>1. P \ {w} \subseteq {i \in Id : R.tr[i] # None}
        BY <1>3 DEF SInv
    <2>2. \A i \in Id : R.tr[i] # None /\ i \notin P \ {w} => i \in Calls(R.tr)
        BY <1>3, <1>4 DEF SInv
    <2> QED
        BY <1>1, <1>6, <1>7, <1>9, <2>1, <2>2 DEF SInv
<1>11. \A x : From(R.tr, x) = From(S.tr, x)
    BY <1>4, <1>5 DEF From
<1>12. Frame(S, R, th, P \ {w})
    <2>1. \A i \in P \ {w} : SameWork(S.tr[i], R.tr[i]) /\ R.buf[i] = S.buf[i]
        BY <1>1, <1>3 DEF SameWork, SInv
    <2>2. \A x \in th : Due(R, x) = Due(S, x)
        BY <1>1, <1>11 DEF Due
    <2> QED
        BY <1>1, <1>3, <2>1, <2>2 DEF Frame
<1> QED
    BY <1>1, <1>10, <1>12 DEF Still

\* The calls that an answer to i walks over, and the one that it comes to.
Over(T, i) == {FromChain(T, i)[k] : k \in 0 .. Senderless(T, i) - 1}

\* The call that has a sender, or None.
Upto(T, i) == FromChain(T, i)[Senderless(T, i)]

\* An answer to i comes to a call that its sender has on top of its stack, and
\* the chains are what they should be once the calls up to it are gone.
LEMMA AnswerChains ==
    ASSUME NEW S, NEW th, NEW P, SInv(S, th, P), NEW i \in P, i \in Calls(S.tr),
           NEW T, T = S.tr, NEW g, g = Over(T, i), NEW t, t = Upto(T, i)
    PROVE  /\ i \in g \cup {t} /\ g \subseteq Calls(T) /\ \A j \in g : T[j].from = None
           /\ t # None => /\ t \in Calls(T) /\ T[t].from # None /\ t \notin g
                          /\ T[t].from \in th /\ S.stack[T[t].from] = t /\ T[t].to_thread # T[t].from
                          /\ (T[t].from_parent # None => T[T[t].from_parent].to_thread = T[t].from)
           /\ T[i].from # None => t = i /\ g = {}
           /\ \A U, v : /\ Calls(U) = Calls(T) \ (g \cup {t})
                        /\ \A j \in Calls(U) : SameCall(T, U, j)
                        /\ t # None => v[T[t].from] = T[t].from_parent
                        /\ \A y \in th : (t # None => y # T[t].from) => v[y] = S.stack[y]
                        => Chains(U, v, th, (P \cap Calls(T)) \ {i})
<1> DEFINE Q == P \cap Calls(T)
           C == FromChain(T, i)
           n == Senderless(T, i)
<1>1. /\ i \in Id /\ i # None /\ None \notin Calls(T) /\ i \in Q
    BY Names DEF SInv, Calls
<1>2. PICK d, r : ChainsBy(T, S.stack, th, Q, d, r)
    BY DEF SInv, Chains
<1>3. ChainFn(T, i, C)
    BY FromChainIs
<1>4. FirstSender(T, C, n)
    <2>1. C[N] = None
        BY <1>1, <1>2, <1>3, ChainEnds
    <2> QED
        BY <2>1, SenderlessIs
<1>5. g = {C[k] : k \in 0 .. n - 1} /\ t = C[n]
    BY DEF Over, Upto
<1>6. \A e, q : ChainsBy(T, S.stack, th, Q, e, q) => Walk(T, i, g, t, e, q)
    <2> SUFFICES ASSUME NEW e, NEW q, ChainsBy(T, S.stack, th, Q, e, q) PROVE Walk(T, i, g, t, e, q)
        OBVIOUS
    <2>1. Tip(T, e, q, i)
        BY <1>1, ChainsParts DEF QueuedTips
    <2>2. Walk(T, i, {C[k] : k \in 0 .. n - 1}, C[n], e, q)
        <3> HIDE DEF C, n, Q
        <3> QED
            BY <1>1, <1>3, <1>4, <2>1, WalkIs DEF Q
    <2> QED
        BY <1>5, <2>2
<1>7. T[i].from # None => n = 0
    <2>1. n \in Nat /\ \A k \in 0 .. n - 1 : T[C[k]].from = None
        BY <1>4, NType DEF FirstSender
    <2>2. C[0] = i
        BY <1>3 DEF ChainFn
    <2> HIDE DEF C, n
    <2> QED
        BY <2>1, <2>2
<1>8. T[i].from # None => t = i /\ g = {}
    <2>1. C[0] = i
        BY <1>3 DEF ChainFn
    <2> HIDE DEF C, n
    <2> QED
        BY <1>5, <1>7, <2>1
<1> HIDE DEF C, n
<1>9. Walk(T, i, g, t, d, r)
    BY <1>2, <1>6
<1>10. /\ i \in g \cup {t} /\ g \subseteq Calls(T) /\ \A j \in g : T[j].from = None
       /\ t # None => t \in Calls(T) /\ T[t].from # None /\ t \notin g
    BY <1>9 DEF Walk
<1>11. t # None => T[t].to_thread # T[t].from
    BY <1>2, <1>10, ChainsParts DEF Senders
<1>12. Chains(T, S.stack, th, Q)
    BY DEF SInv
<1> HIDE DEF Q
<1>13. ASSUME NEW U, NEW v, Calls(U) = Calls(T) \ (g \cup {t}), \A j \in Calls(U) : SameCall(T, U, j),
              t # None => v[T[t].from] = T[t].from_parent,
              \A y \in th : (t # None => y # T[t].from) => v[y] = S.stack[y]
       PROVE  /\ t # None => t \in Calls(T) /\ T[t].from \in th /\ S.stack[T[t].from] = t
                             /\ (T[t].from_parent # None => T[T[t].from_parent].to_thread = T[t].from)
              /\ Chains(U, v, th, Q \ {i})
    <2>1. AnswerStep(T, U, S.stack, v, th, Q, i, g, t)
        BY <1>1, <1>6, <1>12, <1>13 DEF AnswerStep
    <2> DEFINE s == S.stack
    <2>2. AnswerStep(T, U, s, v, th, Q, i, g, t)
        BY <2>1
    <2> HIDE DEF s
    <2>3. /\ t # None => t \in Calls(T) /\ T[t].from \in th /\ s[T[t].from] = t
                         /\ (T[t].from_parent # None => T[T[t].from_parent].to_thread = T[t].from)
          /\ Chains(U, v, th, Q \ {i})
        BY ONLY <2>2, ChainsAnswer
    <2> QED
        BY <2>3 DEF s
<1>14. t # None => T[t].from \in th /\ S.stack[T[t].from] = t
                   /\ (T[t].from_parent # None => T[T[t].from_parent].to_thread = T[t].from)
    <2> DEFINE U == [j \in Id |-> IF j \in g \cup {t} THEN None ELSE T[j]]
               v == [y \in th \cup {T[t].from} |->
                       IF t # None /\ y = T[t].from THEN T[t].from_parent ELSE S.stack[y]]
    <2>1. Calls(U) = Calls(T) \ (g \cup {t})
        BY DEF Calls
    <2>2. \A j \in Calls(U) : SameCall(T, U, j)
        BY DEF Calls, SameCall
    <2>3. /\ t # None => v[T[t].from] = T[t].from_parent
          /\ \A y \in th : (t # None => y # T[t].from) => v[y] = S.stack[y]
        OBVIOUS
    <2> HIDE DEF U, v
    <2> QED
        BY <1>13, <2>1, <2>2, <2>3
<1> QED
    BY <1>8, <1>10, <1>11, <1>13, <1>14 DEF Q

\* The call i is answered with an error.
LEMMA Answer ==
    ASSUME NEW S, NEW th, NEW P, SInv(S, th, P), NEW i \in P, i \in Calls(S.tr),
           NEW code \in {Dead, Failed},
           NEW R, R = SendFailedReply(S, i, code)
    PROVE  /\ SInv(R, th, P \ {i}) /\ Frame(S, R, th, P \ {i}) /\ Still(S, R, Thread \ th)
           /\ R.tr[i] = None
<1> DEFINE T == S.tr
           Q == P \cap Calls(T)
           g == Over(T, i)
           t == Upto(T, i)
           x == T[t].from
           D == g \cup {t}
<1>1. /\ S \in StateType /\ T \in [Id -> Transaction \cup {None}] /\ th \subseteq Thread
      /\ i \in Id /\ i # None /\ None \notin Calls(T) /\ i \in Q
    BY StateParts, Names, SMTT(20) DEF SInv, Calls
<1>6. /\ R = IF t = None \/ (S.err[x] # Ok /\ S.err2[x] # Ok) THEN FreeTransactions(S, g)
             ELSE [FreeTransactions(S, D) EXCEPT
                     !.stack[x] = T[t].from_parent,
                     !.err2[x] = IF S.err[x] # Ok THEN S.err[x] ELSE @,
                     !.err[x] = code,
                     !.pc = WakeThread(S.pc, x)]
    BY DEF SendFailedReply, Over, Upto
<1>7. /\ i \in g \cup {t} /\ g \subseteq Calls(T) /\ \A j \in g : T[j].from = None
      /\ t # None => /\ t \in Calls(T) /\ T[t].from # None /\ t \notin g
                     /\ T[t].from \in th /\ S.stack[T[t].from] = t /\ T[t].to_thread # T[t].from
                     /\ (T[t].from_parent # None => T[T[t].from_parent].to_thread = T[t].from)
      /\ \A U, v : /\ Calls(U) = Calls(T) \ (g \cup {t})
                   /\ \A j \in Calls(U) : SameCall(T, U, j)
                   /\ t # None => v[T[t].from] = T[t].from_parent
                   /\ \A y \in th : (t # None => y # T[t].from) => v[y] = S.stack[y]
                   => Chains(U, v, th, (P \cap Calls(T)) \ {i})
    <2>1. T = S.tr
        OBVIOUS
    <2> HIDE DEF T, g, t
    <2> QED
        BY <1>1, <2>1, AnswerChains, SMTT(20) DEF g, t
<1> HIDE DEF g, t
<1>8. /\ g \subseteq Calls(T) /\ \A j \in g : T[j].from = None
      /\ t # None => t \in Calls(T) /\ T[t].from # None /\ t \notin g
    BY <1>7
<1> DEFINE U == [j \in Id |-> IF j \in D THEN None ELSE T[j]]
           v == [y \in Thread |-> IF t # None /\ y = x THEN T[t].from_parent ELSE S.stack[y]]
<1>9. Calls(U) = Calls(T) \ D /\ \A j \in Id : j \notin D => U[j] = T[j]
    BY DEF Calls
<1>10. x \in Thread \/ t = None
    BY <1>1, <1>7
<1>11. /\ t # None => t \in Calls(T) /\ x \in th /\ S.stack[x] = t
                      /\ (T[t].from_parent # None => T[T[t].from_parent].to_thread = x)
       /\ Chains(U, v, th, Q \ {i})
    <2>1. \A j \in Calls(U) : SameCall(T, U, j)
        BY <1>9 DEF Calls, SameCall
    <2>2. t # None => v[T[t].from] = T[t].from_parent
        BY <1>10
    <2>3. \A y \in th : (t # None => y # T[t].from) => v[y] = S.stack[y]
        BY <1>1
    <2>5. Calls(U) = Calls(T) \ (g \cup {t})
        BY <1>9
    <2> HIDE DEF U, v, T
    <2>6. Chains(U, v, th, (P \cap Calls(T)) \ {i})
        BY <1>7, <2>1, <2>2, <2>3, <2>5
    <2> QED
        BY <1>7, <2>6
<1>12. ASSUME t # None
       PROVE  /\ ~(S.err[x] # Ok /\ S.err2[x] # Ok)
              /\ S.pc[x] \notin {"proc_wait", "proc_sleep"}
    <2>1. T[t].to_thread # x
        BY <1>7, <1>12
    <2> QED
        BY <1>11, <1>12, <2>1 DEF SInv, Errors, Waits
<1> DEFINE F == FreeTransactions(S, D)
<1>13. /\ F \in StateType /\ F.tr = U
       /\ F.stack = S.stack /\ F.err = S.err /\ F.err2 = S.err2 /\ F.pc = S.pc
       /\ \A j \in Id : j \notin D => F.buf[j] = S.buf[j]
       /\ \A j \in Id : SameBuf(S.buf[j], F.buf[j])
       /\ \A j \in D \cap Id : F.buf[j] # None => ~F.buf[j].transaction
    <2> HIDE DEF F, D
    <2> QED
        BY <1>1, FreeIs DEF F
<1>14. /\ R \in StateType /\ R.tr = U /\ R.buf = F.buf /\ R.stack = v
       /\ \A y \in Thread : (t # None => y # x) =>
            R.err[y] = S.err[y] /\ R.err2[y] = S.err2[y] /\ R.pc[y] = S.pc[y]
       /\ t # None => /\ R.err[x] = code
                      /\ R.err2[x] = IF S.err[x] # Ok THEN S.err[x] ELSE S.err2[x]
                      /\ R.pc[x] = IF S.pc[x] = "thread_sleep" THEN "thread_wait" ELSE S.pc[x]
    <2>1. CASE t = None
        <3>1. FreeTransactions(S, g) = F
            <4>1. \A j \in Id : j \in g <=> j \in D
                BY <2>1, Names
            <4>2. \A j \in Id : S.tr[j] = S.tr[j]
                OBVIOUS
            <4> HIDE DEF D
            <4> QED
                BY <4>1 DEF FreeTransactions, F
        <3>2. R = F
            BY <1>6, <2>1, <3>1
        <3>3. v = S.stack
            BY <1>1, <2>1, StateParts
        <3> HIDE DEF F, U, v
        <3> QED
            BY <1>13, <2>1, <3>2, <3>3
    <2>2. CASE t # None
        <3>1. R = [F EXCEPT !.stack[x] = T[t].from_parent,
                            !.err2[x] = IF S.err[x] # Ok THEN S.err[x] ELSE @,
                            !.err[x] = code,
                            !.pc = WakeThread(S.pc, x)]
            BY <1>6, <1>12, <2>2
        <3>2. x \in Thread /\ t \in Id /\ T[t] \in Transaction /\ T[t].from_parent \in Id \cup {None}
            <4>1. t \in Id /\ T[t] \in Transaction
                BY <1>1, <1>8, <2>2 DEF Calls
            <4> QED
                BY <1>10, <2>2, <4>1 DEF Transaction
        <3>3. /\ WakeThread(S.pc, x) \in [Thread -> Waiting \cup {"user"}]
              /\ \A y \in Thread : y # x => WakeThread(S.pc, x)[y] = S.pc[y]
              /\ WakeThread(S.pc, x)[x] = IF S.pc[x] = "thread_sleep" THEN "thread_wait" ELSE S.pc[x]
            BY <1>1, <3>2, WakeIs, StateParts
        <3> DEFINE q == WakeThread(S.pc, x)
                   p == T[t].from_parent
        <3>4. v = [S.stack EXCEPT ![x] = p]
            BY <1>1, <2>2, StateParts
        <3>5. F.stack \in [Thread -> Id \cup {None}] /\ F.err \in [Thread -> Code]
              /\ F.err2 \in [Thread -> Code]
            BY <1>13, StateParts
        <3> HIDE DEF q, p, x, F, U, v, D, T
        <3>6. /\ R.tr = F.tr /\ R.buf = F.buf
              /\ R.stack = [F.stack EXCEPT ![x] = p]
              /\ R.err = [F.err EXCEPT ![x] = code]
              /\ R.err2 = [F.err2 EXCEPT ![x] = IF S.err[x] # Ok THEN S.err[x] ELSE @]
              /\ R.pc = q /\ R = [tr |-> R.tr, buf |-> R.buf, stack |-> R.stack, err |-> R.err,
                                  err2 |-> R.err2, pc |-> R.pc]
            BY <1>13, <3>1 DEF StateType, p, q
        <3>7. /\ R.stack \in [Thread -> Id \cup {None}] /\ R.err \in [Thread -> Code]
              /\ R.err2 \in [Thread -> Code] /\ R.pc \in [Thread -> Waiting \cup {"user"}]
            <4>1. S.err[x] \in Code /\ code \in Code
                BY <1>1, <3>2, StateParts DEF Code
            <4> QED
                BY <3>2, <3>3, <3>5, <3>6, <4>1 DEF p, q
        <3>8. R \in StateType
            <4>1. R.tr \in [Id -> Transaction \cup {None}] /\ R.buf \in [Id -> Buffer \cup {None}]
                BY <1>13, <3>6, StateParts
            <4> QED
                BY <3>6, <3>7, <4>1 DEF StateType
        <3> QED
            BY <1>13, <2>2, <3>2, <3>3, <3>4, <3>5, <3>6, <3>8 DEF q
    <2> QED
        BY <2>1, <2>2
<1> HIDE DEF F
<1>15. Chains(R.tr, R.stack, th, (P \ {i}) \cap Calls(R.tr))
    <2>1. Q \ {i} \subseteq Calls(U)
        BY <1>11, ChainsParts DEF Chains, QueuedTips
    <2>2. (P \ {i}) \cap Calls(U) = Q \ {i}
        BY <1>9, <2>1
    <2> HIDE DEF Q, U, v
    <2> QED
        BY <1>11, <1>14, <2>2
<1>16. \A j \in P \ {i} : j \notin D
    <2>1. Q \ {i} \subseteq Calls(U)
        BY <1>11, ChainsParts DEF Chains, QueuedTips
    <2>2. D \cap Id \subseteq Calls(T)
        BY <1>8, Names
    <2>3. P \subseteq Id
        BY DEF SInv
    <2> QED
        BY <1>9, <2>1, <2>2, <2>3
<1>17. Linked(R)
    <2> SUFFICES ASSUME NEW j \in Id
                 PROVE  (R.buf[j] # None /\ R.buf[j].transaction) <=> (R.tr[j] # None /\ R.tr[j].buffer)
        BY DEF Linked
    <2>1. CASE j \in D
        BY <1>13, <1>14, <2>1
    <2>2. CASE j \notin D
        <3>1. R.buf[j] = S.buf[j] /\ R.tr[j] = S.tr[j]
            BY <1>13, <1>14, <2>2
        <3> QED
            BY <3>1 DEF SInv, Linked
    <2> QED
        BY <2>1, <2>2
<1>19. \A y \in th : R.stack[y] # None => R.stack[y] \in Calls(U)
    BY <1>15, <1>14, ChainsParts DEF Chains, Tops, Rel
<1>20. Errors(R, th)
    <2> SUFFICES ASSUME NEW y \in th, R.err2[y] # Ok
                 PROVE  R.err[y] # Ok /\ (R.stack[y] # None => R.tr[R.stack[y]].to_thread = y)
        BY DEF Errors
    <2>1. CASE t # None /\ y = x
        <3>1. R.err[y] # Ok
            BY <1>14, <2>1 DEF Dead, Failed, Ok
        <3>2. R.stack[y] = T[t].from_parent
            BY <1>14, <2>1, <1>1, SMTT(20)
        <3>3. R.stack[y] # None => R.tr[R.stack[y]] = T[R.stack[y]]
            BY <1>9, <1>14, <1>19 DEF Calls
        <3> QED
            BY <1>11, <2>1, <3>1, <3>2, <3>3
    <2>2. CASE ~(t # None /\ y = x)
        <3>1. R.err[y] = S.err[y] /\ R.err2[y] = S.err2[y] /\ R.stack[y] = S.stack[y] /\ y \in Thread
            BY <1>1, <1>14, <2>2
        <3>2. R.stack[y] # None => R.tr[R.stack[y]] = T[R.stack[y]]
            BY <1>9, <1>14, <1>19 DEF Calls
        <3> QED
            BY <3>1, <3>2 DEF SInv, Errors
    <2> QED
        BY <2>1, <2>2
<1>21. Waits(R, th)
    <2> SUFFICES ASSUME NEW y \in th
                 PROVE  /\ R.pc[y] \in {"proc_wait", "proc_sleep"} => R.stack[y] = None /\ R.err[y] = Ok
                        /\ R.pc[y] = "thread_sleep" => R.err[y] = Ok
        BY DEF Waits
    <2>1. CASE t # None /\ y = x
        BY <1>12, <1>14, <2>1
    <2>2. CASE ~(t # None /\ y = x)
        <3>1. R.err[y] = S.err[y] /\ R.pc[y] = S.pc[y] /\ R.stack[y] = S.stack[y]
            BY <1>1, <1>14, <2>2
        <3> QED
            BY <3>1 DEF SInv, Waits
    <2> QED
        BY <2>1, <2>2
<1>22. SInv(R, th, P \ {i})
    <2>1. P \ {i} \subseteq {j \in Id : R.tr[j] # None}
        BY <1>9, <1>14, <1>16 DEF SInv
    <2>2. \A j \in Id : R.tr[j] # None /\ j \notin P \ {i} => j \in Calls(R.tr)
        <3> SUFFICES ASSUME NEW j \in Id, R.tr[j] # None, j \notin P \ {i} PROVE j \in Calls(R.tr)
            OBVIOUS
        <3>1. j \notin D /\ R.tr[j] = T[j]
            BY <1>14
        <3>2. j \in Calls(T)
            BY <1>1, <3>1 DEF SInv
        <3> QED
            BY <1>9, <1>14, <3>1, <3>2
    <2> QED
        BY <1>1, <1>14, <1>15, <1>17, <1>20, <1>21, <2>1, <2>2 DEF SInv
<1>23. Frame(S, R, th, P \ {i})
    <2>1. \A j \in P \ {i} : SameWork(S.tr[j], R.tr[j]) /\ R.buf[j] = S.buf[j]
        BY <1>13, <1>14, <1>16 DEF SameWork, SInv
    <2>2. \A j \in Id : SameBuf(S.buf[j], R.buf[j]) /\ (R.tr[j] # None => S.tr[j] # None)
        BY <1>13, <1>14
    <2>3. \A y \in Thread : R.pc[y] = S.pc[y] \/ (S.pc[y] = "thread_sleep" /\ R.pc[y] = "thread_wait")
        BY <1>14
    <2>4. ASSUME NEW y \in th PROVE Due(R, y) = Due(S, y)
        <3>1. From(R.tr, y) = From(T, y) \ D
            BY <1>9, <1>14 DEF From, Calls
        <3>2. y # None /\ y \in Thread
            BY <1>1, Names
        <3>3. CASE t # None /\ y = x
            <4>1. t \in From(T, y) /\ From(R.tr, y) = From(T, y) \ {t}
                BY <1>8, <3>1, <3>2, <3>3 DEF From
            <4>2. Cardinality(From(R.tr, y)) = Cardinality(From(T, y)) - 1
                BY <4>1, FromFinite, FS_RemoveElement
            <4>3. Cardinality(From(T, y)) \in Nat
                BY FromFinite
            <4>4. S.err2[y] # Ok => S.err[y] # Ok
                BY DEF SInv, Errors
            <4>5. /\ R.err[y] # Ok
                  /\ R.err2[y] = IF S.err[y] # Ok THEN S.err[y] ELSE S.err2[y]
                  /\ ~(S.err[y] # Ok /\ S.err2[y] # Ok)
                BY <1>12, <1>14, <3>3 DEF Dead, Failed, Ok
            <4> QED
                BY <4>2, <4>3, <4>4, <4>5 DEF Due
        <3>4. CASE ~(t # None /\ y = x)
            <4>1. From(R.tr, y) = From(T, y)
                BY <1>8, <3>1, <3>2, <3>4, Names DEF From, Calls
            <4>2. R.err[y] = S.err[y] /\ R.err2[y] = S.err2[y]
                BY <1>14, <3>2, <3>4
            <4> QED
                BY <4>1, <4>2 DEF Due
        <3> QED
            BY <3>3, <3>4
    <2> QED
        BY <2>1, <2>2, <2>3, <2>4 DEF Frame
<1>24. Still(S, R, Thread \ th)
    BY <1>11, <1>14 DEF Still
<1>25. R.tr[i] = None
    BY <1>1, <1>7, <1>14
<1> QED
    BY <1>22, <1>23, <1>24, <1>25

\* The stacks of the others do not matter.
LEMMA ChainsStack ==
    ASSUME NEW T, NEW s, NEW v, NEW th, NEW Q, Chains(T, s, th, Q), \A y \in th : v[y] = s[y]
    PROVE  Chains(T, v, th, Q)
<1>1. PICK d, r : ChainsBy(T, s, th, Q, d, r)
    BY DEF Chains
<1>2. Tops(T, v, th, Q, d, r)
    BY <1>1, ChainsParts DEF Tops
<1>3. Targets(T, v, th, Q, r)
    BY <1>1, ChainsParts DEF Targets
<1> QED
    BY <1>1, <1>2, <1>3 DEF Chains, ChainsBy

\* The call that x is handling, if it is.
Handling(S, x) == {i \in {S.stack[x]} : i # None /\ S.tr[i].to_thread = x}

\* The loop of binder_free_thread().
LEMMA DisownIs ==
    ASSUME NEW S, NEW th, NEW P, SInv(S, th, P), NEW x \in th, NEW R, R = Disown(S, x)
    PROVE  /\ SInv(R, th \ {x}, P \cup Handling(S, x))
           /\ Frame(S, R, th \ {x}, P) /\ Still(S, R, Thread)
           /\ Handling(S, x) \subseteq Calls(R.tr) /\ Handling(S, x) \cap P = {}
<1> DEFINE top == Handling(S, x)
           T == S.tr
           Q == P \cap Calls(T)
           mine == Rel(T, Q, x)
           in == {i \in mine : T[i].to_thread = x}
           U == [i \in Id |-> IF i \in in THEN [T[i] EXCEPT !.to_thread = None, !.buffer = FALSE]
                              ELSE IF i \in mine THEN [T[i] EXCEPT !.from = None]
                              ELSE T[i]]
           B == [i \in Id |-> IF i \in in /\ T[i].buffer
                              THEN [S.buf[i] EXCEPT !.transaction = FALSE] ELSE S.buf[i]]
<1>1. /\ S \in StateType /\ T \in [Id -> Transaction \cup {None}] /\ th \subseteq Thread
      /\ S.buf \in [Id -> Buffer \cup {None}] /\ x \in Thread /\ x # None /\ P \subseteq Id
      /\ Chains(T, S.stack, th, Q)
    BY StateParts, Names DEF SInv
<1>2. PICK d, r : ChainsBy(T, S.stack, th, Q, d, r)
    BY <1>1 DEF Chains
<1>3. mine = StackFrom(T, x, S.stack[x])
    BY <1>2, StackIsRel
<1>4. R = [S EXCEPT !.tr = U, !.buf = B]
    BY <1>3 DEF Disown
<1>5. /\ mine \subseteq Calls(T) /\ Calls(T) \subseteq Id
      /\ \A i \in Calls(T) : T[i] \in Transaction /\ T[i] # None /\ ~T[i].reply /\ ~T[i].one_way
    BY <1>1 DEF Rel, Calls
<1>6. /\ \A i \in in : T[i].from # x /\ i \notin Q /\ i \notin P /\ T[i].to_thread = x
      /\ \A i \in mine : i \notin in => T[i].from = x
    <2>1. \A i \in Calls(T) : T[i].from # None => T[i].from # T[i].to_thread
        BY <1>2, ChainsParts DEF Senders
    <2> QED
        BY <1>1, <1>5, <2>1 DEF Rel
<1> HIDE DEF mine, in
<1>7. ASSUME NEW i \in Calls(T)
      PROVE  /\ U[i] \in Transaction /\ ~U[i].reply /\ ~U[i].one_way
             /\ U[i].from_parent = T[i].from_parent /\ U[i].to_parent = T[i].to_parent
             /\ U[i].from = IF i \in mine /\ i \notin in THEN None ELSE T[i].from
             /\ U[i].to_thread = IF i \in in THEN None ELSE T[i].to_thread
             /\ U[i].buffer = IF i \in in THEN FALSE ELSE T[i].buffer
             /\ U[i].reply = T[i].reply /\ U[i].one_way = T[i].one_way
    <2>1. i \in Id /\ T[i] \in Transaction /\ ~T[i].reply /\ ~T[i].one_way
        BY <1>5
    <2>2. CASE i \in in
        <3>1. U[i] = [T[i] EXCEPT !.to_thread = None, !.buffer = FALSE]
            BY <2>1, <2>2
        <3> HIDE DEF U, T
        <3> QED
            BY <2>1, <2>2, <3>1 DEF Transaction
    <2>3. CASE i \notin in /\ i \in mine
        <3>1. U[i] = [T[i] EXCEPT !.from = None]
            BY <2>1, <2>3
        <3> HIDE DEF U, T
        <3> QED
            BY <2>1, <2>3, <3>1 DEF Transaction
    <2>4. CASE i \notin in /\ i \notin mine
        <3>1. U[i] = T[i]
            BY <2>1, <2>4
        <3> HIDE DEF U, T
        <3> QED
            BY <2>1, <2>4, <3>1
    <2> QED
        BY <2>2, <2>3, <2>4
<1>8. /\ \A i \in Id : i \notin mine => U[i] = T[i]
      /\ in \subseteq mine
    BY <1>5 DEF in
<1>9. U \in [Id -> Transaction \cup {None}]
    <2>1. \A i \in Id : U[i] \in Transaction \cup {None}
        BY <1>1, <1>5, <1>7, <1>8, Zenon
    <2>2. U = [i \in Id |-> U[i]]
        OBVIOUS
    <2> HIDE DEF U
    <2> QED
        BY <2>1, <2>2
<1>10. ASSUME NEW i \in Id
       PROVE  /\ B[i] \in Buffer \cup {None} /\ SameBuf(S.buf[i], B[i])
              /\ i \notin in => B[i] = S.buf[i]
              /\ i \in in => ~(B[i] # None /\ B[i].transaction)
    <2>1. CASE i \in in /\ T[i].buffer
        <3>1. i \in Calls(T) /\ T[i] # None
            BY <1>5, <1>8, <2>1
        <3>2. S.buf[i] \in Buffer /\ S.buf[i] # None
            BY <1>1, <2>1, <3>1 DEF SInv, Linked
        <3>3. B[i] = [S.buf[i] EXCEPT !.transaction = FALSE]
            BY <2>1
        <3> HIDE DEF B
        <3>4. B[i] \in Buffer /\ ~B[i].transaction /\ B[i].proc = S.buf[i].proc
              /\ B[i].async = S.buf[i].async /\ B[i].allow_user_free = S.buf[i].allow_user_free
            BY <3>2, <3>3 DEF Buffer
        <3> QED
            BY <2>1, <3>2, <3>4, Names DEF SameBuf
    <2>2. CASE ~(i \in in /\ T[i].buffer)
        <3>1. B[i] = S.buf[i]
            BY <2>2
        <3>2. i \in in => T[i] # None
            BY <1>5, <1>8
        <3> HIDE DEF B
        <3> QED
            BY <1>1, <2>2, <3>1, <3>2 DEF SameBuf, SInv, Linked
    <2> QED
        BY <2>1, <2>2
<1>11. B \in [Id -> Buffer \cup {None}]
    <2>1. B = [i \in Id |-> B[i]]
        OBVIOUS
    <2> HIDE DEF B
    <2> QED
        BY <1>10, <2>1
<1> HIDE DEF U, B
<1>12. /\ R \in StateType /\ R.tr = U /\ R.buf = B
       /\ R.stack = S.stack /\ R.err = S.err /\ R.err2 = S.err2 /\ R.pc = S.pc
    <2> HIDE DEF T
    <2> QED
        BY <1>1, <1>4, <1>9, <1>11 DEF StateType
<1>13. Calls(U) = Calls(T)
    <2>1. \A i \in Id : i \in Calls(U) <=> i \in Calls(T)
        <3> SUFFICES ASSUME NEW i \in Id PROVE i \in Calls(U) <=> i \in Calls(T)
            OBVIOUS
        <3>1. CASE i \in Calls(T)
            BY <1>7, <3>1, Names DEF Calls
        <3>2. CASE i \notin Calls(T)
            BY <1>5, <1>8, <3>2 DEF Calls
        <3> QED
            BY <3>1, <3>2
    <2> QED
        BY <2>1 DEF Calls
<1>14. top \subseteq in /\ top \subseteq Calls(T) /\ top \cap P = {}
    <2>1. ASSUME NEW i \in top PROVE i \in in
        <3>1. i = S.stack[x] /\ i # None /\ T[i].to_thread = x
            BY <2>1 DEF Handling
        <3>2. i \in mine
            BY <1>2, <3>1, ChainsParts DEF Tops, mine
        <3> QED
            BY <3>1, <3>2 DEF in
    <2> QED
        BY <1>5, <1>6, <1>8, <2>1
<1>15. Chains(U, S.stack, th \ {x}, Q \cup top)
    <2>1. \A j \in Calls(T) :
               /\ U[j].from_parent = T[j].from_parent /\ U[j].to_parent = T[j].to_parent
               /\ U[j].from = IF T[j].from = x THEN None ELSE T[j].from
               /\ U[j].to_thread = IF j \notin Q /\ T[j].to_thread = x THEN None ELSE T[j].to_thread
        <3> SUFFICES ASSUME NEW j \in Calls(T)
                     PROVE  /\ U[j].from = IF T[j].from = x THEN None ELSE T[j].from
                            /\ U[j].to_thread = IF j \notin Q /\ T[j].to_thread = x THEN None
                                                ELSE T[j].to_thread
            BY <1>7
        <3>1. j \in mine <=> (T[j].from = x \/ (j \notin Q /\ T[j].to_thread = x))
            BY DEF mine, Rel
        <3>2. j \in in <=> j \in mine /\ T[j].to_thread = x
            BY DEF in
        <3> QED
            BY <1>6, <1>7, <3>1, <3>2
    <2>2. DisownStep(T, U, S.stack, S.stack, th, Q, Q \cup top, x)
        <3> HIDE DEF T, Q
        <3>1. top = {i \in {S.stack[x]} : i # None /\ T[i].to_thread = x}
            BY DEF T, Handling
        <3> QED
            BY <1>1, <1>13, <2>1, <3>1 DEF DisownStep
    <2> HIDE DEF Q, T
    <2> QED
        BY <2>2, ChainsDisown
<1>16. (P \cup top) \cap Calls(U) = Q \cup top
    BY <1>13, <1>14
<1>17. \A i \in Id : U[i] # None <=> T[i] # None
    BY <1>5, <1>7, <1>8, Names
<1>18. SInv(R, th \ {x}, P \cup top)
    <2>1. P \cup top \subseteq {i \in Id : U[i] # None}
        BY <1>1, <1>5, <1>14, <1>17 DEF SInv
    <2>2. \A i \in Id : U[i] # None /\ i \notin P \cup top => i \in Calls(U)
        BY <1>13, <1>17 DEF SInv
    <2>3. Linked(R)
        <3> SUFFICES ASSUME NEW i \in Id
                     PROVE  (B[i] # None /\ B[i].transaction) <=> (U[i] # None /\ U[i].buffer)
            BY <1>12 DEF Linked
        <3>1. CASE i \in in
            <4>1. i \in Calls(T)
                BY <1>5, <1>8, <3>1
            <4> QED
                BY <1>7, <1>10, <3>1, <4>1
        <3>2. CASE i \notin in
            <4>1. B[i] = S.buf[i]
                BY <1>10, <3>2
            <4>2. U[i] # None => U[i].buffer = T[i].buffer
                BY <1>5, <1>7, <1>8, <3>2
            <4> QED
                BY <1>17, <4>1, <4>2 DEF SInv, Linked
        <3> QED
            BY <3>1, <3>2
    <2>4. Errors(R, th \ {x})
        <3> SUFFICES ASSUME NEW y \in th \ {x}, S.err2[y] # Ok
                     PROVE  S.err[y] # Ok /\ (S.stack[y] # None => U[S.stack[y]].to_thread = y)
            BY <1>12 DEF Errors
        <3>1. S.err[y] # Ok /\ (S.stack[y] # None => T[S.stack[y]].to_thread = y)
            BY DEF SInv, Errors
        <3>2. S.stack[y] # None => S.stack[y] \in Calls(T)
            BY <1>2, ChainsParts DEF Tops, Rel
        <3>3. S.stack[y] # None => S.stack[y] \notin in
            BY <1>6, <3>1
        <3> QED
            BY <1>7, <3>1, <3>2, <3>3
    <2>5. Waits(R, th \ {x})
        BY <1>12 DEF SInv, Waits
    <2> QED
        BY <1>1, <1>12, <1>15, <1>16, <2>1, <2>2, <2>3, <2>4, <2>5 DEF SInv
<1>19. Frame(S, R, th \ {x}, P)
    <2>1. ASSUME NEW i \in P PROVE SameWork(T[i], U[i]) /\ B[i] = S.buf[i]
        <3>1. i \in Id /\ i \notin in /\ T[i] # None
            BY <1>6 DEF SInv
        <3>2. CASE i \in Calls(T)
            BY <1>7, <1>10, <1>17, <3>1, <3>2, <1>5 DEF SameWork
        <3>3. CASE i \notin Calls(T)
            BY <1>5, <1>8, <1>10, <3>1, <3>3 DEF SameWork
        <3> QED
            BY <3>2, <3>3
    <2>2. \A i \in Id : SameBuf(S.buf[i], B[i]) /\ (U[i] # None => T[i] # None)
        BY <1>10, <1>17
    <2>3. ASSUME NEW y \in th \ {x} PROVE Due(R, y) = Due(S, y)
        <3>1. y # None
            BY <1>1, Names
        <3>2. From(U, y) = From(T, y)
            BY <1>6, <1>7, <1>13, <3>1 DEF From
        <3> QED
            BY <1>12, <3>2 DEF Due
    <2> QED
        BY <1>12, <2>1, <2>2, <2>3 DEF Frame
<1> QED
    BY <1>12, <1>13, <1>14, <1>18, <1>19 DEF Still

-----------------------------------------------------------------------------
\* The ids on a list of works, each of which is there once.
Ids(s) == {i \in Id : OnList(s, i)}

\* A list of works.
Works(s) ==
    /\ s \in Seq(Id \cup {Complete})
    /\ \A k, l \in 1 .. Len(s) : s[k] = s[l] /\ s[k] \in Id => k = l

\* From a state to itself nothing changes.
LEMMA FrameSelf ==
    ASSUME NEW S, NEW th, NEW P, SInv(S, th, P)
    PROVE  Frame(S, S, th, P) /\ \A Z : Still(S, S, Z)
BY DEF Frame, Still, SameWork, SameBuf, SInv

\* One work of a list is released.
LEMMA ReleaseOneIs ==
    ASSUME NEW S, NEW th, NEW P, SInv(S, th, P), NEW w, w \in P \/ w = Complete,
           NEW R, R = ReleaseOne(S, w)
    PROVE  SInv(R, th, P \ {w}) /\ Frame(S, R, th, P \ {w}) /\ Still(S, R, Thread \ th)
<1>1. CASE w = Complete
    <2>1. P \ {w} = P
        BY <1>1, Names DEF SInv
    <2>2. R = S
        BY <1>1 DEF ReleaseOne
    <2> QED
        BY <2>1, <2>2, FrameSelf
<1>2. CASE w # Complete
    <2>1. w \in P /\ w \in Id /\ S.tr[w] # None
        BY <1>2 DEF SInv
    <2>2. CASE w \in Calls(S.tr)
        <3>1. R = SendFailedReply(S, w, Dead)
            BY <1>2, <2>2 DEF ReleaseOne, Calls
        <3> QED
            BY <2>1, <2>2, <3>1, Answer
    <2>3. CASE w \notin Calls(S.tr)
        <3>1. R = FreeTransactions(S, {w})
            BY <1>2, <2>1, <2>3 DEF ReleaseOne, Calls
        <3>2. SInv(R, th, P \ {w}) /\ Frame(S, R, th, P \ {w}) /\ Still(S, R, Thread)
            BY <2>1, <2>3, <3>1, FreeWork
        <3>3. Still(S, R, Thread \ th)
            BY <3>2 DEF Still
        <3> QED
            BY <3>2, <3>3
    <2> QED
        BY <2>2, <2>3
<1> QED
    BY <1>1, <1>2

\* The recursive definition of ReleaseWork has a solution.
LEMMA ReleaseWorkIs ==
    ASSUME NEW S, NEW list, Len(list) \in Nat
    PROVE  \E R : /\ R[0] = S
                  /\ \A k \in 1 .. Len(list) : R[k] = ReleaseOne(R[k - 1], list[k])
                  /\ ReleaseWork(S, list) = R[Len(list)]
<1> DEFINE n == Len(list)
           Step(v, k) == ReleaseOne(v, list[k])
           Is(f, m) == f = [k \in 0 .. m |-> IF k = 0 THEN S ELSE Step(f[k - 1], k)]
           Bad == {m \in Nat : ~\E f : Is(f, m)}
<1> HIDE DEF Step
<1>1. Bad = {}
    <2>1. SUFFICES ASSUME Bad # {} PROVE FALSE
        OBVIOUS
    <2>2. PICK m \in Bad : \A y \in Bad : m <= y
        <3>1. Bad \in SUBSET Nat
            OBVIOUS
        <3> HIDE DEF Bad
        <3> QED
            BY <2>1, <3>1, Least
    <2>3. m # 0
        <3>1. Is([k \in 0 .. 0 |-> S], 0)
            OBVIOUS
        <3> QED
            BY <3>1
    <2>4. m - 1 \in Nat /\ m - 1 \notin Bad /\ m \in Nat
        <3>1. m \in Nat
            OBVIOUS
        <3>2. m - 1 \in Nat /\ ~(m <= m - 1)
            BY <2>3, <3>1
        <3> HIDE DEF Bad
        <3> QED
            BY <2>2, <3>1, <3>2
    <2>5. PICK f : Is(f, m - 1)
        BY <2>4
    <2> DEFINE g == [k \in 0 .. m |-> IF k = m THEN Step(f[m - 1], m) ELSE f[k]]
    <2>6. ASSUME NEW k \in 0 .. m
          PROVE  g[k] = IF k = 0 THEN S ELSE Step(g[k - 1], k)
        <3>1. CASE k = 0
            BY <2>3, <2>4, <2>5, <3>1
        <3>2. CASE k = m
            <4>1. g[k - 1] = f[m - 1]
                BY <2>3, <2>4, <3>2
            <4> QED
                BY <2>3, <3>2, <4>1
        <3>3. CASE k # 0 /\ k # m
            <4>1. k \in 0 .. m - 1 /\ k - 1 \in 0 .. m /\ k - 1 # m
                BY <2>4, <3>3
            <4>2. f[k] = Step(f[k - 1], k)
                BY <2>5, <3>3, <4>1
            <4> QED
                BY <3>3, <4>1, <4>2
        <3> QED
            BY <3>1, <3>2, <3>3
    <2>7. Is(g, m)
        BY <2>6
    <2> QED
        BY <2>2, <2>7
<1>2. \E f : Is(f, n)
    BY <1>1
<1> DEFINE C == CHOOSE f : Is(f, n)
<1>3. Is(C, n)
    <2> HIDE DEF Is
    <2> QED
        BY <1>2
<1>4. ReleaseWork(S, list) = C[n]
    BY DEF ReleaseWork, Step
<1> HIDE DEF C
<1>5. C[0] = S /\ \A k \in 1 .. n : C[k] = Step(C[k - 1], k)
    BY <1>3
<1> QED
    BY <1>4, <1>5 DEF Step

\* All of a list is released.
LEMMA ReleaseAll ==
    ASSUME NEW S, NEW th, NEW P, SInv(S, th, P), NEW list, Works(list), Ids(list) \subseteq P,
           NEW V, V = ReleaseWork(S, list)
    PROVE  /\ SInv(V, th, P \ Ids(list)) /\ Frame(S, V, th, P \ Ids(list))
           /\ Still(S, V, Thread \ th)
<1> DEFINE n == Len(list)
           left(k) == P \ {list[m] : m \in 1 .. k}
           Ok1(W, k) == SInv(W, th, left(k)) /\ Frame(S, W, th, left(k)) /\ Still(S, W, Thread \ th)
<1>1. n \in Nat /\ \A k \in 1 .. n : list[k] \in Id \cup {Complete}
    BY DEF Works
<1>2. PICK R : /\ R[0] = S
               /\ \A k \in 1 .. n : R[k] = ReleaseOne(R[k - 1], list[k])
               /\ V = R[n]
    BY <1>1, ReleaseWorkIs
<1>3. Ok1(R[0], 0)
    <2>1. left(0) = P
        OBVIOUS
    <2> HIDE DEF left
    <2> QED
        BY <1>2, <2>1, FrameSelf
<1>4. ASSUME NEW k \in 1 .. n, Ok1(R[k - 1], k - 1) PROVE Ok1(R[k], k)
    <2>1. left(k) = left(k - 1) \ {list[k]}
        <3>1. \A m \in 1 .. k : m = k \/ m \in 1 .. k - 1
            BY <1>1
        <3>2. k \in 1 .. k /\ \A m \in 1 .. k - 1 : m \in 1 .. k
            BY <1>1
        <3> QED
            BY <3>1, <3>2
    <2>2. list[k] \in left(k - 1) \/ list[k] = Complete
        <3>1. SUFFICES ASSUME list[k] # Complete PROVE list[k] \in left(k - 1)
            OBVIOUS
        <3>2. list[k] \in P /\ list[k] \in Id
            BY <1>1, <3>1 DEF Ids, OnList, Works
        <3>3. ASSUME NEW m \in 1 .. k - 1 PROVE list[m] # list[k]
            <4>1. m \in 1 .. n /\ m # k
                BY <1>1
            <4> QED
                BY <3>2, <4>1 DEF Works
        <3> QED
            BY <3>2, <3>3
    <2> HIDE DEF left
    <2>3. R[k] = ReleaseOne(R[k - 1], list[k])
        BY <1>2
    <2>4. /\ SInv(R[k], th, left(k)) /\ Frame(R[k - 1], R[k], th, left(k))
          /\ Still(R[k - 1], R[k], Thread \ th)
        <3> DEFINE A == R[k - 1]
                   w == list[k]
                   L == left(k - 1)
        <3>1. SInv(A, th, L) /\ (w \in L \/ w = Complete) /\ R[k] = ReleaseOne(A, w)
            BY <1>4, <2>2, <2>3
        <3> HIDE DEF A, w, L
        <3>2. SInv(R[k], th, L \ {w}) /\ Frame(A, R[k], th, L \ {w}) /\ Still(A, R[k], Thread \ th)
            BY <3>1, ReleaseOneIs
        <3> QED
            BY <2>1, <3>2 DEF A, w, L
    <2>5. Frame(S, R[k], th, left(k))
        <3>1. left(k) \subseteq left(k - 1) /\ th \subseteq th
            BY <2>1
        <3> QED
            BY <1>4, <2>4, <3>1, FrameTrans
    <2>6. Still(S, R[k], Thread \ th)
        BY <1>4, <2>4 DEF Still
    <2> QED
        BY <2>4, <2>5, <2>6
<1> HIDE DEF Ok1
<1>5. Ok1(R[n], n)
    <2> DEFINE Bad == {k \in 0 .. n : ~Ok1(R[k], k)}
    <2>1. SUFFICES ASSUME Bad # {} PROVE FALSE
        BY <1>1
    <2>2. PICK k \in Bad : \A y \in Bad : k <= y
        <3>1. Bad \in SUBSET Nat
            OBVIOUS
        <3> HIDE DEF Bad
        <3> QED
            BY <2>1, <3>1, Least
    <2>3. k # 0
        BY <1>3, <2>2
    <2>4. k \in 1 .. n /\ k - 1 \in 0 .. n /\ k - 1 \notin Bad
        BY <1>1, <2>2, <2>3
    <2>5. Ok1(R[k - 1], k - 1)
        BY <2>4
    <2> QED
        BY <1>4, <2>2, <2>4, <2>5
<1>6. left(n) = P \ Ids(list)
    <2>1. \A i \in P : i \in {list[m] : m \in 1 .. n} <=> i \in Ids(list)
        <3>1. DOMAIN list = 1 .. n /\ P \subseteq Id
            BY DEF Works, SInv
        <3> QED
            BY <3>1 DEF Ids, OnList
    <2> QED
        BY <2>1
<1> HIDE DEF left
<1> QED
    BY <1>2, <1>5, <1>6 DEF Ok1

\* A thread that has been freed.
Freed(R, Z) ==
    \A x \in Z : R.stack[x] = None /\ R.err[x] = Ok /\ R.err2[x] = Ok

\* binder_free_thread(): the call that x handles is answered, its list is released.
LEMMA FreeThreadIs ==
    ASSUME NEW S, NEW th, NEW P, SInv(S, th, P), NEW x \in th,
           Works(todo[x]), Ids(todo[x]) \subseteq P, NEW R, R = FreeThread(S, x)
    PROVE  /\ SInv(R, th \ {x}, P \ Ids(todo[x])) /\ Frame(S, R, th \ {x}, P \ Ids(todo[x]))
           /\ Still(S, R, Thread \ th) /\ Freed(R, {x})
<1> DEFINE t == S.stack[x]
           top == Handling(S, x)
           A == Disown(S, x)
           B == IF t # None /\ S.tr[t].to_thread = x THEN SendFailedReply(A, t, Dead) ELSE A
           V == ReleaseWork(B, todo[x])
           tg == th \ {x}
           L == P \ Ids(todo[x])
<1>1. x \in Thread /\ th \subseteq Thread
    BY DEF SInv
<1>2. /\ SInv(A, tg, P \cup top) /\ Frame(S, A, tg, P) /\ Still(S, A, Thread)
      /\ top \subseteq Calls(A.tr) /\ top \cap P = {}
    <2> HIDE DEF A
    <2> QED
        BY DisownIs DEF A
<1>3. R = [V EXCEPT !.stack[x] = None, !.err[x] = Ok, !.err2[x] = Ok]
    BY DEF FreeThread
<1> HIDE DEF A
<1>4. SInv(B, tg, P) /\ Frame(S, B, tg, P) /\ Still(S, B, Thread \ tg)
    <2>1. CASE t # None /\ S.tr[t].to_thread = x
        <3>1. t \in top /\ top = {t}
            BY <2>1 DEF Handling
        <3>2. B = SendFailedReply(A, t, Dead)
            BY <2>1
        <3> HIDE DEF B, t, top
        <3>3. t \in P \cup top /\ t \in Calls(A.tr)
            BY <1>2, <3>1
        <3>4. (P \cup top) \ {t} = P
            BY <1>2, <3>1
        <3>5. /\ SInv(B, tg, (P \cup top) \ {t}) /\ Frame(A, B, tg, (P \cup top) \ {t})
              /\ Still(A, B, Thread \ tg)
            <4> DEFINE PP == P \cup top
            <4>1. SInv(A, tg, PP) /\ t \in PP
                BY <1>2, <3>3
            <4> HIDE DEF PP, tg
            <4>2. SInv(B, tg, PP \ {t}) /\ Frame(A, B, tg, PP \ {t}) /\ Still(A, B, Thread \ tg)
                BY <3>2, <3>3, <4>1, Answer
            <4> QED
                BY <4>2 DEF PP
        <3>6. Frame(S, B, tg, P)
            BY <1>2, <3>4, <3>5, FrameTrans
        <3>7. Still(S, B, Thread \ tg)
            BY <1>2, <3>5 DEF Still
        <3> QED
            BY <3>4, <3>5, <3>6, <3>7
    <2>2. CASE ~(t # None /\ S.tr[t].to_thread = x)
        <3>1. top = {} /\ B = A
            BY <2>2 DEF Handling
        <3>2. P \cup top = P
            BY <3>1
        <3>3. Still(S, A, Thread \ tg)
            BY <1>2 DEF Still
        <3> HIDE DEF B, top
        <3> QED
            BY <1>2, <3>1, <3>2, <3>3
    <2> QED
        BY <2>1, <2>2
<1> HIDE DEF B
<1>5. SInv(V, tg, L) /\ Frame(B, V, tg, L) /\ Still(B, V, Thread \ tg)
    <2> HIDE DEF V, tg
    <2> QED
        BY <1>4, ReleaseAll DEF V
<1> HIDE DEF V
<1>6. Frame(S, V, tg, L) /\ Still(S, V, Thread \ tg)
    <2>1. L \subseteq P /\ tg \subseteq tg
        OBVIOUS
    <2>2. Frame(S, V, tg, L)
        <3> HIDE DEF L, tg
        <3> QED
            BY <1>4, <1>5, <2>1, FrameTrans
    <2> QED
        BY <1>4, <1>5, <2>2 DEF Still
<1>7. /\ R.tr = V.tr /\ R.buf = V.buf /\ R.pc = V.pc
      /\ R.stack = [V.stack EXCEPT ![x] = None]
      /\ R.err = [V.err EXCEPT ![x] = Ok] /\ R.err2 = [V.err2 EXCEPT ![x] = Ok]
      /\ R \in StateType
    <2>1. V \in StateType
        BY <1>5 DEF SInv
    <2>2. /\ R.tr = V.tr /\ R.buf = V.buf /\ R.pc = V.pc
          /\ R.stack = [V.stack EXCEPT ![x] = None]
          /\ R.err = [V.err EXCEPT ![x] = Ok] /\ R.err2 = [V.err2 EXCEPT ![x] = Ok]
          /\ R = [tr |-> R.tr, buf |-> R.buf, stack |-> R.stack, err |-> R.err,
                  err2 |-> R.err2, pc |-> R.pc]
        BY <1>3, <2>1 DEF StateType
    <2>3. /\ R.stack \in [Thread -> Id \cup {None}] /\ R.err \in [Thread -> Code]
          /\ R.err2 \in [Thread -> Code]
        BY <1>1, <2>1, <2>2, StateParts DEF Code
    <2>4. /\ R.tr \in [Id -> Transaction \cup {None}] /\ R.buf \in [Id -> Buffer \cup {None}]
          /\ R.pc \in [Thread -> Waiting \cup {"user"}]
        BY <2>1, <2>2, StateParts
    <2> QED
        BY <2>2, <2>3, <2>4 DEF StateType
<1>8. \A y \in Thread : y # x => R.stack[y] = V.stack[y] /\ R.err[y] = V.err[y] /\ R.err2[y] = V.err2[y]
    <2>1. V \in StateType
        BY <1>5 DEF SInv
    <2> QED
        BY <1>7, <2>1, StateParts
<1>9. R.stack[x] = None /\ R.err[x] = Ok /\ R.err2[x] = Ok
    <2>1. V \in StateType
        BY <1>5 DEF SInv
    <2> QED
        BY <1>1, <1>7, <2>1, StateParts
<1>10. SInv(R, tg, L)
    <2>1. Chains(R.tr, R.stack, tg, L \cap Calls(R.tr))
        <3>1. Chains(V.tr, V.stack, tg, L \cap Calls(V.tr))
            BY <1>5 DEF SInv
        <3>2. \A y \in tg : R.stack[y] = V.stack[y]
            BY <1>1, <1>8
        <3> HIDE DEF L, tg
        <3>3. Chains(V.tr, R.stack, tg, L \cap Calls(V.tr))
            BY <3>1, <3>2, ChainsStack
        <3> QED
            BY <1>7, <3>3
    <2>2. Errors(R, tg) /\ Waits(R, tg)
        <3>1. \A y \in tg : /\ R.stack[y] = V.stack[y] /\ R.err[y] = V.err[y]
                            /\ R.err2[y] = V.err2[y] /\ R.pc[y] = V.pc[y]
            BY <1>1, <1>7, <1>8
        <3>2. Errors(V, tg) /\ Waits(V, tg)
            BY <1>5 DEF SInv
        <3> HIDE DEF tg
        <3> QED
            BY <1>7, <3>1, <3>2 DEF Errors, Waits
    <2>3. Linked(R)
        BY <1>5, <1>7 DEF SInv, Linked
    <2> HIDE DEF tg, L
    <2> QED
        BY <1>5, <1>7, <2>1, <2>2, <2>3 DEF SInv
<1>11. Frame(S, R, tg, L)
    <2>1. \A y \in tg : Due(R, y) = Due(V, y)
        BY <1>1, <1>7, <1>8 DEF Due
    <2> HIDE DEF tg, L
    <2> QED
        BY <1>6, <1>7, <2>1 DEF Frame
<1>12. Still(S, R, Thread \ th) /\ Freed(R, {x})
    <2>1. \A y \in Thread \ th : y \in Thread \ tg /\ y # x
        OBVIOUS
    <2>2. x \in Thread \ tg
        BY <1>1
    <2> HIDE DEF tg
    <2> QED
        BY <1>6, <1>7, <1>8, <1>9, <2>1, <2>2 DEF Still, Freed
<1> QED
    BY <1>10, <1>11, <1>12

\* The recursive definition of FreeThreads has a solution.
LEMMA FreeThreadsRec ==
    ASSUME NEW S, NEW order, Len(order) \in Nat
    PROVE  \E R : /\ R[0] = S
                  /\ \A k \in 1 .. Len(order) : R[k] = FreeThread(R[k - 1], order[k])
                  /\ FreeThreads(S, order) = R[Len(order)]
<1> DEFINE n == Len(order)
           Step(v, k) == FreeThread(v, order[k])
           Is(f, m) == f = [k \in 0 .. m |-> IF k = 0 THEN S ELSE Step(f[k - 1], k)]
           Bad == {m \in Nat : ~\E f : Is(f, m)}
<1> HIDE DEF Step
<1>1. Bad = {}
    <2>1. SUFFICES ASSUME Bad # {} PROVE FALSE
        OBVIOUS
    <2>2. PICK m \in Bad : \A y \in Bad : m <= y
        <3>1. Bad \in SUBSET Nat
            OBVIOUS
        <3> HIDE DEF Bad
        <3> QED
            BY <2>1, <3>1, Least
    <2>3. m # 0
        <3>1. Is([k \in 0 .. 0 |-> S], 0)
            OBVIOUS
        <3> QED
            BY <3>1
    <2>4. m - 1 \in Nat /\ m - 1 \notin Bad /\ m \in Nat
        <3>1. m \in Nat
            OBVIOUS
        <3>2. m - 1 \in Nat /\ ~(m <= m - 1)
            BY <2>3, <3>1
        <3> HIDE DEF Bad
        <3> QED
            BY <2>2, <3>1, <3>2
    <2>5. PICK f : Is(f, m - 1)
        BY <2>4
    <2> DEFINE g == [k \in 0 .. m |-> IF k = m THEN Step(f[m - 1], m) ELSE f[k]]
    <2>6. ASSUME NEW k \in 0 .. m
          PROVE  g[k] = IF k = 0 THEN S ELSE Step(g[k - 1], k)
        <3>1. CASE k = 0
            BY <2>3, <2>4, <2>5, <3>1
        <3>2. CASE k = m
            <4>1. g[k - 1] = f[m - 1]
                BY <2>3, <2>4, <3>2
            <4> QED
                BY <2>3, <3>2, <4>1
        <3>3. CASE k # 0 /\ k # m
            <4>1. k \in 0 .. m - 1 /\ k - 1 \in 0 .. m /\ k - 1 # m
                BY <2>4, <3>3
            <4>2. f[k] = Step(f[k - 1], k)
                BY <2>5, <3>3, <4>1
            <4> QED
                BY <3>3, <4>1, <4>2
        <3> QED
            BY <3>1, <3>2, <3>3
    <2>7. Is(g, m)
        BY <2>6
    <2> QED
        BY <2>2, <2>7
<1>2. \E f : Is(f, n)
    BY <1>1
<1> DEFINE C == CHOOSE f : Is(f, n)
<1>3. Is(C, n)
    <2> HIDE DEF Is
    <2> QED
        BY <1>2
<1>4. FreeThreads(S, order) = C[n]
    BY DEF FreeThreads, Step
<1> HIDE DEF C
<1>5. C[0] = S /\ \A k \in 1 .. n : C[k] = Step(C[k - 1], k)
    BY <1>3
<1> QED
    BY <1>4, <1>5 DEF Step

\* The works on the lists of the threads in Z.
Todos(Z) == {i \in Id : \E x \in Z : i \in Ids(todo[x])}

\* The threads of a process are freed in some order.
LEMMA FreeThreadsIs ==
    ASSUME NEW S, NEW th, NEW P, SInv(S, th, P), NEW Z, Z \subseteq th,
           NEW order, order \in SetToSeqs(Z),
           \A x \in Z : Works(todo[x]) /\ Ids(todo[x]) \subseteq P,
           \A x, y \in Z : x # y => Ids(todo[x]) \cap Ids(todo[y]) = {},
           NEW V, V = FreeThreads(S, order)
    PROVE  /\ SInv(V, th \ Z, P \ Todos(Z)) /\ Frame(S, V, th \ Z, P \ Todos(Z))
           /\ Still(S, V, Thread \ th) /\ Freed(V, Z)
<1> DEFINE n == Cardinality(Z)
           done(k) == {order[m] : m \in 1 .. k}
           Ok1(W, k) == /\ SInv(W, th \ done(k), P \ Todos(done(k)))
                        /\ Frame(S, W, th \ done(k), P \ Todos(done(k)))
                        /\ Still(S, W, Thread \ th) /\ Freed(W, done(k))
<1>1. IsFiniteSet(Z) /\ n \in Nat
    <2>1. Z \in SUBSET Thread /\ IsFiniteSet(Thread)
        BY BinderAssumption DEF SInv
    <2>2. IsFiniteSet(Z)
        BY <2>1, FS_Subset
    <2> QED
        BY <2>2, FS_CardinalityType
<1>2. order \in [1 .. n -> Z] /\ \A k, m \in 1 .. n : k # m => order[k] # order[m]
    BY DEF SetToSeqs
<1>3. Len(order) = n
    BY <1>1, <1>2
<1>4. done(n) = Z
    <2>1. order \in Injection(1 .. n, Z)
        BY <1>2 DEF Injection, IsInjective
    <2>2. Cardinality(1 .. n) = n
        BY <1>1, FS_Interval
    <2>3. order \in Surjection(1 .. n, Z)
        <3> HIDE DEF n
        <3> QED
            BY <1>1, <2>1, <2>2, FS_Injection DEF n
    <2> QED
        BY <1>2, <2>3 DEF Surjection
<1>5. PICK R : /\ R[0] = S
               /\ \A k \in 1 .. n : R[k] = FreeThread(R[k - 1], order[k])
               /\ V = R[n]
    BY <1>1, <1>3, FreeThreadsRec
<1> HIDE DEF n
<1>6. Ok1(R[0], 0)
    <2>1. done(0) = {} /\ Todos({}) = {}
        BY DEF Todos
    <2>2. th \ {} = th /\ P \ {} = P
        OBVIOUS
    <2> HIDE DEF done
    <2> QED
        BY <1>5, <2>1, <2>2, FrameSelf DEF Freed
<1>7. ASSUME NEW k \in 1 .. n, Ok1(R[k - 1], k - 1) PROVE Ok1(R[k], k)
    <2> DEFINE x == order[k]
               A == R[k - 1]
               ta == th \ done(k - 1)
               Pa == P \ Todos(done(k - 1))
    <2>1. done(k) = done(k - 1) \cup {x} /\ x \in Z /\ x \notin done(k - 1) /\ done(k - 1) \subseteq Z
        <3>1. \A m \in 1 .. k : m = k \/ m \in 1 .. k - 1
            BY <1>1
        <3>2. k \in 1 .. k /\ \A m \in 1 .. k - 1 : m \in 1 .. k /\ m \in 1 .. n /\ m # k
            BY <1>1
        <3> QED
            BY <1>2, <3>1, <3>2
    <2> HIDE DEF done
    <2>2. x \in ta /\ x \in th
        BY <2>1
    <2>3. Works(todo[x]) /\ Ids(todo[x]) \subseteq Pa
        BY <2>1 DEF Todos
    <2>4. R[k] = FreeThread(A, x)
        BY <1>5
    <2>5. SInv(A, ta, Pa) /\ Frame(S, A, ta, Pa) /\ Still(S, A, Thread \ th) /\ Freed(A, done(k - 1))
        BY <1>7
    <2>6. th \ done(k) = ta \ {x} /\ P \ Todos(done(k)) = Pa \ Ids(todo[x])
        BY <2>1 DEF Todos, Ids
    <2>7. Thread \ th \subseteq Thread \ ta /\ done(k - 1) \subseteq Thread \ ta
        BY <2>1, <2>2 DEF SInv
    <2> HIDE DEF x, A, ta, Pa
    <2>8. /\ SInv(R[k], ta \ {x}, Pa \ Ids(todo[x])) /\ Frame(A, R[k], ta \ {x}, Pa \ Ids(todo[x]))
          /\ Still(A, R[k], Thread \ ta) /\ Freed(R[k], {x})
        BY <2>2, <2>3, <2>4, <2>5, FreeThreadIs
    <2>9. Frame(S, R[k], ta \ {x}, Pa \ Ids(todo[x]))
        <3>1. ta \ {x} \subseteq ta /\ Pa \ Ids(todo[x]) \subseteq Pa
            OBVIOUS
        <3> QED
            BY <2>5, <2>8, <3>1, FrameTrans
    <2>10. Still(S, R[k], Thread \ th)
        BY <2>5, <2>7, <2>8 DEF Still
    <2>11. Freed(R[k], done(k))
        <3>1. \A y \in done(k - 1) : R[k].stack[y] = None /\ R[k].err[y] = Ok /\ R[k].err2[y] = Ok
            BY <2>5, <2>7, <2>8 DEF Still, Freed
        <3> QED
            BY <2>1, <2>8, <3>1 DEF Freed
    <2> QED
        BY <2>6, <2>8, <2>9, <2>10, <2>11
<1> HIDE DEF Ok1, done
<1>8. Ok1(R[n], n)
    <2> DEFINE Bad == {k \in 0 .. n : ~Ok1(R[k], k)}
    <2>1. SUFFICES ASSUME Bad # {} PROVE FALSE
        BY <1>1
    <2>2. PICK k \in Bad : \A y \in Bad : k <= y
        <3>1. Bad \in SUBSET Nat
            OBVIOUS
        <3> HIDE DEF Bad
        <3> QED
            BY <2>1, <3>1, Least
    <2>3. k # 0
        BY <1>6, <2>2
    <2>4. k \in 1 .. n /\ k - 1 \in 0 .. n /\ k - 1 \notin Bad
        BY <1>1, <2>2, <2>3
    <2>5. Ok1(R[k - 1], k - 1)
        BY <2>4
    <2> QED
        BY <1>7, <2>2, <2>4, <2>5
<1> QED
    BY <1>4, <1>5, <1>8 DEF Ok1

-----------------------------------------------------------------------------
(***************************************************************************)
(* The lists of works.                                                     *)
(***************************************************************************)
LEMMA WorksEmpty == Works(<<>>) /\ Ids(<<>>) = {}
BY DEF Works, Ids, OnList

\* A work is put on a list.
LEMMA WorksAppend ==
    ASSUME NEW s, Works(s), NEW w \in Id \cup {Complete}, w \notin Ids(s)
    PROVE  /\ Works(Append(s, w)) /\ Append(s, w) # <<>>
           /\ Ids(Append(s, w)) = Ids(s) \cup ({w} \cap Id)
<1> DEFINE t == Append(s, w)
           n == Len(s)
<1>1. /\ s \in Seq(Id \cup {Complete}) /\ n \in Nat /\ DOMAIN s = 1 .. n
      /\ t \in Seq(Id \cup {Complete}) /\ Len(t) = n + 1 /\ DOMAIN t = 1 .. n + 1
      /\ \A k \in 1 .. n : t[k] = s[k]
      /\ t[n + 1] = w
    BY DEF Works
<1> HIDE DEF t, n
<1>2. \A k \in 1 .. n + 1 : k \in 1 .. n \/ k = n + 1
    BY <1>1
<1>3. \A k \in 1 .. n : k \in 1 .. n + 1
    BY <1>1
<1>4. n + 1 \in 1 .. n + 1
    BY <1>1
<1>5. \A k \in 1 .. n : s[k] \in Id => s[k] # w
    BY <1>1 DEF Ids, OnList
<1>6. \A k, l \in 1 .. n + 1 : t[k] = t[l] /\ t[k] \in Id => k = l
    <2>1. \A k, l \in 1 .. n : s[k] = s[l] /\ s[k] \in Id => k = l
        BY DEF Works, n
    <2> QED
        BY <1>1, <1>2, <1>5, <2>1
<1>7. Ids(t) = Ids(s) \cup ({w} \cap Id)
    BY <1>1, <1>2, <1>3, <1>4 DEF Ids, OnList
<1>8. Works(t)
    BY <1>1, <1>6 DEF Works
<1>9. t # <<>>
    BY <1>1
<1> QED
    BY <1>7, <1>8, <1>9 DEF t

\* A work is taken off a list.
LEMMA WorksTail ==
    ASSUME NEW s, Works(s), s # <<>>
    PROVE  /\ Works(Tail(s)) /\ Ids(Tail(s)) = Ids(s) \ {Head(s)}
           /\ Head(s) \in Id \cup {Complete} /\ (Head(s) \in Id => Head(s) \in Ids(s))
<1> DEFINE t == Tail(s)
           n == Len(s)
<1>1. /\ s \in Seq(Id \cup {Complete}) /\ n \in Nat /\ DOMAIN s = 1 .. n /\ n # 0
      /\ t \in Seq(Id \cup {Complete}) /\ Len(t) = n - 1 /\ DOMAIN t = 1 .. n - 1
      /\ \A k \in 1 .. n - 1 : t[k] = s[k + 1]
      /\ Head(s) = s[1]
    BY DEF Works
<1> HIDE DEF t, n
<1>2. 1 \in 1 .. n /\ \A k \in 1 .. n - 1 : k + 1 \in 1 .. n /\ k + 1 # 1
    BY <1>1
<1>3. \A k \in 1 .. n : k = 1 \/ (k - 1 \in 1 .. n - 1 /\ t[k - 1] = s[k])
    <2>1. \A k \in 1 .. n : k = 1 \/ (k - 1 \in 1 .. n - 1 /\ k - 1 + 1 = k)
        BY <1>1
    <2> QED
        BY <1>1, <2>1
<1>4. \A k, l \in 1 .. n : s[k] = s[l] /\ s[k] \in Id => k = l
    BY DEF Works, n
<1>5. Works(t)
    <2>1. \A k, l \in 1 .. n - 1 : t[k] = t[l] /\ t[k] \in Id => k = l
        <3> SUFFICES ASSUME NEW k \in 1 .. n - 1, NEW l \in 1 .. n - 1, t[k] = t[l], t[k] \in Id
                     PROVE  k = l
            OBVIOUS
        <3>1. k + 1 = l + 1
            BY <1>1, <1>2, <1>4
        <3> QED
            BY <1>1, <3>1
    <2> QED
        BY <1>1, <2>1 DEF Works
<1>6. Ids(t) = Ids(s) \ {Head(s)}
    <2> SUFFICES ASSUME NEW i \in Id PROVE i \in Ids(t) <=> i \in Ids(s) /\ i # s[1]
        BY <1>1 DEF Ids
    <2>1. ASSUME i \in Ids(t) PROVE i \in Ids(s) /\ i # s[1]
        <3>1. PICK k \in 1 .. n - 1 : t[k] = i
            BY <1>1, <2>1 DEF Ids, OnList
        <3>2. s[k + 1] = i /\ k + 1 \in 1 .. n /\ k + 1 # 1
            BY <1>1, <1>2, <3>1
        <3> QED
            BY <1>1, <1>2, <1>4, <3>2 DEF Ids, OnList
    <2>2. ASSUME i \in Ids(s), i # s[1] PROVE i \in Ids(t)
        <3>1. PICK k \in 1 .. n : s[k] = i
            BY <1>1, <2>2 DEF Ids, OnList
        <3> QED
            BY <1>1, <1>3, <2>2, <3>1 DEF Ids, OnList
    <2> QED
        BY <2>1, <2>2
<1>7. Head(s) \in Id \cup {Complete} /\ (Head(s) \in Id => Head(s) \in Ids(s))
    BY <1>1, <1>2 DEF Ids, OnList
<1> QED
    BY <1>5, <1>6, <1>7 DEF t

\* The works on a list that are returns that the thread is owed.
Count(T, s) == Cardinality({k \in DOMAIN s : Returned(T, s[k])})

\* An empty list has nothing to return.
LEMMA CountEmpty == \A T : Count(T, <<>>) = 0
<1> SUFFICES ASSUME NEW T PROVE Count(T, <<>>) = 0
    OBVIOUS
<1>1. {k \in DOMAIN <<>> : Returned(T, <<>>[k])} = {}
    OBVIOUS
<1> QED
    BY <1>1, FS_EmptySet DEF Count

\* The returns on a list are counted.
LEMMA CountSet ==
    ASSUME NEW T, NEW s, Works(s)
    PROVE  /\ IsFiniteSet({k \in DOMAIN s : Returned(T, s[k])}) /\ Count(T, s) \in Nat
           /\ DOMAIN s = 1 .. Len(s) /\ Len(s) \in Nat
           /\ \A k \in 1 .. Len(s) : s[k] \in Id \cup {Complete}
<1>1. /\ DOMAIN s = 1 .. Len(s) /\ Len(s) \in Nat
      /\ \A k \in 1 .. Len(s) : s[k] \in Id \cup {Complete}
    BY DEF Works
<1>2. IsFiniteSet(1 .. Len(s))
    BY <1>1, FS_Interval
<1>3. {k \in DOMAIN s : Returned(T, s[k])} \in SUBSET (1 .. Len(s))
    BY <1>1
<1>4. IsFiniteSet({k \in DOMAIN s : Returned(T, s[k])})
    BY <1>2, <1>3, FS_Subset
<1> QED
    BY <1>1, <1>4, FS_CardinalityType DEF Count

\* The count depends on which transactions are replies.
LEMMA CountSame ==
    ASSUME NEW T, NEW U, NEW s, Works(s), \A i \in Ids(s) : U[i].reply = T[i].reply
    PROVE  Count(U, s) = Count(T, s)
<1>1. \A k \in DOMAIN s : Returned(U, s[k]) <=> Returned(T, s[k])
    <2> SUFFICES ASSUME NEW k \in DOMAIN s PROVE Returned(U, s[k]) <=> Returned(T, s[k])
        OBVIOUS
    <2>1. s[k] \in Id \cup {Complete}
        BY CountSet
    <2>2. s[k] \in Id => s[k] \in Ids(s)
        BY DEF Ids, OnList
    <2> QED
        BY <2>1, <2>2 DEF Returned
<1>2. {k \in DOMAIN s : Returned(U, s[k])} = {k \in DOMAIN s : Returned(T, s[k])}
    BY <1>1
<1> QED
    BY <1>2 DEF Count

\* The count when a work is put on a list.
LEMMA CountAppend ==
    ASSUME NEW T, NEW s, Works(s), NEW w \in Id \cup {Complete}
    PROVE  Count(T, Append(s, w)) = Count(T, s) + (IF Returned(T, w) THEN 1 ELSE 0)
<1> DEFINE t == Append(s, w)
           n == Len(s)
           A == {k \in DOMAIN s : Returned(T, s[k])}
           B == {k \in DOMAIN t : Returned(T, t[k])}
<1>1. /\ n \in Nat /\ DOMAIN s = 1 .. n /\ DOMAIN t = 1 .. n + 1
      /\ \A k \in 1 .. n : t[k] = s[k]
      /\ t[n + 1] = w
    BY DEF Works
<1>2. IsFiniteSet(A) /\ Cardinality(A) \in Nat
    BY CountSet DEF Count
<1> HIDE DEF t, n
<1>3. \A k \in 1 .. n + 1 : k \in 1 .. n \/ k = n + 1
    BY <1>1
<1>4. n + 1 \in 1 .. n + 1 /\ n + 1 \notin 1 .. n /\ \A k \in 1 .. n : k \in 1 .. n + 1
    BY <1>1
<1>5. B = IF Returned(T, w) THEN A \cup {n + 1} ELSE A
    BY <1>1, <1>3, <1>4
<1>6. n + 1 \notin A
    BY <1>1, <1>4
<1>7. Count(T, t) = Cardinality(B) /\ Count(T, s) = Cardinality(A)
    BY DEF Count
<1> HIDE DEF A, B
<1>8. Cardinality(A \cup {n + 1}) = Cardinality(A) + 1
    BY <1>2, <1>6, FS_AddElement
<1> QED
    BY <1>2, <1>5, <1>7, <1>8 DEF t

\* The count when a work is taken off a list.
LEMMA CountTail ==
    ASSUME NEW T, NEW s, Works(s), s # <<>>
    PROVE  Count(T, s) = Count(T, Tail(s)) + (IF Returned(T, Head(s)) THEN 1 ELSE 0)
<1> DEFINE t == Tail(s)
           n == Len(s)
           A == {k \in DOMAIN s : Returned(T, s[k])}
           B == {k \in DOMAIN t : Returned(T, t[k])}
           D == A \ {1}
           f == [k \in B |-> k + 1]
<1>1. /\ n \in Nat /\ DOMAIN s = 1 .. n /\ DOMAIN t = 1 .. n - 1 /\ n # 0
      /\ \A k \in 1 .. n - 1 : t[k] = s[k + 1]
      /\ Head(s) = s[1]
    BY DEF Works
<1>2. IsFiniteSet(A) /\ Cardinality(A) \in Nat
    BY CountSet DEF Count
<1>3. Works(t)
    BY WorksTail
<1>4. IsFiniteSet(B) /\ Cardinality(B) \in Nat
    BY <1>3, CountSet DEF Count
<1> HIDE DEF t, n
<1>5. 1 \in 1 .. n /\ \A k \in 1 .. n - 1 : k + 1 \in 1 .. n /\ k + 1 # 1
    BY <1>1
<1>6. \A k \in 1 .. n : k = 1 \/ (k - 1 \in 1 .. n - 1 /\ k - 1 + 1 = k)
    BY <1>1
<1>7. f \in Bijection(B, D)
    <2>1. \A k \in B : k \in Nat /\ k + 1 \in D
        BY <1>1, <1>5
    <2>2. \A k \in D : k - 1 \in B /\ k - 1 + 1 = k
        <3> SUFFICES ASSUME NEW k \in D PROVE k - 1 \in B /\ k - 1 + 1 = k
            OBVIOUS
        <3>1. k \in 1 .. n /\ k # 1 /\ Returned(T, s[k])
            BY <1>1
        <3>2. k - 1 \in 1 .. n - 1 /\ k - 1 + 1 = k
            BY <1>6, <3>1
        <3>3. t[k - 1] = s[k]
            BY <1>1, <3>2
        <3> QED
            BY <1>1, <3>1, <3>2, <3>3
    <2> HIDE DEF B, D
    <2>3. f \in [B -> D]
        BY <2>1
    <2>4. \A k, l \in B : f[k] = f[l] => k = l
        BY <2>1
    <2>5. \A k \in D : \E l \in B : f[l] = k
        BY <2>2
    <2> QED
        BY <2>3, <2>4, <2>5 DEF Bijection, Injection, Surjection, IsInjective
<1>8. Cardinality(D) = Cardinality(B)
    <2> HIDE DEF f, B, D
    <2> QED
        BY <1>4, <1>7, FS_Bijection DEF ExistsBijection
<1>9. 1 \in A <=> Returned(T, Head(s))
    BY <1>1, <1>5
<1>10. Count(T, s) = Cardinality(A) /\ Count(T, t) = Cardinality(B)
    BY DEF Count
<1> HIDE DEF A, B, f
<1>11. Cardinality(D) = IF 1 \in A THEN Cardinality(A) - 1 ELSE Cardinality(A)
    BY <1>2, FS_RemoveElement
<1> QED
    BY <1>2, <1>4, <1>8, <1>9, <1>10, <1>11 DEF t

-----------------------------------------------------------------------------
(***************************************************************************)
(* The inductive invariant.                                                *)
(***************************************************************************)
Types ==
    /\ live \in [Proc -> BOOLEAN] /\ has_async \in [Proc -> BOOLEAN] /\ owed \in [Thread -> Int]
    /\ DOMAIN todo = Thread /\ DOMAIN proc_todo = Proc /\ DOMAIN async_todo = Proc
    /\ \A x \in Thread : Works(todo[x])
    /\ \A p \in Proc : Works(proc_todo[p]) /\ Works(async_todo[p])
    /\ \A p \in Proc : Complete \notin ToSet(proc_todo[p]) /\ Complete \notin ToSet(async_todo[p])

\* The works on the lists.
Listed(t, pt, at) ==
    {i \in Id : \/ \E x \in Thread : i \in Ids(t[x])
                \/ \E p \in Proc : i \in Ids(pt[p]) \/ i \in Ids(at[p])}

\* The transactions, buffers, stacks and errors are in order.
Core == SInv(State, threads, Listed(todo, proc_todo, async_todo))

\* A work is on one list.
Apart ==
    /\ \A x, y \in Thread : x # y => Ids(todo[x]) \cap Ids(todo[y]) = {}
    /\ \A p, q \in Proc : p # q => /\ Ids(proc_todo[p]) \cap Ids(proc_todo[q]) = {}
                                   /\ Ids(async_todo[p]) \cap Ids(async_todo[q]) = {}
    /\ \A p, q \in Proc : Ids(proc_todo[p]) \cap Ids(async_todo[q]) = {}
    /\ \A x \in Thread, p \in Proc : /\ Ids(todo[x]) \cap Ids(proc_todo[p]) = {}
                                     /\ Ids(todo[x]) \cap Ids(async_todo[p]) = {}

\* The work i was sent to process p, which does not have its buffer yet.
Fit(T, B, i, p) ==
    /\ T[i] # None /\ T[i].buffer /\ B[i] # None /\ B[i].proc = p
    /\ B[i].async = T[i].one_way /\ ~B[i].allow_user_free /\ ~(T[i].one_way /\ T[i].reply)
    /\ T[i].from # None => ProcOf[T[i].from] # p

\* What is on a list belongs there.
Placed ==
    /\ \A x \in Thread : \A i \in Ids(todo[x]) :
         Fit(tr, buf, i, ProcOf[x]) /\ (~tr[i].one_way => tr[i].to_thread = x)
    /\ \A p \in Proc : \A i \in Ids(proc_todo[p]) :
         Fit(tr, buf, i, p) /\ ~tr[i].reply /\ tr[i].to_thread = None
    /\ \A p \in Proc : \A i \in Ids(async_todo[p]) : Fit(tr, buf, i, p) /\ tr[i].one_way

\* Nothing is left of a thread or a process that is gone.
Gone ==
    /\ \A x \in Thread : x \notin threads =>
         /\ todo[x] = <<>> /\ stack[x] = None /\ err[x] = Ok /\ err2[x] = Ok /\ pc[x] = "user"
         /\ owed[x] = 0
    /\ \A x \in threads : live[ProcOf[x]]
    /\ \A p \in Proc : ~live[p] => proc_todo[p] = <<>> /\ async_todo[p] = <<>> /\ ~has_async[p]

\* A thread that sleeps has no work.
Awake ==
    /\ \A x \in threads : pc[x] \in {"thread_sleep", "proc_wait", "proc_sleep"} => todo[x] = <<>>
    /\ \A x \in threads : pc[x] = "proc_sleep" /\ proc_todo[ProcOf[x]] # <<>> =>
         \E y \in threads : ProcOf[y] = ProcOf[x] /\ pc[y] = "proc_wait"

\* The buffers of one-way calls to p that are not held back.
AsyncOf(B, at, p) ==
    {i \in Id : B[i] # None /\ B[i].async /\ B[i].proc = p /\ i \notin Ids(at[p])}

\* At most one one-way call of a node is let go at a time.
OneAsync ==
    \A p \in Proc : IF has_async[p] THEN \E i : AsyncOf(buf, async_todo, p) = {i}
                    ELSE AsyncOf(buf, async_todo, p) = {} /\ async_todo[p] = <<>>

\* What a thread is owed is on its way.
Balance == \A x \in threads : owed[x] = Due(State, x) + Count(tr, todo[x])

\* The inductive invariant.
Inv == Types /\ Core /\ Apart /\ Placed /\ Gone /\ Awake /\ OneAsync /\ Balance

\* The places a thread may be in.
PC == Waiting \cup {"user"}

\* What the invariant says of the variables that State stands for.
LEMMA InvState ==
    ASSUME Inv
    PROVE  /\ State \in StateType /\ SInv(State, threads, Listed(todo, proc_todo, async_todo))
           /\ State.tr = tr /\ State.buf = buf /\ State.stack = stack
           /\ State.err = err /\ State.err2 = err2 /\ State.pc = pc
           /\ tr \in [Id -> Transaction \cup {None}] /\ buf \in [Id -> Buffer \cup {None}]
           /\ stack \in [Thread -> Id \cup {None}] /\ err \in [Thread -> Code]
           /\ err2 \in [Thread -> Code] /\ pc \in [Thread -> PC] /\ threads \subseteq Thread
<1>1. /\ State.tr = tr /\ State.buf = buf /\ State.stack = stack
      /\ State.err = err /\ State.err2 = err2 /\ State.pc = pc
    BY DEF State
<1>2. SInv(State, threads, Listed(todo, proc_todo, async_todo))
    BY DEF Inv, Core
<1>3. State \in StateType /\ threads \subseteq Thread
    BY <1>2 DEF SInv
<1> QED
    BY <1>1, <1>2, <1>3, StateParts DEF PC

\* The fields of State after a step.
LEMMA StateNext ==
    /\ State'.tr = tr' /\ State'.buf = buf' /\ State'.stack = stack'
    /\ State'.err = err' /\ State'.err2 = err2' /\ State'.pc = pc'
    /\ (/\ tr' \in [Id -> Transaction \cup {None}] /\ buf' \in [Id -> Buffer \cup {None}]
        /\ stack' \in [Thread -> Id \cup {None}] /\ err' \in [Thread -> Code]
        /\ err2' \in [Thread -> Code] /\ pc' \in [Thread -> PC]) => State' \in StateType
BY DEF State, StateType, PC

\* Only errors and pcs change.
LEMMA SInvSame ==
    ASSUME NEW S, NEW th, NEW P, SInv(S, th, P), NEW R, R \in StateType,
           R.tr = S.tr, R.buf = S.buf, R.stack = S.stack, Errors(R, th), Waits(R, th)
    PROVE  SInv(R, th, P)
BY DEF SInv, Linked

\* A step that changes errors, pcs and what is owed.
LEMMA Restful ==
    ASSUME Inv, UNCHANGED <<live, threads, stack, todo, proc_todo, async_todo, has_async, tr, buf>>,
           pc' \in [Thread -> PC], err' \in [Thread -> Code], err2' \in [Thread -> Code],
           owed' \in [Thread -> Int],
           \A x \in threads : err2'[x] # Ok =>
               err'[x] # Ok /\ (stack[x] # None => tr[stack[x]].to_thread = x),
           \A x \in threads :
               /\ pc'[x] \in {"proc_wait", "proc_sleep"} => stack[x] = None /\ err'[x] = Ok
               /\ pc'[x] = "thread_sleep" => err'[x] = Ok,
           \A x \in Thread : x \notin threads => /\ pc'[x] = pc[x] /\ owed'[x] = owed[x]
                                                 /\ err'[x] = err[x] /\ err2'[x] = err2[x],
           Awake', Balance'
    PROVE  Inv'
<1>1. Types' /\ Apart' /\ Placed' /\ OneAsync'
    <2>1. Types /\ Apart /\ Placed /\ OneAsync
        BY DEF Inv
    <2>2. Types'
        BY <2>1 DEF Types
    <2>3. Apart'
        BY <2>1 DEF Apart
    <2>4. Placed'
        BY <2>1 DEF Placed
    <2>5. OneAsync'
        BY <2>1 DEF OneAsync
    <2> QED
        BY <2>2, <2>3, <2>4, <2>5
<1>2. Gone'
    BY DEF Inv, Gone
<1>3. Core'
    <2> DEFINE R == State'
    <2>1. /\ R \in StateType /\ R.tr = State.tr /\ R.buf = State.buf /\ R.stack = State.stack
          /\ R.err = err' /\ R.err2 = err2' /\ R.pc = pc'
        BY InvState, StateNext
    <2>2. Errors(R, threads) /\ Waits(R, threads)
        <3> HIDE DEF R
        <3> QED
            BY <2>1, InvState DEF Errors, Waits
    <2>3. SInv(State, threads, Listed(todo, proc_todo, async_todo))
        BY InvState
    <2> HIDE DEF R
    <2>4. SInv(R, threads, Listed(todo, proc_todo, async_todo))
        BY <2>1, <2>2, <2>3, SInvSame
    <2> QED
        BY <2>4 DEF Core, R, Listed
<1> QED
    BY <1>1, <1>2, <1>3 DEF Inv

\* What wake_up_interruptible() of process p does.
Woken(q, r, p) ==
    /\ r \in [Thread -> PC]
    /\ \A y \in Thread : r[y] = q[y] \/ (/\ q[y] = "proc_sleep" /\ r[y] = "proc_wait"
                                         /\ y \in threads /\ ProcOf[y] = p)

\* WakeProc wakes a sleeper if there is one.
LEMMA WakeProcIs ==
    ASSUME NEW q \in [Thread -> PC], NEW p, NEW r \in WakeProc(q, p), threads \subseteq Thread
    PROVE  /\ Woken(q, r, p)
           /\ \A y \in threads : ProcOf[y] = p /\ q[y] = "proc_sleep" =>
                \E z \in threads : ProcOf[z] = p /\ r[z] = "proc_wait"
<1> DEFINE asleep == {x \in ThreadsOf(p) : q[x] = "proc_sleep"}
<1>1. CASE asleep = {}
    BY <1>1 DEF WakeProc, ThreadsOf, Woken
<1>2. CASE asleep # {}
    <2>1. PICK z \in asleep : r = [q EXCEPT ![z] = "proc_wait"]
        BY <1>2 DEF WakeProc
    <2>2. z \in threads /\ z \in Thread /\ ProcOf[z] = p /\ q[z] = "proc_sleep"
        BY DEF ThreadsOf
    <2>3. r \in [Thread -> PC] /\ r[z] = "proc_wait" /\ \A y \in Thread : y # z => r[y] = q[y]
        BY <2>1, <2>2 DEF PC, Waiting
    <2> QED
        BY <2>2, <2>3 DEF Woken
<1> QED
    BY <1>1, <1>2

\* What the end of a read does.
LEMMA ReturnIs ==
    ASSUME NEW S, S \in StateType, NEW x \in Thread, NEW left, Return(S, x, left),
           threads \subseteq Thread
    PROVE  /\ tr' = S.tr /\ buf' = S.buf /\ stack' = S.stack /\ err' = S.err /\ err2' = S.err2
           /\ pc' \in [Thread -> PC] /\ pc'[x] = "user"
           /\ \A y \in Thread : y # x =>
                pc'[y] = S.pc[y] \/ (/\ S.pc[y] = "proc_sleep" /\ pc'[y] = "proc_wait"
                                     /\ y \in threads /\ ProcOf[y] = ProcOf[x])
           /\ left # <<>> => \A y \in threads : y # x /\ ProcOf[y] = ProcOf[x] /\ S.pc[y] = "proc_sleep" =>
                \E z \in threads : ProcOf[z] = ProcOf[x] /\ pc'[z] = "proc_wait"
<1> DEFINE q == [S.pc EXCEPT ![x] = "user"]
           p == ProcOf[x]
<1>1. S.pc \in [Thread -> PC]
    BY StateParts DEF PC
<1>2. q \in [Thread -> PC] /\ q[x] = "user" /\ \A y \in Thread : y # x => q[y] = S.pc[y]
    BY <1>1 DEF PC
<1>3. PICK r \in (IF left # <<>> THEN WakeProc(q, p) ELSE {q}) : Becomes([S EXCEPT !.pc = r])
    BY DEF Return
<1> DEFINE W == [S EXCEPT !.pc = r]
<1>4. W.tr = S.tr /\ W.buf = S.buf /\ W.stack = S.stack /\ W.err = S.err /\ W.err2 = S.err2 /\ W.pc = r
    BY DEF StateType
<1> HIDE DEF W, q
<1>5. tr' = W.tr /\ buf' = W.buf /\ stack' = W.stack /\ err' = W.err /\ err2' = W.err2 /\ pc' = W.pc
    BY <1>3 DEF Becomes, W
<1>6. /\ Woken(q, r, p)
      /\ left # <<>> => \A y \in threads : ProcOf[y] = p /\ q[y] = "proc_sleep" =>
                          \E z \in threads : ProcOf[z] = p /\ r[z] = "proc_wait"
    <2>1. CASE left # <<>>
        BY <1>2, <1>3, <2>1, WakeProcIs
    <2>2. CASE left = <<>>
        BY <1>2, <1>3, <2>2 DEF Woken
    <2> QED
        BY <2>1, <2>2
<1> QED
    BY <1>2, <1>4, <1>5, <1>6 DEF Woken

\* A read that ends leaves no one asleep beside work.
LEMMA ReturnAwake ==
    ASSUME Inv, NEW x \in threads, NEW left, threads' = threads,
           \A y \in threads : y # x => todo'[y] = todo[y],
           \A p \in Proc : p # ProcOf[x] => proc_todo'[p] = proc_todo[p],
           left = proc_todo'[ProcOf[x]], pc'[x] = "user",
           \A y \in Thread : y # x =>
                pc'[y] = pc[y] \/ (/\ pc[y] = "proc_sleep" /\ pc'[y] = "proc_wait"
                                   /\ y \in threads /\ ProcOf[y] = ProcOf[x]),
           left # <<>> => \A y \in threads : y # x /\ ProcOf[y] = ProcOf[x] /\ pc[y] = "proc_sleep" =>
                \E z \in threads : ProcOf[z] = ProcOf[x] /\ pc'[z] = "proc_wait"
    PROVE  Awake'
<1>1. threads \subseteq Thread /\ Awake /\ \A y \in threads : ProcOf[y] \in Proc
    BY InvState, BinderAssumption DEF Inv
<1>2. ASSUME NEW y \in threads, pc'[y] \in {"thread_sleep", "proc_wait", "proc_sleep"}
      PROVE  todo'[y] = <<>>
    BY <1>1, <1>2 DEF Awake
<1>3. ASSUME NEW y \in threads, pc'[y] = "proc_sleep", proc_todo'[ProcOf[y]] # <<>>
      PROVE  \E z \in threads : ProcOf[z] = ProcOf[y] /\ pc'[z] = "proc_wait"
    <2>1. y # x /\ pc[y] = "proc_sleep"
        BY <1>1, <1>3
    <2>2. CASE ProcOf[y] = ProcOf[x]
        BY <1>3, <2>1, <2>2
    <2>3. CASE ProcOf[y] # ProcOf[x]
        <3>1. proc_todo[ProcOf[y]] # <<>>
            BY <1>1, <1>3, <2>3
        <3>2. PICK z \in threads : ProcOf[z] = ProcOf[y] /\ pc[z] = "proc_wait"
            BY <1>1, <2>1, <3>1 DEF Awake
        <3>3. z # x
            BY <2>3, <3>2
        <3>4. pc'[z] = "proc_wait"
            BY <1>1, <3>2, <3>3
        <3> QED
            BY <3>2, <3>4
    <2> QED
        BY <2>2, <2>3
<1> QED
    BY <1>2, <1>3 DEF Awake

-----------------------------------------------------------------------------

\* The invariant holds at first.
LEMMA InvInit == Init => Inv
<1> SUFFICES ASSUME Init PROVE Inv
    OBVIOUS
<1> USE DEF Init
<1>1. Types
    <2>1. \A p \in Proc : ToSet(<<>>) = {}
        BY DEF ToSet
    <2> QED
        BY WorksEmpty DEF Types, ToSet
<1>2. Apart /\ Placed
    BY WorksEmpty DEF Apart, Placed
<1>3. Gone /\ Awake
    BY BinderAssumption DEF Gone, Awake
<1>4. OneAsync
    BY BinderAssumption DEF OneAsync, AsyncOf
<1>5. Listed(todo, proc_todo, async_todo) = {} /\ Calls(tr) = {} /\ From(tr, None) = {}
    BY WorksEmpty DEF Listed, Calls, From
<1>6. Core
    <2>1. State \in StateType
        BY DEF State, StateType, Code, Waiting
    <2>2. Chains(tr, stack, threads, {})
        <3> DEFINE d == [i \in Id |-> 0]
        <3>1. None \notin threads
            BY Names
        <3>2. \A x \in threads : Rel(tr, {}, x) = {}
            BY <1>5 DEF Rel
        <3>3. Parents(tr, {}, d, d) /\ Linear(tr, d, d) /\ Senders(tr, threads)
              /\ Handlers(tr, threads, {}, d, d) /\ QueuedTips(tr, {}, d, d)
            BY <1>5 DEF Parents, Linear, Senders, Handlers, QueuedTips
        <3>4. Tops(tr, stack, threads, {}, d, d) /\ Handled(tr, {}, d, d)
              /\ Targets(tr, stack, threads, {}, d)
            BY <1>5, <3>2 DEF Tops, Handled, Targets
        <3>5. d \in [Id -> Nat]
            OBVIOUS
        <3>6. ChainsBy(tr, stack, threads, {}, d, d)
            <4> HIDE DEF d
            <4> QED
                BY <3>1, <3>3, <3>4, <3>5 DEF ChainsBy
        <3> QED
            BY <3>6 DEF Chains
    <2>3. Linked(State) /\ Errors(State, threads) /\ Waits(State, threads)
        BY DEF Linked, Errors, Waits, State, Ok
    <2>4. {} \cap Calls(tr) = {}
        OBVIOUS
    <2>5. \A i \in Id : tr[i] = None
        OBVIOUS
    <2>6. State.tr = tr /\ State.stack = stack /\ threads \subseteq Thread
        BY DEF State
    <2> QED
        BY <1>5, <2>1, <2>2, <2>3, <2>4, <2>5, <2>6 DEF Core, SInv
<1>7. Balance
    <2> SUFFICES ASSUME NEW x \in threads PROVE owed[x] = Due(State, x) + Count(tr, todo[x])
        BY DEF Balance
    <2>1. From(tr, x) = {}
        BY <1>5 DEF From
    <2>2. Cardinality({}) = 0
        BY FS_EmptySet
    <2>3. Count(tr, todo[x]) = 0
        BY CountEmpty
    <2>4. State.tr = tr /\ State.err[x] = Ok /\ State.err2[x] = Ok
        BY DEF State
    <2>5. Due(State, x) = 0
        <3> HIDE DEF Init
        <3>1. From(State.tr, x) = {}
            BY <2>1, <2>4
        <3>2. Cardinality(From(State.tr, x)) = 0
            BY <2>2, <3>1
        <3> QED
            BY <2>4, <3>2 DEF Due
    <2>6. owed[x] = 0
        OBVIOUS
    <2> QED
        BY <2>3, <2>5, <2>6
<1> QED
    BY <1>1, <1>2, <1>3, <1>4, <1>6, <1>7 DEF Inv

-----------------------------------------------------------------------------
(***************************************************************************)
(* The steps.                                                              *)
(***************************************************************************)

\* What thread x is owed.
Owes(T, e, f, td, x) ==
    Cardinality(From(T, x)) + (IF e[x] # Ok THEN 1 ELSE 0) + (IF f[x] # Ok THEN 1 ELSE 0)
    + Count(T, td[x])

\* Balance in terms of the variables.
LEMMA BalanceIs ==
    /\ Balance <=> \A x \in threads : owed[x] = Owes(tr, err, err2, todo, x)
    /\ Balance' <=> \A x \in threads' : owed'[x] = Owes(tr', err', err2', todo', x)
<1>1. /\ State.tr = tr /\ State.err = err /\ State.err2 = err2
      /\ State'.tr = tr' /\ State'.err = err' /\ State'.err2 = err2'
    BY DEF State
<1>2. \A x : Owes(tr, err, err2, todo, x) = Due(State, x) + Count(tr, todo[x])
    BY <1>1 DEF Owes, Due
<1>3. \A x : Owes(tr', err', err2', todo', x) = Due(State', x) + Count(tr', todo'[x])
    BY <1>1 DEF Owes, Due
<1> QED
    BY <1>2, <1>3 DEF Balance

\* What the invariant says of a thread.
LEMMA InvThread ==
    ASSUME Inv, NEW x \in Thread
    PROVE  /\ ProcOf[x] \in Proc /\ Works(todo[x]) /\ Works(proc_todo[ProcOf[x]])
           /\ x \in threads => /\ owed[x] \in Int /\ owed[x] = Owes(tr, err, err2, todo, x)
                               /\ Count(tr, todo[x]) \in Nat /\ Cardinality(From(tr, x)) \in Nat
           /\ pc[x] # "user" => x \in threads
           /\ err2[x] # Ok => err[x] # Ok /\ (stack[x] # None => tr[stack[x]].to_thread = x)
           /\ pc[x] \in {"proc_wait", "proc_sleep"} => stack[x] = None /\ err[x] = Ok /\ todo[x] = <<>>
           /\ pc[x] = "thread_sleep" => err[x] = Ok /\ todo[x] = <<>>
<1>1. ProcOf[x] \in Proc
    BY BinderAssumption
<1>2. Works(todo[x]) /\ Works(proc_todo[ProcOf[x]]) /\ owed[x] \in Int
    BY <1>1 DEF Inv, Types
<1>3. x \in threads => owed[x] = Owes(tr, err, err2, todo, x)
    BY BalanceIs DEF Inv
<1>4. Count(tr, todo[x]) \in Nat /\ Cardinality(From(tr, x)) \in Nat
    BY <1>2, CountSet, FromFinite
<1>5. x \notin threads => pc[x] = "user" /\ err2[x] = Ok
    BY DEF Inv, Gone
<1>6. Errors(State, threads) /\ Waits(State, threads)
    BY InvState DEF SInv
<1>7. x \in threads /\ err2[x] # Ok => err[x] # Ok /\ (stack[x] # None => tr[stack[x]].to_thread = x)
    BY <1>6, InvState DEF Errors
<1>8. x \in threads => /\ pc[x] \in {"proc_wait", "proc_sleep"} => stack[x] = None /\ err[x] = Ok
                       /\ pc[x] = "thread_sleep" => err[x] = Ok
    BY <1>6, InvState DEF Waits
<1>9. x \in threads /\ pc[x] \in {"thread_sleep", "proc_wait", "proc_sleep"} => todo[x] = <<>>
    BY DEF Inv, Awake
<1> QED
    BY <1>1, <1>2, <1>3, <1>4, <1>5, <1>7, <1>8, <1>9

\* A command that fails.
LEMMA StepFail ==
    ASSUME Inv, NEW x \in threads, pc[x] = "user", err[x] = Ok, NEW code \in {Dead, Failed},
           Fail(x, code)
    PROVE  Inv'
<1>1. code \in Code /\ code # Ok
    BY DEF Code, Ok, Dead, Failed
<1>2. x \in Thread
    BY InvState
<1>3. /\ err' = [err EXCEPT ![x] = code] /\ owed' = [owed EXCEPT ![x] = @ + 1]
      /\ UNCHANGED <<live, threads, pc, stack, todo, proc_todo, async_todo, has_async, err2, tr, buf>>
    BY DEF Fail
<1>4. owed \in [Thread -> Int]
    BY DEF Inv, Types
<1>5. /\ err' \in [Thread -> Code] /\ err'[x] = code /\ \A y \in Thread : y # x => err'[y] = err[y]
      /\ owed' \in [Thread -> Int] /\ owed'[x] = owed[x] + 1 /\ \A y \in Thread : y # x => owed'[y] = owed[y]
    BY <1>1, <1>2, <1>3, <1>4, InvState
<1>6. Awake'
    BY <1>3 DEF Inv, Awake
<1>7. Balance'
    <2> SUFFICES ASSUME NEW y \in threads PROVE owed'[y] = Owes(tr', err', err2', todo', y)
        BY <1>3, BalanceIs
    <2>1. y \in Thread
        BY InvState
    <2>2. CASE y = x
        <3>1. err2[y] = Ok
            BY <2>1, <2>2, InvThread
        <3> QED
            BY <1>1, <1>3, <1>5, <2>1, <2>2, <3>1, InvThread DEF Owes
    <2>3. CASE y # x
        BY <1>3, <1>5, <2>1, <2>3, InvThread DEF Owes
    <2> QED
        BY <2>2, <2>3
<1>8. \A y \in threads : err2'[y] # Ok => err'[y] # Ok /\ (stack[y] # None => tr[stack[y]].to_thread = y)
    BY <1>1, <1>3, <1>5, InvThread, InvState
<1>9. \A y \in threads : /\ pc'[y] \in {"proc_wait", "proc_sleep"} => stack[y] = None /\ err'[y] = Ok
                         /\ pc'[y] = "thread_sleep" => err'[y] = Ok
    BY <1>3, <1>5, InvThread, InvState
<1> QED
    BY <1>2, <1>3, <1>5, <1>6, <1>7, <1>8, <1>9, InvState, Restful

\* The pc of x changes to q.
LEMMA StepPc ==
    ASSUME Inv, NEW x \in threads, NEW q \in PC, pc' = [pc EXCEPT ![x] = q],
           UNCHANGED <<live, threads, stack, todo, proc_todo, async_todo, has_async, err, err2,
                       tr, buf, owed>>,
           q \in {"proc_wait", "proc_sleep"} => stack[x] = None /\ err[x] = Ok /\ todo[x] = <<>>,
           q = "thread_sleep" => err[x] = Ok /\ todo[x] = <<>>,
           q = "proc_sleep" => proc_todo[ProcOf[x]] = <<>>,
           pc[x] # "proc_wait" \/ proc_todo[ProcOf[x]] = <<>>
    PROVE  Inv'
<1>1. x \in Thread /\ pc' \in [Thread -> PC] /\ pc'[x] = q /\ \A y \in Thread : y # x => pc'[y] = pc[y]
    BY InvState
<1>2. Awake'
    <2>1. ASSUME NEW y \in threads, pc'[y] \in {"thread_sleep", "proc_wait", "proc_sleep"}
          PROVE  todo'[y] = <<>>
        BY <1>1, <2>1, InvThread, InvState
    <2>2. ASSUME NEW y \in threads, pc'[y] = "proc_sleep", proc_todo'[ProcOf[y]] # <<>>
          PROVE  \E z \in threads' : ProcOf[z] = ProcOf[y] /\ pc'[z] = "proc_wait"
        <3>1. y # x /\ pc[y] = "proc_sleep" /\ proc_todo[ProcOf[y]] # <<>>
            BY <1>1, <2>2, InvState
        <3>2. PICK z \in threads : ProcOf[z] = ProcOf[y] /\ pc[z] = "proc_wait"
            BY <3>1 DEF Inv, Awake
        <3>3. z # x
            BY <3>1, <3>2
        <3> QED
            BY <1>1, <3>2, <3>3, InvState
    <2> QED
        BY <2>1, <2>2 DEF Awake
<1>3. Balance'
    BY BalanceIs DEF Inv
<1>4. \A y \in threads : err2'[y] # Ok => err'[y] # Ok /\ (stack[y] # None => tr[stack[y]].to_thread = y)
    BY InvThread, InvState
<1>5. \A y \in threads : /\ pc'[y] \in {"proc_wait", "proc_sleep"} => stack[y] = None /\ err'[y] = Ok
                         /\ pc'[y] = "thread_sleep" => err'[y] = Ok
    BY <1>1, InvThread, InvState
<1>6. err' \in [Thread -> Code] /\ err2' \in [Thread -> Code] /\ owed' \in [Thread -> Int]
    BY InvState DEF Inv, Types
<1>7. \A y \in Thread : y \notin threads => /\ pc'[y] = pc[y] /\ owed'[y] = owed[y]
                                            /\ err'[y] = err[y] /\ err2'[y] = err2[y]
    BY <1>1
<1> QED
    BY <1>1, <1>2, <1>3, <1>4, <1>5, <1>6, <1>7, Restful

\* A read that returns without a work: S is the state with x's errors taken out.
LEMMA StepReturn ==
    ASSUME Inv, NEW x \in threads, NEW S, S \in StateType,
           S.tr = tr, S.buf = buf, S.stack = stack, S.pc = pc,
           \A y \in Thread : y # x => S.err[y] = err[y] /\ S.err2[y] = err2[y],
           (S.err[x] = err[x] /\ S.err2[x] = err2[x]) \/ (S.err[x] = Ok /\ S.err2[x] = Ok),
           Return(S, x, proc_todo[ProcOf[x]]),
           UNCHANGED <<live, threads, todo, proc_todo, async_todo, has_async>>,
           owed' \in [Thread -> Int], \A y \in Thread : y # x => owed'[y] = owed[y],
           owed'[x] = Owes(tr, S.err, S.err2, todo, x)
    PROVE  Inv'
<1>1. x \in Thread /\ threads \subseteq Thread
    BY InvState
<1>2. /\ tr' = tr /\ buf' = buf /\ stack' = stack /\ err' = S.err /\ err2' = S.err2
      /\ pc' \in [Thread -> PC] /\ pc'[x] = "user"
      /\ \A y \in Thread : y # x =>
           pc'[y] = pc[y] \/ (/\ pc[y] = "proc_sleep" /\ pc'[y] = "proc_wait"
                              /\ y \in threads /\ ProcOf[y] = ProcOf[x])
      /\ proc_todo[ProcOf[x]] # <<>> =>
           \A y \in threads : y # x /\ ProcOf[y] = ProcOf[x] /\ pc[y] = "proc_sleep" =>
             \E z \in threads : ProcOf[z] = ProcOf[x] /\ pc'[z] = "proc_wait"
    BY <1>1, ReturnIs
<1>3. Awake'
    BY <1>2, ReturnAwake
<1>4. Balance'
    <2> SUFFICES ASSUME NEW y \in threads PROVE owed'[y] = Owes(tr', err', err2', todo', y)
        BY BalanceIs
    <2>1. CASE y = x
        BY <1>2, <2>1
    <2>2. CASE y # x
        <3>1. owed'[y] = Owes(tr, err, err2, todo, y) /\ err'[y] = err[y] /\ err2'[y] = err2[y]
            BY <1>1, <1>2, <2>2, InvThread
        <3> QED
            BY <1>2, <3>1 DEF Owes
    <2> QED
        BY <2>1, <2>2
<1>5. err' \in [Thread -> Code] /\ err2' \in [Thread -> Code]
    BY <1>2, StateParts
<1>6. \A y \in threads : err2'[y] # Ok => err'[y] # Ok /\ (stack[y] # None => tr[stack[y]].to_thread = y)
    BY <1>1, <1>2, InvThread
<1>7. \A y \in threads : /\ pc'[y] \in {"proc_wait", "proc_sleep"} => stack[y] = None /\ err'[y] = Ok
                         /\ pc'[y] = "thread_sleep" => err'[y] = Ok
    BY <1>1, <1>2, InvThread
<1>8. \A y \in Thread : y \notin threads => /\ pc'[y] = pc[y] /\ owed'[y] = owed[y]
                                            /\ err'[y] = err[y] /\ err2'[y] = err2[y]
    BY <1>2
<1> QED
    BY <1>2, <1>3, <1>4, <1>5, <1>6, <1>7, <1>8, Restful

\* The errors are returned, and cleared.
ErrorsCleared(x) ==
    /\ err[x] # Ok
    /\ Return([State EXCEPT !.err[x] = Ok, !.err2[x] = Ok], x, proc_todo[ProcOf[x]])
    /\ owed' = [owed EXCEPT ![x] = @ - (IF err2[x] # Ok THEN 2 ELSE 1)]

LEMMA StepErrorsCleared ==
    ASSUME Inv, NEW x \in threads, ErrorsCleared(x),
           UNCHANGED <<live, threads, todo, proc_todo, async_todo, has_async>>
    PROVE  Inv'
<1> DEFINE S == [State EXCEPT !.err[x] = Ok, !.err2[x] = Ok]
<1>1. x \in Thread /\ State \in StateType /\ owed \in [Thread -> Int]
    BY InvState DEF Inv, Types
<1>2. /\ S.tr = tr /\ S.buf = buf /\ S.stack = stack /\ S.pc = pc
      /\ S.err = [err EXCEPT ![x] = Ok] /\ S.err2 = [err2 EXCEPT ![x] = Ok]
      /\ S = [tr |-> S.tr, buf |-> S.buf, stack |-> S.stack, err |-> S.err, err2 |-> S.err2, pc |-> S.pc]
    <2>1. /\ S.tr = State.tr /\ S.buf = State.buf /\ S.stack = State.stack /\ S.pc = State.pc
          /\ S.err = [State.err EXCEPT ![x] = Ok] /\ S.err2 = [State.err2 EXCEPT ![x] = Ok]
        BY <1>1 DEF StateType
    <2>2. S = [tr |-> S.tr, buf |-> S.buf, stack |-> S.stack, err |-> S.err, err2 |-> S.err2, pc |-> S.pc]
        <3> DEFINE A == State
        <3>1. A \in StateType /\ S = [A EXCEPT !.err[x] = Ok, !.err2[x] = Ok]
            BY <1>1
        <3> HIDE DEF A, S
        <3> QED
            BY <3>1 DEF StateType
    <2> QED
        BY <2>1, <2>2, InvState
<1>3. /\ err[x] # Ok /\ Return(S, x, proc_todo[ProcOf[x]])
      /\ owed' = [owed EXCEPT ![x] = @ - (IF err2[x] # Ok THEN 2 ELSE 1)]
      /\ UNCHANGED <<live, threads, todo, proc_todo, async_todo, has_async>>
    BY DEF ErrorsCleared
<1> HIDE DEF S
<1>4. /\ S.err \in [Thread -> Code] /\ S.err2 \in [Thread -> Code] /\ S.err[x] = Ok /\ S.err2[x] = Ok
      /\ \A y \in Thread : y # x => S.err[y] = err[y] /\ S.err2[y] = err2[y]
    BY <1>1, <1>2, InvState DEF Code
<1>5. S \in StateType
    BY <1>2, <1>4, InvState DEF StateType, PC
<1>6. /\ owed' \in [Thread -> Int] /\ \A y \in Thread : y # x => owed'[y] = owed[y]
      /\ owed'[x] = owed[x] - (IF err2[x] # Ok THEN 2 ELSE 1)
    BY <1>1, <1>3
<1>7. owed'[x] = Owes(tr, S.err, S.err2, todo, x)
    BY <1>1, <1>3, <1>4, <1>6, InvThread DEF Owes
<1>8. Inv /\ x \in threads
    OBVIOUS
<1>9. S.tr = tr /\ S.buf = buf /\ S.stack = stack /\ S.pc = pc
    BY <1>2
<1>10. /\ \A y \in Thread : y # x => S.err[y] = err[y] /\ S.err2[y] = err2[y]
       /\ S.err[x] = Ok /\ S.err2[x] = Ok
    BY <1>4
<1>11. /\ Return(S, x, proc_todo[ProcOf[x]])
       /\ UNCHANGED <<live, threads, todo, proc_todo, async_todo, has_async>>
    BY <1>3
<1>12. owed' \in [Thread -> Int] /\ \A y \in Thread : y # x => owed'[y] = owed[y]
    BY <1>6
<1> QED
    BY ONLY <1>5, <1>7, <1>8, <1>9, <1>10, <1>11, <1>12, StepReturn

\* A read ends and leaves everything else as it was.
LEMMA StepEmpty ==
    ASSUME Inv, NEW x \in threads, Return(State, x, proc_todo[ProcOf[x]]),
           UNCHANGED <<live, threads, todo, proc_todo, async_todo, has_async, owed>>
    PROVE  Inv'
<1>1. /\ x \in Thread /\ Return(State, x, proc_todo[ProcOf[x]])
      /\ UNCHANGED <<live, threads, todo, proc_todo, async_todo, has_async, owed>>
    BY InvState
<1>2. x \in threads
    OBVIOUS
<1>3. owed' \in [Thread -> Int] /\ owed'[x] = Owes(tr, err, err2, todo, x)
    BY <1>1, <1>2, InvThread DEF Inv, Types
<1>4. /\ State \in StateType /\ State.tr = tr /\ State.buf = buf /\ State.stack = stack /\ State.pc = pc
      /\ State.err = err /\ State.err2 = err2
    BY InvState
<1>5. \A y \in Thread : y # x => owed'[y] = owed[y]
    BY <1>1
<1> QED
    <2> DEFINE S == State
    <2>1. /\ S \in StateType /\ S.tr = tr /\ S.buf = buf /\ S.stack = stack /\ S.pc = pc
          /\ S.err = err /\ S.err2 = err2 /\ Return(S, x, proc_todo[ProcOf[x]])
        BY <1>1, <1>4
    <2> HIDE DEF S
    <2> QED
        BY <1>1, <1>2, <1>3, <1>5, <2>1, StepReturn

\* A read is interrupted.
LEMMA StepInterrupted ==
    ASSUME Inv, NEW x \in Thread, Interrupted(x)
    PROVE  Inv'
<1>1. /\ pc[x] \in Waiting /\ Return(State, x, proc_todo[ProcOf[x]])
      /\ UNCHANGED <<live, threads, todo, proc_todo, async_todo, has_async, owed>>
    BY DEF Interrupted
<1>2. x \in threads
    BY <1>1, InvThread DEF Waiting
<1> QED
    BY <1>1, <1>2, StepEmpty

\* The errors are returned; the older may stay.
LEMMA StepErrors ==
    ASSUME Inv, NEW x \in threads, ReturnErrors(x)
    PROVE  Inv'
<1>1. (Return(State, x, proc_todo[ProcOf[x]]) /\ UNCHANGED owed) \/ ErrorsCleared(x)
    BY DEF ReturnErrors, ErrorsCleared
<1>2. UNCHANGED <<live, threads, todo, proc_todo, async_todo, has_async>>
    BY DEF ReturnErrors
<1> QED
    BY <1>1, <1>2, StepEmpty, StepErrorsCleared

\* A read begins, sleeps again or retries.
LEMMA StepRead ==
    ASSUME Inv, NEW x \in Thread, Read(x) \/ SleepAgain(x) \/ ReadRetry(x)
    PROVE  Inv'
<1>1. CASE Read(x)
    <2>1. x \in threads /\ pc[x] = "user"
        BY <1>1 DEF Read
    <2>2. CASE ReturnErrors(x)
        BY <2>1, <2>2, StepErrors
    <2>3. CASE ~ReturnErrors(x)
        <3> DEFINE forProc == stack[x] = None /\ todo[x] = <<>>
                   q == IF forProc THEN IF proc_todo[ProcOf[x]] = <<>> THEN "proc_sleep" ELSE "proc_wait"
                        ELSE IF todo[x] = <<>> THEN "thread_sleep" ELSE "thread_wait"
        <3>1. /\ err[x] = Ok /\ pc' = [pc EXCEPT ![x] = q]
              /\ UNCHANGED <<live, threads, stack, todo, proc_todo, async_todo, has_async, err, err2,
                             tr, buf, owed>>
            BY <1>1, <2>3 DEF Read
        <3>2. q \in PC
            BY DEF PC, Waiting
        <3>3. /\ q \in {"proc_wait", "proc_sleep"} => stack[x] = None /\ err[x] = Ok /\ todo[x] = <<>>
              /\ q = "thread_sleep" => err[x] = Ok /\ todo[x] = <<>>
              /\ q = "proc_sleep" => proc_todo[ProcOf[x]] = <<>>
            BY <3>1
        <3> HIDE DEF q
        <3> QED
            BY <2>1, <3>1, <3>2, <3>3, StepPc
    <2> QED
        BY <2>2, <2>3
<1>2. CASE SleepAgain(x)
    <2>1. pc[x] = "proc_wait" /\ x \in threads
        BY <1>2, InvThread DEF SleepAgain
    <2>2. stack[x] = None /\ err[x] = Ok /\ todo[x] = <<>>
        BY <2>1, InvThread
    <2> DEFINE q == "proc_sleep"
    <2>3. /\ q \in PC /\ pc' = [pc EXCEPT ![x] = q] /\ proc_todo[ProcOf[x]] = <<>>
          /\ UNCHANGED <<live, threads, stack, todo, proc_todo, async_todo, has_async, err, err2,
                         tr, buf, owed>>
        BY <1>2 DEF PC, Waiting, SleepAgain
    <2> HIDE DEF q
    <2> QED
        BY <2>1, <2>2, <2>3, StepPc
<1>3. CASE ReadRetry(x)
    <2>1. pc[x] = "thread_wait" /\ ReturnErrors(x)
        BY <1>3 DEF ReadRetry
    <2>2. x \in threads
        BY <2>1, InvThread
    <2> QED
        BY <2>1, <2>2, StepErrors
<1> QED
    BY <1>1, <1>2, <1>3

\* The core of the next state, from its parts.
LEMMA CoreNext ==
    ASSUME tr' \in [Id -> Transaction \cup {None}], buf' \in [Id -> Buffer \cup {None}],
           stack' \in [Thread -> Id \cup {None}], err' \in [Thread -> Code], err2' \in [Thread -> Code],
           pc' \in [Thread -> PC], threads' \subseteq Thread,
           NEW P, Listed(todo', proc_todo', async_todo') = P,
           \A i \in P : i \in Id /\ tr'[i] # None,
           \A i \in Id : tr'[i] # None /\ i \notin P => i \in Calls(tr'),
           Chains(tr', stack', threads', P \cap Calls(tr')),
           \A i \in Id : (buf'[i] # None /\ buf'[i].transaction) <=> (tr'[i] # None /\ tr'[i].buffer),
           \A x \in threads' : err2'[x] # Ok =>
               err'[x] # Ok /\ (stack'[x] # None => tr'[stack'[x]].to_thread = x),
           \A x \in threads' :
               /\ pc'[x] \in {"proc_wait", "proc_sleep"} => stack'[x] = None /\ err'[x] = Ok
               /\ pc'[x] = "thread_sleep" => err'[x] = Ok
    PROVE  Core'
<1> DEFINE R == State'
<1>1. /\ R \in StateType /\ R.tr = tr' /\ R.buf = buf' /\ R.stack = stack'
      /\ R.err = err' /\ R.err2 = err2' /\ R.pc = pc'
    BY StateNext
<1> HIDE DEF R
<1>2. Linked(R) /\ Errors(R, threads') /\ Waits(R, threads')
    BY <1>1 DEF Linked, Errors, Waits
<1>3. SInv(R, threads', P)
    BY <1>1, <1>2 DEF SInv
<1> QED
    BY <1>3 DEF Core, R

\* A work fits where it is when neither it nor its buffer changes.
LEMMA FitSame ==
    ASSUME NEW T, NEW B, NEW U, NEW C, NEW i, NEW p, Fit(T, B, i, p), SameWork(T[i], U[i]), C[i] = B[i]
    PROVE  Fit(U, C, i, p)
BY DEF Fit, SameWork

\* The lists shrink, but for the work i that comes to at most one of them:
\* that of a thread in tA, of a process in pA, of a node of a process in aA.
Move(i, tA, pA, aA) ==
    /\ \A y \in Thread : Ids(todo'[y]) \subseteq (Ids(todo[y]) \ {i}) \cup (IF y \in tA THEN {i} ELSE {})
    /\ \A p \in Proc : Ids(proc_todo'[p]) \subseteq (Ids(proc_todo[p]) \ {i}) \cup (IF p \in pA THEN {i} ELSE {})
    /\ \A p \in Proc : Ids(async_todo'[p]) \subseteq (Ids(async_todo[p]) \ {i}) \cup (IF p \in aA THEN {i} ELSE {})
    /\ \A y, z \in tA : y = z
    /\ \A p, q \in pA : p = q
    /\ \A p, q \in aA : p = q
    /\ tA = {} \/ (pA = {} /\ aA = {})
    /\ pA = {} \/ aA = {}

\* The works that stay on the lists stay what they are, and i fits where it comes.
Stay(i, tA, pA, aA) ==
    /\ \A y \in Thread : \A j \in Ids(todo[y]) : j # i /\ j \in Ids(todo'[y]) =>
         SameWork(tr[j], tr'[j]) /\ buf'[j] = buf[j]
    /\ \A p \in Proc : \A j \in Ids(proc_todo[p]) : j # i /\ j \in Ids(proc_todo'[p]) =>
         SameWork(tr[j], tr'[j]) /\ buf'[j] = buf[j]
    /\ \A p \in Proc : \A j \in Ids(async_todo[p]) : j # i /\ j \in Ids(async_todo'[p]) =>
         SameWork(tr[j], tr'[j]) /\ buf'[j] = buf[j]
    /\ \A y \in tA : Fit(tr', buf', i, ProcOf[y]) /\ (~tr'[i].one_way => tr'[i].to_thread = y)
    /\ \A p \in pA : Fit(tr', buf', i, p) /\ ~tr'[i].reply /\ tr'[i].to_thread = None
    /\ \A p \in aA : Fit(tr', buf', i, p) /\ tr'[i].one_way

\* The lists are apart after a step that moves works as one does.
LEMMA ApartMove ==
    ASSUME Apart, NEW i, NEW tA, NEW pA, NEW aA, Move(i, tA, pA, aA)
    PROVE  Apart'
<1>1. \A x, y \in Thread : x # y => Ids(todo'[x]) \cap Ids(todo'[y]) = {}
    BY DEF Apart, Move
<1>2. \A p, q \in Proc : p # q => Ids(proc_todo'[p]) \cap Ids(proc_todo'[q]) = {}
    BY DEF Apart, Move
<1>3. \A p, q \in Proc : p # q => Ids(async_todo'[p]) \cap Ids(async_todo'[q]) = {}
    BY DEF Apart, Move
<1>4. \A p, q \in Proc : Ids(proc_todo'[p]) \cap Ids(async_todo'[q]) = {}
    BY DEF Apart, Move
<1>5. \A x \in Thread, p \in Proc : Ids(todo'[x]) \cap Ids(proc_todo'[p]) = {}
    BY DEF Apart, Move
<1>6. \A x \in Thread, p \in Proc : Ids(todo'[x]) \cap Ids(async_todo'[p]) = {}
    BY DEF Apart, Move
<1> QED
    BY <1>1, <1>2, <1>3, <1>4, <1>5, <1>6 DEF Apart

\* What is on the lists belongs there after such a step.
LEMMA PlacedMove ==
    ASSUME Placed, NEW i, NEW tA, NEW pA, NEW aA, Move(i, tA, pA, aA), Stay(i, tA, pA, aA)
    PROVE  Placed'
<1>1. ASSUME NEW y \in Thread, NEW j \in Ids(todo'[y])
      PROVE  Fit(tr', buf', j, ProcOf[y]) /\ (~tr'[j].one_way => tr'[j].to_thread = y)
    <2>1. CASE j = i
        BY <2>1 DEF Move, Stay
    <2>2. CASE j # i
        <3>1. j \in Ids(todo[y])
            BY <2>2 DEF Move
        <3>2. SameWork(tr[j], tr'[j]) /\ buf'[j] = buf[j]
            BY <2>2, <3>1 DEF Stay
        <3>3. Fit(tr, buf, j, ProcOf[y]) /\ (~tr[j].one_way => tr[j].to_thread = y)
            BY <3>1 DEF Placed
        <3> QED
            BY <3>2, <3>3, FitSame DEF SameWork
    <2> QED
        BY <2>1, <2>2
<1>2. ASSUME NEW p \in Proc, NEW j \in Ids(proc_todo'[p])
      PROVE  Fit(tr', buf', j, p) /\ ~tr'[j].reply /\ tr'[j].to_thread = None
    <2>1. CASE j = i
        BY <2>1 DEF Move, Stay
    <2>2. CASE j # i
        <3>1. j \in Ids(proc_todo[p])
            BY <2>2 DEF Move
        <3>2. SameWork(tr[j], tr'[j]) /\ buf'[j] = buf[j]
            BY <2>2, <3>1 DEF Stay
        <3>3. Fit(tr, buf, j, p) /\ ~tr[j].reply /\ tr[j].to_thread = None
            BY <3>1 DEF Placed
        <3> QED
            BY <3>2, <3>3, FitSame DEF SameWork
    <2> QED
        BY <2>1, <2>2
<1>3. ASSUME NEW p \in Proc, NEW j \in Ids(async_todo'[p])
      PROVE  Fit(tr', buf', j, p) /\ tr'[j].one_way
    <2>1. CASE j = i
        BY <2>1 DEF Move, Stay
    <2>2. CASE j # i
        <3>1. j \in Ids(async_todo[p])
            BY <2>2 DEF Move
        <3>2. SameWork(tr[j], tr'[j]) /\ buf'[j] = buf[j]
            BY <2>2, <3>1 DEF Stay
        <3>3. Fit(tr, buf, j, p) /\ tr[j].one_way
            BY <3>1 DEF Placed
        <3> QED
            BY <3>2, <3>3, FitSame DEF SameWork
    <2> QED
        BY <2>1, <2>2
<1> QED
    BY <1>1, <1>2, <1>3 DEF Placed

\* A work that is listed is a transaction, with its buffer, that is not the reader's yet.
LEMMA ListedIs ==
    ASSUME Inv, NEW i \in Listed(todo, proc_todo, async_todo)
    PROVE  /\ i \in Id /\ tr[i] \in Transaction /\ tr[i] # None /\ tr[i].buffer
           /\ buf[i] \in Buffer /\ buf[i] # None /\ ~buf[i].allow_user_free
           /\ buf[i].async = tr[i].one_way /\ ~(tr[i].one_way /\ tr[i].reply)
           /\ tr[i].to_thread \in Thread /\ ~tr[i].one_way => tr[i].to_thread \in threads
<1>1. i \in Id
    BY DEF Listed
<1>2. tr[i] \in Transaction \cup {None} /\ buf[i] \in Buffer \cup {None}
    BY <1>1, InvState
<1>3. \E p : Fit(tr, buf, i, p)
    BY DEF Listed, Inv, Placed
<1>4. ASSUME tr[i].to_thread \in Thread, ~tr[i].one_way PROVE tr[i].to_thread \in threads
    <2>1. PICK x \in Thread : i \in Ids(todo[x])
        BY <1>4, Names DEF Listed, Inv, Placed
    <2>2. tr[i].to_thread = x
        BY <1>4, <2>1 DEF Inv, Placed
    <2>3. todo[x] # <<>>
        BY <2>1, WorksEmpty
    <2> QED
        BY <2>2, <2>3 DEF Inv, Gone
<1> QED
    BY <1>1, <1>2, <1>3, <1>4 DEF Fit

\* A thread comes.
LEMMA StepGetThread ==
    ASSUME Inv, NEW x \in Thread, GetThread(x)
    PROVE  Inv'
<1> DEFINE P == Listed(todo, proc_todo, async_todo)
           Q == P \cap Calls(tr)
<1>1. /\ x \notin threads /\ live[ProcOf[x]] /\ threads' = threads \cup {x}
      /\ UNCHANGED <<live, pc, stack, todo, proc_todo, async_todo, has_async, err, err2, tr, buf, owed>>
    BY DEF GetThread
<1>2. /\ todo[x] = <<>> /\ stack[x] = None /\ err[x] = Ok /\ err2[x] = Ok /\ pc[x] = "user"
      /\ owed[x] = 0
    BY <1>1 DEF Inv, Gone
<1>3. \A m \in Q : tr[m].to_thread # x
    <2> SUFFICES ASSUME NEW m \in Q, tr[m].to_thread = x PROVE FALSE
        OBVIOUS
    <2>1. ~tr[m].one_way /\ m \in P
        BY DEF Calls
    <2> HIDE DEF P
    <2> QED
        BY <1>1, <2>1, ListedIs DEF P
<1>4. SInv(State, threads, P) /\ State.tr = tr /\ State.stack = stack
    BY InvState
<1>5. /\ Chains(tr, stack, threads, Q) /\ Linked(State)
      /\ P \subseteq {i \in Id : tr[i] # None}
      /\ \A i \in Id : tr[i] # None /\ i \notin P => i \in Calls(tr)
    BY <1>4 DEF SInv
<1> HIDE DEF P, Q
<1>6. Chains(tr, stack, threads \cup {x}, Q)
    BY <1>1, <1>2, <1>3, <1>5, Names, ChainsThread
<1>7. Core'
    <2>1. \A y \in threads' : err2'[y] # Ok => err'[y] # Ok /\ (stack'[y] # None => tr'[stack'[y]].to_thread = y)
        BY <1>1, InvThread, InvState
    <2>2. \A y \in threads' :
            /\ pc'[y] \in {"proc_wait", "proc_sleep"} => stack'[y] = None /\ err'[y] = Ok
            /\ pc'[y] = "thread_sleep" => err'[y] = Ok
        BY <1>1, InvThread, InvState
    <2>3. \A i \in Id : (buf'[i] # None /\ buf'[i].transaction) <=> (tr'[i] # None /\ tr'[i].buffer)
        BY <1>1, <1>5, InvState DEF Linked
    <2>4. Listed(todo', proc_todo', async_todo') = P /\ threads' \subseteq Thread
        BY <1>1, InvState DEF P
    <2>5. Chains(tr', stack', threads', P \cap Calls(tr'))
        BY <1>1, <1>6 DEF Q
    <2>6. \A i \in P : i \in Id /\ tr'[i] # None
        BY <1>1, <1>5
    <2>7. \A i \in Id : tr'[i] # None /\ i \notin P => i \in Calls(tr')
        BY <1>1, <1>5
    <2>8. /\ tr' \in [Id -> Transaction \cup {None}] /\ buf' \in [Id -> Buffer \cup {None}]
          /\ stack' \in [Thread -> Id \cup {None}] /\ err' \in [Thread -> Code] /\ err2' \in [Thread -> Code]
          /\ pc' \in [Thread -> PC]
        BY <1>1, InvState
    <2> QED
        BY <2>1, <2>2, <2>3, <2>4, <2>5, <2>6, <2>7, <2>8, CoreNext
<1>8. Types' /\ Apart' /\ Placed' /\ OneAsync'
    <2>1. Types /\ Apart /\ Placed /\ OneAsync
        BY DEF Inv
    <2>2. Types'
        BY <1>1, <2>1 DEF Types
    <2>3. Apart' /\ Placed' /\ OneAsync'
        BY <1>1, <2>1 DEF Apart, Placed, OneAsync
    <2> QED
        BY <2>2, <2>3
<1>9. Gone'
    BY <1>1 DEF Inv, Gone
<1>10. Awake'
    BY <1>1, <1>2 DEF Inv, Awake
<1>11. Balance'
    <2> SUFFICES ASSUME NEW y \in threads' PROVE owed'[y] = Owes(tr', err', err2', todo', y)
        BY BalanceIs
    <2>1. CASE y = x
        <3>1. From(tr, x) = {}
            BY <1>1, <1>5, ChainsParts, Names DEF From, Chains, Senders
        <3>2. Cardinality(From(tr, x)) = 0
            BY <3>1, FS_EmptySet
        <3>3. Count(tr, todo[x]) = 0
            BY <1>2, CountEmpty
        <3> QED
            BY <1>1, <1>2, <2>1, <3>2, <3>3 DEF Owes
    <2>2. CASE y # x
        <3>1. y \in threads /\ y \in Thread
            BY <1>1, <2>2, InvState
        <3> QED
            BY <1>1, <3>1, InvThread DEF Owes
    <2> QED
        BY <2>1, <2>2
<1> QED
    BY <1>7, <1>8, <1>9, <1>10, <1>11 DEF Inv

\* A buffer is freed.
LEMMA StepFreeBuffer ==
    ASSUME Inv, NEW x \in Thread, NEW i \in Id, FreeBuffer(x, i)
    PROVE  Inv'
<1> DEFINE p == ProcOf[x]
           P == Listed(todo, proc_todo, async_todo)
           Q == P \cap Calls(tr)
           next == buf[i].async /\ async_todo[p] # <<>>
           h == Head(async_todo[p])
<1>1. /\ x \in threads /\ pc[x] = "user"
      /\ buf[i] # None /\ buf[i].proc = p /\ buf[i].allow_user_free
      /\ tr' = IF buf[i].transaction THEN [tr EXCEPT ![i].buffer = FALSE] ELSE tr
      /\ buf' = [buf EXCEPT ![i] = None]
      /\ UNCHANGED <<live, threads, pc, stack, proc_todo, err, err2, owed>>
    BY DEF FreeBuffer, MayWrite
<1>2. /\ todo' = IF next THEN [todo EXCEPT ![x] = Append(@, h)] ELSE todo
      /\ async_todo' = IF next THEN [async_todo EXCEPT ![p] = Tail(@)] ELSE async_todo
      /\ has_async' = IF buf[i].async /\ async_todo[p] = <<>> THEN [has_async EXCEPT ![p] = FALSE]
                      ELSE has_async
    BY DEF FreeBuffer
<1>3. /\ p \in Proc /\ DOMAIN todo = Thread /\ DOMAIN async_todo = Proc /\ DOMAIN proc_todo = Proc
      /\ has_async \in [Proc -> BOOLEAN] /\ \A y \in Thread : Works(todo[y])
      /\ \A q \in Proc : /\ Works(proc_todo[q]) /\ Works(async_todo[q])
                         /\ Complete \notin ToSet(proc_todo[q]) /\ Complete \notin ToSet(async_todo[q])
    BY BinderAssumption DEF Inv, Types
<1>4. i \notin P
    <2> HIDE DEF P
    <2> QED
        BY <1>1, ListedIs DEF P
<1>5. SInv(State, threads, P) /\ State.tr = tr /\ State.stack = stack /\ State.buf = buf
    BY InvState
<1>6. /\ Chains(tr, stack, threads, Q)
      /\ \A j \in Id : (buf[j] # None /\ buf[j].transaction) <=> (tr[j] # None /\ tr[j].buffer)
      /\ \A j \in P : j \in Id /\ tr[j] # None
      /\ \A j \in Id : tr[j] # None /\ j \notin P => j \in Calls(tr)
    BY <1>5 DEF SInv, Linked
<1>7. /\ tr' \in [Id -> Transaction \cup {None}]
      /\ \A j \in Id : j # i => tr'[j] = tr[j]
      /\ tr'[i] # None <=> tr[i] # None
      /\ tr'[i] # None => ~tr'[i].buffer
      /\ tr[i] # None => /\ SameCall(tr, tr', i)
                         /\ tr'[i].one_way = tr[i].one_way /\ tr'[i].reply = tr[i].reply
    <2>1. CASE buf[i].transaction
        <3>1. tr[i] # None /\ tr[i] \in Transaction
            BY <1>1, <1>6, <2>1, InvState
        <3> DEFINE u == [tr[i] EXCEPT !.buffer = FALSE]
        <3>2. /\ u \in Transaction /\ ~u.buffer /\ u.from = tr[i].from /\ u.from_parent = tr[i].from_parent
              /\ u.to_thread = tr[i].to_thread /\ u.to_parent = tr[i].to_parent
              /\ u.one_way = tr[i].one_way /\ u.reply = tr[i].reply
            BY <3>1 DEF Transaction
        <3>3. tr' = [tr EXCEPT ![i] = u]
            BY <1>1, <2>1
        <3> HIDE DEF u
        <3>4. tr' \in [Id -> Transaction \cup {None}] /\ tr'[i] = u /\ \A j \in Id : j # i => tr'[j] = tr[j]
            BY <3>2, <3>3, InvState
        <3>5. u # None
            BY <3>2, Names
        <3> QED
            BY <3>1, <3>2, <3>4, <3>5 DEF SameCall
    <2>2. CASE ~buf[i].transaction
        <3>1. tr' = tr
            BY <1>1, <2>2
        <3> QED
            BY <1>6, <2>2, <3>1, InvState DEF SameCall
    <2> QED
        BY <2>1, <2>2
<1>8. /\ buf' \in [Id -> Buffer \cup {None}] /\ buf'[i] = None /\ \A j \in Id : j # i => buf'[j] = buf[j]
    BY <1>1, InvState
<1>9. /\ Calls(tr') = Calls(tr) /\ \A j \in Calls(tr) : SameCall(tr, tr', j)
      /\ \A j \in Id : tr[j] # None => tr'[j].reply = tr[j].reply
    BY <1>7 DEF Calls, SameCall
<1>10. ASSUME next
       PROVE  /\ Works(Tail(async_todo[p])) /\ Ids(Tail(async_todo[p])) = Ids(async_todo[p]) \ {h}
              /\ h \in Id /\ h \in Ids(async_todo[p]) /\ Complete \notin ToSet(Tail(async_todo[p]))
              /\ h \in P /\ h # i /\ h \notin Ids(todo[x])
              /\ Works(Append(todo[x], h)) /\ Ids(Append(todo[x], h)) = Ids(todo[x]) \cup {h}
    <2> DEFINE s == async_todo[p]
    <2>1. Works(s) /\ s # <<>> /\ Complete \notin ToSet(s)
        BY <1>3, <1>10
    <2> HIDE DEF s
    <2>2. /\ Works(Tail(s)) /\ Ids(Tail(s)) = Ids(s) \ {Head(s)}
          /\ Head(s) \in Id \cup {Complete} /\ (Head(s) \in Id => Head(s) \in Ids(s))
        BY <2>1, WorksTail
    <2>3. Head(s) # Complete /\ Complete \notin ToSet(Tail(s))
        <3>1. s \in Seq(Id \cup {Complete})
            BY <2>1 DEF Works
        <3>2. /\ Head(s) = s[1] /\ 1 \in DOMAIN s
              /\ \A k \in DOMAIN Tail(s) : k + 1 \in DOMAIN s /\ Tail(s)[k] = s[k + 1]
            BY <2>1, <3>1
        <3> QED
            BY <2>1, <3>2 DEF ToSet
    <2>4. h = Head(s) /\ h \in Id /\ h \in Ids(async_todo[p])
        BY <2>2, <2>3 DEF s
    <2>5. h \in P /\ h # i /\ h \notin Ids(todo[x])
        BY <1>3, <1>4, <2>4 DEF Listed, Inv, Apart
    <2> HIDE DEF h, p
    <2>6. Works(Append(todo[x], h)) /\ Ids(Append(todo[x], h)) = Ids(todo[x]) \cup {h}
        BY <1>3, <2>4, <2>5, WorksAppend
    <2> QED
        BY <2>2, <2>3, <2>4, <2>5, <2>6 DEF s
<1>11. /\ DOMAIN todo' = Thread /\ DOMAIN async_todo' = Proc
       /\ \A y \in Thread : y # x => todo'[y] = todo[y]
       /\ \A q \in Proc : q # p => async_todo'[q] = async_todo[q]
       /\ todo'[x] = IF next THEN Append(todo[x], h) ELSE todo[x]
       /\ async_todo'[p] = IF next THEN Tail(async_todo[p]) ELSE async_todo[p]
    <2> HIDE DEF next, h, p
    <2> QED
        BY <1>2, <1>3
<1> HIDE DEF p, next, h
<1>12. Types'
    BY <1>1, <1>2, <1>3, <1>10, <1>11 DEF Inv, Types
<1>13. /\ Move(h, IF next THEN {x} ELSE {}, {}, {}) \/ ~next
       /\ ~next => Move(None, {}, {}, {})
    <2>1. ASSUME next PROVE Move(h, {x}, {}, {})
        <3>1. \A q \in Proc : h \notin Ids(proc_todo[q]) /\ (q # p => h \notin Ids(async_todo[q]))
            BY <1>3, <1>10, <2>1 DEF Inv, Apart
        <3>2. \A y \in Thread : h \notin Ids(todo[y])
            BY <1>3, <1>10, <2>1 DEF Inv, Apart
        <3> QED
            <4>1. \A y \in Thread : Ids(todo'[y]) \subseteq (Ids(todo[y]) \ {h}) \cup (IF y \in {x} THEN {h} ELSE {})
                BY <1>10, <1>11, <2>1, <3>2
            <4>2. \A q \in Proc : Ids(proc_todo'[q]) \subseteq (Ids(proc_todo[q]) \ {h}) \cup {}
                BY <1>1, <3>1
            <4>3. \A q \in Proc : Ids(async_todo'[q]) \subseteq (Ids(async_todo[q]) \ {h}) \cup {}
                BY <1>10, <1>11, <2>1, <3>1
            <4> QED
                BY <4>1, <4>2, <4>3 DEF Move
    <2>2. ASSUME ~next PROVE Move(None, {}, {}, {})
        <3>1. todo' = todo /\ async_todo' = async_todo /\ proc_todo' = proc_todo
            BY <1>1, <1>2, <2>2
        <3>2. \A s : None \notin Ids(s)
            BY Names DEF Ids
        <3> QED
            BY <3>1, <3>2 DEF Move
    <2> QED
        BY <2>1, <2>2
<1>14. \A j \in P : SameWork(tr[j], tr'[j]) /\ buf'[j] = buf[j]
    BY <1>4, <1>6, <1>7, <1>8 DEF SameWork
<1>15. /\ \A y \in Thread : Ids(todo[y]) \subseteq P
       /\ \A q \in Proc : Ids(proc_todo[q]) \subseteq P /\ Ids(async_todo[q]) \subseteq P
    BY DEF Listed, Ids
<1> HIDE DEF P
<1>16. Apart' /\ Placed'
    <2>0. Apart /\ Placed
        BY DEF Inv
    <2>1. CASE next
        <3>1. Move(h, {x}, {}, {})
            BY <1>13, <2>1
        <3>2. Fit(tr, buf, h, p) /\ tr[h].one_way
            BY <1>3, <1>10, <2>1 DEF Inv, Placed
        <3>3. SameWork(tr[h], tr'[h]) /\ buf'[h] = buf[h]
            BY <1>10, <1>14, <2>1
        <3>4. Fit(tr', buf', h, p) /\ tr'[h].one_way
            BY <3>2, <3>3, FitSame DEF SameWork
        <3>5. Stay(h, {x}, {}, {})
            BY <1>14, <1>15, <3>4 DEF Stay, p
        <3> QED
            BY <2>0, <3>1, <3>5, ApartMove, PlacedMove
    <2>2. CASE ~next
        <3>1. Move(None, {}, {}, {})
            BY <1>13, <2>2
        <3>2. Stay(None, {}, {}, {})
            BY <1>14, <1>15 DEF Stay
        <3> QED
            BY <2>0, <3>1, <3>2, ApartMove, PlacedMove
    <2> QED
        BY <2>1, <2>2
<1>17. Listed(todo', proc_todo', async_todo') = P
    <2>1. CASE next
        <3>1. /\ Ids(todo'[x]) = Ids(todo[x]) \cup {h} /\ Ids(async_todo'[p]) = Ids(async_todo[p]) \ {h}
              /\ h \in Ids(async_todo[p])
              /\ \A y \in Thread : y # x => Ids(todo'[y]) = Ids(todo[y])
              /\ \A q \in Proc : q # p => Ids(async_todo'[q]) = Ids(async_todo[q])
              /\ proc_todo' = proc_todo
            BY <1>1, <1>10, <1>11, <2>1
        <3> QED
            BY <1>3, <3>1 DEF Listed, P
    <2>2. CASE ~next
        <3>1. todo' = todo /\ async_todo' = async_todo /\ proc_todo' = proc_todo
            BY <1>1, <1>2, <2>2
        <3> QED
            BY <3>1 DEF P
    <2> QED
        BY <2>1, <2>2
<1>18. Core'
    <2>1. \A y \in threads' : err2'[y] # Ok => err'[y] # Ok /\ (stack'[y] # None => tr'[stack'[y]].to_thread = y)
        <3> SUFFICES ASSUME NEW y \in threads, err2[y] # Ok
                     PROVE  err[y] # Ok /\ (stack[y] # None => tr'[stack[y]].to_thread = y)
            BY <1>1
        <3>1. err[y] # Ok /\ (stack[y] # None => tr[stack[y]].to_thread = y)
            BY InvThread, InvState
        <3>2. stack[y] # None => stack[y] \in Calls(tr)
            BY <1>6, ChainsParts DEF Chains, Tops, Rel
        <3> QED
            BY <1>9, <3>1, <3>2 DEF SameCall
    <2>2. \A y \in threads' :
            /\ pc'[y] \in {"proc_wait", "proc_sleep"} => stack'[y] = None /\ err'[y] = Ok
            /\ pc'[y] = "thread_sleep" => err'[y] = Ok
        BY <1>1, InvThread, InvState
    <2>3. \A j \in Id : (buf'[j] # None /\ buf'[j].transaction) <=> (tr'[j] # None /\ tr'[j].buffer)
        BY <1>6, <1>7, <1>8
    <2>4. threads' \subseteq Thread
        BY <1>1, InvState
    <2>5. Chains(tr', stack', threads', P \cap Calls(tr'))
        <3>1. Chains(tr', stack, threads, Q)
            <4> HIDE DEF Q
            <4> QED
                BY <1>6, <1>9, ChainsSame
        <3> QED
            BY <1>1, <1>9, <3>1
    <2>6. \A j \in P : j \in Id /\ tr'[j] # None
        BY <1>6, <1>7
    <2>7. \A j \in Id : tr'[j] # None /\ j \notin P => j \in Calls(tr')
        BY <1>6, <1>7, <1>9
    <2>8. /\ stack' \in [Thread -> Id \cup {None}] /\ err' \in [Thread -> Code] /\ err2' \in [Thread -> Code]
          /\ pc' \in [Thread -> PC]
        BY <1>1, InvState
    <2> QED
        BY <1>7, <1>8, <1>17, <2>1, <2>2, <2>3, <2>4, <2>5, <2>6, <2>7, <2>8, CoreNext
<1>19. Gone'
    <2>1. \A y \in Thread : y \notin threads => todo'[y] = todo[y]
        BY <1>1, <1>11
    <2>2. \A q \in Proc : ~live[q] => proc_todo[q] = <<>> /\ async_todo[q] = <<>> /\ ~has_async[q] /\ q # p
        BY <1>1 DEF Inv, Gone, p
    <2>3. \A q \in Proc : q # p => has_async'[q] = has_async[q]
        BY <1>2, <1>3
    <2>4. \A q \in Proc : ~live[q] => proc_todo'[q] = <<>> /\ async_todo'[q] = <<>> /\ ~has_async'[q]
        BY <1>1, <1>11, <2>2, <2>3
    <2> QED
        BY <1>1, <2>1, <2>4 DEF Inv, Gone
<1>20. Awake'
    BY <1>1, <1>11, InvState DEF Inv, Awake
<1>21. OneAsync'
    <2> SUFFICES ASSUME NEW q \in Proc
                 PROVE  IF has_async'[q] THEN \E j : AsyncOf(buf', async_todo', q) = {j}
                        ELSE AsyncOf(buf', async_todo', q) = {} /\ async_todo'[q] = <<>>
        BY DEF OneAsync
    <2>1. IF has_async[q] THEN \E j : AsyncOf(buf, async_todo, q) = {j}
          ELSE AsyncOf(buf, async_todo, q) = {} /\ async_todo[q] = <<>>
        BY DEF Inv, OneAsync
    <2>2. CASE q # p \/ ~buf[i].async
        <3>1. async_todo'[q] = async_todo[q] /\ has_async'[q] = has_async[q]
            BY <1>2, <1>3, <1>11, <2>2 DEF next
        <3>2. AsyncOf(buf', async_todo', q) = AsyncOf(buf, async_todo, q)
            BY <1>1, <1>8, <2>2, <3>1 DEF AsyncOf
        <3> QED
            BY <2>1, <3>1, <3>2
    <2>3. CASE q = p /\ buf[i].async
        <3>1. i \in AsyncOf(buf, async_todo, q)
            BY <1>1, <1>4, <1>15, <2>3 DEF AsyncOf
        <3>2. has_async[q] /\ AsyncOf(buf, async_todo, q) = {i}
            BY <2>1, <3>1
        <3>3. CASE next
            <4>1. has_async'[q] = has_async[q]
                BY <1>2, <3>3 DEF next
            <4>2. buf[h] # None /\ buf[h].async /\ buf[h].proc = p /\ h \in Id /\ h # i
                BY <1>3, <1>10, <3>3 DEF Inv, Placed, Fit
            <4>3. AsyncOf(buf', async_todo', q) = {h}
                <5>1. Ids(async_todo'[q]) = Ids(async_todo[q]) \ {h} /\ h \in Ids(async_todo[q])
                    BY <1>10, <1>11, <2>3, <3>3
                <5>2. \A j \in Id : j # i => (buf[j] # None /\ buf[j].async /\ buf[j].proc = q => j \in Ids(async_todo[q]))
                    BY <3>2 DEF AsyncOf
                <5>3. \A j \in Id : j # i => buf'[j] = buf[j]
                    BY <1>8
                <5>4. \A j \in Id : j \in AsyncOf(buf', async_todo', q) <=> j = h
                    BY <1>8, <2>3, <4>2, <5>1, <5>2, <5>3 DEF AsyncOf
                <5>5. AsyncOf(buf', async_todo', q) \subseteq Id
                    BY DEF AsyncOf
                <5> QED
                    BY <4>2, <5>4, <5>5
            <4> QED
                BY <3>2, <4>1, <4>3
        <3>4. CASE ~next
            <4>1. async_todo[p] = <<>> /\ async_todo'[q] = <<>> /\ has_async' = [has_async EXCEPT ![p] = FALSE]
                BY <1>2, <1>11, <2>3, <3>4 DEF next
            <4>2. ~has_async'[q]
                BY <1>3, <2>3, <4>1
            <4>3. AsyncOf(buf', async_todo', q) = {}
                BY <1>8, <1>11, <2>3, <3>2, <3>4 DEF AsyncOf
            <4> QED
                BY <4>1, <4>2, <4>3
        <3> QED
            BY <3>3, <3>4
    <2> QED
        BY <2>2, <2>3
<1>22. Balance'
    <2> SUFFICES ASSUME NEW y \in threads PROVE owed'[y] = Owes(tr', err', err2', todo', y)
        BY <1>1, BalanceIs
    <2>1. y \in Thread /\ owed'[y] = Owes(tr, err, err2, todo, y)
        BY <1>1, InvThread, InvState
    <2>2. From(tr', y) = From(tr, y)
        BY <1>9 DEF From, SameCall
    <2>3. Count(tr', todo[y]) = Count(tr, todo[y])
        <3>1. \A j \in Ids(todo[y]) : tr'[j].reply = tr[j].reply
            BY <1>6, <1>9, <1>15, <2>1
        <3> QED
            BY <1>3, <2>1, <3>1, CountSame
    <2>4. Count(tr', todo'[y]) = Count(tr', todo[y])
        <3>1. CASE y = x /\ next
            <4>1. todo'[y] = Append(todo[y], h) /\ h \in Id \cup {Complete} /\ Works(todo[y])
                BY <1>3, <1>10, <1>11, <2>1, <3>1
            <4>2. ~Returned(tr', h)
                <5>1. Fit(tr, buf, h, p) /\ tr[h].one_way
                    BY <1>3, <1>10, <3>1 DEF Inv, Placed
                <5>2. SameWork(tr[h], tr'[h])
                    BY <1>10, <1>14, <3>1
                <5>3. h # Complete
                    BY <1>10, <3>1, Names
                <5> QED
                    BY <5>1, <5>2, <5>3 DEF Fit, SameWork, Returned
            <4>3. Count(tr', Append(todo[y], h)) = Count(tr', todo[y]) + (IF Returned(tr', h) THEN 1 ELSE 0)
                BY <4>1, CountAppend
            <4>4. Count(tr', todo[y]) \in Nat
                BY <4>1, CountSet
            <4> QED
                BY <4>1, <4>2, <4>3, <4>4
        <3>2. CASE ~(y = x /\ next)
            BY <1>11, <2>1, <3>2
        <3> QED
            BY <3>1, <3>2
    <2>5. Cardinality(From(tr', y)) = Cardinality(From(tr, y)) /\ Count(tr', todo'[y]) = Count(tr, todo[y])
        BY <2>2, <2>3, <2>4
    <2>6. err'[y] = err[y] /\ err2'[y] = err2[y]
        BY <1>1
    <2> QED
        BY <2>1, <2>5, <2>6 DEF Owes
<1> QED
    BY <1>12, <1>16, <1>18, <1>19, <1>20, <1>21, <1>22 DEF Inv

-----------------------------------------------------------------------------
(***************************************************************************)
(* Thread x sends: the transaction i, with its buffer, comes to the list   *)
(* of the thread in tA, of the process in pA or of the node in aA, and an  *)
(* acknowledgement to that of x.  T and B are the transactions and the     *)
(* buffers that are left when it is added.                                 *)
(***************************************************************************)
NewWork(T, B, x, i, t, b, tA, pA, aA) ==
    /\ x \in threads /\ i \in Id /\ i \notin Listed(todo, proc_todo, async_todo)
    /\ T \in [Id -> Transaction \cup {None}] /\ B \in [Id -> Buffer \cup {None}]
    /\ \A j \in Listed(todo, proc_todo, async_todo) : SameWork(tr[j], T[j]) /\ B[j] = buf[j]
    /\ t \in Transaction /\ b \in Buffer /\ t.buffer /\ b.transaction
    /\ b.async = t.one_way /\ ~b.allow_user_free /\ ~(t.one_way /\ t.reply)
    /\ t.from # None => ProcOf[t.from] # b.proc
    /\ tr' = [T EXCEPT ![i] = t] /\ buf' = [B EXCEPT ![i] = b]
    /\ DOMAIN todo' = Thread /\ DOMAIN proc_todo' = Proc /\ DOMAIN async_todo' = Proc
    /\ \A y \in Thread : todo'[y] = IF y \in tA THEN Append(todo[y], i)
                                    ELSE IF y = x THEN Append(todo[y], Complete) ELSE todo[y]
    /\ \A p \in Proc : proc_todo'[p] = IF p \in pA THEN Append(proc_todo[p], i) ELSE proc_todo[p]
    /\ \A p \in Proc : async_todo'[p] = IF p \in aA THEN Append(async_todo[p], i) ELSE async_todo[p]
    /\ x \notin tA /\ tA \subseteq Thread /\ pA \subseteq Proc /\ aA \subseteq Proc
    /\ \A y, z \in tA : y = z
    /\ \A p, q \in pA : p = q
    /\ \A p, q \in aA : p = q
    /\ tA = {} \/ (pA = {} /\ aA = {})
    /\ pA = {} \/ aA = {}
    /\ tA \cup pA \cup aA # {}
    /\ \A y \in tA : b.proc = ProcOf[y] /\ ~t.one_way /\ t.to_thread = y
    /\ \A p \in pA : b.proc = p /\ ~t.reply /\ t.to_thread = None
    /\ \A p \in aA : b.proc = p /\ t.one_way

\* The lists after a send.
LEMMA SendLists ==
    ASSUME Inv, NEW T, NEW B, NEW x, NEW i, NEW t, NEW b, NEW tA, NEW pA, NEW aA,
           NewWork(T, B, x, i, t, b, tA, pA, aA)
    PROVE  /\ tr' \in [Id -> Transaction \cup {None}] /\ tr'[i] = t
           /\ buf' \in [Id -> Buffer \cup {None}] /\ buf'[i] = b
           /\ \A j \in Id : j # i => tr'[j] = T[j] /\ buf'[j] = B[j]
           /\ Listed(todo', proc_todo', async_todo') = Listed(todo, proc_todo, async_todo) \cup {i}
           /\ \A y \in Thread : Works(todo'[y])
           /\ \A p \in Proc : /\ Works(proc_todo'[p]) /\ Works(async_todo'[p])
                              /\ Complete \notin ToSet(proc_todo'[p]) /\ Complete \notin ToSet(async_todo'[p])
           /\ \A p \in Proc : Ids(async_todo'[p]) = Ids(async_todo[p]) \cup (IF p \in aA THEN {i} ELSE {})
           /\ \A y \in Thread : Count(tr', todo'[y]) =
                Count(tr, todo[y]) + (IF y = x \/ (y \in tA /\ t.reply) THEN 1 ELSE 0)
           /\ Apart' /\ Placed'
<1> DEFINE P == Listed(todo, proc_todo, async_todo)
<1> USE DEF NewWork
<1>1. /\ tr' \in [Id -> Transaction \cup {None}] /\ tr'[i] = t
      /\ buf' \in [Id -> Buffer \cup {None}] /\ buf'[i] = b
      /\ \A j \in Id : j # i => tr'[j] = T[j] /\ buf'[j] = B[j]
    OBVIOUS
<1>2. /\ \A y \in Thread : Works(todo[y]) /\ Ids(todo[y]) \subseteq P
      /\ \A p \in Proc : /\ Works(proc_todo[p]) /\ Works(async_todo[p])
                         /\ Complete \notin ToSet(proc_todo[p]) /\ Complete \notin ToSet(async_todo[p])
                         /\ Ids(proc_todo[p]) \subseteq P /\ Ids(async_todo[p]) \subseteq P
    BY DEF Inv, Types, Listed, Ids
<1>3. /\ i \in Id \cup {Complete} /\ i \notin P /\ Complete \notin Id /\ i # Complete
    BY Names
<1> HIDE DEF P
<1>4. ASSUME NEW s, Works(s), Ids(s) \subseteq P
      PROVE  /\ Works(Append(s, i)) /\ Ids(Append(s, i)) = Ids(s) \cup {i}
             /\ Works(Append(s, Complete)) /\ Ids(Append(s, Complete)) = Ids(s)
             /\ Complete \notin ToSet(s) => Complete \notin ToSet(Append(s, i))
    <2> HIDE DEF NewWork
    <2>1. /\ Works(Append(s, i)) /\ Ids(Append(s, i)) = Ids(s) \cup ({i} \cap Id)
        BY <1>3, <1>4, WorksAppend
    <2>2. Complete \notin Ids(s)
        BY <1>3 DEF Ids
    <2>3. /\ Works(Append(s, Complete)) /\ Ids(Append(s, Complete)) = Ids(s) \cup ({Complete} \cap Id)
        BY <1>4, <2>2, WorksAppend
    <2>4. ASSUME Complete \notin ToSet(s) PROVE Complete \notin ToSet(Append(s, i))
        <3>1. s \in Seq(Id \cup {Complete})
            BY <1>4 DEF Works
        <3>2. /\ DOMAIN Append(s, i) = 1 .. Len(s) + 1 /\ DOMAIN s = 1 .. Len(s) /\ Len(s) \in Nat
              /\ \A k \in 1 .. Len(s) : Append(s, i)[k] = s[k]
              /\ Append(s, i)[Len(s) + 1] = i
            BY <1>3, <3>1
        <3>3. \A k \in 1 .. Len(s) + 1 : k \in 1 .. Len(s) \/ k = Len(s) + 1
            BY <3>2
        <3> QED
            BY <1>3, <2>4, <3>2, <3>3 DEF ToSet
    <2> QED
        BY <1>3, <2>1, <2>3, <2>4 DEF NewWork
<1>5. ASSUME NEW y \in Thread
      PROVE  /\ Works(todo'[y])
             /\ Ids(todo'[y]) = Ids(todo[y]) \cup (IF y \in tA THEN {i} ELSE {})
    <2> DEFINE s == todo[y]
    <2>1. todo'[y] = IF y \in tA THEN Append(s, i) ELSE IF y = x THEN Append(s, Complete) ELSE s
        OBVIOUS
    <2>2. Works(s) /\ Ids(s) \subseteq P
        BY <1>2
    <2> HIDE DEF s, NewWork
    <2>3. /\ Works(Append(s, i)) /\ Ids(Append(s, i)) = Ids(s) \cup {i}
          /\ Works(Append(s, Complete)) /\ Ids(Append(s, Complete)) = Ids(s)
        BY <1>4, <2>2
    <2> QED
        BY <2>1, <2>2, <2>3 DEF s
<1>6. ASSUME NEW p \in Proc
      PROVE  /\ Works(proc_todo'[p]) /\ Complete \notin ToSet(proc_todo'[p])
             /\ Ids(proc_todo'[p]) = Ids(proc_todo[p]) \cup (IF p \in pA THEN {i} ELSE {})
    <2> DEFINE s == proc_todo[p]
    <2>1. proc_todo'[p] = IF p \in pA THEN Append(s, i) ELSE s
        OBVIOUS
    <2>2. Works(s) /\ Ids(s) \subseteq P /\ Complete \notin ToSet(s)
        BY <1>2
    <2> HIDE DEF s, NewWork
    <2>3. /\ Works(Append(s, i)) /\ Ids(Append(s, i)) = Ids(s) \cup {i}
          /\ Complete \notin ToSet(Append(s, i))
        BY <1>4, <2>2
    <2> QED
        BY <2>1, <2>2, <2>3 DEF s
<1>7. ASSUME NEW p \in Proc
      PROVE  /\ Works(async_todo'[p]) /\ Complete \notin ToSet(async_todo'[p])
             /\ Ids(async_todo'[p]) = Ids(async_todo[p]) \cup (IF p \in aA THEN {i} ELSE {})
    <2> DEFINE s == async_todo[p]
    <2>1. async_todo'[p] = IF p \in aA THEN Append(s, i) ELSE s
        OBVIOUS
    <2>2. Works(s) /\ Ids(s) \subseteq P /\ Complete \notin ToSet(s)
        BY <1>2
    <2> HIDE DEF s, NewWork
    <2>3. /\ Works(Append(s, i)) /\ Ids(Append(s, i)) = Ids(s) \cup {i}
          /\ Complete \notin ToSet(Append(s, i))
        BY <1>4, <2>2
    <2> QED
        BY <2>1, <2>2, <2>3 DEF s
<1>8. Listed(todo', proc_todo', async_todo') = P \cup {i}
    <2>1. \A j \in Id : j \in Listed(todo', proc_todo', async_todo') <=> j \in P \/ j = i
        BY <1>5, <1>6, <1>7 DEF Listed, P
    <2>2. Listed(todo', proc_todo', async_todo') \subseteq Id /\ P \subseteq Id /\ i \in Id
        BY DEF Listed, P
    <2> QED
        BY <2>1, <2>2
<1>9. Move(i, tA, pA, aA)
    BY <1>2, <1>3, <1>5, <1>6, <1>7 DEF Move
<1>10. \A j \in P : SameWork(tr[j], tr'[j]) /\ buf'[j] = buf[j]
    <2>1. \A j \in P : j \in Id /\ j # i /\ SameWork(tr[j], T[j]) /\ B[j] = buf[j]
        BY DEF P, Listed
    <2> QED
        BY <1>1, <2>1
<1>11. Fit(tr', buf', i, b.proc)
    BY <1>1, Names DEF Fit
<1>12. Stay(i, tA, pA, aA)
    <2>1. /\ \A y \in tA : Fit(tr', buf', i, ProcOf[y]) /\ (~tr'[i].one_way => tr'[i].to_thread = y)
          /\ \A p \in pA : Fit(tr', buf', i, p) /\ ~tr'[i].reply /\ tr'[i].to_thread = None
          /\ \A p \in aA : Fit(tr', buf', i, p) /\ tr'[i].one_way
        BY <1>1, <1>11
    <2> HIDE DEF NewWork
    <2> QED
        BY <1>2, <1>10, <2>1 DEF Stay
<1>13. Apart' /\ Placed'
    BY <1>9, <1>12, ApartMove, PlacedMove DEF Inv
<1>14. ASSUME NEW y \in Thread
       PROVE  Count(tr', todo'[y]) = Count(tr, todo[y]) + (IF y = x \/ (y \in tA /\ t.reply) THEN 1 ELSE 0)
    <2> DEFINE s == todo[y]
    <2>1. todo'[y] = IF y \in tA THEN Append(s, i) ELSE IF y = x THEN Append(s, Complete) ELSE s
        OBVIOUS
    <2>2. Works(s) /\ \A j \in Ids(s) : tr'[j].reply = tr[j].reply
        BY <1>2, <1>10 DEF SameWork
    <2>3. x \notin tA
        OBVIOUS
    <2> HIDE DEF s, NewWork
    <2>4. Count(tr', s) = Count(tr, s)
        BY <2>2, CountSame
    <2>5. Count(tr', s) \in Nat
        BY <2>2, CountSet
    <2>6. Count(tr', Append(s, i)) = Count(tr', s) + (IF Returned(tr', i) THEN 1 ELSE 0)
        BY <1>3, <2>2, CountAppend
    <2>7. Count(tr', Append(s, Complete)) = Count(tr', s) + (IF Returned(tr', Complete) THEN 1 ELSE 0)
        BY <1>3, <2>2, CountAppend
    <2>8. Returned(tr', Complete) /\ (Returned(tr', i) <=> t.reply)
        BY <1>1, <1>3 DEF Returned
    <2>9. Count(tr', todo'[y]) = Count(tr, s) + (IF y = x \/ (y \in tA /\ t.reply) THEN 1 ELSE 0)
        BY <2>1, <2>3, <2>4, <2>5, <2>6, <2>7, <2>8
    <2> QED
        BY <2>9 DEF s
<1> QED
    BY <1>1, <1>5, <1>6, <1>7, <1>8, <1>13, <1>14 DEF P

\* A thread that is given work is awake.
LEMMA AwakeNext ==
    ASSUME Inv, threads' = threads,
           \A y \in threads : todo'[y] = todo[y] \/ pc'[y] \in {"user", "thread_wait"},
           \A y \in Thread : \/ pc'[y] = pc[y]
                             \/ pc[y] = "thread_sleep" /\ pc'[y] = "thread_wait"
                             \/ pc[y] = "proc_sleep" /\ pc'[y] = "proc_wait",
           \A p \in Proc : \/ proc_todo'[p] = proc_todo[p]
                           \/ \A y \in threads : ProcOf[y] = p /\ pc[y] = "proc_sleep" =>
                                \E z \in threads : ProcOf[z] = p /\ pc'[z] = "proc_wait"
    PROVE  Awake'
<1>1. threads \subseteq Thread /\ Awake /\ \A y \in threads : ProcOf[y] \in Proc
    BY InvState, BinderAssumption DEF Inv
<1>2. ASSUME NEW y \in threads, pc'[y] \in {"thread_sleep", "proc_wait", "proc_sleep"}
      PROVE  todo'[y] = <<>>
    BY <1>1, <1>2 DEF Awake
<1>3. ASSUME NEW y \in threads, pc'[y] = "proc_sleep", proc_todo'[ProcOf[y]] # <<>>
      PROVE  \E z \in threads : ProcOf[z] = ProcOf[y] /\ pc'[z] = "proc_wait"
    <2>1. pc[y] = "proc_sleep" /\ ProcOf[y] \in Proc
        BY <1>1, <1>3
    <2>2. CASE proc_todo'[ProcOf[y]] = proc_todo[ProcOf[y]]
        <3>1. PICK z \in threads : ProcOf[z] = ProcOf[y] /\ pc[z] = "proc_wait"
            BY <1>1, <1>3, <2>1, <2>2 DEF Awake
        <3>2. pc'[z] = "proc_wait"
            BY <1>1, <3>1
        <3> QED
            BY <3>1, <3>2
    <2>3. CASE proc_todo'[ProcOf[y]] # proc_todo[ProcOf[y]]
        BY <2>1, <2>3
    <2> QED
        BY <2>2, <2>3
<1> QED
    BY <1>2, <1>3 DEF Awake

\* No buffer of a one-way call comes or goes.
LEMMA AsyncSame ==
    ASSUME Inv, NEW i, \A j \in Id : j # i => SameBuf(buf[j], buf'[j]),
           i \in Id => buf[i] = None /\ (buf'[i] # None => ~buf'[i].async),
           \A p \in Proc : Ids(async_todo'[p]) = Ids(async_todo[p]),
           \A p \in Proc : async_todo[p] = <<>> => async_todo'[p] = <<>>,
           has_async' = has_async
    PROVE  OneAsync'
<1>1. \A p \in Proc : AsyncOf(buf', async_todo', p) = AsyncOf(buf, async_todo, p)
    <2> SUFFICES ASSUME NEW p \in Proc, NEW j \in Id
                 PROVE  /\ buf'[j] # None /\ buf'[j].async /\ buf'[j].proc = p
                        <=> buf[j] # None /\ buf[j].async /\ buf[j].proc = p
        BY DEF AsyncOf
    <2>1. CASE j = i
        BY <2>1
    <2>2. CASE j # i
        BY <2>2 DEF SameBuf
    <2> QED
        BY <2>1, <2>2
<1> QED
    BY <1>1 DEF Inv, OneAsync

\* What is left to show of a thread that sends: S is the state before i is added.
LEMMA SendCore ==
    ASSUME Inv, NEW S, NEW x, NEW i, NEW t, NEW b, NEW tA, NEW pA, NEW aA,
           NewWork(S.tr, S.buf, x, i, t, b, tA, pA, aA),
           SInv(S, threads, Listed(todo, proc_todo, async_todo)), S.tr[i] = None, threads' = threads,
           Chains(tr', stack', threads, (Listed(todo, proc_todo, async_todo) \cup {i}) \cap Calls(tr')),
           stack' \in [Thread -> Id \cup {None}], err' = S.err, err2' = S.err2, pc' \in [Thread -> PC],
           \A y \in threads : err2'[y] # Ok =>
               err'[y] # Ok /\ (stack'[y] # None => tr'[stack'[y]].to_thread = y),
           \A y \in threads :
               /\ pc'[y] \in {"proc_wait", "proc_sleep"} => stack'[y] = None /\ err'[y] = Ok
               /\ pc'[y] = "thread_sleep" => err'[y] = Ok
    PROVE  Core'
<1> DEFINE P == Listed(todo, proc_todo, async_todo)
<1>1. /\ tr' \in [Id -> Transaction \cup {None}] /\ tr'[i] = t
      /\ buf' \in [Id -> Buffer \cup {None}] /\ buf'[i] = b
      /\ \A j \in Id : j # i => tr'[j] = S.tr[j] /\ buf'[j] = S.buf[j]
      /\ Listed(todo', proc_todo', async_todo') = P \cup {i}
    <2> DEFINE T == S.tr
               B == S.buf
    <2>1. NewWork(T, B, x, i, t, b, tA, pA, aA)
        OBVIOUS
    <2> HIDE DEF T, B
    <2>2. /\ tr' \in [Id -> Transaction \cup {None}] /\ tr'[i] = t
          /\ buf' \in [Id -> Buffer \cup {None}] /\ buf'[i] = b
          /\ \A j \in Id : j # i => tr'[j] = T[j] /\ buf'[j] = B[j]
          /\ Listed(todo', proc_todo', async_todo') = P \cup {i}
        BY <2>1, SendLists
    <2> QED
        BY <2>2 DEF T, B
<1>2. i \in Id /\ t \in Transaction /\ b \in Buffer /\ t.buffer /\ b.transaction /\ t # None /\ b # None
    BY Names DEF NewWork
<1> HIDE DEF P
<1>3. /\ S \in StateType /\ Linked(S) /\ P \subseteq {j \in Id : S.tr[j] # None}
      /\ \A j \in Id : S.tr[j] # None /\ j \notin P => j \in Calls(S.tr)
    BY DEF SInv, P
<1>4. \A j \in Id : (buf'[j] # None /\ buf'[j].transaction) <=> (tr'[j] # None /\ tr'[j].buffer)
    BY <1>1, <1>2, <1>3 DEF Linked
<1>5. \A j \in P \cup {i} : j \in Id /\ tr'[j] # None
    BY <1>1, <1>2, <1>3
<1>6. \A j \in Id : tr'[j] # None /\ j \notin P \cup {i} => j \in Calls(tr')
    BY <1>1, <1>3 DEF Calls
<1>7. threads' \subseteq Thread /\ err' \in [Thread -> Code] /\ err2' \in [Thread -> Code]
    BY <1>3, InvState, StateParts
<1> DEFINE PP == P \cup {i}
<1>8. /\ Listed(todo', proc_todo', async_todo') = PP /\ \A j \in PP : j \in Id /\ tr'[j] # None
      /\ \A j \in Id : tr'[j] # None /\ j \notin PP => j \in Calls(tr')
      /\ Chains(tr', stack', threads', PP \cap Calls(tr'))
    BY <1>1, <1>5, <1>6 DEF P
<1> HIDE DEF PP
<1> QED
    BY <1>1, <1>4, <1>7, <1>8, CoreNext

\* What a thread that may send finds in a free id.
LEMMA FreeIds ==
    ASSUME Inv, NEW i \in Free
    PROVE  /\ i \in Id /\ tr[i] = None /\ buf[i] = None /\ i \notin Calls(tr)
           /\ i \notin Listed(todo, proc_todo, async_todo)
           /\ \A j \in Listed(todo, proc_todo, async_todo) : SameWork(tr[j], tr[j])
<1> DEFINE P == Listed(todo, proc_todo, async_todo)
<1>1. i \in Id /\ tr[i] = None /\ buf[i] = None
    BY DEF Free
<1>2. \A j \in P : tr[j] # None
    <2> HIDE DEF P
    <2> QED
        BY ListedIs DEF P
<1> QED
    BY <1>1, <1>2 DEF Calls, SameWork

\* Nothing is left of who is gone after a send.
LEMMA GoneSend ==
    ASSUME Inv, NEW T, NEW B, NEW x, NEW i, NEW t, NEW b, NEW tA, NEW pA, NEW aA,
           NewWork(T, B, x, i, t, b, tA, pA, aA), tA \subseteq threads,
           \A p \in pA \cup aA : live[p],
           threads' = threads, live' = live,
           \A p \in Proc : ~live[p] => has_async'[p] = has_async[p],
           \A y \in Thread : y \notin threads =>
               /\ stack'[y] = stack[y] /\ err'[y] = err[y] /\ err2'[y] = err2[y] /\ pc'[y] = pc[y]
               /\ owed'[y] = owed[y]
    PROVE  Gone'
<1>1. \A y \in Thread : y \notin threads => todo'[y] = todo[y]
    BY DEF NewWork
<1>2. \A p \in Proc : ~live[p] => proc_todo'[p] = proc_todo[p] /\ async_todo'[p] = async_todo[p]
    BY DEF NewWork
<1> QED
    BY <1>1, <1>2 DEF Inv, Gone

\* A one-way call.
LEMMA StepCallOneWay ==
    ASSUME Inv, NEW x \in Thread, NEW p \in Proc, CallOneWay(x, p)
    PROVE  Inv'
<1>1. x \in threads /\ pc[x] = "user" /\ err[x] = Ok /\ p # ProcOf[x]
    BY DEF CallOneWay, MayWrite
<1>2. CASE Fail(x, Dead) \/ Fail(x, Failed)
    BY <1>1, <1>2, StepFail
<1>3. CASE ~(Fail(x, Dead) \/ Fail(x, Failed))
    <2> DEFINE t == [from |-> None, from_parent |-> None, to_thread |-> None, to_parent |-> None,
                     one_way |-> TRUE, reply |-> FALSE, buffer |-> TRUE]
               b == [proc |-> p, transaction |-> TRUE, async |-> TRUE, allow_user_free |-> FALSE]
               P == Listed(todo, proc_todo, async_todo)
               pA == IF has_async[p] THEN {} ELSE {p}
               aA == IF has_async[p] THEN {p} ELSE {}
    <2>1. PICK i \in Free :
            /\ live[p] /\ tr' = [tr EXCEPT ![i] = t] /\ buf' = [buf EXCEPT ![i] = b]
            /\ IF has_async[p]
               THEN /\ async_todo' = [async_todo EXCEPT ![p] = Append(@, i)]
                    /\ UNCHANGED <<proc_todo, has_async, pc>>
               ELSE /\ has_async' = [has_async EXCEPT ![p] = TRUE]
                    /\ proc_todo' = [proc_todo EXCEPT ![p] = Append(@, i)]
                    /\ pc' \in WakeProc(pc, p)
                    /\ UNCHANGED async_todo
            /\ todo' = [todo EXCEPT ![x] = Append(@, Complete)]
            /\ owed' = [owed EXCEPT ![x] = @ + 1]
            /\ UNCHANGED <<live, threads, stack, err, err2>>
        BY <1>3 DEF CallOneWay
    <2>2. /\ t \in Transaction /\ t.from = None /\ t.to_thread = None /\ t.one_way /\ ~t.reply /\ t.buffer
          /\ b \in Buffer /\ b.proc = p /\ b.transaction /\ b.async /\ ~b.allow_user_free
          /\ b.async = t.one_way
        BY DEF Transaction, Buffer
    <2> HIDE DEF t, b
    <2>3. /\ i \in Id /\ tr[i] = None /\ buf[i] = None /\ i \notin Calls(tr) /\ i \notin P
          /\ \A j \in P : SameWork(tr[j], tr[j])
        BY FreeIds
    <2>4. /\ DOMAIN todo = Thread /\ DOMAIN proc_todo = Proc /\ DOMAIN async_todo = Proc
          /\ has_async \in [Proc -> BOOLEAN] /\ owed \in [Thread -> Int] /\ live \in [Proc -> BOOLEAN]
        BY DEF Inv, Types
    <2>5. NewWork(tr, buf, x, i, t, b, {}, pA, aA)
        <3>1. tr \in [Id -> Transaction \cup {None}] /\ buf \in [Id -> Buffer \cup {None}]
            BY InvState
        <3>2. DOMAIN todo' = Thread /\ \A y \in Thread : todo'[y] = IF y = x THEN Append(todo[y], Complete) ELSE todo[y]
            BY <2>1, <2>4
        <3>3. /\ DOMAIN proc_todo' = Proc /\ DOMAIN async_todo' = Proc
              /\ \A q \in Proc : proc_todo'[q] = IF q \in pA THEN Append(proc_todo[q], i) ELSE proc_todo[q]
              /\ \A q \in Proc : async_todo'[q] = IF q \in aA THEN Append(async_todo[q], i) ELSE async_todo[q]
            BY <2>1, <2>4
        <3>4. /\ \A q, r \in pA : q = r
              /\ \A q, r \in aA : q = r
              /\ pA = {} \/ aA = {}
              /\ {} \cup pA \cup aA # {} /\ pA \subseteq {p} /\ aA \subseteq {p}
            OBVIOUS
        <3> HIDE DEF pA, aA
        <3> QED
            BY <1>1, <2>1, <2>2, <2>3, <3>1, <3>2, <3>3, <3>4 DEF NewWork, P
    <2>6. /\ pA \subseteq {p} /\ aA \subseteq {p}
        OBVIOUS
    <2> HIDE DEF P
    <2>7. /\ tr' \in [Id -> Transaction \cup {None}] /\ tr'[i] = t
          /\ buf' \in [Id -> Buffer \cup {None}] /\ buf'[i] = b
          /\ \A j \in Id : j # i => tr'[j] = tr[j] /\ buf'[j] = buf[j]
          /\ \A y \in Thread : Works(todo'[y])
          /\ \A q \in Proc : /\ Works(proc_todo'[q]) /\ Works(async_todo'[q])
                             /\ Complete \notin ToSet(proc_todo'[q]) /\ Complete \notin ToSet(async_todo'[q])
          /\ \A q \in Proc : Ids(async_todo'[q]) = Ids(async_todo[q]) \cup (IF q \in aA THEN {i} ELSE {})
          /\ \A y \in Thread : Count(tr', todo'[y]) =
                Count(tr, todo[y]) + (IF y = x \/ (y \in {} /\ t.reply) THEN 1 ELSE 0)
          /\ Apart' /\ Placed'
        <3> HIDE DEF pA, aA
        <3> QED
            BY <2>5, SendLists
    <2>8. Types'
        <3>1. has_async' \in [Proc -> BOOLEAN] /\ owed' \in [Thread -> Int] /\ live' \in [Proc -> BOOLEAN]
            <4>1. has_async' = has_async \/ has_async' = [has_async EXCEPT ![p] = TRUE]
                BY <2>1
            <4>2. has_async' \in [Proc -> BOOLEAN]
                BY <2>4, <4>1
            <4>3. owed' \in [Thread -> Int]
                BY <2>1, <2>4
            <4> QED
                BY <2>1, <2>4, <4>2, <4>3
        <3>2. DOMAIN todo' = Thread /\ DOMAIN proc_todo' = Proc /\ DOMAIN async_todo' = Proc
            BY <2>1, <2>4
        <3> QED
            BY <2>7, <3>1, <3>2 DEF Types
    <2>9. /\ Calls(tr') = Calls(tr) /\ \A j \in Calls(tr) : SameCall(tr, tr', j)
        BY <2>2, <2>3, <2>7 DEF Calls, SameCall
    <2>10. /\ pc' \in [Thread -> PC]
           /\ \A y \in Thread : pc'[y] = pc[y] \/ (pc[y] = "proc_sleep" /\ pc'[y] = "proc_wait" /\ y \in threads)
           /\ \A q \in Proc : \/ proc_todo'[q] = proc_todo[q]
                              \/ \A y \in threads : ProcOf[y] = q /\ pc[y] = "proc_sleep" =>
                                   \E z \in threads : ProcOf[z] = q /\ pc'[z] = "proc_wait"
        <3>1. pc \in [Thread -> PC] /\ threads \subseteq Thread
            BY InvState
        <3>2. CASE has_async[p]
            BY <2>1, <3>1, <3>2
        <3>3. CASE ~has_async[p]
            <4>1. pc' \in WakeProc(pc, p)
                BY <2>1, <3>3
            <4>2. /\ Woken(pc, pc', p)
                  /\ \A y \in threads : ProcOf[y] = p /\ pc[y] = "proc_sleep" =>
                       \E z \in threads : ProcOf[z] = p /\ pc'[z] = "proc_wait"
                BY <3>1, <4>1, WakeProcIs
            <4>3. \A q \in Proc : q # p => proc_todo'[q] = proc_todo[q]
                BY <2>1, <2>4, <3>3
            <4> QED
                BY <4>2, <4>3 DEF Woken
        <3> QED
            BY <3>2, <3>3
    <2>11. Awake'
        <3>1. \A y \in threads : todo'[y] = todo[y] \/ pc'[y] \in {"user", "thread_wait"}
            BY <1>1, <2>1, <2>4, <2>10, InvState
        <3> QED
            BY <2>1, <2>10, <3>1, AwakeNext
    <2>12. Core'
        <3> DEFINE S == State
        <3>1. /\ SInv(S, threads, P) /\ S.tr = tr /\ S.buf = buf /\ S.stack = stack /\ S.err = err /\ S.err2 = err2
            BY InvState DEF P
        <3>2. Chains(tr, stack, threads, P \cap Calls(tr))
            BY <3>1 DEF SInv
        <3> DEFINE Q == P \cap Calls(tr)
        <3>3. Chains(tr', stack, threads, Q)
            <4> HIDE DEF Q
            <4> QED
                BY <2>9, <3>2, ChainsSame DEF Q
        <3>4. (P \cup {i}) \cap Calls(tr') = Q
            BY <2>3, <2>9
        <3>5. \A y \in threads : err2'[y] # Ok => err'[y] # Ok /\ (stack'[y] # None => tr'[stack'[y]].to_thread = y)
            <4> SUFFICES ASSUME NEW y \in threads, err2[y] # Ok
                         PROVE  err[y] # Ok /\ (stack[y] # None => tr'[stack[y]].to_thread = y)
                BY <2>1
            <4>1. err[y] # Ok /\ (stack[y] # None => tr[stack[y]].to_thread = y)
                BY InvThread, InvState
            <4>2. stack[y] # None => stack[y] \in Calls(tr)
                BY <3>2, ChainsParts DEF Chains, Tops, Rel
            <4> QED
                BY <2>9, <4>1, <4>2 DEF SameCall
        <3>6. \A y \in threads :
               /\ pc'[y] \in {"proc_wait", "proc_sleep"} => stack'[y] = None /\ err'[y] = Ok
               /\ pc'[y] = "thread_sleep" => err'[y] = Ok
            BY <2>1, <2>10, InvThread, InvState
        <3>7. stack' \in [Thread -> Id \cup {None}]
            BY <2>1, InvState
        <3>8. NewWork(S.tr, S.buf, x, i, t, b, {}, pA, aA)
            BY <2>5, <3>1
        <3>9. Chains(tr', stack', threads, (P \cup {i}) \cap Calls(tr'))
            BY <2>1, <3>3, <3>4
        <3>10. S.tr[i] = None /\ threads' = threads /\ err' = S.err /\ err2' = S.err2
            BY <2>1, <2>3, <3>1
        <3> HIDE DEF S, pA, aA
        <3> QED
            BY <2>10, <3>1, <3>5, <3>6, <3>7, <3>8, <3>9, <3>10, SendCore DEF P
    <2>13. Gone'
        <3>1. \A q \in Proc : ~live[q] => has_async'[q] = has_async[q]
            BY <2>1, <2>4
        <3>2. \A y \in Thread : y \notin threads =>
               /\ stack'[y] = stack[y] /\ err'[y] = err[y] /\ err2'[y] = err2[y] /\ pc'[y] = pc[y]
               /\ owed'[y] = owed[y]
            BY <1>1, <2>1, <2>4, <2>10
        <3>3. \A q \in pA \cup aA : live[q]
            BY <2>1
        <3>4. {} \subseteq threads /\ threads' = threads /\ live' = live
            BY <2>1
        <3> HIDE DEF pA, aA
        <3> QED
            BY <2>5, <3>1, <3>2, <3>3, <3>4, GoneSend
    <2>14. OneAsync'
        <3> SUFFICES ASSUME NEW q \in Proc
                     PROVE  IF has_async'[q] THEN \E j : AsyncOf(buf', async_todo', q) = {j}
                            ELSE AsyncOf(buf', async_todo', q) = {} /\ async_todo'[q] = <<>>
            BY DEF OneAsync
        <3>1. IF has_async[q] THEN \E j : AsyncOf(buf, async_todo, q) = {j}
              ELSE AsyncOf(buf, async_todo, q) = {} /\ async_todo[q] = <<>>
            BY DEF Inv, OneAsync
        <3>2. CASE q # p \/ has_async[p]
            <4>1. has_async'[q] = has_async[q] /\ (q # p => async_todo'[q] = async_todo[q])
                BY <2>1, <2>4, <3>2
            <4>2. Ids(async_todo'[q]) = Ids(async_todo[q]) \cup (IF q = p THEN {i} ELSE {})
                BY <2>7, <3>2
            <4>3. \A j \in Id : j \in AsyncOf(buf', async_todo', q) <=> j \in AsyncOf(buf, async_todo, q)
                BY <2>2, <2>3, <2>7, <4>2 DEF AsyncOf
            <4>4. AsyncOf(buf', async_todo', q) = AsyncOf(buf, async_todo, q)
                BY <4>3 DEF AsyncOf
            <4> QED
                BY <3>1, <3>2, <4>1, <4>4
        <3>3. CASE q = p /\ ~has_async[p]
            <4>1. has_async'[q] /\ Ids(async_todo'[q]) = {}
                BY <2>1, <2>4, <3>1, <3>3, WorksEmpty
            <4>2. AsyncOf(buf, async_todo, q) = {} /\ Ids(async_todo[q]) = {}
                BY <3>1, <3>3, WorksEmpty
            <4>3. \A j \in Id : j \in AsyncOf(buf', async_todo', q) <=> j = i
                BY <2>2, <2>7, <2>3, <3>3, <4>1, <4>2, Names DEF AsyncOf
            <4>4. AsyncOf(buf', async_todo', q) = {i}
                BY <2>3, <4>3 DEF AsyncOf
            <4> QED
                BY <4>1, <4>4
        <3> QED
            BY <3>2, <3>3
    <2>15. Balance'
        <3> SUFFICES ASSUME NEW y \in threads PROVE owed'[y] = Owes(tr', err', err2', todo', y)
            BY <2>1, BalanceIs
        <3>1. /\ y \in Thread /\ owed[y] = Owes(tr, err, err2, todo, y)
              /\ owed'[y] = owed[y] + (IF y = x THEN 1 ELSE 0)
            BY <2>1, <2>4, InvThread, InvState
        <3>2. Cardinality(From(tr', y)) = Cardinality(From(tr, y)) /\ Cardinality(From(tr, y)) \in Nat
            <4>1. From(tr', y) = From(tr, y)
                BY <2>9 DEF From, SameCall
            <4> QED
                BY <4>1, FromFinite
        <3>3. Count(tr', todo'[y]) = Count(tr, todo[y]) + (IF y = x THEN 1 ELSE 0) /\ Count(tr, todo[y]) \in Nat
            BY <2>7, <3>1, InvThread
        <3>4. err'[y] = err[y] /\ err2'[y] = err2[y]
            BY <2>1
        <3> QED
            BY <3>1, <3>2, <3>3, <3>4 DEF Owes
    <2> QED
        BY <2>7, <2>8, <2>11, <2>12, <2>13, <2>14, <2>15 DEF Inv
<1> QED
    BY <1>2, <1>3

\* A bounded set of numbers has a greatest.
LEMMA Greatest ==
    ASSUME NEW n \in Nat, NEW K, K \subseteq 0 .. n, K # {}
    PROVE  Max(K) \in K
<1> DEFINE J == {n - k : k \in K}
<1>1. \A k \in K : k \in Nat /\ k <= n
    OBVIOUS
<1>2. J \subseteq Nat /\ J # {}
    <2>1. \A k \in K : n - k \in Nat
        BY <1>1
    <2> QED
        BY <2>1
<1>3. PICK j \in J : \A l \in J : j <= l
    <2> HIDE DEF J
    <2> QED
        BY <1>2, Least
<1>4. PICK m \in K : j = n - m
    BY <1>3
<1>5. \A k \in K : m >= k
    BY <1>1, <1>3, <1>4
<1> QED
    BY <1>5 DEF Max

\* The thread that a call goes to, if it goes to one, has sent a call of the chain.
LEMMA TargetIs ==
    ASSUME Inv, NEW x \in threads, NEW p, NEW y, y = TargetThread(x, p), y # None,
           stack[x] # None => tr[stack[x]].to_thread = x
    PROVE  /\ y \in threads /\ ProcOf[y] = p /\ stack[x] # None /\ stack[y] # None
           /\ \A Q, d, r : ChainsBy(tr, stack, threads, Q, d, r) =>
                \E j \in Calls(tr) : r[j] = r[stack[x]] /\ tr[j].from = y
<1> DEFINE C == FromChain(tr, stack[x])
           K == {k \in DOMAIN C : C[k] # None /\ tr[C[k]].from # None /\ ProcOf[tr[C[k]].from] = p}
           m == Max(K)
           P == Listed(todo, proc_todo, async_todo) \cap Calls(tr)
<1>1. stack[x] # None /\ K # {} /\ y = tr[C[m]].from
    BY Zenon DEF TargetThread
<1>2. ChainFn(tr, stack[x], C) /\ DOMAIN C = 0 .. N
    BY FromChainIs
<1> HIDE DEF C
<1>3. m \in K
    <2>1. K \subseteq 0 .. N /\ N \in Nat
        BY <1>2, NType
    <2> HIDE DEF K
    <2> QED
        BY <1>1, <2>1, Greatest
<1>4. C[m] # None /\ y # None /\ ProcOf[y] = p /\ m \in 0 .. N
    BY <1>1, <1>2, <1>3, Zenon
<1> HIDE DEF K, m
<1>5. ASSUME NEW Q, NEW d, NEW r, ChainsBy(tr, stack, threads, Q, d, r)
      PROVE  /\ C[m] \in Calls(tr) /\ r[C[m]] = r[stack[x]]
             /\ y \in threads /\ stack[y] # None
    <2>1. stack[x] \in Calls(tr)
        BY <1>1, <1>5, ChainsParts DEF Tops, Rel
    <2>2. \A k \in 0 .. N : C[k] # None => C[k] \in Calls(tr) /\ r[C[k]] = r[stack[x]]
        <3> DEFINE top == stack[x]
        <3>1. top \in Calls(tr) /\ ChainFn(tr, top, C)
            BY <1>2, <2>1
        <3> HIDE DEF top
        <3>2. \A k \in 0 .. N : C[k] # None => C[k] \in Calls(tr) /\ r[C[k]] = r[top]
            BY <1>5, <3>1, ChainEnds
        <3> QED
            BY <3>2 DEF top
    <2>3. C[m] \in Calls(tr) /\ r[C[m]] = r[stack[x]]
        BY <1>4, <2>2
    <2>4. y \in threads
        BY <1>1, <1>5, <2>3, ChainsParts DEF Senders
    <2>5. C[m] \in Rel(tr, Q, y)
        BY <1>1, <2>3 DEF Rel
    <2> QED
        BY <1>5, <2>3, <2>4, <2>5, ChainsParts DEF Tops
<1>6. SInv(State, threads, Listed(todo, proc_todo, async_todo)) /\ State.tr = tr /\ State.stack = stack
    BY InvState
<1>7. Chains(tr, stack, threads, P)
    BY <1>6 DEF SInv
<1>8. y \in threads /\ stack[y] # None
    <2> HIDE DEF P
    <2> QED
        BY <1>5, <1>7 DEF Chains
<1> QED
    BY <1>1, <1>4, <1>5, <1>8

\* A call with a reply.
LEMMA StepCall ==
    ASSUME Inv, NEW x \in Thread, NEW p \in Proc, Call(x, p)
    PROVE  Inv'
<1>1. x \in threads /\ pc[x] = "user" /\ err[x] = Ok /\ p # ProcOf[x]
    BY DEF Call, MayWrite
<1>2. CASE Fail(x, Dead) \/ Fail(x, Failed)
    BY <1>1, <1>2, StepFail
<1>3. CASE ~(Fail(x, Dead) \/ Fail(x, Failed))
    <2> DEFINE target == TargetThread(x, p)
               t == [from |-> x, from_parent |-> stack[x], to_thread |-> target, to_parent |-> None,
                     one_way |-> FALSE, reply |-> FALSE, buffer |-> TRUE]
               b == [proc |-> p, transaction |-> TRUE, async |-> FALSE, allow_user_free |-> FALSE]
               P == Listed(todo, proc_todo, async_todo)
               tA == IF target # None THEN {target} ELSE {}
               pA == IF target # None THEN {} ELSE {p}
    <2>1. PICK i \in Free :
            /\ live[p] /\ ~BadStack(x) /\ tr' = [tr EXCEPT ![i] = t] /\ buf' = [buf EXCEPT ![i] = b]
            /\ stack' = [stack EXCEPT ![x] = i]
            /\ IF target # None
               THEN /\ todo' = [todo EXCEPT ![target] = Append(@, i), ![x] = Append(@, Complete)]
                    /\ pc' = WakeThread(pc, target)
                    /\ UNCHANGED proc_todo
               ELSE /\ todo' = [todo EXCEPT ![x] = Append(@, Complete)]
                    /\ proc_todo' = [proc_todo EXCEPT ![p] = Append(@, i)]
                    /\ pc' \in WakeProc(pc, p)
            /\ owed' = [owed EXCEPT ![x] = @ + 2]
            /\ UNCHANGED <<live, threads, async_todo, has_async, err, err2>>
        BY <1>3 DEF Call
    <2>2. stack[x] # None => tr[stack[x]].to_thread = x
        BY <2>1 DEF BadStack
    <2>3. target # None =>
            /\ target \in threads /\ target \in Thread /\ target # x /\ ProcOf[target] = p
            /\ stack[x] # None /\ stack[target] # None
            /\ \A Q, d, r : ChainsBy(tr, stack, threads, Q, d, r) =>
                 \E j \in Calls(tr) : r[j] = r[stack[x]] /\ tr[j].from = target
        <3> HIDE DEF target
        <3> QED
            BY <1>1, <2>2, TargetIs, InvState DEF target
    <2> HIDE DEF target
    <2>4. /\ t \in Transaction /\ t.from = x /\ t.from_parent = stack[x] /\ t.to_thread = target
          /\ ~t.one_way /\ ~t.reply /\ t.buffer
          /\ b \in Buffer /\ b.proc = p /\ b.transaction /\ ~b.async /\ ~b.allow_user_free
          /\ b.async = t.one_way
        <3>1. stack[x] \in Id \cup {None} /\ target \in Thread \cup {None}
            BY <2>3, InvState
        <3> QED
            BY <3>1 DEF Transaction, Buffer
    <2> HIDE DEF t, b
    <2>5. /\ i \in Id /\ tr[i] = None /\ buf[i] = None /\ i \notin Calls(tr) /\ i \notin P
          /\ \A j \in P : SameWork(tr[j], tr[j])
        BY FreeIds
    <2>6. /\ DOMAIN todo = Thread /\ DOMAIN proc_todo = Proc /\ DOMAIN async_todo = Proc
          /\ has_async \in [Proc -> BOOLEAN] /\ owed \in [Thread -> Int] /\ live \in [Proc -> BOOLEAN]
        BY DEF Inv, Types
    <2>7. /\ DOMAIN todo' = Thread /\ DOMAIN proc_todo' = Proc /\ DOMAIN async_todo' = Proc
          /\ \A y \in Thread : todo'[y] = IF y \in tA THEN Append(todo[y], i)
                                          ELSE IF y = x THEN Append(todo[y], Complete) ELSE todo[y]
          /\ \A q \in Proc : proc_todo'[q] = IF q \in pA THEN Append(proc_todo[q], i) ELSE proc_todo[q]
        <3>1. CASE target # None
            <4>1. /\ todo' = [todo EXCEPT ![target] = Append(@, i), ![x] = Append(@, Complete)]
                  /\ proc_todo' = proc_todo /\ async_todo' = async_todo
                BY <2>1, <3>1
            <4> QED
                BY <2>3, <2>6, <3>1, <4>1
        <3>2. CASE target = None
            <4>1. /\ todo' = [todo EXCEPT ![x] = Append(@, Complete)]
                  /\ proc_todo' = [proc_todo EXCEPT ![p] = Append(@, i)] /\ async_todo' = async_todo
                BY <2>1, <3>2
            <4> QED
                BY <2>6, <3>2, <4>1
        <3> QED
            BY <3>1, <3>2
    <2>8. NewWork(tr, buf, x, i, t, b, tA, pA, {})
        <3>1. tr \in [Id -> Transaction \cup {None}] /\ buf \in [Id -> Buffer \cup {None}]
            BY InvState
        <3>2. \A q \in Proc : async_todo'[q] = IF q \in {} THEN Append(async_todo[q], i) ELSE async_todo[q]
            BY <2>1
        <3>3. /\ \A y, z \in tA : y = z
              /\ \A q, r \in pA : q = r
              /\ tA = {} \/ pA = {}
              /\ tA \cup pA \cup {} # {} /\ x \notin tA /\ tA \subseteq Thread /\ pA \subseteq Proc
            BY <2>3
        <3>4. \A y \in tA : b.proc = ProcOf[y] /\ ~t.one_way /\ t.to_thread = y
            BY <2>3, <2>4
        <3>5. \A q \in pA : b.proc = q /\ ~t.reply /\ t.to_thread = None
            BY <2>4
        <3> HIDE DEF tA, pA
        <3> QED
            BY <1>1, <2>1, <2>4, <2>5, <2>7, <3>1, <3>2, <3>3, <3>4, <3>5 DEF NewWork, P
    <2> HIDE DEF P
    <2>9. /\ tr' \in [Id -> Transaction \cup {None}] /\ tr'[i] = t
          /\ buf' \in [Id -> Buffer \cup {None}] /\ buf'[i] = b
          /\ \A j \in Id : j # i => tr'[j] = tr[j] /\ buf'[j] = buf[j]
          /\ \A y \in Thread : Works(todo'[y])
          /\ \A q \in Proc : /\ Works(proc_todo'[q]) /\ Works(async_todo'[q])
                             /\ Complete \notin ToSet(proc_todo'[q]) /\ Complete \notin ToSet(async_todo'[q])
          /\ \A y \in Thread : Count(tr', todo'[y]) =
                Count(tr, todo[y]) + (IF y = x \/ (y \in tA /\ t.reply) THEN 1 ELSE 0)
          /\ Apart' /\ Placed'
        <3> HIDE DEF tA, pA
        <3> QED
            BY <2>8, SendLists
    <2>10. Types'
        <3>1. has_async' \in [Proc -> BOOLEAN] /\ owed' \in [Thread -> Int] /\ live' \in [Proc -> BOOLEAN]
            BY <2>1, <2>6
        <3> QED
            BY <2>7, <2>9, <3>1 DEF Types
    <2>11. /\ stack' \in [Thread -> Id \cup {None}] /\ stack'[x] = i
           /\ \A y \in Thread : y # x => stack'[y] = stack[y]
        BY <2>1, <2>5, InvState
    <2>12. /\ Calls(tr') = Calls(tr) \cup {i} /\ \A j \in Calls(tr) : SameCall(tr, tr', j)
        BY <2>4, <2>5, <2>9, Names DEF Calls, SameCall
    <2>13. /\ pc' \in [Thread -> PC] /\ pc'[x] = "user"
           /\ \A y \in Thread : \/ pc'[y] = pc[y]
                                \/ pc[y] = "thread_sleep" /\ pc'[y] = "thread_wait" /\ y \in threads
                                \/ pc[y] = "proc_sleep" /\ pc'[y] = "proc_wait" /\ y \in threads
           /\ \A y \in tA : pc'[y] \in {"user", "thread_wait"}
           /\ \A q \in Proc : \/ proc_todo'[q] = proc_todo[q]
                              \/ \A y \in threads : ProcOf[y] = q /\ pc[y] = "proc_sleep" =>
                                   \E z \in threads : ProcOf[z] = q /\ pc'[z] = "proc_wait"
        <3>1. pc \in [Thread -> PC] /\ threads \subseteq Thread
            BY InvState
        <3>2. CASE target # None
            <4>1. pc' = WakeThread(pc, target) /\ proc_todo' = proc_todo
                BY <2>1, <3>2
            <4>2. /\ WakeThread(pc, target) \in [Thread -> PC]
                  /\ \A y \in Thread : y # target => WakeThread(pc, target)[y] = pc[y]
                  /\ WakeThread(pc, target)[target] = IF pc[target] = "thread_sleep" THEN "thread_wait" ELSE pc[target]
                BY <2>3, <3>1, <3>2, WakeIs DEF PC
            <4>3. pc[target] \in {"user", "thread_wait", "thread_sleep"}
                <5>1. pc[target] \in PC /\ pc[target] \notin {"proc_wait", "proc_sleep"}
                    BY <2>3, <3>1, <3>2, InvThread
                <5> QED
                    BY <5>1 DEF PC, Waiting
            <4>4. \A y \in tA : y = target
                OBVIOUS
            <4> QED
                BY <1>1, <2>3, <3>2, <4>1, <4>2, <4>3, <4>4
        <3>3. CASE target = None
            <4>1. pc' \in WakeProc(pc, p) /\ \A q \in Proc : q # p => proc_todo'[q] = proc_todo[q]
                BY <2>1, <2>6, <3>3
            <4>2. /\ Woken(pc, pc', p)
                  /\ \A y \in threads : ProcOf[y] = p /\ pc[y] = "proc_sleep" =>
                       \E z \in threads : ProcOf[z] = p /\ pc'[z] = "proc_wait"
                BY <3>1, <4>1, WakeProcIs
            <4>3. tA = {}
                BY <3>3
            <4> QED
                BY <1>1, <4>1, <4>2, <4>3 DEF Woken
        <3> QED
            BY <3>2, <3>3
    <2>14. Awake'
        <3>1. \A y \in threads : todo'[y] = todo[y] \/ pc'[y] \in {"user", "thread_wait"}
            BY <2>7, <2>13, InvState
        <3>2. \A y \in Thread : \/ pc'[y] = pc[y]
                                \/ pc[y] = "thread_sleep" /\ pc'[y] = "thread_wait"
                                \/ pc[y] = "proc_sleep" /\ pc'[y] = "proc_wait"
            BY <2>13
        <3> QED
            BY <2>1, <2>13, <3>1, <3>2, AwakeNext
    <2>15. Core'
        <3> DEFINE S == State
                   Q == P \cap Calls(tr)
        <3>1. /\ SInv(S, threads, P) /\ S.tr = tr /\ S.buf = buf /\ S.stack = stack /\ S.err = err /\ S.err2 = err2
            BY InvState DEF P
        <3>2. Chains(tr, stack, threads, Q)
            BY <3>1 DEF SInv
        <3>3. (P \cup {i}) \cap Calls(tr') = Q \cup {i}
            BY <2>5, <2>12
        <3> HIDE DEF Q
        <3>4. CallStep(tr, tr', stack, stack', threads, Q, x, i)
            <4>1. \A y \in threads : y # x => stack'[y] = stack[y]
                BY <2>11, InvState
            <4>2. target \in threads =>
                   /\ stack[x] # None
                   /\ \A d, r : ChainsBy(tr, stack, threads, Q, d, r) =>
                        \E j \in Calls(tr) : r[j] = r[stack[x]] /\ tr[j].from = target
                <5>1. target \in threads => target # None
                    BY InvState, Names
                <5> QED
                    BY <2>3, <5>1
            <4>3. target # x
                BY <1>1, <2>3, Names
            <4> QED
                BY <1>1, <2>2, <2>4, <2>5, <2>9, <2>11, <2>12, <3>2, <4>1, <4>2, <4>3, Names DEF CallStep
        <3>5. Chains(tr', stack', threads, Q \cup {i})
            BY <3>4, ChainsCall
        <3>6. \A y \in threads : err2'[y] # Ok => err'[y] # Ok /\ (stack'[y] # None => tr'[stack'[y]].to_thread = y)
            <4> SUFFICES ASSUME NEW y \in threads, err2[y] # Ok
                         PROVE  err[y] # Ok /\ (stack'[y] # None => tr'[stack'[y]].to_thread = y)
                BY <2>1
            <4>1. err[y] # Ok /\ (stack[y] # None => tr[stack[y]].to_thread = y)
                BY InvThread, InvState
            <4>2. stack[y] # None => stack[y] \in Calls(tr)
                BY <3>2, ChainsParts DEF Chains, Tops, Rel
            <4>3. y # x /\ stack'[y] = stack[y]
                BY <1>1, <2>11, <4>1, InvState
            <4> QED
                BY <2>12, <4>1, <4>2, <4>3 DEF SameCall
        <3>7. \A y \in threads :
               /\ pc'[y] \in {"proc_wait", "proc_sleep"} => stack'[y] = None /\ err'[y] = Ok
               /\ pc'[y] = "thread_sleep" => err'[y] = Ok
            <4> SUFFICES ASSUME NEW y \in threads, pc'[y] \in {"proc_wait", "proc_sleep", "thread_sleep"}
                         PROVE  /\ pc'[y] \in {"proc_wait", "proc_sleep"} => stack'[y] = None /\ err[y] = Ok
                                /\ pc'[y] = "thread_sleep" => err[y] = Ok
                BY <2>1
            <4>1. y # x /\ y \in Thread
                BY <2>13, InvState
            <4>2. stack'[y] = stack[y]
                BY <2>11, <4>1
            <4> QED
                BY <2>13, <4>1, <4>2, InvThread
        <3>8. NewWork(S.tr, S.buf, x, i, t, b, tA, pA, {})
            BY <2>8, <3>1
        <3>9. Chains(tr', stack', threads, (P \cup {i}) \cap Calls(tr'))
            BY <3>3, <3>5
        <3>10. S.tr[i] = None /\ threads' = threads /\ err' = S.err /\ err2' = S.err2
            BY <2>1, <2>5, <3>1
        <3> HIDE DEF S, tA, pA
        <3> QED
            BY <2>11, <2>13, <3>1, <3>6, <3>7, <3>8, <3>9, <3>10, SendCore DEF P
    <2>16. Gone'
        <3>1. \A q \in Proc : ~live[q] => has_async'[q] = has_async[q]
            BY <2>1
        <3>2. \A y \in Thread : y \notin threads =>
               /\ stack'[y] = stack[y] /\ err'[y] = err[y] /\ err2'[y] = err2[y] /\ pc'[y] = pc[y]
               /\ owed'[y] = owed[y]
            BY <1>1, <2>1, <2>6, <2>11, <2>13
        <3>3. \A q \in pA \cup {} : live[q]
            BY <2>1
        <3>4. tA \subseteq threads /\ threads' = threads /\ live' = live
            BY <2>1, <2>3
        <3> HIDE DEF pA, tA
        <3> QED
            BY <2>8, <3>1, <3>2, <3>3, <3>4, GoneSend
    <2>17. OneAsync'
        <3>1. \A j \in Id : j # i => SameBuf(buf[j], buf'[j])
            BY <2>9 DEF SameBuf
        <3>2. async_todo' = async_todo /\ has_async' = has_async
            BY <2>1
        <3> QED
            BY <2>4, <2>5, <2>9, <3>1, <3>2, AsyncSame
    <2>18. Balance'
        <3> SUFFICES ASSUME NEW y \in threads PROVE owed'[y] = Owes(tr', err', err2', todo', y)
            BY <2>1, BalanceIs
        <3>1. /\ y \in Thread /\ owed[y] = Owes(tr, err, err2, todo, y)
              /\ owed'[y] = owed[y] + (IF y = x THEN 2 ELSE 0)
            BY <2>1, <2>6, InvThread, InvState
        <3>2. /\ Cardinality(From(tr', y)) = Cardinality(From(tr, y)) + (IF y = x THEN 1 ELSE 0)
              /\ Cardinality(From(tr, y)) \in Nat
            <4>1. From(tr', y) = IF y = x THEN From(tr, y) \cup {i} ELSE From(tr, y)
                BY <2>4, <2>9, <2>12 DEF From, SameCall
            <4>2. i \notin From(tr, y)
                BY <2>5 DEF From
            <4>3. Cardinality(From(tr, y) \cup {i}) = Cardinality(From(tr, y)) + 1
                BY <4>2, FromFinite, FS_AddElement
            <4> QED
                BY <4>1, <4>3, FromFinite
        <3>3. Count(tr', todo'[y]) = Count(tr, todo[y]) + (IF y = x THEN 1 ELSE 0) /\ Count(tr, todo[y]) \in Nat
            <4>1. Count(tr', todo'[y]) = Count(tr, todo[y]) + (IF y = x \/ (y \in tA /\ t.reply) THEN 1 ELSE 0)
                BY <2>9, <3>1
            <4>2. Count(tr, todo[y]) \in Nat
                BY <3>1, InvThread
            <4> QED
                BY <2>4, <4>1, <4>2
        <3>4. err'[y] = err[y] /\ err2'[y] = err2[y]
            BY <2>1
        <3> QED
            BY <3>1, <3>2, <3>3, <3>4 DEF Owes
    <2> QED
        BY <2>9, <2>10, <2>14, <2>15, <2>16, <2>17, <2>18 DEF Inv
<1> QED
    BY <1>2, <1>3

-----------------------------------------------------------------------------
\* The work w, an acknowledgement or a transaction, has been returned to thread x.
Delivered(R, x, w, P) ==
    /\ R \in StateType /\ R.err = err /\ R.err2 = err2 /\ R.pc = pc
    /\ \A y \in Thread : y # x => R.stack[y] = stack[y]
    /\ \A j \in P : j # w => R.tr[j] = tr[j] /\ R.buf[j] = buf[j]
    /\ \A j \in Id : /\ R.buf[j] = None <=> buf[j] = None
                     /\ buf[j] # None => R.buf[j].proc = buf[j].proc /\ R.buf[j].async = buf[j].async
    /\ \A j \in Id : R.tr[j] # None /\ j \notin P \ {w} => j \in Calls(R.tr)
    /\ Chains(R.tr, R.stack, threads, (P \ {w}) \cap Calls(R.tr))
    /\ Linked(R) /\ Errors(R, threads)
    /\ \A y : From(R.tr, y) = From(tr, y)

\* The receiver of buffer w may free it.
UserFree(B, w) == [B EXCEPT ![w].allow_user_free = TRUE]

\* The buffer i may be freed by its process.
LEMMA UserFreeIs ==
    ASSUME NEW B \in [Id -> Buffer \cup {None}], NEW w \in Id, B[w] # None
    PROVE  /\ UserFree(B, w) \in [Id -> Buffer \cup {None}]
           /\ \A j \in Id : j # w => UserFree(B, w)[j] = B[j]
           /\ UserFree(B, w)[w] # None /\ UserFree(B, w)[w].proc = B[w].proc
           /\ UserFree(B, w)[w].async = B[w].async /\ UserFree(B, w)[w].transaction = B[w].transaction
<1>1. B[w] \in Buffer
    OBVIOUS
<1> DEFINE c == [B[w] EXCEPT !.allow_user_free = TRUE]
<1>2. c \in Buffer /\ c.proc = B[w].proc /\ c.async = B[w].async /\ c.transaction = B[w].transaction
    BY <1>1 DEF Buffer
<1>3. UserFree(B, w) = [B EXCEPT ![w] = c]
    BY DEF UserFree
<1> HIDE DEF c
<1>4. /\ UserFree(B, w) \in [Id -> Buffer \cup {None}] /\ UserFree(B, w)[w] = c
      /\ \A j \in Id : j # w => UserFree(B, w)[j] = B[j]
    BY <1>1, <1>2, <1>3
<1> QED
    BY <1>2, <1>4, Names

\* What Deliver does.
LEMMA DeliverIs ==
    ASSUME Inv, NEW x \in threads, NEW P, P = Listed(todo, proc_todo, async_todo),
           NEW w, w = Complete \/ (w \in P /\ Fit(tr, buf, w, ProcOf[x])
                                   /\ (~tr[w].one_way => tr[w].to_thread = x \/ stack[x] = None)),
           NEW R, R = Deliver(x, w)
    PROVE  Delivered(R, x, w, P)
<1>0. /\ SInv(State, threads, P) /\ State.tr = tr /\ State.buf = buf /\ State.stack = stack
      /\ State.err = err /\ State.err2 = err2 /\ State.pc = pc /\ State \in StateType
      /\ x \in Thread /\ threads \subseteq Thread
    BY InvState
<1>1. CASE w = Complete
    <2>1. R = State /\ P \ {w} = P
        BY <1>0, <1>1, Names DEF Deliver, SInv
    <2> QED
        BY <1>0, <2>1 DEF Delivered, SInv
<1>2. CASE w # Complete /\ (tr[w].reply \/ tr[w].one_way)
    <2> DEFINE F == FreeTransactions(State, {w})
               B == UserFree(F.buf, w)
    <2>1. w \in P /\ w \in Id /\ w \notin Calls(State.tr) /\ buf[w] # None
        BY <1>0, <1>2 DEF Calls, Fit, SInv
    <2>2. /\ SInv(F, threads, P \ {w}) /\ Frame(State, F, threads, P \ {w}) /\ Still(State, F, Thread)
        <3> DEFINE S == State
        <3>1. SInv(S, threads, P) /\ w \notin Calls(S.tr) /\ F = FreeTransactions(S, {w})
            BY <1>0, <2>1
        <3> HIDE DEF S, F
        <3>2. /\ SInv(F, threads, P \ {w}) /\ Frame(S, F, threads, P \ {w}) /\ Still(S, F, Thread)
            BY <2>1, <3>1, FreeWork
        <3> QED
            BY <3>2 DEF S
    <2>3. /\ F \in StateType
          /\ F.tr = [i \in Id |-> IF i \in {w} THEN None ELSE tr[i]]
          /\ F.stack = stack /\ F.err = err /\ F.err2 = err2 /\ F.pc = pc
          /\ \A i \in Id : i \notin {w} => F.buf[i] = buf[i]
          /\ \A i \in Id : SameBuf(buf[i], F.buf[i])
        <3> DEFINE S == State
        <3>1. S \in StateType /\ F = FreeTransactions(S, {w})
            BY <1>0
        <3> HIDE DEF S, F
        <3>2. /\ F \in StateType
              /\ F.tr = [i \in Id |-> IF i \in {w} THEN None ELSE S.tr[i]]
              /\ F.stack = S.stack /\ F.err = S.err /\ F.err2 = S.err2 /\ F.pc = S.pc
              /\ \A i \in Id : i \notin {w} => F.buf[i] = S.buf[i]
              /\ \A i \in Id : SameBuf(S.buf[i], F.buf[i])
            BY <3>1, FreeIs
        <3> QED
            BY <1>0, <3>2 DEF S
    <2>4. R = [F EXCEPT !.buf[w].allow_user_free = TRUE]
        BY <1>2 DEF Deliver
    <2>5. /\ R.tr = F.tr /\ R.buf = B /\ R.stack = F.stack /\ R.err = F.err /\ R.err2 = F.err2 /\ R.pc = F.pc
          /\ R = [F EXCEPT !.buf = B]
        <3> HIDE DEF F
        <3> QED
            BY <2>3, <2>4 DEF StateType, UserFree
    <2> HIDE DEF F, B
    <2>6. F.buf[w] # None
        BY <2>1, <2>3 DEF SameBuf
    <2>7. /\ B \in [Id -> Buffer \cup {None}] /\ \A j \in Id : j # w => B[j] = F.buf[j]
          /\ B[w] # None /\ B[w].proc = F.buf[w].proc /\ B[w].async = F.buf[w].async
          /\ B[w].transaction = F.buf[w].transaction
        <3> DEFINE A == F.buf
        <3>1. A \in [Id -> Buffer \cup {None}] /\ A[w] # None /\ B = UserFree(A, w)
            BY <2>3, <2>6, StateParts DEF B
        <3> HIDE DEF A
        <3>2. /\ B \in [Id -> Buffer \cup {None}] /\ \A j \in Id : j # w => B[j] = A[j]
              /\ B[w] # None /\ B[w].proc = A[w].proc /\ B[w].async = A[w].async
              /\ B[w].transaction = A[w].transaction
            BY <2>1, <3>1, UserFreeIs
        <3> QED
            BY <3>2 DEF A
    <2>8. R \in StateType
        BY <2>3, <2>5, <2>7 DEF StateType
    <2>9. Linked(R)
        <3>1. Linked(F)
            BY <2>2 DEF SInv
        <3> QED
            BY <2>5, <2>6, <2>7, <3>1 DEF Linked
    <2>10. /\ Errors(R, threads) /\ Chains(R.tr, R.stack, threads, (P \ {w}) \cap Calls(R.tr))
           /\ \A j \in Id : R.tr[j] # None /\ j \notin P \ {w} => j \in Calls(R.tr)
        BY <2>2, <2>5 DEF SInv, Errors
    <2>11. \A j \in Id : /\ R.buf[j] = None <=> buf[j] = None
                         /\ buf[j] # None => R.buf[j].proc = buf[j].proc /\ R.buf[j].async = buf[j].async
        <3> SUFFICES ASSUME NEW j \in Id
                     PROVE  /\ B[j] = None <=> buf[j] = None
                            /\ buf[j] # None => B[j].proc = buf[j].proc /\ B[j].async = buf[j].async
            BY <2>5
        <3>1. SameBuf(buf[j], F.buf[j])
            BY <2>3
        <3> QED
            BY <2>6, <2>7, <3>1 DEF SameBuf
    <2>12. \A j \in P : j # w => R.tr[j] = tr[j] /\ R.buf[j] = buf[j]
        <3>1. P \subseteq Id
            BY <1>0 DEF SInv
        <3> QED
            BY <2>3, <2>5, <2>7, <3>1
    <2>13. \A y : From(R.tr, y) = From(tr, y)
        <3>1. \A j \in Id : j # w => F.tr[j] = tr[j]
            BY <2>3
        <3>2. F.tr[w] = None /\ w \notin Calls(tr)
            BY <1>0, <2>1, <2>3
        <3>3. Calls(F.tr) = Calls(tr)
            BY <3>1, <3>2 DEF Calls
        <3> QED
            BY <2>5, <3>1, <3>2, <3>3 DEF From, Calls
    <2> QED
        BY <2>3, <2>5, <2>8, <2>9, <2>10, <2>11, <2>12, <2>13 DEF Delivered
<1>3. CASE w # Complete /\ ~(tr[w].reply \/ tr[w].one_way)
    <2> DEFINE Q == P \cap Calls(tr)
               u == [[tr[w] EXCEPT !.to_parent = stack[x]] EXCEPT !.to_thread = x]
               U == [tr EXCEPT ![w] = u]
               B == UserFree(buf, w)
               v == [stack EXCEPT ![x] = w]
    <2>1. /\ w \in P /\ w \in Id /\ w \in Calls(tr) /\ tr[w] \in Transaction /\ buf[w] # None
          /\ tr[w].from # x /\ (tr[w].to_thread = x \/ stack[x] = None)
        <3>1. w \in P /\ w \in Id /\ tr[w] # None /\ buf[w] # None /\ tr[w].from # x
            BY <1>0, <1>3, Names DEF Fit, SInv
        <3> QED
            BY <1>0, <1>3, <3>1, InvState DEF Calls
    <2>2. stack[x] \in Id \cup {None}
        BY <1>0, InvState
    <2>3. /\ u \in Transaction /\ u.from = tr[w].from /\ u.from_parent = tr[w].from_parent
          /\ u.to_thread = x /\ u.to_parent = stack[x] /\ u.one_way = tr[w].one_way
          /\ u.reply = tr[w].reply /\ u.buffer = tr[w].buffer
        <3> DEFINE a == [tr[w] EXCEPT !.to_parent = stack[x]]
        <3>1. /\ a \in Transaction /\ a.from = tr[w].from /\ a.from_parent = tr[w].from_parent
              /\ a.to_parent = stack[x] /\ a.one_way = tr[w].one_way
              /\ a.reply = tr[w].reply /\ a.buffer = tr[w].buffer
            BY <2>1, <2>2 DEF Transaction
        <3>2. u = [a EXCEPT !.to_thread = x]
            OBVIOUS
        <3> HIDE DEF a, u
        <3> QED
            BY <1>0, <3>1, <3>2 DEF Transaction
    <2>4. /\ R.tr = U /\ R.buf = B /\ R.stack = v /\ R.err = err /\ R.err2 = err2 /\ R.pc = pc
          /\ R = [tr |-> R.tr, buf |-> R.buf, stack |-> R.stack, err |-> R.err, err2 |-> R.err2, pc |-> R.pc]
        <3> DEFINE S == State
        <3>1. R = [S EXCEPT !.buf[w].allow_user_free = TRUE,
                            !.tr[w].to_parent = stack[x], !.tr[w].to_thread = x,
                            !.stack[x] = w]
            BY <1>3 DEF Deliver
        <3>2. S \in StateType /\ S.tr = tr /\ S.buf = buf /\ S.stack = stack /\ S.err = err /\ S.err2 = err2
              /\ S.pc = pc
            BY <1>0
        <3> HIDE DEF S
        <3>3. /\ R.buf = [S.buf EXCEPT ![w].allow_user_free = TRUE] /\ R.stack = [S.stack EXCEPT ![x] = w]
              /\ R.err = S.err /\ R.err2 = S.err2 /\ R.pc = S.pc
            BY <3>1, <3>2 DEF StateType
        <3>4. R.tr = [[S.tr EXCEPT ![w].to_parent = stack[x]] EXCEPT ![w].to_thread = x]
            BY <3>1, <3>2 DEF StateType
        <3>5. R = [tr |-> R.tr, buf |-> R.buf, stack |-> R.stack, err |-> R.err, err2 |-> R.err2, pc |-> R.pc]
            BY <3>1, <3>2 DEF StateType
        <3>6. [[tr EXCEPT ![w].to_parent = stack[x]] EXCEPT ![w].to_thread = x] = U
            BY <2>1, InvState
        <3> QED
            BY <3>2, <3>3, <3>4, <3>5, <3>6 DEF UserFree
    <2> HIDE DEF u
    <2>5. U \in [Id -> Transaction \cup {None}] /\ U[w] = u /\ \A j \in Id : j # w => U[j] = tr[j]
        BY <2>1, <2>3, InvState
    <2>6. v \in [Thread -> Id \cup {None}] /\ v[x] = w /\ \A y \in Thread : y # x => v[y] = stack[y]
        BY <1>0, <2>1, InvState
    <2>7. /\ B \in [Id -> Buffer \cup {None}] /\ \A j \in Id : j # w => B[j] = buf[j]
          /\ B[w] # None /\ B[w].proc = buf[w].proc /\ B[w].async = buf[w].async
          /\ B[w].transaction = buf[w].transaction
        BY <2>1, InvState, UserFreeIs
    <2> HIDE DEF U, v, B
    <2>8. R \in StateType
        BY <2>4, <2>5, <2>6, <2>7, InvState DEF StateType, PC
    <2>9. u # None
        BY <2>3, Names
    <2>10. Calls(U) = Calls(tr) /\ \A j \in Calls(tr) : j # w => SameCall(tr, U, j)
        BY <2>1, <2>3, <2>5, <2>9 DEF Calls, SameCall
    <2>11. Chains(U, v, threads, Q \ {w})
        <3>1. Chains(tr, stack, threads, Q) /\ w \in Q
            BY <1>0, <2>1 DEF SInv
        <3>2. \A y \in threads : y # x => v[y] = stack[y]
            BY <1>0, <2>6
        <3> HIDE DEF Q
        <3>3. DeliverStep(tr, U, stack, v, threads, Q, x, w)
            BY <2>1, <2>3, <2>5, <2>6, <2>10, <3>1, <3>2, Names DEF DeliverStep
        <3> QED
            BY <3>3, ChainsDeliver
    <2>12. Chains(R.tr, R.stack, threads, (P \ {w}) \cap Calls(R.tr))
        <3>1. (P \ {w}) \cap Calls(U) = Q \ {w}
            BY <2>10
        <3> QED
            BY <2>4, <2>11, <3>1
    <2>13. Linked(R)
        <3>1. \A j \in Id : (buf[j] # None /\ buf[j].transaction) <=> (tr[j] # None /\ tr[j].buffer)
            BY <1>0 DEF SInv, Linked
        <3> QED
            <4> SUFFICES ASSUME NEW j \in Id
                         PROVE  (B[j] # None /\ B[j].transaction) <=> (U[j] # None /\ U[j].buffer)
                BY <2>4 DEF Linked
            <4>1. CASE j = w
                <5>1. (buf[w] # None /\ buf[w].transaction) <=> (tr[w] # None /\ tr[w].buffer)
                    BY <2>1, <3>1
                <5>2. tr[w] # None
                    BY <2>1, Names
                <5> QED
                    BY <2>1, <2>3, <2>5, <2>7, <2>9, <4>1, <5>1, <5>2
            <4>2. CASE j # w
                BY <2>5, <2>7, <3>1, <4>2
            <4> QED
                BY <4>1, <4>2
    <2>14. Errors(R, threads)
        <3> SUFFICES ASSUME NEW y \in threads, err2[y] # Ok
                     PROVE  err[y] # Ok /\ (v[y] # None => U[v[y]].to_thread = y)
            BY <2>4 DEF Errors
        <3>1. err[y] # Ok /\ (stack[y] # None => tr[stack[y]].to_thread = y) /\ y \in Thread
            BY InvThread, InvState
        <3>2. CASE y = x
            BY <2>3, <2>5, <2>6, <3>1, <3>2
        <3>3. CASE y # x
            <4>1. v[y] = stack[y]
                BY <2>6, <3>1, <3>3
            <4>2. stack[y] # None => stack[y] \in Calls(tr)
                BY <1>0, ChainsParts DEF SInv, Chains, Tops, Rel
            <4>3. stack[y] # w
                <5>1. Chains(tr, stack, threads, Q) /\ w \in Q
                    BY <1>0, <2>1 DEF SInv
                <5>2. stack[y] # None => tr[stack[y]].from # y
                    BY <3>1, <4>2, <5>1, <1>0, Names, ChainsParts DEF Chains, Senders
                <5>3. ASSUME stack[y] = w PROVE FALSE
                    <6>1. w # None
                        BY <2>1, Names
                    <6> HIDE DEF Q
                    <6>2. w \in Rel(tr, Q, y)
                        BY <5>1, <5>3, <6>1, ChainsParts DEF Chains, Tops
                    <6> QED
                        BY <5>1, <5>2, <5>3, <6>1, <6>2 DEF Rel
                <5> QED
                    BY <5>3
            <4> QED
                BY <2>10, <3>1, <4>1, <4>2, <4>3 DEF SameCall
        <3> QED
            BY <3>2, <3>3
    <2>15. \A j \in Id : R.tr[j] # None /\ j \notin P \ {w} => j \in Calls(R.tr)
        <3>1. \A j \in Id : tr[j] # None /\ j \notin P => j \in Calls(tr)
            BY <1>0 DEF SInv
        <3> QED
            BY <2>1, <2>4, <2>5, <2>10, <3>1
    <2>16. \A j \in Id : /\ R.buf[j] = None <=> buf[j] = None
                         /\ buf[j] # None => R.buf[j].proc = buf[j].proc /\ R.buf[j].async = buf[j].async
        BY <2>1, <2>4, <2>7
    <2>17. \A j \in P : j # w => R.tr[j] = tr[j] /\ R.buf[j] = buf[j]
        <3>1. P \subseteq Id
            BY <1>0 DEF SInv
        <3> QED
            BY <2>4, <2>5, <2>7, <3>1
    <2>18. \A y : From(R.tr, y) = From(tr, y)
        BY <2>3, <2>4, <2>5, <2>10 DEF From, SameCall
    <2>19. \A y \in Thread : y # x => R.stack[y] = stack[y]
        BY <2>4, <2>6
    <2> QED
        BY <2>4, <2>8, <2>12, <2>13, <2>14, <2>15, <2>16, <2>17, <2>18, <2>19 DEF Delivered
<1> QED
    BY <1>1, <1>2, <1>3

\* The work w has been taken off a list of x or of its process.
Taken(x, w) ==
    /\ DOMAIN todo' = Thread /\ DOMAIN proc_todo' = Proc
    /\ \A y \in Thread : y # x => todo'[y] = todo[y]
    /\ \A q \in Proc : q # ProcOf[x] => proc_todo'[q] = proc_todo[q]
    /\ Works(todo'[x]) /\ Ids(todo'[x]) \subseteq Ids(todo[x])
    /\ Works(proc_todo'[ProcOf[x]]) /\ Ids(proc_todo'[ProcOf[x]]) \subseteq Ids(proc_todo[ProcOf[x]])
    /\ Complete \notin ToSet(proc_todo'[ProcOf[x]])
    /\ Listed(todo', proc_todo', async_todo') = Listed(todo, proc_todo, async_todo) \ {w}
    /\ owed' \in [Thread -> Int] /\ \A y \in Thread : y # x => owed'[y] = owed[y]
    /\ owed'[x] + Count(tr, todo[x]) = owed[x] + Count(tr, todo'[x])
    /\ UNCHANGED <<live, threads, async_todo, has_async>>

\* A work is delivered.
LEMMA StepDeliver ==
    ASSUME Inv, NEW x \in threads, NEW P, P = Listed(todo, proc_todo, async_todo),
           NEW w, NEW R, Delivered(R, x, w, P), Taken(x, w), NEW left, left = proc_todo'[ProcOf[x]],
           Return(R, x, left)
    PROVE  Inv'
<1>1. /\ x \in Thread /\ threads \subseteq Thread /\ ProcOf[x] \in Proc /\ threads' = threads
      /\ R \in StateType /\ R.err = err /\ R.err2 = err2 /\ R.pc = pc
    BY InvState, BinderAssumption DEF Delivered, Taken
<1>2. /\ tr' = R.tr /\ buf' = R.buf /\ stack' = R.stack /\ err' = err /\ err2' = err2
      /\ pc' \in [Thread -> PC] /\ pc'[x] = "user"
      /\ \A y \in Thread : y # x =>
           pc'[y] = pc[y] \/ (/\ pc[y] = "proc_sleep" /\ pc'[y] = "proc_wait"
                              /\ y \in threads /\ ProcOf[y] = ProcOf[x])
      /\ left # <<>> => \A y \in threads : y # x /\ ProcOf[y] = ProcOf[x] /\ pc[y] = "proc_sleep" =>
           \E z \in threads : ProcOf[z] = ProcOf[x] /\ pc'[z] = "proc_wait"
    <2>1. /\ tr' = R.tr /\ buf' = R.buf /\ stack' = R.stack /\ err' = R.err /\ err2' = R.err2
          /\ pc' \in [Thread -> PC] /\ pc'[x] = "user"
          /\ \A y \in Thread : y # x =>
               R.pc[y] = pc'[y] \/ (/\ R.pc[y] = "proc_sleep" /\ pc'[y] = "proc_wait"
                                  /\ y \in threads /\ ProcOf[y] = ProcOf[x])
          /\ left # <<>> => \A y \in threads : y # x /\ ProcOf[y] = ProcOf[x] /\ R.pc[y] = "proc_sleep" =>
               \E z \in threads : ProcOf[z] = ProcOf[x] /\ pc'[z] = "proc_wait"
        BY <1>1, ReturnIs
    <2> QED
        BY <1>1, <2>1
<1>3. Types'
    BY <1>1 DEF Inv, Types, Taken
<1>4. \A j \in P : j \in Id /\ tr[j] # None
    BY ListedIs
<1>5. Move(None, {}, {}, {})
    <2>1. \A s : None \notin Ids(s)
        BY Names DEF Ids
    <2>2. \A y \in Thread : Ids(todo'[y]) \subseteq Ids(todo[y])
        BY DEF Taken
    <2>3. \A q \in Proc : Ids(proc_todo'[q]) \subseteq Ids(proc_todo[q]) /\ async_todo'[q] = async_todo[q]
        BY DEF Taken
    <2> QED
        BY <2>1, <2>2, <2>3 DEF Move
<1>6. \A j \in P : j # w => SameWork(tr[j], tr'[j]) /\ buf'[j] = buf[j]
    BY <1>2, <1>4 DEF Delivered, SameWork
<1>7. /\ \A y \in Thread : Ids(todo'[y]) \subseteq P \ {w}
      /\ \A q \in Proc : Ids(proc_todo'[q]) \subseteq P \ {w} /\ Ids(async_todo'[q]) \subseteq P \ {w}
    <2>1. P \ {w} = Listed(todo', proc_todo', async_todo')
        BY DEF Taken
    <2> QED
        BY <2>1 DEF Listed, Ids
<1>8. Stay(None, {}, {}, {})
    BY <1>6, <1>7 DEF Stay
<1>9. Apart' /\ Placed'
    BY <1>5, <1>8, ApartMove, PlacedMove DEF Inv
<1>10. Gone'
    <2>1. \A y \in Thread : y \notin threads =>
            /\ todo'[y] = todo[y] /\ stack'[y] = stack[y] /\ err'[y] = err[y] /\ err2'[y] = err2[y]
            /\ pc'[y] = pc[y] /\ owed'[y] = owed[y]
        BY <1>2 DEF Taken, Delivered
    <2>2. \A q \in Proc : ~live[q] => proc_todo'[q] = proc_todo[q] /\ async_todo'[q] = async_todo[q]
                                      /\ has_async'[q] = has_async[q]
        <3>1. live[ProcOf[x]]
            BY DEF Inv, Gone
        <3> QED
            BY <3>1 DEF Taken
    <2>3. live' = live /\ threads' = threads
        BY DEF Taken
    <2> QED
        BY <2>1, <2>2, <2>3 DEF Inv, Gone
<1>11. Awake'
    <2>1. /\ \A y \in threads : y # x => todo'[y] = todo[y]
          /\ \A q \in Proc : q # ProcOf[x] => proc_todo'[q] = proc_todo[q]
        BY <1>1 DEF Taken
    <2> QED
        BY <1>1, <1>2, <2>1, ReturnAwake
<1>12. OneAsync'
    <2>1. \A p \in Proc : AsyncOf(buf', async_todo', p) = AsyncOf(buf, async_todo, p)
        <3> SUFFICES ASSUME NEW p \in Proc, NEW j \in Id
                     PROVE  /\ buf'[j] # None /\ buf'[j].async /\ buf'[j].proc = p
                            <=> buf[j] # None /\ buf[j].async /\ buf[j].proc = p
            BY DEF AsyncOf, Taken
        <3> QED
            BY <1>2 DEF Delivered
    <2> QED
        BY <2>1 DEF Inv, OneAsync, Taken
<1>13. Core'
    <2>1. \A y \in threads' : err2'[y] # Ok => err'[y] # Ok /\ (stack'[y] # None => tr'[stack'[y]].to_thread = y)
        BY <1>1, <1>2 DEF Delivered, Errors
    <2>2. \A y \in threads' :
            /\ pc'[y] \in {"proc_wait", "proc_sleep"} => stack'[y] = None /\ err'[y] = Ok
            /\ pc'[y] = "thread_sleep" => err'[y] = Ok
        <3> SUFFICES ASSUME NEW y \in threads, pc'[y] \in {"proc_wait", "proc_sleep", "thread_sleep"}
                     PROVE  /\ pc'[y] \in {"proc_wait", "proc_sleep"} => stack'[y] = None /\ err[y] = Ok
                            /\ pc'[y] = "thread_sleep" => err[y] = Ok
            BY <1>1, <1>2
        <3>1. y # x /\ y \in Thread
            BY <1>1, <1>2
        <3>2. stack'[y] = stack[y]
            BY <1>2, <3>1 DEF Delivered
        <3> QED
            BY <1>2, <3>1, <3>2, InvThread
    <2>3. \A j \in Id : (buf'[j] # None /\ buf'[j].transaction) <=> (tr'[j] # None /\ tr'[j].buffer)
        BY <1>2 DEF Delivered, Linked
    <2> DEFINE PP == P \ {w}
    <2>4. /\ Listed(todo', proc_todo', async_todo') = PP /\ threads' \subseteq Thread
          /\ Chains(tr', stack', threads', PP \cap Calls(tr'))
          /\ \A j \in Id : tr'[j] # None /\ j \notin PP => j \in Calls(tr')
        BY <1>1, <1>2 DEF Taken, Delivered
    <2>5. \A j \in PP : j \in Id /\ tr'[j] # None
        BY <1>4, <1>6 DEF SameWork
    <2>6. /\ tr' \in [Id -> Transaction \cup {None}] /\ buf' \in [Id -> Buffer \cup {None}]
          /\ stack' \in [Thread -> Id \cup {None}] /\ err' \in [Thread -> Code] /\ err2' \in [Thread -> Code]
        BY <1>1, <1>2, StateParts
    <2> HIDE DEF PP
    <2> QED
        BY <1>2, <2>1, <2>2, <2>3, <2>4, <2>5, <2>6, CoreNext
<1>14. Balance'
    <2> SUFFICES ASSUME NEW y \in threads PROVE owed'[y] = Owes(tr', err', err2', todo', y)
        BY <1>1, BalanceIs
    <2>1. /\ y \in Thread /\ owed[y] = Owes(tr, err, err2, todo, y) /\ owed[y] \in Int
          /\ Count(tr, todo[y]) \in Nat /\ Cardinality(From(tr, y)) \in Nat
        BY <1>1, InvThread
    <2>2. From(tr', y) = From(tr, y)
        BY <1>2 DEF Delivered
    <2>3. Works(todo'[y])
        BY <2>1, <1>3 DEF Types
    <2>4. Count(tr', todo'[y]) = Count(tr, todo'[y]) /\ Count(tr, todo'[y]) \in Nat
        <3>1. \A j \in Ids(todo'[y]) : tr'[j].reply = tr[j].reply
            BY <1>6, <1>7, <2>1 DEF SameWork
        <3> DEFINE s == todo'[y]
        <3>2. Works(s) /\ \A j \in Ids(s) : tr'[j].reply = tr[j].reply
            BY <2>3, <3>1
        <3> HIDE DEF s
        <3>3. Count(tr', s) = Count(tr, s) /\ Count(tr, s) \in Nat
            BY <3>2, CountSame, CountSet
        <3> QED
            BY <3>3 DEF s
    <2>5. /\ owed'[y] + Count(tr, todo[y]) = owed[y] + Count(tr, todo'[y])
          /\ owed'[y] \in Int
        <3>1. CASE y = x
            BY <2>1, <3>1 DEF Taken
        <3>2. CASE y # x
            BY <2>1, <3>2 DEF Taken
        <3> QED
            BY <3>1, <3>2
    <2>6. err'[y] = err[y] /\ err2'[y] = err2[y]
        BY <1>2
    <2> QED
        BY <2>1, <2>2, <2>4, <2>5, <2>6 DEF Owes
<1> QED
    BY <1>3, <1>9, <1>10, <1>11, <1>12, <1>13, <1>14 DEF Inv

\* A read takes a work.
LEMMA StepReadWork ==
    ASSUME Inv, NEW x \in Thread, ReadWork(x)
    PROVE  Inv'
<1> DEFINE p == ProcOf[x]
           P == Listed(todo, proc_todo, async_todo)
           returned(w) == IF w = Complete \/ tr[w].reply THEN 1 ELSE 0
<1>1. /\ pc[x] \in {"thread_wait", "proc_wait"} /\ x \in threads /\ p \in Proc
      /\ UNCHANGED <<live, threads, async_todo, has_async>>
    BY InvThread DEF ReadWork
<1>2. /\ DOMAIN todo = Thread /\ DOMAIN proc_todo = Proc /\ owed \in [Thread -> Int]
      /\ \A y \in Thread : Works(todo[y]) /\ Ids(todo[y]) \subseteq P
      /\ \A q \in Proc : /\ Works(proc_todo[q]) /\ Complete \notin ToSet(proc_todo[q])
                         /\ Ids(proc_todo[q]) \subseteq P
    BY DEF Inv, Types, Listed, Ids
<1>3. \A s : Ids(s) \subseteq Id
    BY DEF Ids
<1>4. CASE todo[x] # <<>>
    <2> DEFINE s == todo[x]
               w == Head(s)
    <2>1. /\ Return(Deliver(x, w), x, proc_todo[p]) /\ todo' = [todo EXCEPT ![x] = Tail(@)]
          /\ owed' = [owed EXCEPT ![x] = @ - returned(w)] /\ proc_todo' = proc_todo
        BY <1>4 DEF ReadWork
    <2>2. /\ Works(Tail(s)) /\ Ids(Tail(s)) = Ids(s) \ {w}
          /\ w \in Id \cup {Complete} /\ (w \in Id => w \in Ids(s))
        <3>1. Works(s) /\ s # <<>>
            BY <1>2, <1>4
        <3> HIDE DEF s
        <3> QED
            BY <3>1, WorksTail
    <2>3. w = Complete \/ (w \in P /\ Fit(tr, buf, w, ProcOf[x])
                           /\ (~tr[w].one_way => tr[w].to_thread = x \/ stack[x] = None))
        <3>1. w \in Id => w \in P /\ Fit(tr, buf, w, ProcOf[x]) /\ (~tr[w].one_way => tr[w].to_thread = x)
            BY <1>2, <2>2 DEF Inv, Placed
        <3> QED
            BY <2>2, <3>1
    <2>4. Count(tr, s) = Count(tr, Tail(s)) + returned(w)
        <3>1. Works(s) /\ s # <<>>
            BY <1>2, <1>4
        <3> HIDE DEF s
        <3>2. Count(tr, s) = Count(tr, Tail(s)) + (IF Returned(tr, w) THEN 1 ELSE 0)
            BY <3>1, CountTail
        <3> QED
            BY <3>2 DEF Returned
    <2>5. Count(tr, Tail(s)) \in Nat
        <3> DEFINE u == Tail(s)
        <3> HIDE DEF u
        <3> QED
            BY <2>2, CountSet DEF u
    <2>6. /\ todo'[x] = Tail(s) /\ DOMAIN todo' = Thread /\ \A y \in Thread : y # x => todo'[y] = todo[y]
          /\ owed'[x] = owed[x] - returned(w) /\ owed' \in [Thread -> Int]
          /\ \A y \in Thread : y # x => owed'[y] = owed[y]
        BY <1>2, <2>1
    <2>7. Listed(todo', proc_todo', async_todo') = P \ {w}
        <3>1. \A y \in Thread : y # x => w \notin Ids(todo[y])
            BY <1>3, <2>2 DEF Inv, Apart
        <3>2. \A q \in Proc : w \notin Ids(proc_todo[q]) /\ w \notin Ids(async_todo[q])
            BY <1>3, <2>2 DEF Inv, Apart
        <3>3. proc_todo' = proc_todo /\ async_todo' = async_todo
            BY <1>1, <2>1
        <3> HIDE DEF w, s
        <3> QED
            BY <2>2, <2>6, <3>1, <3>2, <3>3 DEF Listed, s
    <2>8. Taken(x, w)
        <3>1. owed'[x] + Count(tr, todo[x]) = owed[x] + Count(tr, todo'[x])
            <4>1. owed[x] \in Int /\ returned(w) \in Int
                BY <1>2
            <4> HIDE DEF w, returned
            <4> QED
                BY <2>4, <2>5, <2>6, <4>1
        <3>2. Works(todo'[x]) /\ Ids(todo'[x]) \subseteq Ids(todo[x])
            BY <2>2, <2>6
        <3> HIDE DEF w, s
        <3> QED
            BY <1>1, <1>2, <2>1, <2>6, <2>7, <3>1, <3>2 DEF Taken
    <2> DEFINE R == Deliver(x, w)
               left == proc_todo'[p]
    <2>9. Return(R, x, left) /\ R = Deliver(x, w)
        BY <2>1
    <2> HIDE DEF w, R, left
    <2> DEFINE PP == P
    <2>10. w = Complete \/ (w \in PP /\ Fit(tr, buf, w, ProcOf[x])
                           /\ (~tr[w].one_way => tr[w].to_thread = x \/ stack[x] = None))
        BY <2>3
    <2>11. PP = Listed(todo, proc_todo, async_todo)
        OBVIOUS
    <2> HIDE DEF PP
    <2>12. Delivered(R, x, w, PP)
        BY <1>1, <2>9, <2>10, <2>11, DeliverIs
    <2> QED
        BY <1>1, <2>8, <2>9, <2>11, <2>12, StepDeliver DEF left
<1>5. CASE todo[x] = <<>>
    <2> DEFINE s == proc_todo[p]
               w == Head(s)
    <2>1. /\ pc[x] = "proc_wait" /\ s # <<>>
          /\ Return(Deliver(x, w), x, Tail(s)) /\ proc_todo' = [proc_todo EXCEPT ![p] = Tail(@)]
          /\ todo' = todo /\ owed' = owed
        BY <1>5 DEF ReadWork
    <2>2. /\ Works(Tail(s)) /\ Ids(Tail(s)) = Ids(s) \ {w}
          /\ w \in Id /\ w \in Ids(s) /\ Complete \notin ToSet(Tail(s))
        <3>1. Works(s) /\ s # <<>> /\ Complete \notin ToSet(s)
            BY <1>1, <1>2, <2>1
        <3> HIDE DEF s
        <3>2. /\ Works(Tail(s)) /\ Ids(Tail(s)) = Ids(s) \ {w}
              /\ w \in Id \cup {Complete} /\ (w \in Id => w \in Ids(s))
            BY <3>1, WorksTail
        <3>3. w # Complete /\ Complete \notin ToSet(Tail(s))
            <4>1. s \in Seq(Id \cup {Complete})
                BY <3>1 DEF Works
            <4>2. /\ w = s[1] /\ 1 \in DOMAIN s
                  /\ \A k \in DOMAIN Tail(s) : k + 1 \in DOMAIN s /\ Tail(s)[k] = s[k + 1]
                BY <3>1, <4>1
            <4> QED
                BY <3>1, <4>2 DEF ToSet
        <3> QED
            BY <3>2, <3>3
    <2>3. w \in P /\ Fit(tr, buf, w, ProcOf[x]) /\ stack[x] = None
        <3>1. w \in P /\ Fit(tr, buf, w, ProcOf[x])
            BY <1>1, <1>2, <2>2 DEF Inv, Placed
        <3> QED
            BY <2>1, <3>1, InvThread
    <2>4. /\ proc_todo'[p] = Tail(s) /\ DOMAIN proc_todo' = Proc
          /\ \A q \in Proc : q # p => proc_todo'[q] = proc_todo[q]
        BY <1>1, <1>2, <2>1
    <2>5. Listed(todo', proc_todo', async_todo') = P \ {w}
        <3>1. \A y \in Thread : w \notin Ids(todo[y])
            BY <1>1, <1>3, <2>2 DEF Inv, Apart
        <3>2. \A q \in Proc : (q # p => w \notin Ids(proc_todo[q])) /\ w \notin Ids(async_todo[q])
            BY <1>1, <1>3, <2>2 DEF Inv, Apart
        <3>3. todo' = todo /\ async_todo' = async_todo
            BY <1>1, <2>1
        <3> HIDE DEF w, s
        <3> QED
            BY <1>1, <2>2, <2>4, <3>1, <3>2, <3>3 DEF Listed, s
    <2>6. Taken(x, w)
        <3> HIDE DEF w, s
        <3> QED
            BY <1>1, <1>2, <2>1, <2>2, <2>4, <2>5 DEF Taken, s
    <2> DEFINE R == Deliver(x, w)
               left == proc_todo'[p]
    <2>7. Return(R, x, left) /\ R = Deliver(x, w)
        BY <2>1, <2>4
    <2> HIDE DEF w, R, left
    <2> DEFINE PP == P
    <2>8. PP = Listed(todo, proc_todo, async_todo) /\ w \in PP
        BY <2>3
    <2> HIDE DEF PP
    <2>9. Delivered(R, x, w, PP)
        BY <1>1, <2>3, <2>7, <2>8, DeliverIs
    <2> QED
        BY <1>1, <2>6, <2>7, <2>8, <2>9, StepDeliver DEF left
<1> QED
    BY <1>4, <1>5

-----------------------------------------------------------------------------
\* The threads in Z have been freed; P are the works that are left.
Released(V, Z, P) ==
    /\ SInv(V, threads \ Z, P) /\ Becomes(V)
    /\ \A j \in P : SameWork(tr[j], V.tr[j]) /\ V.buf[j] = buf[j]
    /\ \A y \in Thread : V.pc[y] = pc[y] \/ (pc[y] = "thread_sleep" /\ V.pc[y] = "thread_wait")
    /\ owed' \in [Thread -> Int]
    /\ \A y \in threads \ Z : owed'[y] + Due(State, y) = owed[y] + Due(V, y)
    /\ \A y \in Thread \ threads : owed'[y] = owed[y]
    /\ \A y \in Z : owed'[y] = 0
    /\ Still(State, V, Thread \ threads) /\ Freed(V, Z)
    /\ Z \subseteq threads /\ threads' = threads \ Z /\ \A y \in Z : pc[y] = "user"
    /\ DOMAIN todo' = Thread /\ \A y \in Thread : todo'[y] = IF y \in Z THEN <<>> ELSE todo[y]
    /\ DOMAIN proc_todo' = Proc /\ DOMAIN async_todo' = Proc
    /\ \A q \in Proc : proc_todo'[q] = proc_todo[q] \/ proc_todo'[q] = <<>>
    /\ \A q \in Proc : async_todo'[q] = async_todo[q] \/ async_todo'[q] = <<>>
    /\ Listed(todo', proc_todo', async_todo') = P
    /\ live' \in [Proc -> BOOLEAN] /\ has_async' \in [Proc -> BOOLEAN]
    /\ \A q \in Proc : live'[q] = live[q] \/ \A y \in threads : ProcOf[y] = q => y \in Z
    /\ \A q \in Proc : ~live'[q] => proc_todo'[q] = <<>> /\ async_todo'[q] = <<>> /\ ~has_async'[q]

\* The variables that Becomes gives values to.
LEMMA BecomesIs ==
    ASSUME NEW V, V \in StateType, Becomes(V)
    PROVE  /\ State' = V /\ tr' = V.tr /\ buf' = V.buf /\ stack' = V.stack
           /\ err' = V.err /\ err2' = V.err2 /\ pc' = V.pc
<1>1. /\ tr' = V.tr /\ buf' = V.buf /\ stack' = V.stack /\ err' = V.err /\ err2' = V.err2 /\ pc' = V.pc
    BY DEF Becomes
<1>2. V = [tr |-> V.tr, buf |-> V.buf, stack |-> V.stack, err |-> V.err, err2 |-> V.err2, pc |-> V.pc]
    BY DEF StateType
<1>3. State' = [tr |-> tr', buf |-> buf', stack |-> stack', err |-> err', err2 |-> err2', pc |-> pc']
    BY DEF State
<1> QED
    BY <1>1, <1>2, <1>3

\* The release of the threads in Z keeps the invariant.
LEMMA StepReleased ==
    ASSUME Inv, NEW V, NEW Z, NEW P, Released(V, Z, P), OneAsync'
    PROVE  Inv'
<1>1. /\ State' = V /\ tr' = V.tr /\ buf' = V.buf /\ stack' = V.stack
      /\ err' = V.err /\ err2' = V.err2 /\ pc' = V.pc
    BY BecomesIs DEF Released, SInv
<1>2. threads' = threads \ Z /\ threads \subseteq Thread /\ Z \subseteq Thread
    BY InvState DEF Released
<1>3. Core'
    BY <1>1 DEF Core, Released
<1>4. /\ \A y \in Thread : todo'[y] = IF y \in Z THEN <<>> ELSE todo[y]
      /\ DOMAIN todo' = Thread /\ owed' \in [Thread -> Int]
    BY DEF Released
<1>5. /\ owed \in [Thread -> Int] /\ \A y \in Thread : Works(todo[y])
      /\ \A p \in Proc : /\ Works(proc_todo[p]) /\ Works(async_todo[p])
                         /\ Complete \notin ToSet(proc_todo[p]) /\ Complete \notin ToSet(async_todo[p])
    BY DEF Inv, Types
<1>6. Types'
    <2>2. \A y \in Thread : Works(todo'[y])
        BY <1>4, <1>5, WorksEmpty
    <2>3. Complete \notin ToSet(<<>>)
        BY DEF ToSet
    <2>4. \A p \in Proc : /\ Works(proc_todo'[p]) /\ Works(async_todo'[p])
                          /\ Complete \notin ToSet(proc_todo'[p]) /\ Complete \notin ToSet(async_todo'[p])
        <3> SUFFICES ASSUME NEW p \in Proc
                     PROVE  /\ Works(proc_todo'[p]) /\ Works(async_todo'[p])
                            /\ Complete \notin ToSet(proc_todo'[p]) /\ Complete \notin ToSet(async_todo'[p])
            OBVIOUS
        <3>1. /\ proc_todo'[p] = proc_todo[p] \/ proc_todo'[p] = <<>>
              /\ async_todo'[p] = async_todo[p] \/ async_todo'[p] = <<>>
            BY DEF Released
        <3> QED
            BY <1>5, <2>3, <3>1, WorksEmpty
    <2> QED
        BY <1>4, <2>2, <2>4 DEF Types, Released
<1>7. /\ \A y \in Thread : Ids(todo'[y]) \subseteq P /\ Ids(todo'[y]) \subseteq Ids(todo[y])
      /\ \A q \in Proc : Ids(proc_todo'[q]) \subseteq P /\ Ids(proc_todo'[q]) \subseteq Ids(proc_todo[q])
      /\ \A q \in Proc : Ids(async_todo'[q]) \subseteq P /\ Ids(async_todo'[q]) \subseteq Ids(async_todo[q])
    <2>1. P = Listed(todo', proc_todo', async_todo')
        BY DEF Released
    <2>2. /\ \A y \in Thread : Ids(todo'[y]) \subseteq P
          /\ \A q \in Proc : Ids(proc_todo'[q]) \subseteq P /\ Ids(async_todo'[q]) \subseteq P
        BY <2>1 DEF Listed, Ids
    <2>3. \A y \in Thread : Ids(todo'[y]) \subseteq Ids(todo[y])
        BY <1>4, WorksEmpty
    <2>4. \A q \in Proc : Ids(proc_todo'[q]) \subseteq Ids(proc_todo[q])
        <3> SUFFICES ASSUME NEW q \in Proc PROVE Ids(proc_todo'[q]) \subseteq Ids(proc_todo[q])
            OBVIOUS
        <3>1. proc_todo'[q] = proc_todo[q] \/ proc_todo'[q] = <<>>
            BY DEF Released
        <3> QED
            BY <3>1, WorksEmpty
    <2>5. \A q \in Proc : Ids(async_todo'[q]) \subseteq Ids(async_todo[q])
        <3> SUFFICES ASSUME NEW q \in Proc PROVE Ids(async_todo'[q]) \subseteq Ids(async_todo[q])
            OBVIOUS
        <3>1. async_todo'[q] = async_todo[q] \/ async_todo'[q] = <<>>
            BY DEF Released
        <3> QED
            BY <3>1, WorksEmpty
    <2> QED
        BY <2>2, <2>3, <2>4, <2>5
<1>8. Apart' /\ Placed'
    <2>1. Move(None, {}, {}, {})
        <3>1. \A s : None \notin Ids(s)
            BY Names DEF Ids
        <3> QED
            BY <1>7, <3>1 DEF Move
    <2>2. \A j \in P : SameWork(tr[j], tr'[j]) /\ buf'[j] = buf[j]
        BY <1>1 DEF Released
    <2>3. Stay(None, {}, {}, {})
        BY <1>7, <2>2 DEF Stay
    <2> QED
        BY <2>1, <2>3, ApartMove, PlacedMove DEF Inv
<1>9. \A y \in Thread : pc'[y] = pc[y] \/ (pc[y] = "thread_sleep" /\ pc'[y] = "thread_wait")
    BY <1>1 DEF Released
<1>10. Gone'
    <2>1. ASSUME NEW y \in Thread, y \notin threads'
          PROVE  /\ todo'[y] = <<>> /\ stack'[y] = None /\ err'[y] = Ok /\ err2'[y] = Ok /\ pc'[y] = "user"
                 /\ owed'[y] = 0
        <3>1. CASE y \in Z
            <4>1. stack'[y] = None /\ err'[y] = Ok /\ err2'[y] = Ok
                BY <1>1, <3>1 DEF Released, Freed
            <4>2. pc[y] = "user" /\ owed'[y] = 0
                BY <3>1 DEF Released
            <4> QED
                BY <1>4, <1>9, <3>1, <4>1, <4>2
        <3>2. CASE y \notin Z
            <4>1. y \notin threads
                BY <1>2, <2>1, <3>2
            <4>2. /\ todo[y] = <<>> /\ stack[y] = None /\ err[y] = Ok /\ err2[y] = Ok /\ pc[y] = "user"
                  /\ owed[y] = 0
                BY <4>1 DEF Inv, Gone
            <4>4. owed'[y] = owed[y]
                BY <4>1 DEF Released
            <4>3. /\ V.stack[y] = State.stack[y] /\ V.pc[y] = State.pc[y]
                  /\ V.err[y] = State.err[y] /\ V.err2[y] = State.err2[y]
                BY <4>1 DEF Released, Still
            <4> QED
                BY <1>1, <1>4, <3>2, <4>2, <4>3, <4>4, InvState
        <3> QED
            BY <3>1, <3>2
    <2>2. \A y \in threads' : live'[ProcOf[y]]
        <3> SUFFICES ASSUME NEW y \in threads \ Z PROVE live'[ProcOf[y]]
            BY <1>2
        <3>1. live[ProcOf[y]] /\ ProcOf[y] \in Proc
            BY <1>2, BinderAssumption DEF Inv, Gone
        <3> QED
            BY <3>1 DEF Released
    <2>3. \A p \in Proc : ~live'[p] => proc_todo'[p] = <<>> /\ async_todo'[p] = <<>> /\ ~has_async'[p]
        BY DEF Released
    <2> QED
        BY <2>1, <2>2, <2>3 DEF Gone
<1>11. Awake'
    <2>1. ASSUME NEW y \in threads', pc'[y] \in {"thread_sleep", "proc_wait", "proc_sleep"}
          PROVE  todo'[y] = <<>>
        <3>1. y \in threads /\ y \in Thread /\ y \notin Z /\ pc[y] = pc'[y]
            BY <1>2, <1>9, <2>1
        <3> QED
            BY <1>4, <2>1, <3>1, InvThread
    <2>2. ASSUME NEW y \in threads', pc'[y] = "proc_sleep", proc_todo'[ProcOf[y]] # <<>>
          PROVE  \E z \in threads' : ProcOf[z] = ProcOf[y] /\ pc'[z] = "proc_wait"
        <3>1. y \in threads /\ y \in Thread /\ pc[y] = "proc_sleep" /\ ProcOf[y] \in Proc
            BY <1>2, <1>9, <2>2, BinderAssumption
        <3>2. proc_todo[ProcOf[y]] # <<>>
            BY <2>2, <3>1 DEF Released
        <3>3. PICK z \in threads : ProcOf[z] = ProcOf[y] /\ pc[z] = "proc_wait"
            BY <3>1, <3>2 DEF Inv, Awake
        <3>4. z \notin Z /\ z \in Thread
            BY <1>2, <3>3 DEF Released
        <3>5. pc'[z] = "proc_wait"
            BY <1>9, <3>3, <3>4
        <3> QED
            BY <1>2, <3>3, <3>4, <3>5
    <2> QED
        BY <2>1, <2>2 DEF Awake
<1>12. Balance'
    <2> SUFFICES ASSUME NEW y \in threads' PROVE owed'[y] = Due(State', y) + Count(tr', todo'[y])
        BY DEF Balance
    <2>1. y \in threads /\ y \in Thread /\ y \notin Z
        BY <1>2
    <2>2. owed[y] = Due(State, y) + Count(tr, todo[y])
        BY <2>1 DEF Inv, Balance
    <2>3. owed'[y] + Due(State, y) = owed[y] + Due(State', y)
        BY <1>1, <2>1 DEF Released
    <2>4. todo'[y] = todo[y]
        BY <1>4, <2>1
    <2>6. Due(State, y) \in Int /\ Due(State', y) \in Int /\ Count(tr, todo[y]) \in Nat
          /\ owed[y] \in Int /\ owed'[y] \in Int
        <3>1. \A S : Due(S, y) \in Int
            BY FromFinite DEF Due
        <3> QED
            BY <1>4, <1>5, <2>1, <3>1, CountSet
    <2>5. Count(tr', todo[y]) = Count(tr, todo[y])
        <3>1. \A j \in Ids(todo[y]) : tr'[j].reply = tr[j].reply
            <4>1. Ids(todo[y]) \subseteq P
                BY <1>7, <2>1, <2>4
            <4> QED
                BY <1>1, <4>1 DEF Released, SameWork
        <3> QED
            BY <1>5, <2>1, <3>1, CountSame
    <2> QED
        BY <2>2, <2>3, <2>4, <2>5, <2>6
<1> QED
    BY <1>3, <1>6, <1>8, <1>10, <1>11, <1>12 DEF Inv

\* A thread exits.
LEMMA StepThreadExit ==
    ASSUME Inv, NEW x \in Thread, ThreadExit(x)
    PROVE  Inv'
<1> DEFINE P == Listed(todo, proc_todo, async_todo)
           L == P \ Ids(todo[x])
           R == FreeThread(State, x)
           S == State
<1>1. /\ x \in threads /\ pc[x] = "user" /\ Becomes(R) /\ threads' = threads \ {x}
      /\ todo' = [todo EXCEPT ![x] = <<>>] /\ owed' = [owed EXCEPT ![x] = 0]
      /\ UNCHANGED <<live, proc_todo, async_todo, has_async>>
    BY DEF ThreadExit
<1>2. /\ DOMAIN todo = Thread /\ DOMAIN proc_todo = Proc /\ DOMAIN async_todo = Proc
      /\ owed \in [Thread -> Int] /\ Works(todo[x]) /\ Ids(todo[x]) \subseteq P
      /\ live \in [Proc -> BOOLEAN] /\ has_async \in [Proc -> BOOLEAN]
    BY DEF Inv, Types, Listed, Ids
<1>3. /\ SInv(S, threads, P) /\ S.tr = tr /\ S.buf = buf /\ S.pc = pc
    BY InvState
<1>4. /\ SInv(R, threads \ {x}, L) /\ Frame(S, R, threads \ {x}, L)
      /\ Still(S, R, Thread \ threads) /\ Freed(R, {x})
    <2>1. R = FreeThread(S, x)
        OBVIOUS
    <2> HIDE DEF R, S, P
    <2> QED
        BY <1>1, <1>2, <1>3, <2>1, FreeThreadIs
<1> HIDE DEF R
<1>5. todo' = [y \in Thread |-> IF y \in {x} THEN <<>> ELSE todo[y]]
    BY <1>1, <1>2
<1>6. /\ owed' \in [Thread -> Int] /\ owed'[x] = 0
      /\ \A y \in Thread : y # x => owed'[y] = owed[y]
    BY <1>1, <1>2
<1>7. Listed(todo', proc_todo', async_todo') = L
    <2>1. \A i \in Ids(todo[x]) : /\ \A y \in Thread : y # x => i \notin Ids(todo[y])
                                  /\ \A q \in Proc : i \notin Ids(proc_todo[q]) /\ i \notin Ids(async_todo[q])
        BY DEF Inv, Apart
    <2>2. Ids(todo'[x]) = {} /\ \A y \in Thread : y # x => Ids(todo'[y]) = Ids(todo[y])
        BY <1>5, WorksEmpty
    <2> QED
        BY <1>1, <2>1, <2>2 DEF Listed
<1>8. Released(R, {x}, L)
    <2>1. \A j \in L : SameWork(tr[j], R.tr[j]) /\ R.buf[j] = buf[j]
        BY <1>3, <1>4 DEF Frame
    <2>2. \A y \in Thread : R.pc[y] = pc[y] \/ (pc[y] = "thread_sleep" /\ R.pc[y] = "thread_wait")
        BY <1>3, <1>4 DEF Frame
    <2>3. \A y \in threads \ {x} : owed'[y] + Due(State, y) = owed[y] + Due(R, y)
        <3>1. \A y \in threads \ {x} : Due(R, y) = Due(State, y)
            BY <1>4 DEF Frame
        <3>2. \A y \in threads \ {x} : owed'[y] = owed[y]
            BY <1>6, InvState
        <3> QED
            BY <3>1, <3>2
    <2>6. /\ \A y \in Thread \ threads : owed'[y] = owed[y]
          /\ \A y \in {x} : owed'[y] = 0
        BY <1>1, <1>6
    <2>4. \A q \in Proc : ~live'[q] => proc_todo'[q] = <<>> /\ async_todo'[q] = <<>> /\ ~has_async'[q]
        BY <1>1 DEF Inv, Gone
    <2>5. Still(State, R, Thread \ threads) /\ Freed(R, {x}) /\ SInv(R, threads \ {x}, L)
        BY <1>4
    <2> HIDE DEF L, S
    <2> QED
        BY <1>1, <1>2, <1>5, <1>6, <1>7, <2>1, <2>2, <2>3, <2>4, <2>5, <2>6 DEF Released
<1>9. OneAsync'
    <2>1. buf' = R.buf
        BY <1>1 DEF Becomes
    <2>2. \A j \in Id : SameBuf(buf[j], R.buf[j])
        BY <1>3, <1>4 DEF Frame
    <2>3. \A j \in Id : j # None => SameBuf(buf[j], buf'[j])
        BY <2>1, <2>2
    <2> QED
        BY <1>1, <2>3, Names, AsyncSame
<1> HIDE DEF L
<1> QED
    BY <1>8, <1>9, StepReleased

-----------------------------------------------------------------------------
\* The end of binder_deferred_release(): the works in K, which the node of p kept
\* back, and the buffers of p are freed.
Mine(R, p, i) == R.buf[i] # None /\ R.buf[i].proc = p

\* The state after it.
Clean(R, K, p) ==
    [R EXCEPT
       !.tr = [i \in Id |-> IF i \in K THEN None
                            ELSE IF Mine(R, p, i) /\ R.buf[i].transaction
                            THEN [R.tr[i] EXCEPT !.buffer = FALSE]
                            ELSE R.tr[i]],
       !.buf = [i \in Id |-> IF Mine(R, p, i) THEN None ELSE R.buf[i]]]

\* The works in K are one-way calls to p, and no other work is p's.
KeptBy(R, P, K, p) ==
    /\ K \subseteq P
    /\ \A i \in K : i \notin Calls(R.tr) /\ Mine(R, p, i)
    /\ \A i \in P \ K : ~Mine(R, p, i)

\* What Clean does.
LEMMA CleanIs ==
    ASSUME NEW R, NEW th, NEW P, SInv(R, th, P), NEW p, NEW K, KeptBy(R, P, K, p),
           NEW V, V = Clean(R, K, p)
    PROVE  /\ SInv(V, th, P \ K)
           /\ \A i \in P \ K : V.tr[i] = R.tr[i] /\ V.buf[i] = R.buf[i]
           /\ V.stack = R.stack /\ V.err = R.err /\ V.err2 = R.err2 /\ V.pc = R.pc
           /\ \A i \in Id : V.buf[i] = IF Mine(R, p, i) THEN None ELSE R.buf[i]
           /\ \A x : From(V.tr, x) = From(R.tr, x)
<1> USE DEF KeptBy
<1>1. /\ R \in StateType /\ R.tr \in [Id -> Transaction \cup {None}]
      /\ R.buf \in [Id -> Buffer \cup {None}] /\ P \subseteq Id /\ th \subseteq Thread
    BY StateParts DEF SInv
<1> DEFINE T == [i \in Id |-> IF i \in K THEN None
                            ELSE IF Mine(R, p, i) /\ R.buf[i].transaction
                            THEN [R.tr[i] EXCEPT !.buffer = FALSE]
                            ELSE R.tr[i]]
           B == [i \in Id |-> IF Mine(R, p, i) THEN None ELSE R.buf[i]]
<1>2. V = [R EXCEPT !.tr = T, !.buf = B]
    BY DEF Clean
<1>3. \A i \in Id : R.buf[i] # None /\ R.buf[i].transaction => R.tr[i] \in Transaction
    BY <1>1 DEF SInv, Linked
<1>4. T \in [Id -> Transaction \cup {None}]
    <2> SUFFICES ASSUME NEW i \in Id PROVE T[i] \in Transaction \cup {None}
        OBVIOUS
    <2>1. CASE i \in K
        BY <2>1
    <2>2. CASE i \notin K /\ Mine(R, p, i) /\ R.buf[i].transaction
        <3>1. R.tr[i] \in Transaction /\ T[i] = [R.tr[i] EXCEPT !.buffer = FALSE]
            BY <1>3, <2>2 DEF Mine
        <3>2. \A u \in Transaction : [u EXCEPT !.buffer = FALSE] \in Transaction
            BY DEF Transaction
        <3> QED
            BY <3>1, <3>2
    <2>3. CASE i \notin K /\ ~(Mine(R, p, i) /\ R.buf[i].transaction)
        BY <1>1, <2>3
    <2> QED
        BY <2>1, <2>2, <2>3
<1>5. B \in [Id -> Buffer \cup {None}]
    BY <1>1
<1>6. \A i \in Id : i \notin K => /\ T[i] = None <=> R.tr[i] = None
                                  /\ R.tr[i] # None => SameCall(R.tr, T, i) /\ T[i].reply = R.tr[i].reply
                                                       /\ T[i].one_way = R.tr[i].one_way
    <2> SUFFICES ASSUME NEW i \in Id, i \notin K
                 PROVE  /\ T[i] = None <=> R.tr[i] = None
                        /\ R.tr[i] # None => SameCall(R.tr, T, i) /\ T[i].reply = R.tr[i].reply
                                             /\ T[i].one_way = R.tr[i].one_way
        OBVIOUS
    <2>1. CASE Mine(R, p, i) /\ R.buf[i].transaction
        <3>1. R.tr[i] \in Transaction /\ T[i] = [R.tr[i] EXCEPT !.buffer = FALSE]
            BY <1>3, <2>1 DEF Mine
        <3>2. R.tr[i] # None /\ T[i] # None
            BY <1>4, <3>1, Names, ZenonT(40) DEF Transaction
        <3>3. SameCall(R.tr, T, i) /\ T[i].reply = R.tr[i].reply /\ T[i].one_way = R.tr[i].one_way
            BY <3>1 DEF Transaction, SameCall
        <3> QED
            BY <3>2, <3>3
    <2>2. CASE ~(Mine(R, p, i) /\ R.buf[i].transaction)
        <3>1. T[i] = R.tr[i]
            BY <2>2
        <3> HIDE DEF T
        <3> QED
            BY <3>1 DEF SameCall
    <2> QED
        BY <2>1, <2>2
<1>7. \A i \in K : T[i] = None /\ R.tr[i] # None /\ i \in Id
    BY <1>1 DEF SInv
<1>8. \A i \in P \ K : T[i] = R.tr[i] /\ B[i] = R.buf[i]
    BY <1>1
<1>9. \A i \in Id : /\ Mine(R, p, i) => B[i] = None
                    /\ ~Mine(R, p, i) => B[i] = R.buf[i]
    OBVIOUS
<1>10. \A i \in Id : /\ Mine(R, p, i) => ~(T[i] # None /\ T[i].buffer)
                     /\ ~Mine(R, p, i) => T[i] = R.tr[i]
    <2> SUFFICES ASSUME NEW i \in Id PROVE /\ Mine(R, p, i) => ~(T[i] # None /\ T[i].buffer)
                                           /\ ~Mine(R, p, i) => T[i] = R.tr[i]
        OBVIOUS
    <2>1. CASE i \in K
        BY <1>7, <2>1
    <2>2. CASE i \notin K /\ Mine(R, p, i) /\ R.buf[i].transaction
        <3>1. R.tr[i] \in Transaction /\ T[i] = [R.tr[i] EXCEPT !.buffer = FALSE]
            BY <1>3, <2>2 DEF Mine
        <3>2. T[i].buffer = FALSE
            BY <3>1 DEF Transaction
        <3> QED
            BY <2>2, <3>2
    <2>3. CASE i \notin K /\ Mine(R, p, i) /\ ~R.buf[i].transaction
        <3>1. T[i] = R.tr[i]
            BY <2>3
        <3> HIDE DEF T
        <3> QED
            BY <2>3, <3>1 DEF SInv, Linked
    <2>4. CASE i \notin K /\ ~Mine(R, p, i)
        BY <2>4
    <2> QED
        BY <2>1, <2>2, <2>3, <2>4
<1>11. V.tr = T /\ V.buf = B /\ V.stack = R.stack /\ V.err = R.err /\ V.err2 = R.err2 /\ V.pc = R.pc
    BY <1>1, <1>2 DEF StateType
<1> HIDE DEF T, B
<1>12. V \in StateType
    BY <1>1, <1>2, <1>4, <1>5 DEF StateType
<1>13. Calls(T) = Calls(R.tr)
    BY <1>6, <1>7 DEF Calls
<1>14. \A i \in Calls(R.tr) : i \notin K /\ SameCall(R.tr, T, i)
    BY <1>6 DEF Calls
<1>15. Chains(V.tr, V.stack, th, (P \ K) \cap Calls(V.tr))
    <2>1. (P \ K) \cap Calls(V.tr) = P \cap Calls(R.tr)
        BY <1>11, <1>13, <1>14
    <2>2. Chains(T, R.stack, th, P \cap Calls(R.tr))
        BY <1>13, <1>14, ChainsSame DEF SInv
    <2> QED
        BY <1>11, <2>1, <2>2
<1>16. Linked(V)
    <2> SUFFICES ASSUME NEW i \in Id
                 PROVE  (B[i] # None /\ B[i].transaction) <=> (T[i] # None /\ T[i].buffer)
        BY <1>11 DEF Linked
    <2>1. CASE Mine(R, p, i)
        BY <1>9, <1>10, <2>1
    <2>2. CASE ~Mine(R, p, i)
        BY <1>9, <1>10, <2>2 DEF SInv, Linked
    <2> QED
        BY <2>1, <2>2
<1>17. \A x \in th : R.stack[x] # None => R.stack[x] \in Calls(R.tr)
    BY ChainsParts DEF SInv, Chains, Tops, Rel
<1>18. Errors(V, th) /\ Waits(V, th)
    <2>1. Errors(R, th) /\ Waits(R, th)
        BY DEF SInv
    <2>2. \A x \in th : R.stack[x] # None => T[R.stack[x]].to_thread = R.tr[R.stack[x]].to_thread
        BY <1>14, <1>17 DEF SameCall
    <2>3. Errors(V, th)
        BY <1>11, <2>1, <2>2 DEF Errors
    <2>4. Waits(V, th)
        BY <1>11, <2>1 DEF Waits
    <2> QED
        BY <2>3, <2>4
<1>19. SInv(V, th, P \ K)
    <2>1. P \ K \subseteq {i \in Id : V.tr[i] # None}
        BY <1>1, <1>8, <1>11 DEF SInv
    <2>2. \A i \in Id : V.tr[i] # None /\ i \notin P \ K => i \in Calls(V.tr)
        BY <1>6, <1>7, <1>11, <1>13 DEF SInv
    <2> QED
        BY <1>1, <1>12, <1>15, <1>16, <1>18, <2>1, <2>2 DEF SInv
<1>20. \A x : From(T, x) = From(R.tr, x)
    BY <1>13, <1>14 DEF From, SameCall
<1> QED
    BY <1>8, <1>9, <1>11, <1>19, <1>20

\* The works that a node kept back are ids.
LEMMA KeptIs ==
    ASSUME NEW s, Works(s), Complete \notin ToSet(s)
    PROVE  ToSet(s) = Ids(s)
<1>1. s \in Seq(Id \cup {Complete}) /\ DOMAIN s = 1 .. Len(s)
    BY DEF Works
<1>2. \A k \in 1 .. Len(s) : s[k] \in Id
    BY <1>1 DEF ToSet
<1> QED
    BY <1>1, <1>2 DEF ToSet, Ids, OnList

\* A process is released.
LEMMA StepDeferredRelease ==
    ASSUME Inv, NEW p \in Proc, DeferredRelease(p)
    PROVE  Inv'
<1> DEFINE own == ThreadsOf(p)
           K == ToSet(async_todo[p])
           P == Listed(todo, proc_todo, async_todo)
           S == State
<1>1. /\ live[p] /\ \A x \in own : pc[x] = "user"
      /\ live' = [live EXCEPT ![p] = FALSE] /\ threads' = threads \ own
      /\ todo' = [x \in Thread |-> IF x \in own THEN <<>> ELSE todo[x]]
      /\ owed' = [x \in Thread |-> IF x \in own THEN 0 ELSE owed[x]]
      /\ proc_todo' = [proc_todo EXCEPT ![p] = <<>>]
      /\ async_todo' = [async_todo EXCEPT ![p] = <<>>]
      /\ has_async' = [has_async EXCEPT ![p] = FALSE]
    BY SMTT(20) DEF DeferredRelease
<1>2. PICK order \in SetToSeqs(own) : Becomes(Clean(ReleaseWork(FreeThreads(State, order), proc_todo[p]), K, p))
    BY DEF DeferredRelease, Clean, Mine
<1> DEFINE F == FreeThreads(State, order)
           R == ReleaseWork(F, proc_todo[p])
           V == Clean(R, K, p)
<1>3. Becomes(V)
    BY <1>2
<1>4. F = FreeThreads(S, order) /\ R = ReleaseWork(F, proc_todo[p]) /\ V = Clean(R, K, p)
    OBVIOUS
<1>5. /\ SInv(S, threads, P) /\ S = State /\ S.tr = tr /\ S.buf = buf /\ S.pc = pc /\ S.stack = stack
      /\ S.err = err /\ S.err2 = err2 /\ threads \subseteq Thread
    BY InvState
<1>6. /\ DOMAIN todo = Thread /\ DOMAIN proc_todo = Proc /\ DOMAIN async_todo = Proc
      /\ live \in [Proc -> BOOLEAN] /\ has_async \in [Proc -> BOOLEAN]
      /\ \A x \in Thread : Works(todo[x])
      /\ Works(proc_todo[p]) /\ Works(async_todo[p]) /\ Complete \notin ToSet(async_todo[p])
    BY DEF Inv, Types
<1>7. own \subseteq threads /\ \A x \in threads : x \in own <=> ProcOf[x] = p
    BY DEF ThreadsOf
<1>8. K = Ids(async_todo[p])
    BY <1>6, KeptIs
<1>9. /\ \A y \in Thread : Ids(todo[y]) \subseteq P
      /\ \A q \in Proc : Ids(proc_todo[q]) \subseteq P /\ Ids(async_todo[q]) \subseteq P
      /\ \A i \in P : \/ \E y \in Thread : i \in Ids(todo[y])
                      \/ \E q \in Proc : i \in Ids(proc_todo[q]) \/ i \in Ids(async_todo[q])
      /\ P \subseteq Id
    BY DEF Listed, Ids
<1> HIDE DEF F, R, V, S, own, K, P
<1> DEFINE th == threads \ own
           P1 == P \ Todos(own)
           P2 == P1 \ Ids(proc_todo[p])
           L == P2 \ K
<1>10. SInv(F, th, P1) /\ Frame(S, F, th, P1) /\ Still(S, F, Thread \ threads) /\ Freed(F, own)
    <2>1. \A x \in own : Works(todo[x]) /\ Ids(todo[x]) \subseteq P
        BY <1>5, <1>6, <1>7, <1>9
    <2>2. \A x, y \in own : x # y => Ids(todo[x]) \cap Ids(todo[y]) = {}
        BY <1>5, <1>7 DEF Inv, Apart
    <2> QED
        BY <1>2, <1>4, <1>5, <1>7, <2>1, <2>2, FreeThreadsIs
<1>11. SInv(R, th, P2) /\ Frame(F, R, th, P2) /\ Still(F, R, Thread \ th)
    <2>1. Ids(proc_todo[p]) \subseteq P1
        <3>1. \A x \in own : Ids(todo[x]) \cap Ids(proc_todo[p]) = {}
            BY <1>5, <1>7 DEF Inv, Apart
        <3> QED
            BY <1>9, <3>1 DEF Todos
    <2> HIDE DEF P1, th
    <2> QED
        BY <1>4, <1>6, <1>10, <2>1, ReleaseAll
<1>12. Frame(S, R, th, P2)
    <2>1. P2 \subseteq P1
        OBVIOUS
    <2> HIDE DEF P1, P2, th
    <2> QED
        BY <1>10, <1>11, <2>1, FrameTrans
<1>13. Still(S, R, Thread \ threads) /\ Freed(R, own)
    <2>1. \A y \in Thread \ threads : y \in Thread \ th
        OBVIOUS
    <2>2. \A y \in own : y \in Thread \ th
        BY <1>5, <1>7
    <2> HIDE DEF th, P1, P2
    <2>3. Still(S, R, Thread \ threads)
        BY <1>10, <1>11, <2>1 DEF Still
    <2>4. Freed(R, own)
        BY <1>10, <1>11, <2>2 DEF Still, Freed
    <2> QED
        BY <2>3, <2>4
<1>14. \A i \in P2 : SameWork(tr[i], R.tr[i]) /\ R.buf[i] = buf[i]
    BY <1>5, <1>12 DEF Frame
<1>15. K \subseteq P2
    <2>1. \A x \in own : Ids(todo[x]) \cap K = {}
        BY <1>5, <1>7, <1>8 DEF Inv, Apart
    <2>2. Ids(proc_todo[p]) \cap K = {}
        BY <1>8 DEF Inv, Apart
    <2> QED
        BY <1>8, <1>9, <2>1, <2>2 DEF Todos
<1>16. \A i \in K : i \notin Calls(R.tr) /\ Mine(R, p, i)
    <2> SUFFICES ASSUME NEW i \in K PROVE i \notin Calls(R.tr) /\ Mine(R, p, i)
        OBVIOUS
    <2>1. Fit(tr, buf, i, p) /\ tr[i].one_way
        BY <1>8 DEF Inv, Placed
    <2>2. SameWork(tr[i], R.tr[i]) /\ R.buf[i] = buf[i]
        BY <1>14, <1>15
    <2> QED
        BY <2>1, <2>2 DEF SameWork, Fit, Mine, Calls
<1>17. \A i \in L : \/ \E y \in Thread \ own : i \in Ids(todo[y])
                    \/ \E q \in Proc \ {p} : i \in Ids(proc_todo[q]) \/ i \in Ids(async_todo[q])
    BY <1>8, <1>9 DEF Todos
<1>18. \A i \in L : ~Mine(R, p, i)
    <2> SUFFICES ASSUME NEW i \in L PROVE ~Mine(R, p, i)
        OBVIOUS
    <2>1. R.buf[i] = buf[i]
        BY <1>14
    <2>2. CASE \E y \in Thread \ own : i \in Ids(todo[y])
        <3>1. PICK y \in Thread \ own : i \in Ids(todo[y])
            BY <2>2
        <3>2. y \in threads
            BY <3>1, WorksEmpty DEF Inv, Gone
        <3>3. buf[i].proc = ProcOf[y] /\ ProcOf[y] # p
            BY <1>7, <3>1, <3>2 DEF Inv, Placed, Fit
        <3> QED
            BY <2>1, <3>3 DEF Mine
    <2>3. CASE \E q \in Proc \ {p} : i \in Ids(proc_todo[q]) \/ i \in Ids(async_todo[q])
        <3>1. PICK q \in Proc \ {p} : i \in Ids(proc_todo[q]) \/ i \in Ids(async_todo[q])
            BY <2>3
        <3>2. buf[i].proc = q
            BY <3>1 DEF Inv, Placed, Fit
        <3> QED
            BY <2>1, <3>1, <3>2 DEF Mine
    <2> QED
        BY <1>17, <2>2, <2>3
<1>19. /\ SInv(V, th, L)
       /\ \A i \in L : V.tr[i] = R.tr[i] /\ V.buf[i] = R.buf[i]
       /\ V.stack = R.stack /\ V.err = R.err /\ V.err2 = R.err2 /\ V.pc = R.pc
       /\ \A i \in Id : V.buf[i] = IF Mine(R, p, i) THEN None ELSE R.buf[i]
       /\ \A x : From(V.tr, x) = From(R.tr, x)
    <2> HIDE DEF P1, P2, th
    <2>1. L = P2 \ K
        OBVIOUS
    <2>2. KeptBy(R, P2, K, p)
        BY <1>15, <1>16, <1>18 DEF KeptBy
    <2> HIDE DEF L
    <2>3. /\ SInv(V, th, P2 \ K)
          /\ \A i \in P2 \ K : V.tr[i] = R.tr[i] /\ V.buf[i] = R.buf[i]
          /\ V.stack = R.stack /\ V.err = R.err /\ V.err2 = R.err2 /\ V.pc = R.pc
          /\ \A i \in Id : V.buf[i] = IF Mine(R, p, i) THEN None ELSE R.buf[i]
          /\ \A x : From(V.tr, x) = From(R.tr, x)
        BY <1>4, <1>11, <2>2, CleanIs
    <2> QED
        BY <2>1, <2>3
<1>20. Listed(todo', proc_todo', async_todo') = L
    <2>1. /\ \A y \in Thread : Ids(todo'[y]) = IF y \in own THEN {} ELSE Ids(todo[y])
          /\ \A q \in Proc : Ids(proc_todo'[q]) = IF q = p THEN {} ELSE Ids(proc_todo[q])
          /\ \A q \in Proc : Ids(async_todo'[q]) = IF q = p THEN {} ELSE Ids(async_todo[q])
        BY <1>1, <1>6, WorksEmpty
    <2>2. ASSUME NEW i \in L PROVE i \in Listed(todo', proc_todo', async_todo')
        <3>1. i \in Id
            BY <1>9
        <3> HIDE DEF L
        <3> QED
            BY <1>17, <2>1, <3>1 DEF Listed
    <2>3. ASSUME NEW i \in Listed(todo', proc_todo', async_todo') PROVE i \in L
        <3> USE DEF Inv, Apart
        <3>1. i \in Id /\ (\/ \E y \in Thread \ own : i \in Ids(todo[y])
                           \/ \E q \in Proc \ {p} : i \in Ids(proc_todo[q])
                           \/ \E q \in Proc \ {p} : i \in Ids(async_todo[q]))
            BY <2>1 DEF Listed
        <3>2. CASE \E y \in Thread \ own : i \in Ids(todo[y])
            <4>1. PICK y \in Thread \ own : i \in Ids(todo[y])
                BY <3>2
            <4>2. \A z \in own : i \notin Ids(todo[z])
                BY <1>5, <1>7, <4>1
            <4>3. i \notin Ids(proc_todo[p]) /\ i \notin Ids(async_todo[p])
                BY <4>1
            <4> QED
                BY <1>8, <1>9, <4>1, <4>2, <4>3 DEF Todos
        <3>3. CASE \E q \in Proc \ {p} : i \in Ids(proc_todo[q])
            <4>1. PICK q \in Proc \ {p} : i \in Ids(proc_todo[q])
                BY <3>3
            <4>2. \A z \in own : i \notin Ids(todo[z])
                BY <1>5, <1>7, <4>1
            <4>3. i \notin Ids(proc_todo[p]) /\ i \notin Ids(async_todo[p])
                BY <4>1
            <4> QED
                BY <1>8, <1>9, <4>1, <4>2, <4>3 DEF Todos
        <3>4. CASE \E q \in Proc \ {p} : i \in Ids(async_todo[q])
            <4>1. PICK q \in Proc \ {p} : i \in Ids(async_todo[q])
                BY <3>4
            <4>2. \A z \in own : i \notin Ids(todo[z])
                BY <1>5, <1>7, <4>1
            <4>3. i \notin Ids(proc_todo[p]) /\ i \notin Ids(async_todo[p])
                BY <4>1
            <4> QED
                BY <1>8, <1>9, <4>1, <4>2, <4>3 DEF Todos
        <3> QED
            BY <3>1, <3>2, <3>3, <3>4
    <2> QED
        BY <2>2, <2>3
<1>21. Released(V, own, L)
    <2>1. \A j \in L : SameWork(tr[j], V.tr[j]) /\ V.buf[j] = buf[j]
        BY <1>14, <1>19
    <2>2. \A y \in Thread : V.pc[y] = pc[y] \/ (pc[y] = "thread_sleep" /\ V.pc[y] = "thread_wait")
        BY <1>5, <1>12, <1>19 DEF Frame
    <2>3. \A y \in threads \ own : owed'[y] + Due(State, y) = owed[y] + Due(V, y)
        <3>1. \A y : Due(V, y) = Due(R, y)
            BY <1>19 DEF Due
        <3>2. \A y \in threads \ own : Due(V, y) = Due(State, y)
            BY <1>5, <1>12, <3>1 DEF Frame
        <3>3. \A y \in threads \ own : owed'[y] = owed[y]
            BY <1>1, <1>5
        <3> QED
            BY <3>2, <3>3
    <2>9. /\ owed' \in [Thread -> Int]
          /\ \A y \in Thread \ threads : owed'[y] = owed[y]
          /\ \A y \in own : owed'[y] = 0
        <3>1. owed \in [Thread -> Int]
            BY DEF Inv, Types
        <3> QED
            BY <1>1, <1>5, <1>7, <3>1
    <2>4. Still(State, V, Thread \ threads) /\ Freed(V, own)
        <3>1. Still(S, V, Thread \ threads)
            BY <1>13, <1>19 DEF Still
        <3>2. Freed(V, own)
            BY <1>13, <1>19 DEF Freed
        <3> QED
            BY <1>5, <3>1, <3>2
    <2>5. /\ DOMAIN proc_todo' = Proc /\ DOMAIN async_todo' = Proc
          /\ \A q \in Proc : proc_todo'[q] = proc_todo[q] \/ proc_todo'[q] = <<>>
          /\ \A q \in Proc : async_todo'[q] = async_todo[q] \/ async_todo'[q] = <<>>
          /\ live' \in [Proc -> BOOLEAN] /\ has_async' \in [Proc -> BOOLEAN]
        BY <1>1, <1>6
    <2>6. \A q \in Proc : live'[q] = live[q] \/ \A y \in threads : ProcOf[y] = q => y \in own
        BY <1>1, <1>6, <1>7
    <2>7. \A q \in Proc : ~live'[q] => proc_todo'[q] = <<>> /\ async_todo'[q] = <<>> /\ ~has_async'[q]
        BY <1>1, <1>6 DEF Inv, Gone
    <2>8. SInv(V, threads \ own, L)
        BY <1>19
    <2> HIDE DEF L, th
    <2> QED
        BY <1>1, <1>3, <1>7, <1>20, <2>1, <2>2, <2>3, <2>4, <2>5, <2>6, <2>7, <2>8, <2>9 DEF Released
<1>22. OneAsync'
    <2> SUFFICES ASSUME NEW q \in Proc
                 PROVE  IF has_async'[q] THEN \E i : AsyncOf(buf', async_todo', q) = {i}
                        ELSE AsyncOf(buf', async_todo', q) = {} /\ async_todo'[q] = <<>>
        BY DEF OneAsync
    <2>1. buf' = V.buf
        BY <1>3 DEF Becomes
    <2>2. \A j \in Id : SameBuf(buf[j], R.buf[j])
        BY <1>5, <1>12 DEF Frame
    <2>3. \A j \in Id : buf'[j] = IF Mine(R, p, j) THEN None ELSE R.buf[j]
        BY <1>19, <2>1
    <2>4. CASE q = p
        <3>1. ~has_async'[q] /\ async_todo'[q] = <<>>
            BY <1>1, <1>6, <2>4
        <3>2. AsyncOf(buf', async_todo', q) = {}
            BY <2>3, <2>4 DEF AsyncOf, Mine
        <3> QED
            BY <3>1, <3>2
    <2>5. CASE q # p
        <3>1. has_async'[q] = has_async[q] /\ async_todo'[q] = async_todo[q]
            BY <1>1, <1>6, <2>5
        <3>2. \A j \in Id : /\ (buf'[j] # None /\ buf'[j].proc = q) <=> (buf[j] # None /\ buf[j].proc = q)
                            /\ (buf[j] # None /\ buf[j].proc = q) => buf'[j].async = buf[j].async
            BY <2>2, <2>3, <2>5 DEF SameBuf, Mine
        <3>3. AsyncOf(buf', async_todo', q) = AsyncOf(buf, async_todo, q)
            BY <3>1, <3>2 DEF AsyncOf
        <3> QED
            BY <3>1, <3>3 DEF Inv, OneAsync
    <2> QED
        BY <2>4, <2>5
<1> HIDE DEF L
<1> QED
    BY <1>21, <1>22, StepReleased

-----------------------------------------------------------------------------
\* Thread x has taken the call t off its stack, and is told e.
Popped(R, x, t, e) ==
    /\ R \in StateType /\ R.tr = [tr EXCEPT ![t] = [tr[t] EXCEPT !.to_thread = None]] /\ R.buf = buf
    /\ R.stack = [stack EXCEPT ![x] = tr[t].to_parent]
    /\ R.err = [err EXCEPT ![x] = e] /\ R.err2 = err2 /\ R.pc = pc

\* A call that is popped is as good as queued.
LEMMA PopIs ==
    ASSUME Inv, NEW x \in threads, pc[x] = "user", err[x] = Ok,
           NEW t, t = stack[x], t # None, tr[t].to_thread = x,
           NEW e \in {Ok, Complete}, NEW R, Popped(R, x, t, e),
           NEW P, P = Listed(todo, proc_todo, async_todo)
    PROVE  /\ t \in Id /\ t \notin P /\ t \in Calls(tr) /\ t \in Calls(R.tr)
           /\ SInv(R, threads, P \cup {t})
           /\ \A j \in Id : j # t => R.tr[j] = tr[j]
           /\ R.tr[t].from = tr[t].from /\ R.tr[t].from_parent = tr[t].from_parent
           /\ \A y : From(R.tr, y) = From(tr, y)
<1> DEFINE S == State
           Q == P \cap Calls(tr)
<1>1. /\ SInv(S, threads, P) /\ S.tr = tr /\ S.buf = buf /\ S.stack = stack
      /\ S.err = err /\ S.err2 = err2 /\ S.pc = pc
      /\ tr \in [Id -> Transaction \cup {None}] /\ stack \in [Thread -> Id \cup {None}]
      /\ err \in [Thread -> Code] /\ threads \subseteq Thread
    BY InvState
<1> HIDE DEF S
<1>2. Chains(tr, stack, threads, Q)
    BY <1>1 DEF SInv
<1>3. PICK d, r : ChainsBy(tr, stack, threads, Q, d, r)
    BY <1>2 DEF Chains
<1>4. t \in Calls(tr) /\ t \notin Q
    <2> HIDE DEF Q
    <2> QED
        BY <1>3, TopIsTip
<1>5. t \in Id /\ t \notin P /\ tr[t] \in Transaction
    BY <1>1, <1>4 DEF Calls
<1> DEFINE u == [tr[t] EXCEPT !.to_thread = None]
<1>6. /\ u \in Transaction /\ u # None /\ u.from = tr[t].from /\ u.from_parent = tr[t].from_parent
      /\ u.to_thread = None /\ u.reply = tr[t].reply /\ u.one_way = tr[t].one_way
      /\ u.buffer = tr[t].buffer
    <2>1. u \in Transaction
        BY <1>5 DEF Transaction
    <2>2. u # None
        BY <2>1, Names
    <2> QED
        BY <1>5, <2>1, <2>2 DEF Transaction
<1> HIDE DEF u
<1>7. R.tr[t] = u /\ \A j \in Id : j # t => R.tr[j] = tr[j]
    BY <1>1, <1>5 DEF Popped, u
<1>8. /\ R \in StateType /\ R.buf = buf /\ R.err2 = err2 /\ R.pc = pc
      /\ R.stack[x] = tr[t].to_parent /\ R.err[x] = e
      /\ \A y \in Thread : y # x => R.stack[y] = stack[y] /\ R.err[y] = err[y]
    BY <1>1 DEF Popped
<1>9. Calls(R.tr) = Calls(tr)
    BY <1>4, <1>5, <1>6, <1>7 DEF Calls
<1>10. \A j \in Calls(tr) : j # t => SameCall(tr, R.tr, j)
    BY <1>7 DEF Calls, SameCall
<1>11. Chains(R.tr, R.stack, threads, (P \cup {t}) \cap Calls(R.tr))
    <2>1. (P \cup {t}) \cap Calls(R.tr) = Q \cup {t}
        BY <1>4, <1>9
    <2>2. \A y \in threads : y # x => R.stack[y] = stack[y]
        BY <1>1, <1>8
    <2> DEFINE T == R.tr
               v == R.stack
    <2>3. PopStep(tr, T, stack, v, threads, Q, x, t)
        <3> HIDE DEF Q
        <3> QED
            BY <1>2, <1>6, <1>7, <1>8, <1>9, <1>10, <2>2 DEF PopStep
    <2> HIDE DEF Q, T, v
    <2>4. Chains(T, v, threads, Q \cup {t})
        BY <2>3, ChainsPop
    <2> QED
        BY <2>1, <2>4 DEF T, v
<1>12. Linked(R)
    <2>1. Linked(S)
        BY <1>1 DEF SInv
    <2>2. \A j \in Id : /\ R.tr[j] # None <=> tr[j] # None
                        /\ R.tr[j] # None => R.tr[j].buffer = tr[j].buffer
        BY <1>5, <1>6, <1>7, Names
    <2> QED
        BY <1>1, <1>8, <2>1, <2>2 DEF Linked
<1>13. Errors(R, threads)
    <2> SUFFICES ASSUME NEW y \in threads, R.err2[y] # Ok
                 PROVE  R.err[y] # Ok /\ (R.stack[y] # None => R.tr[R.stack[y]].to_thread = y)
        BY DEF Errors
    <2>1. err[y] # Ok /\ (stack[y] # None => tr[stack[y]].to_thread = y)
        BY <1>1, <1>8, InvThread
    <2>2. y # x /\ y \in Thread
        BY <1>1, <2>1
    <2>3. R.err[y] = err[y] /\ R.stack[y] = stack[y] /\ stack[y] # t
        BY <1>8, <2>1, <2>2
    <2> QED
        BY <1>1, <1>7, <2>1, <2>2, <2>3
<1>14. Waits(R, threads)
    <2> SUFFICES ASSUME NEW y \in threads
                 PROVE  /\ R.pc[y] \in {"proc_wait", "proc_sleep"} => R.stack[y] = None /\ R.err[y] = Ok
                        /\ R.pc[y] = "thread_sleep" => R.err[y] = Ok
        BY DEF Waits
    <2>1. CASE y = x
        BY <1>8, <2>1
    <2>2. CASE y # x
        BY <1>1, <1>8, <2>2, InvThread
    <2> QED
        BY <2>1, <2>2
<1>15. SInv(R, threads, P \cup {t})
    <2>1. P \cup {t} \subseteq {j \in Id : R.tr[j] # None}
        BY <1>1, <1>5, <1>6, <1>7 DEF SInv
    <2>2. \A j \in Id : R.tr[j] # None /\ j \notin P \cup {t} => j \in Calls(R.tr)
        BY <1>1, <1>7, <1>9 DEF SInv
    <2> QED
        BY <1>1, <1>8, <1>11, <1>12, <1>13, <1>14, <2>1, <2>2 DEF SInv
<1>16. \A y : From(R.tr, y) = From(tr, y)
    BY <1>6, <1>7, <1>9 DEF From, Calls
<1> QED
    BY <1>4, <1>5, <1>6, <1>7, <1>9, <1>15, <1>16

\* The walk up from i depends on the senders and the parents of the calls.
LEMMA ChainAgree ==
    ASSUME NEW T, NEW U, NEW s, NEW th, NEW Q, Chains(T, s, th, Q), NEW i \in Calls(T),
           \A j \in Calls(T) : U[j].from = T[j].from /\ U[j].from_parent = T[j].from_parent
    PROVE  Over(U, i) = Over(T, i) /\ Upto(U, i) = Upto(T, i)
<1> DEFINE C == FromChain(T, i)
           E == FromChain(U, i)
<1>1. PICK d, r : ChainsBy(T, s, th, Q, d, r)
    BY DEF Chains
<1>2. ChainFn(T, i, C) /\ DOMAIN C = 0 .. N /\ ChainFn(U, i, E) /\ DOMAIN E = 0 .. N
    BY FromChainIs
<1> HIDE DEF C, E
<1>3. /\ C[N] = None /\ \A k \in 0 .. N : C[k] # None => C[k] \in Calls(T)
    BY <1>1, <1>2, ChainEnds, ZenonT(40)
<1>4. \A k \in 0 .. N : E[k] = C[k]
    <2> DEFINE Bad == {k \in 0 .. N : E[k] # C[k]}
    <2>1. SUFFICES ASSUME Bad # {} PROVE FALSE
        OBVIOUS
    <2>2. PICK k \in Bad : \A y \in Bad : k <= y
        <3>1. Bad \in SUBSET Nat
            BY NType
        <3> HIDE DEF Bad
        <3> QED
            BY <2>1, <3>1, Least
    <2>3. k # 0
        BY <1>2, <2>2 DEF ChainFn
    <2>4. k \in 1 .. N /\ k - 1 \in 0 .. N /\ k - 1 \notin Bad
        BY <2>2, <2>3, NType
    <2>5. E[k - 1] = C[k - 1]
        BY <2>4
    <2>6. /\ C[k] = IF C[k - 1] = None THEN None ELSE T[C[k - 1]].from_parent
          /\ E[k] = IF E[k - 1] = None THEN None ELSE U[E[k - 1]].from_parent
        BY <1>2, <2>4 DEF ChainFn
    <2>7. C[k - 1] # None => C[k - 1] \in Calls(T)
        BY <1>3, <2>4
    <2>8. E[k] = C[k]
        BY <2>5, <2>6, <2>7
    <2> QED
        BY <2>2, <2>8
<1>5. {k \in DOMAIN E : E[k] = None \/ (E[k] # None /\ U[E[k]].from # None)}
      = {k \in DOMAIN C : C[k] = None \/ (C[k] # None /\ T[C[k]].from # None)}
    <2>1. \A k \in 0 .. N : C[k] # None => U[C[k]].from = T[C[k]].from
        BY <1>3
    <2>2. \A k \in 0 .. N : (E[k] = None \/ (E[k] # None /\ U[E[k]].from # None))
                            <=> (C[k] = None \/ (C[k] # None /\ T[C[k]].from # None))
        BY <1>4, <2>1
    <2> QED
        BY <1>2, <2>2
<1>6. Senderless(U, i) = Senderless(T, i)
    BY <1>5 DEF Senderless, C, E
<1> DEFINE n == Senderless(T, i)
<1>7. n \in 0 .. N
    BY <1>3, SenderlessIs DEF FirstSender, C
<1> HIDE DEF n
<1>8. \A k \in 0 .. n - 1 : E[k] = C[k]
    BY <1>4, <1>7, NType
<1>9. /\ Over(T, i) = {C[k] : k \in 0 .. n - 1} /\ Upto(T, i) = C[n]
      /\ Over(U, i) = {E[k] : k \in 0 .. n - 1} /\ Upto(U, i) = E[n]
    BY <1>6 DEF Over, Upto, C, E, n
<1> QED
    BY <1>4, <1>7, <1>8, <1>9

\* States that differ in what is freed are the same after it.
LEMMA FreeAgree ==
    ASSUME NEW A, NEW B, A \in StateType, B \in StateType, A.buf = B.buf, A.stack = B.stack,
           A.err = B.err, A.err2 = B.err2, A.pc = B.pc,
           NEW D, \A j \in Id : j \notin D => A.tr[j] = B.tr[j]
    PROVE  FreeTransactions(A, D) = FreeTransactions(B, D)
<1> DEFINE T(S) == [i \in Id |-> IF i \in D THEN None ELSE S.tr[i]]
           F(S) == [i \in Id |-> IF i \in D /\ S.buf[i] # None
                                    THEN [S.buf[i] EXCEPT !.transaction = FALSE]
                                    ELSE S.buf[i]]
<1>2. T(A) = T(B)
    OBVIOUS
<1>3. F(A) = F(B)
    OBVIOUS
<1>4. \A S : FreeTransactions(S, D) = [S EXCEPT !.tr = T(S), !.buf = F(S)]
    BY DEF FreeTransactions
<1> HIDE DEF T, F
<1>6. /\ FreeTransactions(A, D) = [tr |-> T(A), buf |-> F(A), stack |-> A.stack, err |-> A.err,
                                   err2 |-> A.err2, pc |-> A.pc]
      /\ FreeTransactions(B, D) = [tr |-> T(B), buf |-> F(B), stack |-> B.stack, err |-> B.err,
                                   err2 |-> B.err2, pc |-> B.pc]
    <2> DEFINE V == FreeTransactions(A, D)
               W == FreeTransactions(B, D)
    <2>1. V = [A EXCEPT !.tr = T(A), !.buf = F(A)] /\ W = [B EXCEPT !.tr = T(B), !.buf = F(B)]
        BY <1>4
    <2> HIDE DEF V, W
    <2>2. V = [tr |-> T(A), buf |-> F(A), stack |-> A.stack, err |-> A.err, err2 |-> A.err2, pc |-> A.pc]
        <3>1. /\ V.tr = T(A) /\ V.buf = F(A) /\ V.stack = A.stack /\ V.err = A.err
              /\ V.err2 = A.err2 /\ V.pc = A.pc
              /\ V = [tr |-> V.tr, buf |-> V.buf, stack |-> V.stack, err |-> V.err,
                      err2 |-> V.err2, pc |-> V.pc]
            BY <2>1 DEF StateType
        <3> QED
            BY <3>1
    <2>3. W = [tr |-> T(B), buf |-> F(B), stack |-> B.stack, err |-> B.err, err2 |-> B.err2, pc |-> B.pc]
        <3>1. /\ W.tr = T(B) /\ W.buf = F(B) /\ W.stack = B.stack /\ W.err = B.err
              /\ W.err2 = B.err2 /\ W.pc = B.pc
              /\ W = [tr |-> W.tr, buf |-> W.buf, stack |-> W.stack, err |-> W.err,
                      err2 |-> W.err2, pc |-> W.pc]
            BY <2>1 DEF StateType
        <3> QED
            BY <3>1
    <2> QED
        BY <2>2, <2>3 DEF V, W
<1> QED
    BY <1>2, <1>3, <1>6

\* A and B differ in the handler of t.
Alike(A, B, t) ==
    /\ A \in StateType /\ B \in StateType /\ A.buf = B.buf /\ A.stack = B.stack
    /\ A.err = B.err /\ A.err2 = B.err2 /\ A.pc = B.pc
    /\ \A j \in Id : j # t => A.tr[j] = B.tr[j]
    /\ B.tr[t] # None /\ B.tr[t].from = A.tr[t].from /\ B.tr[t].from_parent = A.tr[t].from_parent
    /\ t \in Calls(A.tr) /\ \E s, th, Q : Chains(A.tr, s, th, Q)

\* The answer does not depend on the handler of t.
LEMMA AnswerAgree ==
    ASSUME NEW A, NEW B, NEW t, Alike(A, B, t),
           NEW code, NEW V, V = SendFailedReply(B, t, code), V.tr[t] = None
    PROVE  SendFailedReply(A, t, code) = V
<1> USE DEF Alike
<1>0. PICK s, th, Q : Chains(A.tr, s, th, Q)
    OBVIOUS
<1> DEFINE g == Over(A.tr, t)
           u == Upto(A.tr, t)
           Ans(S, G, w) == IF w = None \/ (S.err[S.tr[w].from] # Ok /\ S.err2[S.tr[w].from] # Ok)
                           THEN FreeTransactions(S, G)
                           ELSE [FreeTransactions(S, G \cup {w}) EXCEPT
                                   !.stack[S.tr[w].from] = S.tr[w].from_parent,
                                   !.err2[S.tr[w].from] = IF S.err[S.tr[w].from] # Ok
                                                          THEN S.err[S.tr[w].from] ELSE @,
                                   !.err[S.tr[w].from] = code,
                                   !.pc = WakeThread(S.pc, S.tr[w].from)]
<1>1. t \in Id /\ \A j \in Calls(A.tr) : j \in Id
    BY DEF Calls
<1>2. \A j \in Calls(A.tr) : B.tr[j].from = A.tr[j].from /\ B.tr[j].from_parent = A.tr[j].from_parent
    BY <1>1
<1>3. Over(B.tr, t) = g /\ Upto(B.tr, t) = u
    BY <1>0, <1>2, ChainAgree
<1>4. SendFailedReply(A, t, code) = Ans(A, g, u) /\ SendFailedReply(B, t, code) = Ans(B, g, u)
    <2>1. /\ SendFailedReply(A, t, code) = Ans(A, Over(A.tr, t), Upto(A.tr, t))
          /\ SendFailedReply(B, t, code) = Ans(B, Over(B.tr, t), Upto(B.tr, t))
        BY Zenon DEF SendFailedReply, Over, Upto
    <2> HIDE DEF Ans
    <2> QED
        BY <1>3, <2>1
<1>5. u = None \/ u \in Calls(A.tr)
    <2> DEFINE C == FromChain(A.tr, t)
    <2>1. PICK d, r : ChainsBy(A.tr, s, th, Q, d, r)
        BY <1>0 DEF Chains
    <2>2. ChainFn(A.tr, t, C)
        BY FromChainIs
    <2> HIDE DEF C
    <2>3. C[N] = None /\ \A k \in 0 .. N : C[k] # None => C[k] \in Calls(A.tr)
        BY <2>1, <2>2, ChainEnds
    <2>4. Senderless(A.tr, t) \in 0 .. N
        BY <2>3, SenderlessIs DEF FirstSender, C
    <2> QED
        BY <2>3, <2>4 DEF Upto, C
<1> HIDE DEF g, u
<1>6. CASE u = None
    <2>1. SendFailedReply(A, t, code) = FreeTransactions(A, g) /\ SendFailedReply(B, t, code) = FreeTransactions(B, g)
        BY <1>4, <1>6
    <2>2. t \in g
        <3>1. FreeTransactions(B, g).tr = [i \in Id |-> IF i \in g THEN None ELSE B.tr[i]]
            BY FreeIs
        <3> QED
            BY <1>1, <2>1, <3>1
    <2>3. \A j \in Id : j \notin g => A.tr[j] = B.tr[j]
        BY <2>2
    <2> QED
        BY <2>1, <2>3, FreeAgree
<1>7. CASE u # None
    <2>1. B.tr[u].from = A.tr[u].from /\ B.tr[u].from_parent = A.tr[u].from_parent
        BY <1>2, <1>5, <1>7
    <2> DEFINE y == A.tr[u].from
               p == A.tr[u].from_parent
    <2>2. y = B.tr[u].from /\ p = B.tr[u].from_parent /\ y = A.tr[u].from /\ p = A.tr[u].from_parent
        BY <2>1
    <2> HIDE DEF y, p
    <2>3. CASE B.err[y] # Ok /\ B.err2[y] # Ok
        <3>1. SendFailedReply(A, t, code) = FreeTransactions(A, g) /\ SendFailedReply(B, t, code) = FreeTransactions(B, g)
            BY <1>4, <2>2, <2>3
        <3>2. t \in g
            <4>1. FreeTransactions(B, g).tr = [i \in Id |-> IF i \in g THEN None ELSE B.tr[i]]
                BY FreeIs
            <4> QED
                BY <1>1, <3>1, <4>1
        <3>3. \A j \in Id : j \notin g => A.tr[j] = B.tr[j]
            BY <3>2
        <3> QED
            BY <3>1, <3>3, FreeAgree
    <2>4. CASE ~(B.err[y] # Ok /\ B.err2[y] # Ok)
        <3> DEFINE End(F) == [F EXCEPT !.stack[y] = p,
                                 !.err2[y] = IF A.err[y] # Ok THEN A.err[y] ELSE @,
                                 !.err[y] = code,
                                 !.pc = WakeThread(A.pc, y)]
                   D == g \cup {u}
        <3>1. /\ SendFailedReply(A, t, code) = End(FreeTransactions(A, D))
              /\ SendFailedReply(B, t, code) = End(FreeTransactions(B, D))
            BY <1>4, <1>7, <2>2, <2>4
        <3>2. t \in D
            <4> DEFINE F == FreeTransactions(B, D)
            <4>1. F \in StateType /\ F.tr = [i \in Id |-> IF i \in D THEN None ELSE B.tr[i]]
                <5> HIDE DEF D
                <5> QED
                    BY FreeIs
            <4>2. \A G \in StateType : End(G).tr = G.tr
                BY DEF StateType
            <4> HIDE DEF F, End
            <4>3. F.tr[t] = None
                BY <3>1, <4>1, <4>2 DEF F
            <4> QED
                BY <1>1, <4>1, <4>3
        <3>3. \A j \in Id : j \notin D => A.tr[j] = B.tr[j]
            BY <3>2
        <3>4. FreeTransactions(A, D) = FreeTransactions(B, D)
            <4> HIDE DEF D
            <4> QED
                BY <3>3, FreeAgree
        <3> QED
            BY <3>1, <3>4
    <2> QED
        BY <2>3, <2>4
<1> QED
    BY <1>6, <1>7

\* Thread x has taken t off its stack and is told that its reply is complete.
Acked(A, x, t) ==
    A = [tr |-> tr, buf |-> buf, stack |-> [stack EXCEPT ![x] = tr[t].to_parent],
         err |-> [err EXCEPT ![x] = Complete], err2 |-> err2, pc |-> pc]

\* A reply that fails, or that has nobody to go to.
LEMMA ReplyFails ==
    ASSUME Inv, NEW x \in threads, pc[x] = "user", err[x] = Ok,
           NEW t, t = stack[x], t # None, tr[t].to_thread = x, NEW code \in {Dead, Failed},
           NEW A, Acked(A, x, t),
           Becomes(SendFailedReply(A, t, code)), owed' = [owed EXCEPT ![x] = @ + 1],
           UNCHANGED <<live, threads, proc_todo, async_todo, has_async, todo>>
    PROVE  Inv'
<1> DEFINE S == State
           P == Listed(todo, proc_todo, async_todo)
<1>1. /\ SInv(S, threads, P) /\ S = State /\ S \in StateType /\ S.tr = tr /\ S.buf = buf /\ S.stack = stack
      /\ S.err = err /\ S.err2 = err2 /\ S.pc = pc
      /\ tr \in [Id -> Transaction \cup {None}] /\ buf \in [Id -> Buffer \cup {None}]
      /\ stack \in [Thread -> Id \cup {None}] /\ err \in [Thread -> Code] /\ err2 \in [Thread -> Code]
      /\ pc \in [Thread -> PC] /\ threads \subseteq Thread
    BY InvState
<1>2. Chains(tr, stack, threads, P \cap Calls(tr))
    BY <1>1 DEF SInv
<1>3. t \in Calls(tr) /\ t \in Id /\ tr[t] \in Transaction
    <2>1. t \in Calls(tr)
        BY <1>2, ChainsParts DEF Chains, Tops, Rel
    <2> QED
        BY <1>1, <2>1 DEF Calls
<1> DEFINE s == [stack EXCEPT ![x] = tr[t].to_parent]
           e == [err EXCEPT ![x] = Complete]
           T == [tr EXCEPT ![t] = [tr[t] EXCEPT !.to_thread = None]]
           B == [tr |-> T, buf |-> buf, stack |-> s, err |-> e, err2 |-> err2, pc |-> pc]
<1>4. s \in [Thread -> Id \cup {None}] /\ e \in [Thread -> Code] /\ T \in [Id -> Transaction \cup {None}]
    <2>1. tr[t].to_parent \in Id \cup {None} /\ [tr[t] EXCEPT !.to_thread = None] \in Transaction
        BY <1>3 DEF Transaction
    <2>2. Complete \in Code
        BY DEF Code
    <2> QED
        BY <1>1, <1>3, <2>1, <2>2
<1>5. A = [tr |-> tr, buf |-> buf, stack |-> s, err |-> e, err2 |-> err2, pc |-> pc]
    BY DEF Acked
<1> HIDE DEF s, e, T
<1>6. /\ A.tr = tr /\ A.buf = buf /\ A.stack = s /\ A.err = e /\ A.err2 = err2 /\ A.pc = pc
      /\ B.tr = T /\ B.buf = buf /\ B.stack = s /\ B.err = e /\ B.err2 = err2 /\ B.pc = pc
    BY <1>5
<1>7. A \in StateType /\ B \in StateType
    BY <1>1, <1>4, <1>5 DEF StateType, PC
<1>8. Popped(B, x, t, Complete)
    BY <1>6, <1>7 DEF Popped, s, e, T
<1> HIDE DEF B, S, P
<1>9. /\ t \notin P /\ t \in Calls(B.tr) /\ SInv(B, threads, P \cup {t})
      /\ \A j \in Id : j # t => B.tr[j] = tr[j]
      /\ B.tr[t].from = tr[t].from /\ B.tr[t].from_parent = tr[t].from_parent
      /\ \A y : From(B.tr, y) = From(tr, y)
    <2>1. /\ Inv /\ x \in threads /\ pc[x] = "user" /\ err[x] = Ok /\ t = stack[x] /\ t # None
          /\ tr[t].to_thread = x /\ Complete \in {Ok, Complete}
          /\ P = Listed(todo, proc_todo, async_todo)
        BY DEF P
    <2> QED
        BY ONLY <1>8, <2>1, PopIs
<1> DEFINE V == SendFailedReply(B, t, code)
<1>10. /\ SInv(V, threads, P) /\ Frame(B, V, threads, P) /\ Still(B, V, Thread \ threads)
       /\ V.tr[t] = None
    <2>1. (P \cup {t}) \ {t} = P
        BY <1>9
    <2>5. V = SendFailedReply(B, t, code)
        OBVIOUS
    <2> DEFINE Pt == P \cup {t}
    <2>3. SInv(B, threads, Pt) /\ t \in Pt /\ t \in Calls(B.tr)
        BY <1>9
    <2>4. code \in {Dead, Failed}
        OBVIOUS
    <2> HIDE DEF V, Pt
    <2>2. /\ SInv(V, threads, Pt \ {t}) /\ Frame(B, V, threads, Pt \ {t}) /\ Still(B, V, Thread \ threads)
          /\ V.tr[t] = None
        BY ONLY <2>3, <2>4, <2>5, Answer, ZenonT(40)
    <2> QED
        BY <2>1, <2>2 DEF Pt
<1>11. SendFailedReply(A, t, code) = V
    <2>1. Chains(A.tr, stack, threads, P \cap Calls(tr)) /\ t \in Calls(A.tr)
        BY <1>2, <1>3, <1>6
    <2>2. /\ A.buf = B.buf /\ A.stack = B.stack /\ A.err = B.err /\ A.err2 = B.err2 /\ A.pc = B.pc
          /\ \A j \in Id : j # t => A.tr[j] = B.tr[j]
          /\ B.tr[t] # None /\ B.tr[t].from = A.tr[t].from /\ B.tr[t].from_parent = A.tr[t].from_parent
        BY <1>6, <1>9 DEF Calls
    <2>3. Alike(A, B, t)
        BY <1>7, <2>1, <2>2 DEF Alike
    <2>4. V = SendFailedReply(B, t, code)
        OBVIOUS
    <2>5. V.tr[t] = None
        BY <1>10
    <2> HIDE DEF V
    <2> QED
        BY ONLY <2>3, <2>4, <2>5, AnswerAgree
<1> HIDE DEF V
<1>12. Released(V, {}, P)
    <2>1. \A j \in P : SameWork(tr[j], V.tr[j]) /\ V.buf[j] = buf[j]
        <3>1. \A j \in P : B.tr[j] = tr[j]
            BY <1>1, <1>9 DEF SInv
        <3> QED
            BY <1>6, <1>10, <3>1 DEF Frame
    <2>2. \A y \in Thread : V.pc[y] = pc[y] \/ (pc[y] = "thread_sleep" /\ V.pc[y] = "thread_wait")
        BY <1>6, <1>10 DEF Frame
    <2>3. \A y \in threads \ {} : owed'[y] + Due(State, y) = owed[y] + Due(V, y)
        <3> SUFFICES ASSUME NEW y \in threads PROVE owed'[y] + Due(State, y) = owed[y] + Due(V, y)
            OBVIOUS
        <3>1. Due(V, y) = Due(B, y)
            BY <1>10 DEF Frame
        <3>2. owed \in [Thread -> Int] /\ y \in Thread /\ x \in Thread
            BY <1>1 DEF Inv, Types
        <3>3. owed'[y] = owed[y] + (IF y = x THEN 1 ELSE 0)
            BY <3>2
        <3>4. Due(B, y) = Due(S, y) + (IF y = x THEN 1 ELSE 0)
            <4>1. From(B.tr, y) = From(S.tr, y) /\ Cardinality(From(S.tr, y)) \in Nat
                BY <1>1, <1>9, FromFinite
            <4>2. /\ B.err[y] = IF y = x THEN Complete ELSE S.err[y]
                  /\ S.err[x] = Ok /\ B.err2[y] = S.err2[y] /\ Complete # Ok
                BY <1>1, <1>6, <3>2 DEF e, Complete, Ok
            <4> QED
                BY <4>1, <4>2 DEF Due
        <3>5. Due(S, y) \in Int
            BY FromFinite DEF Due
        <3> QED
            BY <1>1, <3>1, <3>2, <3>3, <3>4, <3>5
    <2>4. Still(State, V, Thread \ threads) /\ Freed(V, {})
        <3>1. Still(S, V, Thread \ threads)
            <4> SUFFICES ASSUME NEW y \in Thread \ threads
                         PROVE  /\ V.stack[y] = S.stack[y] /\ V.pc[y] = S.pc[y]
                                /\ V.err[y] = S.err[y] /\ V.err2[y] = S.err2[y]
                BY DEF Still
            <4>1. /\ V.stack[y] = B.stack[y] /\ V.pc[y] = B.pc[y]
                  /\ V.err[y] = B.err[y] /\ V.err2[y] = B.err2[y]
                BY <1>10 DEF Still
            <4>2. y # x
                OBVIOUS
            <4>3. s[y] = stack[y] /\ e[y] = err[y]
                BY <1>1, <4>2 DEF s, e
            <4> QED
                BY <1>1, <1>6, <4>1, <4>3
        <3> QED
            BY <1>1, <3>1 DEF Freed
    <2>5. /\ owed' \in [Thread -> Int] /\ \A y \in Thread \ threads : owed'[y] = owed[y]
          /\ DOMAIN todo' = Thread /\ \A y \in Thread : todo'[y] = IF y \in {} THEN <<>> ELSE todo[y]
          /\ DOMAIN proc_todo' = Proc /\ DOMAIN async_todo' = Proc
          /\ live' \in [Proc -> BOOLEAN] /\ has_async' \in [Proc -> BOOLEAN]
        BY <1>1 DEF Inv, Types
    <2>6. \A q \in Proc : ~live'[q] => proc_todo'[q] = <<>> /\ async_todo'[q] = <<>> /\ ~has_async'[q]
        BY DEF Inv, Gone
    <2>7. threads \ {} = threads /\ Listed(todo', proc_todo', async_todo') = P
        BY DEF P
    <2> QED
        BY <1>10, <1>11, <2>1, <2>2, <2>3, <2>4, <2>5, <2>6, <2>7 DEF Released
<1>13. OneAsync'
    <2>1. buf' = V.buf
        BY <1>11 DEF Becomes
    <2>2. \A j \in Id : SameBuf(buf[j], V.buf[j])
        BY <1>6, <1>10 DEF Frame
    <2>3. \A j \in Id : j # None => SameBuf(buf[j], buf'[j])
        BY <2>1, <2>2
    <2> QED
        BY <2>3, Names, AsyncSame
<1> QED
    BY <1>12, <1>13, StepReleased

\* Thread x answers the call t on top of its stack: x and the caller have popped
\* it, and its transaction is freed.
Answered(M, x, t) ==
    /\ M \in StateType /\ M.tr = [j \in Id |-> IF j = t THEN None ELSE tr[j]]
    /\ M.stack = [[stack EXCEPT ![x] = tr[t].to_parent] EXCEPT ![tr[t].from] = tr[t].from_parent]
    /\ M.err = err /\ M.err2 = err2 /\ M.pc = pc
    /\ \A j \in Id : j # t => M.buf[j] = buf[j]
    /\ \A j \in Id : SameBuf(buf[j], M.buf[j])
    /\ M.buf[t] # None => ~M.buf[t].transaction

\* The state is in order once a call is answered.
LEMMA AnsweredIs ==
    ASSUME Inv, NEW x \in threads, pc[x] = "user", err[x] = Ok,
           NEW t, t = stack[x], t # None, tr[t].to_thread = x,
           NEW y, y = tr[t].from, y # None, NEW M, Answered(M, x, t),
           NEW P, P = Listed(todo, proc_todo, async_todo)
    PROVE  /\ SInv(M, threads, P) /\ y \in threads /\ y # x /\ stack[y] = t
           /\ t \in Id /\ t \in Calls(tr) /\ t \notin P
           /\ Calls(M.tr) = Calls(tr) \ {t}
           /\ \A z \in threads : z # x /\ z # y => M.stack[z] = stack[z]
<1> DEFINE S == State
<1>1. /\ SInv(S, threads, P) /\ S.tr = tr /\ S.buf = buf /\ S.stack = stack
      /\ S.err = err /\ S.err2 = err2 /\ S.pc = pc
      /\ tr \in [Id -> Transaction \cup {None}] /\ buf \in [Id -> Buffer \cup {None}]
      /\ stack \in [Thread -> Id \cup {None}] /\ err \in [Thread -> Code] /\ err2 \in [Thread -> Code]
      /\ pc \in [Thread -> PC] /\ threads \subseteq Thread
    BY InvState
<1> HIDE DEF S
<1>2. Chains(tr, stack, threads, P \cap Calls(tr))
    BY <1>1 DEF SInv
<1>3. t \in Calls(tr) /\ t \in Id /\ tr[t] \in Transaction
    <2>1. t \in Calls(tr)
        BY <1>2, ChainsParts DEF Chains, Tops, Rel
    <2> QED
        BY <1>1, <2>1 DEF Calls
<1>4. y # x
    BY <1>2, <1>3, ChainsParts DEF Chains, Senders
<1> DEFINE s == [stack EXCEPT ![x] = tr[t].to_parent]
           e == [err EXCEPT ![x] = Ok]
           T == [tr EXCEPT ![t] = [tr[t] EXCEPT !.to_thread = None]]
           B == [tr |-> T, buf |-> buf, stack |-> s, err |-> e, err2 |-> err2, pc |-> pc]
<1>5. s \in [Thread -> Id \cup {None}] /\ e \in [Thread -> Code] /\ T \in [Id -> Transaction \cup {None}]
    <2>1. tr[t].to_parent \in Id \cup {None} /\ [tr[t] EXCEPT !.to_thread = None] \in Transaction
        BY <1>3 DEF Transaction
    <2>2. Ok \in Code
        BY DEF Code
    <2> QED
        BY <1>1, <1>3, <2>1, <2>2
<1>6. \A z \in Thread : z # x => s[z] = stack[z]
    BY <1>1
<1> HIDE DEF s, e, T
<1>7. B \in StateType
    BY <1>1, <1>5 DEF StateType, PC
<1>8. B.tr = T /\ B.buf = buf /\ B.stack = s /\ B.err = e /\ B.err2 = err2 /\ B.pc = pc
    OBVIOUS
<1>9. Popped(B, x, t, Ok)
    BY <1>7, <1>8 DEF Popped, s, e, T
<1> HIDE DEF B
<1>10. /\ t \notin P /\ t \in Calls(B.tr) /\ SInv(B, threads, P \cup {t})
       /\ \A j \in Id : j # t => B.tr[j] = tr[j]
       /\ B.tr[t].from = tr[t].from /\ B.tr[t].from_parent = tr[t].from_parent
       /\ \A z : From(B.tr, z) = From(tr, z)
    <2>1. /\ Inv /\ x \in threads /\ pc[x] = "user" /\ err[x] = Ok /\ t = stack[x] /\ t # None
          /\ tr[t].to_thread = x
        OBVIOUS
    <2> DEFINE L == Listed(todo, proc_todo, async_todo)
    <2>2. L = Listed(todo, proc_todo, async_todo)
        OBVIOUS
    <2>3. Ok \in {Ok, Complete}
        OBVIOUS
    <2> HIDE DEF L
    <2>4. /\ t \notin L /\ t \in Calls(B.tr) /\ SInv(B, threads, L \cup {t})
          /\ \A j \in Id : j # t => B.tr[j] = tr[j]
          /\ B.tr[t].from = tr[t].from /\ B.tr[t].from_parent = tr[t].from_parent
          /\ \A z : From(B.tr, z) = From(tr, z)
        BY ONLY <1>9, <2>1, <2>2, <2>3, PopIs
    <2> QED
        BY <2>4 DEF L
<1> DEFINE Pt == P \cup {t}
           Tb == B.tr
<1>11. /\ t # None => /\ t \in Calls(Tb) /\ Tb[t].from \in threads /\ B.stack[Tb[t].from] = t
                      /\ (Tb[t].from_parent # None => Tb[Tb[t].from_parent].to_thread = Tb[t].from)
       /\ \A U, v : /\ Calls(U) = Calls(Tb) \ {t}
                    /\ \A j \in Calls(U) : SameCall(Tb, U, j)
                    /\ t # None => v[Tb[t].from] = Tb[t].from_parent
                    /\ \A z \in threads : (t # None => z # Tb[t].from) => v[z] = B.stack[z]
                    => Chains(U, v, threads, (Pt \cap Calls(Tb)) \ {t})
    <2>1. SInv(B, threads, Pt) /\ t \in Pt /\ t \in Calls(B.tr)
        BY <1>10
    <2>2. Tb = B.tr
        OBVIOUS
    <2> DEFINE g == Over(Tb, t)
               u == Upto(Tb, t)
    <2>3. g = Over(Tb, t) /\ u = Upto(Tb, t)
        OBVIOUS
    <2> HIDE DEF Pt, Tb, g, u
    <2>4. /\ u # None => /\ u \in Calls(Tb) /\ Tb[u].from \in threads /\ B.stack[Tb[u].from] = u
                         /\ (Tb[u].from_parent # None => Tb[Tb[u].from_parent].to_thread = Tb[u].from)
          /\ Tb[t].from # None => u = t /\ g = {}
          /\ \A U, v : /\ Calls(U) = Calls(Tb) \ (g \cup {u})
                       /\ \A j \in Calls(U) : SameCall(Tb, U, j)
                       /\ u # None => v[Tb[u].from] = Tb[u].from_parent
                       /\ \A z \in threads : (u # None => z # Tb[u].from) => v[z] = B.stack[z]
                       => Chains(U, v, threads, (Pt \cap Calls(Tb)) \ {t})
        BY ONLY <2>1, <2>2, <2>3, AnswerChains
    <2>5. u = t /\ g = {} /\ g \cup {u} = {t}
        BY <1>10, <2>4 DEF Tb
    <2> QED
        BY <2>4, <2>5
<1>12. y \in threads /\ stack[y] = t
    BY <1>1, <1>4, <1>6, <1>8, <1>10, <1>11
<1>13. tr[t].from_parent # None => tr[tr[t].from_parent].to_thread = y
    <2>1. tr[t].from_parent # None => tr[t].from_parent \in Calls(tr) /\ tr[tr[t].from_parent].to_thread = y
        BY <1>2, <1>3, ChainsParts DEF Chains, Parents
    <2> QED
        BY <2>1
<1>14. /\ M \in StateType /\ M.tr[t] = None /\ \A j \in Id : j # t => M.tr[j] = tr[j]
       /\ M.err = err /\ M.err2 = err2 /\ M.pc = pc
       /\ \A j \in Id : j # t => M.buf[j] = buf[j]
       /\ M.buf[t] # None => ~M.buf[t].transaction
    BY <1>3 DEF Answered
<1>15. /\ M.stack[y] = tr[t].from_parent /\ M.stack[x] = tr[t].to_parent
       /\ \A z \in Thread : z # y => M.stack[z] = s[z]
       /\ \A z \in Thread : z # x /\ z # y => M.stack[z] = stack[z]
    BY <1>1, <1>4, <1>12 DEF Answered, s
<1>16. Calls(M.tr) = Calls(tr) \ {t} /\ Calls(Tb) = Calls(tr)
    <2>1. Calls(M.tr) = Calls(tr) \ {t}
        BY <1>14 DEF Calls
    <2>2. Calls(Tb) = Calls(tr)
        BY <1>3, <1>10 DEF Calls
    <2> QED
        BY <2>1, <2>2
<1>17. Chains(M.tr, M.stack, threads, P \cap Calls(M.tr))
    <2> DEFINE U == M.tr
               v == M.stack
    <2>1. \A j \in Calls(U) : SameCall(Tb, U, j)
        BY <1>10, <1>14 DEF Calls, SameCall
    <2>2. /\ Calls(U) = Calls(Tb) \ {t} /\ v[Tb[t].from] = Tb[t].from_parent
          /\ \A z \in threads : z # Tb[t].from => v[z] = B.stack[z]
        BY <1>1, <1>8, <1>10, <1>15, <1>16
    <2>3. (Pt \cap Calls(Tb)) \ {t} = P \cap Calls(U)
        BY <1>10, <1>16
    <2> HIDE DEF U, v, Pt, Tb
    <2>4. Chains(U, v, threads, (Pt \cap Calls(Tb)) \ {t})
        BY <1>11, <2>1, <2>2
    <2> QED
        BY <2>3, <2>4 DEF U, v
<1>18. Linked(M)
    <2> SUFFICES ASSUME NEW j \in Id
                 PROVE  (M.buf[j] # None /\ M.buf[j].transaction) <=> (M.tr[j] # None /\ M.tr[j].buffer)
        BY DEF Linked
    <2>1. CASE j = t
        BY <1>14, <2>1
    <2>2. CASE j # t
        BY <1>1, <1>14, <2>2 DEF SInv, Linked
    <2> QED
        BY <2>1, <2>2
<1>19. Errors(M, threads)
    <2> SUFFICES ASSUME NEW z \in threads, M.err2[z] # Ok
                 PROVE  M.err[z] # Ok /\ (M.stack[z] # None => M.tr[M.stack[z]].to_thread = z)
        BY DEF Errors
    <2>1. err[z] # Ok /\ (stack[z] # None => tr[stack[z]].to_thread = z) /\ z \in Thread
        BY <1>1, <1>14, InvThread
    <2>2. z # x /\ z # y
        BY <1>4, <1>12, <2>1
    <2>3. M.err[z] = err[z] /\ M.stack[z] = stack[z] /\ stack[z] # t
        BY <1>14, <1>15, <2>1, <2>2
    <2> QED
        BY <1>1, <1>14, <2>1, <2>3
<1>20. Waits(M, threads)
    <2> SUFFICES ASSUME NEW z \in threads
                 PROVE  /\ pc[z] \in {"proc_wait", "proc_sleep"} => M.stack[z] = None /\ err[z] = Ok
                        /\ pc[z] = "thread_sleep" => err[z] = Ok
        BY <1>14 DEF Waits
    <2>1. /\ pc[z] \in {"proc_wait", "proc_sleep"} => stack[z] = None /\ err[z] = Ok
          /\ pc[z] = "thread_sleep" => err[z] = Ok
          /\ z \in Thread
        BY <1>1, InvThread
    <2>2. pc[z] \in {"proc_wait", "proc_sleep"} => z # x /\ z # y
        BY <1>12, <2>1
    <2> QED
        BY <1>15, <2>1, <2>2
<1>21. SInv(M, threads, P)
    <2>1. P \subseteq {j \in Id : M.tr[j] # None}
        BY <1>1, <1>10, <1>14 DEF SInv
    <2>2. \A j \in Id : M.tr[j] # None /\ j \notin P => j \in Calls(M.tr)
        BY <1>1, <1>14, <1>16 DEF SInv
    <2> QED
        BY <1>1, <1>14, <1>17, <1>18, <1>19, <1>20, <2>1, <2>2 DEF SInv
<1> QED
    BY <1>1, <1>3, <1>4, <1>10, <1>12, <1>15, <1>16, <1>21

\* The reply to y, and its buffer.
ReplyTo(y) == [from |-> None, from_parent |-> None, to_thread |-> y, to_parent |-> None,
               one_way |-> FALSE, reply |-> TRUE, buffer |-> TRUE]

\* The buffer of a reply to y.
ReplyBuf(y) == [proc |-> ProcOf[y], transaction |-> TRUE, async |-> FALSE, allow_user_free |-> FALSE]

\* From the state M, the reply i of x goes to y.
ReplySent(M, x, y, i) ==
    /\ tr' = [M.tr EXCEPT ![i] = ReplyTo(y)] /\ buf' = [M.buf EXCEPT ![i] = ReplyBuf(y)]
    /\ stack' = M.stack /\ err' = err /\ err2' = err2 /\ pc' = WakeThread(pc, y)
    /\ todo' = [todo EXCEPT ![y] = Append(@, i), ![x] = Append(@, Complete)]
    /\ owed' = [owed EXCEPT ![x] = @ + 1]
    /\ UNCHANGED <<live, threads, proc_todo, async_todo, has_async>>

\* A reply is sent.
LEMMA ReplyIs ==
    ASSUME Inv, NEW x \in threads, pc[x] = "user", err[x] = Ok,
           NEW t, t = stack[x], t # None, tr[t].to_thread = x,
           NEW y, y = tr[t].from, y # None, NEW M, Answered(M, x, t),
           NEW i \in Id, (tr[i] = None \/ i = t) /\ buf[i] = None, ReplySent(M, x, y, i)
    PROVE  Inv'
<1> DEFINE P == Listed(todo, proc_todo, async_todo)
<1>1. /\ SInv(M, threads, P) /\ y \in threads /\ y # x /\ stack[y] = t
      /\ t \in Id /\ t \in Calls(tr) /\ t \notin P
      /\ Calls(M.tr) = Calls(tr) \ {t}
      /\ \A z \in threads : z # x /\ z # y => M.stack[z] = stack[z]
    <2>1. /\ Inv /\ x \in threads /\ pc[x] = "user" /\ err[x] = Ok /\ t = stack[x] /\ t # None
          /\ tr[t].to_thread = x
        OBVIOUS
    <2>2. y = tr[t].from /\ y # None
        OBVIOUS
    <2>3. Answered(M, x, t)
        OBVIOUS
    <2>4. P = Listed(todo, proc_todo, async_todo)
        OBVIOUS
    <2> HIDE DEF P
    <2> QED
        BY ONLY <2>1, <2>2, <2>3, <2>4, AnsweredIs
<1>2. /\ threads \subseteq Thread /\ pc \in [Thread -> PC] /\ tr \in [Id -> Transaction \cup {None}]
      /\ buf \in [Id -> Buffer \cup {None}] /\ stack \in [Thread -> Id \cup {None}]
      /\ err \in [Thread -> Code] /\ err2 \in [Thread -> Code]
      /\ DOMAIN todo = Thread /\ DOMAIN proc_todo = Proc /\ DOMAIN async_todo = Proc
      /\ live \in [Proc -> BOOLEAN] /\ has_async \in [Proc -> BOOLEAN] /\ owed \in [Thread -> Int]
      /\ x \in Thread /\ y \in Thread /\ ProcOf[y] \in Proc
    BY <1>1, InvState, BinderAssumption DEF Inv, Types
<1>3. i \notin P
    <2>1. \A j \in P : tr[j] # None
        BY ListedIs
    <2> QED
        BY <1>1, <2>1
<1>4. /\ M \in StateType /\ M.tr \in [Id -> Transaction \cup {None}] /\ M.buf \in [Id -> Buffer \cup {None}]
      /\ M.stack \in [Thread -> Id \cup {None}] /\ M.err = err /\ M.err2 = err2
    BY StateParts DEF Answered
<1>5. /\ \A j \in Id : M.tr[j] = IF j = t THEN None ELSE tr[j]
      /\ \A j \in Id : j # t => M.buf[j] = buf[j]
      /\ \A j \in Id : SameBuf(buf[j], M.buf[j])
    BY DEF Answered
<1>6. \A j \in P : SameWork(tr[j], M.tr[j]) /\ M.buf[j] = buf[j]
    <2> SUFFICES ASSUME NEW j \in P PROVE SameWork(tr[j], M.tr[j]) /\ M.buf[j] = buf[j]
        OBVIOUS
    <2>1. j \in Id /\ tr[j] # None /\ j # t
        BY <1>1, ListedIs
    <2>2. M.tr[j] = tr[j] /\ M.buf[j] = buf[j]
        BY <1>5, <2>1
    <2> QED
        BY <2>1, <2>2 DEF SameWork
<1> DEFINE w == ReplyTo(y)
           b == ReplyBuf(y)
           tA == {y}
<1>7. /\ w \in Transaction /\ w # None /\ w.from = None /\ w.buffer /\ ~w.one_way /\ w.reply /\ w.to_thread = y
      /\ w.one_way = FALSE
    <2>1. w \in Transaction
        BY <1>2 DEF ReplyTo, Transaction
    <2>2. w # None
        BY <2>1, Names
    <2> QED
        BY <2>1, <2>2 DEF ReplyTo
<1>8. b \in Buffer /\ b # None /\ b.proc = ProcOf[y] /\ b.transaction /\ b.async = FALSE /\ ~b.allow_user_free
    <2>1. b \in Buffer
        BY <1>2 DEF ReplyBuf, Buffer
    <2>2. b # None
        BY <2>1, Names
    <2> QED
        BY <2>1, <2>2 DEF ReplyBuf
<1>9. /\ tr' = [M.tr EXCEPT ![i] = w] /\ buf' = [M.buf EXCEPT ![i] = b]
      /\ stack' = M.stack /\ err' = err /\ err2' = err2 /\ pc' = WakeThread(pc, y)
      /\ UNCHANGED <<live, threads, proc_todo, async_todo, has_async>>
    BY DEF ReplySent
<1> HIDE DEF w, b
<1>10. /\ DOMAIN todo' = Thread /\ DOMAIN proc_todo' = Proc /\ DOMAIN async_todo' = Proc
       /\ \A z \in Thread : todo'[z] = IF z \in tA THEN Append(todo[z], i)
                                       ELSE IF z = x THEN Append(todo[z], Complete) ELSE todo[z]
       /\ owed' \in [Thread -> Int] /\ \A z \in Thread : owed'[z] = owed[z] + (IF z = x THEN 1 ELSE 0)
    <2>1. todo' = [todo EXCEPT ![y] = Append(@, i), ![x] = Append(@, Complete)]
          /\ owed' = [owed EXCEPT ![x] = @ + 1]
        BY DEF ReplySent
    <2>2. DOMAIN todo' = Thread /\ \A z \in Thread : todo'[z] = IF z = y THEN Append(todo[z], i)
                                       ELSE IF z = x THEN Append(todo[z], Complete) ELSE todo[z]
        BY <1>1, <1>2, <2>1
    <2>3. owed' \in [Thread -> Int] /\ \A z \in Thread : owed'[z] = owed[z] + (IF z = x THEN 1 ELSE 0)
        BY <1>2, <2>1
    <2> QED
        BY <1>2, <1>9, <2>2, <2>3
<1>11. NewWork(M.tr, M.buf, x, i, w, b, tA, {}, {})
    <2>1. /\ \A q \in Proc : proc_todo'[q] = IF q \in {} THEN Append(proc_todo[q], i) ELSE proc_todo[q]
          /\ \A q \in Proc : async_todo'[q] = IF q \in {} THEN Append(async_todo[q], i) ELSE async_todo[q]
        BY <1>9
    <2>2. /\ \A z, u \in tA : z = u
          /\ tA \cup {} \cup {} # {} /\ x \notin tA /\ tA \subseteq Thread
          /\ \A z \in tA : z = y
        BY <1>1, <1>2
    <2>3. \A z \in tA : b.proc = ProcOf[z] /\ ~w.one_way /\ w.to_thread = z
        BY <1>7, <1>8, <2>2
    <2> HIDE DEF tA
    <2> QED
        BY <1>1, <1>3, <1>4, <1>6, <1>7, <1>8, <1>9, <1>10, <2>1, <2>2, <2>3 DEF NewWork
<1> HIDE DEF P
<1>12. /\ tr' \in [Id -> Transaction \cup {None}] /\ tr'[i] = w
       /\ buf' \in [Id -> Buffer \cup {None}] /\ buf'[i] = b
       /\ \A j \in Id : j # i => tr'[j] = M.tr[j] /\ buf'[j] = M.buf[j]
       /\ \A z \in Thread : Works(todo'[z])
       /\ \A q \in Proc : /\ Works(proc_todo'[q]) /\ Works(async_todo'[q])
                          /\ Complete \notin ToSet(proc_todo'[q]) /\ Complete \notin ToSet(async_todo'[q])
       /\ \A z \in Thread : Count(tr', todo'[z]) =
             Count(tr, todo[z]) + (IF z = x \/ (z \in tA /\ w.reply) THEN 1 ELSE 0)
       /\ Apart' /\ Placed'
    <2> HIDE DEF tA
    <2> QED
        BY <1>11, SendLists
<1>13. Types'
    BY <1>2, <1>9, <1>10, <1>12 DEF Types
<1>14. Calls(tr') = Calls(tr) \ {t} /\ \A j \in Calls(tr') : SameCall(M.tr, tr', j) /\ tr'[j] = tr[j]
    <2>1. i \notin Calls(M.tr) /\ i \notin Calls(tr')
        BY <1>1, <1>7, <1>12 DEF Calls
    <2>2. Calls(tr') = Calls(M.tr)
        BY <1>12, <2>1 DEF Calls
    <2>3. \A j \in Calls(tr') : j \in Id /\ j # i /\ j # t
        BY <1>1, <2>1, <2>2 DEF Calls
    <2> QED
        BY <1>1, <1>5, <1>12, <2>2, <2>3 DEF SameCall
<1>15. /\ pc' \in [Thread -> PC] /\ pc'[x] = "user"
       /\ \A z \in Thread : \/ pc'[z] = pc[z]
                            \/ pc[z] = "thread_sleep" /\ pc'[z] = "thread_wait" /\ z \in threads
       /\ pc'[y] \in {"user", "thread_wait"}
    <2>1. /\ WakeThread(pc, y) \in [Thread -> PC]
          /\ \A z \in Thread : z # y => WakeThread(pc, y)[z] = pc[z]
          /\ WakeThread(pc, y)[y] = IF pc[y] = "thread_sleep" THEN "thread_wait" ELSE pc[y]
        BY <1>2, WakeIs DEF PC
    <2>2. pc[y] \in {"user", "thread_wait", "thread_sleep"}
        <3>1. pc[y] \in PC /\ pc[y] \notin {"proc_wait", "proc_sleep"}
            BY <1>1, <1>2, InvThread
        <3> QED
            BY <3>1 DEF PC, Waiting
    <2> QED
        BY <1>1, <1>2, <1>9, <2>1, <2>2
<1>16. Awake'
    <2>1. \A z \in threads : todo'[z] = todo[z] \/ pc'[z] \in {"user", "thread_wait"}
        BY <1>2, <1>10, <1>15
    <2>2. \A z \in Thread : \/ pc'[z] = pc[z]
                            \/ pc[z] = "thread_sleep" /\ pc'[z] = "thread_wait"
                            \/ pc[z] = "proc_sleep" /\ pc'[z] = "proc_wait"
        BY <1>15
    <2> QED
        BY <1>9, <2>1, <2>2, AwakeNext
<1>17. Core'
    <2>1. Chains(M.tr, M.stack, threads, P \cap Calls(M.tr))
        BY <1>1 DEF SInv
    <2> DEFINE Q == P \cap Calls(M.tr)
               T == M.tr
    <2>2. Calls(tr') = Calls(T) /\ \A j \in Calls(T) : SameCall(T, tr', j)
        BY <1>1, <1>14
    <2>3. (P \cup {i}) \cap Calls(tr') = Q
        <3>1. i \notin Calls(tr')
            BY <1>7, <1>12 DEF Calls
        <3> QED
            BY <2>2, <3>1
    <2>4. Chains(T, M.stack, threads, Q)
        BY <2>1
    <2> HIDE DEF Q, T
    <2>5. Chains(tr', M.stack, threads, Q)
        BY <2>2, <2>4, ChainsSame
    <2>6. \A z \in threads : err2'[z] # Ok => err'[z] # Ok /\ (stack'[z] # None => tr'[stack'[z]].to_thread = z)
        <3> SUFFICES ASSUME NEW z \in threads, err2[z] # Ok
                     PROVE  err[z] # Ok /\ (M.stack[z] # None => tr'[M.stack[z]].to_thread = z)
            BY <1>9
        <3>1. err[z] # Ok /\ (M.stack[z] # None => T[M.stack[z]].to_thread = z)
            BY <1>1, <1>4 DEF SInv, Errors, T
        <3>2. M.stack[z] # None => M.stack[z] \in Calls(T)
            BY <2>4, ChainsParts DEF Chains, Tops, Rel
        <3> QED
            BY <2>2, <3>1, <3>2 DEF SameCall
    <2>7. \A z \in threads :
           /\ pc'[z] \in {"proc_wait", "proc_sleep"} => stack'[z] = None /\ err'[z] = Ok
           /\ pc'[z] = "thread_sleep" => err'[z] = Ok
        <3> SUFFICES ASSUME NEW z \in threads
                     PROVE  /\ pc'[z] \in {"proc_wait", "proc_sleep"} => M.stack[z] = None /\ err[z] = Ok
                            /\ pc'[z] = "thread_sleep" => err[z] = Ok
            BY <1>9
        <3>1. /\ M.pc[z] \in {"proc_wait", "proc_sleep"} => M.stack[z] = None /\ M.err[z] = Ok
              /\ M.pc[z] = "thread_sleep" => M.err[z] = Ok
            BY <1>1 DEF SInv, Waits
        <3>2. M.pc = pc /\ z \in Thread
            BY <1>2 DEF Answered
        <3> QED
            BY <1>4, <1>15, <3>1, <3>2
    <2>8. Chains(tr', stack', threads, (P \cup {i}) \cap Calls(tr'))
        BY <1>9, <2>3, <2>5
    <2>9. M.tr[i] = None /\ threads' = threads /\ err' = M.err /\ err2' = M.err2
        BY <1>4, <1>5, <1>9
    <2>10. stack' \in [Thread -> Id \cup {None}] /\ pc' \in [Thread -> PC]
        BY <1>4, <1>9, <1>15
    <2>11. NewWork(M.tr, M.buf, x, i, w, b, tA, {}, {}) /\ SInv(M, threads, P)
        BY <1>1, <1>11
    <2> HIDE DEF tA
    <2> QED
        BY <2>6, <2>7, <2>8, <2>9, <2>10, <2>11, SendCore DEF P
<1>18. Gone'
    <2>1. \A q \in Proc : ~live[q] => has_async'[q] = has_async[q]
        BY <1>9
    <2>2. ASSUME NEW z \in Thread, z \notin threads
          PROVE  /\ stack'[z] = stack[z] /\ err'[z] = err[z] /\ err2'[z] = err2[z] /\ pc'[z] = pc[z]
                 /\ owed'[z] = owed[z]
        <3>1. z # x /\ z # y
            BY <1>1, <2>2
        <3>2. M.stack[z] = stack[z]
            BY <1>1, <1>2, <3>1 DEF Answered
        <3> QED
            BY <1>2, <1>9, <1>10, <1>15, <2>2, <3>1, <3>2
    <2>3. \A q \in {} \cup {} : live[q]
        OBVIOUS
    <2>4. tA \subseteq threads /\ threads' = threads /\ live' = live
        BY <1>1, <1>9
    <2> HIDE DEF tA
    <2> QED
        BY <1>11, <2>1, <2>2, <2>3, <2>4, GoneSend
<1>19. OneAsync'
    <2>1. \A j \in Id : j # i => SameBuf(buf[j], buf'[j])
        BY <1>5, <1>12
    <2>2. buf[i] = None /\ (buf'[i] # None => ~buf'[i].async)
        BY <1>8, <1>12
    <2>3. async_todo' = async_todo /\ has_async' = has_async
        BY <1>9
    <2> QED
        BY <2>1, <2>2, <2>3, AsyncSame
<1>20. Balance'
    <2> SUFFICES ASSUME NEW z \in threads PROVE owed'[z] = Owes(tr', err', err2', todo', z)
        BY <1>9, BalanceIs
    <2>1. /\ z \in Thread /\ owed[z] = Owes(tr, err, err2, todo, z) /\ owed[z] \in Int
          /\ owed'[z] = owed[z] + (IF z = x THEN 1 ELSE 0)
        BY <1>2, <1>10, InvThread
    <2>2. /\ Cardinality(From(tr, z)) = Cardinality(From(tr', z)) + (IF z = y THEN 1 ELSE 0)
          /\ Cardinality(From(tr', z)) \in Nat
        <3>1. CASE z = y
            <4>1. t \in From(tr, z) /\ From(tr', z) = From(tr, z) \ {t}
                BY <1>1, <1>14, <3>1 DEF From
            <4>2. Cardinality(From(tr', z)) = Cardinality(From(tr, z)) - 1
                BY <4>1, FromFinite, FS_RemoveElement, ZenonT(40)
            <4> QED
                BY <3>1, <4>2, FromFinite
        <3>2. CASE z # y
            <4>1. From(tr', z) = From(tr, z)
                BY <1>1, <1>14, <3>2 DEF From
            <4> QED
                BY <3>2, <4>1, FromFinite
        <3> QED
            BY <3>1, <3>2
    <2>3. /\ Count(tr', todo'[z]) = Count(tr, todo[z]) + (IF z = x \/ z = y THEN 1 ELSE 0)
          /\ Count(tr, todo[z]) \in Nat
        <3>1. Count(tr', todo'[z]) = Count(tr, todo[z]) + (IF z = x \/ (z \in tA /\ w.reply) THEN 1 ELSE 0)
            BY <1>12, <2>1
        <3>2. Count(tr, todo[z]) \in Nat
            BY <2>1, InvThread
        <3> QED
            BY <1>7, <3>1, <3>2
    <2>4. err'[z] = err[z] /\ err2'[z] = err2[z]
        BY <1>9
    <2> QED
        BY <1>1, <2>1, <2>2, <2>3, <2>4 DEF Owes
<1> QED
    BY <1>12, <1>13, <1>16, <1>17, <1>18, <1>19, <1>20 DEF Inv

\* A reply, or an attempt at one.
LEMMA StepReply ==
    ASSUME Inv, NEW x \in Thread, Reply(x)
    PROVE  Inv'
<1> DEFINE t == stack[x]
           pop == [State EXCEPT !.stack[x] = tr[t].to_parent]
           ack == [pop EXCEPT !.err[x] = Complete]
           y == tr[t].from
           s == [stack EXCEPT ![x] = tr[t].to_parent]
<1>1. x \in threads /\ pc[x] = "user" /\ err[x] = Ok
    BY Zenon DEF Reply, MayWrite
<1>2. \/ (t = None \/ BadStack(x)) /\ Fail(x, Failed)
      \/ /\ t # None /\ ~BadStack(x)
         /\ owed' = [owed EXCEPT ![x] = @ + 1]
         /\ UNCHANGED <<live, threads, proc_todo, async_todo, has_async>>
         /\ \/ y = None /\ Becomes(SendFailedReply(ack, t, Dead)) /\ UNCHANGED todo
            \/ /\ y # None /\ UNCHANGED todo
               /\ IF stack[y] # t THEN Becomes([pop EXCEPT !.err[x] = Failed])
                  ELSE Becomes(SendFailedReply(ack, t, Failed))
            \/ /\ y # None
               /\ \E i \in Free \cup {j \in {t} : buf[j] = None} :
                     LET S == FreeTransactions(pop, {t})
                     IN  Becomes([S EXCEPT
                           !.stack[y] = tr[t].from_parent,
                           !.tr[i] = ReplyTo(y), !.buf[i] = ReplyBuf(y),
                           !.pc = WakeThread(S.pc, y)])
                         /\ todo' = [todo EXCEPT ![y] = Append(@, i), ![x] = Append(@, Complete)]
    BY Zenon DEF Reply, ReplyTo, ReplyBuf
<1>3. CASE (t = None \/ BadStack(x)) /\ Fail(x, Failed)
    BY <1>1, <1>3, StepFail
<1>4. CASE /\ t # None /\ ~BadStack(x)
           /\ owed' = [owed EXCEPT ![x] = @ + 1]
           /\ UNCHANGED <<live, threads, proc_todo, async_todo, has_async>>
           /\ \/ y = None /\ Becomes(SendFailedReply(ack, t, Dead)) /\ UNCHANGED todo
              \/ /\ y # None /\ UNCHANGED todo
                 /\ IF stack[y] # t THEN Becomes([pop EXCEPT !.err[x] = Failed])
                    ELSE Becomes(SendFailedReply(ack, t, Failed))
              \/ /\ y # None
                 /\ \E i \in Free \cup {j \in {t} : buf[j] = None} :
                     LET S == FreeTransactions(pop, {t})
                     IN  Becomes([S EXCEPT
                           !.stack[y] = tr[t].from_parent,
                           !.tr[i] = ReplyTo(y), !.buf[i] = ReplyBuf(y),
                           !.pc = WakeThread(S.pc, y)])
                         /\ todo' = [todo EXCEPT ![y] = Append(@, i), ![x] = Append(@, Complete)]
    <2>1. /\ t # None /\ tr[t].to_thread = x /\ owed' = [owed EXCEPT ![x] = @ + 1]
          /\ UNCHANGED <<live, threads, proc_todo, async_todo, has_async>>
        BY <1>4, Zenon DEF BadStack
    <2>2. /\ State = [tr |-> tr, buf |-> buf, stack |-> stack, err |-> err, err2 |-> err2, pc |-> pc]
          /\ State \in StateType /\ tr \in [Id -> Transaction \cup {None}] /\ stack \in [Thread -> Id \cup {None}]
          /\ buf \in [Id -> Buffer \cup {None}] /\ err \in [Thread -> Code] /\ err2 \in [Thread -> Code]
          /\ pc \in [Thread -> PC] /\ threads \subseteq Thread
        BY InvState DEF State
    <2>3. pop = [tr |-> tr, buf |-> buf, stack |-> s, err |-> err, err2 |-> err2, pc |-> pc]
        BY DEF State
    <2>4. Acked(ack, x, t)
        <3> DEFINE e == [err EXCEPT ![x] = Complete]
        <3>1. ack = [tr |-> tr, buf |-> buf, stack |-> s, err |-> e, err2 |-> err2, pc |-> pc]
            <4> HIDE DEF pop, s
            <4> QED
                BY <2>3
        <3> HIDE DEF ack, pop
        <3> QED
            BY <3>1 DEF Acked
    <2>5. /\ t \in Id /\ tr[t] \in Transaction /\ tr[t].to_parent \in Id \cup {None}
          /\ tr[t].from_parent \in Id \cup {None}
        <3>1. t \in Id
            BY <2>1, <2>2
        <3>2. t \in Calls(tr)
            <4>1. Chains(tr, stack, threads, Listed(todo, proc_todo, async_todo) \cap Calls(tr))
                BY InvState DEF SInv
            <4> QED
                BY <1>1, <2>1, <4>1, ChainsParts DEF Chains, Tops, Rel
        <3>3. tr[t] \in Transaction
            BY <2>2, <3>2 DEF Calls
        <3> QED
            BY <3>1, <3>3 DEF Transaction
    <2>6. pop \in StateType
        <3>1. s \in [Thread -> Id \cup {None}]
            BY <2>2, <2>5
        <3> HIDE DEF s
        <3> QED
            BY <2>2, <2>3, <3>1 DEF StateType, PC
    <2> HIDE DEF pop, ack
    <2>7. CASE y = None /\ Becomes(SendFailedReply(ack, t, Dead)) /\ UNCHANGED todo
        <3>1. Dead \in {Dead, Failed}
            OBVIOUS
        <3>2. UNCHANGED <<live, threads, proc_todo, async_todo, has_async, todo>>
            BY <2>1, <2>7
        <3> HIDE DEF t
        <3> QED
            BY <1>1, <2>1, <2>4, <2>7, <3>1, <3>2, ReplyFails DEF t
    <2> DEFINE F == FreeTransactions(pop, {t})
               M == [tr |-> F.tr, buf |-> F.buf, stack |-> [s EXCEPT ![y] = tr[t].from_parent],
                     err |-> err, err2 |-> err2, pc |-> pc]
    <2>8. Answered(M, x, t) /\ F.tr = M.tr /\ F.buf = M.buf /\ F.stack = s /\ F.err = err /\ F.err2 = err2
          /\ F.pc = pc /\ F \in StateType
        <3>1. /\ F \in StateType
              /\ F.tr = [i \in Id |-> IF i \in {t} THEN None ELSE pop.tr[i]]
              /\ F.stack = pop.stack /\ F.err = pop.err /\ F.err2 = pop.err2 /\ F.pc = pop.pc
              /\ \A i \in Id : i \notin {t} => F.buf[i] = pop.buf[i]
              /\ \A i \in Id : SameBuf(pop.buf[i], F.buf[i])
              /\ \A i \in {t} \cap Id : F.buf[i] # None => ~F.buf[i].transaction
            <4> HIDE DEF F, t
            <4> QED
                BY <2>6, FreeIs DEF F
        <3>2. pop.tr = tr /\ pop.buf = buf /\ pop.stack = s /\ pop.err = err /\ pop.err2 = err2 /\ pop.pc = pc
            <4> HIDE DEF s
            <4> QED
                BY <2>3
        <3>3. [s EXCEPT ![y] = tr[t].from_parent] \in [Thread -> Id \cup {None}]
            <4>1. s \in [Thread -> Id \cup {None}]
                BY <2>2, <2>5
            <4> HIDE DEF s, y, t
            <4> QED
                BY <2>5, <4>1
        <3> DEFINE v == [s EXCEPT ![y] = tr[t].from_parent]
        <3>4. F.tr \in [Id -> Transaction \cup {None}] /\ F.buf \in [Id -> Buffer \cup {None}]
            BY <3>1, StateParts
        <3> HIDE DEF F, v, s, y
        <3>5. M \in StateType /\ M.tr = F.tr /\ M.buf = F.buf /\ M.stack = v /\ M.err = err /\ M.err2 = err2
              /\ M.pc = pc
            BY <2>2, <3>3, <3>4 DEF StateType, PC, v
        <3>6. F.tr = [j \in Id |-> IF j = t THEN None ELSE tr[j]]
            BY <3>1, <3>2
        <3>7. v = [[stack EXCEPT ![x] = tr[t].to_parent] EXCEPT ![tr[t].from] = tr[t].from_parent]
            BY DEF v, s, y
        <3> HIDE DEF M
        <3>8. Answered(M, x, t)
            BY <2>5, <3>1, <3>2, <3>5, <3>6, <3>7 DEF Answered
        <3> QED
            BY <3>1, <3>2, <3>5, <3>8
    <2>9. y # None => y \in threads /\ stack[y] = t /\ y # x
        <3> SUFFICES ASSUME y # None PROVE y \in threads /\ stack[y] = t /\ y # x
            OBVIOUS
        <3>1. /\ Inv /\ x \in threads /\ pc[x] = "user" /\ err[x] = Ok /\ t = stack[x] /\ t # None
              /\ tr[t].to_thread = x
            BY <1>1, <2>1
        <3>2. y = tr[t].from /\ y # None
            OBVIOUS
        <3>3. Answered(M, x, t)
            BY <2>8
        <3> DEFINE P == Listed(todo, proc_todo, async_todo)
        <3>4. P = Listed(todo, proc_todo, async_todo)
            OBVIOUS
        <3> HIDE DEF P, M, y, t
        <3> QED
            BY ONLY <3>1, <3>2, <3>3, <3>4, AnsweredIs
    <2>10. CASE /\ y # None /\ UNCHANGED todo
                /\ IF stack[y] # t THEN Becomes([pop EXCEPT !.err[x] = Failed])
                   ELSE Becomes(SendFailedReply(ack, t, Failed))
        <3>1. Becomes(SendFailedReply(ack, t, Failed)) /\ Failed \in {Dead, Failed}
            BY <2>9, <2>10
        <3>2. UNCHANGED <<live, threads, proc_todo, async_todo, has_async, todo>>
            BY <2>1, <2>10
        <3> HIDE DEF t
        <3> QED
            BY <1>1, <2>1, <2>4, <3>1, <3>2, ReplyFails DEF t
    <2>11. CASE /\ y # None
                /\ \E i \in Free \cup {j \in {t} : buf[j] = None} :
                     LET S == FreeTransactions(pop, {t})
                     IN  Becomes([S EXCEPT
                           !.stack[y] = tr[t].from_parent,
                           !.tr[i] = ReplyTo(y), !.buf[i] = ReplyBuf(y),
                           !.pc = WakeThread(S.pc, y)])
                         /\ todo' = [todo EXCEPT ![y] = Append(@, i), ![x] = Append(@, Complete)]
        <3>1. PICK i \in Free \cup {j \in {t} : buf[j] = None} :
                 /\ Becomes([F EXCEPT
                           !.stack[y] = tr[t].from_parent,
                           !.tr[i] = ReplyTo(y), !.buf[i] = ReplyBuf(y),
                           !.pc = WakeThread(F.pc, y)])
                 /\ todo' = [todo EXCEPT ![y] = Append(@, i), ![x] = Append(@, Complete)]
            BY <2>11
        <3>2. i \in Id /\ (tr[i] = None \/ i = t) /\ buf[i] = None
            BY <2>5 DEF Free
        <3>3. ReplySent(M, x, y, i)
            <4>1. /\ tr' = [M.tr EXCEPT ![i] = ReplyTo(y)] /\ buf' = [M.buf EXCEPT ![i] = ReplyBuf(y)]
                  /\ stack' = [s EXCEPT ![y] = tr[t].from_parent] /\ err' = err /\ err2' = err2
                  /\ pc' = WakeThread(pc, y)
                <5> DEFINE V == [F EXCEPT !.stack[y] = tr[t].from_parent,
                                   !.tr[i] = ReplyTo(y), !.buf[i] = ReplyBuf(y),
                                   !.pc = WakeThread(F.pc, y)]
                <5> HIDE DEF M, s, y, F, t
                <5>1. /\ V.tr = [F.tr EXCEPT ![i] = ReplyTo(y)] /\ V.buf = [F.buf EXCEPT ![i] = ReplyBuf(y)]
                      /\ V.stack = [F.stack EXCEPT ![y] = tr[t].from_parent] /\ V.err = F.err /\ V.err2 = F.err2
                      /\ V.pc = WakeThread(F.pc, y)
                    BY <2>8 DEF StateType
                <5>2. /\ tr' = V.tr /\ buf' = V.buf /\ stack' = V.stack /\ err' = V.err /\ err2' = V.err2
                      /\ pc' = V.pc
                    BY <3>1 DEF Becomes
                <5> HIDE DEF V
                <5> QED
                    BY <2>8, <5>1, <5>2
            <4>2. M.stack = [s EXCEPT ![y] = tr[t].from_parent]
                OBVIOUS
            <4> HIDE DEF M, s, y, F, t
            <4> QED
                BY <2>1, <3>1, <4>1, <4>2 DEF ReplySent
        <3>4. /\ Inv /\ x \in threads /\ pc[x] = "user" /\ err[x] = Ok /\ t = stack[x] /\ t # None
              /\ tr[t].to_thread = x
            BY <1>1, <2>1
        <3>5. y = tr[t].from /\ y # None
            BY <2>11
        <3>6. Answered(M, x, t)
            BY <2>8
        <3> HIDE DEF M, y, t
        <3> QED
            BY ONLY <3>2, <3>3, <3>4, <3>5, <3>6, ReplyIs, SMTT(20)
    <2> QED
        BY <1>4, <2>7, <2>10, <2>11, Zenon
<1> QED
    BY <1>2, <1>3, <1>4, Zenon

\* Every step keeps the invariant.
LEMMA Step == Inv /\ [Next]_vars => Inv'
<1> SUFFICES ASSUME Inv, [Next]_vars PROVE Inv'
    OBVIOUS
<1>1. CASE UNCHANGED vars
    <2>1. /\ live' = live /\ threads' = threads /\ pc' = pc /\ stack' = stack /\ todo' = todo
          /\ proc_todo' = proc_todo /\ async_todo' = async_todo /\ has_async' = has_async
          /\ err' = err /\ err2' = err2 /\ tr' = tr /\ buf' = buf /\ owed' = owed
        BY <1>1 DEF vars
    <2>2. State' = State
        BY <2>1 DEF State
    <2>3. Types'
        BY <2>1 DEF Inv, Types
    <2>4. Core'
        BY <2>1, <2>2 DEF Inv, Core
    <2>5. Apart' /\ Placed'
        BY <2>1 DEF Inv, Apart, Placed
    <2>6. Gone' /\ Awake'
        BY <2>1 DEF Inv, Gone, Awake
    <2>7. OneAsync' /\ Balance'
        BY <2>1, <2>2 DEF Inv, OneAsync, Balance
    <2> QED
        BY <2>3, <2>4, <2>5, <2>6, <2>7 DEF Inv
<1>2. ASSUME NEW x \in Thread, NEW p \in Proc, Call(x, p) \/ CallOneWay(x, p) PROVE Inv'
    BY <1>2, StepCall, StepCallOneWay
<1>3. ASSUME NEW x \in Thread, NEW i \in Id, FreeBuffer(x, i) PROVE Inv'
    BY <1>3, StepFreeBuffer
<1>4. ASSUME NEW x \in Thread, Reply(x) PROVE Inv'
    BY <1>4, StepReply
<1>5. ASSUME NEW x \in Thread,
             Read(x) \/ SleepAgain(x) \/ ReadWork(x) \/ ReadRetry(x) \/ Interrupted(x)
      PROVE  Inv'
    BY <1>5, StepRead, StepReadWork, StepInterrupted
<1>6. ASSUME NEW x \in Thread, ThreadExit(x) \/ GetThread(x) PROVE Inv'
    BY <1>6, StepThreadExit, StepGetThread
<1>7. ASSUME NEW p \in Proc, DeferredRelease(p) PROVE Inv'
    BY <1>7, StepDeferredRelease
<1> QED
    BY <1>1, <1>2, <1>3, <1>4, <1>5, <1>6, <1>7 DEF Next

(***************************************************************************)
(* The transactions, their buffers, the stacks and the lists of the        *)
(* threads and processes are as Inv says at every moment.                  *)
(***************************************************************************)
THEOREM Invariance == Spec => []Inv
BY InvInit, Step, PTL DEF Spec

\* The invariant implies AnswersBalance.
LEMMA BalanceHolds == Inv => AnswersBalance
<1> SUFFICES ASSUME Inv, NEW x \in threads
             PROVE  owed[x] = Cardinality({i \in Id : Pending(i) /\ tr[i].from = x})
                              + Cardinality({k \in DOMAIN todo[x] : Returned(tr, todo[x][k])})
                              + (IF err[x] # Ok THEN 1 ELSE 0) + (IF err2[x] # Ok THEN 1 ELSE 0)
    BY DEF AnswersBalance
<1> DEFINE a == Cardinality({i \in Id : Pending(i) /\ tr[i].from = x})
           b == Cardinality({k \in DOMAIN todo[x] : Returned(tr, todo[x][k])})
<1>1. x \in Thread
    BY InvState
<1>2. /\ owed[x] = Owes(tr, err, err2, todo, x)
      /\ Count(tr, todo[x]) \in Nat /\ Cardinality(From(tr, x)) \in Nat
    BY <1>1, InvThread
<1>3. Count(tr, todo[x]) = b
    BY DEF Count
<1>4. Cardinality(From(tr, x)) = a
    <2>1. From(tr, x) = {i \in Id : Pending(i) /\ tr[i].from = x}
        BY DEF From, Calls, Pending
    <2> QED
        BY <2>1
<1> HIDE DEF a, b
<1>5. owed[x] = a + (IF err[x] # Ok THEN 1 ELSE 0) + (IF err2[x] # Ok THEN 1 ELSE 0) + b
      /\ a \in Nat /\ b \in Nat
    BY <1>2, <1>3, <1>4 DEF Owes
<1>6. owed[x] = a + b + (IF err[x] # Ok THEN 1 ELSE 0) + (IF err2[x] # Ok THEN 1 ELSE 0)
    BY <1>5
<1> QED
    BY <1>6 DEF a, b

(***************************************************************************)
(* No command is left without its acknowledgement, no call without its     *)
(* answer, and none gets two: what a thread is owed is always on its way,  *)
(* over binder_transaction(), binder_thread_read() (which may show the     *)
(* older of two errors more than once before it is cleared),               *)
(* binder_send_failed_reply() and the releases of threads and processes.   *)
(***************************************************************************)
THEOREM AnswersAreBalanced == Spec => []AnswersBalance
BY Invariance, BalanceHolds, PTL

\* The invariant implies NoLostWakeup.
LEMMA WakeupHolds == Inv => NoLostWakeup
<1> SUFFICES ASSUME Inv, NEW x \in threads
             PROVE  /\ pc[x] = "thread_sleep" => todo[x] = <<>> /\ err[x] = Ok
                    /\ pc[x] = "proc_sleep" =>
                         /\ todo[x] = <<>> /\ stack[x] = None
                         /\ proc_todo[ProcOf[x]] # <<>> =>
                              \E y \in ThreadsOf(ProcOf[x]) : pc[y] = "proc_wait"
    BY DEF NoLostWakeup
<1>1. x \in Thread
    BY InvState
<1>2. /\ pc[x] \in {"proc_wait", "proc_sleep"} => stack[x] = None /\ err[x] = Ok /\ todo[x] = <<>>
      /\ pc[x] = "thread_sleep" => err[x] = Ok /\ todo[x] = <<>>
    BY <1>1, InvThread
<1>3. pc[x] = "proc_sleep" /\ proc_todo[ProcOf[x]] # <<>> =>
        \E y \in threads : ProcOf[y] = ProcOf[x] /\ pc[y] = "proc_wait"
    BY DEF Inv, Awake
<1> QED
    BY <1>2, <1>3 DEF ThreadsOf

(***************************************************************************)
(* No thread sleeps in binder_thread_read() beside its work or an error,   *)
(* and none for its process beside work that nobody was woken for.         *)
(***************************************************************************)
THEOREM WakeupsAreNotLost == Spec => []NoLostWakeup
BY Invariance, WakeupHolds, PTL

\* The invariant implies AsyncOneAtATime.
LEMMA AsyncHolds == Inv => AsyncOneAtATime
<1> SUFFICES ASSUME Inv, NEW p \in Proc
             PROVE  /\ Cardinality({i \in Id : buf[i] # None /\ buf[i].async /\ buf[i].proc = p
                                               /\ i \notin ToSet(async_todo[p])})
                       = (IF has_async[p] THEN 1 ELSE 0)
                    /\ async_todo[p] # <<>> => has_async[p]
    BY DEF AsyncOneAtATime
<1> DEFINE A == {i \in Id : buf[i] # None /\ buf[i].async /\ buf[i].proc = p
                            /\ i \notin ToSet(async_todo[p])}
<1>1. ToSet(async_todo[p]) = Ids(async_todo[p])
    <2>1. Works(async_todo[p]) /\ Complete \notin ToSet(async_todo[p])
        BY DEF Inv, Types
    <2> QED
        BY <2>1, KeptIs
<1>2. A = AsyncOf(buf, async_todo, p)
    BY <1>1 DEF AsyncOf
<1> HIDE DEF A
<1>3. CASE has_async[p]
    <2>1. PICK i : A = {i}
        BY <1>2, <1>3 DEF Inv, OneAsync
    <2>2. Cardinality({i}) = 1
        BY FS_Singleton
    <2> QED
        BY <1>3, <2>1, <2>2 DEF A
<1>4. CASE ~has_async[p]
    <2>1. A = {} /\ async_todo[p] = <<>>
        BY <1>2, <1>4 DEF Inv, OneAsync
    <2>2. Cardinality({}) = 0
        BY FS_EmptySet
    <2> QED
        BY <1>4, <2>1, <2>2 DEF A
<1> QED
    BY <1>3, <1>4

(***************************************************************************)
(* The one-way calls of a node are let go one at a time, by                *)
(* BC_FREE_BUFFER of the one before, and none is kept back for nothing.    *)
(***************************************************************************)
THEOREM AsyncIsOneAtATime == Spec => []AsyncOneAtATime
BY Invariance, AsyncHolds, PTL

\* A call is on a list if it is queued to a thread or a process that is there.
LEMMA QueuedIs ==
    ASSUME Inv, NEW i \in Calls(tr)
    PROVE  /\ i \in Listed(todo, proc_todo, async_todo) <=> Queued(i)
           /\ Queued(i) => tr[i].buffer
<1>1. i \in Id /\ ~tr[i].one_way
    BY DEF Calls
<1>2. \A s : i \in ToSet(s) <=> i \in Ids(s)
    BY <1>1 DEF ToSet, Ids, OnList
<1>3. threads \subseteq Thread /\ Ids(<<>>) = {}
    BY InvState, WorksEmpty
<1>4. \A x \in Thread : i \in Ids(todo[x]) => x \in threads /\ tr[i].buffer
    BY <1>3 DEF Inv, Gone, Placed, Fit
<1>5. \A p \in Proc : /\ i \in Ids(proc_todo[p]) => live[p] /\ tr[i].buffer
                      /\ i \notin Ids(async_todo[p])
    BY <1>1, <1>3 DEF Inv, Gone, Placed, Fit
<1> QED
    BY <1>1, <1>2, <1>3, <1>4, <1>5 DEF Queued, Listed

\* The sender that an answer to i comes to has the call on top of its stack.
LEMMA UptoTop ==
    ASSUME NEW T, NEW s, NEW th, NEW Q, Chains(T, s, th, Q), NEW i \in Q,
           NEW u, u = Upto(T, i), u # None
    PROVE  u \in Calls(T) /\ T[u].from \in th /\ s[T[u].from] = u
<1> DEFINE C == FromChain(T, i)
           n == Senderless(T, i)
           g == Over(T, i)
           U == [j \in Id |-> IF j \in g \cup {u} THEN None ELSE T[j]]
           v == [y \in th \cup {T[u].from} |-> IF y = T[u].from THEN T[u].from_parent ELSE s[y]]
<1>1. PICK d, r : ChainsBy(T, s, th, Q, d, r)
    BY DEF Chains
<1>2. i \in Calls(T) /\ i \in Id /\ i # None /\ None \notin Calls(T)
    BY <1>1, ChainsParts, Names DEF QueuedTips, Calls
<1>3. ChainFn(T, i, C)
    BY FromChainIs
<1>4. FirstSender(T, C, n)
    <2>1. C[N] = None
        BY <1>1, <1>2, <1>3, ChainEnds
    <2> QED
        BY <2>1, SenderlessIs
<1>5. g = {C[k] : k \in 0 .. n - 1} /\ u = C[n]
    BY DEF Over, Upto
<1>6. \A e, q : ChainsBy(T, s, th, Q, e, q) => Walk(T, i, g, u, e, q)
    <2> SUFFICES ASSUME NEW e, NEW q, ChainsBy(T, s, th, Q, e, q) PROVE Walk(T, i, g, u, e, q)
        OBVIOUS
    <2>1. Tip(T, e, q, i)
        BY ChainsParts DEF QueuedTips
    <2>2. Walk(T, i, {C[k] : k \in 0 .. n - 1}, C[n], e, q)
        <3> HIDE DEF C, n, g
        <3> QED
            BY <1>2, <1>3, <1>4, <2>1, WalkIs
    <2> QED
        BY <1>5, <2>2
<1> HIDE DEF C, n, g
<1>7. Calls(U) = Calls(T) \ (g \cup {u})
    BY DEF Calls
<1>8. \A j \in Calls(U) : SameCall(T, U, j)
    BY <1>7 DEF SameCall, Calls
<1>9. v[T[u].from] = T[u].from_parent /\ \A y \in th : y # T[u].from => v[y] = s[y]
    OBVIOUS
<1> HIDE DEF U, v
<1>10. AnswerStep(T, U, s, v, th, Q, i, g, u)
    BY <1>2, <1>6, <1>7, <1>8, <1>9 DEF AnswerStep
<1>11. /\ u # None => u \in Calls(T) /\ T[u].from \in th /\ s[T[u].from] = u
                       /\ (T[u].from_parent # None => T[T[u].from_parent].to_thread = T[u].from)
       /\ Chains(U, v, th, Q \ {i})
    BY ONLY <1>10, ChainsAnswer
<1> QED
    BY <1>11

\* The same for the call t that y handles, once y has taken it off its stack.
LEMMA HandledTop ==
    ASSUME Inv, NEW y \in threads, NEW t, t = stack[y], t # None, tr[t].to_thread = y,
           NEW u, u = Upto(tr, t), u # None
    PROVE  /\ tr[u].from \in threads
           /\ (IF tr[u].from = y THEN tr[t].to_parent ELSE stack[tr[u].from]) = u
<1> DEFINE Q == Listed(todo, proc_todo, async_todo) \cap Calls(tr)
           U == [tr EXCEPT ![t] = [tr[t] EXCEPT !.to_thread = None]]
           v == [stack EXCEPT ![y] = tr[t].to_parent]
<1>1. /\ Chains(tr, stack, threads, Q) /\ tr \in [Id -> Transaction \cup {None}]
      /\ stack \in [Thread -> Id \cup {None}] /\ threads \subseteq Thread
    BY InvState DEF SInv
<1> HIDE DEF Q
<1>2. t \in Calls(tr) /\ t \in Id
    <2>1. PICK d, r : ChainsBy(tr, stack, threads, Q, d, r)
        BY <1>1 DEF Chains
    <2> QED
        BY <2>1, TopIsTip DEF Calls
<1>3. tr[t] \in Transaction
    BY <1>1, <1>2 DEF Calls
<1>4. /\ U[t] = [tr[t] EXCEPT !.to_thread = None]
      /\ \A j \in Id : j # t => U[j] = tr[j]
    BY <1>1, <1>2
<1>5. /\ U[t] # None /\ U[t].from = tr[t].from /\ U[t].from_parent = tr[t].from_parent
      /\ U[t].to_thread = None /\ U[t].reply = tr[t].reply /\ U[t].one_way = tr[t].one_way
    <2>1. [tr[t] EXCEPT !.to_thread = None] \in Transaction
        BY <1>3 DEF Transaction
    <2>2. /\ U[t].from = tr[t].from /\ U[t].from_parent = tr[t].from_parent
          /\ U[t].to_thread = None /\ U[t].reply = tr[t].reply /\ U[t].one_way = tr[t].one_way
        BY <1>3, <1>4 DEF Transaction
    <2> QED
        BY <1>4, <2>1, <2>2, Names
<1>6. v[y] = tr[t].to_parent /\ \A z \in threads : z # y => v[z] = stack[z]
    BY <1>1
<1> HIDE DEF U, v
<1>7. Calls(U) = Calls(tr)
    BY <1>2, <1>4, <1>5 DEF Calls
<1>8. PopStep(tr, U, stack, v, threads, Q, y, t)
    BY <1>1, <1>2, <1>4, <1>5, <1>6, <1>7 DEF PopStep, SameCall, Calls
<1>9. Chains(U, v, threads, Q \cup {t})
    BY <1>8, ChainsPop
<1>10. \A j \in Calls(tr) : U[j].from = tr[j].from /\ U[j].from_parent = tr[j].from_parent
    BY <1>4, <1>5 DEF Calls
<1>11. u = Upto(U, t)
    BY <1>1, <1>2, <1>10, ChainAgree
<1>12. u \in Calls(U) /\ U[u].from \in threads /\ v[U[u].from] = u
    <2> DEFINE P == Q \cup {t}
    <2>1. Chains(U, v, threads, P) /\ t \in P
        BY <1>9
    <2> HIDE DEF P
    <2> QED
        BY <1>11, <2>1, UptoTop
<1> QED
    BY <1>6, <1>7, <1>10, <1>12

\* The invariant implies StackDiscipline.
LEMMA StackHolds == Inv => StackDiscipline
<1> SUFFICES ASSUME Inv PROVE StackDiscipline
    OBVIOUS
<1> DEFINE Q == Listed(todo, proc_todo, async_todo) \cap Calls(tr)
           top(y, t, w) == IF w = y THEN tr[t].to_parent ELSE stack[w]
           ok(y, t) == LET u == FromChain(tr, t)[Senderless(tr, t)]
                       IN  u # None => tr[u].from \in threads /\ top(y, t, tr[u].from) = u
<1>1. Chains(tr, stack, threads, Q) /\ threads \subseteq Thread
    BY InvState DEF SInv
<1>2. ASSUME NEW y \in threads, stack[y] # None, tr[stack[y]].to_thread = y PROVE ok(y, stack[y])
    <2> DEFINE t == stack[y]
               u == Upto(tr, t)
    <2>1. u # None => /\ tr[u].from \in threads
                      /\ (IF tr[u].from = y THEN tr[t].to_parent ELSE stack[tr[u].from]) = u
        <3> HIDE DEF u
        <3> QED
            BY <1>2, HandledTop DEF u
    <2> QED
        BY <2>1 DEF Upto
<1>3. ASSUME NEW i \in Id, Pending(i), Queued(i) PROVE tr[i].buffer /\ ok(None, i)
    <2>1. i \in Calls(tr)
        BY <1>3 DEF Calls, Pending
    <2>2. i \in Q /\ tr[i].buffer
        BY <1>3, <2>1, QueuedIs
    <2> DEFINE u == Upto(tr, i)
    <2> HIDE DEF Q
    <2>3. u # None => tr[u].from \in threads /\ stack[tr[u].from] = u
        <3> HIDE DEF u
        <3> QED
            BY <1>1, <2>2, UptoTop DEF u
    <2>4. None \notin threads
        BY <1>1, Names
    <2> QED
        BY <2>2, <2>3, <2>4 DEF Upto
<1>4. ASSUME NEW y \in threads, NEW i \in StackFrom(tr, y, stack[y])
      PROVE  Pending(i) /\ y \in {tr[i].from, tr[i].to_thread}
    <2> HIDE DEF Q
    <2>1. PICK d, r : ChainsBy(tr, stack, threads, Q, d, r)
        BY <1>1 DEF Chains
    <2>2. i \in Rel(tr, Q, y)
        BY <1>4, <2>1, StackIsRel
    <2> QED
        BY <2>2 DEF Rel, Calls, Pending
<1> HIDE DEF ok
<1>5. StackDiscipline <=>
        /\ \A y \in threads : stack[y] # None /\ tr[stack[y]].to_thread = y => ok(y, stack[y])
        /\ \A i \in Id : Pending(i) /\ Queued(i) => tr[i].buffer /\ ok(None, i)
        /\ \A y \in threads : \A i \in StackFrom(tr, y, stack[y]) :
               Pending(i) /\ y \in {tr[i].from, tr[i].to_thread}
    BY DEF StackDiscipline, ok
<1> QED
    BY <1>2, <1>3, <1>4, <1>5

(***************************************************************************)
(* The BUG_ON() of binder_pop_transaction() and the BUG() of               *)
(* binder_free_thread() are never reached: whoever answers a call finds it *)
(* on top of the stack of the sender it must tell.                         *)
(***************************************************************************)
THEOREM StacksAreInOrder == Spec => []StackDiscipline
BY Invariance, StackHolds, PTL

\* The walk from a child of j is the walk from j, one place later.
LEMMA ChainShift ==
    ASSUME NEW T, NEW c, NEW j, NEW C, NEW D, ChainFn(T, c, C), ChainFn(T, j, D),
           c # None, T[c].from_parent = j
    PROVE  \A k \in 0 .. N - 1 : C[k + 1] = D[k]
<1> USE NType
<1> DEFINE Bad == {k \in 0 .. N - 1 : C[k + 1] # D[k]}
<1>1. SUFFICES ASSUME Bad # {} PROVE FALSE
    OBVIOUS
<1>2. PICK k \in Bad : \A l \in Bad : k <= l
    <2>1. Bad \in SUBSET Nat
        OBVIOUS
    <2> HIDE DEF Bad
    <2> QED
        BY <1>1, <2>1, Least
<1>3. k \in 0 .. N - 1 /\ C[k + 1] # D[k] /\ k + 1 \in 1 .. N /\ (k + 1) - 1 = k
    BY <1>2
<1>4. C[k + 1] = IF C[k] = None THEN None ELSE T[C[k]].from_parent
    BY <1>3 DEF ChainFn
<1>5. CASE k = 0
    <2>1. C[0] = c /\ D[0] = j
        BY DEF ChainFn
    <2> QED
        BY <1>3, <1>4, <1>5, <2>1
<1>6. CASE k # 0
    <2>1. k - 1 \in 0 .. N - 1 /\ k \in 1 .. N /\ ~(k <= k - 1) /\ (k - 1) + 1 = k
        BY <1>3, <1>6
    <2>2. C[k] = D[k - 1]
        BY <1>2, <2>1
    <2>3. D[k] = IF D[k - 1] = None THEN None ELSE T[D[k - 1]].from_parent
        BY <2>1 DEF ChainFn
    <2> QED
        BY <1>3, <1>4, <2>2, <2>3
<1> QED
    BY <1>5, <1>6

\* An answer to j that walks k places comes over i.
Comes(T, i, j, k) ==
    /\ j \in Calls(T) /\ k \in 0 .. Senderless(T, j) /\ k \in 0 .. N - 1 /\ FromChain(T, j)[k] = i

\* If j lost its handler, an answer to a child of j comes over i too.
LEMMA ComesOn ==
    ASSUME NEW T, NEW s, NEW th, NEW Q, NEW d, NEW r, ChainsBy(T, s, th, Q, d, r),
           NEW i \in Calls(T), NEW j, NEW k, Comes(T, i, j, k),
           j \notin Q, T[j].to_thread = None
    PROVE  \E c : Comes(T, i, c, k + 1)
<1> USE NType
<1>1. j \in Calls(T) /\ None \notin Calls(T)
    BY Names DEF Comes, Calls
<1>2. ~Tip(T, d, r, j)
    BY <1>1, ChainsParts DEF Handlers
<1>3. PICK c \in Calls(T) : T[c].from_parent = j
    BY <1>1, <1>2, ChildOf
<1>4. T[c].from = None /\ c # None
    BY <1>1, <1>3, ChainsParts DEF Parents
<1> DEFINE C == FromChain(T, c)
           D == FromChain(T, j)
           m == Senderless(T, c)
           n == Senderless(T, j)
<1>5. ChainFn(T, c, C) /\ ChainFn(T, j, D)
    BY FromChainIs
<1>6. C[N] = None /\ D[N] = None
    BY <1>1, <1>5, ChainEnds
<1>7. FirstSender(T, C, m) /\ FirstSender(T, D, n)
    BY <1>6, SenderlessIs
<1> HIDE DEF C, D, m, n
<1>8. \A l \in 0 .. N - 1 : C[l + 1] = D[l]
    BY <1>3, <1>4, <1>5, ChainShift
<1>9. C[0] = c /\ D[0] = j
    BY <1>5 DEF ChainFn
<1>10. n \in Nat /\ k \in 0 .. n /\ k \in 0 .. N - 1 /\ D[k] = i
    <2>1. n \in Nat
        BY <1>7 DEF FirstSender
    <2> QED
        BY <2>1 DEF Comes, D, n
<1>11. C[k + 1] = i /\ k + 1 \in 0 .. N /\ i # None
    BY <1>1, <1>8, <1>10
<1>12. k + 1 \in 0 .. N - 1
    <2>1. k + 1 # N
        BY <1>6, <1>11
    <2> QED
        BY <1>10, <2>1
<1>13. k + 1 \in 0 .. m
    <2> SUFFICES ASSUME ~(k + 1 <= m) PROVE FALSE
        BY <1>7, <1>10 DEF FirstSender
    <2>1. m \in 0 .. k /\ m \in 0 .. N /\ (C[m] = None \/ T[C[m]].from # None)
        BY <1>7, <1>10 DEF FirstSender
    <2>2. m # 0
        BY <1>4, <1>9, <2>1
    <2>3. m - 1 \in 0 .. N - 1 /\ (m - 1) + 1 = m /\ m - 1 \in 0 .. n - 1
        BY <1>10, <2>1, <2>2
    <2>4. C[m] = D[m - 1]
        BY <1>8, <2>3
    <2>5. D[m - 1] # None /\ T[D[m - 1]].from = None
        BY <1>7, <2>3 DEF FirstSender
    <2> QED
        BY <2>1, <2>4, <2>5
<1>14. Comes(T, i, c, k + 1)
    BY <1>11, <1>12, <1>13 DEF Comes, C, m
<1> QED
    BY <1>14

\* The invariant implies CallNotForgotten.
LEMMA NotForgotten == Inv => CallNotForgotten
<1> USE NType
<1> SUFFICES ASSUME Inv PROVE CallNotForgotten
    OBVIOUS
<1> DEFINE Q == Listed(todo, proc_todo, async_todo) \cap Calls(tr)
           held(j) == Queued(j) \/ tr[j].to_thread \in threads
           below(j) == LET C == FromChain(tr, j) IN {C[k] : k \in 0 .. Senderless(tr, j)}
<1>1. Chains(tr, stack, threads, Q) /\ threads \subseteq Thread
    BY InvState DEF SInv
<1>2. PICK d, r : ChainsBy(tr, stack, threads, Q, d, r)
    BY <1>1 DEF Chains
<1>3. ASSUME NEW i \in Id, Pending(i), tr[i].from # None
      PROVE  \E j \in Id : Pending(j) /\ held(j) /\ i \in below(j)
    <2>1. i \in Calls(tr) /\ i # None
        BY <1>3, Names DEF Calls, Pending
    <2> DEFINE K == {n \in 0 .. N : \E j : Comes(tr, i, j, N - n)}
    <2>2. K # {}
        <3> DEFINE C == FromChain(tr, i)
                   n == Senderless(tr, i)
        <3> HIDE DEF Q
        <3>1. ChainFn(tr, i, C)
            BY FromChainIs
        <3>2. C[N] = None
            BY <1>2, <2>1, <3>1, ChainEnds
        <3>3. FirstSender(tr, C, n)
            BY <3>2, SenderlessIs
        <3>4. C[0] = i
            BY <3>1 DEF ChainFn
        <3>5. n \in Nat
            BY <3>3 DEF FirstSender
        <3>6. N # 0
            BY <2>1, <3>2, <3>4
        <3>7. Comes(tr, i, i, 0)
            <4> HIDE DEF C, n
            <4> QED
                BY <2>1, <3>4, <3>5, <3>6 DEF Comes, C, n
        <3>8. N \in 0 .. N /\ N - N = 0
            OBVIOUS
        <3>9. N \in K
            BY <3>7, <3>8
        <3> QED
            BY <3>9
    <2>3. PICK n \in K : \A l \in K : n <= l
        <3>1. K \in SUBSET Nat
            OBVIOUS
        <3> HIDE DEF K
        <3> QED
            BY <2>2, <3>1, Least
    <2>4. PICK j : Comes(tr, i, j, N - n)
        BY <2>3
    <2>5. j \in Calls(tr) /\ i \in below(j) /\ N - n \in 0 .. N - 1 /\ n \in 0 .. N
        BY <2>3, <2>4 DEF Comes
    <2>6. j \in Q \/ tr[j].to_thread # None
        <3> SUFFICES ASSUME j \notin Q, tr[j].to_thread = None PROVE FALSE
            OBVIOUS
        <3> HIDE DEF Q, K
        <3>1. PICK c : Comes(tr, i, c, (N - n) + 1)
            BY <1>2, <2>1, <2>4, ComesOn
        <3>2. (N - n) + 1 \in 0 .. N - 1
            BY <3>1 DEF Comes
        <3>3. n - 1 \in 0 .. N /\ N - (n - 1) = (N - n) + 1 /\ ~(n <= n - 1)
            BY <2>5, <3>2
        <3>4. n - 1 \in K
            BY <3>1, <3>3 DEF K
        <3> QED
            BY <2>3, <3>3, <3>4
    <2>7. held(j)
        <3>1. j \in Q => Queued(j)
            BY <2>5, QueuedIs
        <3>2. j \notin Q /\ tr[j].to_thread # None => tr[j].to_thread \in threads
            <4> HIDE DEF Q
            <4> QED
                BY <1>2, <2>5, ChainsParts DEF Handlers
        <3> QED
            BY <2>6, <3>1, <3>2
    <2>8. j \in Id /\ Pending(j)
        BY <2>5 DEF Calls, Pending
    <2> QED
        BY <2>5, <2>7, <2>8
<1> QED
    BY <1>3 DEF CallNotForgotten

(***************************************************************************)
(* A caller that waits for a reply is waiting for someone: its call, or    *)
(* one that hangs on it through transactions whose senders are gone, is    *)
(* queued or is handled by a thread that lives.                            *)
(***************************************************************************)
THEOREM CallsAreNotForgotten == Spec => []CallNotForgotten
BY Invariance, NotForgotten, PTL
=============================================================================
