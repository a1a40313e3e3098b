---------------------------- MODULE KListProofs ----------------------------
(***************************************************************************)
(* What the list operations of KList do to the set of tasks on a list and  *)
(* to its freedom from duplicates.  The proofs about the locks cite these  *)
(* facts and never look into the operators.                                *)
(***************************************************************************)
EXTENDS KList, SequencesExt, WellFoundedInduction, TLAPS

\* The first node of a list that is not empty is on it.
LEMMA HeadOn ==
    ASSUME NEW S, NEW s \in Seq(S), s # <<>>
    PROVE  Head(s) \in S /\ OnList(s, Head(s))
BY DEF OnList

\* A task on a list of tasks is a task, and its list is not empty.
LEMMA OnType ==
    ASSUME NEW S, NEW s \in Seq(S), NEW x, OnList(s, x)
    PROVE  x \in S /\ s # <<>>
BY DEF OnList

\* list_add_tail(): the list gains the task, and no duplicate if the task
\* was not on it.
LEMMA AppendList ==
    ASSUME NEW S, NEW s \in Seq(S), NEW x \in S
    PROVE  /\ Append(s, x) \in Seq(S)
           /\ Append(s, x) # <<>>
           /\ s # <<>> => Head(Append(s, x)) = Head(s)
           /\ \A y : OnList(Append(s, x), y) <=> OnList(s, y) \/ y = x
           /\ NoDup(s) /\ ~OnList(s, x) => NoDup(Append(s, x))
<1>1. /\ Append(s, x) \in Seq(S)
      /\ Len(Append(s, x)) = Len(s) + 1
      /\ \A i \in 1 .. Len(s) : Append(s, x)[i] = s[i]
      /\ Append(s, x)[Len(s) + 1] = x
    OBVIOUS
<1>2. Append(s, x) # <<>> /\ (s # <<>> => Head(Append(s, x)) = Head(s))
    BY <1>1
<1>3. ASSUME NEW y PROVE OnList(Append(s, x), y) <=> OnList(s, y) \/ y = x
    BY <1>1 DEF OnList
<1>4. ASSUME NoDup(s), ~OnList(s, x) PROVE NoDup(Append(s, x))
    BY <1>1, <1>4 DEF OnList, NoDup
<1> QED
    BY <1>1, <1>2, <1>3, <1>4

\* list_del() of a node that is on a list without duplicates: the list loses
\* this task and nothing else.
LEMMA DelList ==
    ASSUME NEW S, NEW s \in Seq(S), NEW x, OnList(s, x)
    PROVE  /\ list_del(s, x) \in Seq(S)
           /\ NoDup(s) => /\ \A y : OnList(list_del(s, x), y)
                                       <=> OnList(s, y) /\ y # x
                          /\ NoDup(list_del(s, x))
<1> DEFINE k == CHOOSE i \in DOMAIN s : s[i] = x
           d == list_del(s, x)
           old(j) == IF j < k THEN j ELSE j + 1  \* the place it had in s
<1>1. k \in 1 .. Len(s) /\ s[k] = x
    BY DEF OnList
<1>2. d = [j \in 1 .. Len(s) - 1 |-> IF j < k THEN s[j] ELSE s[j + 1]]
    BY DEF list_del
<1> HIDE DEF k, d
<1>3. /\ d \in Seq(S)
      /\ DOMAIN d = 1 .. Len(s) - 1
      /\ \A j \in 1 .. Len(s) - 1 : d[j] = IF j < k THEN s[j] ELSE s[j + 1]
    BY <1>1, <1>2
<1>4. ASSUME NoDup(s), NEW y PROVE OnList(d, y) <=> OnList(s, y) /\ y # x
    <2>1. ASSUME OnList(d, y) PROVE OnList(s, y) /\ y # x
        <3>1. PICK j \in 1 .. Len(s) - 1 : d[j] = y
            BY <1>3, <2>1 DEF OnList
        <3>2. /\ old(j) \in 1 .. Len(s) /\ old(j) # k
              /\ s[old(j)] = y
            BY <1>1, <1>3, <3>1
        <3> QED
            BY <1>1, <1>4, <3>2 DEF OnList, NoDup
    <2>2. ASSUME OnList(s, y), y # x PROVE OnList(d, y)
        <3>1. PICK i \in 1 .. Len(s) : s[i] = y /\ i # k
            BY <1>1, <2>2 DEF OnList
        <3>2. CASE i < k
            <4>1. i \in 1 .. Len(s) - 1 /\ d[i] = y
                BY <1>1, <1>3, <3>1, <3>2
            <4> QED
                BY <1>3, <4>1 DEF OnList
        <3>3. CASE i > k
            <4>1. i - 1 \in 1 .. Len(s) - 1 /\ d[i - 1] = y
                BY <1>1, <1>3, <3>1, <3>3
            <4> QED
                BY <1>3, <4>1 DEF OnList
        <3> QED
            BY <1>1, <3>1, <3>2, <3>3
    <2> QED
        BY <2>1, <2>2
<1>5. ASSUME NoDup(s) PROVE NoDup(d)
    <2>1. SUFFICES ASSUME NEW i \in 1 .. Len(s) - 1,
                          NEW j \in 1 .. Len(s) - 1, d[i] = d[j]
                   PROVE  i = j
        BY <1>3 DEF NoDup
    <2>2. /\ old(i) \in 1 .. Len(s) /\ old(j) \in 1 .. Len(s)
          /\ s[old(i)] = s[old(j)]
        BY <1>1, <1>3, <2>1
    <2>3. old(i) = old(j)
        BY <1>5, <2>2 DEF NoDup
    <2> QED
        BY <1>1, <2>3
<1> QED
    BY <1>3, <1>4, <1>5 DEF d

\* The first node is taken off a list without duplicates (list_del() of the
\* list_first_entry()): the list loses its head and nothing else.
LEMMA TailList ==
    ASSUME NEW S, NEW s \in Seq(S), s # <<>>
    PROVE  /\ Tail(s) \in Seq(S)
           /\ NoDup(s) => /\ \A y : OnList(Tail(s), y)
                                       <=> OnList(s, y) /\ y # Head(s)
                          /\ NoDup(Tail(s))
<1>1. /\ Tail(s) \in Seq(S)
      /\ DOMAIN Tail(s) = 1 .. Len(s) - 1
      /\ Head(s) = s[1]
      /\ Len(s) \in Nat /\ Len(s) > 0
      /\ \A i \in 1 .. Len(s) - 1 : Tail(s)[i] = s[i + 1]
    OBVIOUS
<1>2. ASSUME NoDup(s), NEW y
      PROVE  OnList(Tail(s), y) <=> OnList(s, y) /\ y # Head(s)
    <2>1. ASSUME OnList(Tail(s), y) PROVE OnList(s, y) /\ y # Head(s)
        BY <1>1, <1>2, <2>1 DEF OnList, NoDup
    <2>2. ASSUME OnList(s, y), y # Head(s) PROVE OnList(Tail(s), y)
        <3>1. PICK i \in 1 .. Len(s) : s[i] = y /\ i # 1
            BY <1>1, <2>2 DEF OnList
        <3>2. i - 1 \in 1 .. Len(s) - 1 /\ Tail(s)[i - 1] = y
            BY <1>1, <3>1
        <3> QED
            BY <1>1, <3>2 DEF OnList
    <2> QED
        BY <2>1, <2>2
<1>3. ASSUME NoDup(s) PROVE NoDup(Tail(s))
    BY <1>1, <1>3 DEF NoDup
<1> QED
    BY <1>1, <1>2, <1>3

\* y's node is somewhere behind x's.
Ahead(s, x, y) == \E i, j \in DOMAIN s : i < j /\ s[i] = x /\ s[j] = y

\* A node is put in the middle of a list: those from there on move by one.
LEMMA InsertPlaces ==
    ASSUME NEW S, NEW s \in Seq(S), NEW x \in S, NEW pos \in 1 .. Len(s) + 1
    PROVE  LET t == InsertAt(s, pos, x)
           IN  /\ t \in Seq(S) /\ DOMAIN t = 1 .. Len(s) + 1 /\ t[pos] = x
               /\ \A i \in 1 .. Len(s) : t[IF i < pos THEN i ELSE i + 1] = s[i]
<1> DEFINE a == SubSeq(s, 1, pos - 1)
           b == SubSeq(s, pos, Len(s))
           c == a \o <<x>>
           t == InsertAt(s, pos, x)
<1>1. Len(s) \in Nat /\ pos \in Nat
    OBVIOUS
<1>2. a \in Seq(S) /\ Len(a) = pos - 1 /\ \A i \in 1 .. pos - 1 : a[i] = s[i]
    BY <1>1
<1>3. /\ b \in Seq(S) /\ Len(b) = Len(s) - pos + 1
      /\ \A i \in 1 .. Len(s) - pos + 1 : b[i] = s[pos + i - 1]
    BY <1>1
<1>4. t = c \o b
    BY DEF InsertAt
<1> HIDE DEF a, b, t
<1>5. /\ c \in Seq(S) /\ Len(c) = pos /\ c[pos] = x
      /\ \A i \in 1 .. pos - 1 : c[i] = a[i]
    BY <1>1, <1>2
<1> HIDE DEF c
<1>6. /\ t \in Seq(S) /\ Len(t) = Len(s) + 1
      /\ \A i \in 1 .. pos : t[i] = c[i]
      /\ \A i \in pos + 1 .. Len(s) + 1 : t[i] = b[i - pos]
    BY <1>1, <1>3, <1>4, <1>5
<1>7. ASSUME NEW i \in 1 .. Len(s) PROVE t[IF i < pos THEN i ELSE i + 1] = s[i]
    <2>1. CASE i < pos
        BY <1>1, <1>2, <1>5, <1>6, <2>1
    <2>2. CASE i >= pos
        <3>1. /\ i + 1 \in pos + 1 .. Len(s) + 1
              /\ (i + 1) - pos \in 1 .. Len(s) - pos + 1
              /\ pos + ((i + 1) - pos) - 1 = i
            BY <1>1, <2>2
        <3>2. t[i + 1] = b[(i + 1) - pos]
            BY <1>6, <3>1
        <3>3. b[(i + 1) - pos] = s[pos + ((i + 1) - pos) - 1]
            BY <1>3, <3>1
        <3> QED
            BY <1>1, <2>2, <3>1, <3>2, <3>3
    <2> QED
        BY <1>1, <2>1, <2>2
<1> QED
    BY <1>1, <1>5, <1>6, <1>7 DEF t

\* The list gains the node and keeps its order.
LEMMA InsertList ==
    ASSUME NEW S, NEW s \in Seq(S), NEW x \in S, NEW pos \in 1 .. Len(s) + 1
    PROVE  LET t == InsertAt(s, pos, x)
           IN  /\ t \in Seq(S)
               /\ \A y : OnList(t, y) <=> OnList(s, y) \/ y = x
               /\ NoDup(s) /\ ~OnList(s, x) => NoDup(t)
               /\ \A y, z : Ahead(s, y, z) => Ahead(t, y, z)
<1> DEFINE t == InsertAt(s, pos, x)
           new(i) == IF i < pos THEN i ELSE i + 1   \* where a node of s goes
           old(i) == IF i < pos THEN i ELSE i - 1   \* and where it was
<1>1. /\ t \in Seq(S) /\ DOMAIN t = 1 .. Len(s) + 1 /\ t[pos] = x
      /\ \A i \in 1 .. Len(s) : t[new(i)] = s[i]
    BY InsertPlaces
<1> HIDE DEF t
<1>2. Len(s) \in Nat /\ DOMAIN s = 1 .. Len(s)
    OBVIOUS
<1>3. /\ \A i \in 1 .. Len(s) : new(i) \in 1 .. Len(s) + 1
      /\ \A i \in 1 .. Len(s) + 1 : i # pos => old(i) \in 1 .. Len(s) /\ new(old(i)) = i
      /\ \A i, j \in 1 .. Len(s) : i < j => new(i) < new(j)
    BY <1>2
<1> HIDE DEF new, old
<1>4. \A i \in 1 .. Len(s) + 1 : i # pos => t[i] = s[old(i)]
    BY <1>1, <1>3
<1>5. ASSUME NEW y PROVE OnList(t, y) <=> OnList(s, y) \/ y = x
    BY <1>1, <1>2, <1>3, <1>4 DEF OnList
<1>6. ASSUME NoDup(s), ~OnList(s, x) PROVE NoDup(t)
    <2>1. SUFFICES ASSUME NEW i \in 1 .. Len(s) + 1, NEW j \in 1 .. Len(s) + 1,
                          t[i] = t[j]
                   PROVE  i = j
        BY <1>1 DEF NoDup
    <2>2. CASE i # pos /\ j # pos
        <3>1. old(i) = old(j)
            BY <1>2, <1>3, <1>4, <1>6, <2>1, <2>2 DEF NoDup
        <3> QED
            BY <1>3, <2>2, <3>1
    <2>3. CASE i = pos \/ j = pos
        BY <1>1, <1>2, <1>3, <1>4, <1>6, <2>1, <2>3 DEF OnList
    <2> QED
        BY <2>2, <2>3
<1>7. ASSUME NEW y, NEW z, Ahead(s, y, z) PROVE Ahead(t, y, z)
    <2>1. PICK i \in 1 .. Len(s), j \in 1 .. Len(s) : i < j /\ s[i] = y /\ s[j] = z
        BY <1>2, <1>7 DEF Ahead
    <2>2. /\ new(i) \in DOMAIN t /\ new(j) \in DOMAIN t /\ new(i) < new(j)
          /\ t[new(i)] = y /\ t[new(j)] = z
        BY <1>1, <1>3, <2>1
    <2> QED
        BY <2>2 DEF Ahead
<1> QED
    BY <1>1, <1>5, <1>6, <1>7 DEF t

\* The nodes in front of the place are ahead of the new one.
LEMMA InsertBehind ==
    ASSUME NEW S, NEW s \in Seq(S), NEW x \in S, NEW pos \in 1 .. Len(s) + 1,
           NEW k \in 1 .. Len(s), k < pos
    PROVE  Ahead(InsertAt(s, pos, x), s[k], x)
<1> DEFINE t == InsertAt(s, pos, x)
<1>1. /\ DOMAIN t = 1 .. Len(s) + 1 /\ t[pos] = x
      /\ \A i \in 1 .. Len(s) : t[IF i < pos THEN i ELSE i + 1] = s[i]
    BY InsertPlaces
<1> HIDE DEF t
<1>2. t[k] = s[k] /\ k \in 1 .. Len(s) + 1
    BY <1>1
<1>3. Ahead(t, s[k], x)
    BY <1>1, <1>2 DEF Ahead
<1> QED
    BY <1>3 DEF t

\* list_add(): the same at the head of the list.
LEMMA HeadList ==
    ASSUME NEW S, NEW s \in Seq(S), NEW x \in S
    PROVE  LET t == <<x>> \o s
           IN  /\ t \in Seq(S)
               /\ \A y : OnList(t, y) <=> OnList(s, y) \/ y = x
               /\ NoDup(s) /\ ~OnList(s, x) => NoDup(t)
               /\ \A y, z : Ahead(s, y, z) => Ahead(t, y, z)
<1> DEFINE t == <<x>> \o s
           u == InsertAt(s, 1, x)
<1>1. /\ t \in Seq(S) /\ Len(t) = Len(s) + 1 /\ t[1] = x
      /\ \A i \in 1 .. Len(s) : t[i + 1] = s[i]
    OBVIOUS
<1>2. /\ u \in Seq(S) /\ DOMAIN u = 1 .. Len(s) + 1 /\ u[1] = x
      /\ \A i \in 1 .. Len(s) : u[i + 1] = s[i]
    <2>1. 1 \in 1 .. Len(s) + 1 /\ \A i \in 1 .. Len(s) : ~(i < 1)
        OBVIOUS
    <2> QED
        BY <2>1, InsertPlaces
<1> HIDE DEF t, u
<1>3. ASSUME NEW i \in 1 .. Len(s) + 1 PROVE t[i] = u[i]
    <2>1. CASE i = 1
        BY <1>1, <1>2, <2>1
    <2>2. CASE i # 1
        <3>1. i - 1 \in 1 .. Len(s) /\ (i - 1) + 1 = i
            BY <2>2
        <3> QED
            BY <1>1, <1>2, <3>1
    <2> QED
        BY <2>1, <2>2
<1>4. t = u
    BY <1>1, <1>2, <1>3
<1>5. 1 \in 1 .. Len(s) + 1
    OBVIOUS
<1>6. /\ u \in Seq(S)
      /\ \A y : OnList(u, y) <=> OnList(s, y) \/ y = x
      /\ NoDup(s) /\ ~OnList(s, x) => NoDup(u)
      /\ \A y, z : Ahead(s, y, z) => Ahead(u, y, z)
    BY <1>5, InsertList DEF u
<1> QED
    BY <1>4, <1>6 DEF t

\* Behind the last node every other one is ahead.
LEMMA AppendAhead ==
    ASSUME NEW S, NEW s \in Seq(S), NEW x \in S
    PROVE  /\ \A y, z : Ahead(s, y, z) => Ahead(Append(s, x), y, z)
           /\ \A y : OnList(s, y) => Ahead(Append(s, x), y, x)
<1>1. /\ DOMAIN Append(s, x) = 1 .. Len(s) + 1 /\ DOMAIN s = 1 .. Len(s)
      /\ \A i \in 1 .. Len(s) : Append(s, x)[i] = s[i]
      /\ Append(s, x)[Len(s) + 1] = x
      /\ Len(s) \in Nat
    OBVIOUS
<1> QED
    BY <1>1 DEF OnList, Ahead

\* Nodes that stay keep their order when one between them goes.
LEMMA DelAhead ==
    ASSUME NEW S, NEW s \in Seq(S), NEW x, OnList(s, x),
           NEW y, NEW z, y # x, z # x, Ahead(s, y, z)
    PROVE  Ahead(list_del(s, x), y, z)
<1> DEFINE k == CHOOSE i \in DOMAIN s : s[i] = x
           d == list_del(s, x)
           new(j) == IF j < k THEN j ELSE j - 1
<1>1. k \in 1 .. Len(s) /\ s[k] = x
    BY DEF OnList
<1>2. d = [j \in 1 .. Len(s) - 1 |-> IF j < k THEN s[j] ELSE s[j + 1]]
    BY DEF list_del
<1> HIDE DEF k, d
<1>3. PICK i \in 1 .. Len(s), j \in 1 .. Len(s) : i < j /\ s[i] = y /\ s[j] = z
    BY DEF Ahead
<1>4. i # k /\ j # k /\ Len(s) \in Nat
    BY <1>1, <1>3
<1>5. /\ new(i) \in 1 .. Len(s) - 1 /\ new(j) \in 1 .. Len(s) - 1 /\ new(i) < new(j)
      /\ d[new(i)] = y /\ d[new(j)] = z
    BY <1>1, <1>2, <1>3, <1>4
<1>6. DOMAIN d = 1 .. Len(s) - 1
    BY <1>2
<1> HIDE DEF new
<1>7. Ahead(d, y, z)
    BY <1>5, <1>6 DEF Ahead
<1> QED
    BY <1>7 DEF d

\* When the head goes, the order of the rest stays; what is behind a node is
\* not the head.
LEMMA TailAhead ==
    ASSUME NEW S, NEW s \in Seq(S), s # <<>>, NoDup(s), NEW y, NEW z, Ahead(s, y, z)
    PROVE  /\ z # Head(s)
           /\ y # Head(s) => Ahead(Tail(s), y, z)
<1>1. /\ DOMAIN Tail(s) = 1 .. Len(s) - 1 /\ DOMAIN s = 1 .. Len(s)
      /\ Head(s) = s[1]
      /\ Len(s) \in Nat /\ Len(s) > 0
      /\ \A i \in 1 .. Len(s) - 1 : Tail(s)[i] = s[i + 1]
    OBVIOUS
<1>2. PICK i \in 1 .. Len(s), j \in 1 .. Len(s) : i < j /\ s[i] = y /\ s[j] = z
    BY <1>1 DEF Ahead
<1>3. z # Head(s)
    BY <1>1, <1>2 DEF NoDup
<1>4. ASSUME y # Head(s) PROVE Ahead(Tail(s), y, z)
    <2>1. i # 1 /\ j # 1
        BY <1>1, <1>2, <1>4
    <2>2. /\ i - 1 \in 1 .. Len(s) - 1 /\ j - 1 \in 1 .. Len(s) - 1 /\ i - 1 < j - 1
          /\ (i - 1) + 1 = i /\ (j - 1) + 1 = j
        BY <1>1, <1>2, <2>1
    <2>3. Tail(s)[i - 1] = y /\ Tail(s)[j - 1] = z
        BY <1>1, <1>2, <2>2
    <2> QED
        BY <1>1, <2>2, <2>3 DEF Ahead
<1> QED
    BY <1>3, <1>4

\* No operation makes up an order.  What is ahead of what after one of them
\* was so before, or is one of the two the new node.
LEMMA AppendAheadBack ==
    ASSUME NEW S, NEW s \in Seq(S), NEW x \in S, NEW y, NEW z,
           Ahead(Append(s, x), y, z)
    PROVE  Ahead(s, y, z) \/ (OnList(s, y) /\ z = x)
<1>1. /\ DOMAIN Append(s, x) = 1 .. Len(s) + 1 /\ DOMAIN s = 1 .. Len(s)
      /\ \A i \in 1 .. Len(s) : Append(s, x)[i] = s[i]
      /\ Append(s, x)[Len(s) + 1] = x
      /\ Len(s) \in Nat
    OBVIOUS
<1>2. PICK i \in 1 .. Len(s) + 1, j \in 1 .. Len(s) + 1 :
              i < j /\ Append(s, x)[i] = y /\ Append(s, x)[j] = z
    BY <1>1 DEF Ahead
<1>3. i \in 1 .. Len(s) /\ s[i] = y
    BY <1>1, <1>2
<1>4. CASE j = Len(s) + 1
    BY <1>1, <1>2, <1>3, <1>4 DEF OnList
<1>5. CASE j \in 1 .. Len(s)
    BY <1>1, <1>2, <1>3, <1>5 DEF Ahead
<1> QED
    BY <1>1, <1>4, <1>5

LEMMA DelAheadBack ==
    ASSUME NEW S, NEW s \in Seq(S), NEW x, OnList(s, x),
           NEW y, NEW z, Ahead(list_del(s, x), y, z)
    PROVE  Ahead(s, y, z)
<1> DEFINE k == CHOOSE i \in DOMAIN s : s[i] = x
           d == list_del(s, x)
           old(j) == IF j < k THEN j ELSE j + 1
<1>1. k \in 1 .. Len(s) /\ s[k] = x
    BY DEF OnList
<1>2. d = [j \in 1 .. Len(s) - 1 |-> IF j < k THEN s[j] ELSE s[j + 1]]
    BY DEF list_del
<1> HIDE DEF k
<1>3. PICK i \in DOMAIN d, j \in DOMAIN d : i < j /\ d[i] = y /\ d[j] = z
    BY DEF Ahead
<1> HIDE DEF d
<1>4. /\ old(i) \in DOMAIN s /\ old(j) \in DOMAIN s /\ old(i) < old(j)
      /\ s[old(i)] = y /\ s[old(j)] = z
    BY <1>1, <1>2, <1>3
<1> HIDE DEF old
<1> QED
    BY <1>4 DEF Ahead

LEMMA InsertAheadBack ==
    ASSUME NEW S, NEW s \in Seq(S), NEW x \in S, NEW pos \in 1 .. Len(s) + 1,
           NEW y, NEW z, Ahead(InsertAt(s, pos, x), y, z)
    PROVE  \/ Ahead(s, y, z)
           \/ \E i \in 1 .. Len(s) : i < pos /\ s[i] = y /\ z = x
           \/ \E i \in 1 .. Len(s) : i >= pos /\ s[i] = z /\ y = x
<1> DEFINE t == InsertAt(s, pos, x)
           old(i) == IF i < pos THEN i ELSE i - 1
<1>1. /\ DOMAIN t = 1 .. Len(s) + 1 /\ t[pos] = x
      /\ \A i \in 1 .. Len(s) : t[IF i < pos THEN i ELSE i + 1] = s[i]
    BY InsertPlaces
<1>2. PICK i \in DOMAIN t, j \in DOMAIN t : i < j /\ t[i] = y /\ t[j] = z
    BY DEF Ahead
<1> HIDE DEF t
<1>3. Len(s) \in Nat /\ DOMAIN s = 1 .. Len(s)
    OBVIOUS
<1>4. ASSUME NEW n \in 1 .. Len(s) + 1, n # pos
      PROVE  old(n) \in 1 .. Len(s) /\ s[old(n)] = t[n]
    <2>1. old(n) \in 1 .. Len(s) /\ (IF old(n) < pos THEN old(n) ELSE old(n) + 1) = n
        BY <1>3, <1>4
    <2> HIDE DEF old
    <2>2. t[IF old(n) < pos THEN old(n) ELSE old(n) + 1] = s[old(n)]
        BY <1>1, <2>1
    <2> QED
        BY <2>1, <2>2
<1>5. i \in 1 .. Len(s) + 1 /\ j \in 1 .. Len(s) + 1 /\ i < j
    BY <1>1, <1>2
<1>6. CASE i # pos /\ j # pos
    <2>1. old(i) \in DOMAIN s /\ old(j) \in DOMAIN s /\ old(i) < old(j)
        BY <1>3, <1>4, <1>5, <1>6
    <2>2. s[old(i)] = y /\ s[old(j)] = z
        <3> HIDE DEF old
        <3> QED
            BY <1>2, <1>4, <1>5, <1>6
    <2> HIDE DEF old
    <2> QED
        BY <2>1, <2>2 DEF Ahead
<1>7. CASE i = pos
    <2>1. old(j) \in 1 .. Len(s) /\ old(j) >= pos
        BY <1>3, <1>4, <1>5, <1>7
    <2> HIDE DEF old
    <2>2. s[old(j)] = z /\ y = x
        BY <1>1, <1>2, <1>4, <1>5, <1>7
    <2> QED
        BY <2>1, <2>2
<1>8. CASE j = pos
    <2>1. old(i) \in 1 .. Len(s) /\ old(i) < pos
        BY <1>3, <1>4, <1>5, <1>8
    <2> HIDE DEF old
    <2>2. s[old(i)] = y /\ z = x
        BY <1>1, <1>2, <1>4, <1>5, <1>8
    <2> QED
        BY <2>1, <2>2
<1> QED
    BY <1>6, <1>7, <1>8

-----------------------------------------------------------------------------
(***************************************************************************)
(* Induction.  What a walk of a list computes is proved by looking at the  *)
(* first place where it would be wrong.                                    *)
(***************************************************************************)

\* A set of natural numbers that is not empty has a least member.
LEMMA Least ==
    ASSUME NEW T \in SUBSET Nat, T # {}
    PROVE  \E x \in T : \A y \in T : x <= y
<1> DEFINE R == OpToRel(<, Nat)
<1>1. IsWellFoundedOn(R, Nat)
    BY NatLessThanWellFounded
<1>2. PICK x \in T : \A y \in T : ~(<<y, x>> \in R)
    <2> HIDE DEF R
    <2> QED
        BY <1>1, WFMin
<1>3. \A y \in T : <<y, x>> \in R <=> y < x
    BY DEF OpToRel
<1> HIDE DEF R
<1>4. ASSUME NEW y \in T PROVE x <= y
    <2>1. x \in Nat /\ y \in Nat
        OBVIOUS
    <2>2. ~(y < x)
        BY <1>2, <1>3
    <2> QED
        BY <2>1, <2>2
<1> QED
    BY <1>4

\* list_del() of all nodes of S in one walk: the list loses these tasks and
\* nothing else, and it stays free of duplicates.
LEMMA DelAllList ==
    ASSUME NEW V, NEW s \in Seq(V), NEW S
    PROVE  /\ list_del_all(s, S) \in Seq(V)
           /\ \A y : OnList(list_del_all(s, S), y) <=> OnList(s, y) /\ y \notin S
           /\ NoDup(s) => NoDup(list_del_all(s, S))
           /\ \A y, z : Ahead(list_del_all(s, S), y, z) => Ahead(s, y, z)
<1> DEFINE Step(l, i) == IF s[i] \in S THEN l ELSE Append(l, s[i])
           Walk(f, n) == /\ f \in [0 .. n -> Seq(V)]
                         /\ f[0] = <<>>
                         /\ \A i \in 1 .. n : f[i] = Step(f[i - 1], i)
           Body(f) == [i \in 0 .. Len(s) |->
                          IF i = 0 THEN <<>>
                          ELSE IF s[i] \in S THEN f[i - 1] ELSE Append(f[i - 1], s[i])]
           walk == CHOOSE f : f = Body(f)
<1>1. \A n \in 0 .. Len(s) : \E f : Walk(f, n)
    <2> DEFINE T == {n \in 0 .. Len(s) : ~\E f : Walk(f, n)}
    <2>1. SUFFICES ASSUME T # {} PROVE FALSE
        OBVIOUS
    <2>2. PICK n \in T : \A m \in T : n <= m
        <3>1. T \in SUBSET Nat
            OBVIOUS
        <3> HIDE DEF T
        <3> QED
            BY <2>1, <3>1, Least
    <2>3. Walk([i \in 0 .. 0 |-> <<>>], 0)
        OBVIOUS
    <2> HIDE DEF Walk
    <2>4. n \in 1 .. Len(s)
        <3>1. n # 0
            BY <2>2, <2>3
        <3> QED
            BY <2>2, <3>1
    <2>5. PICK f : Walk(f, n - 1)
        <3>1. n - 1 \notin T
            <4> HIDE DEF T
            <4> QED
                BY <2>2, <2>4
        <3> QED
            BY <2>4, <3>1
    <2> DEFINE g == [i \in 0 .. n |-> IF i < n THEN f[i] ELSE Step(f[n - 1], n)]
    <2>6. Walk(g, n)
        <3> USE DEF Walk
        <3>1. n \in Nat /\ n > 0 /\ s[n] \in V
            BY <2>4
        <3>2. f[n - 1] \in Seq(V) /\ Step(f[n - 1], n) \in Seq(V)
            BY <2>5, <3>1
        <3> HIDE DEF Step
        <3>3. g \in [0 .. n -> Seq(V)] /\ g[0] = <<>>
            BY <2>5, <3>1, <3>2
        <3>4. ASSUME NEW i \in 1 .. n PROVE g[i] = Step(g[i - 1], i)
            <4>1. CASE i = n
                <5>1. g[n] = Step(f[n - 1], n) /\ g[n - 1] = f[n - 1]
                    BY <3>1
                <5> QED
                    BY <4>1, <5>1
            <4>2. CASE i < n
                <5>1. i \in 1 .. n - 1 /\ g[i] = f[i] /\ g[i - 1] = f[i - 1]
                    BY <3>1, <4>2
                <5> QED
                    BY <2>5, <5>1
            <4> QED
                BY <3>1, <4>1, <4>2
        <3> QED
            BY <3>3, <3>4
    <2> QED
        BY <2>2, <2>6
<1>2. PICK f : Walk(f, Len(s))
    <2> HIDE DEF Walk
    <2> QED
        BY <1>1
<1>3. f = Body(f)
    <2>1. ASSUME NEW i \in 0 .. Len(s) PROVE f[i] = Body(f)[i]
        <3>1. CASE i = 0
            BY <1>2, <3>1
        <3>2. CASE i # 0
            <4>1. i \in 1 .. Len(s)
                BY <3>2
            <4> QED
                BY <1>2, <4>1
        <3> QED
            BY <3>1, <3>2
    <2> QED
        BY <1>2, <2>1
<1>4. walk = Body(walk)
    BY <1>3
<1>5. list_del_all(s, S) = walk[Len(s)]
    BY DEF list_del_all
<1> HIDE DEF walk
<1>6. walk[0] = <<>> /\ \A i \in 1 .. Len(s) : walk[i] = Step(walk[i - 1], i)
    <2>1. ASSUME NEW i \in 0 .. Len(s) PROVE walk[i] = Body(walk)[i]
        <3> HIDE DEF Body
        <3> QED
            BY <1>4
    <2>2. walk[0] = <<>>
        BY <2>1
    <2>3. ASSUME NEW i \in 1 .. Len(s) PROVE walk[i] = Step(walk[i - 1], i)
        <3>1. i \in 0 .. Len(s) /\ i # 0
            OBVIOUS
        <3> QED
            BY <2>1, <3>1
    <2> QED
        BY <2>2, <2>3
<1> DEFINE Right(i) == /\ walk[i] \in Seq(V)
                       /\ \A y : OnList(walk[i], y)
                                    <=> \E j \in 1 .. i : s[j] = y /\ y \notin S
                       /\ NoDup(s) => NoDup(walk[i])
                       /\ \A y, z : Ahead(walk[i], y, z) =>
                            \E j, k \in 1 .. i : j < k /\ s[j] = y /\ s[k] = z
<1>7. \A i \in 0 .. Len(s) : Right(i)
    <2> DEFINE T == {i \in 0 .. Len(s) : ~Right(i)}
    <2>1. SUFFICES ASSUME T # {} PROVE FALSE
        <3> HIDE DEF Right
        <3> QED
            OBVIOUS
    <2>2. PICK i \in T : \A m \in T : i <= m
        <3>1. T \in SUBSET Nat
            OBVIOUS
        <3> HIDE DEF T
        <3> QED
            BY <2>1, <3>1, Least
    <2>3. Right(0)
        BY <1>6 DEF OnList, NoDup, Ahead
    <2> HIDE DEF Right
    <2>4. i \in 1 .. Len(s)
        <3>1. i # 0
            BY <2>2, <2>3
        <3> QED
            BY <2>2, <3>1
    <2>5. Right(i - 1)
        <3>1. i - 1 \notin T
            <4> HIDE DEF T
            <4> QED
                BY <2>2, <2>4
        <3> QED
            BY <2>4, <3>1
    <2> USE DEF Right
    <2>6. CASE s[i] \in S
        <3>1. walk[i] = walk[i - 1]
            BY <1>6, <2>4, <2>6
        <3>2. \A y : (\E j \in 1 .. i : s[j] = y /\ y \notin S)
                        <=> \E j \in 1 .. i - 1 : s[j] = y /\ y \notin S
            BY <2>4, <2>6
        <3>3. \A y, z : Ahead(walk[i], y, z) =>
                 \E j, k \in 1 .. i : j < k /\ s[j] = y /\ s[k] = z
            BY <2>4, <2>5, <3>1
        <3>4. Right(i)
            BY <2>5, <3>1, <3>2, <3>3
        <3> QED
            BY <2>2, <3>4
    <2>7. CASE s[i] \notin S
        <3>1. walk[i] = Append(walk[i - 1], s[i])
            BY <1>6, <2>4, <2>7
        <3>2. s[i] \in V
            BY <2>4
        <3>3. \A y : (\E j \in 1 .. i : s[j] = y /\ y \notin S)
                        <=> (\E j \in 1 .. i - 1 : s[j] = y /\ y \notin S) \/ y = s[i]
            BY <2>4, <2>7
        <3>4. NoDup(s) => ~OnList(walk[i - 1], s[i])
            BY <2>4, <2>5 DEF NoDup
        <3>5. /\ Append(walk[i - 1], s[i]) \in Seq(V)
              /\ \A y : OnList(Append(walk[i - 1], s[i]), y)
                           <=> OnList(walk[i - 1], y) \/ y = s[i]
              /\ NoDup(s) => NoDup(Append(walk[i - 1], s[i]))
            BY <2>5, <3>2, <3>4, AppendList
        <3>6. ASSUME NEW y, NEW z, Ahead(walk[i], y, z)
              PROVE  \E j, k \in 1 .. i : j < k /\ s[j] = y /\ s[k] = z
            <4>1. Ahead(walk[i - 1], y, z) \/ (OnList(walk[i - 1], y) /\ z = s[i])
                BY <2>5, <3>1, <3>2, <3>6, AppendAheadBack
            <4>2. CASE Ahead(walk[i - 1], y, z)
                BY <2>4, <2>5, <4>2
            <4>3. CASE OnList(walk[i - 1], y) /\ z = s[i]
                <5>1. PICK j \in 1 .. i - 1 : s[j] = y
                    BY <2>5, <4>3
                <5> QED
                    BY <2>4, <4>3, <5>1
            <4> QED
                BY <4>1, <4>2, <4>3
        <3>7. Right(i)
            BY <2>5, <3>1, <3>3, <3>5, <3>6
        <3> QED
            BY <2>2, <3>7
    <2> QED
        BY <2>6, <2>7
<1>8. Right(Len(s))
    <2> HIDE DEF Right
    <2> QED
        BY <1>7
<1>9. DOMAIN s = 1 .. Len(s)
    OBVIOUS
<1>10. \A y : (\E j \in 1 .. Len(s) : s[j] = y /\ y \notin S) <=> OnList(s, y) /\ y \notin S
    BY <1>9 DEF OnList
<1>11. \A y, z : (\E j, k \in 1 .. Len(s) : j < k /\ s[j] = y /\ s[k] = z) => Ahead(s, y, z)
    BY <1>9 DEF Ahead
<1> QED
    BY <1>5, <1>8, <1>10, <1>11
=============================================================================
