------------------------ MODULE RealtimeDatabaseProofs ------------------------
(***************************************************************************)
(* For any number of clients, screens, locations and writes: the Realtime  *)
(* Database client keeps the promises that Replica states, and no put is   *)
(* forgotten.                                                              *)
(*                                                                         *)
(* The client takes a write for settled when its answer arrives and no     *)
(* listen is unanswered.  The proof is about why that is late enough: the  *)
(* connection is a queue in either direction, so whatever the server knew  *)
(* when it answered a put or a listen has arrived before the answer, and   *)
(* the count of unanswered listens is exact.                               *)
(*                                                                         *)
(* The first half is about one connection, whatever the messages: what its *)
(* two queues promise, as predicates of the queues alone, and how taking,  *)
(* sending and answering a message keep them.  The second half puts the    *)
(* steps of the system together from them.                                 *)
(***************************************************************************)
EXTENDS RealtimeDatabase, SyncTreeProofs, FiniteSetTheorems

-------------------------------------------------------------------------------
\* Requests and answers
\* (q: the queue to the client, r: the queue to the server)

\* How many messages of the given type are in a queue.
Count(q, type) == Cardinality({i \in DOMAIN q : q[i].type = type})

\* A listen of location l is on its way to the server.
Asked(r, l) == \E i \in DOMAIN r : r[i].type = "listen" /\ r[i].loc = l

\* Message m has data of location l.
Tells(m, l) ==
    \/ m.type = "snapshot" /\ m.loc = l
    \/ m.type = "update" /\ WriteLoc(m.w) = l

\* Nothing is under way without a connection, and the token goes first.
Handshake(state, r, q, srv) ==
    /\ state \in {"Disconnected", "Connecting"} => r = <<>> /\ q = <<>> /\ srv = {}
    /\ state = "Authenticating" =>
          \/ q = <<>> /\ srv = {} /\ r # <<>> /\ r[1].type = "auth"
          \/ q # <<>> /\ q[1].type = "authOk"
    /\ \A i \in DOMAIN r : r[i].type = "auth" =>
          state = "Authenticating" /\ i = 1 /\ q = <<>>
    /\ \A i \in DOMAIN q : q[i].type = "authOk" => state = "Authenticating" /\ i = 1

\* A listen of every location, and of no other, is on its way, answered or
\* will be sent; the client knows how many are unanswered.
Listens(state, ls, r, q, srv, n) ==
    /\ srv \subseteq ls
    /\ \A i \in DOMAIN r : r[i].type = "listen" => r[i].loc \in ls
    /\ \A i \in DOMAIN q, l \in Locations : Tells(q[i], l) => l \in ls
    /\ state = "Connected" => \A l \in ls : l \in srv \/ Asked(r, l)
    /\ n = Count(r, "listen") + Count(q, "listenOk")
    /\ n > 0 => ls # {}

-------------------------------------------------------------------------------
\* Puts (out: the outstanding puts)

Put(m) == m.type = "put"

\* Write v was made before write w.
Older(out, v, w) == \A a, b \in DOMAIN out : out[a] = v /\ out[b] = w => a < b

\* Every outstanding put is on its way exactly once, in order: first those
\* that have been answered.
Flight(state, q, r, out) ==
    /\ \A i \in DOMAIN q : Put(q[i]) => state = "Connected" /\ q[i].w \in In(out)
    /\ \A i \in DOMAIN r : Put(r[i]) => state = "Connected" /\ r[i].w \in In(out)
    /\ \A i, j \in DOMAIN q :
          i < j /\ Put(q[i]) /\ Put(q[j]) => Older(out, q[i].w, q[j].w)
    /\ \A i, j \in DOMAIN r :
          i < j /\ Put(r[i]) /\ Put(r[j]) => Older(out, r[i].w, r[j].w)
    /\ \A i \in DOMAIN q, j \in DOMAIN r :
          Put(q[i]) /\ Put(r[j]) => Older(out, q[i].w, r[j].w)
    /\ state = "Connected" => \A w \in In(out) :
          \/ \E i \in DOMAIN q : Put(q[i]) /\ q[i].w = w
          \/ \E i \in DOMAIN r : Put(r[i]) /\ r[i].w = w

-------------------------------------------------------------------------------
\* Data (x: how many writes of the log L the client's copy of location l shows)

\* The state of location l after k writes is a new one, or the empty list.
Entry(L, l, k) == k = 0 \/ (k \in DOMAIN L /\ WriteLoc(L[k]) = l)

\* The client has the first k writes at l when it has taken the messages before n.
Reached(q, x, l, k, n) ==
    \/ k <= x
    \/ \E j \in DOMAIN q : j < n /\ Tells(q[j], l) /\ k <= q[j].pos

\* What the messages say is so, they come in order and leave nothing out.
Stream(q, x, l, L) ==
    /\ \A i \in DOMAIN q : q[i].type = "snapshot" /\ q[i].loc = l =>
          q[i].pos <= Len(L) /\ q[i].data = DataAt(L, q[i].pos, l)
    /\ \A i \in DOMAIN q : q[i].type = "update" /\ WriteLoc(q[i].w) = l =>
          q[i].pos \in DOMAIN L /\ L[q[i].pos] = q[i].w
    /\ \A i, j \in DOMAIN q : Tells(q[i], l) /\ Tells(q[j], l) /\ i < j =>
          q[i].pos <= q[j].pos /\ (q[j].type = "update" => q[i].pos < q[j].pos)
    /\ \A j \in DOMAIN q : Tells(q[j], l) =>
          x <= q[j].pos /\ (q[j].type = "update" => x < q[j].pos)
    /\ \A i \in DOMAIN q : q[i].type = "update" /\ WriteLoc(q[i].w) = l =>
          \A k \in 0 .. q[i].pos - 1 : Entry(L, l, k) => Reached(q, x, l, k, i)

\* The client has, or is about to have, everything that is at location l.
Caught(q, x, l, L) ==
    \A k \in 0 .. Len(L) : Entry(L, l, k) => Reached(q, x, l, k, Len(q) + 1)

-------------------------------------------------------------------------------
\* The fate of a write (x: the same for the location of write w)

\* The client has w in its copy when it has taken the messages before n.
Included(q, x, L, w, n) == \E k \in DOMAIN L : L[k] = w /\ Reached(q, x, WriteLoc(w), k, n)

\* It will have w in its copy before the last listen is answered.
Coming(q, r, x, L, w) ==
    \/ Asked(r, WriteLoc(w))
    \/ \E j \in DOMAIN q : q[j].type = "listenOk" /\ Included(q, x, L, w, j)

Arrives(q, r, x, L, w, n) == Included(q, x, L, w, n) \/ Coming(q, r, x, L, w)

\* Write w is among the first n of the log.
Has(L, n, w) == \E i \in 1 .. n : L[i] = w

-------------------------------------------------------------------------------
\* Queues

\* What is behind the head of a queue.
LEMMA TailIndex ==
    ASSUME NEW S, NEW q \in Seq(S), q # <<>>
    PROVE  /\ Tail(q) \in Seq(S) /\ Head(q) \in S /\ Head(q) = q[1] /\ 1 \in DOMAIN q
           /\ Len(q) \in Nat /\ Len(q) >= 1 /\ Len(Tail(q)) = Len(q) - 1
           /\ DOMAIN q = 1 .. Len(q) /\ DOMAIN Tail(q) = 1 .. Len(q) - 1
           /\ \A i \in DOMAIN Tail(q) : i \in Nat /\ i + 1 \in DOMAIN q /\ Tail(q)[i] = q[i + 1]
           /\ \A i \in DOMAIN q : i = 1 \/ (i - 1 \in DOMAIN Tail(q) /\ q[i] = Tail(q)[i - 1])
<1>1. PICK n \in Nat : Len(q) = n /\ n >= 1
    BY LenProperties, EmptySeq
<1>2. /\ Tail(q) \in Seq(S) /\ Head(q) \in S /\ Len(Tail(q)) = n - 1
      /\ \A i \in 1 .. n - 1 : Tail(q)[i] = q[i + 1]
    BY <1>1, HeadTailProperties
<1>3. DOMAIN q = 1 .. n /\ DOMAIN Tail(q) = 1 .. n - 1
    BY <1>1, <1>2, LenProperties
<1>4. Head(q) = q[1]
    BY <1>1
<1>5. \A i \in 1 .. n - 1 : i \in Nat /\ i + 1 \in 1 .. n
    OBVIOUS
<1>6. \A i \in 1 .. n : i = 1 \/ (i - 1 \in 1 .. n - 1 /\ (i - 1) + 1 = i)
    OBVIOUS
<1>7. 1 \in 1 .. n
    BY <1>1
<1> QED
    BY <1>1, <1>2, <1>3, <1>4, <1>5, <1>6, <1>7

\* Where the messages of two queues are when one is put behind the other.
LEMMA ConcatIndex ==
    ASSUME NEW S, NEW p \in Seq(S), NEW q \in Seq(S)
    PROVE  /\ p \o q \in Seq(S) /\ Len(p) \in Nat /\ Len(q) \in Nat
           /\ Len(p \o q) = Len(p) + Len(q)
           /\ DOMAIN p = 1 .. Len(p) /\ DOMAIN q = 1 .. Len(q)
           /\ DOMAIN (p \o q) = 1 .. Len(p) + Len(q)
           /\ \A i \in DOMAIN p : i \in DOMAIN (p \o q) /\ (p \o q)[i] = p[i]
           /\ \A i \in DOMAIN q : Len(p) + i \in DOMAIN (p \o q) /\ (p \o q)[Len(p) + i] = q[i]
           /\ \A i \in DOMAIN (p \o q) :
                 \/ i \in DOMAIN p /\ (p \o q)[i] = p[i]
                 \/ i > Len(p) /\ i - Len(p) \in DOMAIN q /\ (p \o q)[i] = q[i - Len(p)]
<1>1. PICK m \in Nat, n \in Nat : m = Len(p) /\ n = Len(q)
    BY LenProperties
<1> DEFINE r == p \o q
<1>2. /\ r \in Seq(S) /\ Len(r) = m + n
      /\ \A i \in 1 .. m + n : r[i] = IF i <= m THEN p[i] ELSE q[i - m]
    BY <1>1, ConcatProperties
<1> HIDE DEF r
<1>3. DOMAIN p = 1 .. m /\ DOMAIN q = 1 .. n /\ DOMAIN r = 1 .. m + n
    BY <1>1, <1>2, LenProperties
<1>4. \A i \in 1 .. m : i \in 1 .. m + n /\ r[i] = p[i]
    BY <1>2
<1>5. \A i \in 1 .. n : m + i \in 1 .. m + n /\ r[m + i] = q[i]
    <2> TAKE i \in 1 .. n
    <2>1. m + i \in 1 .. m + n /\ ~(m + i <= m) /\ (m + i) - m = i
        OBVIOUS
    <2> QED  BY <1>2, <2>1
<1>6. \A i \in 1 .. m + n :
          \/ i \in 1 .. m /\ r[i] = p[i]
          \/ i > m /\ i - m \in 1 .. n /\ r[i] = q[i - m]
    <2> TAKE i \in 1 .. m + n
    <2>1. CASE i <= m
        <3>1. i \in 1 .. m
            BY <2>1
        <3> QED  BY <1>4, <3>1
    <2>2. CASE ~(i <= m)
        <3>1. i > m /\ i - m \in 1 .. n
            BY <2>2
        <3> QED  BY <1>2, <2>2, <3>1
    <2> QED  BY <2>1, <2>2
<1> QED
    BY <1>1, <1>2, <1>3, <1>4, <1>5, <1>6 DEF r

\* A message behind a queue.
LEMMA AppendIndex ==
    ASSUME NEW S, NEW q \in Seq(S), NEW e \in S
    PROVE  /\ Append(q, e) \in Seq(S) /\ Append(q, e) = q \o <<e>> /\ <<e>> \in Seq(S)
           /\ Len(<<e>>) = 1 /\ DOMAIN <<e>> = {1} /\ <<e>>[1] = e
BY AppendProperties, AppendIsConcat

\* Messages are counted queue by queue.
LEMMA CountConcat ==
    ASSUME NEW S, NEW p \in Seq(S), NEW q \in Seq(S), NEW type
    PROVE  /\ Count(p, type) \in Nat /\ Count(q, type) \in Nat
           /\ Count(p \o q, type) = Count(p, type) + Count(q, type)
<1>1. PICK m \in Nat, n \in Nat : m = Len(p) /\ n = Len(q)
    BY LenProperties
<1>2. /\ DOMAIN p = 1 .. m /\ DOMAIN q = 1 .. n /\ DOMAIN (p \o q) = 1 .. m + n
      /\ \A i \in 1 .. m : i \in DOMAIN (p \o q) /\ (p \o q)[i] = p[i]
      /\ \A i \in 1 .. n : m + i \in DOMAIN (p \o q) /\ (p \o q)[m + i] = q[i]
      /\ \A i \in 1 .. m + n :
            \/ i \in 1 .. m /\ (p \o q)[i] = p[i]
            \/ i > m /\ i - m \in 1 .. n /\ (p \o q)[i] = q[i - m]
    BY <1>1, ConcatIndex
<1> DEFINE A == {i \in 1 .. m : p[i].type = type}
           B == {i \in 1 .. n : q[i].type = type}
           C == {i \in 1 .. m + n : (p \o q)[i].type = type}
           D == {m + i : i \in B}
<1>3. IsFiniteSet(A) /\ IsFiniteSet(B)
    <2>1. IsFiniteSet(1 .. m) /\ IsFiniteSet(1 .. n)
        BY FS_Interval
    <2> QED  BY <2>1, FS_Subset
<1>4. C = A \cup D
    <2>1. \A i \in C : i \in A \/ i \in D
        <3> TAKE i \in C
        <3>1. CASE i \in 1 .. m /\ (p \o q)[i] = p[i]
            BY <3>1
        <3>2. CASE i > m /\ i - m \in 1 .. n /\ (p \o q)[i] = q[i - m]
            <4>1. PICK j \in 1 .. n : j = i - m /\ (p \o q)[i] = q[j]
                BY <3>2
            <4>2. j \in B
                BY <4>1
            <4>3. i = m + j
                BY <4>1
            <4> QED  BY <4>2, <4>3
        <3> QED  BY <1>2, <3>1, <3>2
    <2>2. A \subseteq C /\ D \subseteq C
        BY <1>2
    <2> QED  BY <2>1, <2>2
<1>5. A \cap D = {}
    OBVIOUS
<1>6. IsFiniteSet(D) /\ Cardinality(D) = Cardinality(B)
    <2> DEFINE f == [i \in B |-> m + i]
    <2>1. f \in Bijection(B, D)
        BY DEF Bijection, Injection, Surjection, IsInjective
    <2>2. ExistsBijection(B, D)
        BY <2>1 DEF ExistsBijection
    <2> HIDE DEF B, D
    <2> QED  BY <1>3, <2>2, FS_Bijection
<1>7. Cardinality(A) \in Nat /\ Cardinality(B) \in Nat
    BY <1>3, FS_CardinalityType
<1>8. Cardinality(C) = Cardinality(A) + Cardinality(B)
    <2> HIDE DEF A, B, C, D
    <2>1. Cardinality(A \cup D) = Cardinality(A) + Cardinality(D) - Cardinality(A \cap D)
        BY <1>3, <1>6, FS_Union
    <2>2. Cardinality(A \cap D) = 0
        BY <1>5, FS_EmptySet
    <2> QED  BY <1>4, <1>6, <1>7, <2>1, <2>2
<1> QED
    BY <1>2, <1>7, <1>8 DEF Count

\* One message, none, and queues of one kind.
LEMMA CountFew ==
    /\ \A m, type : Count(<<m>>, type) = IF m.type = type THEN 1 ELSE 0
    /\ \A type : Count(<<>>, type) = 0
<1>1. ASSUME NEW m, NEW type PROVE Count(<<m>>, type) = IF m.type = type THEN 1 ELSE 0
    <2>1. DOMAIN <<m>> = {1} /\ <<m>>[1] = m
        OBVIOUS
    <2>2. {i \in DOMAIN <<m>> : <<m>>[i].type = type} = IF m.type = type THEN {1} ELSE {}
        BY <2>1
    <2> QED  BY <2>2, FS_Singleton, FS_EmptySet DEF Count
<1>2. ASSUME NEW type PROVE Count(<<>>, type) = 0
    <2>1. {i \in DOMAIN <<>> : <<>>[i].type = type} = {}
        OBVIOUS
    <2> QED  BY <2>1, FS_EmptySet DEF Count
<1> QED
    BY <1>1, <1>2

\* A queue in which every message, or none, is of the type.
LEMMA CountAll ==
    ASSUME NEW S, NEW q \in Seq(S), NEW type
    PROVE  /\ (\A i \in DOMAIN q : q[i].type = type) => Count(q, type) = Len(q)
           /\ (\A i \in DOMAIN q : q[i].type # type) <=> Count(q, type) = 0
<1>1. PICK n \in Nat : n = Len(q) /\ DOMAIN q = 1 .. n
    BY LenProperties
<1> DEFINE A == {i \in 1 .. n : q[i].type = type}
<1>2. IsFiniteSet(A)
    <2>1. IsFiniteSet(1 .. n)
        BY FS_Interval
    <2> QED  BY <2>1, FS_Subset
<1>3. Cardinality(1 .. n) = n
    BY FS_Interval
<1>4. ASSUME \A i \in 1 .. n : q[i].type = type PROVE Cardinality(A) = n
    <2>1. A = 1 .. n
        BY <1>4
    <2> QED  BY <1>3, <2>1
<1>5. (\A i \in 1 .. n : q[i].type # type) <=> A = {}
    OBVIOUS
<1>6. A = {} <=> Cardinality(A) = 0
    <2> HIDE DEF A
    <2> QED  BY <1>2, FS_EmptySet
<1> QED
    BY <1>1, <1>4, <1>5, <1>6 DEF Count

\* The head of a queue is counted with the rest.
LEMMA CountTail ==
    ASSUME NEW S, NEW q \in Seq(S), q # <<>>, NEW type
    PROVE  /\ Count(q, type) \in Nat /\ Count(Tail(q), type) \in Nat
           /\ Count(q, type) = Count(Tail(q), type) + (IF Head(q).type = type THEN 1 ELSE 0)
<1>1. Tail(q) \in Seq(S) /\ Head(q) \in S /\ <<Head(q)>> \in Seq(S)
    BY TailIndex
<1>2. q = <<Head(q)>> \o Tail(q)
    BY <1>1
<1>3. /\ Count(Tail(q), type) \in Nat
      /\ Count(q, type) = Count(<<Head(q)>>, type) + Count(Tail(q), type)
    BY <1>1, <1>2, CountConcat, ZenonT(60)
<1>4. Count(<<Head(q)>>, type) = IF Head(q).type = type THEN 1 ELSE 0
    BY CountFew
<1> QED
    BY <1>3, <1>4

\* The oldest of some writes is the one that is taken out when it is answered.
LEMMA WithoutHead ==
    ASSUME NEW S, NEW q \in Seq(S), q # <<>>
    PROVE  Without(q, Head(q)) = Tail(q)
<1>1. PICK n \in Nat : n = Len(q) /\ DOMAIN q = 1 .. n /\ 1 \in 1 .. n /\ Head(q) = q[1]
    BY TailIndex
<1> DEFINE I == {i \in 1 .. Len(q) : q[i] = Head(q)}
<1>2. 1 \in I /\ \A i \in I : 1 <= i /\ i \in Nat
    BY <1>1
<1>3. Min(I) = 1
    <2>1. \A x \in I : (\A y \in I : x <= y) => x = 1
        BY <1>2
    <2>2. (CHOOSE x \in I : \A y \in I : x <= y) = 1
        <3> HIDE DEF I
        <3> QED  BY <1>2, <2>1
    <2> QED  BY <2>2 DEF Min
<1>4. SelectInSeq(q, LAMBDA v : v = Head(q)) = 1
    BY <1>2, <1>3 DEF SelectInSeq
<1>5. Without(q, Head(q)) = SubSeq(q, 1, 0) \o SubSeq(q, 2, Len(q))
    <2>1. RemoveAt(q, 1) = SubSeq(q, 1, 0) \o SubSeq(q, 2, Len(q))
        BY DEF RemoveAt
    <2>2. Without(q, Head(q)) = RemoveAt(q, SelectInSeq(q, LAMBDA v : v = Head(q)))
        BY <1>1 DEF Without, RemoveFirst
    <2> QED  BY <1>4, <2>1, <2>2
<1>6. SubSeq(q, 1, 0) = <<>> /\ SubSeq(q, 2, Len(q)) = Tail(q)
    BY <1>1, SubSeqEmpty, TailIsSubSeq
<1>7. Tail(q) \in Seq(S)
    BY TailIndex
<1> QED
    BY <1>5, <1>6, <1>7, ConcatEmptySeq

-------------------------------------------------------------------------------
\* Messages

\* The fields of a message, and of a request, by its type.
LEMMA MessageFields ==
    ASSUME NEW m \in Messages
    PROVE  /\ m.type \in {"authOk", "listenOk", "put", "update", "snapshot"}
           /\ m.type = "put" => m.w \in Writes /\ m.ok \in BOOLEAN
           /\ m.type = "update" => m.w \in Writes /\ m.pos \in Nat
           /\ m.type = "snapshot" => m.loc \in Locations /\ m.pos \in Nat
           /\ \A l : Tells(m, l) => m.pos \in Nat
BY DEF Messages, Tells

\* What a request has, by its type.
LEMMA RequestFields ==
    ASSUME NEW m \in Requests
    PROVE  /\ m.type \in {"auth", "listen", "put"}
           /\ m.type = "listen" => m.loc \in Locations
           /\ m.type = "put" => m.w \in Writes
BY DEF Requests

-------------------------------------------------------------------------------
\* The stream of data

\* With more messages taken the client has at least as much.
LEMMA ReachedLater ==
    ASSUME NEW q \in Seq(Messages), NEW x, NEW l, NEW k, NEW m \in Int, NEW n \in Int, m <= n,
           Reached(q, x, l, k, m)
    PROVE  Reached(q, x, l, k, n)
<1>1. DOMAIN q \subseteq Int
    BY LenProperties
<1> QED
    BY <1>1 DEF Reached

\* The client takes a message: the rest of the stream is as good.
LEMMA StreamTail ==
    ASSUME NEW q \in Seq(Messages), q # <<>>, NEW x \in Int, NEW l \in Locations,
           NEW L \in Seq(Writes), Stream(q, x, l, L),
           NEW y, y = IF Tells(Head(q), l) THEN Head(q).pos ELSE x
    PROVE  /\ y \in Int /\ x <= y /\ Stream(Tail(q), y, l, L)
           /\ \A k \in Nat, n \in Nat :
                 Reached(q, x, l, k, n + 1) => Reached(Tail(q), y, l, k, n)
           /\ Caught(q, x, l, L) => Caught(Tail(q), y, l, L)
<1>1. PICK N \in Nat :
          /\ N = Len(q) /\ N >= 1 /\ DOMAIN q = 1 .. N /\ DOMAIN Tail(q) = 1 .. N - 1
          /\ Head(q) = q[1] /\ Len(Tail(q)) = N - 1 /\ Tail(q) \in Seq(Messages)
    BY TailIndex
<1> DEFINE t == Tail(q)
<1>2. \A i \in 1 .. N - 1 : t[i] = q[i + 1] /\ i + 1 \in 1 .. N
    BY <1>1, TailIndex
<1>3. \A i \in 1 .. N : q[i] \in Messages /\ (Tells(q[i], l) => q[i].pos \in Nat)
    BY <1>1, ElementOfSeq, MessageFields
<1>4. y \in Int /\ x <= y
    BY <1>1, <1>3 DEF Stream
<1>5. \A i \in 2 .. N : Tells(q[i], l) =>
          y <= q[i].pos /\ (q[i].type = "update" => y < q[i].pos)
    <2> TAKE i \in 2 .. N
    <2>1. i \in 1 .. N /\ 1 \in 1 .. N /\ 1 < i
        BY <1>1
    <2> QED  BY <1>1, <2>1 DEF Stream
<1> HIDE DEF t
<1>6. ASSUME NEW k \in Nat, NEW n \in Nat, Reached(q, x, l, k, n + 1)
      PROVE  Reached(t, y, l, k, n)
    <2>1. CASE k <= x
        BY <1>4, <2>1 DEF Reached
    <2>2. CASE \E j \in DOMAIN q : j < n + 1 /\ Tells(q[j], l) /\ k <= q[j].pos
        <3>1. PICK j \in 1 .. N : j < n + 1 /\ Tells(q[j], l) /\ k <= q[j].pos
            BY <1>1, <2>2
        <3>2. CASE j = 1
            <4>1. y = q[1].pos
                BY <1>1, <3>1, <3>2
            <4> QED  BY <3>1, <3>2, <4>1 DEF Reached
        <3>3. CASE j # 1
            <4>1. PICK i \in 1 .. N - 1 : j = i + 1
                <5>1. j - 1 \in 1 .. N - 1 /\ j = (j - 1) + 1
                    BY <3>1, <3>3
                <5> QED  BY <5>1
            <4>2. i < n /\ Tells(t[i], l) /\ k <= t[i].pos
                BY <1>2, <3>1, <4>1
            <4> QED  BY <1>1, <4>2 DEF Reached, t
        <3> QED  BY <3>2, <3>3
    <2> QED  BY <1>6, <2>1, <2>2 DEF Reached
<1>7. Stream(t, y, l, L)
    <2>1. \A i \in DOMAIN t : t[i].type = "snapshot" /\ t[i].loc = l =>
              t[i].pos <= Len(L) /\ t[i].data = DataAt(L, t[i].pos, l)
        BY <1>1, <1>2 DEF Stream, t
    <2>2. \A i \in DOMAIN t : t[i].type = "update" /\ WriteLoc(t[i].w) = l =>
              t[i].pos \in DOMAIN L /\ L[t[i].pos] = t[i].w
        BY <1>1, <1>2 DEF Stream, t
    <2>3. \A i, j \in DOMAIN t : Tells(t[i], l) /\ Tells(t[j], l) /\ i < j =>
              t[i].pos <= t[j].pos /\ (t[j].type = "update" => t[i].pos < t[j].pos)
        <3> TAKE i, j \in DOMAIN t
        <3>1. i \in 1 .. N - 1 /\ j \in 1 .. N - 1
            BY <1>1 DEF t
        <3>2. i < j => i + 1 < j + 1
            BY <3>1
        <3> QED  BY <1>1, <1>2, <3>1, <3>2, ZenonT(60) DEF Stream
    <2>4. \A j \in DOMAIN t : Tells(t[j], l) =>
              y <= t[j].pos /\ (t[j].type = "update" => y < t[j].pos)
        <3> TAKE j \in DOMAIN t
        <3>1. j \in 1 .. N - 1 /\ j + 1 \in 2 .. N
            BY <1>1 DEF t
        <3> QED  BY <1>2, <1>5, <3>1
    <2>5. ASSUME NEW i \in DOMAIN t, t[i].type = "update", WriteLoc(t[i].w) = l,
                 NEW k \in 0 .. t[i].pos - 1, Entry(L, l, k)
          PROVE  Reached(t, y, l, k, i)
        <3>1. i \in 1 .. N - 1 /\ i \in Nat /\ i + 1 \in 1 .. N /\ t[i] = q[i + 1]
            BY <1>1, <1>2 DEF t
        <3>2. Reached(q, x, l, k, i + 1)
            BY <1>1, <2>5, <3>1 DEF Stream
        <3>3. k \in Nat
            OBVIOUS
        <3> QED  BY <1>6, <3>1, <3>2, <3>3
    <2> QED  BY <2>1, <2>2, <2>3, <2>4, <2>5 DEF Stream
<1>8. ASSUME Caught(q, x, l, L) PROVE Caught(t, y, l, L)
    <2>1. SUFFICES ASSUME NEW k \in 0 .. Len(L), Entry(L, l, k)
                   PROVE  Reached(t, y, l, k, Len(t) + 1)
        BY DEF Caught
    <2>2. Reached(q, x, l, k, N + 1)
        BY <1>1, <1>8, <2>1 DEF Caught
    <2>3. k \in Nat /\ N \in Nat /\ N = Len(t) + 1
        BY <1>1 DEF t
    <2> QED  BY <1>6, <2>2, <2>3
<1> QED
    BY <1>4, <1>6, <1>7, <1>8 DEF t

\* The server sends messages: what the client will have had, it will still have.
LEMMA ReachedMore ==
    ASSUME NEW q \in Seq(Messages), NEW ms \in Seq(Messages), NEW x, NEW l, NEW k, NEW n \in Int,
           Reached(q, x, l, k, n)
    PROVE  Reached(q \o ms, x, l, k, n)
<1>1. \A i \in DOMAIN q : i \in DOMAIN (q \o ms) /\ (q \o ms)[i] = q[i]
    BY ConcatIndex
<1> QED
    BY <1>1 DEF Reached

\* The server sends a message that is about another location, or about none.
LEMMA StreamOther ==
    ASSUME NEW q \in Seq(Messages), NEW m \in Messages, NEW x \in Int, NEW l \in Locations,
           NEW L \in Seq(Writes), Stream(q, x, l, L), ~Tells(m, l)
    PROVE  /\ Stream(Append(q, m), x, l, L)
           /\ Caught(q, x, l, L) => Caught(Append(q, m), x, l, L)
<1> DEFINE p == Append(q, m)
<1>1. PICK N \in Nat :
          /\ N = Len(q) /\ DOMAIN q = 1 .. N /\ DOMAIN p = 1 .. N + 1 /\ Len(p) = N + 1
          /\ \A i \in 1 .. N : p[i] = q[i]
          /\ p[N + 1] = m
    BY AppendProperties, LenProperties
<1>2. \A n \in Int : \A k : Reached(q, x, l, k, n) => Reached(p, x, l, k, n)
    <2>1. p = q \o <<m>> /\ <<m>> \in Seq(Messages)
        BY AppendIndex
    <2> HIDE DEF p
    <2> QED  BY <2>1, ReachedMore
<1> HIDE DEF p
<1>3. \A i \in DOMAIN p : i \in 1 .. N \/ (i = N + 1 /\ p[i] = m)
    BY <1>1
<1>4. Stream(p, x, l, L)
    <2>0. \A i \in DOMAIN p : Tells(p[i], l) => i \in DOMAIN q /\ p[i] = q[i]
        BY <1>1, <1>3
    <2>1. \A i \in DOMAIN p : p[i].type = "snapshot" /\ p[i].loc = l =>
              p[i].pos <= Len(L) /\ p[i].data = DataAt(L, p[i].pos, l)
        BY <2>0 DEF Stream, Tells
    <2>2. \A i \in DOMAIN p : p[i].type = "update" /\ WriteLoc(p[i].w) = l =>
              p[i].pos \in DOMAIN L /\ L[p[i].pos] = p[i].w
        BY <2>0 DEF Stream, Tells
    <2>3. \A i, j \in DOMAIN p : Tells(p[i], l) /\ Tells(p[j], l) /\ i < j =>
              p[i].pos <= p[j].pos /\ (p[j].type = "update" => p[i].pos < p[j].pos)
        BY <2>0 DEF Stream
    <2>4. \A j \in DOMAIN p : Tells(p[j], l) =>
              x <= p[j].pos /\ (p[j].type = "update" => x < p[j].pos)
        BY <2>0 DEF Stream
    <2>5. ASSUME NEW i \in DOMAIN p, p[i].type = "update", WriteLoc(p[i].w) = l,
                 NEW k \in 0 .. p[i].pos - 1, Entry(L, l, k)
          PROVE  Reached(p, x, l, k, i)
        <3>1. i \in DOMAIN q /\ p[i] = q[i] /\ i \in Int
            BY <1>1, <2>0, <2>5 DEF Tells
        <3> QED  BY <1>2, <2>5, <3>1 DEF Stream
    <2> QED  BY <2>1, <2>2, <2>3, <2>4, <2>5 DEF Stream
<1>5. ASSUME Caught(q, x, l, L) PROVE Caught(p, x, l, L)
    <2>1. SUFFICES ASSUME NEW k \in 0 .. Len(L), Entry(L, l, k)
                   PROVE  Reached(p, x, l, k, Len(p) + 1)
        BY DEF Caught
    <2>2. Reached(p, x, l, k, N + 1)
        BY <1>1, <1>2, <1>5, <2>1 DEF Caught
    <2>3. p \in Seq(Messages)
        BY AppendProperties DEF p
    <2>4. N + 1 <= Len(p) + 1 /\ N + 1 \in Int /\ Len(p) + 1 \in Int
        BY <1>1
    <2> QED  BY <2>2, <2>3, <2>4, ReachedLater
<1> QED
    BY <1>4, <1>5 DEF p

\* The server sends all the data of the location.
LEMMA StreamSnapshot ==
    ASSUME NEW q \in Seq(Messages), NEW m \in Messages, NEW x \in Int, NEW l \in Locations,
           NEW L \in Seq(Writes), Stream(q, x, l, L), x <= Len(L),
           m.type = "snapshot", m.loc = l, m.pos = Len(L), m.data = DataAt(L, Len(L), l)
    PROVE  Stream(Append(q, m), x, l, L) /\ Caught(Append(q, m), x, l, L)
<1> DEFINE p == Append(q, m)
<1>1. PICK N \in Nat :
          /\ N = Len(q) /\ DOMAIN q = 1 .. N /\ DOMAIN p = 1 .. N + 1 /\ Len(p) = N + 1
          /\ \A i \in 1 .. N : p[i] = q[i]
          /\ p[N + 1] = m
    BY AppendProperties, LenProperties
<1>2. \A n \in Int : \A k : Reached(q, x, l, k, n) => Reached(p, x, l, k, n)
    <2>1. p = q \o <<m>> /\ <<m>> \in Seq(Messages)
        BY AppendIndex
    <2> HIDE DEF p
    <2> QED  BY <2>1, ReachedMore
<1>a. Tells(m, l) /\ m.type # "update"
    BY DEF Tells
<1>b. PICK K \in Nat : K = Len(L) /\ DOMAIN L = 1 .. K
    BY LenProperties
<1> HIDE DEF p
<1>3. \A i \in DOMAIN p : (i \in DOMAIN q /\ i \in 1 .. N /\ p[i] = q[i]) \/ (i = N + 1 /\ p[i] = m)
    BY <1>1
<1>4. \A i \in DOMAIN q : Tells(q[i], l) => q[i].pos \in Nat /\ q[i].pos <= K
    <2> TAKE i \in DOMAIN q
    <2>1. Tells(q[i], l) => q[i].pos \in Nat
        BY ElementOfSeq, MessageFields, <1>1
    <2> QED  BY <1>b, <2>1 DEF Stream, Tells
<1>5. Stream(p, x, l, L)
    <2>1. \A i \in DOMAIN p : p[i].type = "snapshot" /\ p[i].loc = l =>
              p[i].pos <= Len(L) /\ p[i].data = DataAt(L, p[i].pos, l)
        BY <1>3, <1>b DEF Stream
    <2>2. \A i \in DOMAIN p : p[i].type = "update" /\ WriteLoc(p[i].w) = l =>
              p[i].pos \in DOMAIN L /\ L[p[i].pos] = p[i].w
        BY <1>3 DEF Stream
    <2>3. \A i, j \in DOMAIN p : Tells(p[i], l) /\ Tells(p[j], l) /\ i < j =>
              p[i].pos <= p[j].pos /\ (p[j].type = "update" => p[i].pos < p[j].pos)
        <3> SUFFICES ASSUME NEW i \in DOMAIN p, NEW j \in DOMAIN p,
                            Tells(p[i], l), Tells(p[j], l), i < j
                     PROVE  p[i].pos <= p[j].pos /\ (p[j].type = "update" => p[i].pos < p[j].pos)
            OBVIOUS
        <3>1. i \in DOMAIN q /\ p[i] = q[i]
            BY <1>1
        <3>2. CASE j \in DOMAIN q /\ p[j] = q[j]
            BY <3>1, <3>2 DEF Stream
        <3>3. CASE j = N + 1 /\ p[j] = m
            BY <1>4, <1>b, <3>1, <3>3
        <3> QED  BY <1>3, <3>2, <3>3
    <2>4. \A j \in DOMAIN p : Tells(p[j], l) =>
              x <= p[j].pos /\ (p[j].type = "update" => x < p[j].pos)
        BY <1>3, <1>b DEF Stream
    <2>5. ASSUME NEW i \in DOMAIN p, p[i].type = "update", WriteLoc(p[i].w) = l,
                 NEW k \in 0 .. p[i].pos - 1, Entry(L, l, k)
          PROVE  Reached(p, x, l, k, i)
        <3>1. i \in DOMAIN q /\ p[i] = q[i] /\ i \in Int
            BY <1>3, <1>a, <2>5
        <3> QED  BY <1>2, <2>5, <3>1 DEF Stream
    <2> QED  BY <2>1, <2>2, <2>3, <2>4, <2>5 DEF Stream
<1>6. Caught(p, x, l, L)
    <2>1. N + 1 \in DOMAIN p /\ N + 1 < Len(p) + 1
        BY <1>1
    <2> QED  BY <1>1, <1>a, <1>b, <2>1 DEF Caught, Reached
<1> QED
    BY <1>5, <1>6 DEF p

\* The server applies a write: the messages on their way are as true as before.
LEMMA StreamGrows ==
    ASSUME NEW q \in Seq(Messages), NEW x \in Int, NEW l \in Locations,
           NEW L \in Seq(Writes), NEW w \in Writes, Stream(q, x, l, L)
    PROVE  /\ Stream(q, x, l, Append(L, w))
           /\ WriteLoc(w) # l /\ Caught(q, x, l, L) => Caught(q, x, l, Append(L, w))
<1> DEFINE M == Append(L, w)
<1>1. PICK K \in Nat :
          /\ K = Len(L) /\ DOMAIN L = 1 .. K /\ DOMAIN M = 1 .. K + 1 /\ Len(M) = K + 1
          /\ \A i \in 1 .. K : M[i] = L[i]
          /\ M[K + 1] = w
    BY AppendProperties, LenProperties
<1>2. \A n \in 0 .. K : DataAt(M, n, l) = DataAt(L, n, l)
    BY <1>1, DataAtPrefix
<1> HIDE DEF M
<1>3. \A i \in DOMAIN q : Tells(q[i], l) => q[i].pos \in Nat
    BY ElementOfSeq, LenProperties, MessageFields
<1>4. \A k \in 0 .. K : Entry(M, l, k) => Entry(L, l, k)
    BY <1>1 DEF Entry
<1>5. \A i \in DOMAIN q : q[i].type = "snapshot" /\ q[i].loc = l =>
          q[i].pos <= Len(M) /\ q[i].data = DataAt(M, q[i].pos, l)
    <2> SUFFICES ASSUME NEW i \in DOMAIN q, q[i].type = "snapshot", q[i].loc = l
                 PROVE  q[i].pos <= Len(M) /\ q[i].data = DataAt(M, q[i].pos, l)
        OBVIOUS
    <2>1. q[i].pos \in Nat
        BY <1>3 DEF Tells
    <2>2. q[i].pos <= K /\ q[i].data = DataAt(L, q[i].pos, l)
        BY <1>1 DEF Stream
    <2>3. q[i].pos \in 0 .. K
        BY <2>1, <2>2
    <2> QED  BY <1>1, <1>2, <2>2, <2>3
<1>6. \A i \in DOMAIN q : q[i].type = "update" /\ WriteLoc(q[i].w) = l =>
          q[i].pos \in 1 .. K /\ q[i].pos \in DOMAIN M /\ M[q[i].pos] = q[i].w
    <2> SUFFICES ASSUME NEW i \in DOMAIN q, q[i].type = "update", WriteLoc(q[i].w) = l
                 PROVE  q[i].pos \in 1 .. K /\ q[i].pos \in DOMAIN M /\ M[q[i].pos] = q[i].w
        OBVIOUS
    <2>1. q[i].pos \in 1 .. K /\ L[q[i].pos] = q[i].w
        BY <1>1 DEF Stream
    <2>2. \A n \in 1 .. K : n \in DOMAIN M /\ M[n] = L[n]
        BY <1>1
    <2> QED  BY <2>1, <2>2
<1>7. ASSUME NEW i \in DOMAIN q, q[i].type = "update", WriteLoc(q[i].w) = l,
             NEW k \in 0 .. q[i].pos - 1, Entry(M, l, k)
      PROVE  Reached(q, x, l, k, i)
    <2>1. q[i].pos \in 1 .. K
        BY <1>6, <1>7
    <2>2. k \in 0 .. K
        BY <2>1
    <2> QED  BY <1>4, <1>7, <2>2 DEF Stream
<1>8. Stream(q, x, l, M)
    BY <1>5, <1>6, <1>7 DEF Stream
<1>9. ASSUME WriteLoc(w) # l, Caught(q, x, l, L) PROVE Caught(q, x, l, M)
    <2>1. ASSUME NEW k \in 0 .. Len(M), Entry(M, l, k) PROVE Reached(q, x, l, k, Len(q) + 1)
        <3>1. k \in 0 .. K + 1 /\ k # K + 1
            BY <1>1, <1>9, <2>1 DEF Entry
        <3>2. k \in 0 .. K
            BY <3>1
        <3> QED  BY <1>1, <1>4, <1>9, <2>1, <3>2 DEF Caught
    <2> QED  BY <2>1 DEF Caught
<1> QED
    BY <1>8, <1>9 DEF M

\* The server applies a write of the location and tells a client that listens.
LEMMA StreamUpdate ==
    ASSUME NEW q \in Seq(Messages), NEW m \in Messages, NEW x \in Int, NEW l \in Locations,
           NEW L \in Seq(Writes), NEW w \in Writes, Stream(q, x, l, L), Caught(q, x, l, L),
           x <= Len(L), m.type = "update", m.w = w, WriteLoc(w) = l, m.pos = Len(L) + 1
    PROVE  /\ Stream(Append(q, m), x, l, Append(L, w))
           /\ Caught(Append(q, m), x, l, Append(L, w))
<1> DEFINE p == Append(q, m)
           M == Append(L, w)
<1>1. PICK N \in Nat :
          /\ N = Len(q) /\ DOMAIN q = 1 .. N /\ DOMAIN p = 1 .. N + 1 /\ Len(p) = N + 1
          /\ \A i \in 1 .. N : p[i] = q[i]
          /\ p[N + 1] = m
    BY AppendProperties, LenProperties
<1>2. \A n \in Int : \A k : Reached(q, x, l, k, n) => Reached(p, x, l, k, n)
    <2>1. p = q \o <<m>> /\ <<m>> \in Seq(Messages)
        BY AppendIndex
    <2> HIDE DEF p
    <2> QED  BY <2>1, ReachedMore
<1>3. PICK K \in Nat :
          /\ K = Len(L) /\ DOMAIN L = 1 .. K /\ DOMAIN M = 1 .. K + 1 /\ Len(M) = K + 1
          /\ \A i \in 1 .. K : M[i] = L[i]
          /\ M[K + 1] = w
    BY AppendProperties, LenProperties
<1>4. Stream(q, x, l, M)
    BY StreamGrows
<1>5. Tells(m, l) /\ m.type # "snapshot"
    BY DEF Tells
<1> HIDE DEF p, M
<1>6. \A i \in DOMAIN p : (i \in DOMAIN q /\ i \in 1 .. N /\ p[i] = q[i]) \/ (i = N + 1 /\ p[i] = m)
    BY <1>1
<1>7. \A i \in DOMAIN q : Tells(q[i], l) => q[i].pos \in Nat /\ q[i].pos <= K
    <2> TAKE i \in DOMAIN q
    <2>1. Tells(q[i], l) => q[i].pos \in Nat
        BY ElementOfSeq, MessageFields, <1>1
    <2> QED  BY <1>3, <2>1 DEF Stream, Tells
<1>8. \A k \in 0 .. K : Entry(M, l, k) => Entry(L, l, k)
    BY <1>3 DEF Entry
<1>9. \A k \in 0 .. K : Entry(M, l, k) => Reached(p, x, l, k, N + 1)
    BY <1>1, <1>2, <1>3, <1>8 DEF Caught
<1>10. Stream(p, x, l, M)
    <2>1. \A i \in DOMAIN p : p[i].type = "snapshot" /\ p[i].loc = l =>
              p[i].pos <= Len(M) /\ p[i].data = DataAt(M, p[i].pos, l)
        BY <1>4, <1>5, <1>6 DEF Stream
    <2>2. \A i \in DOMAIN p : p[i].type = "update" /\ WriteLoc(p[i].w) = l =>
              p[i].pos \in DOMAIN M /\ M[p[i].pos] = p[i].w
        BY <1>3, <1>4, <1>6 DEF Stream
    <2>3. \A i, j \in DOMAIN p : Tells(p[i], l) /\ Tells(p[j], l) /\ i < j =>
              p[i].pos <= p[j].pos /\ (p[j].type = "update" => p[i].pos < p[j].pos)
        <3> SUFFICES ASSUME NEW i \in DOMAIN p, NEW j \in DOMAIN p,
                            Tells(p[i], l), Tells(p[j], l), i < j
                     PROVE  p[i].pos <= p[j].pos /\ (p[j].type = "update" => p[i].pos < p[j].pos)
            OBVIOUS
        <3>1. i \in DOMAIN q /\ p[i] = q[i]
            BY <1>1
        <3>2. CASE j \in DOMAIN q /\ p[j] = q[j]
            BY <1>4, <3>1, <3>2 DEF Stream
        <3>3. CASE j = N + 1 /\ p[j] = m
            BY <1>3, <1>7, <3>1, <3>3
        <3> QED  BY <1>6, <3>2, <3>3
    <2>4. \A j \in DOMAIN p : Tells(p[j], l) =>
              x <= p[j].pos /\ (p[j].type = "update" => x < p[j].pos)
        BY <1>3, <1>4, <1>6 DEF Stream
    <2>5. ASSUME NEW i \in DOMAIN p, p[i].type = "update", WriteLoc(p[i].w) = l,
                 NEW k \in 0 .. p[i].pos - 1, Entry(M, l, k)
          PROVE  Reached(p, x, l, k, i)
        <3>1. CASE i \in DOMAIN q /\ i \in 1 .. N /\ p[i] = q[i]
            <4>1. Reached(q, x, l, k, i)
                BY <1>4, <2>5, <3>1 DEF Stream
            <4> QED  BY <1>2, <3>1, <4>1
        <3>2. CASE i = N + 1 /\ p[i] = m
            <4>1. k \in 0 .. K
                BY <1>3, <3>2
            <4> QED  BY <1>9, <2>5, <3>2, <4>1
        <3> QED  BY <1>6, <3>1, <3>2
    <2> QED  BY <2>1, <2>2, <2>3, <2>4, <2>5 DEF Stream
<1>11. Caught(p, x, l, M)
    <2>1. N + 1 \in DOMAIN p /\ N + 1 < Len(p) + 1
        BY <1>1
    <2> QED  BY <1>1, <1>3, <1>5, <2>1 DEF Caught, Reached
<1> QED
    BY <1>10, <1>11 DEF p, M

\* On a new connection nothing is on its way.
LEMMA StreamEmpty ==
    ASSUME NEW x, NEW l, NEW L
    PROVE  Stream(<<>>, x, l, L)
BY DEF Stream

\* The next message of a location brings the client's copy up to its position.
LEMMA StreamHead ==
    ASSUME NEW q \in Seq(Messages), q # <<>>, NEW x \in Nat \cup {NotSynced}, NEW l \in Locations,
           NEW L \in Seq(Writes), Stream(q, x, l, L), Tells(Head(q), l),
           NEW data, data = IF x = NotSynced THEN NoData ELSE DataAt(L, x, l),
           x <= Len(L)
    PROVE  /\ Head(q).pos \in 0 .. Len(L) /\ x <= Head(q).pos
           /\ Head(q).type = "snapshot" => Head(q).data = DataAt(L, Head(q).pos, l)
           /\ Head(q).type = "update" =>
                 /\ x # NotSynced /\ x < Head(q).pos
                 /\ [data EXCEPT ![KeyOf[Head(q).w]] = Head(q).w] = DataAt(L, Head(q).pos, l)
<1>1. PICK N \in Nat :
          N = Len(q) /\ N >= 1 /\ DOMAIN q = 1 .. N /\ Head(q) = q[1] /\ q[1] \in Messages
    BY TailIndex
<1>2. PICK K \in Nat : K = Len(L) /\ DOMAIN L = 1 .. K
    BY LenProperties
<1>3. 1 \in DOMAIN q
    BY <1>1
<1> DEFINE m == q[1]
<1>4. m.pos \in Nat /\ (m.type = "update" => m.w \in Writes)
    BY <1>1, MessageFields
<1>5. m.pos \in 0 .. K /\ x <= m.pos
    BY <1>1, <1>2, <1>3, <1>4 DEF Stream, Tells
<1>6. m.type = "snapshot" => m.data = DataAt(L, m.pos, l)
    BY <1>1, <1>3 DEF Stream, Tells
<1>7. ASSUME m.type = "update"
      PROVE  /\ x # NotSynced /\ x < m.pos
             /\ [data EXCEPT ![KeyOf[m.w]] = m.w] = DataAt(L, m.pos, l)
    <2>1. /\ WriteLoc(m.w) = l /\ x < m.pos /\ m.pos \in 1 .. K /\ L[m.pos] = m.w
          /\ \A k \in 0 .. m.pos - 1 : Entry(L, l, k) => Reached(q, x, l, k, 1)
        BY <1>1, <1>2, <1>3, <1>7 DEF Stream, Tells
    <2>2. \A k \in 0 .. m.pos - 1 : Entry(L, l, k) => k <= x
        BY <1>1, <2>1 DEF Reached
    <2>3. 0 <= x
        BY <2>1, <2>2 DEF Entry
    <2>4. x # NotSynced /\ x \in 0 .. K
        BY <1>2, <2>3 DEF NotSynced
    <2>5. \A i \in 1 .. m.pos - 1 : WriteLoc(L[i]) = l => i <= x
        <3> SUFFICES ASSUME NEW i \in 1 .. m.pos - 1, WriteLoc(L[i]) = l PROVE i <= x
            OBVIOUS
        <3>1. i \in DOMAIN L /\ i \in 0 .. m.pos - 1
            BY <1>2, <2>1
        <3> QED  BY <2>2, <3>1 DEF Entry
    <2>6. KeyOf[L[m.pos]] \in Keys
        BY <1>4, <1>7, <2>1, SyncTreeAssumption
    <2>7. DataAt(L, m.pos, l) = [DataAt(L, x, l) EXCEPT ![KeyOf[L[m.pos]]] = L[m.pos]]
        <3> HIDE DEF m
        <3>1. PICK p \in DOMAIN L : p = m.pos /\ L[p] = m.w
            BY <1>2, <2>1
        <3>2. /\ x < p /\ WriteLoc(L[p]) = l /\ KeyOf[L[p]] \in Keys
              /\ \A i \in 1 .. p - 1 : WriteLoc(L[i]) = l => i <= x
            BY <2>1, <2>5, <2>6, <3>1
        <3>3. x \in 0 .. Len(L)
            BY <1>2, <2>4
        <3>4. DataAt(L, p, l) = [DataAt(L, x, l) EXCEPT ![KeyOf[L[p]]] = L[p]]
            BY <3>2, <3>3, DataAtUpdate
        <3> QED  BY <3>1, <3>4
    <2> QED  BY <2>1, <2>4, <2>7
<1> QED
    BY <1>1, <1>2, <1>5, <1>6, <1>7

-------------------------------------------------------------------------------
\* Answers and the data they answer for

\* A listen is on its way until the server takes it.
LEMMA AskedQueue ==
    ASSUME NEW r \in Seq(Requests), NEW rs \in Seq(Requests), NEW l
    PROVE  /\ Asked(r \o rs, l) <=> (Asked(r, l) \/ Asked(rs, l))
           /\ r # <<>> /\ Asked(r, l) /\ ~(Head(r).type = "listen" /\ Head(r).loc = l) =>
                 Asked(Tail(r), l)
<1>1. Asked(r \o rs, l) <=> (Asked(r, l) \/ Asked(rs, l))
    <2>1. /\ \A i \in DOMAIN r : i \in DOMAIN (r \o rs) /\ (r \o rs)[i] = r[i]
          /\ \A i \in DOMAIN rs :
                Len(r) + i \in DOMAIN (r \o rs) /\ (r \o rs)[Len(r) + i] = rs[i]
          /\ \A i \in DOMAIN (r \o rs) :
                \/ i \in DOMAIN r /\ (r \o rs)[i] = r[i]
                \/ i - Len(r) \in DOMAIN rs /\ (r \o rs)[i] = rs[i - Len(r)]
        BY ConcatIndex
    <2> DEFINE rr == r \o rs
    <2>2. ASSUME Asked(rr, l) PROVE Asked(r, l) \/ Asked(rs, l)
        <3>1. PICK i \in DOMAIN rr : rr[i].type = "listen" /\ rr[i].loc = l
            BY <2>2 DEF Asked
        <3> QED  BY <2>1, <3>1 DEF Asked
    <2>3. ASSUME Asked(r, l) PROVE Asked(rr, l)
        BY <2>1, <2>3 DEF Asked
    <2>4. ASSUME Asked(rs, l) PROVE Asked(rr, l)
        <3>1. PICK i \in DOMAIN rs : rs[i].type = "listen" /\ rs[i].loc = l
            BY <2>4 DEF Asked
        <3>2. Len(r) + i \in DOMAIN rr /\ rr[Len(r) + i] = rs[i]
            BY <2>1
        <3> HIDE DEF rr
        <3> QED  BY <3>1, <3>2 DEF Asked
    <2> QED  BY <2>2, <2>3, <2>4
<1>2. ASSUME r # <<>>, Asked(r, l), ~(Head(r).type = "listen" /\ Head(r).loc = l)
      PROVE  Asked(Tail(r), l)
    <2>1. /\ Head(r) = r[1]
          /\ \A i \in DOMAIN r : i = 1 \/ (i - 1 \in DOMAIN Tail(r) /\ r[i] = Tail(r)[i - 1])
        BY <1>2, TailIndex
    <2> QED  BY <1>2, <2>1 DEF Asked
<1> QED
    BY <1>1, <1>2

\* The client takes a message: a write it was about to have is not lost.
LEMMA ArrivesTail ==
    ASSUME NEW q \in Seq(Messages), q # <<>>, NEW x \in Int, NEW L \in Seq(Writes),
           NEW w, WriteLoc(w) \in Locations, Stream(q, x, WriteLoc(w), L), NEW r,
           NEW y, y = IF Tells(Head(q), WriteLoc(w)) THEN Head(q).pos ELSE x
    PROVE  /\ \A n \in Nat : Arrives(q, r, x, L, w, n + 1) => Arrives(Tail(q), r, y, L, w, n)
           /\ Arrives(q, r, x, L, w, 1) => Arrives(Tail(q), r, y, L, w, 1)
<1> DEFINE l == WriteLoc(w)
<1>1. PICK N \in Nat :
          /\ N = Len(q) /\ N >= 1 /\ DOMAIN q = 1 .. N /\ DOMAIN Tail(q) = 1 .. N - 1
          /\ Tail(q) \in Seq(Messages)
    BY TailIndex
<1>2. PICK K \in Nat : K = Len(L) /\ DOMAIN L = 1 .. K
    BY LenProperties
<1>3. /\ y \in Int /\ x <= y
      /\ \A k \in Nat, n \in Nat : Reached(q, x, l, k, n + 1) => Reached(Tail(q), y, l, k, n)
    BY StreamTail
<1>4. \A i \in 1 .. N - 1 : Tail(q)[i] = q[i + 1] /\ i + 1 \in 1 .. N
    BY <1>1, TailIndex
<1>5. ASSUME NEW n \in Nat, Included(q, x, L, w, n + 1) PROVE Included(Tail(q), y, L, w, n)
    <2>1. PICK k \in DOMAIN L : L[k] = w /\ Reached(q, x, l, k, n + 1)
        BY <1>5 DEF Included
    <2>2. k \in Nat
        BY <1>2
    <2> QED  BY <1>3, <2>1, <2>2 DEF Included
<1>6. ASSUME NEW m \in Nat, NEW n \in Nat, m <= n, Included(Tail(q), y, L, w, m)
      PROVE  Included(Tail(q), y, L, w, n)
    <2>1. m \in Int /\ n \in Int
        OBVIOUS
    <2> QED  BY <1>1, <1>6, <2>1, ReachedLater DEF Included
<1>7. ASSUME NEW n \in Nat, Coming(q, r, x, L, w) PROVE Arrives(Tail(q), r, y, L, w, n)
    <2>1. CASE Asked(r, l)
        BY <2>1 DEF Arrives, Coming
    <2>2. CASE \E j \in DOMAIN q : q[j].type = "listenOk" /\ Included(q, x, L, w, j)
        <3>1. PICK j \in 1 .. N : q[j].type = "listenOk" /\ Included(q, x, L, w, j)
            BY <1>1, <2>2
        <3>2. PICK i \in Nat : j = i + 1 /\ (i = 0 \/ i \in 1 .. N - 1)
            <4>1. j - 1 \in Nat /\ j = (j - 1) + 1 /\ (j - 1 = 0 \/ j - 1 \in 1 .. N - 1)
                BY <1>1
            <4> QED  BY <4>1
        <3>3. Included(Tail(q), y, L, w, i)
            BY <1>5, <3>1, <3>2
        <3>4. CASE i = 0
            BY <1>6, <3>3, <3>4 DEF Arrives
        <3>5. CASE i \in 1 .. N - 1
            BY <1>1, <1>4, <3>1, <3>2, <3>3, <3>5 DEF Arrives, Coming
        <3> QED  BY <3>2, <3>4, <3>5
    <2> QED  BY <1>7, <2>1, <2>2 DEF Coming
<1>8. ASSUME NEW n \in Nat, Arrives(q, r, x, L, w, n + 1) PROVE Arrives(Tail(q), r, y, L, w, n)
    BY <1>5, <1>7, <1>8 DEF Arrives
<1>9. ASSUME Arrives(q, r, x, L, w, 1) PROVE Arrives(Tail(q), r, y, L, w, 1)
    <2>1. CASE Included(q, x, L, w, 1)
        <3>1. Included(Tail(q), y, L, w, 0)
            BY <1>5, <2>1
        <3> QED  BY <1>6, <3>1 DEF Arrives
    <2>2. CASE Coming(q, r, x, L, w)
        BY <1>7, <2>2
    <2> QED  BY <1>9, <2>1, <2>2 DEF Arrives
<1> QED
    BY <1>8, <1>9

\* More messages and more writes change nothing.
LEMMA ArrivesMore ==
    ASSUME NEW q \in Seq(Messages), NEW ms \in Seq(Messages), NEW x, NEW L, NEW w, NEW r, NEW s,
           NEW n \in Int, Asked(r, WriteLoc(w)) => Asked(s, WriteLoc(w)),
           Arrives(q, r, x, L, w, n)
    PROVE  Arrives(q \o ms, s, x, L, w, n)
<1>1. \A i \in DOMAIN q : i \in DOMAIN (q \o ms) /\ (q \o ms)[i] = q[i] /\ i \in Int
    <2>1. \A i \in DOMAIN q : i \in Int
        BY LenProperties
    <2> QED  BY <2>1, ConcatIndex
<1>2. \A m \in Int : Included(q, x, L, w, m) => Included(q \o ms, x, L, w, m)
    BY ReachedMore DEF Included
<1> QED
    BY <1>1, <1>2 DEF Arrives, Coming

\* What has arrived, or is on its way, stays so when the log grows.
LEMMA ArrivesGrows ==
    ASSUME NEW q, NEW x, NEW L \in Seq(Writes), NEW v \in Writes, NEW w, NEW r, NEW n,
           Arrives(q, r, x, L, w, n)
    PROVE  Arrives(q, r, x, Append(L, v), w, n)
<1>1. \A i \in DOMAIN L : i \in DOMAIN Append(L, v) /\ Append(L, v)[i] = L[i]
    BY AppendProperties, LenProperties
<1>2. \A m : Included(q, x, L, w, m) => Included(q, x, Append(L, v), w, m)
    BY <1>1 DEF Included
<1> QED
    BY <1>2 DEF Arrives, Coming

\* The server answers a listen: the writes of the location come with the answer.
LEMMA ArrivesListen ==
    ASSUME NEW q \in Seq(Messages), NEW m \in Messages, NEW o \in Messages, NEW x,
           NEW L \in Seq(Writes), NEW w \in In(L), NEW r \in Seq(Requests), r # <<>>,
           NEW n \in Int, Arrives(q, r, x, L, w, n),
           m.type = "snapshot", m.loc = Head(r).loc, m.pos = Len(L), o.type = "listenOk"
    PROVE  Arrives(q \o <<m, o>>, Tail(r), x, L, w, n)
<1> DEFINE l == WriteLoc(w)
           p == q \o <<m, o>>
<1>1. <<m, o>> \in Seq(Messages)
    OBVIOUS
<1>2. CASE Asked(Tail(r), l) \/ ~Asked(r, l)
    BY <1>1, <1>2, ArrivesMore
<1>3. CASE Asked(r, l) /\ ~Asked(Tail(r), l)
    <2>1. Head(r).loc = l
        <3>1. << >> \in Seq(Requests)
            OBVIOUS
        <3> QED  BY <1>3, <3>1, AskedQueue
    <2>2. PICK N \in Nat : N = Len(q)
        BY LenProperties
    <2>3. /\ N + 1 \in DOMAIN p /\ p[N + 1] = m
          /\ N + 2 \in DOMAIN p /\ p[N + 2] = o
        <3>1. \A i \in DOMAIN <<m, o>> : N + i \in DOMAIN p /\ p[N + i] = <<m, o>>[i]
            BY <1>1, <2>2, ConcatIndex
        <3>2. DOMAIN <<m, o>> = 1 .. 2 /\ <<m, o>>[1] = m /\ <<m, o>>[2] = o
            OBVIOUS
        <3> HIDE DEF p
        <3> QED  BY <3>1, <3>2
    <2>4. PICK k \in DOMAIN L : L[k] = w
        BY DEF In
    <2>5. k <= m.pos
        <3>1. PICK K \in Nat : K = Len(L) /\ DOMAIN L = 1 .. K
            BY LenProperties
        <3> QED  BY <3>1
    <2> HIDE DEF p
    <2>6. Reached(p, x, l, k, N + 2)
        <3>1. Tells(p[N + 1], l) /\ k <= p[N + 1].pos
            BY <2>1, <2>3, <2>5 DEF Tells
        <3>2. N + 1 < N + 2
            OBVIOUS
        <3> QED  BY <2>3, <3>1, <3>2 DEF Reached
    <2>7. Included(p, x, L, w, N + 2)
        BY <2>4, <2>6 DEF Included
    <2> QED  BY <2>3, <2>7 DEF Arrives, Coming, p
<1> QED
    BY <1>2, <1>3

\* A client that listens, and is up to date, has the write before the answer.
LEMMA ArrivesServed ==
    ASSUME NEW q, NEW x, NEW L \in Seq(Writes), NEW w \in In(L), Caught(q, x, WriteLoc(w), L)
    PROVE  Included(q, x, L, w, Len(q) + 1)
<1>1. PICK K \in Nat : K = Len(L) /\ DOMAIN L = 1 .. K
    BY LenProperties
<1>2. PICK k \in 1 .. K : L[k] = w
    BY <1>1 DEF In
<1>3. k \in 0 .. Len(L) /\ Entry(L, WriteLoc(w), k)
    BY <1>1, <1>2 DEF Entry
<1> QED
    BY <1>1, <1>2, <1>3 DEF Caught, Included

\* With no listen unanswered, what was to come has come.
LEMMA ArrivedNow ==
    ASSUME NEW q \in Seq(Messages), NEW r \in Seq(Requests), NEW x \in Int, NEW L \in Seq(Writes),
           NEW w, Arrives(q, r, x, L, w, 1),
           Count(r, "listen") + Count(q, "listenOk") = 0
    PROVE  Has(L, x, w) /\ \A n \in Int : x <= n => Has(L, n, w)
<1>1. Count(r, "listen") = 0 /\ Count(q, "listenOk") = 0
    <2>1. Count(r, "listen") \in Nat /\ Count(q, "listenOk") \in Nat
        BY CountConcat
    <2> QED  BY <2>1
<1>2. /\ \A i \in DOMAIN r : r[i].type # "listen"
      /\ \A i \in DOMAIN q : q[i].type # "listenOk"
    BY <1>1, CountAll
<1>3. Included(q, x, L, w, 1)
    BY <1>2 DEF Arrives, Coming, Asked
<1>4. PICK k \in DOMAIN L : L[k] = w /\ Reached(q, x, WriteLoc(w), k, 1)
    BY <1>3 DEF Included
<1>5. k \in Int /\ k >= 1 /\ DOMAIN q \subseteq Nat \ {0}
    BY LenProperties
<1>6. k <= x
    BY <1>4, <1>5 DEF Reached
<1> QED
    BY <1>4, <1>5, <1>6 DEF Has

-------------------------------------------------------------------------------
\* Puts on their way

\* The order of the writes is kept when the oldest leaves and when one is added.
LEMMA OlderKept ==
    ASSUME NEW out \in Seq(Writes), NEW v, NEW w, Older(out, v, w)
    PROVE  /\ out # <<>> => Older(Tail(out), v, w)
           /\ \A u \in Writes \ {v, w} : Older(Append(out, u), v, w)
<1>1. ASSUME out # <<>> PROVE Older(Tail(out), v, w)
    <2>1. \A i \in DOMAIN Tail(out) : i \in Nat /\ i + 1 \in DOMAIN out /\ Tail(out)[i] = out[i + 1]
        BY <1>1, TailIndex
    <2> SUFFICES ASSUME NEW a \in DOMAIN Tail(out), NEW b \in DOMAIN Tail(out),
                        Tail(out)[a] = v, Tail(out)[b] = w
                 PROVE  a < b
        BY DEF Older
    <2>2. a + 1 < b + 1
        BY <2>1 DEF Older
    <2> QED  BY <2>1, <2>2
<1>2. ASSUME NEW u \in Writes \ {v, w} PROVE Older(Append(out, u), v, w)
    <2>1. \A i \in DOMAIN Append(out, u) :
              (i \in DOMAIN out /\ Append(out, u)[i] = out[i]) \/ Append(out, u)[i] = u
        BY AppendProperties, LenProperties
    <2> QED  BY <2>1 DEF Older
<1> QED
    BY <1>1, <1>2

\* Without a connection, or before the token is accepted, no put is on its way.
LEMMA FlightIdle ==
    ASSUME NEW state, NEW q, NEW r, NEW out
    PROVE  /\ Flight(state, q, r, out) /\ state # "Connected" =>
                 /\ \A i \in DOMAIN q : ~Put(q[i])
                 /\ \A i \in DOMAIN r : ~Put(r[i])
           /\ state # "Connected" /\ (\A i \in DOMAIN q : ~Put(q[i]))
              /\ (\A i \in DOMAIN r : ~Put(r[i])) => Flight(state, q, r, out)
           /\ state # "Connected" => Flight(state, <<>>, <<>>, out)
BY DEF Flight

\* The client takes a message that is no answer to a put.
LEMMA FlightTail ==
    ASSUME NEW state, NEW q \in Seq(Messages), q # <<>>, NEW r, NEW out,
           Flight(state, q, r, out), ~Put(Head(q))
    PROVE  Flight(state, Tail(q), r, out)
<1> DEFINE t == Tail(q)
<1>1. /\ Head(q) = q[1] /\ DOMAIN q \subseteq Int
      /\ \A i \in DOMAIN t : i \in Nat /\ i + 1 \in DOMAIN q /\ t[i] = q[i + 1]
      /\ \A i \in DOMAIN q : i = 1 \/ (i - 1 \in DOMAIN t /\ q[i] = t[i - 1])
    BY TailIndex
<1> HIDE DEF t
<1>2. \A i, j \in DOMAIN t : i < j /\ Put(t[i]) /\ Put(t[j]) => Older(out, t[i].w, t[j].w)
    <2> SUFFICES ASSUME NEW i \in DOMAIN t, NEW j \in DOMAIN t, i < j, Put(t[i]), Put(t[j])
                 PROVE  Older(out, t[i].w, t[j].w)
        OBVIOUS
    <2>1. i + 1 < j + 1
        BY <1>1
    <2> QED  BY <1>1, <2>1 DEF Flight
<1>3. /\ \A i \in DOMAIN t : Put(t[i]) => state = "Connected" /\ t[i].w \in In(out)
      /\ \A i \in DOMAIN t, j \in DOMAIN r :
            Put(t[i]) /\ Put(r[j]) => Older(out, t[i].w, r[j].w)
    BY <1>1 DEF Flight
<1>4. ASSUME state = "Connected", NEW w \in In(out)
      PROVE  \/ \E i \in DOMAIN t : Put(t[i]) /\ t[i].w = w
             \/ \E i \in DOMAIN r : Put(r[i]) /\ r[i].w = w
    <2>1. CASE \E i \in DOMAIN q : Put(q[i]) /\ q[i].w = w
        BY <1>1, <2>1
    <2>2. CASE \E i \in DOMAIN r : Put(r[i]) /\ r[i].w = w
        BY <2>2
    <2> QED  BY <1>4, <2>1, <2>2 DEF Flight
<1> QED
    BY <1>2, <1>3, <1>4 DEF Flight, t

\* The first answer in the queue is that of the oldest outstanding put.
LEMMA FlightAnswer ==
    ASSUME NEW state, NEW q \in Seq(Messages), q # <<>>, NEW r, NEW out \in Seq(Writes),
           IsInjective(out), Flight(state, q, r, out), Put(Head(q))
    PROVE  /\ out # <<>> /\ Head(q).w = Head(out)
           /\ Flight(state, Tail(q), r, Tail(out))
<1> DEFINE t == Tail(q)
           rest == Tail(out)
<1>1. /\ Head(q) = q[1] /\ 1 \in DOMAIN q /\ DOMAIN q \subseteq Nat \ {0}
      /\ \A i \in DOMAIN t : i \in Nat /\ i + 1 \in DOMAIN q /\ t[i] = q[i + 1]
      /\ \A i \in DOMAIN q : i = 1 \/ (i - 1 \in DOMAIN t /\ q[i] = t[i - 1])
    BY TailIndex
<1>2. state = "Connected" /\ q[1].w \in In(out)
    BY <1>1 DEF Flight
<1>3. out # <<>>
    BY <1>2 DEF In
<1>4. /\ Head(out) = out[1] /\ 1 \in DOMAIN out /\ DOMAIN out \subseteq Nat \ {0}
      /\ \A i \in DOMAIN rest : i \in Nat /\ i + 1 \in DOMAIN out /\ rest[i] = out[i + 1]
      /\ \A i \in DOMAIN out : i = 1 \/ (i - 1 \in DOMAIN rest /\ out[i] = rest[i - 1])
    BY <1>3, TailIndex
<1> HIDE DEF t, rest
<1>5. q[1].w = out[1]
    <2>1. PICK a \in DOMAIN out : out[a] = q[1].w
        BY <1>2 DEF In
    <2>2. out[1] \in In(out) /\ ~(a < 1)
        BY <1>4 DEF In
    <2>3. CASE \E i \in DOMAIN q : Put(q[i]) /\ q[i].w = out[1]
        <3>1. PICK i \in DOMAIN q : Put(q[i]) /\ q[i].w = out[1]
            BY <2>3
        <3>2. CASE i = 1
            BY <3>1, <3>2
        <3>3. CASE i # 1
            <4>1. 1 < i
                BY <1>1, <3>3
            <4>2. Older(out, q[1].w, q[i].w)
                BY <1>1, <3>1, <4>1 DEF Flight
            <4> QED  BY <1>4, <2>1, <2>2, <3>1, <4>2 DEF Older
        <3> QED  BY <3>2, <3>3
    <2>4. CASE \E j \in DOMAIN r : Put(r[j]) /\ r[j].w = out[1]
        <3>1. PICK j \in DOMAIN r : Put(r[j]) /\ r[j].w = out[1]
            BY <2>4
        <3>2. Older(out, q[1].w, r[j].w)
            BY <1>1, <3>1 DEF Flight
        <3> QED  BY <1>4, <2>1, <2>2, <3>1, <3>2 DEF Older
    <2> QED  BY <1>2, <2>2, <2>3, <2>4 DEF Flight
<1>6. \A w \in In(out) : Older(out, out[1], w) => w \in In(rest)
    <2> SUFFICES ASSUME NEW w \in In(out), Older(out, out[1], w) PROVE w \in In(rest)
        OBVIOUS
    <2>1. PICK b \in DOMAIN out : out[b] = w
        BY DEF In
    <2>2. b # 1
        BY <1>4, <2>1 DEF Older
    <2> QED  BY <1>4, <2>1, <2>2 DEF In
<1>7. \A v, w : Older(out, v, w) => Older(rest, v, w)
    BY <1>3, OlderKept DEF rest
<1>8. /\ \A i \in DOMAIN t : Put(t[i]) => t[i].w \in In(rest)
      /\ \A i, j \in DOMAIN t : i < j /\ Put(t[i]) /\ Put(t[j]) => Older(rest, t[i].w, t[j].w)
    <2>1. ASSUME NEW i \in DOMAIN t, Put(t[i]) PROVE t[i].w \in In(rest)
        <3>1. i + 1 \in DOMAIN q /\ t[i] = q[i + 1] /\ 1 < i + 1
            <4>1. i \in Nat \ {0}
                BY TailIndex DEF t
            <4> QED  BY <1>1, <4>1
        <3>2. Older(out, out[1], t[i].w) /\ t[i].w \in In(out)
            BY <1>1, <1>5, <2>1, <3>1 DEF Flight
        <3> QED  BY <1>6, <3>2
    <2>2. ASSUME NEW i \in DOMAIN t, NEW j \in DOMAIN t, i < j, Put(t[i]), Put(t[j])
          PROVE  Older(rest, t[i].w, t[j].w)
        <3>1. i + 1 < j + 1
            BY <1>1, <2>2
        <3>2. Older(out, t[i].w, t[j].w)
            BY <1>1, <2>2, <3>1 DEF Flight
        <3> QED  BY <1>7, <3>2
    <2> QED  BY <2>1, <2>2
<1>9. /\ \A j \in DOMAIN r : Put(r[j]) => r[j].w \in In(rest)
      /\ \A i, j \in DOMAIN r : i < j /\ Put(r[i]) /\ Put(r[j]) => Older(rest, r[i].w, r[j].w)
      /\ \A i \in DOMAIN t, j \in DOMAIN r :
            Put(t[i]) /\ Put(r[j]) => Older(rest, t[i].w, r[j].w)
    <2>1. ASSUME NEW j \in DOMAIN r, Put(r[j]) PROVE r[j].w \in In(rest)
        <3>1. Older(out, out[1], r[j].w) /\ r[j].w \in In(out)
            BY <1>1, <1>5, <2>1 DEF Flight
        <3> QED  BY <1>6, <3>1
    <2> QED  BY <1>1, <1>7, <2>1 DEF Flight
<1>10. ASSUME NEW w \in In(rest)
       PROVE  \/ \E i \in DOMAIN t : Put(t[i]) /\ t[i].w = w
              \/ \E i \in DOMAIN r : Put(r[i]) /\ r[i].w = w
    <2>1. PICK b \in DOMAIN rest : rest[b] = w
        BY DEF In
    <2>2. b + 1 \in DOMAIN out /\ out[b + 1] = w /\ b + 1 # 1
        <3>1. b \in Nat \ {0}
            BY <1>3, TailIndex DEF rest
        <3> QED  BY <1>4, <2>1, <3>1
    <2>3. w # out[1] /\ w \in In(out)
        BY <1>4, <2>2 DEF IsInjective, In
    <2>4. CASE \E i \in DOMAIN q : Put(q[i]) /\ q[i].w = w
        <3>1. PICK i \in DOMAIN q : Put(q[i]) /\ q[i].w = w
            BY <2>4
        <3>2. i # 1
            BY <1>5, <2>3, <3>1
        <3> QED  BY <1>1, <3>1, <3>2
    <2>5. CASE \E i \in DOMAIN r : Put(r[i]) /\ r[i].w = w
        BY <2>5
    <2> QED  BY <1>2, <2>3, <2>4, <2>5 DEF Flight
<1>11. Flight(state, t, r, rest)
    BY <1>2, <1>8, <1>9, <1>10 DEF Flight
<1> QED
    BY <1>1, <1>3, <1>4, <1>5, <1>11 DEF t, rest

\* The server takes a request and sends messages, the answer last if it is a put.
LEMMA FlightServe ==
    ASSUME NEW state, NEW q \in Seq(Messages), NEW r \in Seq(Requests), r # <<>>, NEW out,
           NEW ms \in Seq(Messages), Flight(state, q, r, out),
           \A i \in DOMAIN ms : Put(ms[i]) => Put(Head(r)) /\ ms[i].w = Head(r).w /\ i = Len(ms),
           Put(Head(r)) => \E i \in DOMAIN ms : Put(ms[i])
    PROVE  Flight(state, q \o ms, Tail(r), out)
<1> DEFINE p == q \o ms
           t == Tail(r)
<1>1. /\ Head(r) = r[1] /\ 1 \in DOMAIN r
      /\ \A i \in DOMAIN t : i \in Nat /\ i + 1 \in DOMAIN r /\ t[i] = r[i + 1] /\ 1 < i + 1
      /\ \A i \in DOMAIN r : i = 1 \/ (i - 1 \in DOMAIN t /\ r[i] = t[i - 1])
    <2>1. \A i \in DOMAIN t : i >= 1
        BY TailIndex
    <2> QED  BY <2>1, TailIndex
<1>2. PICK N \in Nat, K \in Nat :
          /\ N = Len(q) /\ DOMAIN q = 1 .. N /\ K = Len(ms) /\ DOMAIN ms = 1 .. K
          /\ DOMAIN p = 1 .. N + K
          /\ \A i \in 1 .. N : i \in DOMAIN p /\ p[i] = q[i]
          /\ \A i \in 1 .. K : N + i \in DOMAIN p /\ p[N + i] = ms[i]
          /\ \A i \in DOMAIN p :
                \/ i \in DOMAIN q /\ p[i] = q[i]
                \/ i > N /\ i - N \in DOMAIN ms /\ p[i] = ms[i - N]
    <2>1. PICK N \in Nat, K \in Nat : N = Len(q) /\ K = Len(ms)
        BY LenProperties
    <2>2. /\ DOMAIN q = 1 .. N /\ DOMAIN ms = 1 .. K /\ DOMAIN p = 1 .. N + K
          /\ \A i \in DOMAIN q : i \in DOMAIN p /\ p[i] = q[i]
          /\ \A i \in DOMAIN ms : N + i \in DOMAIN p /\ p[N + i] = ms[i]
          /\ \A i \in DOMAIN p :
                \/ i \in DOMAIN q /\ p[i] = q[i]
                \/ i > N /\ i - N \in DOMAIN ms /\ p[i] = ms[i - N]
        BY <2>1, ConcatIndex
    <2> HIDE DEF p
    <2> QED  BY <2>1, <2>2
<1> HIDE DEF p, t
<1>3. ASSUME NEW i \in DOMAIN p, Put(p[i])
      PROVE  \/ i \in DOMAIN q /\ p[i] = q[i]
             \/ i = N + K /\ Put(r[1]) /\ p[i].w = r[1].w
    <2>1. CASE i \in DOMAIN q /\ p[i] = q[i]
        BY <2>1
    <2>2. CASE i > N /\ i - N \in DOMAIN ms /\ p[i] = ms[i - N]
        <3>1. PICK j \in 1 .. K : j = i - N /\ p[i] = ms[j]
            BY <1>2, <2>2
        <3>2. Put(r[1]) /\ p[i].w = r[1].w /\ j = K
            BY <1>1, <1>2, <1>3, <3>1
        <3> QED  BY <1>2, <3>1, <3>2
    <2> QED  BY <1>2, <2>1, <2>2
<1>4. \A i \in DOMAIN p : Put(p[i]) => state = "Connected" /\ p[i].w \in In(out)
    BY <1>1, <1>3 DEF Flight
<1>5. \A i, j \in DOMAIN p : i < j /\ Put(p[i]) /\ Put(p[j]) => Older(out, p[i].w, p[j].w)
    <2> SUFFICES ASSUME NEW i \in DOMAIN p, NEW j \in DOMAIN p, i < j, Put(p[i]), Put(p[j])
                 PROVE  Older(out, p[i].w, p[j].w)
        OBVIOUS
    <2>1. i \in DOMAIN q /\ p[i] = q[i]
        <3>1. i # N + K
            BY <1>2
        <3> QED  BY <1>3, <3>1
    <2>2. CASE j \in DOMAIN q /\ p[j] = q[j]
        BY <2>1, <2>2 DEF Flight
    <2>3. CASE Put(r[1]) /\ p[j].w = r[1].w
        BY <1>1, <2>1, <2>3 DEF Flight
    <2> QED  BY <1>3, <2>2, <2>3
<1>6. \A i \in DOMAIN t : Put(t[i]) => state = "Connected" /\ t[i].w \in In(out)
    BY <1>1 DEF Flight
<1>7. \A i, j \in DOMAIN t : i < j /\ Put(t[i]) /\ Put(t[j]) => Older(out, t[i].w, t[j].w)
    <2> SUFFICES ASSUME NEW i \in DOMAIN t, NEW j \in DOMAIN t, i < j, Put(t[i]), Put(t[j])
                 PROVE  Older(out, t[i].w, t[j].w)
        OBVIOUS
    <2>1. i + 1 < j + 1
        BY <1>1
    <2> QED  BY <1>1, <2>1 DEF Flight
<1>8. \A i \in DOMAIN p, j \in DOMAIN t : Put(p[i]) /\ Put(t[j]) => Older(out, p[i].w, t[j].w)
    <2> SUFFICES ASSUME NEW i \in DOMAIN p, NEW j \in DOMAIN t, Put(p[i]), Put(t[j])
                 PROVE  Older(out, p[i].w, t[j].w)
        OBVIOUS
    <2>1. CASE i \in DOMAIN q /\ p[i] = q[i]
        BY <1>1, <2>1 DEF Flight
    <2>2. CASE Put(r[1]) /\ p[i].w = r[1].w
        BY <1>1, <2>2 DEF Flight
    <2> QED  BY <1>3, <2>1, <2>2
<1>9. ASSUME state = "Connected", NEW w \in In(out)
      PROVE  \/ \E i \in DOMAIN p : Put(p[i]) /\ p[i].w = w
             \/ \E i \in DOMAIN t : Put(t[i]) /\ t[i].w = w
    <2>1. CASE \E i \in DOMAIN q : Put(q[i]) /\ q[i].w = w
        BY <1>2, <2>1
    <2>2. CASE \E i \in DOMAIN r : Put(r[i]) /\ r[i].w = w
        <3>1. PICK i \in DOMAIN r : Put(r[i]) /\ r[i].w = w
            BY <2>2
        <3>2. CASE i = 1
            <4>1. PICK j \in 1 .. K : Put(ms[j]) /\ ms[j].w = w
                BY <1>1, <1>2, <3>1, <3>2
            <4>2. N + j \in DOMAIN p /\ p[N + j] = ms[j]
                BY <1>2
            <4> QED  BY <4>1, <4>2
        <3>3. CASE i # 1
            BY <1>1, <3>1, <3>3
        <3> QED  BY <3>2, <3>3
    <2> QED  BY <1>9, <2>1, <2>2 DEF Flight
<1> QED
    BY <1>4, <1>5, <1>6, <1>7, <1>8, <1>9 DEF Flight, p, t

\* The client sends requests that are no puts.
LEMMA FlightSend ==
    ASSUME NEW state, NEW q, NEW r \in Seq(Requests), NEW rs \in Seq(Requests), NEW out,
           Flight(state, q, r, out), \A i \in DOMAIN rs : ~Put(rs[i])
    PROVE  Flight(state, q, r \o rs, out)
<1> DEFINE p == r \o rs
<1>1. /\ \A i \in DOMAIN r : i \in DOMAIN p /\ p[i] = r[i]
      /\ \A i \in DOMAIN p :
            \/ i \in DOMAIN r /\ p[i] = r[i]
            \/ i - Len(r) \in DOMAIN rs /\ p[i] = rs[i - Len(r)]
    BY ConcatIndex
<1> HIDE DEF p
<1>2. \A i \in DOMAIN p : Put(p[i]) => i \in DOMAIN r /\ p[i] = r[i]
    BY <1>1
<1>3. state = "Connected" => \A w \in In(out) :
          \/ \E i \in DOMAIN q : Put(q[i]) /\ q[i].w = w
          \/ \E i \in DOMAIN p : Put(p[i]) /\ p[i].w = w
    BY <1>1 DEF Flight
<1> QED
    BY <1>2, <1>3 DEF Flight, p

\* The server sends messages that answer no put.
LEMMA FlightMore ==
    ASSUME NEW state, NEW q \in Seq(Messages), NEW ms \in Seq(Messages), NEW r, NEW out,
           Flight(state, q, r, out), \A i \in DOMAIN ms : ~Put(ms[i])
    PROVE  Flight(state, q \o ms, r, out)
<1> DEFINE p == q \o ms
<1>1. /\ \A i \in DOMAIN q : i \in DOMAIN p /\ p[i] = q[i]
      /\ \A i \in DOMAIN p :
            \/ i \in DOMAIN q /\ p[i] = q[i]
            \/ i - Len(q) \in DOMAIN ms /\ p[i] = ms[i - Len(q)]
    BY ConcatIndex
<1> HIDE DEF p
<1>2. \A i \in DOMAIN p : Put(p[i]) => i \in DOMAIN q /\ p[i] = q[i]
    BY <1>1
<1>3. state = "Connected" => \A w \in In(out) :
          \/ \E i \in DOMAIN p : Put(p[i]) /\ p[i].w = w
          \/ \E i \in DOMAIN r : Put(r[i]) /\ r[i].w = w
    BY <1>1 DEF Flight
<1> QED
    BY <1>2, <1>3 DEF Flight, p

\* A new write: its put is sent last, or kept until there is a connection.
LEMMA FlightSet ==
    ASSUME NEW state, NEW q, NEW r \in Seq(Requests), NEW out \in Seq(Writes),
           NEW w \in Writes, w \notin In(out), SendPut(w) \in Requests, Flight(state, q, r, out)
    PROVE  /\ state = "Connected" => Flight(state, q, Append(r, SendPut(w)), Append(out, w))
           /\ state # "Connected" => Flight(state, q, r, Append(out, w))
<1> DEFINE more == Append(out, w)
           p == Append(r, SendPut(w))
<1>1. /\ In(more) = In(out) \cup {w} /\ Len(out) \in Nat
      /\ \A i \in DOMAIN more :
            (i \in DOMAIN out /\ i <= Len(out) /\ more[i] = out[i]) \/ (i = Len(out) + 1 /\ more[i] = w)
    BY InAppend, AppendProperties, LenProperties
<1>2. \A v \in In(out) : v # w
    OBVIOUS
<1>3. \A u, v \in In(out) : Older(out, u, v) => Older(more, u, v)
    BY <1>2, OlderKept
<1>4. \A v \in In(out) : Older(more, v, w)
    <2> SUFFICES ASSUME NEW v \in In(out), NEW a \in DOMAIN more, NEW b \in DOMAIN more,
                        more[a] = v, more[b] = w
                 PROVE  a < b
        BY DEF Older
    <2>1. a \in DOMAIN out /\ a <= Len(out)
        BY <1>1, <1>2
    <2>2. b = Len(out) + 1
        BY <1>1, <1>2 DEF In
    <2>3. a \in Nat
        BY <2>1, LenProperties
    <2> QED  BY <1>1, <2>1, <2>2, <2>3
<1>5. /\ DOMAIN r \subseteq DOMAIN p /\ \A i \in DOMAIN r : p[i] = r[i]
      /\ \A i \in DOMAIN p :
            (i \in DOMAIN r /\ i <= Len(r) /\ p[i] = r[i]) \/ (i = Len(r) + 1 /\ p[i] = SendPut(w))
      /\ Len(r) \in Nat /\ Len(r) + 1 \in DOMAIN p /\ p[Len(r) + 1] = SendPut(w)
    BY AppendProperties, LenProperties
<1>6. Put(SendPut(w)) /\ SendPut(w).w = w
    BY DEF SendPut, Put
<1> HIDE DEF more, p
<1>7. ASSUME state = "Connected" PROVE Flight(state, q, p, more)
    <2>1. /\ \A i \in DOMAIN q : Put(q[i]) => q[i].w \in In(more)
          /\ \A i \in DOMAIN p : Put(p[i]) => p[i].w \in In(more)
        BY <1>1, <1>5, <1>6 DEF Flight
    <2>2. /\ \A i, j \in DOMAIN q :
                i < j /\ Put(q[i]) /\ Put(q[j]) => Older(more, q[i].w, q[j].w)
          /\ \A i \in DOMAIN q, j \in DOMAIN p :
                Put(q[i]) /\ Put(p[j]) => Older(more, q[i].w, p[j].w)
        BY <1>3, <1>4, <1>5, <1>6 DEF Flight
    <2>3. ASSUME NEW i \in DOMAIN p, NEW j \in DOMAIN p, i < j, Put(p[i]), Put(p[j])
          PROVE  Older(more, p[i].w, p[j].w)
        <3>1. i \in DOMAIN r /\ p[i] = r[i]
            <4>1. CASE j \in DOMAIN r /\ j <= Len(r)
                BY <1>5, <2>3, <4>1
            <4>2. CASE j = Len(r) + 1
                BY <1>5, <2>3, <4>2
            <4> QED  BY <1>5, <4>1, <4>2
        <3>2. CASE j \in DOMAIN r /\ p[j] = r[j]
            BY <1>3, <2>3, <3>1, <3>2 DEF Flight
        <3>3. CASE p[j] = SendPut(w)
            BY <1>4, <1>6, <2>3, <3>1, <3>3 DEF Flight
        <3> QED  BY <1>5, <3>2, <3>3
    <2>4. ASSUME NEW v \in In(more)
          PROVE  \/ \E i \in DOMAIN q : Put(q[i]) /\ q[i].w = v
                 \/ \E i \in DOMAIN p : Put(p[i]) /\ p[i].w = v
        <3>1. CASE v \in In(out)
            BY <1>5, <1>7, <3>1 DEF Flight
        <3>2. CASE v = w
            BY <1>5, <1>6, <3>2
        <3> QED  BY <1>1, <3>1, <3>2
    <2> QED  BY <1>7, <2>1, <2>2, <2>3, <2>4 DEF Flight
<1>8. ASSUME state # "Connected" PROVE Flight(state, q, r, more)
    BY <1>8, FlightIdle
<1> QED
    BY <1>7, <1>8 DEF more, p

\* A connection is restored: the listens, then the puts in the order of the calls.
LEMMA FlightRestore ==
    ASSUME NEW q, NEW r \in Seq(Requests), NEW rs \in Seq(Requests), NEW ps \in Seq(Requests),
           NEW out \in Seq(Writes), IsInjective(out),
           \A i \in DOMAIN q : ~Put(q[i]), \A i \in DOMAIN r : ~Put(r[i]),
           \A i \in DOMAIN rs : ~Put(rs[i]), DOMAIN ps = DOMAIN out,
           \A i \in DOMAIN ps : ps[i] = SendPut(out[i])
    PROVE  Flight("Connected", q, r \o (rs \o ps), out)
<1> DEFINE p == r \o (rs \o ps)
<1>1. rs \o ps \in Seq(Requests)
    OBVIOUS
<1>2. PICK B \in Nat :
          /\ \A i \in DOMAIN ps : B + i \in DOMAIN p /\ p[B + i] = ps[i]
          /\ \A i \in DOMAIN p : Put(p[i]) => i - B \in DOMAIN ps /\ i \in Int /\ p[i] = ps[i - B]
    <2>1. PICK M \in Nat, N \in Nat, K \in Nat : M = Len(r) /\ N = Len(rs) /\ K = Len(ps)
        BY LenProperties
    <2> DEFINE s == rs \o ps
    <2>2. /\ DOMAIN rs = 1 .. N /\ DOMAIN ps = 1 .. K /\ DOMAIN s = 1 .. N + K
          /\ \A i \in DOMAIN ps : N + i \in DOMAIN s /\ s[N + i] = ps[i]
          /\ \A i \in DOMAIN s :
                \/ i \in DOMAIN rs /\ s[i] = rs[i]
                \/ i > N /\ i - N \in DOMAIN ps /\ s[i] = ps[i - N]
        BY <2>1, ConcatIndex, SMTT(60)
    <2> HIDE DEF s
    <2>3. /\ DOMAIN r = 1 .. M /\ DOMAIN (r \o s) \subseteq Int
          /\ \A i \in DOMAIN s : M + i \in DOMAIN (r \o s) /\ (r \o s)[M + i] = s[i]
          /\ \A i \in DOMAIN (r \o s) :
                \/ i \in DOMAIN r /\ (r \o s)[i] = r[i]
                \/ i > M /\ i - M \in DOMAIN s /\ (r \o s)[i] = s[i - M]
        <3>1. s \in Seq(Requests)
            BY <1>1 DEF s
        <3>2. /\ DOMAIN r = 1 .. M /\ DOMAIN (r \o s) \subseteq Int
            BY <2>1, <3>1, ConcatIndex
        <3> QED  BY <2>1, <3>1, <3>2, ConcatIndex, SMTT(60)
    <2>4. p = r \o s
        BY DEF s
    <2> HIDE DEF p
    <2>5. ASSUME NEW i \in DOMAIN ps PROVE (M + N) + i \in DOMAIN p /\ p[(M + N) + i] = ps[i]
        <3>1. i \in Int /\ (M + N) + i = M + (N + i)
            BY <2>2
        <3> QED  BY <2>2, <2>3, <2>4, <3>1, SMTT(60)
    <2>6. ASSUME NEW i \in DOMAIN p, Put(p[i])
          PROVE  i - (M + N) \in DOMAIN ps /\ i \in Int /\ p[i] = ps[i - (M + N)]
        <3>1. i - M \in DOMAIN s /\ p[i] = s[i - M] /\ i \in Int
            BY <2>3, <2>4, <2>6
        <3>2. PICK j \in DOMAIN s : j = i - M /\ p[i] = s[j]
            BY <3>1
        <3>3. j - N \in DOMAIN ps /\ s[j] = ps[j - N]
            BY <2>2, <2>6, <3>2
        <3>4. j - N = i - (M + N)
            BY <3>1, <3>2
        <3> QED  BY <3>1, <3>2, <3>3, <3>4
    <2>7. PICK B \in Nat : B = M + N
        OBVIOUS
    <2>8. /\ \A i \in DOMAIN ps : B + i \in DOMAIN p /\ p[B + i] = ps[i]
          /\ \A i \in DOMAIN p : Put(p[i]) => i - B \in DOMAIN ps /\ i \in Int /\ p[i] = ps[i - B]
        BY <2>5, <2>6, <2>7
    <2> QED  BY <2>8
<1> HIDE DEF p
<1>3. \A i \in DOMAIN ps : i \in Nat /\ Put(ps[i]) /\ ps[i].w = out[i] /\ out[i] \in In(out)
    <2>1. \A i \in DOMAIN ps : i \in Nat
        BY LenProperties
    <2> QED  BY <2>1 DEF SendPut, Put, In
<1>4. \A i \in DOMAIN p : Put(p[i]) => p[i].w \in In(out)
    BY <1>2, <1>3
<1>5. ASSUME NEW i \in DOMAIN p, NEW j \in DOMAIN p, i < j, Put(p[i]), Put(p[j])
      PROVE  Older(out, p[i].w, p[j].w)
    <2>1. PICK a \in DOMAIN ps, b \in DOMAIN ps :
              a = i - B /\ b = j - B /\ p[i].w = out[a] /\ p[j].w = out[b] /\ i \in Int /\ j \in Int
        BY <1>2, <1>3, <1>5, SMTT(60)
    <2>2. a < b
        BY <1>5, <2>1
    <2> QED  BY <2>1, <2>2 DEF Older, IsInjective
<1>6. ASSUME NEW w \in In(out) PROVE \E i \in DOMAIN p : Put(p[i]) /\ p[i].w = w
    <2>1. PICK a \in DOMAIN ps : out[a] = w
        BY DEF In
    <2>2. B + a \in DOMAIN p /\ p[B + a] = ps[a]
        BY <1>2
    <2> QED  BY <1>3, <2>1, <2>2
<1> QED
    BY <1>4, <1>5, <1>6 DEF Flight, p

-------------------------------------------------------------------------------
\* The token

\* The client takes a message after the handshake.
LEMMA HandshakeTail ==
    ASSUME NEW state, NEW q \in Seq(Messages), q # <<>>, NEW r, NEW srv,
           Handshake(state, r, q, srv), Head(q).type # "authOk"
    PROVE  /\ state \notin {"Disconnected", "Connecting", "Authenticating"}
           /\ Handshake(state, r, Tail(q), srv)
<1>1. /\ Head(q) = q[1]
      /\ \A i \in DOMAIN Tail(q) : i \in Nat /\ i + 1 \in DOMAIN q /\ Tail(q)[i] = q[i + 1]
    BY TailIndex
<1>2. state \notin {"Disconnected", "Connecting", "Authenticating"}
    BY <1>1 DEF Handshake
<1>3. \A i \in DOMAIN Tail(q) : Tail(q)[i].type # "authOk"
    BY <1>1, <1>2 DEF Handshake
<1> QED
    BY <1>2, <1>3 DEF Handshake

\* The token is accepted.
LEMMA HandshakeAccepted ==
    ASSUME NEW state, NEW q \in Seq(Messages), q # <<>>, NEW r \in Seq(Requests),
           NEW rs \in Seq(Requests), NEW srv, Handshake(state, r, q, srv),
           Head(q).type = "authOk", \A i \in DOMAIN rs : rs[i].type # "auth"
    PROVE  state = "Authenticating" /\ Handshake("Connected", r \o rs, Tail(q), srv)
<1>1. /\ Head(q) = q[1] /\ 1 \in DOMAIN q
      /\ \A i \in DOMAIN Tail(q) :
            i \in Nat \ {0} /\ i + 1 \in DOMAIN q /\ Tail(q)[i] = q[i + 1]
    <2>1. \A i \in DOMAIN Tail(q) : i >= 1
        BY TailIndex
    <2> QED  BY <2>1, TailIndex
<1>2. state = "Authenticating"
    BY <1>1 DEF Handshake
<1>3. \A i \in DOMAIN Tail(q) : Tail(q)[i].type # "authOk"
    <2> TAKE i \in DOMAIN Tail(q)
    <2>1. i + 1 # 1
        BY <1>1
    <2> QED  BY <1>1, <2>1 DEF Handshake
<1>4. \A i \in DOMAIN (r \o rs) : (r \o rs)[i].type # "auth"
    <2>1. \A i \in DOMAIN r : r[i].type # "auth"
        BY DEF Handshake
    <2> QED  BY <2>1, ConcatIndex
<1> QED
    BY <1>2, <1>3, <1>4 DEF Handshake

\* The client sends a request over an open connection.
LEMMA HandshakeSend ==
    ASSUME NEW state, state \in {"Authenticating", "Connected"}, NEW q,
           NEW r \in Seq(Requests), NEW rs \in Seq(Requests), NEW srv,
           Handshake(state, r, q, srv), \A i \in DOMAIN rs : rs[i].type # "auth"
    PROVE  Handshake(state, r \o rs, q, srv)
<1>1. /\ \A i \in DOMAIN r : i \in DOMAIN (r \o rs) /\ (r \o rs)[i] = r[i]
      /\ \A i \in DOMAIN (r \o rs) :
            \/ i \in DOMAIN r /\ (r \o rs)[i] = r[i]
            \/ i - Len(r) \in DOMAIN rs /\ (r \o rs)[i] = rs[i - Len(r)]
    BY ConcatIndex
<1>2. \A i \in DOMAIN (r \o rs) : (r \o rs)[i].type = "auth" =>
          i \in DOMAIN r /\ (r \o rs)[i] = r[i]
    BY <1>1
<1>3. r # <<>> => r \o rs # <<>> /\ (r \o rs)[1] = r[1]
    <2> SUFFICES ASSUME r # <<>> PROVE r \o rs # <<>> /\ (r \o rs)[1] = r[1]
        OBVIOUS
    <2>1. 1 \in DOMAIN r
        BY TailIndex
    <2>2. 1 \in DOMAIN (r \o rs) /\ (r \o rs)[1] = r[1]
        BY <1>1, <2>1
    <2> QED  BY <2>2
<1> QED
    BY <1>2, <1>3 DEF Handshake

\* The server sends messages over a connection on which something is listened to.
LEMMA HandshakeMore ==
    ASSUME NEW state, NEW q \in Seq(Messages), NEW ms \in Seq(Messages), NEW r, NEW srv,
           Handshake(state, r, q, srv), \A i \in DOMAIN ms : ms[i].type # "authOk",
           \/ state = "Connected"
           \/ srv # {}
           \/ q # <<>> /\ state \notin {"Disconnected", "Connecting"}
    PROVE  Handshake(state, r, q \o ms, srv)
<1>1. /\ \A i \in DOMAIN q : i \in DOMAIN (q \o ms) /\ (q \o ms)[i] = q[i]
      /\ \A i \in DOMAIN (q \o ms) :
            \/ i \in DOMAIN q /\ (q \o ms)[i] = q[i]
            \/ i - Len(q) \in DOMAIN ms /\ (q \o ms)[i] = ms[i - Len(q)]
    BY ConcatIndex
<1>2. \A i \in DOMAIN (q \o ms) : (q \o ms)[i].type = "authOk" =>
          i \in DOMAIN q /\ (q \o ms)[i] = q[i]
    BY <1>1
<1>3. q # <<>> => q \o ms # <<>> /\ (q \o ms)[1] = q[1]
    <2> SUFFICES ASSUME q # <<>> PROVE q \o ms # <<>> /\ (q \o ms)[1] = q[1]
        OBVIOUS
    <2>1. 1 \in DOMAIN q
        BY TailIndex
    <2>2. 1 \in DOMAIN (q \o ms) /\ (q \o ms)[1] = q[1]
        BY <1>1, <2>1
    <2> QED  BY <2>2
<1>4. state = "Connected" \/ (state = "Authenticating" => q # <<>>)
    BY DEF Handshake
<1>5. \A i \in DOMAIN r : r[i].type # "auth"
    BY <1>4 DEF Handshake
<1>6. state \notin {"Disconnected", "Connecting"}
    BY DEF Handshake
<1> QED
    BY <1>2, <1>3, <1>4, <1>5, <1>6 DEF Handshake

\* The server takes a request that is not the token.
LEMMA HandshakeServe ==
    ASSUME NEW state, NEW q \in Seq(Messages), NEW ms \in Seq(Messages),
           NEW r \in Seq(Requests), r # <<>>, NEW srv, NEW srv2,
           Handshake(state, r, q, srv), Head(r).type # "auth",
           \A i \in DOMAIN ms : ms[i].type # "authOk"
    PROVE  Handshake(state, Tail(r), q \o ms, srv2)
<1>1. /\ Head(r) = r[1] /\ 1 \in DOMAIN r
      /\ \A i \in DOMAIN Tail(r) :
            i \in Nat \ {0} /\ i + 1 \in DOMAIN r /\ Tail(r)[i] = r[i + 1]
    <2>1. \A i \in DOMAIN Tail(r) : i >= 1
        BY TailIndex
    <2> QED  BY <2>1, TailIndex
<1>2. /\ state \notin {"Disconnected", "Connecting"}
      /\ state = "Authenticating" => q # <<>> /\ q[1].type = "authOk"
    BY <1>1 DEF Handshake
<1>3. \A i \in DOMAIN Tail(r) : Tail(r)[i].type # "auth"
    <2> TAKE i \in DOMAIN Tail(r)
    <2>1. i + 1 # 1
        BY <1>1
    <2> QED  BY <1>1, <2>1 DEF Handshake
<1>4. Handshake(state, Tail(r), q, {"any"})
    BY <1>2, <1>3 DEF Handshake
<1>5. Handshake(state, Tail(r), q \o ms, {"any"})
    BY <1>4, HandshakeMore
<1>6. state = "Authenticating" => q \o ms # <<>> /\ (q \o ms)[1].type = "authOk"
    <2> SUFFICES ASSUME state = "Authenticating"
                 PROVE  q \o ms # <<>> /\ (q \o ms)[1].type = "authOk"
        OBVIOUS
    <2>1. 1 \in DOMAIN q
        BY <1>2, TailIndex
    <2>2. 1 \in DOMAIN (q \o ms) /\ (q \o ms)[1] = q[1]
        BY <2>1, ConcatIndex
    <2> QED  BY <1>2, <2>2
<1> QED
    BY <1>2, <1>5, <1>6 DEF Handshake

\* The server takes the token.
LEMMA HandshakeAuth ==
    ASSUME NEW state, NEW q, NEW r \in Seq(Requests), r # <<>>, NEW srv,
           Handshake(state, r, q, srv), Head(r).type = "auth"
    PROVE  /\ q = <<>> /\ state = "Authenticating"
           /\ Handshake(state, Tail(r), <<[type |-> "authOk"]>>, srv)
<1>1. /\ Head(r) = r[1] /\ 1 \in DOMAIN r
      /\ \A i \in DOMAIN Tail(r) :
            i \in Nat \ {0} /\ i + 1 \in DOMAIN r /\ Tail(r)[i] = r[i + 1]
    <2>1. \A i \in DOMAIN Tail(r) : i >= 1
        BY TailIndex
    <2> QED  BY <2>1, TailIndex
<1>2. q = <<>> /\ state = "Authenticating"
    BY <1>1 DEF Handshake
<1>3. \A i \in DOMAIN Tail(r) : Tail(r)[i].type # "auth"
    <2> TAKE i \in DOMAIN Tail(r)
    <2>1. i + 1 # 1
        BY <1>1
    <2> QED  BY <1>1, <2>1 DEF Handshake
<1>4. DOMAIN <<[type |-> "authOk"]>> = {1} /\ <<[type |-> "authOk"]>>[1].type = "authOk"
    OBVIOUS
<1> QED
    BY <1>2, <1>3, <1>4 DEF Handshake

-------------------------------------------------------------------------------
\* Listens

\* The client takes a message, and counts the answer of a listen.
LEMMA ListensTail ==
    ASSUME NEW state, NEW ls, NEW r \in Seq(Requests), NEW q \in Seq(Messages), q # <<>>, NEW srv,
           NEW n, Listens(state, ls, r, q, srv, n)
    PROVE  /\ Head(q).type = "listenOk" =>
                 /\ n \in Nat /\ n >= 1 /\ n - 1 \in Nat
                 /\ Listens(state, ls, r, Tail(q), srv, n - 1)
           /\ Head(q).type # "listenOk" => Listens(state, ls, r, Tail(q), srv, n)
<1>1. \A i \in DOMAIN Tail(q) : i \in Nat /\ i + 1 \in DOMAIN q /\ Tail(q)[i] = q[i + 1]
    BY TailIndex
<1>2. PICK a \in Nat, b \in Nat :
          /\ a = Count(r, "listen") /\ b = Count(Tail(q), "listenOk")
          /\ Count(q, "listenOk") = b + (IF Head(q).type = "listenOk" THEN 1 ELSE 0)
    <2>1. Count(r, "listen") \in Nat
        BY CountConcat
    <2> QED  BY <2>1, CountTail
<1>3. \A i \in DOMAIN Tail(q), l \in Locations : Tells(Tail(q)[i], l) => l \in ls
    BY <1>1 DEF Listens
<1>4. n = a + (b + (IF Head(q).type = "listenOk" THEN 1 ELSE 0))
    BY <1>2 DEF Listens
<1>5. ASSUME Head(q).type = "listenOk"
      PROVE  n \in Nat /\ n >= 1 /\ n - 1 \in Nat /\ n - 1 = a + b
    BY <1>4, <1>5
<1>6. ASSUME Head(q).type # "listenOk" PROVE n = a + b
    BY <1>4, <1>6
<1>7. n > 0 => ls # {}
    BY DEF Listens
<1>8. ASSUME Head(q).type = "listenOk" PROVE ls # {}
    BY <1>5, <1>7, <1>8
<1> QED
    BY <1>2, <1>3, <1>5, <1>6, <1>8 DEF Listens

\* The client sends a request that is no listen.
LEMMA ListensSend ==
    ASSUME NEW state, NEW ls, NEW r \in Seq(Requests), NEW rs \in Seq(Requests), NEW q, NEW srv,
           NEW n, Listens(state, ls, r, q, srv, n), \A i \in DOMAIN rs : rs[i].type # "listen"
    PROVE  Listens(state, ls, r \o rs, q, srv, n)
<1>1. Count(r \o rs, "listen") = Count(r, "listen")
    <2>1. /\ Count(r, "listen") \in Nat
          /\ Count(r \o rs, "listen") = Count(r, "listen") + Count(rs, "listen")
        BY CountConcat
    <2>2. Count(rs, "listen") = 0
        BY CountAll
    <2> QED  BY <2>1, <2>2
<1>2. \A i \in DOMAIN (r \o rs) : (r \o rs)[i].type = "listen" => (r \o rs)[i].loc \in ls
    BY ConcatIndex DEF Listens
<1>3. \A l : Asked(r, l) => Asked(r \o rs, l)
    BY AskedQueue
<1> QED
    BY <1>1, <1>2, <1>3 DEF Listens

\* The first observer of a location: a listen is sent, or will be.
LEMMA ListensObserve ==
    ASSUME NEW state, NEW ls, NEW r \in Seq(Requests), NEW q, NEW srv, NEW n, NEW l \in Locations,
           SendListen(l) \in Requests, Count(q, "listenOk") \in Nat,
           Listens(state, ls, r, q, srv, n)
    PROVE  /\ Listens(state, ls \cup {l}, r \o <<SendListen(l)>>, q, srv, n + 1)
           /\ l \in ls \/ state # "Connected" => Listens(state, ls \cup {l}, r, q, srv, n)
<1> DEFINE m == SendListen(l)
           s == r \o <<m>>
<1>1. <<m>> \in Seq(Requests) /\ m.type = "listen" /\ m.loc = l
    BY DEF SendListen
<1>2. /\ Count(r, "listen") \in Nat /\ Count(s, "listen") = Count(r, "listen") + 1
    <2>1. /\ Count(r, "listen") \in Nat
          /\ Count(s, "listen") = Count(r, "listen") + Count(<<m>>, "listen")
        BY <1>1, CountConcat, ZenonT(60)
    <2>2. Count(<<m>>, "listen") = 1
        BY <1>1, CountFew
    <2> QED  BY <2>1, <2>2
<1>3. \A i \in DOMAIN s : s[i].type = "listen" => s[i].loc \in ls \cup {l}
    <2>1. DOMAIN <<m>> = {1} /\ <<m>>[1] = m
        OBVIOUS
    <2>2. \A i \in DOMAIN s : (i \in DOMAIN r /\ s[i] = r[i]) \/ s[i] = m
        BY <1>1, <2>1, ConcatIndex
    <2> HIDE DEF m, s
    <2> QED  BY <1>1, <2>2 DEF Listens
<1>4. \A k : Asked(r, k) \/ k = l => Asked(s, k)
    <2>1. Asked(<<m>>, l)
        <3>1. 1 \in DOMAIN <<m>> /\ <<m>>[1] = m
            OBVIOUS
        <3> HIDE DEF m
        <3> QED  BY <1>1, <3>1 DEF Asked
    <2> QED  BY <1>1, <2>1, AskedQueue, ZenonT(60)
<1> HIDE DEF m, s
<1>5. PICK a \in Nat, b \in Nat : a = Count(r, "listen") /\ b = Count(q, "listenOk")
    BY <1>2
<1>6. n = a + b
    BY <1>5 DEF Listens
<1>7. n + 1 = (a + 1) + b
    BY <1>6
<1>8. Listens(state, ls \cup {l}, s, q, srv, n + 1)
    BY <1>2, <1>3, <1>4, <1>5, <1>7 DEF Listens
<1>9. ASSUME l \in ls \/ state # "Connected" PROVE Listens(state, ls \cup {l}, r, q, srv, n)
    BY <1>9 DEF Listens
<1> QED
    BY <1>8, <1>9 DEF s, m

\* A connection is restored: every listen is sent.
LEMMA ListensRestore ==
    ASSUME NEW state, NEW ls, NEW r \in Seq(Requests), NEW rs \in Seq(Requests),
           NEW ps \in Seq(Requests), NEW q, NEW srv, NEW n, Listens(state, ls, r, q, srv, n),
           Count(q, "listenOk") \in Nat,
           \A i \in DOMAIN rs : rs[i].type = "listen" /\ rs[i].loc \in ls,
           \A l \in ls : Asked(rs, l),
           \A i \in DOMAIN ps : ps[i].type # "listen"
    PROVE  /\ Listens("Connected", ls, r \o (rs \o ps), q, srv, n + Len(rs))
           /\ \A l \in ls : Asked(r \o (rs \o ps), l)
<1> DEFINE s == rs \o ps
<1>1. s \in Seq(Requests)
    OBVIOUS
<1>2. /\ Count(s, "listen") = Len(rs) /\ Len(rs) \in Nat
    <2>1. Count(s, "listen") = Count(rs, "listen") + Count(ps, "listen")
        BY CountConcat
    <2>2. Count(rs, "listen") = Len(rs) /\ Count(ps, "listen") = 0
        BY CountAll
    <2>3. Len(rs) \in Nat
        BY LenProperties
    <2> QED  BY <2>1, <2>2, <2>3
<1>3. /\ \A i \in DOMAIN s : s[i].type = "listen" => s[i].loc \in ls
      /\ \A l \in ls : Asked(s, l)
    <2>1. \A i \in DOMAIN s : s[i].type = "listen" => s[i].loc \in ls
        BY ConcatIndex
    <2>2. \A l \in ls : Asked(s, l)
        BY AskedQueue
    <2> QED  BY <2>1, <2>2
<1> HIDE DEF s
<1>4. /\ Count(r, "listen") \in Nat
      /\ Count(r \o s, "listen") = Count(r, "listen") + Len(rs)
    BY <1>1, <1>2, CountConcat
<1>5. /\ \A i \in DOMAIN (r \o s) : (r \o s)[i].type = "listen" => (r \o s)[i].loc \in ls
      /\ \A l \in ls : Asked(r \o s, l)
    <2>1. \A i \in DOMAIN r : r[i].type = "listen" => r[i].loc \in ls
        BY DEF Listens
    <2>2. \A i \in DOMAIN (r \o s) : (r \o s)[i].type = "listen" => (r \o s)[i].loc \in ls
        BY <1>1, <1>3, <2>1, ConcatIndex
    <2>3. \A l \in ls : Asked(r \o s, l)
        BY <1>1, <1>3, AskedQueue
    <2> QED  BY <2>2, <2>3
<1>6. PICK a \in Nat, b \in Nat, k \in Nat :
          a = Count(r, "listen") /\ b = Count(q, "listenOk") /\ k = Len(rs)
    BY <1>2, <1>4
<1>7. n = a + b /\ n \in Nat
    BY <1>6 DEF Listens
<1>8. n + k = (a + k) + b
    BY <1>7
<1>9. n + k > 0 => ls # {}
    <2>1. CASE k = 0
        BY <1>7, <2>1 DEF Listens
    <2>2. CASE k # 0
        <3>1. 1 \in DOMAIN rs
            BY <1>6, <2>2, LenProperties
        <3> QED  BY <3>1
    <2> QED  BY <2>1, <2>2
<1>10. Listens("Connected", ls, r \o s, q, srv, n + k)
    BY <1>4, <1>5, <1>6, <1>8, <1>9 DEF Listens
<1> QED
    BY <1>5, <1>6, <1>10 DEF s

\* The server sends data of locations the client listens to.
LEMMA ListensMore ==
    ASSUME NEW state, NEW ls, NEW r, NEW q \in Seq(Messages), NEW ms \in Seq(Messages), NEW srv,
           NEW n, Listens(state, ls, r, q, srv, n), \A i \in DOMAIN ms : ms[i].type # "listenOk",
           \A i \in DOMAIN ms, l \in Locations : Tells(ms[i], l) => l \in ls
    PROVE  Listens(state, ls, r, q \o ms, srv, n)
<1>1. Count(q \o ms, "listenOk") = Count(q, "listenOk")
    <2>1. /\ Count(q, "listenOk") \in Nat
          /\ Count(q \o ms, "listenOk") = Count(q, "listenOk") + Count(ms, "listenOk")
        BY CountConcat
    <2>2. Count(ms, "listenOk") = 0
        BY CountAll
    <2> QED  BY <2>1, <2>2
<1>2. \A i \in DOMAIN (q \o ms), l \in Locations : Tells((q \o ms)[i], l) => l \in ls
    <2>1. \A i \in DOMAIN q, l \in Locations : Tells(q[i], l) => l \in ls
        BY DEF Listens
    <2> QED  BY <2>1, ConcatIndex
<1> QED
    BY <1>1, <1>2 DEF Listens

\* The server takes a request; if it is a listen, the answer is one of ms.
LEMMA ListensServe ==
    ASSUME NEW state, NEW ls, NEW r \in Seq(Requests), r # <<>>, NEW q \in Seq(Messages),
           NEW ms \in Seq(Messages), NEW srv, NEW srv2, NEW n, Listens(state, ls, r, q, srv, n),
           Count(ms, "listenOk") = IF Head(r).type = "listen" THEN 1 ELSE 0,
           \A i \in DOMAIN ms, l \in Locations : Tells(ms[i], l) => l \in ls,
           srv \subseteq srv2, srv2 \subseteq ls,
           Head(r).type = "listen" => Head(r).loc \in srv2
    PROVE  Listens(state, ls, Tail(r), q \o ms, srv2, n)
<1>1. PICK a \in Nat, b \in Nat, k \in Nat :
          /\ a = Count(Tail(r), "listen") /\ b = Count(q, "listenOk")
          /\ k = IF Head(r).type = "listen" THEN 1 ELSE 0
          /\ Count(r, "listen") = a + k /\ Count(q \o ms, "listenOk") = b + k
    <2>1. PICK k \in Nat : k = IF Head(r).type = "listen" THEN 1 ELSE 0
        OBVIOUS
    <2>2. Count(Tail(r), "listen") \in Nat /\ Count(r, "listen") = Count(Tail(r), "listen") + k
        BY <2>1, CountTail
    <2>3. Count(q, "listenOk") \in Nat /\ Count(q \o ms, "listenOk") = Count(q, "listenOk") + k
        BY <2>1, CountConcat
    <2> QED  BY <2>1, <2>2, <2>3
<1>2. n = (a + k) + b
    BY <1>1 DEF Listens
<1>3. n = a + (b + k)
    BY <1>2
<1>4. \A i \in DOMAIN (q \o ms), l \in Locations : Tells((q \o ms)[i], l) => l \in ls
    <2>1. \A i \in DOMAIN q, l \in Locations : Tells(q[i], l) => l \in ls
        BY DEF Listens
    <2> QED  BY <2>1, ConcatIndex
<1>5. \A i \in DOMAIN Tail(r) : Tail(r)[i].type = "listen" => Tail(r)[i].loc \in ls
    BY TailIndex DEF Listens
<1>6. state = "Connected" => \A l \in ls : l \in srv2 \/ Asked(Tail(r), l)
    <2>1. <<>> \in Seq(Requests)
        OBVIOUS
    <2>2. \A l : Asked(r, l) => Asked(Tail(r), l) \/ (Head(r).type = "listen" /\ Head(r).loc = l)
        BY <2>1, AskedQueue
    <2> QED  BY <2>2 DEF Listens
<1> QED
    BY <1>1, <1>3, <1>4, <1>5, <1>6 DEF Listens

-------------------------------------------------------------------------------
\* The connection as a whole

\* Everything above, for one connection (x: per location).
Link(state, ls, r, q, srv, n, out, x, L) ==
    /\ Handshake(state, r, q, srv) /\ Listens(state, ls, r, q, srv, n)
    /\ Flight(state, q, r, out)
    /\ \A l \in Locations : /\ x[l] \in Int /\ x[l] <= Len(L) /\ Stream(q, x[l], l, L)
                            /\ l \in srv => Caught(q, x[l], l, L)

\* The server accepts the token.
LEMMA LinkAuth ==
    ASSUME NEW state, NEW ls, NEW r \in Seq(Requests), r # <<>>, NEW q \in Seq(Messages),
           NEW srv, NEW n, NEW out, NEW x, NEW L \in Seq(Writes), NEW m \in Messages,
           Link(state, ls, r, q, srv, n, out, x, L), Head(r).type = "auth",
           m = [type |-> "authOk"]
    PROVE  /\ Link(state, ls, Tail(r), q \o <<m>>, srv, n, out, x, L)
           /\ \A w \in Writes, i \in Int : Arrives(q, r, x[WriteLoc(w)], L, w, i) =>
                 Arrives(q \o <<m>>, Tail(r), x[WriteLoc(w)], L, w, i)
<1>1. PICK ms \in Seq(Messages) :
          ms = <<m>> /\ DOMAIN ms = {1} /\ ms[1] = m /\ Append(q, m) = q \o ms
    <2>1. /\ <<m>> \in Seq(Messages) /\ DOMAIN <<m>> = {1} /\ <<m>>[1] = m
          /\ Append(q, m) = q \o <<m>>
        BY AppendIndex
    <2> QED  BY <2>1, Zenon
<1>2. m.type = "authOk"
    OBVIOUS
<1>3. Handshake(state, Tail(r), q \o ms, srv)
    <2>1. q = <<>> /\ Handshake(state, Tail(r), ms, srv)
        BY <1>1, HandshakeAuth DEF Link
    <2>2. <<>> \o ms = ms
        BY ConcatEmptySeq
    <2> QED  BY <2>1, <2>2
<1>4. Listens(state, ls, Tail(r), q \o ms, srv, n)
    <2>1. Count(ms, "listenOk") = 0
        BY <1>1, <1>2, CountFew
    <2>2. Listens(state, ls, r, q, srv, n) /\ srv \subseteq ls
        BY DEF Link, Listens
    <2>3. \A i \in DOMAIN ms, l \in Locations : ~Tells(ms[i], l)
        BY <1>1, <1>2 DEF Tells
    <2> QED  BY <2>1, <2>2, <2>3, ListensServe
<1>5. Flight(state, q \o ms, Tail(r), out)
    <2>1. ~Put(Head(r)) /\ \A i \in DOMAIN ms : ~Put(ms[i])
        BY <1>1, <1>2 DEF Put
    <2> QED  BY <2>1, FlightServe DEF Link
<1>6. ASSUME NEW l \in Locations
      PROVE  /\ x[l] \in Int /\ x[l] <= Len(L) /\ Stream(q \o ms, x[l], l, L)
             /\ l \in srv => Caught(q \o ms, x[l], l, L)
    <2>1. ~Tells(m, l)
        BY <1>2 DEF Tells
    <2> QED  BY <1>1, <2>1, StreamOther, ZenonT(60) DEF Link
<1>7. ASSUME NEW w, NEW i \in Int, Arrives(q, r, x[WriteLoc(w)], L, w, i)
      PROVE  Arrives(q \o ms, Tail(r), x[WriteLoc(w)], L, w, i)
    <2>1. Asked(r, WriteLoc(w)) => Asked(Tail(r), WriteLoc(w))
        <3>1. <<>> \in Seq(Requests)
            OBVIOUS
        <3> QED  BY <3>1, AskedQueue
    <2> QED  BY <1>7, <2>1, ArrivesMore
<1>8. Link(state, ls, Tail(r), q \o ms, srv, n, out, x, L)
    BY <1>3, <1>4, <1>5, <1>6 DEF Link
<1> QED
    BY <1>1, <1>7, <1>8

\* The server takes a listen: the data of the location, then the answer.
LEMMA LinkListen ==
    ASSUME NEW state, NEW ls, NEW r \in Seq(Requests), r # <<>>, NEW q \in Seq(Messages),
           NEW srv, NEW n, NEW out, NEW x, NEW L \in Seq(Writes),
           Link(state, ls, r, q, srv, n, out, x, L), Head(r).type = "listen",
           NEW m \in Messages, NEW o \in Messages, m.type = "snapshot", m.loc = Head(r).loc,
           m.pos = Len(L), m.data = DataAt(L, Len(L), Head(r).loc), o.type = "listenOk"
    PROVE  /\ Link(state, ls, Tail(r), q \o <<m, o>>, srv \cup {Head(r).loc}, n, out, x, L)
           /\ \A w \in In(L), i \in Int : Arrives(q, r, x[WriteLoc(w)], L, w, i) =>
                 Arrives(q \o <<m, o>>, Tail(r), x[WriteLoc(w)], L, w, i)
<1>1. PICK ms \in Seq(Messages), a \in Seq(Messages), b \in Seq(Messages) :
          /\ ms = <<m, o>> /\ a = <<m>> /\ b = <<o>>
          /\ DOMAIN ms = 1 .. 2 /\ ms[1] = m /\ ms[2] = o /\ ms = a \o b
    <2>1. <<m, o>> \in Seq(Messages) /\ <<m>> \in Seq(Messages) /\ <<o>> \in Seq(Messages)
        OBVIOUS
    <2>2. DOMAIN <<m, o>> = 1 .. 2 /\ <<m, o>>[1] = m /\ <<m, o>>[2] = o
        OBVIOUS
    <2>3. <<m, o>> = <<m>> \o <<o>>
        <3>1. PICK ms \in Seq(Messages), a \in Seq(Messages), b \in Seq(Messages) :
                  ms = <<m, o>> /\ a = <<m>> /\ b = <<o>>
            BY <2>1, Zenon
        <3>2. /\ Len(a) = 1 /\ DOMAIN a = {1} /\ a[1] = m
              /\ Len(b) = 1 /\ DOMAIN b = {1} /\ b[1] = o /\ Len(ms) = 2
            BY <3>1
        <3>3. /\ a \o b \in Seq(Messages) /\ Len(a \o b) = Len(a) + Len(b)
              /\ (a \o b)[1] = a[1] /\ (a \o b)[Len(a) + 1] = b[1]
            <4>1. /\ a \o b \in Seq(Messages) /\ Len(a \o b) = Len(a) + Len(b)
                  /\ \A i \in DOMAIN a : (a \o b)[i] = a[i]
                  /\ \A i \in DOMAIN b : (a \o b)[Len(a) + i] = b[i]
                BY ConcatIndex, SMTT(60)
            <4> QED  BY <3>2, <4>1
        <3>4. \A i \in 1 .. 2 : i = 1 \/ i = 2
            OBVIOUS
        <3>5. Len(a \o b) = 2 /\ (a \o b)[1] = m /\ (a \o b)[2] = o /\ ms[1] = m /\ ms[2] = o
            BY <2>2, <3>1, <3>2, <3>3
        <3>6. ms = a \o b
            BY <3>2, <3>3, <3>4, <3>5, SeqEqual
        <3> QED  BY <3>1, <3>6
    <2> QED  BY <2>1, <2>2, <2>3, Zenon
<1>2. Append(q, m) \in Seq(Messages) /\ q \o ms = Append(Append(q, m), o)
    <2>1. Append(q, m) = q \o a /\ Append(q, m) \in Seq(Messages)
        <3>1. Append(q, m) = q \o <<m>> /\ Append(q, m) \in Seq(Messages)
            BY AppendIndex
        <3> QED  BY <1>1, <3>1, Zenon
    <2>2. Append(Append(q, m), o) = Append(q, m) \o b
        BY <1>1, <2>1, AppendIndex
    <2>3. (q \o a) \o b = q \o (a \o b)
        BY ConcatAssociative, SMTT(60)
    <2> QED  BY <1>1, <2>1, <2>2, <2>3
<1>3. PICK l \in Locations : l = Head(r).loc
    <2>1. Head(r) \in Requests
        BY TailIndex
    <2> QED  BY <2>1, RequestFields
<1>4. Handshake(state, Tail(r), q \o ms, srv \cup {l})
    <2>1. \A i \in DOMAIN ms : ms[i].type # "authOk"
        <3>1. \A i \in 1 .. 2 : i = 1 \/ i = 2
            OBVIOUS
        <3> QED  BY <1>1, <3>1
    <2> QED  BY <2>1, HandshakeServe DEF Link
<1>5. Listens(state, ls, Tail(r), q \o ms, srv \cup {l}, n)
    <2>1. Count(ms, "listenOk") = 1
        <3>1. Count(a, "listenOk") = 0 /\ Count(b, "listenOk") = 1
            BY <1>1, CountFew
        <3> QED  BY <1>1, <3>1, CountConcat
    <2>2. Listens(state, ls, r, q, srv, n) /\ srv \subseteq ls
        BY DEF Link, Listens
    <2>3. l \in ls
        <3>1. 1 \in DOMAIN r /\ Head(r) = r[1]
            BY TailIndex
        <3> QED  BY <1>3, <2>2, <3>1 DEF Listens
    <2>4. \A i \in DOMAIN ms, k \in Locations : Tells(ms[i], k) => k \in ls
        <3>1. \A i \in 1 .. 2 : i = 1 \/ i = 2
            OBVIOUS
        <3> QED  BY <1>1, <1>3, <2>3, <3>1 DEF Tells
    <2> QED  BY <1>3, <2>1, <2>2, <2>3, <2>4, ListensServe
<1>6. Flight(state, q \o ms, Tail(r), out)
    <2>1. ~Put(Head(r)) /\ \A i \in DOMAIN ms : ~Put(ms[i])
        <3>1. \A i \in 1 .. 2 : i = 1 \/ i = 2
            OBVIOUS
        <3> QED  BY <1>1, <3>1 DEF Put
    <2> QED  BY <2>1, FlightServe DEF Link
<1>7. ASSUME NEW k \in Locations
      PROVE  /\ x[k] \in Int /\ x[k] <= Len(L) /\ Stream(q \o ms, x[k], k, L)
             /\ k \in srv \cup {l} => Caught(q \o ms, x[k], k, L)
    <2>1. x[k] \in Int /\ x[k] <= Len(L) /\ Stream(q, x[k], k, L)
          /\ (k \in srv => Caught(q, x[k], k, L))
        BY DEF Link
    <2>2. ~Tells(o, k)
        BY DEF Tells
    <2>3. CASE k = l
        <3>1. Stream(Append(q, m), x[k], k, L) /\ Caught(Append(q, m), x[k], k, L)
            BY <1>3, <2>1, <2>3, StreamSnapshot
        <3> QED  BY <1>2, <2>1, <2>2, <3>1, StreamOther
    <2>4. CASE k # l
        <3>1. ~Tells(m, k)
            BY <1>3, <2>4 DEF Tells
        <3>2. /\ Stream(Append(q, m), x[k], k, L)
              /\ k \in srv => Caught(Append(q, m), x[k], k, L)
            BY <2>1, <3>1, StreamOther
        <3> QED  BY <1>2, <2>1, <2>2, <2>4, <3>2, StreamOther
    <2> QED  BY <2>3, <2>4
<1>8. Link(state, ls, Tail(r), q \o ms, srv \cup {l}, n, out, x, L)
    BY <1>4, <1>5, <1>6, <1>7 DEF Link
<1>9. \A w \in In(L), i \in Int : Arrives(q, r, x[WriteLoc(w)], L, w, i) =>
          Arrives(q \o <<m, o>>, Tail(r), x[WriteLoc(w)], L, w, i)
    BY ArrivesListen
<1> QED
    BY <1>1, <1>3, <1>8, <1>9

\* The server applies a write and tells a connection that listens.
LEMMA LinkUpdate ==
    ASSUME NEW state, NEW ls, NEW r, NEW q \in Seq(Messages), NEW srv, NEW n,
           NEW out, NEW x, NEW L \in Seq(Writes), NEW w \in Writes, NEW u \in Messages,
           Link(state, ls, r, q, srv, n, out, x, L), state \in States,
           u.type = "update", u.w = w, u.pos = Len(L) + 1,
           NEW ms \in Seq(Messages), ms = IF WriteLoc(w) \in srv THEN <<u>> ELSE <<>>
    PROVE  /\ Link(state, ls, r, q \o ms, srv, n, out, x, Append(L, w))
           /\ \A v \in Writes, i \in Int : Arrives(q, r, x[WriteLoc(v)], L, v, i) =>
                 Arrives(q \o ms, r, x[WriteLoc(v)], Append(L, w), v, i)
<1>1. \A i \in DOMAIN ms : ms[i] = u /\ WriteLoc(w) \in srv
    OBVIOUS
<1>2. /\ WriteLoc(w) \in srv => Append(q, u) = q \o ms
      /\ WriteLoc(w) \notin srv => q = q \o ms
    <2>1. CASE WriteLoc(w) \in srv
        BY <2>1, AppendIndex
    <2>2. CASE WriteLoc(w) \notin srv
        BY <2>2, ConcatEmptySeq
    <2> QED  BY <2>1, <2>2
<1>3. PICK k \in Locations : k = WriteLoc(w)
    BY SyncTreeAssumption DEF WriteLoc
<1>4. Handshake(state, r, q \o ms, srv)
    <2>1. \A i \in DOMAIN ms : ms[i].type # "authOk"
        BY <1>1
    <2>2. CASE WriteLoc(w) \in srv
        BY <2>1, <2>2, HandshakeMore DEF Link
    <2>3. CASE WriteLoc(w) \notin srv
        BY <1>2, <2>3 DEF Link
    <2> QED  BY <2>2, <2>3
<1>5. Listens(state, ls, r, q \o ms, srv, n)
    <2>1. Listens(state, ls, r, q, srv, n) /\ srv \subseteq ls
        BY DEF Link, Listens
    <2>2. \A i \in DOMAIN ms : ms[i].type # "listenOk"
        BY <1>1
    <2>3. \A i \in DOMAIN ms, l \in Locations : Tells(ms[i], l) => l \in ls
        BY <1>1, <2>1 DEF Tells
    <2> QED  BY <2>1, <2>2, <2>3, ListensMore
<1>6. Flight(state, q \o ms, r, out)
    <2>1. \A i \in DOMAIN ms : ~Put(ms[i])
        BY <1>1 DEF Put
    <2> QED  BY <2>1, FlightMore DEF Link
<1>7. ASSUME NEW l \in Locations
      PROVE  /\ x[l] \in Int /\ x[l] <= Len(Append(L, w))
             /\ Stream(q \o ms, x[l], l, Append(L, w))
             /\ l \in srv => Caught(q \o ms, x[l], l, Append(L, w))
    <2>1. x[l] \in Int /\ x[l] <= Len(L) /\ Stream(q, x[l], l, L)
          /\ (l \in srv => Caught(q, x[l], l, L))
        BY DEF Link
    <2>2. x[l] <= Len(Append(L, w)) /\ Append(L, w) \in Seq(Writes)
        <3>1. Len(L) \in Nat /\ Len(Append(L, w)) = Len(L) + 1 /\ Append(L, w) \in Seq(Writes)
            BY LenProperties, AppendProperties
        <3> QED  BY <2>1, <3>1
    <2>3. /\ Stream(q, x[l], l, Append(L, w))
          /\ l # k /\ l \in srv => Caught(q, x[l], l, Append(L, w))
        BY <1>3, <2>1, StreamGrows
    <2>4. CASE l = k /\ k \in srv
        BY <1>2, <1>3, <2>1, <2>2, <2>4, StreamUpdate, ZenonT(60)
    <2>5. CASE l # k /\ k \in srv
        <3>1. ~Tells(u, l)
            BY <1>3, <2>5, SMTT(60) DEF Tells
        <3> QED  BY <1>2, <1>3, <2>1, <2>2, <2>3, <2>5, <3>1, StreamOther
    <2>6. CASE k \notin srv
        BY <1>2, <1>3, <2>1, <2>2, <2>3, <2>6
    <2> QED  BY <2>4, <2>5, <2>6
<1>8. ASSUME NEW v, NEW i \in Int, Arrives(q, r, x[WriteLoc(v)], L, v, i)
      PROVE  Arrives(q \o ms, r, x[WriteLoc(v)], Append(L, w), v, i)
    <2>1. Arrives(q, r, x[WriteLoc(v)], Append(L, w), v, i)
        BY <1>8, ArrivesGrows
    <2> QED  BY <2>1, ArrivesMore
<1> QED
    BY <1>4, <1>5, <1>6, <1>7, <1>8 DEF Link

\* The server answers a put.
LEMMA LinkAnswer ==
    ASSUME NEW state, NEW ls, NEW r \in Seq(Requests), r # <<>>, NEW q \in Seq(Messages),
           NEW srv, NEW n, NEW out \in Seq(Writes), NEW x, NEW L \in Seq(Writes), NEW m \in Messages,
           Link(state, ls, r, q, srv, n, out, x, L), Put(Head(r)), Put(m), m.w = Head(r).w
    PROVE  /\ Link(state, ls, Tail(r), q \o <<m>>, srv, n, out, x, L)
           /\ \A w \in Writes, i \in Int : Arrives(q, r, x[WriteLoc(w)], L, w, i) =>
                 Arrives(q \o <<m>>, Tail(r), x[WriteLoc(w)], L, w, i)
           /\ m.w \in In(L) /\ WriteLoc(m.w) \in ls =>
                 Arrives(q \o <<m>>, Tail(r), x[WriteLoc(m.w)], L, m.w, Len(q) + 1)
           /\ state = "Connected" /\ m.w \in In(out)
           /\ \A i \in DOMAIN q : Put(q[i]) => q[i].w # m.w
<1>1. PICK ms \in Seq(Messages) :
          /\ ms = <<m>> /\ DOMAIN ms = {1} /\ ms[1] = m /\ Len(ms) = 1
          /\ Append(q, m) = q \o ms
    <2>1. /\ <<m>> \in Seq(Messages) /\ DOMAIN <<m>> = {1} /\ <<m>>[1] = m /\ Len(<<m>>) = 1
          /\ Append(q, m) = q \o <<m>>
        BY AppendIndex
    <2> QED  BY <2>1, Zenon
<1>2. 1 \in DOMAIN r /\ Head(r) = r[1] /\ Head(r) \in Requests
    BY TailIndex
<1>3. PICK w \in Writes : w = m.w /\ w = Head(r).w
    BY <1>2, RequestFields DEF Put
<1>4. state = "Connected" /\ w \in In(out) /\ \A i \in DOMAIN q : Put(q[i]) => q[i].w # w
    <2>1. state = "Connected" /\ w \in In(out)
        BY <1>2, <1>3 DEF Link, Flight
    <2>2. \A i \in DOMAIN q : Put(q[i]) => Older(out, q[i].w, w)
        BY <1>2, <1>3 DEF Link, Flight
    <2>3. ~Older(out, w, w)
        <3>1. PICK a \in DOMAIN out : out[a] = w
            BY <2>1 DEF In
        <3>2. Older(out, w, w) => a < a
            BY <3>1 DEF Older
        <3>3. a \in Nat
            BY LenProperties
        <3> QED  BY <3>2, <3>3
    <2> QED  BY <2>1, <2>2, <2>3
<1>5. Handshake(state, Tail(r), q \o ms, srv)
    <2>1. Head(r).type # "auth" /\ \A i \in DOMAIN ms : ms[i].type # "authOk"
        BY <1>1 DEF Put
    <2> QED  BY <2>1, HandshakeServe DEF Link
<1>6. Listens(state, ls, Tail(r), q \o ms, srv, n) /\ srv \subseteq ls
    <2>1. Count(ms, "listenOk") = 0 /\ Head(r).type # "listen"
        BY <1>1, CountFew DEF Put
    <2>2. Listens(state, ls, r, q, srv, n) /\ srv \subseteq ls
        BY DEF Link, Listens
    <2>3. \A i \in DOMAIN ms, l \in Locations : ~Tells(ms[i], l)
        BY <1>1 DEF Tells, Put
    <2> QED  BY <2>1, <2>2, <2>3, ListensServe
<1>7. Flight(state, q \o ms, Tail(r), out)
    BY <1>1, FlightServe DEF Link
<1>8. ASSUME NEW l \in Locations
      PROVE  /\ x[l] \in Int /\ x[l] <= Len(L) /\ Stream(q \o ms, x[l], l, L)
             /\ l \in srv => Caught(q \o ms, x[l], l, L)
    <2>1. ~Tells(m, l)
        BY DEF Tells, Put
    <2> QED  BY <1>1, <2>1, StreamOther DEF Link
<1>9. \A l : Asked(r, l) => Asked(Tail(r), l)
    <2>1. <<>> \in Seq(Requests) /\ Head(r).type # "listen"
        BY DEF Put
    <2> QED  BY <2>1, AskedQueue
<1>10. ASSUME NEW v, NEW i \in Int, Arrives(q, r, x[WriteLoc(v)], L, v, i)
       PROVE  Arrives(q \o ms, Tail(r), x[WriteLoc(v)], L, v, i)
    BY <1>9, <1>10, ArrivesMore
<1>11. ASSUME w \in In(L), WriteLoc(w) \in ls
       PROVE  Arrives(q \o ms, Tail(r), x[WriteLoc(w)], L, w, Len(q) + 1)
    <2>1. PICK l \in Locations : l = WriteLoc(w)
        BY SyncTreeAssumption DEF WriteLoc
    <2>2. CASE l \in srv
        <3>1. Caught(q, x[l], l, L)
            BY <2>2 DEF Link
        <3>2. Included(q, x[l], L, w, Len(q) + 1)
            BY <1>11, <2>1, <3>1, ArrivesServed
        <3>3. Arrives(q, r, x[l], L, w, Len(q) + 1) /\ Len(q) + 1 \in Int
            BY <3>2, LenProperties DEF Arrives
        <3> QED  BY <1>10, <2>1, <3>3
    <2>3. CASE l \notin srv
        <3>1. Asked(r, l)
            BY <1>4, <1>11, <2>1, <2>3 DEF Link, Listens
        <3> QED  BY <1>9, <2>1, <3>1 DEF Arrives, Coming
    <2> QED  BY <2>2, <2>3
<1>12. Link(state, ls, Tail(r), q \o ms, srv, n, out, x, L)
    BY <1>5, <1>6, <1>7, <1>8 DEF Link
<1> QED
    BY <1>1, <1>3, <1>4, <1>10, <1>11, <1>12

-------------------------------------------------------------------------------
\* The invariants of the system

\* The types, with the domains of the functions TypeOK only looks into.
TypeInv ==
    /\ TypeOK
    /\ DOMAIN serverCache = Clients
    /\ \A c \in Clients : DOMAIN serverCache[c] = Locations
    /\ DOMAIN events = Screens /\ DOMAIN shown = Screens
    /\ DOMAIN toServer = Clients /\ DOMAIN toClient = Clients
    /\ \A c \in Clients : IsFiniteSet(listens[c])

HandshakeInv(c) == Handshake(connectionState[c], toServer[c], toClient[c], served[c])

\* The client listens where its screens look.
ObserveInv(c) == listens[c] = {Looks[s] : s \in {t \in observing : Owner[t] = c}}

ListenInv(c) ==
    Listens(connectionState[c], listens[c], toServer[c], toClient[c], served[c],
            unackedListensCount[c])

\* Answers held back wait for a listen.
HoldInv(c) ==
    /\ c \in acking => /\ connectionState[c] = "Connected" /\ unackedListensCount[c] = 0
                       /\ putsToAck[c] # <<>>
    /\ putsToAck[c] # <<>> =>
          \/ unackedListensCount[c] > 0 \/ c \in acking
          \/ listens[c] # {} /\ connectionState[c] # "Connected"

\* The writes whose answers are held back.
Held(ps) == [i \in DOMAIN ps |-> ps[i].w]

\* A pending write is held back or outstanding, in the order of the calls.
PendingInv(c) ==
    /\ allWrites[c] = Held(putsToAck[c]) \o outstandingPuts[c]
    /\ IsInjective(allWrites[c])
    /\ \A w \in In(allWrites[c]) : w \in In(issued) /\ Writer[w] = c

FlightInv(c) ==
    Flight(connectionState[c], toClient[c], toServer[c], outstandingPuts[c])

\* The copy of the server's data is the data after cachePos writes.
CacheInv(c) ==
    \A l \in Locations :
        /\ cachePos[c][l] <= Len(log)
        /\ serverCache[c][l] = IF cachePos[c][l] = NotSynced THEN NoData
                               ELSE DataAt(log, cachePos[c][l], l)

\* The stream of data of every location; where the server knows of a listen, it
\* leads up to the present.
StreamInv(c) ==
    \A l \in Locations :
        /\ Stream(toClient[c], cachePos[c][l], l, log)
        /\ l \in served[c] => Caught(toClient[c], cachePos[c][l], l, log)

\* The server has write w and client c reads where it was made.
Matters(c, w) == w \in In(log) /\ WriteLoc(w) \in listens[c]

Comes(c, w, n) == Arrives(toClient[c], toServer[c], cachePos[c][WriteLoc(w)], log, w, n)

\* An answer comes after the data, or is held back until the data has come.
AnswerInv(c) ==
    /\ \A i \in DOMAIN toClient[c] :
          Put(toClient[c][i]) /\ Matters(c, toClient[c][i].w) => Comes(c, toClient[c][i].w, i)
    /\ \A i \in DOMAIN putsToAck[c] : Matters(c, putsToAck[c][i].w) =>
          connectionState[c] # "Connected" \/ Comes(c, putsToAck[c][i].w, 1)

\* Data that comes later has every write that is settled.
SettledInv(c) ==
    \A w \in In(issued) \cap In(log) : Writer[w] = c /\ w \notin In(allWrites[c]) =>
        \A j \in DOMAIN toClient[c] :
            Tells(toClient[c][j], WriteLoc(w)) => Has(log, toClient[c][j].pos, w)

\* What is true of one client.
OneInv(c) ==
    /\ HandshakeInv(c) /\ ObserveInv(c) /\ ListenInv(c) /\ HoldInv(c)
    /\ PendingInv(c) /\ FlightInv(c)
    /\ CacheInv(c) /\ StreamInv(c) /\ AnswerInv(c) /\ SettledInv(c)

\* The inductive invariant.
ClientInv == TypeInv /\ \A c \in Clients : OneInv(c)

-------------------------------------------------------------------------------
\* What a step of another client leaves alone

Untouched(d) ==
    /\ connectionState'[d] = connectionState[d] /\ listens'[d] = listens[d]
    /\ unackedListensCount'[d] = unackedListensCount[d]
    /\ outstandingPuts'[d] = outstandingPuts[d] /\ putsToAck'[d] = putsToAck[d]
    /\ d \in acking' <=> d \in acking
    /\ serverCache'[d] = serverCache[d] /\ cachePos'[d] = cachePos[d]
    /\ allWrites'[d] = allWrites[d]
    /\ toServer'[d] = toServer[d] /\ toClient'[d] = toClient[d] /\ served'[d] = served[d]

\* A step that does not touch client d keeps what is true of d.
LEMMA Frame ==
    ASSUME NEW d \in Clients, OneInv(d), Untouched(d), log' = log,
           \A t : t \in observing /\ Owner[t] = d <=> t \in observing' /\ Owner[t] = d,
           In(issued) \subseteq In(issued'),
           \A w \in In(issued') : w \in In(issued) \/ Writer[w] # d
    PROVE  OneInv(d)'
<1>1. HandshakeInv(d)' /\ ListenInv(d)' /\ HoldInv(d)' /\ FlightInv(d)'
    BY DEF OneInv, Untouched, HandshakeInv, ListenInv, HoldInv, FlightInv
<1>2. ObserveInv(d)'
    <2>1. {t \in observing' : Owner[t] = d} = {t \in observing : Owner[t] = d}
        OBVIOUS
    <2> QED  BY <2>1 DEF OneInv, Untouched, ObserveInv
<1>3. PendingInv(d)'
    BY DEF OneInv, Untouched, PendingInv
<1>4. CacheInv(d)' /\ StreamInv(d)'
    BY DEF OneInv, Untouched, CacheInv, StreamInv
<1>5. AnswerInv(d)'
    BY DEF OneInv, Untouched, AnswerInv, Matters, Comes
<1>6. SettledInv(d)'
    BY DEF OneInv, Untouched, SettledInv
<1> QED
    BY <1>1, <1>2, <1>3, <1>4, <1>5, <1>6 DEF OneInv

-------------------------------------------------------------------------------
\* Types

\* Writes laid over the data of a location give data of that location.
LEMMA LayerType ==
    ASSUME NEW l, NEW data \in DataIn(l), NEW ws \in Seq(Writes)
    PROVE  Layer(data, ws) \in DataIn(l)
<1>1. /\ DOMAIN Layer(data, ws) = KeysIn(l)
      /\ \A k \in KeysIn(l) : Layer(data, ws)[k] = data[k] \/ Layer(data, ws)[k] \in In(ws)
    BY LayerRange DEF DataIn
<1>2. \A k \in KeysIn(l) : Layer(data, ws)[k] \in Writes \cup {NoWrite}
    <2>1. In(ws) \subseteq Writes
        BY ElementOfSeq, LenProperties DEF In
    <2> QED  BY <1>1, <2>1 DEF DataIn
<1>3. Layer(data, ws) = [k \in KeysIn(l) |-> Layer(data, ws)[k]]
    BY <1>1 DEF Layer
<1> HIDE DEF Layer
<1> QED
    BY <1>2, <1>3 DEF DataIn

\* A prefix of the log is data of the location.
LEMMA DataAtType ==
    ASSUME NEW L \in Seq(Writes), NEW n \in 0 .. Len(L), NEW l
    PROVE  DataAt(L, n, l) \in DataIn(l)
<1>1. SubSeq(L, 1, n) \in Seq(Writes)
    BY SubSeqProperties
<1>2. NoChildren(l) \in DataIn(l)
    BY DEF NoChildren, DataIn
<1> QED
    BY <1>1, <1>2, LayerType DEF DataAt

\* Where the server's data is known, it is data.
LEMMA CacheKnown ==
    ASSUME TypeInv, NEW c \in Clients, CacheInv(c), NEW l \in Locations
    PROVE  /\ cachePos[c][l] \in Nat \cup {NotSynced} /\ cachePos[c][l] \in Int
           /\ cachePos[c][l] <= Len(log)
           /\ Complete(c, l) <=> cachePos[c][l] # NotSynced
           /\ Complete(c, l) =>
                 /\ cachePos[c][l] \in 0 .. Len(log)
                 /\ serverCache[c][l] = DataAt(log, cachePos[c][l], l)
                 /\ serverCache[c][l] \in DataIn(l)
<1>1. cachePos[c][l] \in Nat \cup {NotSynced} /\ NotSynced \in Int /\ log \in Seq(Writes)
    BY DEF TypeInv, TypeOK, NotSynced
<1>2. /\ cachePos[c][l] <= Len(log)
      /\ serverCache[c][l] = IF cachePos[c][l] = NotSynced THEN NoData
                             ELSE DataAt(log, cachePos[c][l], l)
    BY DEF CacheInv
<1>3. NoData \notin DataIn(l)
    BY SyncTreeAssumption DEF DataIn, KeysIn
<1>4. ASSUME cachePos[c][l] # NotSynced
      PROVE  cachePos[c][l] \in 0 .. Len(log) /\ DataAt(log, cachePos[c][l], l) \in DataIn(l)
    <2>1. cachePos[c][l] \in 0 .. Len(log)
        BY <1>1, <1>2, <1>4, LenProperties
    <2> QED  BY <1>1, <2>1, DataAtType
<1> QED
    BY <1>1, <1>2, <1>3, <1>4 DEF Complete

\* The snapshots that are raised have the type of their location.
LEMMA RaiseType ==
    ASSUME TypeInv, NEW c, NEW l, NEW vs \in Seq(DataIn(l)), RaiseEvents(c, l, vs)
    PROVE  /\ DOMAIN events' = Screens /\ DOMAIN shown' = Screens
           /\ \A s \in Screens : /\ events'[s] \in Seq(DataIn(Looks[s]))
                                 /\ shown'[s] \in DataIn(Looks[s]) \cup {NoData}
<1>1. DOMAIN events' = Screens /\ shown' = shown
    BY DEF RaiseEvents
<1>2. ASSUME NEW s \in Screens PROVE events'[s] \in Seq(DataIn(Looks[s]))
    <2>1. events[s] \in Seq(DataIn(Looks[s]))
        BY DEF TypeInv, TypeOK
    <2>2. events'[s] = IF s \in observing /\ Owner[s] = c /\ Looks[s] = l
                       THEN events[s] \o vs ELSE events[s]
        BY DEF RaiseEvents
    <2>3. CASE s \in observing /\ Owner[s] = c /\ Looks[s] = l
        BY <2>1, <2>2, <2>3, ConcatProperties
    <2>4. CASE ~(s \in observing /\ Owner[s] = c /\ Looks[s] = l)
        BY <2>1, <2>2, <2>4
    <2> QED  BY <2>3, <2>4
<1> QED
    BY <1>1, <1>2 DEF TypeInv, TypeOK

-------------------------------------------------------------------------------
\* Steps of one client

\* A step of client c keeps the invariant if it keeps what is true of c.
LEMMA Assemble ==
    ASSUME ClientInv, NEW c \in Clients, TypeInv', OneInv(c)', log' = log,
           In(issued) \subseteq In(issued'),
           \A w \in In(issued') : w \in In(issued) \/ Writer[w] = c,
           \A t : Owner[t] # c => (t \in observing <=> t \in observing'),
           \A d \in Clients \ {c} : Untouched(d)
    PROVE  ClientInv'
<1>1. ASSUME NEW d \in Clients, d # c PROVE OneInv(d)'
    <2>1. OneInv(d) /\ Untouched(d)
        BY <1>1 DEF ClientInv
    <2>2. \A t : t \in observing /\ Owner[t] = d <=> t \in observing' /\ Owner[t] = d
        BY <1>1
    <2>3. \A w \in In(issued') : w \in In(issued) \/ Writer[w] # d
        BY <1>1
    <2> QED  BY <2>1, <2>2, <2>3, Frame
<1>2. ASSUME NEW d \in Clients PROVE OneInv(d)'
    BY <1>1, <1>2
<1> QED
    BY <1>2 DEF ClientInv

\* The members of two sequences, one behind the other.
LEMMA InConcat ==
    ASSUME NEW S, NEW p \in Seq(S), NEW q \in Seq(S)
    PROVE  In(p \o q) = In(p) \cup In(q)
<1>1. \A x \in In(p \o q) : x \in In(p) \cup In(q)
    BY ConcatIndex DEF In
<1>2. In(p) \subseteq In(p \o q)
    BY ConcatIndex DEF In
<1>3. ASSUME NEW x \in In(q) PROVE x \in In(p \o q)
    <2>1. PICK i \in DOMAIN q : q[i] = x
        BY DEF In
    <2>2. Len(p) + i \in DOMAIN (p \o q) /\ (p \o q)[Len(p) + i] = q[i]
        BY ConcatIndex
    <2> QED  BY <2>1, <2>2 DEF In
<1> QED
    BY <1>1, <1>2, <1>3

\* The writes of the answers held back, in order.
LEMMA HeldType ==
    ASSUME NEW ps \in Seq([w : Writes, ok : BOOLEAN])
    PROVE  /\ Held(ps) \in Seq(Writes) /\ DOMAIN Held(ps) = DOMAIN ps
           /\ Len(Held(ps)) = Len(ps)
           /\ \A i \in DOMAIN ps : Held(ps)[i] = ps[i].w /\ ps[i].w \in Writes
           /\ ps # <<>> => Held(ps) # <<>> /\ Head(Held(ps)) = Head(ps).w
                           /\ Held(Tail(ps)) = Tail(Held(ps))
<1>1. PICK n \in Nat : n = Len(ps) /\ DOMAIN ps = 1 .. n
    BY LenProperties
<1>2. \A i \in 1 .. n : ps[i] \in [w : Writes, ok : BOOLEAN]
    BY <1>1, ElementOfSeq
<1>3. Held(ps) \in [1 .. n -> Writes]
    BY <1>1, <1>2 DEF Held
<1>4. Held(ps) \in Seq(Writes) /\ Len(Held(ps)) = n
    BY <1>3
<1>5. ASSUME ps # <<>>
      PROVE  /\ Held(ps) # <<>> /\ Head(Held(ps)) = Head(ps).w
             /\ Held(Tail(ps)) = Tail(Held(ps))
    <2>1. /\ 1 \in DOMAIN ps /\ Head(ps) = ps[1] /\ DOMAIN Tail(ps) = 1 .. Len(ps) - 1
          /\ \A i \in DOMAIN Tail(ps) : i + 1 \in DOMAIN ps /\ Tail(ps)[i] = ps[i + 1]
        BY <1>5, TailIndex
    <2>2. Held(ps) # <<>>
        BY <1>1, <1>4, <2>1
    <2>3. /\ Head(Held(ps)) = Held(ps)[1] /\ DOMAIN Tail(Held(ps)) = 1 .. n - 1
          /\ \A i \in DOMAIN Tail(Held(ps)) : Tail(Held(ps))[i] = Held(ps)[i + 1]
          /\ Tail(Held(ps)) \in Seq(Writes)
        BY <1>4, <2>2, TailIndex
    <2>4. Head(Held(ps)) = Head(ps).w
        BY <2>1, <2>3 DEF Held
    <2>5. \A i \in 1 .. n - 1 : Tail(Held(ps))[i] = Held(Tail(ps))[i]
        BY <1>1, <2>1, <2>3 DEF Held
    <2>6. Tail(ps) \in Seq([w : Writes, ok : BOOLEAN]) /\ Len(Tail(Held(ps))) = n - 1
        BY <1>4, <1>5, <2>2, TailIndex
    <2>7. Held(Tail(ps)) \in Seq(Writes) /\ Len(Held(Tail(ps))) = n - 1
        <3>1. \A i \in 1 .. n - 1 : Tail(ps)[i] \in [w : Writes, ok : BOOLEAN]
            BY <1>1, <2>1, <2>6, ElementOfSeq, LenProperties, ZenonT(60)
        <3>2. Held(Tail(ps)) \in [1 .. n - 1 -> Writes]
            BY <1>1, <2>1, <3>1 DEF Held
        <3>3. n - 1 \in Nat
            BY <1>1, <2>1
        <3> QED  BY <3>2, <3>3
    <2>8. Held(Tail(ps)) = Tail(Held(ps))
        BY <2>3, <2>5, <2>6, <2>7, SeqEqual
    <2> QED  BY <2>2, <2>4, <2>8
<1> QED
    BY <1>1, <1>2, <1>3, <1>4, <1>5 DEF Held

\* The pending writes are the held and the outstanding ones, and no write is both.
LEMMA PendingParts ==
    ASSUME TypeInv, NEW c \in Clients, PendingInv(c)
    PROVE  /\ outstandingPuts[c] \in Seq(Writes) /\ allWrites[c] \in Seq(Writes)
           /\ putsToAck[c] \in Seq([w : Writes, ok : BOOLEAN])
           /\ IsInjective(outstandingPuts[c])
           /\ In(allWrites[c]) = In(Held(putsToAck[c])) \cup In(outstandingPuts[c])
           /\ In(Held(putsToAck[c])) = {p.w : p \in In(putsToAck[c])}
           /\ \A i \in DOMAIN putsToAck[c] : putsToAck[c][i].w \notin In(outstandingPuts[c])
           /\ putsToAck[c] = <<>> => allWrites[c] = outstandingPuts[c]
<1>1. /\ outstandingPuts[c] \in Seq(Writes) /\ allWrites[c] \in Seq(Writes)
      /\ putsToAck[c] \in Seq([w : Writes, ok : BOOLEAN])
    BY DEF TypeInv, TypeOK
<1>2. PICK h \in Seq(Writes), out \in Seq(Writes), all \in Seq(Writes),
           ps \in Seq([w : Writes, ok : BOOLEAN]) :
          /\ h = Held(putsToAck[c]) /\ out = outstandingPuts[c] /\ all = allWrites[c]
          /\ ps = putsToAck[c] /\ all = h \o out /\ IsInjective(all)
    BY <1>1, HeldType DEF PendingInv
<1>3. DOMAIN h = DOMAIN ps /\ \A i \in DOMAIN ps : h[i] = ps[i].w
    BY <1>1, <1>2, HeldType
<1>4. PICK m \in Nat, n \in Nat : m = Len(h) /\ n = Len(out)
    BY LenProperties
<1>5. /\ DOMAIN h = 1 .. m /\ DOMAIN out = 1 .. n
      /\ \A i \in 1 .. m : i \in DOMAIN all /\ all[i] = h[i]
      /\ \A i \in 1 .. n : m + i \in DOMAIN all /\ all[m + i] = out[i]
    <2>1. all = h \o out
        BY <1>2
    <2>2. /\ DOMAIN h = 1 .. m /\ DOMAIN out = 1 .. n
          /\ \A i \in DOMAIN h : i \in DOMAIN (h \o out) /\ (h \o out)[i] = h[i]
          /\ \A i \in DOMAIN out :
                m + i \in DOMAIN (h \o out) /\ (h \o out)[m + i] = out[i]
        BY <1>4, ConcatIndex
    <2> QED  BY <2>1, <2>2
<1>6. IsInjective(out)
    <2> SUFFICES ASSUME NEW i \in 1 .. n, NEW j \in 1 .. n, out[i] = out[j] PROVE i = j
        BY <1>5 DEF IsInjective
    <2>1. m + i = m + j
        <3>1. all[m + i] = all[m + j] /\ m + i \in DOMAIN all /\ m + j \in DOMAIN all
            BY <1>5
        <3> QED  BY <1>2, <3>1 DEF IsInjective
    <2> QED  BY <2>1
<1>7. In(all) = In(h) \cup In(out)
    BY <1>2, InConcat
<1>8. In(h) = {p.w : p \in In(ps)}
    BY <1>3 DEF In
<1>9. \A i \in DOMAIN ps : ps[i].w \notin In(out)
    <2> SUFFICES ASSUME NEW i \in 1 .. m, NEW j \in 1 .. n, h[i] = out[j] PROVE FALSE
        BY <1>3, <1>5 DEF In
    <2>1. i = m + j
        BY <1>2, <1>5 DEF IsInjective
    <2> QED  BY <2>1
<1>10. ps = <<>> => all = out
    <2> SUFFICES ASSUME ps = <<>> PROVE all = out
        OBVIOUS
    <2>1. h = <<>>
        BY <1>2 DEF Held
    <2> QED  BY <1>2, <2>1, ConcatEmptySeq
<1> QED
    BY <1>1, <1>2, <1>6, <1>7, <1>8, <1>9, <1>10

\* What the client sends.
LEMMA SendTypes ==
    /\ \A l \in Locations : SendListen(l) \in Requests /\ SendListen(l).type = "listen"
                            /\ SendListen(l).loc = l
    /\ \A w \in Writes : SendPut(w) \in Requests /\ SendPut(w).type = "put"
                         /\ SendPut(w).w = w
    /\ [type |-> "auth"] \in Requests
BY DEF SendListen, SendPut, Requests

\* The queues of a client.
LEMMA Queues ==
    ASSUME TypeInv, NEW c \in Clients
    PROVE  /\ toServer[c] \in Seq(Requests) /\ toClient[c] \in Seq(Messages)
           /\ unackedListensCount[c] \in Nat /\ log \in Seq(Writes)
           /\ listens[c] \subseteq Locations /\ connectionState[c] \in States
           /\ Count(toServer[c], "listen") \in Nat /\ Count(toClient[c], "listenOk") \in Nat
<1>1. /\ toServer[c] \in Seq(Requests) /\ toClient[c] \in Seq(Messages)
      /\ unackedListensCount[c] \in Nat /\ log \in Seq(Writes)
      /\ listens[c] \subseteq Locations /\ connectionState[c] \in States
    BY DEF TypeInv, TypeOK
<1> QED
    BY <1>1, CountConcat

\* A screen registers.
LEMMA ObserveStep ==
    ASSUME ClientInv, NEW s \in Screens, Observe(s)
    PROVE  ClientInv'
<1>1. PICK c \in Clients, l \in Locations : c = Owner[s] /\ l = Looks[s]
    BY SyncTreeAssumption
<1>2. TypeInv /\ OneInv(c)
    BY DEF ClientInv
<1>3. /\ c \notin acking /\ observing' = observing \cup {s} /\ s \in Screens
      /\ listens' = [listens EXCEPT ![c] = @ \cup {l}]
      /\ events' = [events EXCEPT ![s] =
              IF Complete(c, l) THEN Append(@, View(c, l)) ELSE @]
      /\ \/ /\ connectionState[c] \in {"Authenticating", "Connected"}
            /\ toServer' = [toServer EXCEPT ![c] = @ \o <<SendListen(l)>>]
            /\ unackedListensCount' = [unackedListensCount EXCEPT ![c] = @ + 1]
         \/ /\ l \in listens[c] \/ connectionState[c] \notin {"Authenticating", "Connected"}
            /\ toServer' = toServer /\ unackedListensCount' = unackedListensCount
      /\ UNCHANGED <<connectionState, outstandingPuts, putsToAck, acking, serverCache,
                     allWrites, issued, cachePos, shown, toClient, served,
                     log, faults, scene>>
    BY <1>1 DEF Observe, QueueIsFree, Send, Connected
<1>4. PICK q \in Seq(Messages), r \in Seq(Requests) : q = toClient[c] /\ r = toServer[c]
    BY <1>2, Queues
<1>5. /\ SendListen(l) \in Requests /\ SendListen(l).type = "listen" /\ SendListen(l).loc = l
      /\ <<SendListen(l)>> \in Seq(Requests)
    BY SendTypes
<1>6. listens'[c] = listens[c] \cup {l}
    BY <1>2, <1>3 DEF TypeInv, TypeOK
<1>7. \/ /\ connectionState[c] \in {"Authenticating", "Connected"}
         /\ toServer'[c] = r \o <<SendListen(l)>>
         /\ unackedListensCount'[c] = unackedListensCount[c] + 1
      \/ /\ l \in listens[c] \/ connectionState[c] \notin {"Authenticating", "Connected"}
         /\ toServer'[c] = r /\ unackedListensCount'[c] = unackedListensCount[c]
    BY <1>2, <1>3, <1>4 DEF TypeInv, TypeOK
<1>8. TypeInv'
    <2>1. listens' \in [Clients -> SUBSET Locations] /\ \A d \in Clients : IsFiniteSet(listens'[d])
        <3>1. listens' \in [Clients -> SUBSET Locations]
            BY <1>2, <1>3 DEF TypeInv, TypeOK
        <3>2. IsFiniteSet(listens[c] \cup {l})
            BY <1>2, FS_AddElement DEF TypeInv
        <3>3. \A d \in Clients : d # c => listens'[d] = listens[d]
            BY <1>2, <1>3 DEF TypeInv, TypeOK
        <3>4. \A d \in Clients : IsFiniteSet(listens[d])
            BY <1>2 DEF TypeInv
        <3> QED  BY <1>6, <3>1, <3>2, <3>3, <3>4
    <2>2. DOMAIN events' = Screens /\ \A t \in Screens : events'[t] \in Seq(DataIn(Looks[t]))
        <3>1. DOMAIN events' = Screens /\ \A t \in Screens : t # s => events'[t] = events[t]
            BY <1>2, <1>3 DEF TypeInv, TypeOK
        <3>2. \A t \in Screens : events[t] \in Seq(DataIn(Looks[t]))
            BY <1>2 DEF TypeInv, TypeOK
        <3>3. events'[s] = IF Complete(c, l) THEN Append(events[s], View(c, l)) ELSE events[s]
            BY <1>2, <1>3 DEF TypeInv
        <3>4. Complete(c, l) => View(c, l) \in DataIn(l)
            <4>1. CacheInv(c) /\ allWrites[c] \in Seq(Writes)
                BY <1>2 DEF OneInv, TypeInv, TypeOK
            <4> QED  BY <1>2, <4>1, CacheKnown, LayerType DEF View
        <3>5. events'[s] \in Seq(DataIn(Looks[s]))
            <4>1. events[s] \in Seq(DataIn(l)) /\ Looks[s] = l
                BY <1>1, <3>2
            <4>2. \A v \in DataIn(l) : Append(events[s], v) \in Seq(DataIn(l))
                BY <4>1, AppendProperties
            <4> QED  BY <3>3, <3>4, <4>1, <4>2
        <3> QED  BY <3>1, <3>2, <3>5
    <2>3. /\ DOMAIN toServer' = Clients /\ \A d \in Clients : toServer'[d] \in Seq(Requests)
        <3>1. DOMAIN toServer' = Clients /\ \A d \in Clients : d # c => toServer'[d] = toServer[d]
            BY <1>2, <1>3 DEF TypeInv, TypeOK
        <3>2. toServer'[c] \in Seq(Requests)
            BY <1>5, <1>7, ConcatProperties
        <3>3. \A d \in Clients : toServer[d] \in Seq(Requests)
            BY <1>2 DEF TypeInv, TypeOK
        <3> QED  BY <3>1, <3>2, <3>3
    <2>4. unackedListensCount' \in [Clients -> Nat] /\ observing' \subseteq Screens
        <3>1. unackedListensCount \in [Clients -> Nat] /\ observing \subseteq Screens
            BY <1>2 DEF TypeInv, TypeOK
        <3>2. unackedListensCount[c] + 1 \in Nat
            BY <3>1
        <3>3. CASE unackedListensCount' = [unackedListensCount EXCEPT ![c] = @ + 1]
            BY <1>3, <3>1, <3>2, <3>3
        <3>4. CASE unackedListensCount' = unackedListensCount
            BY <1>3, <3>1, <3>4
        <3> QED  BY <1>3, <3>3, <3>4
    <2> QED  BY <1>2, <1>3, <2>1, <2>2, <2>3, <2>4 DEF TypeInv, TypeOK
<1>9. HandshakeInv(c)' /\ FlightInv(c)'
    <2>1. Handshake(connectionState[c], r, q, served[c])
        BY <1>2, <1>4 DEF OneInv, HandshakeInv
    <2>2. Flight(connectionState[c], q, r, outstandingPuts[c])
        BY <1>2, <1>4 DEF OneInv, FlightInv
    <2>3. /\ DOMAIN <<SendListen(l)>> = {1} /\ <<SendListen(l)>>[1] = SendListen(l)
        OBVIOUS
    <2>4. CASE /\ connectionState[c] \in {"Authenticating", "Connected"}
               /\ toServer'[c] = r \o <<SendListen(l)>>
        <3>1. Handshake(connectionState[c], r \o <<SendListen(l)>>, q, served[c])
            BY <1>5, <2>1, <2>3, <2>4, HandshakeSend
        <3>2. Flight(connectionState[c], q, r \o <<SendListen(l)>>, outstandingPuts[c])
            BY <1>5, <2>2, <2>3, FlightSend DEF Put
        <3> QED  BY <1>3, <1>4, <2>4, <3>1, <3>2 DEF HandshakeInv, FlightInv
    <2>5. CASE toServer'[c] = r
        BY <1>3, <1>4, <2>1, <2>2, <2>5 DEF HandshakeInv, FlightInv
    <2> QED  BY <1>7, <2>4, <2>5
<1>10. ObserveInv(c)'
    <2>1. {t \in observing' : Owner[t] = c} = {t \in observing : Owner[t] = c} \cup {s}
        BY <1>1, <1>3
    <2>2. listens[c] = {Looks[t] : t \in {t \in observing : Owner[t] = c}}
        BY <1>2 DEF OneInv, ObserveInv
    <2> QED  BY <1>1, <1>6, <2>1, <2>2 DEF ObserveInv
<1>11. ListenInv(c)'
    <2>1. Listens(connectionState[c], listens[c], r, q, served[c], unackedListensCount[c])
        BY <1>2, <1>4 DEF OneInv, ListenInv
    <2>2. Count(q, "listenOk") \in Nat
        BY CountConcat
    <2>3. CASE /\ toServer'[c] = r \o <<SendListen(l)>>
               /\ unackedListensCount'[c] = unackedListensCount[c] + 1
        <3>1. Listens(connectionState[c], listens[c] \cup {l}, r \o <<SendListen(l)>>, q,
                      served[c], unackedListensCount[c] + 1)
            BY <1>5, <2>1, <2>2, ListensObserve
        <3> QED  BY <1>3, <1>4, <1>6, <2>3, <3>1 DEF ListenInv
    <2>4. CASE /\ l \in listens[c] \/ connectionState[c] \notin {"Authenticating", "Connected"}
               /\ toServer'[c] = r /\ unackedListensCount'[c] = unackedListensCount[c]
        <3>1. Listens(connectionState[c], listens[c] \cup {l}, r, q, served[c],
                      unackedListensCount[c])
            <4>1. l \in listens[c] \/ connectionState[c] # "Connected"
                BY <2>4
            <4> QED  BY <1>5, <2>1, <2>2, <4>1, ListensObserve
        <3> QED  BY <1>3, <1>4, <1>6, <2>4, <3>1 DEF ListenInv
    <2> QED  BY <1>7, <2>3, <2>4
<1>12. HoldInv(c)'
    <2>1. unackedListensCount[c] > 0 => unackedListensCount'[c] > 0
        <3>1. unackedListensCount[c] \in Nat
            BY <1>2, Queues
        <3> QED  BY <1>7, <3>1
    <2> QED  BY <1>2, <1>3, <1>6, <2>1 DEF OneInv, HoldInv
<1>13. PendingInv(c)' /\ CacheInv(c)' /\ StreamInv(c)' /\ SettledInv(c)'
    BY <1>2, <1>3 DEF OneInv, PendingInv, CacheInv, StreamInv, SettledInv
<1>14. AnswerInv(c)'
    <2>1. \A w : Matters(c, w)' => Matters(c, w) \/ WriteLoc(w) = l
        BY <1>3, <1>6 DEF Matters
    <2>2. CASE /\ connectionState[c] \in {"Authenticating", "Connected"}
               /\ toServer'[c] = r \o <<SendListen(l)>>
        <3>1. \A k : Asked(r, k) \/ k = l => Asked(toServer'[c], k)
            <4>1. Asked(<<SendListen(l)>>, l)
                <5>1. 1 \in DOMAIN <<SendListen(l)>> /\ <<SendListen(l)>>[1] = SendListen(l)
                    OBVIOUS
                <5> QED  BY <1>5, <5>1 DEF Asked
            <4>2. \A k : Asked(r, k) \/ Asked(<<SendListen(l)>>, k) =>
                      Asked(r \o <<SendListen(l)>>, k)
                BY <1>5, AskedQueue
            <4> QED  BY <2>2, <4>1, <4>2
        <3>2. \A w, n : (Matters(c, w) => Comes(c, w, n)) =>
                  (Matters(c, w)' => Comes(c, w, n)')
            BY <1>3, <1>4, <2>1, <3>1 DEF Comes, Arrives, Coming
        <3> QED  BY <1>2, <1>3, <3>2 DEF OneInv, AnswerInv
    <2>3. CASE l \in listens[c] /\ toServer'[c] = r
        <3>1. \A w, n : (Matters(c, w)' <=> Matters(c, w)) /\ (Comes(c, w, n)' <=> Comes(c, w, n))
            BY <1>3, <1>4, <1>6, <2>3 DEF Matters, Comes
        <3> QED  BY <1>2, <1>3, <3>1 DEF OneInv, AnswerInv
    <2>4. CASE connectionState[c] \notin {"Authenticating", "Connected"}
        <3>1. connectionState[c] \in {"Disconnected", "Connecting"}
            BY <1>2, <2>4, Queues DEF States
        <3>2. toClient[c] = <<>>
            BY <1>2, <3>1 DEF OneInv, HandshakeInv, Handshake
        <3> QED  BY <1>3, <2>4, <3>2 DEF AnswerInv
    <2> QED  BY <1>7, <2>2, <2>3, <2>4
<1>15. OneInv(c)'
    BY <1>9, <1>10, <1>11, <1>12, <1>13, <1>14 DEF OneInv
<1>16. \A d \in Clients \ {c} : Untouched(d)
    BY <1>2, <1>3 DEF TypeInv, TypeOK, Untouched
<1>17. \A t : Owner[t] # c => (t \in observing <=> t \in observing')
    BY <1>1, <1>3
<1> QED
    BY <1>3, <1>8, <1>15, <1>16, <1>17, Assemble

\* The main queue hands a screen a snapshot.
LEMMA FireEventStep ==
    ASSUME ClientInv, NEW s \in Screens, FireEvent(s)
    PROVE  ClientInv'
<1>1. TypeInv
    BY DEF ClientInv
<1>2. /\ events[s] # <<>> /\ UNCHANGED <<connectionVars, syncVars, networkVars>>
      /\ shown' = [shown EXCEPT ![s] = Head(events[s])]
      /\ events' = [events EXCEPT ![s] = Tail(@)]
    BY DEF FireEvent
<1>3. Head(events[s]) \in DataIn(Looks[s]) /\ Tail(events[s]) \in Seq(DataIn(Looks[s]))
    <2>1. events[s] \in Seq(DataIn(Looks[s]))
        BY <1>1 DEF TypeInv, TypeOK
    <2> QED  BY <1>2, <2>1, TailIndex
<1>4. TypeInv'
    <2>1. /\ DOMAIN events' = Screens /\ DOMAIN shown' = Screens
          /\ \A t \in Screens : /\ events'[t] \in Seq(DataIn(Looks[t]))
                                /\ shown'[t] \in DataIn(Looks[t]) \cup {NoData}
        BY <1>1, <1>2, <1>3 DEF TypeInv, TypeOK
    <2> QED  BY <1>1, <1>2, <2>1 DEF TypeInv, TypeOK, connectionVars, syncVars, networkVars
<1>5. ASSUME NEW d \in Clients PROVE OneInv(d)'
    <2>1. Untouched(d) /\ log' = log /\ issued' = issued /\ observing' = observing
        BY <1>2 DEF Untouched, connectionVars, syncVars, networkVars
    <2> QED  BY <2>1, Frame DEF ClientInv
<1> QED
    BY <1>4, <1>5 DEF ClientInv

\* The events that are raised are snapshots of the location.
LEMMA ChangedType ==
    ASSUME NEW l, NEW old, NEW new \in DataIn(l)
    PROVE  Changed(old, new) \in Seq(DataIn(l)) /\ <<new>> \in Seq(DataIn(l))
           /\ <<>> \in Seq(DataIn(l))
BY DEF Changed

\* The app writes a child.
LEMMA SetValueStep ==
    ASSUME ClientInv, NEW w \in Writes, SetValue(w)
    PROVE  ClientInv'
<1>1. PICK c \in Clients, l \in Locations : c = Writer[w] /\ l = WriteLoc(w)
    BY SyncTreeAssumption DEF WriteLoc
<1>2. TypeInv /\ OneInv(c)
    BY DEF ClientInv
<1> DEFINE vs == IF Complete(c, l)
                 THEN Changed(View(c, l), Layer(serverCache[c][l], Append(allWrites[c], w)))
                 ELSE <<>>
<1>3. /\ c \notin acking /\ w \notin In(issued) /\ issued' = Append(issued, w)
      /\ allWrites' = [allWrites EXCEPT ![c] = Append(@, w)]
      /\ RaiseEvents(c, l, vs)
      /\ outstandingPuts' = [outstandingPuts EXCEPT ![c] = Append(@, w)]
      /\ \/ /\ connectionState[c] = "Connected"
            /\ toServer' = [toServer EXCEPT ![c] = @ \o <<SendPut(w)>>]
         \/ connectionState[c] # "Connected" /\ toServer' = toServer
      /\ UNCHANGED <<connectionState, listens, unackedListensCount, putsToAck, acking,
                     serverCache, observing, cachePos, toClient, served, log,
                     faults, scene>>
    BY <1>1 DEF SetValue, QueueIsFree, Send, CanSendWrites
<1>4. PICK q \in Seq(Messages), r \in Seq(Requests) : q = toClient[c] /\ r = toServer[c]
    BY <1>2, Queues
<1>5. /\ SendPut(w) \in Requests /\ SendPut(w).type = "put" /\ SendPut(w).w = w
      /\ <<SendPut(w)>> \in Seq(Requests)
      /\ DOMAIN <<SendPut(w)>> = {1} /\ <<SendPut(w)>>[1] = SendPut(w)
    BY SendTypes
<1>6. \/ connectionState[c] = "Connected" /\ toServer'[c] = r \o <<SendPut(w)>>
      \/ connectionState[c] # "Connected" /\ toServer'[c] = r
    BY <1>2, <1>3, <1>4 DEF TypeInv, TypeOK
<1>7. PICK out \in Seq(Writes), all \in Seq(Writes), h \in Seq(Writes) :
          /\ out = outstandingPuts[c] /\ all = allWrites[c] /\ h = Held(putsToAck[c])
          /\ all = h \o out /\ IsInjective(all)
          /\ \A v \in In(all) : v \in In(issued) /\ Writer[v] = c
    BY <1>2, PendingParts, HeldType, ZenonT(60) DEF OneInv, PendingInv
<1>8. outstandingPuts'[c] = Append(out, w) /\ allWrites'[c] = Append(all, w)
    BY <1>2, <1>3, <1>7 DEF TypeInv, TypeOK
<1>9. w \notin In(all) /\ w \notin In(out)
    BY <1>3, <1>7, InConcat
<1>10. In(issued') = In(issued) \cup {w} /\ In(Append(all, w)) = In(all) \cup {w}
    <2>1. issued \in Seq(Writes)
        BY <1>2 DEF TypeInv, TypeOK
    <2> QED  BY <1>3, <2>1, InAppend
<1>11. TypeInv'
    <2>1. vs \in Seq(DataIn(l))
        <3>1. CacheInv(c) /\ Append(allWrites[c], w) \in Seq(Writes)
            BY <1>2, <1>7 DEF OneInv
        <3>2. Complete(c, l) => Layer(serverCache[c][l], Append(allWrites[c], w)) \in DataIn(l)
            BY <1>2, <3>1, CacheKnown, LayerType
        <3> QED  BY <3>2, ChangedType
    <2> HIDE DEF vs
    <2>2. /\ DOMAIN events' = Screens /\ DOMAIN shown' = Screens
          /\ \A s \in Screens : /\ events'[s] \in Seq(DataIn(Looks[s]))
                                /\ shown'[s] \in DataIn(Looks[s]) \cup {NoData}
        BY <1>2, <1>3, <2>1, RaiseType
    <2>3. /\ DOMAIN toServer' = Clients /\ \A d \in Clients : toServer'[d] \in Seq(Requests)
        <3>1. DOMAIN toServer' = Clients /\ \A d \in Clients : d # c => toServer'[d] = toServer[d]
            BY <1>2, <1>3 DEF TypeInv, TypeOK
        <3>2. toServer'[c] \in Seq(Requests)
            BY <1>5, <1>6, ConcatProperties
        <3>3. \A d \in Clients : toServer[d] \in Seq(Requests)
            BY <1>2 DEF TypeInv, TypeOK
        <3> QED  BY <3>1, <3>2, <3>3
    <2>4. /\ outstandingPuts' \in [Clients -> Seq(Writes)] /\ issued' \in Seq(Writes)
          /\ allWrites' \in [Clients -> Seq(Writes)]
        BY <1>2, <1>3, SMTT(60) DEF TypeInv, TypeOK
    <2> QED  BY <1>2, <1>3, <2>2, <2>3, <2>4 DEF TypeInv, TypeOK
<1>12. HandshakeInv(c)' /\ ListenInv(c)'
    <2>1. Handshake(connectionState[c], r, q, served[c])
        BY <1>2, <1>4 DEF OneInv, HandshakeInv
    <2>2. Listens(connectionState[c], listens[c], r, q, served[c], unackedListensCount[c])
        BY <1>2, <1>4 DEF OneInv, ListenInv
    <2>3. CASE connectionState[c] = "Connected" /\ toServer'[c] = r \o <<SendPut(w)>>
        <3>1. Handshake(connectionState[c], r \o <<SendPut(w)>>, q, served[c])
            BY <1>5, <2>1, <2>3, HandshakeSend
        <3>2. Listens(connectionState[c], listens[c], r \o <<SendPut(w)>>, q, served[c],
                      unackedListensCount[c])
            BY <1>5, <2>2, ListensSend
        <3> QED  BY <1>3, <1>4, <2>3, <3>1, <3>2 DEF HandshakeInv, ListenInv
    <2>4. CASE toServer'[c] = r
        BY <1>3, <1>4, <2>1, <2>2, <2>4 DEF HandshakeInv, ListenInv
    <2> QED  BY <1>6, <2>3, <2>4
<1>13. FlightInv(c)'
    <2>1. Flight(connectionState[c], q, r, out)
        BY <1>2, <1>4, <1>7 DEF OneInv, FlightInv
    <2>2. r \o <<SendPut(w)>> = Append(r, SendPut(w))
        BY <1>5, AppendIndex
    <2>3. /\ connectionState[c] = "Connected" =>
                Flight(connectionState[c], q, Append(r, SendPut(w)), Append(out, w))
          /\ connectionState[c] # "Connected" =>
                Flight(connectionState[c], q, r, Append(out, w))
        BY <1>5, <1>9, <2>1, FlightSet
    <2> QED  BY <1>3, <1>4, <1>6, <1>8, <2>2, <2>3 DEF FlightInv
<1>14. PendingInv(c)'
    <2>1. Append(all, w) = h \o Append(out, w)
        <3>1. PICK one \in Seq(Writes) : one = <<w>>
            <4>1. <<w>> \in Seq(Writes)
                BY AppendIndex
            <4> QED  BY <4>1, Zenon
        <3>2. Append(all, w) = all \o one /\ Append(out, w) = out \o one
            BY <3>1, AppendIndex
        <3>3. (h \o out) \o one = h \o (out \o one)
            BY ConcatAssociative, SMTT(60)
        <3> QED  BY <1>7, <3>2, <3>3
    <2>2. IsInjective(Append(all, w))
        <3>1. PICK n \in Nat : n = Len(all) /\ DOMAIN all = 1 .. n
            BY LenProperties
        <3>2. /\ DOMAIN Append(all, w) = 1 .. n + 1 /\ Append(all, w)[n + 1] = w
              /\ \A i \in 1 .. n : Append(all, w)[i] = all[i] /\ all[i] # w
            BY <1>9, <3>1, AppendProperties, SMTT(60) DEF In
        <3> SUFFICES ASSUME NEW i \in 1 .. n + 1, NEW j \in 1 .. n + 1,
                            Append(all, w)[i] = Append(all, w)[j]
                     PROVE  i = j
            BY <3>2 DEF IsInjective
        <3>3. (i \in 1 .. n \/ i = n + 1) /\ (j \in 1 .. n \/ j = n + 1)
            OBVIOUS
        <3> QED  BY <1>7, <3>1, <3>2, <3>3 DEF IsInjective
    <2>3. \A v \in In(Append(all, w)) : v \in In(issued') /\ Writer[v] = c
        BY <1>1, <1>7, <1>10
    <2> QED  BY <1>3, <1>7, <1>8, <2>1, <2>2, <2>3 DEF PendingInv
<1>15. ObserveInv(c)' /\ HoldInv(c)' /\ CacheInv(c)' /\ StreamInv(c)'
    BY <1>2, <1>3 DEF OneInv, ObserveInv, HoldInv, CacheInv, StreamInv
<1>16. AnswerInv(c)'
    <2>1. \A k : Asked(r, k) => Asked(toServer'[c], k)
        <3>1. \A k : Asked(r, k) => Asked(r \o <<SendPut(w)>>, k)
            BY <1>5, AskedQueue
        <3> QED  BY <1>6, <3>1
    <2>2. \A v, n : (Matters(c, v)' <=> Matters(c, v)) /\ (Comes(c, v, n) => Comes(c, v, n)')
        BY <1>3, <1>4, <2>1 DEF Matters, Comes, Arrives, Coming
    <2> QED  BY <1>2, <1>3, <2>2 DEF OneInv, AnswerInv
<1>17. SettledInv(c)'
    BY <1>2, <1>3, <1>7, <1>8, <1>10 DEF OneInv, SettledInv
<1>18. OneInv(c)'
    BY <1>12, <1>13, <1>14, <1>15, <1>16, <1>17 DEF OneInv
<1>19. \A d \in Clients \ {c} : Untouched(d)
    BY <1>2, <1>3 DEF TypeInv, TypeOK, Untouched
<1>20. /\ In(issued) \subseteq In(issued')
       /\ \A v \in In(issued') : v \in In(issued) \/ Writer[v] = c
    BY <1>1, <1>10
<1> QED
    BY <1>3, <1>11, <1>18, <1>19, <1>20, Assemble

-------------------------------------------------------------------------------
\* The connection is made

\* A connection is opened.
LEMMA ReconnectStep ==
    ASSUME ClientInv, NEW c \in Clients, TryScheduleReconnect(c)
    PROVE  ClientInv'
<1>1. TypeInv /\ OneInv(c)
    BY DEF ClientInv
<1>2. /\ c \notin acking /\ connectionState[c] = "Disconnected"
      /\ connectionState' = [connectionState EXCEPT ![c] = "Connecting"]
      /\ UNCHANGED <<listens, unackedListensCount, outstandingPuts, putsToAck, acking,
                     syncVars, screenVars, networkVars>>
    BY DEF TryScheduleReconnect, QueueIsFree
<1>3. connectionState'[c] = "Connecting"
    BY <1>1, <1>2 DEF TypeInv, TypeOK
<1>4. TypeInv'
    <2>1. connectionState' \in [Clients -> States]
        BY <1>1, <1>2 DEF TypeInv, TypeOK, States
    <2> QED  BY <1>1, <1>2, <2>1 DEF TypeInv, TypeOK, syncVars, screenVars, networkVars
<1>5. OneInv(c)'
    <2>1. toServer[c] = <<>> /\ toClient[c] = <<>> /\ served[c] = {}
        BY <1>1, <1>2 DEF OneInv, HandshakeInv, Handshake
    <2>2. HandshakeInv(c)'
        BY <1>2, <1>3, <2>1 DEF HandshakeInv, Handshake, networkVars
    <2>3. ListenInv(c)'
        BY <1>1, <1>2, <1>3 DEF OneInv, ListenInv, Listens, networkVars, syncVars
    <2>4. HoldInv(c)' /\ ObserveInv(c)' /\ PendingInv(c)' /\ CacheInv(c)' /\ StreamInv(c)'
        BY <1>1, <1>2, <1>3 DEF OneInv, HoldInv, ObserveInv, PendingInv, CacheInv, StreamInv,
                                networkVars, syncVars
    <2>5. FlightInv(c)'
        BY <1>2, <1>3, <2>1, FlightIdle DEF FlightInv, networkVars
    <2>6. AnswerInv(c)' /\ SettledInv(c)'
        BY <1>1, <1>2, <1>3, <2>1 DEF OneInv, AnswerInv, SettledInv, networkVars, syncVars
    <2> QED  BY <2>2, <2>3, <2>4, <2>5, <2>6 DEF OneInv
<1>6. \A d \in Clients \ {c} : Untouched(d)
    BY <1>1, <1>2 DEF TypeInv, TypeOK, Untouched, syncVars, networkVars
<1> QED
    BY <1>2, <1>4, <1>5, <1>6, Assemble DEF syncVars, networkVars

\* What restoreState sends: a listen for every location, then the puts.
LEMMA RestoreParts ==
    ASSUME TypeInv, NEW c \in Clients, RestoreState(c)
    PROVE  \E rs, ps \in Seq(Requests) :
               /\ toServer' = [toServer EXCEPT ![c] = @ \o (rs \o ps)]
               /\ unackedListensCount' = [unackedListensCount EXCEPT ![c] = @ + Len(rs)]
               /\ \A i \in DOMAIN rs : rs[i].type = "listen" /\ rs[i].loc \in listens[c]
               /\ \A l \in listens[c] : Asked(rs, l)
               /\ DOMAIN ps = DOMAIN outstandingPuts[c]
               /\ \A i \in DOMAIN ps : ps[i] = SendPut(outstandingPuts[c][i])
<1>1. listens[c] \subseteq Locations /\ outstandingPuts[c] \in Seq(Writes)
    BY DEF TypeInv, TypeOK
<1>2. PICK order \in Orders(listens[c]) : Resend(c, order, outstandingPuts[c])
    BY DEF RestoreState
<1>3. PICK n \in Nat :
          order \in [1 .. n -> listens[c]] /\ \A x \in listens[c] : \E i \in 1 .. n : order[i] = x
    <2>1. Cardinality(listens[c]) \in Nat
        BY FS_CardinalityType DEF TypeInv
    <2> QED  BY <2>1 DEF Orders
<1>4. PICK m \in Nat, out \in Seq(Writes) : out = outstandingPuts[c] /\ m = Len(out) /\ DOMAIN out = 1 .. m
                            /\ \A i \in 1 .. m : out[i] \in Writes
    BY <1>1, LenProperties, ElementOfSeq
<1> DEFINE rs == [i \in DOMAIN order |-> SendListen(order[i])]
           ps == [i \in DOMAIN out |-> SendPut(out[i])]
<1>5. rs \in Seq(Requests) /\ Len(rs) = n /\ Len(order) = n /\ DOMAIN rs = 1 .. n
    <2>1. rs \in [1 .. n -> Requests]
        BY <1>1, <1>3, SendTypes
    <2>2. order \in Seq(listens[c]) /\ Len(order) = n
        BY <1>3
    <2> HIDE DEF rs
    <2> QED  BY <2>1, <2>2
<1>6. ps \in Seq(Requests)
    <2>1. ps \in [1 .. m -> Requests]
        BY <1>4, SendTypes
    <2> HIDE DEF ps
    <2> QED  BY <2>1
<1>7. /\ toServer' = [toServer EXCEPT ![c] = @ \o (rs \o ps)]
      /\ unackedListensCount' = [unackedListensCount EXCEPT ![c] = @ + Len(rs)]
    <2>1. /\ toServer' = [toServer EXCEPT ![c] = @ \o (rs \o ps)]
          /\ unackedListensCount' = [unackedListensCount EXCEPT ![c] = @ + Len(order)]
        BY <1>2, <1>4 DEF Resend, Send
    <2> QED  BY <1>5, <2>1
<1>8. \A i \in DOMAIN rs : rs[i].type = "listen" /\ rs[i].loc \in listens[c]
    BY <1>3 DEF SendListen
<1>9. \A l \in listens[c] : Asked(rs, l)
    <2> TAKE l \in listens[c]
    <2>1. PICK i \in 1 .. n : order[i] = l
        BY <1>3
    <2>2. i \in DOMAIN rs /\ rs[i].type = "listen" /\ rs[i].loc = l
        BY <1>3, <2>1 DEF SendListen
    <2> HIDE DEF rs
    <2> QED  BY <2>2 DEF Asked
<1>10. DOMAIN ps = DOMAIN out /\ \A i \in DOMAIN ps : ps[i] = SendPut(out[i])
    OBVIOUS
<1> HIDE DEF rs, ps
<1> QED
    BY <1>4, <1>5, <1>6, <1>7, <1>8, <1>9, <1>10

-------------------------------------------------------------------------------
\* A message is taken

\* Client c takes the next message, and its copy goes to where the message says.
Taken(c) ==
    /\ toClient[c] # <<>> /\ toClient'[c] = Tail(toClient[c])
    /\ log' = log /\ served'[c] = served[c]
    /\ \A l \in Locations : cachePos'[c][l] =
          IF Tells(Head(toClient[c]), l) THEN Head(toClient[c]).pos ELSE cachePos[c][l]

\* The stream of a location is kept when the client takes a message.
LEMMA TakenStream ==
    ASSUME TypeInv, NEW c \in Clients, StreamInv(c), Taken(c)
    PROVE  /\ StreamInv(c)'
           /\ toServer'[c] = toServer[c] => \A w \in Writes :
                 /\ \A n \in Nat : Comes(c, w, n + 1) => Comes(c, w, n)'
                 /\ Comes(c, w, 1) => Comes(c, w, 1)'
<1>1. PICK q \in Seq(Messages), L \in Seq(Writes) : q = toClient[c] /\ L = log /\ q # <<>>
    BY Queues DEF Taken
<1>2. toClient'[c] = Tail(q) /\ log' = L /\ served'[c] = served[c]
    BY <1>1 DEF Taken
<1>3. ASSUME NEW l \in Locations
      PROVE  /\ cachePos[c][l] \in Int /\ Stream(q, cachePos[c][l], l, L)
             /\ l \in served[c] => Caught(q, cachePos[c][l], l, L)
             /\ cachePos'[c][l] = IF Tells(Head(q), l) THEN Head(q).pos ELSE cachePos[c][l]
    <2>1. cachePos[c][l] \in Int
        BY DEF TypeInv, TypeOK, NotSynced
    <2> QED  BY <1>1, <2>1 DEF StreamInv, Taken
<1>4. StreamInv(c)'
    <2>1. ASSUME NEW l \in Locations
          PROVE  /\ Stream(Tail(q), cachePos'[c][l], l, L)
                 /\ l \in served[c] => Caught(Tail(q), cachePos'[c][l], l, L)
        BY <1>1, <1>3, StreamTail
    <2> QED  BY <1>2, <2>1 DEF StreamInv
<1>5. ASSUME toServer'[c] = toServer[c], NEW w \in Writes
      PROVE  /\ \A n \in Nat : Comes(c, w, n + 1) => Comes(c, w, n)'
             /\ Comes(c, w, 1) => Comes(c, w, 1)'
    <2>1. PICK l \in Locations : l = WriteLoc(w)
        BY SyncTreeAssumption DEF WriteLoc
    <2>2. PICK x \in Int, y \in {cachePos'[c][l]}, r \in {toServer[c]} :
              /\ x = cachePos[c][l] /\ y = cachePos'[c][l] /\ r = toServer[c]
              /\ Stream(q, x, l, L) /\ y = IF Tells(Head(q), l) THEN Head(q).pos ELSE x
        BY <1>3
    <2>3. /\ \A n \in Nat : Arrives(q, r, x, L, w, n + 1) => Arrives(Tail(q), r, y, L, w, n)
          /\ Arrives(q, r, x, L, w, 1) => Arrives(Tail(q), r, y, L, w, 1)
        BY <1>1, <2>1, <2>2, ArrivesTail
    <2> QED  BY <1>1, <1>2, <1>5, <2>1, <2>2, <2>3 DEF Comes
<1> QED
    BY <1>4, <1>5

\* What is settled is in all of the data that is still to come.
LEMMA TakenSettled ==
    ASSUME TypeInv, NEW c \in Clients, SettledInv(c), Taken(c), issued' = issued,
           \A w \in In(issued) \cap In(log) :
              Writer[w] = c /\ w \notin In(allWrites'[c]) /\ w \in In(allWrites[c]) =>
                 \A j \in DOMAIN Tail(toClient[c]) :
                    Tells(Tail(toClient[c])[j], WriteLoc(w)) => Has(log, Tail(toClient[c])[j].pos, w)
    PROVE  SettledInv(c)'
<1>1. PICK q \in Seq(Messages), L \in {log} : q = toClient[c] /\ L = log /\ q # <<>>
    BY Queues DEF Taken
<1>2. toClient'[c] = Tail(q) /\ log' = L
    BY <1>1 DEF Taken
<1>3. \A i \in DOMAIN Tail(q) : i + 1 \in DOMAIN q /\ Tail(q)[i] = q[i + 1]
    BY <1>1, TailIndex
<1>4. ASSUME NEW w \in In(issued) \cap In(L), Writer[w] = c, w \notin In(allWrites'[c]),
             NEW j \in DOMAIN Tail(q), Tells(Tail(q)[j], WriteLoc(w))
      PROVE  Has(L, Tail(q)[j].pos, w)
    <2>1. CASE w \in In(allWrites[c])
        BY <1>1, <1>4, <2>1
    <2>2. CASE w \notin In(allWrites[c])
        BY <1>1, <1>3, <1>4, <2>2 DEF SettledInv
    <2> QED  BY <2>1, <2>2
<1> QED
    BY <1>1, <1>2, <1>4 DEF SettledInv

\* An answer that is still on its way is as far behind the data as it was.
LEMMA TakenAnswers ==
    ASSUME TypeInv, NEW c \in Clients, StreamInv(c), AnswerInv(c), Taken(c),
           toServer'[c] = toServer[c], listens'[c] = listens[c]
    PROVE  \A w \in Writes : Matters(c, w)' =>
              /\ \A i \in DOMAIN toClient'[c] :
                    Put(toClient'[c][i]) /\ toClient'[c][i].w = w => Comes(c, w, i)'
              /\ \A i \in DOMAIN putsToAck[c] : putsToAck[c][i].w = w =>
                    connectionState[c] # "Connected" \/ Comes(c, w, 1)'
              /\ Put(Head(toClient[c])) /\ Head(toClient[c]).w = w => Comes(c, w, 1)'
<1>1. PICK q \in Seq(Messages) : q = toClient[c] /\ q # <<>> /\ toClient'[c] = Tail(q)
    BY Queues DEF Taken
<1>2. /\ \A i \in DOMAIN Tail(q) : i \in Nat /\ i + 1 \in DOMAIN q /\ Tail(q)[i] = q[i + 1]
      /\ 1 \in DOMAIN q /\ Head(q) = q[1]
    BY <1>1, TailIndex
<1> TAKE w \in Writes
<1>3. HAVE Matters(c, w)'
<1>4. Matters(c, w)
    BY <1>3 DEF Matters, Taken
<1>5. ASSUME NEW i \in DOMAIN Tail(q), Put(Tail(q)[i]), Tail(q)[i].w = w
      PROVE  Comes(c, w, i)'
    <2>1. Comes(c, w, i + 1)
        BY <1>1, <1>2, <1>4, <1>5 DEF AnswerInv
    <2> QED  BY <1>2, <2>1, TakenStream
<1>6. ASSUME NEW i \in DOMAIN putsToAck[c], putsToAck[c][i].w = w,
             connectionState[c] = "Connected"
      PROVE  Comes(c, w, 1)'
    <2>1. Comes(c, w, 1)
        BY <1>4, <1>6 DEF AnswerInv
    <2> QED  BY <2>1, TakenStream
<1>7. ASSUME Put(Head(q)), Head(q).w = w PROVE Comes(c, w, 1)'
    <2>1. Comes(c, w, 1)
        BY <1>1, <1>2, <1>4, <1>7 DEF AnswerInv
    <2> QED  BY <2>1, TakenStream
<1> QED
    BY <1>1, <1>5, <1>6, <1>7

-------------------------------------------------------------------------------
\* The connection is restored

\* The state is sent again over a connection with nothing of it under way.
LEMMA Restored ==
    ASSUME ClientInv, NEW c \in Clients, c \notin acking, RestoreState(c),
           connectionState[c] # "Connected",
           connectionState' = [connectionState EXCEPT ![c] = "Connected"],
           NEW q \in Seq(Messages), DOMAIN toClient' = Clients, toClient'[c] = q,
           \A d \in Clients \ {c} : toClient'[d] = toClient[d],
           \A rs \in Seq(Requests) : (\A i \in DOMAIN rs : rs[i].type # "auth") =>
              Handshake("Connected", toServer[c] \o rs, q, served[c]),
           Listens(connectionState[c], listens[c], toServer[c], q, served[c],
                   unackedListensCount[c]),
           \A i \in DOMAIN q : ~Put(q[i]),
           StreamInv(c)', SettledInv(c)',
           UNCHANGED <<listens, outstandingPuts, putsToAck, acking, syncVars, screenVars,
                       served, log, faults, scene>>
    PROVE  ClientInv'
<1>1. TypeInv /\ OneInv(c)
    BY DEF ClientInv
<1>2. PICK rs \in Seq(Requests), ps \in Seq(Requests) :
          /\ toServer' = [toServer EXCEPT ![c] = @ \o (rs \o ps)]
          /\ unackedListensCount' = [unackedListensCount EXCEPT ![c] = @ + Len(rs)]
          /\ \A i \in DOMAIN rs : rs[i].type = "listen" /\ rs[i].loc \in listens[c]
          /\ \A l \in listens[c] : Asked(rs, l)
          /\ DOMAIN ps = DOMAIN outstandingPuts[c]
          /\ \A i \in DOMAIN ps : ps[i] = SendPut(outstandingPuts[c][i])
    BY <1>1, RestoreParts
<1>3. PICK r \in Seq(Requests), out \in Seq(Writes) :
          r = toServer[c] /\ out = outstandingPuts[c] /\ IsInjective(out)
    BY <1>1, Queues, PendingParts DEF OneInv
<1>4. /\ toServer'[c] = r \o (rs \o ps) /\ toClient'[c] = q
      /\ unackedListensCount'[c] = unackedListensCount[c] + Len(rs)
      /\ connectionState'[c] = "Connected" /\ Len(rs) \in Nat /\ rs \o ps \in Seq(Requests)
      /\ r \o (rs \o ps) \in Seq(Requests)
    <2>1. /\ toServer'[c] = r \o (rs \o ps) /\ toClient'[c] = q
          /\ unackedListensCount'[c] = unackedListensCount[c] + Len(rs)
          /\ connectionState'[c] = "Connected"
        BY <1>1, <1>2, <1>3 DEF TypeInv, TypeOK
    <2>2. Len(rs) \in Nat /\ rs \o ps \in Seq(Requests)
        BY ConcatProperties, LenProperties
    <2>3. r \o (rs \o ps) \in Seq(Requests)
        BY <2>2, ConcatProperties
    <2> QED  BY <2>1, <2>2, <2>3
<1>5. \A i \in DOMAIN ps : ps[i].type = "put"
    <2>1. \A w : SendPut(w).type = "put"
        BY DEF SendPut
    <2> QED  BY <1>2, <2>1
<1>6. TypeInv'
    <2>1. connectionState' \in [Clients -> States]
        BY <1>1 DEF TypeInv, TypeOK, States
    <2>2. /\ DOMAIN toServer' = Clients /\ \A d \in Clients : toServer'[d] \in Seq(Requests)
        <3>1. DOMAIN toServer' = Clients /\ \A d \in Clients : d # c => toServer'[d] = toServer[d]
            BY <1>1, <1>2 DEF TypeInv, TypeOK
        <3>2. \A d \in Clients : toServer[d] \in Seq(Requests)
            BY <1>1 DEF TypeInv, TypeOK
        <3> QED  BY <1>4, <3>1, <3>2
    <2>3. /\ DOMAIN toClient' = Clients /\ \A d \in Clients : toClient'[d] \in Seq(Messages)
        BY <1>1 DEF TypeInv, TypeOK
    <2>4. unackedListensCount' \in [Clients -> Nat]
        <3>1. unackedListensCount \in [Clients -> Nat] /\ unackedListensCount[c] + Len(rs) \in Nat
            BY <1>1, <1>4, SMTT(60) DEF TypeInv, TypeOK
        <3> QED  BY <1>2, <3>1
    <2> QED  BY <1>1, <2>1, <2>2, <2>3, <2>4 DEF TypeInv, TypeOK, syncVars, screenVars
<1>7. HandshakeInv(c)'
    <2>1. \A i \in DOMAIN (rs \o ps) : (rs \o ps)[i].type # "auth"
        BY <1>2, <1>5, ConcatIndex
    <2>2. Handshake("Connected", r \o (rs \o ps), q, served[c])
        BY <1>3, <1>4, <2>1
    <2> QED  BY <1>4, <2>2 DEF HandshakeInv
<1>8. ListenInv(c)' /\ \A l \in listens[c] : Asked(toServer'[c], l)
    <2>1. Count(q, "listenOk") \in Nat
        BY CountConcat
    <2>2. Listens(connectionState[c], listens[c], r, q, served[c], unackedListensCount[c])
        BY <1>3
    <2>3. /\ Listens("Connected", listens[c], r \o (rs \o ps), q, served[c],
                     unackedListensCount[c] + Len(rs))
          /\ \A l \in listens[c] : Asked(r \o (rs \o ps), l)
        BY <1>2, <1>5, <2>1, <2>2, ListensRestore
    <2> QED  BY <1>4, <2>3 DEF ListenInv
<1>9. FlightInv(c)'
    <2>1. \A i \in DOMAIN r : ~Put(r[i])
        BY <1>1, <1>3, FlightIdle DEF OneInv, FlightInv
    <2>2. \A i \in DOMAIN rs : ~Put(rs[i])
        BY <1>2 DEF Put
    <2>3. Flight("Connected", q, r \o (rs \o ps), out)
        BY <1>2, <1>3, <2>1, <2>2, FlightRestore
    <2> QED  BY <1>3, <1>4, <2>3 DEF FlightInv
<1>10. HoldInv(c)'
    <2>1. ASSUME putsToAck[c] # <<>> PROVE unackedListensCount[c] + Len(rs) > 0
        <3>1. unackedListensCount[c] > 0 \/ listens[c] # {}
            BY <1>1, <2>1 DEF OneInv, HoldInv
        <3>2. listens[c] # {} => Len(rs) # 0
            <4>1. listens[c] # {} => \E i \in DOMAIN rs : TRUE
                BY <1>2 DEF Asked
            <4>2. DOMAIN rs = 1 .. Len(rs)
                BY LenProperties
            <4> QED  BY <4>1, <4>2
        <3>3. unackedListensCount[c] \in Nat
            BY <1>1, Queues
        <3> QED  BY <1>4, <3>1, <3>2, <3>3
    <2> QED  BY <1>4, <2>1 DEF HoldInv
<1>11. ObserveInv(c)' /\ PendingInv(c)' /\ CacheInv(c)'
    BY <1>1 DEF OneInv, ObserveInv, PendingInv, CacheInv, syncVars
<1>12. AnswerInv(c)'
    <2>1. \A w : Matters(c, w)' => Comes(c, w, 1)'
        BY <1>8 DEF Matters, Comes, Arrives, Coming
    <2> QED  BY <1>4, <2>1 DEF AnswerInv
<1>13. OneInv(c)'
    BY <1>7, <1>8, <1>9, <1>10, <1>11, <1>12 DEF OneInv
<1>14. \A d \in Clients \ {c} : Untouched(d)
    BY <1>1, <1>2 DEF TypeInv, TypeOK, Untouched, syncVars
<1> QED
    BY <1>6, <1>13, <1>14, Assemble DEF syncVars

\* The connection is open; the token is sent, or there is none.
LEMMA OnReadyStep ==
    ASSUME ClientInv, NEW c \in Clients, OnReady(c)
    PROVE  ClientInv'
<1>1. TypeInv /\ OneInv(c)
    BY DEF ClientInv
<1>2. /\ c \notin acking /\ connectionState[c] = "Connecting"
      /\ UNCHANGED <<listens, outstandingPuts, putsToAck, acking, syncVars, screenVars,
                     toClient, served, log, faults, scene>>
    BY DEF OnReady, QueueIsFree
<1>3. toServer[c] = <<>> /\ toClient[c] = <<>> /\ served[c] = {}
    BY <1>1, <1>2 DEF OneInv, HandshakeInv, Handshake
<1>4. <<>> \in Seq(Messages) /\ <<>> \in Seq(Requests)
    OBVIOUS
<1>5. CASE /\ connectionState' = [connectionState EXCEPT ![c] = "Connected"]
           /\ RestoreState(c)
    <2>1. /\ DOMAIN toClient' = Clients /\ toClient'[c] = <<>>
          /\ \A d \in Clients \ {c} : toClient'[d] = toClient[d]
        BY <1>1, <1>2, <1>3 DEF TypeInv
    <2>2. ASSUME NEW rs \in Seq(Requests), \A i \in DOMAIN rs : rs[i].type # "auth"
          PROVE  Handshake("Connected", toServer[c] \o rs, <<>>, served[c])
        <3>1. toServer[c] \o rs = rs
            BY <1>3, ConcatEmptySeq
        <3> QED  BY <2>2, <3>1 DEF Handshake
    <2>3. Listens(connectionState[c], listens[c], toServer[c], <<>>, served[c],
                  unackedListensCount[c])
        BY <1>1, <1>3 DEF OneInv, ListenInv
    <2>4. StreamInv(c)' /\ SettledInv(c)'
        BY <1>1, <1>2 DEF OneInv, StreamInv, SettledInv, syncVars
    <2>5. PICK q \in Seq(Messages) : q = <<>>
        BY <1>4
    <2>6. \A i \in DOMAIN q : ~Put(q[i])
        BY <2>5
    <2>7. connectionState[c] # "Connected"
        BY <1>2
    <2> QED  BY <1>2, <1>5, <2>1, <2>2, <2>3, <2>4, <2>5, <2>6, <2>7, Restored
<1>6. CASE /\ connectionState' = [connectionState EXCEPT ![c] = "Authenticating"]
           /\ Send(c, <<[type |-> "auth"]>>)
           /\ UNCHANGED unackedListensCount
    <2>1. PICK a \in Seq(Requests) :
              a = <<[type |-> "auth"]>> /\ DOMAIN a = {1} /\ a[1].type = "auth" /\ a # <<>>
        <3>1. PICK e \in Requests : e = [type |-> "auth"] /\ e.type = "auth"
            BY SendTypes
        <3>2. <<e>> \in Seq(Requests) /\ DOMAIN <<e>> = {1} /\ <<e>>[1] = e /\ <<e>> # <<>>
            OBVIOUS
        <3> QED  BY <3>1, <3>2
    <2>2. connectionState'[c] = "Authenticating" /\ toServer'[c] = a
        <3>1. toServer'[c] = <<>> \o a
            BY <1>1, <1>3, <1>6, <2>1 DEF TypeInv, Send
        <3>2. <<>> \o a = a
            BY ConcatEmptySeq
        <3> QED  BY <1>1, <1>6, <3>1, <3>2 DEF TypeInv, TypeOK
    <2>3. TypeInv'
        <3>1. connectionState' \in [Clients -> States]
            BY <1>1, <1>6 DEF TypeInv, TypeOK, States
        <3>2. /\ DOMAIN toServer' = Clients
              /\ \A d \in Clients : d # c => toServer'[d] = toServer[d]
              /\ \A d \in Clients : toServer[d] \in Seq(Requests)
            BY <1>1, <1>6 DEF TypeInv, TypeOK, Send
        <3>3. \A d \in Clients : toServer'[d] \in Seq(Requests)
            BY <2>2, <3>2
        <3> QED  BY <1>1, <1>2, <1>6, <3>1, <3>2, <3>3 DEF TypeInv, TypeOK, syncVars, screenVars
    <2>4. HandshakeInv(c)'
        BY <1>2, <1>3, <2>1, <2>2 DEF HandshakeInv, Handshake
    <2>5. ListenInv(c)'
        <3>1. Listens(connectionState[c], listens[c], <<>>, toClient[c], served[c],
                      unackedListensCount[c])
            BY <1>1, <1>3 DEF OneInv, ListenInv
        <3>2. Listens(connectionState[c], listens[c], <<>> \o a, toClient[c], served[c],
                      unackedListensCount[c])
            BY <1>4, <2>1, <3>1, ListensSend
        <3>3. <<>> \o a = a
            BY ConcatEmptySeq
        <3> QED  BY <1>2, <1>6, <2>2, <3>2, <3>3 DEF ListenInv, Listens
    <2>6. FlightInv(c)'
        <3>1. \A i \in DOMAIN a : ~Put(a[i])
            BY <2>1 DEF Put
        <3> QED  BY <1>2, <1>3, <2>2, <3>1, FlightIdle DEF FlightInv
    <2>7. /\ ObserveInv(c)' /\ HoldInv(c)' /\ PendingInv(c)' /\ CacheInv(c)' /\ StreamInv(c)'
          /\ SettledInv(c)'
        BY <1>1, <1>2, <1>6, <2>2 DEF OneInv, ObserveInv, HoldInv, PendingInv, CacheInv, StreamInv,
                                 SettledInv, syncVars
    <2>8. AnswerInv(c)'
        BY <1>2, <1>3, <2>2 DEF AnswerInv
    <2>9. OneInv(c)'
        BY <2>4, <2>5, <2>6, <2>7, <2>8 DEF OneInv
    <2>10. \A d \in Clients \ {c} : Untouched(d)
        BY <1>1, <1>2, <1>6 DEF TypeInv, TypeOK, Untouched, Send, syncVars
    <2> QED  BY <1>2, <2>3, <2>9, <2>10, Assemble DEF syncVars
<1> QED
    BY <1>5, <1>6 DEF OnReady

\* The token was accepted.
LEMMA OnAuthResponseStep ==
    ASSUME ClientInv, NEW c \in Clients, OnAuthResponse(c)
    PROVE  ClientInv'
<1>1. TypeInv /\ OneInv(c)
    BY DEF ClientInv
<1>2. /\ c \notin acking /\ toClient[c] # <<>> /\ Head(toClient[c]).type = "authOk"
      /\ toClient' = [toClient EXCEPT ![c] = Tail(toClient[c])]
      /\ connectionState' = [connectionState EXCEPT ![c] = "Connected"]
      /\ RestoreState(c)
      /\ UNCHANGED <<listens, outstandingPuts, putsToAck, acking, syncVars, screenVars,
                     served, log, faults, scene>>
    BY DEF OnAuthResponse, Receive, QueueIsFree
<1>3. PICK q \in Seq(Messages), r \in Seq(Requests) :
          q = toClient[c] /\ r = toServer[c] /\ q # <<>> /\ Head(q).type = "authOk"
    BY <1>1, <1>2, Queues
<1>4. /\ Tail(q) \in Seq(Messages) /\ DOMAIN toClient' = Clients /\ toClient'[c] = Tail(q)
      /\ \A d \in Clients \ {c} : toClient'[d] = toClient[d]
    BY <1>1, <1>2, <1>3, TailIndex DEF TypeInv
<1>5. Handshake(connectionState[c], r, q, served[c])
    BY <1>1, <1>3 DEF OneInv, HandshakeInv
<1>6. \A rs \in Seq(Requests) : (\A i \in DOMAIN rs : rs[i].type # "auth") =>
          Handshake("Connected", toServer[c] \o rs, Tail(q), served[c])
    BY <1>3, <1>5, HandshakeAccepted
<1>7. connectionState[c] = "Authenticating"
    <2>1. \A i \in DOMAIN <<>> : <<>>[i].type # "auth"
        OBVIOUS
    <2>2. <<>> \in Seq(Requests)
        OBVIOUS
    <2> QED  BY <1>3, <1>5, <2>1, <2>2, HandshakeAccepted
<1>8. Listens(connectionState[c], listens[c], toServer[c], Tail(q), served[c],
              unackedListensCount[c])
    <2>1. Listens(connectionState[c], listens[c], r, q, served[c], unackedListensCount[c])
        BY <1>1, <1>3 DEF OneInv, ListenInv
    <2> QED  BY <1>3, <2>1, ListensTail
<1>9. \A i \in DOMAIN Tail(q) : ~Put(Tail(q)[i])
    <2>1. \A i \in DOMAIN q : ~Put(q[i])
        BY <1>1, <1>3, <1>7, FlightIdle DEF OneInv, FlightInv
    <2> QED  BY <1>3, <2>1, TailIndex
<1>10. Taken(c)
    BY <1>1, <1>2, <1>3 DEF Taken, Tells, TypeInv, syncVars
<1>11. StreamInv(c)'
    BY <1>1, <1>10, TakenStream DEF OneInv
<1>12. SettledInv(c)'
    BY <1>1, <1>2, <1>10, TakenSettled DEF OneInv, syncVars
<1> QED
    BY <1>2, <1>4, <1>6, <1>7, <1>8, <1>9, <1>11, <1>12, Restored

\* The answer of a listen.
LEMMA OnListenResponseStep ==
    ASSUME ClientInv, NEW c \in Clients, OnListenResponse(c)
    PROVE  ClientInv'
<1>1. TypeInv /\ OneInv(c)
    BY DEF ClientInv
<1>2. /\ c \notin acking /\ toClient[c] # <<>> /\ Head(toClient[c]).type = "listenOk"
      /\ toClient' = [toClient EXCEPT ![c] = Tail(toClient[c])]
      /\ unackedListensCount' = [unackedListensCount EXCEPT ![c] = @ - 1]
      /\ acking' = IF unackedListensCount[c] = 1 /\ putsToAck[c] # <<>>
                   THEN acking \cup {c} ELSE acking
      /\ UNCHANGED <<connectionState, listens, outstandingPuts, putsToAck, syncVars,
                     screenVars, toServer, served, log, faults, scene>>
    BY DEF OnListenResponse, Receive, QueueIsFree
<1>3. PICK q \in Seq(Messages), r \in Seq(Requests), n \in Nat :
          /\ q = toClient[c] /\ r = toServer[c] /\ q # <<>> /\ Head(q).type = "listenOk"
          /\ n = unackedListensCount[c]
    BY <1>1, <1>2, Queues
<1>4. /\ Tail(q) \in Seq(Messages) /\ toClient'[c] = Tail(q)
      /\ unackedListensCount'[c] = n - 1
    BY <1>1, <1>2, <1>3, TailIndex DEF TypeInv, TypeOK
<1>5. /\ n >= 1 /\ n - 1 \in Nat
      /\ Listens(connectionState[c], listens[c], r, Tail(q), served[c], n - 1)
    <2>1. Listens(connectionState[c], listens[c], r, q, served[c], n)
        BY <1>1, <1>3 DEF OneInv, ListenInv
    <2> QED  BY <1>3, <2>1, ListensTail
<1>6. /\ connectionState[c] = "Connected"
      /\ Handshake(connectionState[c], r, Tail(q), served[c])
    <2>1. Handshake(connectionState[c], r, q, served[c])
        BY <1>1, <1>3 DEF OneInv, HandshakeInv
    <2>2. connectionState[c] \in States
        BY <1>1, Queues
    <2> QED  BY <1>3, <2>1, <2>2, HandshakeTail DEF States
<1>7. TypeInv'
    <2>1. /\ DOMAIN toClient' = Clients /\ \A d \in Clients : toClient'[d] \in Seq(Messages)
        BY <1>1, <1>2, <1>3, <1>4 DEF TypeInv, TypeOK
    <2>2. unackedListensCount' \in [Clients -> Nat] /\ acking' \subseteq Clients
        BY <1>1, <1>2, <1>3, <1>5 DEF TypeInv, TypeOK
    <2> QED  BY <1>1, <1>2, <2>1, <2>2 DEF TypeInv, TypeOK, syncVars, screenVars
<1>8. HandshakeInv(c)' /\ ListenInv(c)'
    BY <1>2, <1>3, <1>4, <1>5, <1>6 DEF HandshakeInv, ListenInv
<1>9. FlightInv(c)'
    <2>1. Flight(connectionState[c], q, r, outstandingPuts[c]) /\ ~Put(Head(q))
        BY <1>1, <1>3 DEF OneInv, FlightInv, Put
    <2>2. Flight(connectionState[c], Tail(q), r, outstandingPuts[c])
        BY <1>3, <2>1, FlightTail
    <2> QED  BY <1>2, <1>3, <1>4, <2>2 DEF FlightInv
<1>10. HoldInv(c)'
    <2>1. c \in acking' => n = 1 /\ putsToAck[c] # <<>>
        BY <1>2, <1>3
    <2>2. putsToAck[c] # <<>> => n - 1 > 0 \/ c \in acking'
        <3>1. n = 1 \/ n - 1 > 0
            BY <1>5
        <3> QED  BY <1>2, <1>3, <3>1
    <2>3. n = 1 => n - 1 = 0
        OBVIOUS
    <2> QED  BY <1>2, <1>4, <1>6, <2>1, <2>2, <2>3 DEF HoldInv
<1>11. ObserveInv(c)' /\ PendingInv(c)' /\ CacheInv(c)'
    BY <1>1, <1>2 DEF OneInv, ObserveInv, PendingInv, CacheInv, syncVars
<1>12. Taken(c)
    BY <1>1, <1>2, <1>3, <1>4 DEF Taken, Tells, syncVars
<1>13. StreamInv(c)' /\ SettledInv(c)'
    BY <1>1, <1>2, <1>12, TakenStream, TakenSettled DEF OneInv, syncVars
<1>14. AnswerInv(c)'
    <2>1. \A w \in Writes : Matters(c, w)' =>
              /\ \A i \in DOMAIN Tail(q) : Put(Tail(q)[i]) /\ Tail(q)[i].w = w => Comes(c, w, i)'
              /\ \A i \in DOMAIN putsToAck[c] : putsToAck[c][i].w = w =>
                    connectionState[c] # "Connected" \/ Comes(c, w, 1)'
        BY <1>1, <1>2, <1>4, <1>12, TakenAnswers DEF OneInv
    <2>2. /\ \A i \in DOMAIN Tail(q) : Put(Tail(q)[i]) => Tail(q)[i].w \in Writes
          /\ \A i \in DOMAIN putsToAck[c] : putsToAck[c][i].w \in Writes
        <3>1. \A i \in DOMAIN Tail(q) : Tail(q)[i] \in Messages
            BY <1>4, ElementOfSeq, LenProperties
        <3>2. putsToAck[c] \in Seq([w : Writes, ok : BOOLEAN])
            BY <1>1 DEF TypeInv, TypeOK
        <3> QED  BY <3>1, <3>2, MessageFields, HeldType DEF Put
    <2> QED  BY <1>2, <1>4, <2>1, <2>2 DEF AnswerInv
<1>15. OneInv(c)'
    BY <1>8, <1>9, <1>10, <1>11, <1>13, <1>14 DEF OneInv
<1>16. \A d \in Clients \ {c} : Untouched(d)
    BY <1>1, <1>2 DEF TypeInv, TypeOK, Untouched, syncVars
<1> QED
    BY <1>2, <1>7, <1>15, <1>16, Assemble DEF syncVars

-------------------------------------------------------------------------------
\* A message with data

\* A message after the handshake that does not answer a listen is taken.
LEMMA ReceiveParts ==
    ASSUME TypeInv, NEW c \in Clients, OneInv(c), NEW type, Receive(c, type),
           type \notin {"authOk", "listenOk"}
    PROVE  /\ c \notin acking /\ toClient[c] # <<>> /\ Head(toClient[c]).type = type
           /\ toClient[c] \in Seq(Messages) /\ Head(toClient[c]) \in Messages
           /\ toClient'[c] = Tail(toClient[c]) /\ DOMAIN toClient' = Clients
           /\ \A d \in Clients : toClient'[d] \in Seq(Messages)
           /\ \A d \in Clients \ {c} : toClient'[d] = toClient[d]
           /\ connectionState[c] = "Connected"
           /\ Handshake(connectionState[c], toServer[c], Tail(toClient[c]), served[c])
           /\ Listens(connectionState[c], listens[c], toServer[c], Tail(toClient[c]),
                      served[c], unackedListensCount[c])
<1>1. /\ c \notin acking /\ toClient[c] # <<>> /\ Head(toClient[c]).type = type
      /\ toClient' = [toClient EXCEPT ![c] = Tail(toClient[c])]
    BY DEF Receive, QueueIsFree
<1>2. PICK q \in Seq(Messages), r \in Seq(Requests) :
          q = toClient[c] /\ r = toServer[c] /\ q # <<>> /\ Head(q).type = type
    BY <1>1, Queues
<1>3. Tail(q) \in Seq(Messages) /\ Head(q) \in Messages
    BY <1>2, TailIndex
<1>4. /\ toClient'[c] = Tail(q) /\ DOMAIN toClient' = Clients
      /\ \A d \in Clients \ {c} : toClient'[d] = toClient[d]
    BY <1>1, <1>2 DEF TypeInv
<1>5. \A d \in Clients : toClient'[d] \in Seq(Messages)
    <2>1. \A d \in Clients : toClient[d] \in Seq(Messages)
        BY DEF TypeInv, TypeOK
    <2> QED  BY <1>3, <1>4, <2>1
<1>6. /\ connectionState[c] = "Connected"
      /\ Handshake(connectionState[c], r, Tail(q), served[c])
    <2>1. Handshake(connectionState[c], r, q, served[c]) /\ connectionState[c] \in States
        BY <1>2, Queues DEF OneInv, HandshakeInv
    <2> QED  BY <1>2, <2>1, HandshakeTail DEF States
<1>7. Listens(connectionState[c], listens[c], r, Tail(q), served[c], unackedListensCount[c])
    <2>1. Listens(connectionState[c], listens[c], r, q, served[c], unackedListensCount[c])
        BY <1>2 DEF OneInv, ListenInv
    <2> QED  BY <1>2, <2>1, ListensTail
<1> QED
    BY <1>1, <1>2, <1>3, <1>4, <1>5, <1>6, <1>7

\* The answers that are left are where they were.
LEMMA AnswersStay ==
    ASSUME TypeInv, NEW c \in Clients, OneInv(c), Taken(c),
           toServer'[c] = toServer[c], listens'[c] = listens[c],
           putsToAck'[c] = putsToAck[c], connectionState'[c] = connectionState[c]
    PROVE  AnswerInv(c)'
<1>1. PICK q \in Seq(Messages) : q = toClient[c] /\ q # <<>> /\ toClient'[c] = Tail(q)
    BY Queues DEF Taken
<1>2. \A w \in Writes : Matters(c, w)' =>
          /\ \A i \in DOMAIN Tail(q) : Put(Tail(q)[i]) /\ Tail(q)[i].w = w => Comes(c, w, i)'
          /\ \A i \in DOMAIN putsToAck[c] : putsToAck[c][i].w = w =>
                connectionState[c] # "Connected" \/ Comes(c, w, 1)'
    BY <1>1, TakenAnswers DEF OneInv
<1>3. /\ \A i \in DOMAIN Tail(q) : Put(Tail(q)[i]) => Tail(q)[i].w \in Writes
      /\ \A i \in DOMAIN putsToAck[c] : putsToAck[c][i].w \in Writes
    <2>1. \A i \in DOMAIN Tail(q) : Tail(q)[i] \in Messages
        <3>1. Tail(q) \in Seq(Messages)
            BY <1>1, TailIndex
        <3> QED  BY <3>1, ElementOfSeq, LenProperties
    <2>2. putsToAck[c] \in Seq([w : Writes, ok : BOOLEAN])
        BY DEF TypeInv, TypeOK
    <2> QED  BY <2>1, <2>2, MessageFields, HeldType DEF Put
<1> QED
    BY <1>1, <1>2, <1>3 DEF AnswerInv

\* The client's copy of a location is replaced by a later one.
LEMMA ApplyStep ==
    ASSUME ClientInv, NEW c \in Clients, NEW type, Receive(c, type),
           type \in {"snapshot", "update"}, NEW l \in Locations,
           \A k \in Locations : Tells(Head(toClient[c]), k) <=> k = l,
           NEW data, NEW pos, pos = Head(toClient[c]).pos, pos \in 0 .. Len(log),
           data = DataAt(log, pos, l), ApplyServerData(c, l, data, pos)
    PROVE  ClientInv'
<1>1. TypeInv /\ OneInv(c)
    BY DEF ClientInv
<1> DEFINE new == Layer(data, allWrites[c])
           vs == IF Complete(c, l) THEN Changed(View(c, l), new) ELSE <<new>>
<1>2. /\ serverCache' = [serverCache EXCEPT ![c][l] = data]
      /\ cachePos' = [cachePos EXCEPT ![c][l] = pos]
      /\ RaiseEvents(c, l, vs)
      /\ UNCHANGED <<allWrites, issued, observing, connectionVars, toServer, served, log,
                     faults, scene>>
    BY DEF ApplyServerData
<1>3. /\ c \notin acking /\ toClient[c] # <<>> /\ Head(toClient[c]).type = type
      /\ toClient[c] \in Seq(Messages) /\ Head(toClient[c]) \in Messages
      /\ toClient'[c] = Tail(toClient[c]) /\ DOMAIN toClient' = Clients
      /\ \A d \in Clients : toClient'[d] \in Seq(Messages)
      /\ \A d \in Clients \ {c} : toClient'[d] = toClient[d]
      /\ connectionState[c] = "Connected"
      /\ Handshake(connectionState[c], toServer[c], Tail(toClient[c]), served[c])
      /\ Listens(connectionState[c], listens[c], toServer[c], Tail(toClient[c]),
                 served[c], unackedListensCount[c])
    BY <1>1, ReceiveParts
<1>4. log \in Seq(Writes) /\ allWrites[c] \in Seq(Writes) /\ pos \in Nat /\ pos <= Len(log)
    BY <1>1, LenProperties DEF TypeInv, TypeOK
<1>5. data \in DataIn(l) /\ new \in DataIn(l)
    BY <1>4, DataAtType, LayerType
<1>6. /\ DOMAIN serverCache' = Clients /\ \A d \in Clients : DOMAIN serverCache'[d] = Locations
      /\ serverCache'[c][l] = data
      /\ \A k \in Locations \ {l} : serverCache'[c][k] = serverCache[c][k]
      /\ \A d \in Clients \ {c} : serverCache'[d] = serverCache[d]
    BY <1>1, <1>2 DEF TypeInv
<1>7. /\ cachePos' \in [Clients -> [Locations -> Nat \cup {NotSynced}]]
      /\ cachePos'[c][l] = pos
      /\ \A k \in Locations \ {l} : cachePos'[c][k] = cachePos[c][k]
      /\ \A d \in Clients \ {c} : cachePos'[d] = cachePos[d]
    BY <1>1, <1>2, <1>4 DEF TypeInv, TypeOK
<1>8. TypeInv'
    <2>1. vs \in Seq(DataIn(l))
        BY <1>5, ChangedType
    <2> HIDE DEF vs
    <2>2. /\ DOMAIN events' = Screens /\ DOMAIN shown' = Screens
          /\ \A s \in Screens : /\ events'[s] \in Seq(DataIn(Looks[s]))
                                /\ shown'[s] \in DataIn(Looks[s]) \cup {NoData}
        BY <1>1, <1>2, <2>1, RaiseType
    <2>3. \A d \in Clients, k \in Locations : serverCache'[d][k] \in DataIn(k) \cup {NoData}
        <3>1. \A d \in Clients, k \in Locations : serverCache[d][k] \in DataIn(k) \cup {NoData}
            BY <1>1 DEF TypeInv, TypeOK
        <3> QED  BY <1>5, <1>6, <3>1
    <2> QED  BY <1>1, <1>2, <1>3, <1>6, <1>7, <2>2, <2>3 DEF TypeInv, TypeOK, connectionVars
<1>9. HandshakeInv(c)' /\ ListenInv(c)'
    BY <1>2, <1>3 DEF HandshakeInv, ListenInv, connectionVars
<1>10. FlightInv(c)'
    <2>1. Flight(connectionState[c], toClient[c], toServer[c], outstandingPuts[c])
        BY <1>1 DEF OneInv, FlightInv
    <2>2. ~Put(Head(toClient[c]))
        BY <1>3 DEF Put
    <2>3. Flight(connectionState[c], Tail(toClient[c]), toServer[c], outstandingPuts[c])
        BY <1>3, <2>1, <2>2, FlightTail
    <2> QED  BY <1>2, <1>3, <2>3 DEF FlightInv, connectionVars
<1>11. HoldInv(c)' /\ ObserveInv(c)' /\ PendingInv(c)'
    BY <1>1, <1>2 DEF OneInv, HoldInv, ObserveInv, PendingInv, connectionVars
<1>12. CacheInv(c)'
    <2>1. pos # NotSynced
        BY <1>4 DEF NotSynced
    <2> QED  BY <1>1, <1>2, <1>4, <1>6, <1>7, <2>1 DEF OneInv, CacheInv
<1>13. Taken(c)
    BY <1>2, <1>3, <1>7 DEF Taken
<1>14. StreamInv(c)' /\ SettledInv(c)'
    BY <1>1, <1>2, <1>13, TakenStream, TakenSettled DEF OneInv
<1>15. AnswerInv(c)'
    BY <1>1, <1>2, <1>13, AnswersStay DEF connectionVars
<1>16. OneInv(c)'
    BY <1>9, <1>10, <1>11, <1>12, <1>14, <1>15 DEF OneInv
<1>17. \A d \in Clients \ {c} : Untouched(d)
    BY <1>2, <1>3, <1>6, <1>7 DEF Untouched, connectionVars
<1> QED
    BY <1>2, <1>8, <1>16, <1>17, Assemble

\* What the next message of data says about the client's copy.
LEMMA DataHead ==
    ASSUME TypeInv, NEW c \in Clients, OneInv(c), toClient[c] # <<>>, NEW l \in Locations,
           Tells(Head(toClient[c]), l)
    PROVE  /\ Head(toClient[c]).pos \in 0 .. Len(log) /\ l \in listens[c]
           /\ cachePos[c][l] <= Head(toClient[c]).pos
           /\ Head(toClient[c]).type = "snapshot" =>
                 Head(toClient[c]).data = DataAt(log, Head(toClient[c]).pos, l)
           /\ Head(toClient[c]).type = "update" =>
                 [serverCache[c][l] EXCEPT ![KeyOf[Head(toClient[c]).w]] = Head(toClient[c]).w]
                    = DataAt(log, Head(toClient[c]).pos, l)
<1>1. PICK q \in Seq(Messages), L \in Seq(Writes), x \in Nat \cup {NotSynced}, data \in {serverCache[c][l]} :
          /\ q = toClient[c] /\ L = log /\ x = cachePos[c][l] /\ data = serverCache[c][l]
          /\ q # <<>> /\ x <= Len(L)
          /\ data = IF x = NotSynced THEN NoData ELSE DataAt(L, x, l)
    BY Queues, CacheKnown DEF OneInv, CacheInv
<1>2. Stream(q, x, l, L)
    BY <1>1 DEF OneInv, StreamInv
<1>3. l \in listens[c]
    <2>1. 1 \in DOMAIN q /\ Head(q) = q[1]
        BY <1>1, TailIndex
    <2> QED  BY <1>1, <2>1 DEF OneInv, ListenInv, Listens
<1>4. Tells(Head(q), l)
    BY <1>1
<1>5. /\ Head(q).pos \in 0 .. Len(L) /\ x <= Head(q).pos
      /\ Head(q).type = "snapshot" => Head(q).data = DataAt(L, Head(q).pos, l)
      /\ Head(q).type = "update" =>
            [data EXCEPT ![KeyOf[Head(q).w]] = Head(q).w] = DataAt(L, Head(q).pos, l)
    BY <1>1, <1>2, <1>4, StreamHead, SMTT(60)
<1> QED
    BY <1>1, <1>3, <1>5

\* All of a location's data arrives.
LEMMA OnSnapshotStep ==
    ASSUME ClientInv, NEW c \in Clients, OnSnapshot(c)
    PROVE  /\ ClientInv'
           /\ \E l \in Locations : \E pos \in 0 .. Len(log) :
                 /\ cachePos[c][l] <= pos /\ l \in listens[c] /\ Tells(Head(toClient[c]), l)
                 /\ pos = Head(toClient[c]).pos /\ ApplyServerData(c, l, DataAt(log, pos, l), pos)
<1>1. TypeInv /\ OneInv(c)
    BY DEF ClientInv
<1>2. PICK m \in {Head(toClient[c])} :
          /\ m = Head(toClient[c]) /\ Receive(c, "snapshot")
          /\ ApplyServerData(c, m.loc, m.data, m.pos)
    BY DEF OnSnapshot
<1>3. toClient[c] # <<>> /\ m.type = "snapshot" /\ m \in Messages
    BY <1>1, <1>2, ReceiveParts
<1>4. PICK l \in Locations : l = m.loc /\ \A k \in Locations : Tells(m, k) <=> k = l
    BY <1>3, MessageFields DEF Tells
<1>5. /\ m.pos \in 0 .. Len(log) /\ m.data = DataAt(log, m.pos, l) /\ cachePos[c][l] <= m.pos
      /\ l \in listens[c]
    BY <1>1, <1>2, <1>3, <1>4, DataHead
<1>6. ClientInv'
    BY <1>2, <1>4, <1>5, ApplyStep
<1> QED
    BY <1>2, <1>4, <1>5, <1>6

\* One child of a location changes.
LEMMA OnUpdateStep ==
    ASSUME ClientInv, NEW c \in Clients, OnUpdate(c)
    PROVE  /\ ClientInv'
           /\ \E l \in Locations : \E pos \in 0 .. Len(log) :
                 /\ cachePos[c][l] <= pos /\ l \in listens[c] /\ Tells(Head(toClient[c]), l)
                 /\ pos = Head(toClient[c]).pos /\ ApplyServerData(c, l, DataAt(log, pos, l), pos)
<1>1. TypeInv /\ OneInv(c)
    BY DEF ClientInv
<1>2. PICK m \in {Head(toClient[c])} :
          /\ m = Head(toClient[c]) /\ Receive(c, "update")
          /\ ApplyServerData(c, WriteLoc(m.w),
                [serverCache[c][WriteLoc(m.w)] EXCEPT ![KeyOf[m.w]] = m.w], m.pos)
    BY DEF OnUpdate
<1>3. toClient[c] # <<>> /\ m.type = "update" /\ m \in Messages /\ m.w \in Writes
    BY <1>1, <1>2, ReceiveParts, MessageFields
<1>4. PICK l \in Locations : l = WriteLoc(m.w) /\ \A k \in Locations : Tells(m, k) <=> k = l
    BY <1>3, SyncTreeAssumption DEF Tells, WriteLoc
<1>5. /\ m.pos \in 0 .. Len(log) /\ cachePos[c][l] <= m.pos /\ l \in listens[c]
      /\ [serverCache[c][l] EXCEPT ![KeyOf[m.w]] = m.w] = DataAt(log, m.pos, l)
    BY <1>1, <1>2, <1>3, <1>4, DataHead, SMTT(60)
<1>6. ClientInv'
    BY <1>2, <1>4, <1>5, ApplyStep
<1> QED
    BY <1>2, <1>4, <1>5, <1>6

-------------------------------------------------------------------------------
\* The answer of a put

\* Taking the oldest of the writes in two queues.
LEMMA ConcatTail ==
    ASSUME NEW S, NEW h \in Seq(S), NEW out \in Seq(S), h # <<>>
    PROVE  /\ h \o out \in Seq(S) /\ h \o out # <<>> /\ Head(h \o out) = Head(h)
           /\ Tail(h \o out) = Tail(h) \o out
<1>1. PICK all \in Seq(S), t \in Seq(S), k \in Nat, n \in Nat :
          /\ all = h \o out /\ t = Tail(h) /\ k = Len(h) /\ n = Len(out) /\ k >= 1
          /\ 1 \in DOMAIN h /\ Head(h) = h[1]
    BY ConcatIndex, TailIndex, ZenonT(60)
<1>2. /\ DOMAIN h = 1 .. k /\ DOMAIN out = 1 .. n /\ DOMAIN all = 1 .. k + n /\ Len(all) = k + n
      /\ \A i \in 1 .. k : all[i] = h[i]
      /\ \A i \in 1 .. n : all[k + i] = out[i]
    BY <1>1, ConcatIndex
<1>3. all # <<>> /\ all[1] = h[1]
    BY <1>1, <1>2
<1>4. /\ Tail(all) \in Seq(S) /\ Len(Tail(all)) = k + n - 1 /\ Head(all) = all[1]
      /\ \A i \in 1 .. k + n - 1 : Tail(all)[i] = all[i + 1]
    BY <1>2, <1>3, TailIndex
<1>5. /\ DOMAIN t = 1 .. k - 1 /\ Len(t) = k - 1
      /\ \A i \in 1 .. k - 1 : t[i] = h[i + 1]
    BY <1>1, <1>2, TailIndex
<1>6. /\ t \o out \in Seq(S) /\ Len(t \o out) = (k - 1) + n
      /\ \A i \in 1 .. k - 1 : (t \o out)[i] = t[i]
      /\ \A i \in 1 .. n : (t \o out)[(k - 1) + i] = out[i]
    BY <1>1, <1>2, <1>5, ConcatIndex
<1>7. ASSUME NEW i \in 1 .. k + n - 1 PROVE Tail(all)[i] = (t \o out)[i]
    <2>1. CASE i \in 1 .. k - 1
        <3>1. i + 1 \in 1 .. k
            BY <2>1
        <3> QED  BY <1>2, <1>4, <1>5, <1>6, <2>1, <3>1, SMTT(60)
    <2>2. CASE i >= k
        <3>1. PICK j \in 1 .. n : i = (k - 1) + j
            <4>1. i - (k - 1) \in 1 .. n /\ i = (k - 1) + (i - (k - 1))
                BY <2>2
            <4> QED  BY <4>1
        <3>2. i + 1 = k + j
            BY <3>1
        <3>3. all[i + 1] = out[j] /\ (t \o out)[i] = out[j]
            BY <1>2, <1>6, <3>1, <3>2
        <3> QED  BY <1>4, <3>3
    <2>3. i \in 1 .. k - 1 \/ i >= k
        OBVIOUS
    <2> QED  BY <2>1, <2>2, <2>3
<1>8. Tail(all) = t \o out
    <2>1. k + n - 1 = (k - 1) + n
        OBVIOUS
    <2> QED  BY <1>4, <1>6, <1>7, <2>1, SeqEqual
<1> QED
    BY <1>1, <1>3, <1>4, <1>8

\* Moving the oldest write from one queue to the end of the queue before it.
LEMMA ConcatMove ==
    ASSUME NEW h \in Seq(Writes), NEW out \in Seq(Writes), out # <<>>
    PROVE  Append(h, Head(out)) \o Tail(out) = h \o out
<1>1. PICK w \in Writes, t \in Seq(Writes), one \in Seq(Writes) :
          w = Head(out) /\ t = Tail(out) /\ one = <<w>>
    <2>1. Head(out) \in Writes /\ Tail(out) \in Seq(Writes)
        BY TailIndex
    <2>2. \A w \in Writes : <<w>> \in Seq(Writes)
        BY AppendIndex
    <2> QED  BY <2>1, <2>2, Zenon
<1>2. Append(h, w) = h \o one
    BY <1>1, AppendIndex
<1>3. one \o t = out
    <2>1. PICK n \in Nat : /\ n = Len(out) /\ n >= 1 /\ Len(t) = n - 1
                           /\ w = out[1] /\ DOMAIN t = 1 .. n - 1
                           /\ \A i \in 1 .. n - 1 : t[i] = out[i + 1]
        BY <1>1, TailIndex
    <2>2. Len(one) = 1 /\ DOMAIN one = {1} /\ one[1] = w
        BY <1>1
    <2>3. /\ one \o t \in Seq(Writes) /\ Len(one \o t) = 1 + (n - 1)
          /\ (one \o t)[1] = w
          /\ \A i \in 1 .. n - 1 : (one \o t)[1 + i] = t[i]
        <3>1. /\ one \o t \in Seq(Writes) /\ Len(one \o t) = Len(one) + Len(t)
              /\ \A i \in DOMAIN one : (one \o t)[i] = one[i]
              /\ \A i \in DOMAIN t : (one \o t)[Len(one) + i] = t[i]
            BY ConcatIndex, SMTT(60)
        <3> QED  BY <2>1, <2>2, <3>1
    <2>4. ASSUME NEW i \in 1 .. n PROVE (one \o t)[i] = out[i]
        <3>1. CASE i = 1
            BY <2>1, <2>3, <3>1
        <3>2. CASE i # 1
            <4>1. PICK j \in 1 .. n - 1 : i = 1 + j /\ i = j + 1
                BY <3>2
            <4> QED  BY <2>1, <2>3, <4>1
        <3> QED  BY <3>1, <3>2
    <2>5. 1 + (n - 1) = n
        OBVIOUS
    <2> QED  BY <2>1, <2>3, <2>4, <2>5, SeqEqual
<1>4. (h \o one) \o t = h \o (one \o t)
    BY ConcatAssociative, SMTT(60)
<1> QED
    BY <1>1, <1>2, <1>3, <1>4

\* One more answer is held back.
LEMMA HeldAppend ==
    ASSUME NEW ps \in Seq([w : Writes, ok : BOOLEAN]), NEW e \in [w : Writes, ok : BOOLEAN]
    PROVE  Held(Append(ps, e)) = Append(Held(ps), e.w)
<1>1. PICK n \in Nat, h \in Seq(Writes), p \in Seq([w : Writes, ok : BOOLEAN]) :
          n = Len(ps) /\ h = Held(ps) /\ p = Append(ps, e) /\ Len(h) = n
    BY HeldType, AppendProperties, LenProperties
<1>2. /\ \A i \in 1 .. n : h[i] = ps[i].w
      /\ Len(p) = n + 1 /\ DOMAIN p = 1 .. n + 1 /\ p[n + 1] = e
      /\ \A i \in 1 .. n : p[i] = ps[i]
    <2>1. DOMAIN ps = 1 .. n
        BY <1>1, LenProperties
    <2>2. \A i \in DOMAIN ps : h[i] = ps[i].w
        BY <1>1, HeldType
    <2>3. /\ Len(p) = n + 1 /\ p[n + 1] = e /\ DOMAIN p = 1 .. Len(p)
          /\ \A i \in 1 .. n : p[i] = ps[i]
        BY <1>1, AppendProperties, LenProperties
    <2> QED  BY <2>1, <2>2, <2>3
<1>3. /\ Held(p) \in Seq(Writes) /\ Len(Held(p)) = n + 1
      /\ \A i \in 1 .. n + 1 : Held(p)[i] = p[i].w
    BY <1>2, HeldType
<1>4. /\ Append(h, e.w) \in Seq(Writes) /\ Len(Append(h, e.w)) = n + 1
      /\ Append(h, e.w)[n + 1] = e.w
      /\ \A i \in 1 .. n : Append(h, e.w)[i] = h[i]
    <2>1. e.w \in Writes
        OBVIOUS
    <2> QED  BY <1>1, <2>1, AppendProperties
<1>5. \A i \in 1 .. n + 1 : Held(p)[i] = Append(h, e.w)[i]
    <2>1. \A i \in 1 .. n + 1 : i \in 1 .. n \/ i = n + 1
        OBVIOUS
    <2> QED  BY <1>2, <1>3, <1>4, <2>1
<1>6. Held(p) = Append(h, e.w)
    BY <1>3, <1>4, <1>5, SeqEqual
<1> QED
    BY <1>1, <1>6

\* What is left when the oldest of distinct writes is taken.
LEMMA InjectiveTail ==
    ASSUME NEW all \in Seq(Writes), all # <<>>, IsInjective(all)
    PROVE  /\ IsInjective(Tail(all)) /\ Tail(all) \in Seq(Writes)
           /\ In(all) = In(Tail(all)) \cup {Head(all)} /\ Head(all) \in Writes
<1>1. /\ Tail(all) \in Seq(Writes) /\ Head(all) = all[1] /\ 1 \in DOMAIN all
      /\ Head(all) \in Writes
      /\ \A i \in DOMAIN Tail(all) : i \in Nat /\ i + 1 \in DOMAIN all /\ Tail(all)[i] = all[i + 1]
      /\ \A i \in DOMAIN all : i = 1 \/ (i - 1 \in DOMAIN Tail(all) /\ all[i] = Tail(all)[i - 1])
    BY TailIndex
<1>2. In(all) = In(Tail(all)) \cup {Head(all)}
    <2>1. ASSUME NEW x \in In(all) PROVE x \in In(Tail(all)) \cup {Head(all)}
        <3>1. PICK i \in DOMAIN all : all[i] = x
            BY DEF In
        <3> QED  BY <1>1, <3>1 DEF In
    <2>2. \A x \in In(Tail(all)) : x \in In(all)
        BY <1>1 DEF In
    <2>3. Head(all) \in In(all)
        BY <1>1 DEF In
    <2> QED  BY <2>1, <2>2, <2>3
<1>3. ASSUME NEW i \in DOMAIN Tail(all), NEW j \in DOMAIN Tail(all), Tail(all)[i] = Tail(all)[j]
      PROVE  i = j
    <2>1. i + 1 = j + 1 /\ i \in Nat /\ j \in Nat
        BY <1>1, <1>3 DEF IsInjective
    <2> QED  BY <2>1
<1> QED
    BY <1>1, <1>2, <1>3 DEF IsInjective

\* When no listen is unanswered, a write the server has is in the client's copy
\* of its location, and in all of the data that is on its way.
LEMMA SettledNow ==
    ASSUME TypeInv, NEW c \in Clients, OneInv(c), NEW w \in Writes, w \in In(log),
           unackedListensCount[c] = 0, WriteLoc(w) \in listens[c] => Comes(c, w, 1)
    PROVE  /\ WriteLoc(w) \in listens[c] => Has(log, cachePos[c][WriteLoc(w)], w)
           /\ \A j \in DOMAIN toClient[c] :
                 Tells(toClient[c][j], WriteLoc(w)) => Has(log, toClient[c][j].pos, w)
<1>1. PICK l \in Locations : l = WriteLoc(w)
    BY SyncTreeAssumption DEF WriteLoc
<1>2. PICK q \in Seq(Messages), r \in Seq(Requests), L \in Seq(Writes), x \in Int :
          q = toClient[c] /\ r = toServer[c] /\ L = log /\ x = cachePos[c][l]
    <2>1. cachePos[c][l] \in Int
        BY DEF TypeInv, TypeOK, NotSynced
    <2> QED  BY <2>1, Queues
<1>3. /\ Count(r, "listen") + Count(q, "listenOk") = 0
      /\ \A i \in DOMAIN q : Tells(q[i], l) => l \in listens[c]
    BY <1>2 DEF OneInv, ListenInv, Listens
<1>4. Stream(q, x, l, L)
    BY <1>2 DEF OneInv, StreamInv
<1>5. ASSUME l \in listens[c] PROVE Has(L, x, w) /\ \A n \in Int : x <= n => Has(L, n, w)
    <2>1. Arrives(q, r, x, L, w, 1)
        BY <1>1, <1>2, <1>5 DEF Comes
    <2> QED  BY <1>3, <2>1, ArrivedNow
<1>6. ASSUME NEW j \in DOMAIN q, Tells(q[j], l) PROVE Has(L, q[j].pos, w)
    <2>1. l \in listens[c] /\ x <= q[j].pos
        BY <1>3, <1>4, <1>6 DEF Stream
    <2>2. q[j].pos \in Int
        <3>1. q[j] \in Messages
            BY ElementOfSeq, LenProperties
        <3> QED  BY <1>6, <3>1, MessageFields
    <2> QED  BY <1>5, <2>1, <2>2
<1> QED
    BY <1>1, <1>2, <1>5, <1>6

\* The oldest pending write is not pending any more.
LEMMA AckParts ==
    ASSUME TypeInv, NEW c \in Clients, OneInv(c), allWrites[c] # <<>>,
           AckWrite(c, Head(allWrites[c]))
    PROVE  /\ allWrites' = [allWrites EXCEPT ![c] = Tail(@)]
           /\ allWrites' \in [Clients -> Seq(Writes)] /\ allWrites'[c] = Tail(allWrites[c])
           /\ \A d \in Clients \ {c} : allWrites'[d] = allWrites[d]
           /\ DOMAIN events' = Screens /\ DOMAIN shown' = Screens
           /\ \A s \in Screens : /\ events'[s] \in Seq(DataIn(Looks[s]))
                                 /\ shown'[s] \in DataIn(Looks[s]) \cup {NoData}
           /\ RaiseEvents(c, WriteLoc(Head(allWrites[c])),
                 IF Complete(c, WriteLoc(Head(allWrites[c])))
                 THEN Changed(View(c, WriteLoc(Head(allWrites[c]))),
                              Layer(serverCache[c][WriteLoc(Head(allWrites[c]))], Tail(allWrites[c])))
                 ELSE <<>>)
           /\ UNCHANGED <<serverCache, issued, observing, cachePos>>
<1>1. PICK all \in Seq(Writes), w \in Writes :
          all = allWrites[c] /\ all # <<>> /\ w = Head(all) /\ Tail(all) \in Seq(Writes)
    <2>1. allWrites[c] \in Seq(Writes)
        BY DEF TypeInv, TypeOK
    <2> QED  BY <2>1, TailIndex
<1>2. PICK l \in Locations : l = WriteLoc(w)
    BY SyncTreeAssumption DEF WriteLoc
<1>3. Without(all, w) = Tail(all)
    BY <1>1, WithoutHead
<1> DEFINE vs == IF Complete(c, l)
                 THEN Changed(View(c, l), Layer(serverCache[c][l], Tail(all)))
                 ELSE <<>>
<1>4. /\ allWrites' = [allWrites EXCEPT ![c] = Tail(all)] /\ RaiseEvents(c, l, vs)
      /\ UNCHANGED <<serverCache, issued, observing, cachePos>>
    BY <1>1, <1>2, <1>3 DEF AckWrite
<1>5. vs \in Seq(DataIn(l))
    <2>1. Complete(c, l) => Layer(serverCache[c][l], Tail(all)) \in DataIn(l)
        BY <1>1, CacheKnown, LayerType DEF OneInv
    <2> QED  BY <2>1, ChangedType
<1>6. /\ DOMAIN events' = Screens /\ DOMAIN shown' = Screens
      /\ \A s \in Screens : /\ events'[s] \in Seq(DataIn(Looks[s]))
                            /\ shown'[s] \in DataIn(Looks[s]) \cup {NoData}
    <2> HIDE DEF vs
    <2> QED  BY <1>4, <1>5, RaiseType
<1>7. /\ allWrites' \in [Clients -> Seq(Writes)] /\ allWrites'[c] = Tail(all)
      /\ \A d \in Clients \ {c} : allWrites'[d] = allWrites[d]
    BY <1>1, <1>4 DEF TypeInv, TypeOK
<1> QED
    BY <1>1, <1>2, <1>4, <1>6, <1>7

\* Client c takes its oldest pending write for settled, rightly: the server
\* never applied it, or has it in the copy of a location the client reads.
Settles(c) ==
    LET w == Head(allWrites[c])
    IN  /\ allWrites[c] # <<>> /\ AckWrite(c, w)
        /\ w \in In(log) /\ WriteLoc(w) \in listens[c] =>
              Has(log, cachePos[c][WriteLoc(w)], w)

\* An answer held back is handed on.
LEMMA AckPutsStep ==
    ASSUME ClientInv, NEW c \in Clients, AckPuts(c)
    PROVE  ClientInv' /\ Settles(c)
<1>1. TypeInv /\ OneInv(c)
    BY DEF ClientInv
<1>2. /\ c \in acking /\ AckWrite(c, Head(putsToAck[c]).w)
      /\ putsToAck' = [putsToAck EXCEPT ![c] = Tail(@)]
      /\ acking' = IF Len(putsToAck[c]) = 1 THEN acking \ {c} ELSE acking
      /\ UNCHANGED <<connectionState, listens, unackedListensCount, outstandingPuts,
                     networkVars>>
    BY DEF AckPuts
<1>3. /\ connectionState[c] = "Connected" /\ unackedListensCount[c] = 0
      /\ putsToAck[c] # <<>>
    BY <1>1, <1>2 DEF OneInv, HoldInv
<1>4. PICK ps \in Seq([w : Writes, ok : BOOLEAN]), out \in Seq(Writes), h \in Seq(Writes),
           all \in Seq(Writes) :
          /\ ps = putsToAck[c] /\ out = outstandingPuts[c] /\ h = Held(ps) /\ all = allWrites[c]
          /\ all = h \o out /\ IsInjective(all)
          /\ \A v \in In(all) : v \in In(issued) /\ Writer[v] = c
    <2>1. PICK ps \in Seq([w : Writes, ok : BOOLEAN]) : ps = putsToAck[c]
        BY <1>1 DEF TypeInv, TypeOK
    <2>2. outstandingPuts[c] \in Seq(Writes) /\ allWrites[c] \in Seq(Writes)
        BY <1>1 DEF TypeInv, TypeOK
    <2> QED  BY <1>1, <2>1, <2>2, HeldType, ZenonT(60) DEF OneInv, PendingInv
<1>5. /\ h # <<>> /\ Head(h) = Head(ps).w /\ Held(Tail(ps)) = Tail(h)
    BY <1>3, <1>4, HeldType
<1>6. all # <<>> /\ Head(all) = Head(ps).w /\ Tail(all) = Held(Tail(ps)) \o out
    <2>1. h \o out # <<>> /\ Head(h \o out) = Head(h) /\ Tail(h \o out) = Tail(h) \o out
        BY <1>5, ConcatTail
    <2> QED  BY <1>4, <1>5, <2>1
<1>7. PICK w \in Writes :
          /\ w = Head(all) /\ w = Head(ps).w /\ In(all) = In(Tail(all)) \cup {w}
          /\ IsInjective(Tail(all)) /\ Tail(all) \in Seq(Writes)
    BY <1>4, <1>6, InjectiveTail
<1>8. /\ allWrites' \in [Clients -> Seq(Writes)] /\ allWrites'[c] = Tail(all)
      /\ \A d \in Clients \ {c} : allWrites'[d] = allWrites[d]
      /\ DOMAIN events' = Screens /\ DOMAIN shown' = Screens
      /\ \A s \in Screens : /\ events'[s] \in Seq(DataIn(Looks[s]))
                            /\ shown'[s] \in DataIn(Looks[s]) \cup {NoData}
      /\ UNCHANGED <<serverCache, issued, observing, cachePos>>
    BY <1>1, <1>2, <1>4, <1>6, AckParts
<1>9. /\ putsToAck' \in [Clients -> Seq([w : Writes, ok : BOOLEAN])]
      /\ putsToAck'[c] = Tail(ps) /\ \A d \in Clients \ {c} : putsToAck'[d] = putsToAck[d]
      /\ Tail(ps) \in Seq([w : Writes, ok : BOOLEAN])
    <2>1. Tail(ps) \in Seq([w : Writes, ok : BOOLEAN])
        BY <1>3, <1>4, TailIndex
    <2> QED  BY <1>1, <1>2, <1>4, <2>1 DEF TypeInv, TypeOK
<1>10. TypeInv'
    <2>1. acking' \subseteq Clients
        BY <1>1, <1>2 DEF TypeInv, TypeOK
    <2> QED  BY <1>1, <1>2, <1>8, <1>9, <2>1 DEF TypeInv, TypeOK, networkVars
<1>11. w \in In(log) /\ WriteLoc(w) \in listens[c] => Comes(c, w, 1)
    <2>1. 1 \in DOMAIN ps /\ ps[1].w = w
        BY <1>3, <1>4, <1>7, TailIndex
    <2> QED  BY <1>1, <1>3, <1>4, <2>1 DEF OneInv, AnswerInv, Matters
<1>12. w \in In(log) =>
           /\ WriteLoc(w) \in listens[c] => Has(log, cachePos[c][WriteLoc(w)], w)
           /\ \A j \in DOMAIN toClient[c] :
                 Tells(toClient[c][j], WriteLoc(w)) => Has(log, toClient[c][j].pos, w)
    BY <1>1, <1>3, <1>11, SettledNow
<1>13. Settles(c)
    BY <1>2, <1>4, <1>6, <1>7, <1>12 DEF Settles
<1>14. HandshakeInv(c)' /\ ListenInv(c)' /\ FlightInv(c)' /\ ObserveInv(c)'
    BY <1>1, <1>2, <1>8 DEF OneInv, HandshakeInv, ListenInv, FlightInv, ObserveInv, networkVars
<1>15. HoldInv(c)'
    <2>1. Len(ps) = 1 <=> Tail(ps) = <<>>
        <3>1. /\ Len(Tail(ps)) = Len(ps) - 1 /\ Len(ps) \in Nat
              /\ Tail(ps) \in Seq([w : Writes, ok : BOOLEAN])
            BY <1>3, <1>4, TailIndex
        <3>2. Len(Tail(ps)) = 0 <=> Tail(ps) = <<>>
            BY <3>1, EmptySeq
        <3> QED  BY <3>1, <3>2
    <2>2. c \in acking' <=> Tail(ps) # <<>>
        BY <1>2, <1>4, <2>1
    <2> QED  BY <1>2, <1>3, <1>9, <2>2 DEF HoldInv
<1>16. PendingInv(c)'
    BY <1>2, <1>4, <1>6, <1>7, <1>8, <1>9 DEF PendingInv
<1>17. CacheInv(c)' /\ StreamInv(c)'
    BY <1>1, <1>2, <1>8 DEF OneInv, CacheInv, StreamInv, networkVars
<1>18. AnswerInv(c)'
    <2>1. \A i \in DOMAIN Tail(ps) : i + 1 \in DOMAIN ps /\ Tail(ps)[i] = ps[i + 1]
        BY <1>3, <1>4, TailIndex
    <2>2. \A v, n : (Matters(c, v)' <=> Matters(c, v)) /\ (Comes(c, v, n)' <=> Comes(c, v, n))
        BY <1>2, <1>8 DEF Matters, Comes, networkVars
    <2> QED  BY <1>1, <1>2, <1>4, <1>9, <2>1, <2>2 DEF OneInv, AnswerInv, networkVars
<1>19. SettledInv(c)'
    <2>1. issued' = issued /\ log' = log /\ toClient' = toClient
        BY <1>2, <1>8 DEF networkVars
    <2>2. ASSUME NEW v \in In(issued) \cap In(log), Writer[v] = c, v \notin In(Tail(all)),
                 NEW j \in DOMAIN toClient[c], Tells(toClient[c][j], WriteLoc(v))
          PROVE  Has(log, toClient[c][j].pos, v)
        <3>1. CASE v = w
            BY <1>12, <2>2, <3>1
        <3>2. CASE v # w
            BY <1>1, <1>4, <1>7, <2>2, <3>2 DEF OneInv, SettledInv
        <3> QED  BY <3>1, <3>2
    <2> QED  BY <1>8, <2>1, <2>2 DEF SettledInv
<1>20. OneInv(c)'
    BY <1>14, <1>15, <1>16, <1>17, <1>18, <1>19 DEF OneInv
<1>21. \A d \in Clients \ {c} : Untouched(d)
    BY <1>2, <1>8, <1>9 DEF Untouched, networkVars
<1>22. ClientInv'
    BY <1>2, <1>8, <1>10, <1>20, <1>21, Assemble DEF networkVars
<1> QED
    BY <1>13, <1>22

\* The answer of a put arrives while a listen is unanswered.
LEMMA HoldStep ==
    ASSUME ClientInv, NEW c \in Clients, OnPutResponse(c), HoldsAnswers(c)
    PROVE  ClientInv' /\ UNCHANGED <<syncVars, screenVars, log, faults, scene>>
<1>1. TypeInv /\ OneInv(c)
    BY DEF ClientInv
<1>2. PICK m \in {Head(toClient[c])} :
          /\ m = Head(toClient[c]) /\ Receive(c, "put")
          /\ outstandingPuts' = [outstandingPuts EXCEPT ![c] = Without(@, m.w)]
          /\ putsToAck' = [putsToAck EXCEPT ![c] = Append(@, [w |-> m.w, ok |-> m.ok])]
          /\ UNCHANGED <<syncVars, screenVars>>
          /\ UNCHANGED <<connectionState, listens, unackedListensCount, acking, toServer,
                         served, log, faults, scene>>
    BY DEF OnPutResponse
<1>3. /\ c \notin acking /\ toClient[c] # <<>> /\ m.type = "put" /\ m \in Messages
      /\ toClient[c] \in Seq(Messages) /\ toClient'[c] = Tail(toClient[c])
      /\ DOMAIN toClient' = Clients /\ \A d \in Clients : toClient'[d] \in Seq(Messages)
      /\ \A d \in Clients \ {c} : toClient'[d] = toClient[d]
      /\ connectionState[c] = "Connected"
      /\ Handshake(connectionState[c], toServer[c], Tail(toClient[c]), served[c])
      /\ Listens(connectionState[c], listens[c], toServer[c], Tail(toClient[c]),
                 served[c], unackedListensCount[c])
    BY <1>1, <1>2, ReceiveParts
<1>4. PICK w \in Writes, e \in [w : Writes, ok : BOOLEAN] :
          w = m.w /\ e = [w |-> m.w, ok |-> m.ok] /\ e.w = w
    <2>1. PICK w \in Writes, ok \in BOOLEAN : w = m.w /\ ok = m.ok
        BY <1>3, MessageFields
    <2>2. PICK e \in [w : Writes, ok : BOOLEAN] : e = [w |-> w, ok |-> ok]
        OBVIOUS
    <2> QED  BY <2>1, <2>2
<1>5. PICK q \in Seq(Messages), out \in Seq(Writes), ps \in Seq([w : Writes, ok : BOOLEAN]) :
          /\ q = toClient[c] /\ q # <<>> /\ Head(q) = m /\ out = outstandingPuts[c]
          /\ ps = putsToAck[c] /\ IsInjective(out) /\ allWrites[c] = Held(ps) \o out
    <2>1. PendingInv(c)
        BY <1>1 DEF OneInv
    <2>2. /\ outstandingPuts[c] \in Seq(Writes) /\ IsInjective(outstandingPuts[c])
          /\ putsToAck[c] \in Seq([w : Writes, ok : BOOLEAN])
        BY <1>1, <2>1, PendingParts
    <2>3. allWrites[c] = Held(putsToAck[c]) \o outstandingPuts[c]
        BY <2>1 DEF PendingInv
    <2> QED  BY <1>2, <1>3, <2>2, <2>3
<1>6. out # <<>> /\ w = Head(out) /\ Flight(connectionState[c], Tail(q), toServer[c], Tail(out))
    <2>1. Flight(connectionState[c], q, toServer[c], out) /\ Put(Head(q))
        BY <1>1, <1>3, <1>5 DEF OneInv, FlightInv, Put
    <2>2. /\ out # <<>> /\ Head(q).w = Head(out)
          /\ Flight(connectionState[c], Tail(q), toServer[c], Tail(out))
        BY <1>5, <2>1, FlightAnswer
    <2> QED  BY <1>4, <1>5, <2>2
<1>7. /\ outstandingPuts' \in [Clients -> Seq(Writes)] /\ outstandingPuts'[c] = Tail(out)
      /\ \A d \in Clients \ {c} : outstandingPuts'[d] = outstandingPuts[d]
    <2>1. Without(out, w) = Tail(out) /\ Tail(out) \in Seq(Writes)
        BY <1>6, WithoutHead, TailIndex
    <2> QED  BY <1>1, <1>2, <1>4, <1>5, <2>1 DEF TypeInv, TypeOK
<1>8. /\ putsToAck' \in [Clients -> Seq([w : Writes, ok : BOOLEAN])]
      /\ putsToAck'[c] = Append(ps, e)
      /\ \A d \in Clients \ {c} : putsToAck'[d] = putsToAck[d]
    <2>1. Append(ps, e) \in Seq([w : Writes, ok : BOOLEAN])
        BY AppendProperties
    <2> QED  BY <1>1, <1>2, <1>4, <1>5, <2>1 DEF TypeInv, TypeOK
<1>9. TypeInv'
    BY <1>1, <1>2, <1>3, <1>7, <1>8 DEF TypeInv, TypeOK, syncVars, screenVars
<1>10. HandshakeInv(c)' /\ ListenInv(c)' /\ FlightInv(c)' /\ ObserveInv(c)' /\ CacheInv(c)'
    <2>1. HandshakeInv(c)' /\ ListenInv(c)' /\ FlightInv(c)'
        BY <1>2, <1>3, <1>5, <1>6, <1>7 DEF HandshakeInv, ListenInv, FlightInv
    <2>2. ObserveInv(c)' /\ CacheInv(c)'
        BY <1>1, <1>2 DEF OneInv, ObserveInv, CacheInv, syncVars
    <2> QED  BY <2>1, <2>2
<1>11. HoldInv(c)'
    BY <1>2, <1>3 DEF HoldInv, HoldsAnswers
<1>12. PendingInv(c)'
    <2>1. Held(ps) \in Seq(Writes) /\ Held(Append(ps, e)) = Append(Held(ps), w)
        BY <1>4, HeldType, HeldAppend
    <2>2. Append(Held(ps), w) \o Tail(out) = Held(ps) \o out
        BY <1>6, <2>1, ConcatMove
    <2>3. allWrites' = allWrites /\ issued' = issued
        BY <1>2 DEF syncVars
    <2> QED  BY <1>1, <1>5, <1>7, <1>8, <2>1, <2>2, <2>3 DEF OneInv, PendingInv
<1>13. Taken(c)
    BY <1>2, <1>3, <1>5 DEF Taken, Tells, syncVars
<1>14. StreamInv(c)' /\ SettledInv(c)'
    BY <1>1, <1>2, <1>13, TakenStream, TakenSettled DEF OneInv, syncVars
<1>15. AnswerInv(c)'
    <2>1. \A v \in Writes : Matters(c, v)' =>
              /\ \A i \in DOMAIN Tail(q) : Put(Tail(q)[i]) /\ Tail(q)[i].w = v => Comes(c, v, i)'
              /\ \A i \in DOMAIN ps : ps[i].w = v => Comes(c, v, 1)'
              /\ w = v => Comes(c, v, 1)'
        BY <1>1, <1>2, <1>3, <1>4, <1>5, <1>13, TakenAnswers DEF OneInv, Put
    <2>2. \A i \in DOMAIN Tail(q) : Put(Tail(q)[i]) => Tail(q)[i].w \in Writes
        <3>1. \A i \in DOMAIN Tail(q) : Tail(q)[i] \in Messages
            <4>1. Tail(q) \in Seq(Messages)
                BY <1>5, TailIndex
            <4> QED  BY <4>1, ElementOfSeq, LenProperties
        <3> QED  BY <3>1, MessageFields DEF Put
    <2>3. \A i \in DOMAIN Append(ps, e) :
              Append(ps, e)[i].w = w \/ (i \in DOMAIN ps /\ Append(ps, e)[i] = ps[i])
        <3>1. PICK n \in Nat : n = Len(ps) /\ DOMAIN ps = 1 .. n
            BY LenProperties
        <3>2. /\ DOMAIN Append(ps, e) = 1 .. n + 1 /\ Append(ps, e)[n + 1] = e
              /\ \A i \in 1 .. n : Append(ps, e)[i] = ps[i]
            BY <3>1, AppendProperties, LenProperties
        <3>3. \A i \in 1 .. n + 1 : i \in 1 .. n \/ i = n + 1
            OBVIOUS
        <3> QED  BY <1>4, <3>1, <3>2, <3>3
    <2>4. \A i \in DOMAIN ps : ps[i].w \in Writes
        BY HeldType
    <2>5. ASSUME NEW i \in DOMAIN Append(ps, e), NEW v \in Writes, v = Append(ps, e)[i].w
          PROVE  Matters(c, v)' => Comes(c, v, 1)'
        BY <2>1, <2>3, <2>5
    <2>6. \A i \in DOMAIN Append(ps, e) : Append(ps, e)[i].w \in Writes
        BY <2>3, <2>4
    <2> QED  BY <1>3, <1>5, <1>8, <2>1, <2>2, <2>5, <2>6 DEF AnswerInv
<1>16. OneInv(c)'
    BY <1>10, <1>11, <1>12, <1>14, <1>15 DEF OneInv
<1>17. \A d \in Clients \ {c} : Untouched(d)
    BY <1>2, <1>3, <1>7, <1>8 DEF Untouched, syncVars
<1>18. ClientInv'
    BY <1>2, <1>9, <1>16, <1>17, Assemble DEF syncVars
<1> QED
    BY <1>2, <1>18

\* The answer of a put arrives and no listen is unanswered.
LEMMA AnswerStep ==
    ASSUME ClientInv, NEW c \in Clients, OnPutResponse(c), ~HoldsAnswers(c)
    PROVE  ClientInv' /\ Settles(c) /\ UNCHANGED <<log, faults, scene>>
<1>1. TypeInv /\ OneInv(c)
    BY DEF ClientInv
<1>2. PICK m \in {Head(toClient[c])} :
          /\ m = Head(toClient[c]) /\ Receive(c, "put")
          /\ outstandingPuts' = [outstandingPuts EXCEPT ![c] = Without(@, m.w)]
          /\ AckWrite(c, m.w) /\ UNCHANGED putsToAck
          /\ UNCHANGED <<connectionState, listens, unackedListensCount, acking, toServer,
                         served, log, faults, scene>>
    BY DEF OnPutResponse
<1>3. /\ c \notin acking /\ toClient[c] # <<>> /\ m.type = "put" /\ m \in Messages
      /\ toClient[c] \in Seq(Messages) /\ toClient'[c] = Tail(toClient[c])
      /\ DOMAIN toClient' = Clients /\ \A d \in Clients : toClient'[d] \in Seq(Messages)
      /\ \A d \in Clients \ {c} : toClient'[d] = toClient[d]
      /\ connectionState[c] = "Connected"
      /\ Handshake(connectionState[c], toServer[c], Tail(toClient[c]), served[c])
      /\ Listens(connectionState[c], listens[c], toServer[c], Tail(toClient[c]),
                 served[c], unackedListensCount[c])
    BY <1>1, <1>2, ReceiveParts
<1>4. unackedListensCount[c] = 0 /\ putsToAck[c] = <<>>
    <2>1. unackedListensCount[c] = 0
        <3>1. unackedListensCount[c] \in Nat
            BY <1>1, Queues
        <3> QED  BY <3>1 DEF HoldsAnswers
    <2> QED  BY <1>1, <1>3, <2>1 DEF OneInv, HoldInv
<1>5. PICK q \in Seq(Messages), out \in Seq(Writes) :
          /\ q = toClient[c] /\ q # <<>> /\ Head(q) = m /\ out = outstandingPuts[c]
          /\ IsInjective(out) /\ allWrites[c] = out
          /\ \A v \in In(out) : v \in In(issued) /\ Writer[v] = c
    BY <1>1, <1>2, <1>3, <1>4, PendingParts DEF OneInv, PendingInv
<1>6. /\ out # <<>> /\ m.w = Head(out)
      /\ Flight(connectionState[c], Tail(q), toServer[c], Tail(out))
    <2>1. Flight(connectionState[c], q, toServer[c], out) /\ Put(Head(q))
        BY <1>1, <1>3, <1>5 DEF OneInv, FlightInv, Put
    <2>2. /\ out # <<>> /\ Head(q).w = Head(out)
          /\ Flight(connectionState[c], Tail(q), toServer[c], Tail(out))
        BY <1>5, <2>1, FlightAnswer
    <2> QED  BY <1>5, <2>2
<1>7. PICK w \in Writes :
          /\ w = Head(out) /\ In(out) = In(Tail(out)) \cup {w}
          /\ IsInjective(Tail(out)) /\ Tail(out) \in Seq(Writes)
    BY <1>5, <1>6, InjectiveTail
<1>8. /\ outstandingPuts' \in [Clients -> Seq(Writes)] /\ outstandingPuts'[c] = Tail(out)
      /\ \A d \in Clients \ {c} : outstandingPuts'[d] = outstandingPuts[d]
    <2>1. Without(out, m.w) = Tail(out)
        BY <1>6, WithoutHead
    <2> QED  BY <1>1, <1>2, <1>5, <1>7, <2>1 DEF TypeInv, TypeOK
<1>9. /\ allWrites' \in [Clients -> Seq(Writes)] /\ allWrites'[c] = Tail(out)
      /\ \A d \in Clients \ {c} : allWrites'[d] = allWrites[d]
      /\ DOMAIN events' = Screens /\ DOMAIN shown' = Screens
      /\ \A s \in Screens : /\ events'[s] \in Seq(DataIn(Looks[s]))
                            /\ shown'[s] \in DataIn(Looks[s]) \cup {NoData}
      /\ UNCHANGED <<serverCache, issued, observing, cachePos>>
    BY <1>1, <1>2, <1>5, <1>6, AckParts
<1>10. TypeInv'
    BY <1>1, <1>2, <1>3, <1>8, <1>9 DEF TypeInv, TypeOK
<1>11. w \in In(log) /\ WriteLoc(w) \in listens[c] => Comes(c, w, 1)
    <2>1. 1 \in DOMAIN q /\ q[1] = m /\ m.w = w /\ Put(m)
        BY <1>3, <1>5, <1>6, <1>7, TailIndex DEF Put
    <2> QED  BY <1>1, <1>5, <2>1 DEF OneInv, AnswerInv, Matters
<1>12. w \in In(log) =>
           /\ WriteLoc(w) \in listens[c] => Has(log, cachePos[c][WriteLoc(w)], w)
           /\ \A j \in DOMAIN q : Tells(q[j], WriteLoc(w)) => Has(log, q[j].pos, w)
    BY <1>1, <1>4, <1>5, <1>11, SettledNow
<1>13. Settles(c)
    BY <1>2, <1>5, <1>6, <1>7, <1>12 DEF Settles
<1>14. HandshakeInv(c)' /\ ListenInv(c)' /\ FlightInv(c)' /\ ObserveInv(c)' /\ CacheInv(c)'
    <2>1. HandshakeInv(c)' /\ ListenInv(c)' /\ FlightInv(c)'
        BY <1>2, <1>3, <1>5, <1>6, <1>8 DEF HandshakeInv, ListenInv, FlightInv
    <2>2. ObserveInv(c)' /\ CacheInv(c)'
        BY <1>1, <1>2, <1>9 DEF OneInv, ObserveInv, CacheInv
    <2> QED  BY <2>1, <2>2
<1>15. HoldInv(c)' /\ PendingInv(c)'
    <2>1. Held(<<>>) \o Tail(out) = Tail(out)
        <3>1. Held(<<>>) = <<>>
            BY DEF Held
        <3> QED  BY <1>7, <3>1, ConcatEmptySeq
    <2> QED  BY <1>2, <1>3, <1>4, <1>5, <1>7, <1>8, <1>9, <2>1 DEF HoldInv, PendingInv
<1>16. Taken(c)
    BY <1>2, <1>3, <1>5, <1>9 DEF Taken, Tells
<1>17. StreamInv(c)' /\ AnswerInv(c)'
    BY <1>1, <1>2, <1>16, TakenStream, AnswersStay DEF OneInv
<1>18. SettledInv(c)'
    <2>1. \A j \in DOMAIN Tail(q) : j + 1 \in DOMAIN q /\ Tail(q)[j] = q[j + 1]
        BY <1>5, TailIndex
    <2>2. ASSUME NEW v \in In(issued) \cap In(log), v \notin In(Tail(out)), v \in In(out),
                 NEW j \in DOMAIN Tail(q), Tells(Tail(q)[j], WriteLoc(v))
          PROVE  Has(log, Tail(q)[j].pos, v)
        BY <1>7, <1>12, <2>1, <2>2
    <2>3. SettledInv(c) /\ issued' = issued
        BY <1>1, <1>9 DEF OneInv
    <2> QED  BY <1>1, <1>5, <1>9, <1>16, <2>2, <2>3, TakenSettled
<1>19. OneInv(c)'
    BY <1>14, <1>15, <1>17, <1>18 DEF OneInv
<1>20. \A d \in Clients \ {c} : Untouched(d)
    BY <1>2, <1>3, <1>8, <1>9 DEF Untouched
<1>21. ClientInv'
    BY <1>2, <1>9, <1>10, <1>19, <1>20, Assemble
<1> QED
    BY <1>2, <1>13, <1>21

-------------------------------------------------------------------------------
\* The connection is lost

\* A client without a connection, with nothing on its way.
LEMMA IdleParts ==
    ASSUME NEW ls, NEW L, NEW out
    PROVE  /\ Handshake("Disconnected", <<>>, <<>>, {})
           /\ Listens("Disconnected", ls, <<>>, <<>>, {}, 0)
           /\ Flight("Disconnected", <<>>, <<>>, out)
           /\ \A x, l : Stream(<<>>, x, l, L)
<1>1. Count(<<>>, "listen") = 0 /\ Count(<<>>, "listenOk") = 0
    BY CountFew
<1> QED
    BY <1>1, FlightIdle, StreamEmpty DEF Handshake, Listens

\* The connection is lost.
LEMMA OnDisconnectStep ==
    ASSUME ClientInv, NEW c \in Clients, OnDisconnect(c)
    PROVE  ClientInv'
<1>1. TypeInv /\ OneInv(c)
    BY DEF ClientInv
<1>2. /\ c \notin acking /\ faults.disconnects < MaxDisconnects
      /\ faults' = [faults EXCEPT !.disconnects = @ + 1]
      /\ connectionState' = [connectionState EXCEPT ![c] = "Disconnected"]
      /\ unackedListensCount' = [unackedListensCount EXCEPT ![c] = 0]
      /\ toServer' = [toServer EXCEPT ![c] = <<>>]
      /\ toClient' = [toClient EXCEPT ![c] = <<>>]
      /\ served' = [served EXCEPT ![c] = {}]
      /\ UNCHANGED <<listens, outstandingPuts, putsToAck, acking, syncVars, screenVars, log,
                     scene>>
    BY DEF OnDisconnect, QueueIsFree
<1>3. /\ connectionState'[c] = "Disconnected" /\ unackedListensCount'[c] = 0
      /\ toServer'[c] = <<>> /\ toClient'[c] = <<>> /\ served'[c] = {}
    BY <1>1, <1>2 DEF TypeInv, TypeOK
<1>4. TypeInv'
    <2>1. /\ connectionState' \in [Clients -> States] /\ unackedListensCount' \in [Clients -> Nat]
          /\ served' \in [Clients -> SUBSET Locations]
        BY <1>1, <1>2 DEF TypeInv, TypeOK, States
    <2>2. /\ DOMAIN toServer' = Clients /\ DOMAIN toClient' = Clients
          /\ \A d \in Clients : toServer'[d] \in Seq(Requests) /\ toClient'[d] \in Seq(Messages)
        BY <1>1, <1>2 DEF TypeInv, TypeOK
    <2>3. faults' \in [disconnects : 0 .. MaxDisconnects, kills : 0 .. MaxKills]
        <3>1. PICK n \in 0 .. MaxDisconnects, k \in 0 .. MaxKills :
                  faults = [disconnects |-> n, kills |-> k]
            BY <1>1 DEF TypeInv, TypeOK
        <3>2. n < MaxDisconnects /\ faults' = [disconnects |-> n + 1, kills |-> k]
            BY <1>2, <3>1
        <3>3. n + 1 \in 0 .. MaxDisconnects
            BY <3>2, BoundsAssumption
        <3> QED  BY <3>2, <3>3
    <2> QED  BY <1>1, <1>2, <2>1, <2>2, <2>3 DEF TypeInv, TypeOK, syncVars, screenVars
<1>5. HandshakeInv(c)' /\ ListenInv(c)' /\ FlightInv(c)'
    BY <1>3, IdleParts DEF HandshakeInv, ListenInv, FlightInv
<1>6. HoldInv(c)'
    <2>1. putsToAck[c] # <<>> => listens[c] # {}
        BY <1>1, <1>2 DEF OneInv, HoldInv, ListenInv, Listens
    <2> QED  BY <1>2, <1>3, <2>1 DEF HoldInv
<1>7. ObserveInv(c)' /\ PendingInv(c)' /\ CacheInv(c)'
    BY <1>1, <1>2 DEF OneInv, ObserveInv, PendingInv, CacheInv, syncVars
<1>8. StreamInv(c)' /\ AnswerInv(c)' /\ SettledInv(c)'
    BY <1>2, <1>3, IdleParts DEF StreamInv, AnswerInv, SettledInv
<1>9. OneInv(c)'
    BY <1>5, <1>6, <1>7, <1>8 DEF OneInv
<1>10. \A d \in Clients \ {c} : Untouched(d)
    BY <1>1, <1>2 DEF TypeInv, TypeOK, Untouched, syncVars
<1> QED
    BY <1>2, <1>4, <1>9, <1>10, Assemble DEF syncVars

\* The process is killed.
LEMMA KillStep ==
    ASSUME ClientInv, NEW c \in Clients, Kill(c)
    PROVE  ClientInv'
<1>1. TypeInv /\ OneInv(c)
    BY DEF ClientInv
<1>2. /\ connectionState'[c] = "Disconnected" /\ unackedListensCount'[c] = 0
      /\ toServer'[c] = <<>> /\ toClient'[c] = <<>> /\ served'[c] = {} /\ listens'[c] = {}
      /\ outstandingPuts'[c] = <<>> /\ putsToAck'[c] = <<>> /\ c \notin acking'
      /\ allWrites'[c] = <<>> /\ log' = log /\ issued' = issued
      /\ observing' = {s \in observing : Owner[s] # c}
    BY <1>1 DEF TypeInv, TypeOK, Kill
<1>3. /\ \A l \in Locations : serverCache'[c][l] = NoData
      /\ \A l \in Locations : cachePos'[c][l] = NotSynced
    BY <1>1 DEF TypeInv, TypeOK, Kill
<1>4. TypeInv'
    <2>1. /\ connectionState' \in [Clients -> States] /\ unackedListensCount' \in [Clients -> Nat]
          /\ served' \in [Clients -> SUBSET Locations] /\ listens' \in [Clients -> SUBSET Locations]
          /\ acking' \subseteq Clients /\ observing' \subseteq Screens
        BY <1>1 DEF TypeInv, TypeOK, Kill, States
    <2>2. /\ outstandingPuts' \in [Clients -> Seq(Writes)]
          /\ allWrites' \in [Clients -> Seq(Writes)]
          /\ putsToAck' \in [Clients -> Seq([w : Writes, ok : BOOLEAN])]
        <3>1. /\ outstandingPuts \in [Clients -> Seq(Writes)]
              /\ allWrites \in [Clients -> Seq(Writes)]
              /\ putsToAck \in [Clients -> Seq([w : Writes, ok : BOOLEAN])]
            BY <1>1 DEF TypeInv, TypeOK
        <3>2. /\ outstandingPuts' = [outstandingPuts EXCEPT ![c] = <<>>]
              /\ allWrites' = [allWrites EXCEPT ![c] = <<>>]
              /\ putsToAck' = [putsToAck EXCEPT ![c] = <<>>]
            BY DEF Kill
        <3>3. <<>> \in Seq(Writes) /\ <<>> \in Seq([w : Writes, ok : BOOLEAN])
            OBVIOUS
        <3>4. \A S, f, g, e : f \in [Clients -> S] /\ g = [f EXCEPT ![c] = e] /\ e \in S =>
                  g \in [Clients -> S]
            OBVIOUS
        <3> QED  BY <3>1, <3>2, <3>3, <3>4, Zenon
    <2>3. /\ DOMAIN toServer' = Clients /\ DOMAIN toClient' = Clients
          /\ \A d \in Clients : toServer'[d] \in Seq(Requests) /\ toClient'[d] \in Seq(Messages)
        <3>1. /\ DOMAIN toServer = Clients /\ DOMAIN toClient = Clients
              /\ \A d \in Clients : toServer[d] \in Seq(Requests) /\ toClient[d] \in Seq(Messages)
            BY <1>1 DEF TypeInv, TypeOK
        <3>2. /\ toServer' = [toServer EXCEPT ![c] = <<>>]
              /\ toClient' = [toClient EXCEPT ![c] = <<>>]
            BY DEF Kill
        <3> QED  BY <3>1, <3>2
    <2>4. /\ DOMAIN events' = Screens /\ DOMAIN shown' = Screens
          /\ \A s \in Screens : /\ events'[s] \in Seq(DataIn(Looks[s]))
                                /\ shown'[s] \in DataIn(Looks[s]) \cup {NoData}
        <3>1. \A s \in Screens : /\ events[s] \in Seq(DataIn(Looks[s]))
                                 /\ shown[s] \in DataIn(Looks[s]) \cup {NoData}
            BY <1>1 DEF TypeInv, TypeOK
        <3>2. /\ events' = [s \in Screens |-> IF Owner[s] = c THEN <<>> ELSE events[s]]
              /\ shown' = [s \in Screens |-> IF Owner[s] = c THEN NoData ELSE shown[s]]
            BY DEF Kill
        <3>3. \A s \in Screens : <<>> \in Seq(DataIn(Looks[s]))
            OBVIOUS
        <3> QED  BY <3>1, <3>2, <3>3
    <2>5. /\ DOMAIN serverCache' = Clients
          /\ \A d \in Clients : DOMAIN serverCache'[d] = Locations
          /\ \A d \in Clients, l \in Locations : serverCache'[d][l] \in DataIn(l) \cup {NoData}
        <3>1. /\ DOMAIN serverCache = Clients
              /\ \A d \in Clients : DOMAIN serverCache[d] = Locations
              /\ \A d \in Clients, l \in Locations : serverCache[d][l] \in DataIn(l) \cup {NoData}
            BY <1>1 DEF TypeInv, TypeOK
        <3>2. serverCache' = [serverCache EXCEPT ![c] = [l \in Locations |-> NoData]]
            BY DEF Kill
        <3>3. \A d \in Clients : \/ d = c /\ serverCache'[d] = [l \in Locations |-> NoData]
                                 \/ d # c /\ serverCache'[d] = serverCache[d]
            BY <3>1, <3>2
        <3> QED  BY <3>1, <3>2, <3>3
    <2>6. cachePos' \in [Clients -> [Locations -> Nat \cup {NotSynced}]]
        <3>1. [l \in Locations |-> NotSynced] \in [Locations -> Nat \cup {NotSynced}]
            OBVIOUS
        <3> QED  BY <1>1, <3>1 DEF TypeInv, TypeOK, Kill
    <2>7. faults' \in [disconnects : 0 .. MaxDisconnects, kills : 0 .. MaxKills]
        <3>1. PICK n \in 0 .. MaxDisconnects, k \in 0 .. MaxKills :
                  faults = [disconnects |-> n, kills |-> k]
            BY <1>1 DEF TypeInv, TypeOK
        <3>2. k < MaxKills /\ faults' = [disconnects |-> n, kills |-> k + 1]
            BY <3>1 DEF Kill
        <3>3. k + 1 \in 0 .. MaxKills
            BY <3>2, BoundsAssumption
        <3> QED  BY <3>2, <3>3
    <2>8. \A d \in Clients : IsFiniteSet(listens'[d])
        <3>1. \A d \in Clients : listens'[d] = {} \/ listens'[d] = listens[d]
            BY <1>1 DEF TypeInv, TypeOK, Kill
        <3> QED  BY <1>1, <3>1, FS_EmptySet DEF TypeInv
    <2>9. issued \in Seq(Writes) /\ log \in Seq(Writes)
        BY <1>1 DEF TypeInv, TypeOK
    <2> QED  BY <1>2, <2>1, <2>2, <2>3, <2>4, <2>5, <2>6, <2>7, <2>8, <2>9 DEF TypeInv, TypeOK
<1>5. HandshakeInv(c)' /\ ListenInv(c)' /\ FlightInv(c)' /\ HoldInv(c)'
    BY <1>2, IdleParts DEF HandshakeInv, ListenInv, FlightInv, HoldInv
<1>6. ObserveInv(c)'
    BY <1>2 DEF ObserveInv
<1>7. PendingInv(c)'
    <2>1. Held(<<>>) \o <<>> = <<>>
        <3>1. Held(<<>>) = <<>>
            BY DEF Held
        <3> QED  BY <3>1
    <2>2. IsInjective(<<>>) /\ In(<<>>) = {}
        BY DEF IsInjective, In
    <2> QED  BY <1>2, <2>1, <2>2 DEF PendingInv
<1>8. CacheInv(c)'
    <2>1. NotSynced <= Len(log)
        <3>1. log \in Seq(Writes)
            BY <1>1 DEF TypeInv, TypeOK
        <3> QED  BY <3>1, LenProperties DEF NotSynced
    <2> QED  BY <1>2, <1>3, <2>1 DEF CacheInv
<1>9. StreamInv(c)' /\ AnswerInv(c)' /\ SettledInv(c)'
    BY <1>2, IdleParts DEF StreamInv, AnswerInv, SettledInv
<1>10. OneInv(c)'
    BY <1>5, <1>6, <1>7, <1>8, <1>9 DEF OneInv
<1>11. \A d \in Clients \ {c} : Untouched(d)
    BY <1>1 DEF TypeInv, TypeOK, Untouched, Kill
<1>12. \A t : Owner[t] # c => (t \in observing <=> t \in observing')
    BY <1>2
<1> QED
    BY <1>2, <1>4, <1>10, <1>11, <1>12, Assemble

-------------------------------------------------------------------------------
\* The server

\* The connection of a client.
LEMMA LinkNow ==
    ASSUME TypeInv, NEW d \in Clients, OneInv(d)
    PROVE  Link(connectionState[d], listens[d], toServer[d], toClient[d], served[d],
                unackedListensCount[d], outstandingPuts[d], cachePos[d], log)
<1>1. \A l \in Locations : cachePos[d][l] \in Int /\ cachePos[d][l] <= Len(log)
    BY CacheKnown DEF OneInv
<1> QED
    BY <1>1 DEF OneInv, HandshakeInv, ListenInv, FlightInv, StreamInv, Link

\* The log is made of writes.
LEMMA LogWrites ==
    ASSUME TypeInv
    PROVE  In(log) \subseteq Writes
<1>1. log \in Seq(Writes)
    BY DEF TypeInv, TypeOK
<1> QED  BY <1>1, ElementOfSeq, LenProperties DEF In

\* The server sends messages ms to client d behind the queue q, after which the
\* log is L, the queue of the client's requests r and its listens srv.
Sends(d, L, q, ms, r, srv) ==
    /\ UNCHANGED <<connectionVars, syncVars>>
    /\ log' = L
    /\ L = log \/ \E w \in Writes : L = Append(log, w)
    /\ toClient[d] = q
    /\ toClient'[d] = q \o ms
    /\ toServer'[d] = r
    /\ served'[d] = srv
    /\ Link(connectionState[d], listens[d], r, q \o ms, srv, unackedListensCount[d],
            outstandingPuts[d], cachePos[d], L)
    /\ \A v \in In(log), i \in Int :
          Arrives(q, toServer[d], cachePos[d][WriteLoc(v)], log, v, i) =>
             Arrives(q \o ms, r, cachePos[d][WriteLoc(v)], L, v, i)
    /\ \A v \in In(L) \ In(log) :
          /\ \A i \in DOMAIN q : Put(q[i]) => q[i].w # v
          /\ \A i \in DOMAIN putsToAck[d] : putsToAck[d][i].w # v
          /\ Writer[v] = d => v \in In(allWrites[d])
    /\ \A i \in DOMAIN ms :
          Put(ms[i]) /\ ms[i].w \in In(L) /\ WriteLoc(ms[i].w) \in listens[d] =>
             Arrives(q \o ms, r, cachePos[d][WriteLoc(ms[i].w)], L, ms[i].w, Len(q) + i)
    /\ \A i \in DOMAIN ms, l \in Locations : Tells(ms[i], l) => ms[i].pos = Len(L)

\* The invariant of client d after that.
LEMMA ServedOne ==
    ASSUME TypeInv, NEW d \in Clients, OneInv(d),
           NEW L \in Seq(Writes), NEW q \in Seq(Messages), NEW ms \in Seq(Messages),
           NEW r, NEW srv, Sends(d, L, q, ms, r, srv)
    PROVE  OneInv(d)'
<1> USE DEF Sends
<1>1. HandshakeInv(d)' /\ ListenInv(d)' /\ FlightInv(d)' /\ StreamInv(d)'
    BY DEF Link, HandshakeInv, ListenInv, FlightInv, StreamInv, connectionVars, syncVars
<1>2. ObserveInv(d)' /\ HoldInv(d)' /\ PendingInv(d)'
    BY DEF OneInv, ObserveInv, HoldInv, PendingInv, connectionVars, syncVars
<1>3. PICK N \in Nat, M \in Nat :
          /\ N = Len(log) /\ M = Len(L) /\ N <= M /\ DOMAIN log = 1 .. N /\ DOMAIN L = 1 .. M
          /\ \A i \in 1 .. N : i \in 1 .. M /\ L[i] = log[i]
    <2>1. log \in Seq(Writes)
        BY DEF TypeInv, TypeOK
    <2>2. PICK N \in Nat, M \in Nat :
              N = Len(log) /\ M = Len(L) /\ DOMAIN log = 1 .. N /\ DOMAIN L = 1 .. M
        BY <2>1, LenProperties
    <2>3. \/ L = log
          \/ M = N + 1 /\ \A i \in 1 .. N : L[i] = log[i]
        <3>1. ASSUME NEW w \in Writes, L = Append(log, w)
              PROVE  M = N + 1 /\ \A i \in 1 .. N : L[i] = log[i]
            <4>1. /\ Len(Append(log, w)) = Len(log) + 1
                  /\ \A i \in 1 .. Len(log) : Append(log, w)[i] = log[i]
                BY <2>1, AppendProperties
            <4> QED  BY <2>2, <3>1, <4>1
        <3> QED  BY <3>1
    <2>4. N <= M /\ \A i \in 1 .. N : i \in 1 .. M /\ L[i] = log[i]
        BY <2>2, <2>3
    <2> QED  BY <2>2, <2>4
<1>4. CacheInv(d)'
    <2>1. ASSUME NEW l \in Locations
          PROVE  /\ cachePos[d][l] <= Len(L)
                 /\ serverCache[d][l] = IF cachePos[d][l] = NotSynced THEN NoData
                                        ELSE DataAt(L, cachePos[d][l], l)
        <3>1. cachePos[d][l] \in Int /\ cachePos[d][l] <= N /\ log \in Seq(Writes)
            BY <1>3, CacheKnown DEF OneInv, TypeInv, TypeOK
        <3>2. ASSUME cachePos[d][l] # NotSynced
              PROVE  DataAt(L, cachePos[d][l], l) = DataAt(log, cachePos[d][l], l)
            <4>1. cachePos[d][l] \in 0 .. Len(log)
                BY <3>2, CacheKnown DEF OneInv
            <4>2. CASE L = log
                BY <4>2
            <4>3. CASE \E w \in Writes : L = Append(log, w)
                BY <3>1, <4>1, <4>3, DataAtPrefix
            <4> QED  BY <4>2, <4>3
        <3>3. cachePos[d][l] <= Len(L)
            BY <1>3, <3>1
        <3> QED  BY <3>2, <3>3 DEF OneInv, CacheInv
    <2> QED  BY <2>1 DEF CacheInv, syncVars
<1>5. In(log) \subseteq In(L)
    BY <1>3 DEF In
<1>6. /\ \A i \in DOMAIN (q \o ms) :
            \/ i \in DOMAIN q /\ (q \o ms)[i] = q[i] /\ q[i] \in Messages
            \/ \E j \in DOMAIN ms : i = Len(q) + j /\ (q \o ms)[i] = ms[j] /\ ms[j] \in Messages
      /\ DOMAIN q \subseteq Int
    <2>1. /\ \A i \in DOMAIN q : q[i] \in Messages
          /\ \A i \in DOMAIN ms : ms[i] \in Messages
        BY ElementOfSeq, LenProperties
    <2>2. /\ \A i \in DOMAIN (q \o ms) :
                \/ i \in DOMAIN q /\ (q \o ms)[i] = q[i]
                \/ i > Len(q) /\ i - Len(q) \in DOMAIN ms /\ (q \o ms)[i] = ms[i - Len(q)]
          /\ DOMAIN q = 1 .. Len(q) /\ Len(q) \in Nat /\ DOMAIN (q \o ms) = 1 .. Len(q) + Len(ms)
          /\ Len(ms) \in Nat
        BY ConcatIndex
    <2>3. \A i \in DOMAIN (q \o ms) : i = Len(q) + (i - Len(q))
        BY <2>2
    <2> QED  BY <2>1, <2>2, <2>3
<1>7. AnswerInv(d)'
    <2>1. ASSUME NEW w \in Writes, w \in In(L), WriteLoc(w) \in listens[d], NEW i \in DOMAIN (q \o ms),
                 Put((q \o ms)[i]), (q \o ms)[i].w = w
          PROVE  Arrives(q \o ms, r, cachePos[d][WriteLoc(w)], L, w, i)
        <3>1. CASE i \in DOMAIN q /\ (q \o ms)[i] = q[i]
            <4>1. w \in In(log)
                BY <2>1, <3>1
            <4>2. Arrives(q, toServer[d], cachePos[d][WriteLoc(w)], log, w, i)
                BY <2>1, <3>1, <4>1 DEF OneInv, AnswerInv, Matters, Comes
            <4> QED  BY <1>6, <3>1, <4>1, <4>2
        <3>2. CASE \E j \in DOMAIN ms : i = Len(q) + j /\ (q \o ms)[i] = ms[j]
            BY <2>1, <3>2
        <3> QED  BY <1>6, <3>1, <3>2
    <2>2. ASSUME NEW w \in Writes, w \in In(L), WriteLoc(w) \in listens[d],
                 NEW i \in DOMAIN putsToAck[d], putsToAck[d][i].w = w
          PROVE  connectionState[d] # "Connected" \/
                    Arrives(q \o ms, r, cachePos[d][WriteLoc(w)], L, w, 1)
        <3>1. w \in In(log)
            BY <2>2
        <3>2. \/ connectionState[d] # "Connected"
              \/ Arrives(q, toServer[d], cachePos[d][WriteLoc(w)], log, w, 1)
            BY <2>2, <3>1 DEF OneInv, AnswerInv, Matters, Comes
        <3> QED  BY <3>1, <3>2
    <2>3. \A i \in DOMAIN (q \o ms) : Put((q \o ms)[i]) => (q \o ms)[i].w \in Writes
        BY <1>6, MessageFields DEF Put
    <2>4. \A i \in DOMAIN putsToAck[d] : putsToAck[d][i].w \in Writes
        <3>1. putsToAck[d] \in Seq([w : Writes, ok : BOOLEAN])
            BY DEF TypeInv, TypeOK
        <3> QED  BY <3>1, HeldType
    <2> QED  BY <2>1, <2>2, <2>3, <2>4 DEF AnswerInv, Matters, Comes, connectionVars, syncVars
<1>8. SettledInv(d)'
    <2>1. ASSUME NEW w \in In(issued) \cap In(L), Writer[w] = d, w \notin In(allWrites[d]),
                 NEW j \in DOMAIN (q \o ms), Tells((q \o ms)[j], WriteLoc(w))
          PROVE  Has(L, (q \o ms)[j].pos, w)
        <3>1. w \in In(log)
            BY <2>1
        <3>2. w \in Writes /\ WriteLoc(w) \in Locations
            <4>1. w \in Writes
                BY ElementOfSeq, LenProperties DEF In
            <4> QED  BY <4>1, SyncTreeAssumption DEF WriteLoc
        <3>3. CASE j \in DOMAIN q /\ (q \o ms)[j] = q[j] /\ q[j] \in Messages
            <4>1. PICK p \in Nat : p = q[j].pos
                BY <2>1, <3>3, MessageFields
            <4>2. Has(log, p, w)
                BY <2>1, <3>1, <3>3, <4>1 DEF OneInv, SettledInv
            <4>3. p <= N
                <5>1. Stream(q, cachePos[d][WriteLoc(w)], WriteLoc(w), log)
                    BY <3>2 DEF OneInv, StreamInv
                <5>2. q[j].pos <= Len(log) \/ q[j].pos \in DOMAIN log
                    BY <2>1, <3>3, <5>1 DEF Stream, Tells
                <5> QED  BY <1>3, <4>1, <5>2
            <4>4. PICK i \in 1 .. p : log[i] = w
                BY <4>2 DEF Has
            <4>5. i \in 1 .. N
                BY <4>3
            <4> QED  BY <1>3, <3>3, <4>1, <4>4, <4>5 DEF Has
        <3>4. CASE \E i \in DOMAIN ms : (q \o ms)[j] = ms[i]
            <4>1. (q \o ms)[j].pos = Len(L)
                BY <2>1, <3>2, <3>4
            <4> QED  BY <1>3, <2>1, <4>1 DEF Has, In
        <3> QED  BY <1>6, <3>3, <3>4
    <2> QED  BY <2>1 DEF SettledInv, syncVars
<1> QED
    BY <1>1, <1>2, <1>4, <1>7, <1>8 DEF OneInv

\* What is true of the queues after the server has taken a request.
LEMMA ServeTypes ==
    ASSUME TypeInv, NEW c \in Clients, NEW type, Serve(c, type)
    PROVE  /\ toServer[c] # <<>> /\ Head(toServer[c]).type = type
           /\ toServer[c] \in Seq(Requests) /\ Head(toServer[c]) \in Requests
           /\ toServer'[c] = Tail(toServer[c])
           /\ \A d \in Clients \ {c} : toServer'[d] = toServer[d]
           /\ UNCHANGED <<connectionVars, syncVars, screenVars, faults, scene>>
           /\ /\ log' \in Seq(Writes) /\ served' \in [Clients -> SUBSET Locations]
              /\ DOMAIN toClient' = Clients /\ \A d \in Clients : toClient'[d] \in Seq(Messages)
              => TypeInv'
<1>1. /\ toServer[c] # <<>> /\ Head(toServer[c]).type = type
      /\ toServer' = [toServer EXCEPT ![c] = Tail(@)]
      /\ UNCHANGED <<connectionVars, syncVars, screenVars, faults, scene>>
    BY DEF Serve
<1>2. /\ toServer[c] \in Seq(Requests) /\ Head(toServer[c]) \in Requests
      /\ Tail(toServer[c]) \in Seq(Requests)
    BY <1>1, Queues, TailIndex
<1>3. /\ DOMAIN toServer' = Clients /\ toServer'[c] = Tail(toServer[c])
      /\ \A d \in Clients \ {c} : toServer'[d] = toServer[d]
    BY <1>1 DEF TypeInv
<1>4. \A d \in Clients : toServer'[d] \in Seq(Requests)
    <2>1. \A d \in Clients : toServer[d] \in Seq(Requests)
        BY DEF TypeInv, TypeOK
    <2> QED  BY <1>2, <1>3, <2>1
<1>5. ASSUME /\ log' \in Seq(Writes) /\ served' \in [Clients -> SUBSET Locations]
             /\ DOMAIN toClient' = Clients /\ \A d \in Clients : toClient'[d] \in Seq(Messages)
      PROVE  TypeInv'
    BY <1>1, <1>3, <1>4, <1>5 DEF TypeInv, TypeOK, connectionVars, syncVars, screenVars
<1> QED
    BY <1>1, <1>2, <1>3, <1>5

\* The server answers one client and applies nothing.
LEMMA AssembleServed ==
    ASSUME ClientInv, NEW c \in Clients, TypeInv', OneInv(c)', log' = log,
           UNCHANGED <<connectionVars, syncVars>>,
           \A d \in Clients \ {c} :
              toServer'[d] = toServer[d] /\ toClient'[d] = toClient[d] /\ served'[d] = served[d]
    PROVE  ClientInv'
<1>1. \A d \in Clients \ {c} : Untouched(d)
    BY DEF Untouched, connectionVars, syncVars
<1> QED
    BY <1>1, Assemble DEF syncVars

\* The server takes the token.
LEMMA ServeAuthStep ==
    ASSUME ClientInv, NEW c \in Clients, ServeAuth(c)
    PROVE  ClientInv'
<1>1. TypeInv /\ OneInv(c)
    BY DEF ClientInv
<1>2. /\ Serve(c, "auth") /\ served' = served /\ log' = log
      /\ toClient' = [toClient EXCEPT ![c] = Append(@, [type |-> "authOk"])]
    BY DEF ServeAuth
<1>3. /\ toServer[c] # <<>> /\ Head(toServer[c]).type = "auth"
      /\ toServer[c] \in Seq(Requests) /\ toServer'[c] = Tail(toServer[c])
      /\ \A d \in Clients \ {c} : toServer'[d] = toServer[d]
      /\ UNCHANGED <<connectionVars, syncVars, screenVars, faults, scene>>
      /\ /\ log' \in Seq(Writes) /\ served' \in [Clients -> SUBSET Locations]
         /\ DOMAIN toClient' = Clients /\ \A d \in Clients : toClient'[d] \in Seq(Messages)
         => TypeInv'
    BY <1>1, <1>2, ServeTypes
<1>4. PICK q \in Seq(Messages), L \in Seq(Writes), r \in Seq(Requests) :
          q = toClient[c] /\ L = log /\ r = toServer[c]
    BY <1>1, Queues
<1>5. PICK m \in Messages, ms \in Seq(Messages) :
          /\ m = [type |-> "authOk"] /\ ms = <<m>> /\ DOMAIN ms = {1} /\ ms[1] = m
          /\ Append(q, m) = q \o ms
    <2>1. PICK m \in Messages : m = [type |-> "authOk"]
        BY DEF Messages
    <2>2. /\ <<m>> \in Seq(Messages) /\ DOMAIN <<m>> = {1} /\ <<m>>[1] = m
          /\ Append(q, m) = q \o <<m>>
        BY AppendIndex
    <2> QED  BY <2>1, <2>2, Zenon
<1>6. /\ toClient'[c] = q \o ms /\ DOMAIN toClient' = Clients
      /\ \A d \in Clients \ {c} : toClient'[d] = toClient[d]
    BY <1>1, <1>2, <1>4, <1>5 DEF TypeInv
<1>7. TypeInv'
    <2>1. \A d \in Clients : toClient'[d] \in Seq(Messages)
        <3>1. q \o ms \in Seq(Messages) /\ \A d \in Clients : toClient[d] \in Seq(Messages)
            BY <1>1, ConcatProperties DEF TypeInv, TypeOK
        <3> QED  BY <1>6, <3>1
    <2> QED  BY <1>1, <1>2, <1>3, <1>6, <2>1 DEF TypeInv, TypeOK
<1>8. /\ Link(connectionState[c], listens[c], Tail(r), q \o ms, served[c],
              unackedListensCount[c], outstandingPuts[c], cachePos[c], L)
      /\ \A v \in Writes, i \in Int : Arrives(q, r, cachePos[c][WriteLoc(v)], L, v, i) =>
            Arrives(q \o ms, Tail(r), cachePos[c][WriteLoc(v)], L, v, i)
    <2>1. Link(connectionState[c], listens[c], r, q, served[c], unackedListensCount[c],
               outstandingPuts[c], cachePos[c], L)
        BY <1>1, <1>4, LinkNow
    <2> QED  BY <1>3, <1>4, <1>5, <2>1, LinkAuth
<1>9. OneInv(c)'
    <2>1. \A i \in DOMAIN ms : ~Put(ms[i]) /\ \A l \in Locations : ~Tells(ms[i], l)
        BY <1>5 DEF Put, Tells
    <2>2. PICK t \in {Tail(r)}, srv \in {served[c]} :
              t = toServer'[c] /\ srv = served'[c] /\ t = Tail(r) /\ srv = served[c]
        BY <1>2, <1>3, <1>4
    <2>3. Link(connectionState[c], listens[c], t, q \o ms, srv, unackedListensCount[c],
               outstandingPuts[c], cachePos[c], L)
        BY <2>2, <1>8
    <2>4. \A v \in In(log), i \in Int :
              Arrives(q, toServer[c], cachePos[c][WriteLoc(v)], log, v, i) =>
                 Arrives(q \o ms, t, cachePos[c][WriteLoc(v)], L, v, i)
        <3>1. In(log) \subseteq Writes
            BY <1>1, LogWrites
        <3> QED  BY <1>4, <1>8, <2>2, <3>1
    <2>5. \A v \in In(L) : v \in In(log)
        BY <1>4
    <2>6. log' = L /\ L = log /\ toClient[c] = q /\ toClient'[c] = q \o ms
        BY <1>2, <1>4, <1>6
    <2>7. UNCHANGED <<connectionVars, syncVars>>
        BY <1>3
    <2>8. Sends(c, L, q, ms, t, srv)
        BY <2>1, <2>2, <2>3, <2>4, <2>5, <2>6, <2>7 DEF Sends
    <2> QED  BY <1>1, <2>8, ServedOne
<1> QED
    BY <1>2, <1>3, <1>6, <1>7, <1>9, AssembleServed

\* The server takes a listen.
LEMMA ServeListenStep ==
    ASSUME ClientInv, NEW c \in Clients, ServeListen(c)
    PROVE  ClientInv'
<1>1. TypeInv /\ OneInv(c)
    BY DEF ClientInv
<1>2. /\ Serve(c, "listen") /\ log' = log
      /\ served' = [served EXCEPT ![c] = @ \cup {Head(toServer[c]).loc}]
      /\ toClient' = [toClient EXCEPT ![c] = @ \o
              <<[type |-> "snapshot", loc |-> Head(toServer[c]).loc, pos |-> Len(log),
                 data |-> DataAt(log, Len(log), Head(toServer[c]).loc)],
                [type |-> "listenOk", loc |-> Head(toServer[c]).loc]>>]
    BY DEF ServeListen
<1>3. /\ toServer[c] # <<>> /\ Head(toServer[c]).type = "listen" /\ Head(toServer[c]) \in Requests
      /\ toServer[c] \in Seq(Requests) /\ toServer'[c] = Tail(toServer[c])
      /\ \A d \in Clients \ {c} : toServer'[d] = toServer[d]
      /\ UNCHANGED <<connectionVars, syncVars, screenVars, faults, scene>>
      /\ /\ log' \in Seq(Writes) /\ served' \in [Clients -> SUBSET Locations]
         /\ DOMAIN toClient' = Clients /\ \A d \in Clients : toClient'[d] \in Seq(Messages)
         => TypeInv'
    BY <1>1, <1>2, ServeTypes
<1>4. PICK q \in Seq(Messages), L \in Seq(Writes), r \in Seq(Requests), l \in Locations :
          q = toClient[c] /\ L = log /\ r = toServer[c] /\ l = Head(r).loc
    BY <1>1, <1>3, Queues, RequestFields
<1>5. PICK m \in Messages, o \in Messages :
          /\ m = [type |-> "snapshot", loc |-> l, pos |-> Len(L), data |-> DataAt(L, Len(L), l)]
          /\ o = [type |-> "listenOk", loc |-> l]
    <2>1. Len(L) \in Nat /\ DataAt(L, Len(L), l) \in UNION {DataIn(k) : k \in Locations}
        <3>1. Len(L) \in Nat
            BY LenProperties
        <3>2. Len(L) \in 0 .. Len(L)
            BY <3>1
        <3>3. DataAt(L, Len(L), l) \in DataIn(l)
            BY <3>2, DataAtType
        <3> QED  BY <3>1, <3>3
    <2>2. /\ [type |-> "snapshot", loc |-> l, pos |-> Len(L), data |-> DataAt(L, Len(L), l)]
                \in [type : {"snapshot"}, loc : Locations, pos : Nat,
                     data : UNION {DataIn(k) : k \in Locations}]
          /\ [type |-> "listenOk", loc |-> l] \in [type : {"listenOk"}, loc : Locations]
        BY <2>1
    <2> QED  BY <2>2 DEF Messages
<1>6. PICK ms \in Seq(Messages) :
          ms = <<m, o>> /\ DOMAIN ms = 1 .. 2 /\ ms[1] = m /\ ms[2] = o
    <2>1. /\ <<m, o>> \in Seq(Messages) /\ DOMAIN <<m, o>> = 1 .. 2
          /\ <<m, o>>[1] = m /\ <<m, o>>[2] = o
        OBVIOUS
    <2> QED  BY <2>1, Zenon
<1>7. /\ toClient'[c] = q \o ms /\ DOMAIN toClient' = Clients
      /\ \A d \in Clients \ {c} : toClient'[d] = toClient[d]
      /\ served'[c] = served[c] \cup {l} /\ served' \in [Clients -> SUBSET Locations]
      /\ \A d \in Clients \ {c} : served'[d] = served[d]
    <2>1. /\ toClient' = [toClient EXCEPT ![c] = q \o ms]
        BY <1>2, <1>4, <1>5, <1>6
    <2> QED  BY <1>1, <1>2, <1>4, <2>1, ZenonT(60) DEF TypeInv, TypeOK
<1>8. TypeInv'
    <2>1. \A d \in Clients : toClient'[d] \in Seq(Messages)
        <3>1. q \o ms \in Seq(Messages) /\ \A d \in Clients : toClient[d] \in Seq(Messages)
            BY <1>1, ConcatProperties DEF TypeInv, TypeOK
        <3> QED  BY <1>7, <3>1
    <2> QED  BY <1>1, <1>2, <1>3, <1>7, <2>1 DEF TypeInv, TypeOK
<1>9. m.type = "snapshot" /\ m.loc = l /\ m.pos = Len(L) /\ m.data = DataAt(L, Len(L), l)
      /\ o.type = "listenOk"
    BY <1>5
<1>10. /\ Link(connectionState[c], listens[c], Tail(r), q \o ms, served[c] \cup {l},
               unackedListensCount[c], outstandingPuts[c], cachePos[c], L)
       /\ \A v \in In(L), i \in Int : Arrives(q, r, cachePos[c][WriteLoc(v)], L, v, i) =>
             Arrives(q \o ms, Tail(r), cachePos[c][WriteLoc(v)], L, v, i)
    <2>1. Link(connectionState[c], listens[c], r, q, served[c], unackedListensCount[c],
               outstandingPuts[c], cachePos[c], L)
        BY <1>1, <1>4, LinkNow
    <2> QED  BY <1>3, <1>4, <1>6, <1>9, <2>1, LinkListen, ZenonT(60)
<1>11. OneInv(c)'
    <2>1. \A i \in DOMAIN ms : ~Put(ms[i]) /\ \A k \in Locations : Tells(ms[i], k) => ms[i].pos = Len(L)
        <3>1. \A i \in 1 .. 2 : i = 1 \/ i = 2
            OBVIOUS
        <3> QED  BY <1>6, <1>9, <3>1 DEF Put, Tells
    <2>2. PICK t \in {Tail(r)}, srv \in {served[c] \cup {l}} :
              t = toServer'[c] /\ srv = served'[c] /\ t = Tail(r) /\ srv = served[c] \cup {l}
        BY <1>2, <1>3, <1>4, <1>7
    <2>3. Link(connectionState[c], listens[c], t, q \o ms, srv, unackedListensCount[c],
               outstandingPuts[c], cachePos[c], L)
        BY <2>2, <1>10
    <2>4. \A v \in In(log), i \in Int :
              Arrives(q, toServer[c], cachePos[c][WriteLoc(v)], log, v, i) =>
                 Arrives(q \o ms, t, cachePos[c][WriteLoc(v)], L, v, i)
        BY <1>4, <2>2, <1>10
    <2>5. \A v \in In(L) : v \in In(log)
        BY <1>4
    <2>6. log' = L /\ L = log /\ toClient[c] = q /\ toClient'[c] = q \o ms
        BY <1>2, <1>4, <1>7
    <2>7. UNCHANGED <<connectionVars, syncVars>>
        BY <1>3
    <2>8. Sends(c, L, q, ms, t, srv)
        BY <2>1, <2>2, <2>3, <2>4, <2>5, <2>6, <2>7 DEF Sends
    <2> QED  BY <1>1, <2>8, ServedOne
<1> QED
    BY <1>2, <1>3, <1>7, <1>8, <1>11, AssembleServed

\* What the server sends for a put: the answer, and the news to who listens.
Answer(w, ok) == [type |-> "put", w |-> w, ok |-> ok]
Update(w, n) == [type |-> "update", w |-> w, pos |-> n]

\* The put the server takes is one of a write that is pending.
LEMMA ServePutParts ==
    ASSUME ClientInv, NEW c \in Clients, ServePut(c)
    PROVE  \E w \in Writes :
               /\ Serve(c, "put") /\ UNCHANGED served
               /\ w = Head(toServer[c]).w /\ Put(Head(toServer[c]))
               /\ w \in In(outstandingPuts[c]) /\ w \in In(allWrites[c]) /\ Writer[w] = c
               /\ \A i \in DOMAIN putsToAck[c] : putsToAck[c][i].w # w
               /\ \/ /\ log' = Append(log, w)
                     /\ toClient' = [d \in Clients |-> toClient[d]
                           \o (IF WriteLoc(w) \in served[d] THEN <<Update(w, Len(log) + 1)>>
                                                            ELSE <<>>)
                           \o (IF d = c THEN <<Answer(w, TRUE)>> ELSE <<>>)]
                  \/ /\ toClient' = [toClient EXCEPT ![c] = Append(@, Answer(w, FALSE))]
                     /\ UNCHANGED log
<1>1. TypeInv /\ OneInv(c)
    BY DEF ClientInv
<1>2. PICK w \in {Head(toServer[c]).w} :
          /\ w = Head(toServer[c]).w /\ Serve(c, "put") /\ UNCHANGED served
          /\ \/ /\ log' = Append(log, w)
                /\ toClient' = [d \in Clients |-> toClient[d]
                      \o (IF WriteLoc(w) \in served[d] THEN <<Update(w, Len(log) + 1)>>
                                                       ELSE <<>>)
                      \o (IF d = c THEN <<Answer(w, TRUE)>> ELSE <<>>)]
             \/ /\ toClient' = [toClient EXCEPT ![c] = Append(@, Answer(w, FALSE))]
                /\ UNCHANGED log
    BY DEF ServePut, Answer, Update
<1>3. /\ toServer[c] # <<>> /\ Head(toServer[c]).type = "put" /\ Head(toServer[c]) \in Requests
      /\ toServer[c] \in Seq(Requests)
    BY <1>1, <1>2, ServeTypes
<1>4. w \in Writes /\ Put(Head(toServer[c]))
    BY <1>2, <1>3, RequestFields DEF Put
<1>5. w \in In(outstandingPuts[c])
    <2>1. 1 \in DOMAIN toServer[c] /\ Head(toServer[c]) = toServer[c][1]
        BY <1>3, TailIndex
    <2>2. \A i \in DOMAIN toServer[c] : Put(toServer[c][i]) => toServer[c][i].w \in In(outstandingPuts[c])
        BY <1>1 DEF OneInv, FlightInv, Flight
    <2> QED  BY <1>2, <1>4, <2>1, <2>2
<1>6. /\ w \in In(allWrites[c]) /\ Writer[w] = c
      /\ \A i \in DOMAIN putsToAck[c] : putsToAck[c][i].w # w
    <2>1. PendingInv(c)
        BY <1>1 DEF OneInv
    <2>2. /\ In(allWrites[c]) = In(Held(putsToAck[c])) \cup In(outstandingPuts[c])
          /\ \A i \in DOMAIN putsToAck[c] : putsToAck[c][i].w \notin In(outstandingPuts[c])
        BY <1>1, <2>1, PendingParts
    <2> QED  BY <1>5, <2>1, <2>2 DEF PendingInv
<1> QED
    BY <1>2, <1>4, <1>5, <1>6

\* The server refuses a write.
LEMMA RefuseStep ==
    ASSUME ClientInv, NEW c \in Clients, Serve(c, "put"), NEW w \in Writes,
           w = Head(toServer[c]).w, served' = served, log' = log,
           toClient' = [toClient EXCEPT ![c] = Append(@, Answer(w, FALSE))]
    PROVE  ClientInv'
<1>1. TypeInv /\ OneInv(c)
    BY DEF ClientInv
<1>2. /\ toServer[c] # <<>> /\ Head(toServer[c]).type = "put" /\ toServer[c] \in Seq(Requests)
      /\ toServer'[c] = Tail(toServer[c])
      /\ \A d \in Clients \ {c} : toServer'[d] = toServer[d]
      /\ UNCHANGED <<connectionVars, syncVars, screenVars, faults, scene>>
      /\ /\ log' \in Seq(Writes) /\ served' \in [Clients -> SUBSET Locations]
         /\ DOMAIN toClient' = Clients /\ \A d \in Clients : toClient'[d] \in Seq(Messages)
         => TypeInv'
    BY <1>1, ServeTypes
<1>3. PICK q \in Seq(Messages), L \in Seq(Writes), r \in Seq(Requests), srv \in {served[c]} :
          /\ q = toClient[c] /\ L = log /\ r = toServer[c] /\ srv = served[c]
          /\ r # <<>> /\ Put(Head(r))
    BY <1>1, <1>2, Queues DEF Put
<1>4. PICK m \in Messages, ms \in Seq(Messages) :
          /\ m = Answer(w, FALSE) /\ ms = <<m>> /\ DOMAIN ms = {1} /\ ms[1] = m
          /\ Append(q, m) = q \o ms
    <2>1. PICK m \in Messages : m = Answer(w, FALSE)
        <3>1. Answer(w, FALSE) \in [type : {"put"}, w : Writes, ok : BOOLEAN]
            BY DEF Answer
        <3> QED  BY <3>1 DEF Messages
    <2>2. /\ <<m>> \in Seq(Messages) /\ DOMAIN <<m>> = {1} /\ <<m>>[1] = m
          /\ Append(q, m) = q \o <<m>>
        BY AppendIndex
    <2> QED  BY <2>1, <2>2, Zenon
<1>5. Put(m) /\ m.w = w
    BY <1>4 DEF Put, Answer
<1>6. /\ toClient'[c] = q \o ms /\ DOMAIN toClient' = Clients
      /\ \A d \in Clients \ {c} : toClient'[d] = toClient[d]
    BY <1>1, <1>3, <1>4 DEF TypeInv
<1>7. TypeInv'
    <2>1. \A d \in Clients : toClient'[d] \in Seq(Messages)
        <3>1. q \o ms \in Seq(Messages) /\ \A d \in Clients : toClient[d] \in Seq(Messages)
            BY <1>1, ConcatProperties DEF TypeInv, TypeOK
        <3> QED  BY <1>6, <3>1
    <2> QED  BY <1>1, <1>2, <1>6, <2>1 DEF TypeInv, TypeOK
<1>8. PICK t \in {Tail(r)} :
          /\ t = toServer'[c]
          /\ Link(connectionState[c], listens[c], t, q \o ms, srv, unackedListensCount[c],
                  outstandingPuts[c], cachePos[c], L)
          /\ \A v \in Writes, i \in Int : Arrives(q, r, cachePos[c][WriteLoc(v)], L, v, i) =>
                Arrives(q \o ms, t, cachePos[c][WriteLoc(v)], L, v, i)
          /\ w \in In(L) /\ WriteLoc(w) \in listens[c] =>
                Arrives(q \o ms, t, cachePos[c][WriteLoc(w)], L, w, Len(q) + 1)
    <2>1. Link(connectionState[c], listens[c], r, q, srv, unackedListensCount[c],
               outstandingPuts[c], cachePos[c], L)
        BY <1>1, <1>3, LinkNow
    <2>2. outstandingPuts[c] \in Seq(Writes) /\ m.w = Head(r).w
        BY <1>1, <1>3, <1>5 DEF TypeInv, TypeOK
    <2>3. /\ Link(connectionState[c], listens[c], Tail(r), q \o <<m>>, srv,
                  unackedListensCount[c], outstandingPuts[c], cachePos[c], L)
          /\ \A v \in Writes, i \in Int : Arrives(q, r, cachePos[c][WriteLoc(v)], L, v, i) =>
                Arrives(q \o <<m>>, Tail(r), cachePos[c][WriteLoc(v)], L, v, i)
          /\ m.w \in In(L) /\ WriteLoc(m.w) \in listens[c] =>
                Arrives(q \o <<m>>, Tail(r), cachePos[c][WriteLoc(m.w)], L, m.w, Len(q) + 1)
        BY <1>3, <1>5, <2>1, <2>2, LinkAnswer
    <2>4. toServer'[c] = Tail(r) /\ q \o <<m>> = q \o ms /\ m.w = w
        BY <1>2, <1>3, <1>4, <1>5
    <2> QED  BY <2>3, <2>4, Zenon
<1>9. OneInv(c)'
    <2>1. /\ \A i \in DOMAIN ms, l \in Locations : ~Tells(ms[i], l)
          /\ \A i \in DOMAIN ms : ms[i].w = w /\ i = 1
        BY <1>4, <1>5 DEF Put, Tells
    <2>2. \A v \in In(log), i \in Int :
              Arrives(q, toServer[c], cachePos[c][WriteLoc(v)], log, v, i) =>
                 Arrives(q \o ms, t, cachePos[c][WriteLoc(v)], L, v, i)
        <3>1. In(log) \subseteq Writes
            BY <1>1, LogWrites
        <3> QED  BY <1>3, <1>8, <3>1
    <2>3. \A v \in In(L) : v \in In(log)
        BY <1>3
    <2>4. log' = L /\ L = log /\ toClient[c] = q /\ toClient'[c] = q \o ms /\ served'[c] = srv
        BY <1>3, <1>6
    <2>5. UNCHANGED <<connectionVars, syncVars>>
        BY <1>2
    <2>6. \A i \in DOMAIN ms :
              Put(ms[i]) /\ ms[i].w \in In(L) /\ WriteLoc(ms[i].w) \in listens[c] =>
                 Arrives(q \o ms, t, cachePos[c][WriteLoc(ms[i].w)], L, ms[i].w, Len(q) + i)
        BY <1>8, <2>1
    <2>7. Sends(c, L, q, ms, t, srv)
        BY <1>8, <2>1, <2>2, <2>3, <2>4, <2>5, <2>6 DEF Sends
    <2> QED  BY <1>1, <2>7, ServedOne
<1> QED
    BY <1>2, <1>6, <1>7, <1>9, AssembleServed
\* What an accepted write sends to a client that listens where it was made.
News(d, w, n) == IF WriteLoc(w) \in served[d] THEN <<Update(w, n)>> ELSE <<>>

\* The connection of client d when the server has applied a write.
LEMMA NewsLink ==
    ASSUME ClientInv, NEW d \in Clients, NEW w \in Writes
    PROVE  \E q \in Seq(Messages), L \in Seq(Writes), r \in Seq(Requests), A \in Seq(Messages) :
               /\ q = toClient[d] /\ L = log /\ r = toServer[d]
               /\ A = News(d, w, Len(log) + 1)
               /\ \A i \in DOMAIN A : A[i].type = "update" /\ A[i].pos = Len(L) + 1
               /\ Link(connectionState[d], listens[d], r, q \o A, served[d],
                       unackedListensCount[d], outstandingPuts[d], cachePos[d], Append(L, w))
               /\ \A v \in Writes, i \in Int : Arrives(q, r, cachePos[d][WriteLoc(v)], L, v, i) =>
                     Arrives(q \o A, r, cachePos[d][WriteLoc(v)], Append(L, w), v, i)
<1>1. TypeInv /\ OneInv(d)
    BY DEF ClientInv
<1>2. PICK q \in Seq(Messages), L \in Seq(Writes), r \in Seq(Requests) :
          q = toClient[d] /\ L = log /\ r = toServer[d]
    BY <1>1, Queues
<1>3. PICK n \in Nat : n = Len(L) + 1 /\ n = Len(log) + 1
    BY <1>2, LenProperties
<1>4. PICK u \in Messages : u = Update(w, n) /\ u.type = "update" /\ u.w = w /\ u.pos = n
    <2>1. Update(w, n) \in [type : {"update"}, w : Writes, pos : Nat]
        BY DEF Update
    <2>2. Update(w, n) \in Messages
        BY <2>1 DEF Messages
    <2> QED  BY <2>2 DEF Update
<1>5. PICK A \in Seq(Messages) :
          /\ A = IF WriteLoc(w) \in served[d] THEN <<u>> ELSE <<>>
          /\ \A i \in DOMAIN A : A[i] = u
    <2>1. /\ <<u>> \in Seq(Messages) /\ DOMAIN <<u>> = {1} /\ <<u>>[1] = u
          /\ <<>> \in Seq(Messages) /\ DOMAIN <<>> = {}
        BY AppendIndex
    <2>2. CASE WriteLoc(w) \in served[d]
        BY <2>1, <2>2, Zenon
    <2>3. CASE WriteLoc(w) \notin served[d]
        BY <2>1, <2>3, Zenon
    <2> QED  BY <2>2, <2>3
<1>6. Link(connectionState[d], listens[d], r, q, served[d], unackedListensCount[d],
           outstandingPuts[d], cachePos[d], L)
    BY <1>1, <1>2, LinkNow
<1>7. connectionState[d] \in States
    BY <1>1 DEF TypeInv, TypeOK
<1>8. /\ Link(connectionState[d], listens[d], r, q \o A, served[d],
              unackedListensCount[d], outstandingPuts[d], cachePos[d], Append(L, w))
      /\ \A v \in Writes, i \in Int : Arrives(q, r, cachePos[d][WriteLoc(v)], L, v, i) =>
            Arrives(q \o A, r, cachePos[d][WriteLoc(v)], Append(L, w), v, i)
    BY <1>3, <1>4, <1>5, <1>6, <1>7, LinkUpdate, ZenonT(60)
<1>9. A = News(d, w, Len(log) + 1)
    BY <1>3, <1>4, <1>5 DEF News
<1>10. \A i \in DOMAIN A : A[i].type = "update" /\ A[i].pos = Len(L) + 1
    BY <1>3, <1>4, <1>5
<1> QED
    BY <1>2, <1>8, <1>9, <1>10, Zenon

\* The longer log, and what is new in it.
LEMMA Longer ==
    ASSUME NEW L \in Seq(Writes), NEW w \in Writes
    PROVE  /\ Append(L, w) \in Seq(Writes) /\ Len(Append(L, w)) = Len(L) + 1
           /\ \A v \in In(Append(L, w)) \ In(L) : v = w
<1>1. /\ Append(L, w) \in Seq(Writes) /\ Len(Append(L, w)) = Len(L) + 1
      /\ In(Append(L, w)) = In(L) \cup {w}
    BY AppendProperties, InAppend
<1> QED
    BY <1>1

\* Another client is told of an accepted write, if it listens there.
LEMMA AcceptOther ==
    ASSUME ClientInv, NEW w \in Writes, NEW d \in Clients, Writer[w] # d,
           UNCHANGED <<connectionVars, syncVars>>, served' = served, log' = Append(log, w),
           toServer'[d] = toServer[d], toClient'[d] = toClient[d] \o News(d, w, Len(log) + 1)
    PROVE  toClient'[d] \in Seq(Messages) /\ OneInv(d)'
<1>1. TypeInv /\ OneInv(d)
    BY DEF ClientInv
<1>2. PICK q \in Seq(Messages), L \in Seq(Writes), r \in Seq(Requests), A \in Seq(Messages) :
          /\ q = toClient[d] /\ L = log /\ r = toServer[d]
          /\ A = News(d, w, Len(log) + 1)
          /\ \A i \in DOMAIN A : A[i].type = "update" /\ A[i].pos = Len(L) + 1
          /\ Link(connectionState[d], listens[d], r, q \o A, served[d],
                  unackedListensCount[d], outstandingPuts[d], cachePos[d], Append(L, w))
          /\ \A v \in Writes, i \in Int : Arrives(q, r, cachePos[d][WriteLoc(v)], L, v, i) =>
                Arrives(q \o A, r, cachePos[d][WriteLoc(v)], Append(L, w), v, i)
    BY NewsLink
<1>3. PICK K \in Seq(Writes) :
          K = Append(L, w) /\ Len(K) = Len(L) + 1 /\ \A v \in In(K) \ In(L) : v = w
    BY Longer
<1>4. PICK srv \in {served[d]} : srv = served[d] /\ srv = served'[d]
    OBVIOUS
<1>5. \A i \in DOMAIN A : ~Put(A[i])
    BY <1>2 DEF Put
<1>6. \A v \in In(K) \ In(log) :
          /\ \A i \in DOMAIN q : Put(q[i]) => q[i].w # v
          /\ \A i \in DOMAIN putsToAck[d] : putsToAck[d][i].w # v
          /\ Writer[v] = d => v \in In(allWrites[d])
    <2>1. PendingInv(d)
        BY <1>1 DEF OneInv
    <2>2. /\ In(allWrites[d]) = In(Held(putsToAck[d])) \cup In(outstandingPuts[d])
        BY <1>1, <2>1, PendingParts
    <2>3. \A v \in In(allWrites[d]) : Writer[v] = d
        BY <2>1 DEF PendingInv
    <2>4. \A i \in DOMAIN q : Put(q[i]) => q[i].w \in In(outstandingPuts[d])
        BY <1>1, <1>2 DEF OneInv, FlightInv, Flight
    <2>5. \A i \in DOMAIN putsToAck[d] : putsToAck[d][i].w \in In(Held(putsToAck[d]))
        <3>1. putsToAck[d] \in Seq([w : Writes, ok : BOOLEAN])
            BY <1>1 DEF TypeInv, TypeOK
        <3>2. /\ DOMAIN Held(putsToAck[d]) = DOMAIN putsToAck[d]
              /\ \A i \in DOMAIN putsToAck[d] : Held(putsToAck[d])[i] = putsToAck[d][i].w
            BY <3>1, HeldType
        <3> QED  BY <3>2 DEF In
    <2> QED  BY <1>2, <1>3, <2>2, <2>3, <2>4, <2>5
<1>7. Link(connectionState[d], listens[d], r, q \o A, srv, unackedListensCount[d],
           outstandingPuts[d], cachePos[d], K)
    BY <1>2, <1>3, <1>4
<1>8. \A v \in In(log), i \in Int :
          Arrives(q, toServer[d], cachePos[d][WriteLoc(v)], log, v, i) =>
             Arrives(q \o A, r, cachePos[d][WriteLoc(v)], K, v, i)
    <2>1. In(log) \subseteq Writes
        BY <1>1, LogWrites
    <2> QED  BY <1>2, <1>3, <2>1
<1>9. /\ log' = K /\ K = Append(log, w) /\ toClient[d] = q /\ toClient'[d] = q \o A
      /\ toServer'[d] = r /\ served'[d] = srv
    BY <1>2, <1>3, <1>4
<1>10. \A i \in DOMAIN A, l \in Locations : Tells(A[i], l) => A[i].pos = Len(K)
    BY <1>2, <1>3
<1>11. OneInv(d)'
    <2>1. \A i \in DOMAIN A :
              Put(A[i]) /\ A[i].w \in In(K) /\ WriteLoc(A[i].w) \in listens[d] =>
                 Arrives(q \o A, r, cachePos[d][WriteLoc(A[i].w)], K, A[i].w, Len(q) + i)
        BY <1>5
    <2>2. K = log \/ \E x \in Writes : K = Append(log, x)
        BY <1>9
    <2>3. /\ log' = K /\ toClient[d] = q /\ toClient'[d] = q \o A
          /\ toServer'[d] = r /\ served'[d] = srv /\ UNCHANGED <<connectionVars, syncVars>>
        BY <1>9
    <2>4. Sends(d, K, q, A, r, srv)
        BY <1>6, <1>7, <1>8, <1>10, <2>1, <2>2, <2>3, Zenon DEF Sends
    <2> QED  BY <1>1, <2>4, ServedOne
<1> QED
    BY <1>9, <1>11, ConcatProperties

\* The writer is told of its accepted write, then that it was accepted.
Takes(c, w) ==
    /\ UNCHANGED <<connectionVars, syncVars>> /\ served' = served /\ log' = Append(log, w)
    /\ toServer[c] # <<>> /\ Put(Head(toServer[c])) /\ w = Head(toServer[c]).w
    /\ \A i \in DOMAIN putsToAck[c] : putsToAck[c][i].w # w
    /\ w \in In(allWrites[c])
    /\ toServer'[c] = Tail(toServer[c])
    /\ toClient'[c] = toClient[c] \o News(c, w, Len(log) + 1) \o <<Answer(w, TRUE)>>

\* The writer's own connection after the server has accepted its put.
LEMMA AcceptSelf ==
    ASSUME ClientInv, NEW c \in Clients, NEW w \in Writes, Takes(c, w)
    PROVE  toClient'[c] \in Seq(Messages) /\ OneInv(c)'
<1>1. TypeInv /\ OneInv(c)
    BY DEF ClientInv
<1>2. PICK q \in Seq(Messages), L \in Seq(Writes), r \in Seq(Requests), A \in Seq(Messages) :
          /\ q = toClient[c] /\ L = log /\ r = toServer[c]
          /\ A = News(c, w, Len(log) + 1)
          /\ \A i \in DOMAIN A : A[i].type = "update" /\ A[i].pos = Len(L) + 1
          /\ Link(connectionState[c], listens[c], r, q \o A, served[c],
                  unackedListensCount[c], outstandingPuts[c], cachePos[c], Append(L, w))
          /\ \A v \in Writes, i \in Int : Arrives(q, r, cachePos[c][WriteLoc(v)], L, v, i) =>
                Arrives(q \o A, r, cachePos[c][WriteLoc(v)], Append(L, w), v, i)
    BY NewsLink
<1>3. PICK K \in Seq(Writes) :
          K = Append(L, w) /\ Len(K) = Len(L) + 1 /\ \A v \in In(K) \ In(L) : v = w
    BY Longer
<1>4. PICK m \in Messages, o \in Seq(Messages) :
          /\ m = Answer(w, TRUE) /\ o = <<m>> /\ DOMAIN o = {1} /\ o[1] = m /\ Len(o) = 1
    <2>1. PICK m \in Messages : m = Answer(w, TRUE)
        <3>1. Answer(w, TRUE) \in [type : {"put"}, w : Writes, ok : BOOLEAN]
            BY DEF Answer
        <3> QED  BY <3>1 DEF Messages
    <2>2. <<m>> \in Seq(Messages) /\ DOMAIN <<m>> = {1} /\ <<m>>[1] = m /\ Len(<<m>>) = 1
        BY AppendIndex
    <2> QED  BY <2>1, <2>2, Zenon
<1>5. Put(m) /\ m.w = w /\ m.type = "put"
    BY <1>4 DEF Put, Answer
<1>6. PICK p \in Seq(Messages), ms \in Seq(Messages) :
          p = q \o A /\ ms = A \o o /\ q \o ms = p \o o
    <2>1. q \o A \in Seq(Messages) /\ A \o o \in Seq(Messages)
        BY ConcatProperties
    <2>2. (q \o A) \o o = q \o (A \o o)
        BY ConcatAssociative, SMTT(60)
    <2> QED  BY <2>1, <2>2, Zenon
<1>7. PICK srv \in {served[c]}, out \in Seq(Writes) :
          srv = served[c] /\ srv = served'[c] /\ out = outstandingPuts[c]
    BY <1>1 DEF TypeInv, TypeOK, Takes
<1>8. /\ Link(connectionState[c], listens[c], Tail(r), p \o <<m>>, srv,
              unackedListensCount[c], out, cachePos[c], K)
      /\ \A v \in Writes, i \in Int : Arrives(p, r, cachePos[c][WriteLoc(v)], K, v, i) =>
            Arrives(p \o <<m>>, Tail(r), cachePos[c][WriteLoc(v)], K, v, i)
      /\ m.w \in In(K) /\ WriteLoc(m.w) \in listens[c] =>
            Arrives(p \o <<m>>, Tail(r), cachePos[c][WriteLoc(m.w)], K, m.w, Len(p) + 1)
      /\ \A i \in DOMAIN p : Put(p[i]) => p[i].w # m.w
    <2>1. Link(connectionState[c], listens[c], r, p, srv, unackedListensCount[c],
               out, cachePos[c], K)
        BY <1>2, <1>3, <1>6, <1>7
    <2>2. r # <<>> /\ Put(Head(r)) /\ m.w = Head(r).w
        BY <1>2, <1>5 DEF Takes
    <2>3. /\ r \in Seq(Requests) /\ p \in Seq(Messages) /\ out \in Seq(Writes)
          /\ K \in Seq(Writes) /\ m \in Messages /\ Put(m)
        BY <1>5
    <2>4. /\ Link(connectionState[c], listens[c], Tail(r), p \o <<m>>, srv,
                  unackedListensCount[c], out, cachePos[c], K)
          /\ \A v \in Writes, i \in Int : Arrives(p, r, cachePos[c][WriteLoc(v)], K, v, i) =>
                Arrives(p \o <<m>>, Tail(r), cachePos[c][WriteLoc(v)], K, v, i)
          /\ m.w \in In(K) /\ WriteLoc(m.w) \in listens[c] =>
                Arrives(p \o <<m>>, Tail(r), cachePos[c][WriteLoc(m.w)], K, m.w, Len(p) + 1)
          /\ connectionState[c] = "Connected" /\ m.w \in In(out)
          /\ \A i \in DOMAIN p : Put(p[i]) => p[i].w # m.w
        BY <2>1, <2>2, <2>3, LinkAnswer
    <2> QED  BY <2>4, Zenon
<1>9. PICK t \in {Tail(r)} : t = Tail(r) /\ t = toServer'[c]
    BY <1>2 DEF Takes
<1>10. p \o <<m>> = q \o ms
    BY <1>4, <1>6
<1>11. Link(connectionState[c], listens[c], t, q \o ms, srv, unackedListensCount[c],
            outstandingPuts[c], cachePos[c], K)
    BY <1>7, <1>8, <1>9, <1>10, Zenon
<1>12. \A v \in In(log), i \in Int :
           Arrives(q, toServer[c], cachePos[c][WriteLoc(v)], log, v, i) =>
              Arrives(q \o ms, t, cachePos[c][WriteLoc(v)], K, v, i)
    <2>1. In(log) \subseteq Writes
        BY <1>1, LogWrites
    <2>2. \A v \in Writes, i \in Int : Arrives(q, r, cachePos[c][WriteLoc(v)], L, v, i) =>
              Arrives(p, r, cachePos[c][WriteLoc(v)], K, v, i)
        BY <1>2, <1>3, <1>6
    <2>3. \A v \in Writes, i \in Int : Arrives(p, r, cachePos[c][WriteLoc(v)], K, v, i) =>
              Arrives(q \o ms, t, cachePos[c][WriteLoc(v)], K, v, i)
        BY <1>8, <1>9, <1>10, Zenon
    <2> QED  BY <1>2, <2>1, <2>2, <2>3
<1>13. \A v \in In(K) \ In(log) :
           /\ \A i \in DOMAIN q : Put(q[i]) => q[i].w # v
           /\ \A i \in DOMAIN putsToAck[c] : putsToAck[c][i].w # v
           /\ Writer[v] = c => v \in In(allWrites[c])
    <2>1. \A i \in DOMAIN q : i \in DOMAIN p /\ p[i] = q[i]
        BY <1>6, ConcatIndex
    <2>2. \A i \in DOMAIN q : Put(q[i]) => q[i].w # w
        BY <1>5, <1>8, <2>1
    <2> QED  BY <1>2, <1>3, <2>2 DEF Takes
<1>14. \A i \in DOMAIN ms :
           \/ ~Put(ms[i]) /\ ms[i].pos = Len(K)
           \/ ms[i] = m /\ Len(q) + i = Len(p) + 1
    <2>1. PICK a \in Nat, n \in Nat : a = Len(A) /\ n = Len(q) /\ Len(p) = n + a
        BY <1>6, ConcatProperties, LenProperties
    <2>2. \A i \in DOMAIN ms :
              \/ i \in DOMAIN A /\ ms[i] = A[i]
              \/ i - a \in {1} /\ i \in Nat /\ ms[i] = o[i - a]
        <3>1. /\ \A i \in DOMAIN (A \o o) :
                    \/ i \in DOMAIN A /\ (A \o o)[i] = A[i]
                    \/ i > Len(A) /\ i - Len(A) \in DOMAIN o /\ (A \o o)[i] = o[i - Len(A)]
              /\ DOMAIN (A \o o) = 1 .. Len(A) + Len(o)
            BY ConcatIndex
        <3>2. DOMAIN ms \subseteq Nat
            BY LenProperties
        <3> QED  BY <1>4, <1>6, <2>1, <3>1, <3>2
    <2>3. \A i \in Nat : i - a = 1 => n + i = (n + a) + 1
        BY <2>1
    <2>4. \A i \in DOMAIN A : ~Put(A[i]) /\ A[i].pos = Len(K)
        BY <1>2, <1>3 DEF Put
    <2> QED  BY <1>4, <2>1, <2>2, <2>3, <2>4
<1>15. \A i \in DOMAIN ms :
           Put(ms[i]) /\ ms[i].w \in In(K) /\ WriteLoc(ms[i].w) \in listens[c] =>
              Arrives(q \o ms, t, cachePos[c][WriteLoc(ms[i].w)], K, ms[i].w, Len(q) + i)
    <2>1. m.w \in In(K) /\ WriteLoc(m.w) \in listens[c] =>
              Arrives(q \o ms, t, cachePos[c][WriteLoc(m.w)], K, m.w, Len(p) + 1)
        BY <1>8, <1>9, <1>10, Zenon
    <2> QED  BY <1>14, <2>1
<1>16. \A i \in DOMAIN ms, l \in Locations : Tells(ms[i], l) => ms[i].pos = Len(K)
    <2>1. \A l \in Locations : ~Tells(m, l)
        BY <1>5, SMTT(60) DEF Tells
    <2> QED  BY <1>14, <2>1
<1>17. /\ log' = K /\ K = Append(log, w) /\ toClient[c] = q /\ toClient'[c] = q \o ms
       /\ toServer'[c] = t /\ served'[c] = srv
    BY <1>2, <1>3, <1>4, <1>6, <1>7, <1>9 DEF Takes
<1>18. OneInv(c)'
    <2>1. K = log \/ \E x \in Writes : K = Append(log, x)
        BY <1>17
    <2>2. /\ log' = K /\ toClient[c] = q /\ toClient'[c] = q \o ms
          /\ toServer'[c] = t /\ served'[c] = srv /\ UNCHANGED <<connectionVars, syncVars>>
        BY <1>17 DEF Takes
    <2>3. Sends(c, K, q, ms, t, srv)
        BY <1>11, <1>12, <1>13, <1>15, <1>16, <2>1, <2>2, Zenon DEF Sends
    <2> QED  BY <1>1, <2>3, ServedOne
<1> QED
    BY <1>17, <1>18, ConcatProperties

\* The server takes a put, and applies the write or refuses it.
LEMMA ServePutStep ==
    ASSUME ClientInv, NEW c \in Clients, ServePut(c)
    PROVE  /\ ClientInv' /\ UNCHANGED <<connectionVars, syncVars, screenVars, faults, scene>>
           /\ \/ UNCHANGED log
              \/ \E w \in Writes : w \in In(allWrites[Writer[w]]) /\ log' = Append(log, w)
<1>1. PICK w \in Writes :
          /\ Serve(c, "put") /\ UNCHANGED served
          /\ w = Head(toServer[c]).w /\ Put(Head(toServer[c]))
          /\ w \in In(outstandingPuts[c]) /\ w \in In(allWrites[c]) /\ Writer[w] = c
          /\ \A i \in DOMAIN putsToAck[c] : putsToAck[c][i].w # w
          /\ \/ /\ log' = Append(log, w)
                /\ toClient' = [d \in Clients |-> toClient[d]
                      \o (IF WriteLoc(w) \in served[d] THEN <<Update(w, Len(log) + 1)>>
                                                       ELSE <<>>)
                      \o (IF d = c THEN <<Answer(w, TRUE)>> ELSE <<>>)]
             \/ /\ toClient' = [toClient EXCEPT ![c] = Append(@, Answer(w, FALSE))]
                /\ UNCHANGED log
    BY ServePutParts
<1>2. TypeInv
    BY DEF ClientInv
<1>3. /\ toServer[c] # <<>> /\ toServer'[c] = Tail(toServer[c])
      /\ \A d \in Clients \ {c} : toServer'[d] = toServer[d]
      /\ UNCHANGED <<connectionVars, syncVars, screenVars, faults, scene>>
      /\ /\ log' \in Seq(Writes) /\ served' \in [Clients -> SUBSET Locations]
         /\ DOMAIN toClient' = Clients /\ \A d \in Clients : toClient'[d] \in Seq(Messages)
         => TypeInv'
    BY <1>1, <1>2, ServeTypes
<1>4. CASE /\ toClient' = [toClient EXCEPT ![c] = Append(@, Answer(w, FALSE))]
           /\ UNCHANGED log
    BY <1>1, <1>3, <1>4, RefuseStep
<1>5. CASE /\ log' = Append(log, w)
           /\ toClient' = [d \in Clients |-> toClient[d]
                 \o (IF WriteLoc(w) \in served[d] THEN <<Update(w, Len(log) + 1)>>
                                                  ELSE <<>>)
                 \o (IF d = c THEN <<Answer(w, TRUE)>> ELSE <<>>)]
    <2>1. /\ DOMAIN toClient' = Clients
          /\ \A d \in Clients : toClient'[d] =
                (toClient[d] \o News(d, w, Len(log) + 1))
                \o (IF d = c THEN <<Answer(w, TRUE)>> ELSE <<>>)
        BY <1>5 DEF News
    <2>2. toClient'[c] \in Seq(Messages) /\ OneInv(c)'
        <3>1. toClient'[c] = toClient[c] \o News(c, w, Len(log) + 1) \o <<Answer(w, TRUE)>>
            BY <2>1
        <3>2. UNCHANGED <<connectionVars, syncVars>> /\ served' = served
            BY <1>1, <1>3
        <3>3. Takes(c, w)
            BY <1>1, <1>3, <1>5, <3>1, <3>2 DEF Takes
        <3> QED  BY <3>3, AcceptSelf
    <2>3. ASSUME NEW d \in Clients, d # c
          PROVE  toClient'[d] \in Seq(Messages) /\ OneInv(d)'
        <3>1. toClient[d] \o News(d, w, Len(log) + 1) \in Seq(Messages)
            <4>1. PICK q \in Seq(Messages), A \in Seq(Messages) :
                      q = toClient[d] /\ A = News(d, w, Len(log) + 1)
                BY NewsLink
            <4> QED  BY <4>1, ConcatProperties
        <3>2. toClient'[d] = (toClient[d] \o News(d, w, Len(log) + 1)) \o <<>>
            BY <2>1, <2>3
        <3>3. toClient'[d] = toClient[d] \o News(d, w, Len(log) + 1)
            BY <3>1, <3>2, ConcatEmptySeq
        <3>4. UNCHANGED <<connectionVars, syncVars>> /\ served' = served
            BY <1>1, <1>3
        <3>5. Writer[w] # d /\ toServer'[d] = toServer[d]
            BY <1>1, <1>3, <2>3
        <3> QED  BY <1>5, <3>3, <3>4, <3>5, AcceptOther
    <2>4. \A d \in Clients : toClient'[d] \in Seq(Messages) /\ OneInv(d)'
        BY <2>2, <2>3
    <2>5. log' \in Seq(Writes) /\ served' \in [Clients -> SUBSET Locations]
        <3>1. log \in Seq(Writes) /\ served \in [Clients -> SUBSET Locations]
            BY <1>2 DEF TypeInv, TypeOK
        <3> QED  BY <1>1, <1>5, <3>1, AppendProperties
    <2>6. ClientInv'
        BY <1>3, <2>1, <2>4, <2>5 DEF ClientInv
    <2> QED  BY <1>1, <1>3, <1>5, <2>6
<1> QED
    BY <1>1, <1>4, <1>5
-------------------------------------------------------------------------------
\* The invariant

\* Nothing is connected, pending or known at first.
LEMMA ClientInit == Init => ClientInv
<1> SUFFICES ASSUME Init PROVE ClientInv
    OBVIOUS
<1>1. TypeInv
    <2>1. /\ <<>> \in Seq(Writes) /\ <<>> \in Seq([w : Writes, ok : BOOLEAN])
          /\ <<>> \in Seq(Requests) /\ <<>> \in Seq(Messages)
          /\ \A s \in Screens : <<>> \in Seq(DataIn(Looks[s]))
        OBVIOUS
    <2>2. /\ connectionState \in [Clients -> States] /\ listens \in [Clients -> SUBSET Locations]
          /\ unackedListensCount \in [Clients -> Nat] /\ acking \subseteq Clients
          /\ observing \subseteq Screens /\ served \in [Clients -> SUBSET Locations]
        BY DEF Init, States
    <2>3. \A S, f, e : f = [c \in Clients |-> e] /\ e \in S => f \in [Clients -> S]
        OBVIOUS
    <2>4. /\ outstandingPuts \in [Clients -> Seq(Writes)]
          /\ putsToAck \in [Clients -> Seq([w : Writes, ok : BOOLEAN])]
          /\ allWrites \in [Clients -> Seq(Writes)]
          /\ issued \in Seq(Writes) /\ log \in Seq(Writes)
        BY <2>1, <2>3, Zenon DEF Init
    <2>5. /\ \A c \in Clients : toServer[c] \in Seq(Requests) /\ toClient[c] \in Seq(Messages)
          /\ \A s \in Screens : events[s] \in Seq(DataIn(Looks[s])) /\ shown[s] = NoData
          /\ DOMAIN events = Screens /\ DOMAIN shown = Screens
          /\ DOMAIN toServer = Clients /\ DOMAIN toClient = Clients
        BY <2>1 DEF Init
    <2>6. /\ DOMAIN serverCache = Clients
          /\ \A c \in Clients : DOMAIN serverCache[c] = Locations
          /\ \A c \in Clients, l \in Locations : serverCache[c][l] = NoData
        BY DEF Init
    <2>7. cachePos \in [Clients -> [Locations -> Nat \cup {NotSynced}]]
        <3>1. [l \in Locations |-> NotSynced] \in [Locations -> Nat \cup {NotSynced}]
            OBVIOUS
        <3> QED  BY <3>1 DEF Init
    <2>8. faults \in [disconnects : 0 .. MaxDisconnects, kills : 0 .. MaxKills]
        <3>1. 0 \in 0 .. MaxDisconnects /\ 0 \in 0 .. MaxKills
            BY BoundsAssumption
        <3> QED  BY <3>1 DEF Init
    <2>9. \A c \in Clients : IsFiniteSet(listens[c])
        BY FS_EmptySet DEF Init
    <2> QED  BY <2>2, <2>4, <2>5, <2>6, <2>7, <2>8, <2>9 DEF TypeInv, TypeOK
<1>2. ASSUME NEW c \in Clients PROVE OneInv(c)
    <2>1. /\ connectionState[c] = "Disconnected" /\ unackedListensCount[c] = 0
          /\ toServer[c] = <<>> /\ toClient[c] = <<>> /\ served[c] = {} /\ listens[c] = {}
          /\ outstandingPuts[c] = <<>> /\ putsToAck[c] = <<>> /\ c \notin acking
          /\ allWrites[c] = <<>> /\ log = <<>> /\ observing = {}
        BY DEF Init
    <2>2. \A l \in Locations : serverCache[c][l] = NoData /\ cachePos[c][l] = NotSynced
        BY DEF Init
    <2>3. HandshakeInv(c) /\ ListenInv(c) /\ FlightInv(c) /\ HoldInv(c)
        BY <2>1, IdleParts DEF HandshakeInv, ListenInv, FlightInv, HoldInv
    <2>4. ObserveInv(c)
        BY <2>1 DEF ObserveInv
    <2>5. PendingInv(c)
        <3>1. Held(<<>>) = <<>>
            BY DEF Held
        <3>2. Held(<<>>) \o <<>> = <<>>
            BY <3>1
        <3>3. IsInjective(<<>>) /\ In(<<>>) = {}
            BY DEF IsInjective, In
        <3> QED  BY <2>1, <3>2, <3>3 DEF PendingInv
    <2>6. CacheInv(c)
        <3>1. NotSynced <= Len(log)
            BY <2>1 DEF NotSynced
        <3> QED  BY <2>2, <3>1 DEF CacheInv
    <2>7. StreamInv(c) /\ AnswerInv(c) /\ SettledInv(c)
        BY <2>1, IdleParts DEF StreamInv, AnswerInv, SettledInv
    <2> QED  BY <2>3, <2>4, <2>5, <2>6, <2>7 DEF OneInv
<1> QED
    BY <1>1, <1>2 DEF ClientInv

\* Every step keeps the invariant.
LEMMA ClientNext ==
    ASSUME ClientInv, [Next]_vars
    PROVE  ClientInv'
<1>1. CASE UNCHANGED vars
    <2>1. TypeInv'
        BY <1>1 DEF vars, connectionVars, syncVars, screenVars, networkVars, ClientInv, TypeInv, TypeOK
    <2>2. ASSUME NEW d \in Clients PROVE OneInv(d)'
        <3>1. OneInv(d) /\ Untouched(d) /\ log' = log /\ issued' = issued /\ observing' = observing
            BY <1>1 DEF vars, connectionVars, syncVars, networkVars, ClientInv, Untouched
        <3> QED  BY <3>1, Frame
    <2> QED  BY <2>1, <2>2 DEF ClientInv
<1>2. ASSUME NEW s \in Screens, Observe(s) \/ FireEvent(s) PROVE ClientInv'
    BY <1>2, ObserveStep, FireEventStep
<1>3. ASSUME NEW w \in Writes, SetValue(w) PROVE ClientInv'
    BY <1>3, SetValueStep
<1>4. ASSUME NEW c \in Clients, ClientStep(c) PROVE ClientInv'
    <2>1. CASE OnPutResponse(c)
        BY <2>1, HoldStep, AnswerStep
    <2> QED
        BY <1>4, <2>1, ReconnectStep, OnReadyStep, OnAuthResponseStep, OnListenResponseStep,
           AckPutsStep, OnSnapshotStep, OnUpdateStep DEF ClientStep
<1>5. ASSUME NEW c \in Clients, ServerStep(c) PROVE ClientInv'
    BY <1>5, ServeAuthStep, ServeListenStep, ServePutStep DEF ServerStep
<1>6. ASSUME NEW c \in Clients, OnDisconnect(c) \/ Kill(c) PROVE ClientInv'
    BY <1>6, OnDisconnectStep, KillStep
<1> QED
    BY <1>1, <1>2, <1>3, <1>4, <1>5, <1>6 DEF Next

\* Through lost connections, resent puts, answers held back and processes
\* killed: the queues of every connection, the puts on their way, the copy of the
\* server's data and the answers stay in line.
THEOREM ClientSound == Spec => []ClientInv
<1> QED
    BY ClientInit, ClientNext, PTL DEF Spec

\* The state of the SDK, of the connections and of the server keeps its type; the
\* count of unanswered listens never goes below zero.
THEOREM TypeCorrect == Spec => []TypeOK
<1>1. ClientInv => TypeOK
    BY DEF ClientInv, TypeInv
<1> QED
    BY <1>1, ClientSound, PTL

\* No put is forgotten: a pending write is outstanding, or its answer is held back
\* by a listen that is on its way or will be sent again.
THEOREM Tracked == Spec => []PendingIsTracked
<1>1. ClientInv => PendingIsTracked
    <2> SUFFICES ASSUME ClientInv, NEW c \in Clients
                 PROVE  /\ In(allWrites[c]) = In(outstandingPuts[c])
                                              \cup {p.w : p \in In(putsToAck[c])}
                        /\ putsToAck[c] # <<>> =>
                              \/ unackedListensCount[c] > 0 \/ c \in acking
                              \/ /\ listens[c] # {}
                                 /\ connectionState[c] \notin {"Connected"}
        BY DEF PendingIsTracked
    <2>1. TypeInv /\ PendingInv(c) /\ HoldInv(c)
        BY DEF ClientInv, OneInv
    <2>2. In(allWrites[c]) = In(outstandingPuts[c]) \cup {p.w : p \in In(putsToAck[c])}
        BY <2>1, PendingParts
    <2> QED  BY <2>1, <2>2 DEF HoldInv
<1> QED
    BY <1>1, ClientSound, PTL
-------------------------------------------------------------------------------
\* The client implements Replica

\* The operators of the data are the same in both modules.
LEMMA SameData ==
    /\ \A d, ws : R!Layer(d, ws) = Layer(d, ws)
    /\ \A lg, n, l : R!DataAt(lg, n, l) = DataAt(lg, n, l)
    /\ \A old, new : R!Changed(old, new) = Changed(old, new)
    /\ \A ws : R!In(ws) = In(ws)
    /\ \A w : R!WriteLoc(w) = WriteLoc(w)
    /\ R!NotSynced = NotSynced
<1>1. \A I : R!Latest(I) = Latest(I)
    BY DEF R!Latest, Latest
<1>2. \A ws, k : R!Setting(ws, k) = Setting(ws, k)
    BY DEF R!Setting, Setting
<1>3. \A d, ws : R!Layer(d, ws) = Layer(d, ws)
    BY <1>1, <1>2 DEF R!Layer, Layer
<1>4. \A l : R!NoChildren(l) = NoChildren(l)
    BY DEF R!NoChildren, NoChildren, R!KeysIn, KeysIn
<1>5. \A lg, n, l : R!DataAt(lg, n, l) = DataAt(lg, n, l)
    BY <1>3, <1>4 DEF R!DataAt, DataAt
<1> QED
    BY <1>3, <1>5 DEF R!Changed, Changed, R!In, In, R!WriteLoc, WriteLoc, R!NotSynced, NotSynced

\* What a client sees is what Replica says it sees.
LEMMA SameView ==
    ASSUME ClientInv, NEW c \in Clients, NEW l \in Locations
    PROVE  /\ R!Synced(c, l) <=> Complete(c, l)
           /\ Complete(c, l) =>
                 /\ R!View(c, l) = View(c, l)
                 /\ R!DataAt(log, cachePos[c][l], l) = serverCache[c][l]
<1>1. TypeInv /\ CacheInv(c)
    BY DEF ClientInv, OneInv
<1>2. /\ Complete(c, l) <=> cachePos[c][l] # NotSynced
      /\ Complete(c, l) => serverCache[c][l] = DataAt(log, cachePos[c][l], l)
    BY <1>1, CacheKnown
<1>3. R!Synced(c, l) <=> Complete(c, l)
    BY <1>2, SameData DEF R!Synced
<1>4. ASSUME Complete(c, l)
      PROVE  /\ R!View(c, l) = View(c, l)
             /\ R!DataAt(log, cachePos[c][l], l) = serverCache[c][l]
    BY <1>2, <1>4, SameData DEF R!View, View
<1> QED
    BY <1>3, <1>4

\* A screen listens at a location exactly if the client does.
LEMMA SameListening ==
    ASSUME ClientInv, NEW c \in Clients, NEW l \in Locations
    PROVE  R!Listening(c, l) <=> l \in listens[c]
<1>1. listens[c] = {Looks[s] : s \in {t \in observing : Owner[t] = c}}
    BY DEF ClientInv, OneInv, ObserveInv
<1> QED
    BY <1>1 DEF R!Listening

\* events is a function on the screens.
EventsInv == events = [s \in Screens |-> events[s]]

\* The calls of the app.
LEMMA CallsMap ==
    ASSUME ClientInv
    PROVE  /\ \A s \in Screens : Observe(s) => R!Observe(s)
           /\ \A s \in Screens : FireEvent(s) => R!FireEvent(s)
           /\ \A w \in Writes : SetValue(w) => R!SetValue(w)
<1>1. ASSUME NEW s \in Screens, Observe(s) PROVE R!Observe(s)
    <2>1. Owner[s] \in Clients /\ Looks[s] \in Locations
        BY SyncTreeAssumption
    <2>2. /\ s \notin observing /\ observing' = observing \cup {s}
          /\ events' = [events EXCEPT ![s] =
                IF Complete(Owner[s], Looks[s]) THEN Append(@, View(Owner[s], Looks[s])) ELSE @]
          /\ UNCHANGED <<log, issued, allWrites, cachePos, faults>>
        BY <1>1 DEF Observe
    <2>3. /\ R!Synced(Owner[s], Looks[s]) <=> Complete(Owner[s], Looks[s])
          /\ Complete(Owner[s], Looks[s]) =>
                R!View(Owner[s], Looks[s]) = View(Owner[s], Looks[s])
        BY <2>1, SameView
    <2>4. events' = [events EXCEPT ![s] =
              IF R!Synced(Owner[s], Looks[s]) THEN Append(@, R!View(Owner[s], Looks[s])) ELSE @]
        BY <2>2, <2>3
    <2> QED  BY <2>2, <2>4 DEF R!Observe
<1>2. ASSUME NEW s \in Screens, FireEvent(s) PROVE R!FireEvent(s)
    BY <1>2 DEF FireEvent, R!FireEvent, syncVars, networkVars
<1>3. ASSUME NEW w \in Writes, SetValue(w) PROVE R!SetValue(w)
    <2>1. PICK c \in Clients, l \in Locations : c = Writer[w] /\ l = WriteLoc(w)
        BY SyncTreeAssumption DEF WriteLoc
    <2>2. /\ w \notin In(issued) /\ issued' = Append(issued, w)
          /\ allWrites' = [allWrites EXCEPT ![c] = Append(@, w)]
          /\ RaiseEvents(c, l, IF Complete(c, l)
                               THEN Changed(View(c, l), Layer(serverCache[c][l],
                                                              Append(allWrites[c], w)))
                               ELSE <<>>)
          /\ UNCHANGED <<log, cachePos, observing, faults>>
        BY <1>3, <2>1 DEF SetValue
    <2>3. /\ R!Synced(c, l) <=> Complete(c, l)
          /\ Complete(c, l) => /\ R!View(c, l) = View(c, l)
                               /\ R!DataAt(log, cachePos[c][l], l) = serverCache[c][l]
        BY SameView
    <2>4. R!Raise(c, l, IF R!Synced(c, l)
                        THEN R!Changed(R!View(c, l), R!Layer(R!DataAt(log, cachePos[c][l], l),
                                                             Append(allWrites[c], w)))
                        ELSE <<>>)
        BY <2>2, <2>3, SameData DEF RaiseEvents, R!Raise
    <2>5. c = Writer[w] /\ l = R!WriteLoc(w) /\ w \notin R!In(issued)
        BY <2>1, <2>2, SameData
    <2> QED  BY <2>2, <2>4, <2>5 DEF R!SetValue
<1> QED
    BY <1>1, <1>2, <1>3

\* An answer: the oldest pending write is settled.
LEMMA SettlesMap ==
    ASSUME ClientInv, NEW c \in Clients, Settles(c), UNCHANGED <<log, faults>>
    PROVE  R!Settle(c)
<1>1. TypeInv /\ OneInv(c)
    BY DEF ClientInv
<1>2. /\ allWrites[c] # <<>> /\ AckWrite(c, Head(allWrites[c]))
      /\ Head(allWrites[c]) \in In(log) /\ WriteLoc(Head(allWrites[c])) \in listens[c] =>
            Has(log, cachePos[c][WriteLoc(Head(allWrites[c]))], Head(allWrites[c]))
    BY DEF Settles
<1>3. PICK w \in Writes, l \in Locations : w = Head(allWrites[c]) /\ l = WriteLoc(w)
    <2>1. allWrites[c] \in Seq(Writes)
        BY <1>1 DEF TypeInv, TypeOK
    <2>2. Head(allWrites[c]) \in Writes
        BY <1>2, <2>1, TailIndex
    <2> QED  BY <2>2, SyncTreeAssumption DEF WriteLoc
<1>4. /\ allWrites' = [allWrites EXCEPT ![c] = Tail(@)]
      /\ RaiseEvents(c, l, IF Complete(c, l)
                           THEN Changed(View(c, l), Layer(serverCache[c][l], Tail(allWrites[c])))
                           ELSE <<>>)
      /\ UNCHANGED <<serverCache, issued, observing, cachePos>>
    BY <1>1, <1>2, <1>3, AckParts
<1>5. \/ w \notin R!In(log)
      \/ R!Includes(cachePos[c][l], w)
      \/ ~R!Listening(c, l)
    BY <1>2, <1>3, SameData, SameListening DEF R!Includes, Has
<1>6. R!Raise(c, l, IF R!Synced(c, l)
                    THEN R!Changed(R!View(c, l), R!Layer(R!DataAt(log, cachePos[c][l], l),
                                                         Tail(allWrites[c])))
                    ELSE <<>>)
    <2>1. /\ R!Synced(c, l) <=> Complete(c, l)
          /\ Complete(c, l) => /\ R!View(c, l) = View(c, l)
                               /\ R!DataAt(log, cachePos[c][l], l) = serverCache[c][l]
        BY SameView
    <2> QED  BY <1>4, <2>1, SameData DEF RaiseEvents, R!Raise
<1>7. w = Head(allWrites[c]) /\ l = R!WriteLoc(w)
    BY <1>3, SameData
<1> QED
    BY <1>2, <1>4, <1>5, <1>6, <1>7 DEF R!Settle
\* Data of the server: the client sees a later prefix of the log, or the same.
LEMMA AdvanceMap ==
    ASSUME ClientInv, EventsInv, NEW c \in Clients, NEW l \in Locations,
           NEW n \in 0 .. Len(log), cachePos[c][l] <= n, l \in listens[c],
           toClient[c] # <<>>, Tells(Head(toClient[c]), l), n = Head(toClient[c]).pos,
           ApplyServerData(c, l, DataAt(log, n, l), n)
    PROVE  R!Advance(c, l, n) \/ UNCHANGED R!vars
<1>1. TypeInv /\ OneInv(c)
    BY DEF ClientInv
<1>2. /\ cachePos' = [cachePos EXCEPT ![c][l] = n]
      /\ RaiseEvents(c, l, IF Complete(c, l)
                           THEN Changed(View(c, l), Layer(DataAt(log, n, l), allWrites[c]))
                           ELSE <<Layer(DataAt(log, n, l), allWrites[c])>>)
      /\ UNCHANGED <<allWrites, issued, observing, log, faults>>
    BY DEF ApplyServerData
<1>3. /\ cachePos[c][l] \in Nat \cup {NotSynced} /\ cachePos[c][l] \in Int
      /\ Complete(c, l) <=> cachePos[c][l] # NotSynced
      /\ Complete(c, l) => serverCache[c][l] = DataAt(log, cachePos[c][l], l)
    BY <1>1, CacheKnown DEF OneInv
<1>4. CASE n > cachePos[c][l]
    <2>1. R!Listening(c, l)
        BY SameListening
    <2>2. \A w \in R!Settled(c, l) \cap R!In(log) : R!Includes(n, w)
        <3> SUFFICES ASSUME NEW w \in R!Settled(c, l) \cap R!In(log) PROVE R!Includes(n, w)
            OBVIOUS
        <3>1. /\ w \in In(issued) \cap In(log) /\ Writer[w] = c /\ WriteLoc(w) = l
              /\ w \notin In(allWrites[c])
            BY SameData DEF R!Settled
        <3>2. 1 \in DOMAIN toClient[c] /\ Head(toClient[c]) = toClient[c][1]
            <4>1. toClient[c] \in Seq(Messages)
                BY <1>1 DEF TypeInv, TypeOK
            <4> QED  BY <4>1, TailIndex
        <3>3. Has(log, toClient[c][1].pos, w)
            BY <1>1, <3>1, <3>2 DEF OneInv, SettledInv
        <3> QED  BY <3>2, <3>3 DEF Has, R!Includes
    <2>3. R!Raise(c, l, IF R!Synced(c, l)
                        THEN R!Changed(R!View(c, l), R!Layer(R!DataAt(log, n, l), allWrites[c]))
                        ELSE <<R!Layer(R!DataAt(log, n, l), allWrites[c])>>)
        <3>1. /\ R!Synced(c, l) <=> Complete(c, l)
              /\ Complete(c, l) => R!View(c, l) = View(c, l)
            BY SameView
        <3>2. R!Layer(R!DataAt(log, n, l), allWrites[c]) = Layer(DataAt(log, n, l), allWrites[c])
            BY SameData
        <3> QED  BY <1>2, <3>1, <3>2, SameData DEF RaiseEvents, R!Raise
    <2> QED  BY <1>2, <1>4, <2>1, <2>2, <2>3 DEF R!Advance
<1>5. CASE n = cachePos[c][l]
    <2>1. n # NotSynced
        BY DEF NotSynced
    <2>2. Complete(c, l) /\ View(c, l) = Layer(DataAt(log, n, l), allWrites[c])
        BY <1>3, <1>5, <2>1 DEF View
    <2>3. Changed(View(c, l), Layer(DataAt(log, n, l), allWrites[c])) = <<>>
        BY <2>2 DEF Changed
    <2>4. events' = events
        <3>1. events' = [s \in Screens |->
                  IF s \in observing /\ Owner[s] = c /\ Looks[s] = l
                  THEN events[s] \o <<>> ELSE events[s]]
            BY <1>2, <2>2, <2>3 DEF RaiseEvents
        <3>2. \A s \in Screens : events[s] \o <<>> = events[s]
            <4>1. \A s \in Screens : events[s] \in Seq(DataIn(Looks[s]))
                BY <1>1 DEF TypeInv, TypeOK
            <4> QED  BY <4>1, ConcatEmptySeq
        <3>3. events' = [s \in Screens |-> events[s]]
            BY <3>1, <3>2
        <3> QED  BY <3>3 DEF EventsInv
    <2>5. cachePos' = cachePos
        <3>1. cachePos \in [Clients -> [Locations -> Nat \cup {NotSynced}]]
            BY <1>1 DEF TypeInv, TypeOK
        <3> QED  BY <1>2, <1>5, <3>1
    <2> QED  BY <1>2, <2>4, <2>5 DEF R!vars
<1>6. n \in Int
    OBVIOUS
<1> QED
    BY <1>3, <1>4, <1>5, <1>6

\* The process is killed.
LEMMA KillMap ==
    ASSUME ClientInv, NEW c \in Clients, Kill(c)
    PROVE  R!Kill(c)
<1>1. PICK m \in 0 .. MaxDisconnects, k \in 0 .. MaxKills :
          faults = [disconnects |-> m, kills |-> k]
    BY DEF ClientInv, TypeInv, TypeOK
<1>2. k < MaxKills /\ faults' = [disconnects |-> m, kills |-> k + 1]
    BY <1>1 DEF Kill
<1>3. faults.kills < MaxKills /\ faults'.kills = faults.kills + 1
    BY <1>1, <1>2
<1>4. /\ allWrites' = [allWrites EXCEPT ![c] = <<>>]
      /\ observing' = {s \in observing : Owner[s] # c}
      /\ events' = [s \in Screens |-> IF Owner[s] = c THEN <<>> ELSE events[s]]
      /\ cachePos' = [cachePos EXCEPT ![c] = [l \in Locations |-> R!NotSynced]]
      /\ UNCHANGED <<issued, log>>
    BY SameData DEF Kill
<1> QED
    BY <1>3, <1>4 DEF R!Kill

\* A lost connection is not seen by the app.
LEMMA DisconnectMap ==
    ASSUME ClientInv, NEW c \in Clients, OnDisconnect(c)
    PROVE  UNCHANGED R!vars
<1>1. PICK m \in 0 .. MaxDisconnects, k \in 0 .. MaxKills :
          faults = [disconnects |-> m, kills |-> k]
    BY DEF ClientInv, TypeInv, TypeOK
<1>2. faults' = [disconnects |-> m + 1, kills |-> k]
    BY <1>1 DEF OnDisconnect
<1>3. faults'.kills = faults.kills
    BY <1>1, <1>2
<1> QED
    BY <1>3 DEF OnDisconnect, R!vars, syncVars, screenVars

\* Every step of the client and of the server is a step of Replica, or is not seen.
LEMMA StepMap ==
    ASSUME ClientInv, EventsInv, log' \in Seq(Writes), Len(log') <= MaxLog, [Next]_vars
    PROVE  [R!Next]_(R!vars)
<1>1. CASE UNCHANGED vars
    BY <1>1 DEF vars, syncVars, screenVars, networkVars, R!vars
<1>2. ASSUME NEW s \in Screens, Observe(s) \/ FireEvent(s) PROVE R!Next
    BY <1>2, CallsMap DEF R!Next
<1>3. ASSUME NEW w \in Writes, SetValue(w) PROVE R!Next
    BY <1>3, CallsMap DEF R!Next
<1>4. ASSUME NEW c \in Clients, ClientStep(c) PROVE R!Next \/ UNCHANGED R!vars
    <2>1. CASE TryScheduleReconnect(c)
        BY <2>1 DEF TryScheduleReconnect, R!vars, syncVars, screenVars, networkVars
    <2>2. CASE OnReady(c)
        BY <2>2 DEF OnReady, R!vars, syncVars, screenVars
    <2>3. CASE OnAuthResponse(c)
        BY <2>3 DEF OnAuthResponse, R!vars, syncVars, screenVars
    <2>4. CASE OnListenResponse(c)
        BY <2>4 DEF OnListenResponse, R!vars, syncVars, screenVars
    <2>5. CASE AckPuts(c)
        <3>1. Settles(c)
            BY <2>5, AckPutsStep
        <3>2. UNCHANGED <<log, faults>>
            BY <2>5 DEF AckPuts, networkVars
        <3>3. R!Settle(c)
            BY <3>1, <3>2, SettlesMap
        <3> QED  BY <3>3 DEF R!Next
    <2>6. CASE OnPutResponse(c) /\ HoldsAnswers(c)
        <3>1. UNCHANGED <<syncVars, screenVars, log, faults, scene>>
            BY <2>6, HoldStep
        <3> QED  BY <3>1 DEF R!vars, syncVars, screenVars
    <2>7. CASE OnPutResponse(c) /\ ~HoldsAnswers(c)
        <3>1. Settles(c) /\ UNCHANGED <<log, faults, scene>>
            BY <2>7, AnswerStep
        <3>2. R!Settle(c)
            BY <3>1, SettlesMap
        <3> QED  BY <3>2 DEF R!Next
    <2>8. CASE OnSnapshot(c) \/ OnUpdate(c)
        <3>1. toClient[c] # <<>>
            BY <2>8 DEF OnSnapshot, OnUpdate, Receive
        <3>2. PICK l \in Locations, n \in 0 .. Len(log) :
                  /\ cachePos[c][l] <= n /\ l \in listens[c] /\ Tells(Head(toClient[c]), l)
                  /\ n = Head(toClient[c]).pos /\ ApplyServerData(c, l, DataAt(log, n, l), n)
            BY <2>8, OnSnapshotStep, OnUpdateStep
        <3>3. R!Advance(c, l, n) \/ UNCHANGED R!vars
            BY <3>1, <3>2, AdvanceMap
        <3> QED  BY <3>3 DEF R!Next
    <2> QED
        BY <1>4, <2>1, <2>2, <2>3, <2>4, <2>5, <2>6, <2>7, <2>8 DEF ClientStep
<1>5. ASSUME NEW c \in Clients, ServerStep(c) PROVE R!Next \/ UNCHANGED R!vars
    <2>1. CASE ServeAuth(c) \/ ServeListen(c)
        BY <2>1 DEF ServeAuth, ServeListen, Serve, R!vars, syncVars, screenVars
    <2>2. CASE ServePut(c)
        <3>1. /\ UNCHANGED <<connectionVars, syncVars, screenVars, faults, scene>>
              /\ \/ UNCHANGED log
                 \/ \E w \in Writes : w \in In(allWrites[Writer[w]]) /\ log' = Append(log, w)
            BY <2>2, ServePutStep
        <3>2. CASE UNCHANGED log
            BY <3>1, <3>2 DEF R!vars, syncVars, screenVars
        <3>3. ASSUME NEW w \in Writes, w \in In(allWrites[Writer[w]]), log' = Append(log, w)
              PROVE  R!Next
            <4>1. log \in Seq(Writes)
                BY DEF ClientInv, TypeInv, TypeOK
            <4>2. Len(log') = Len(log) + 1 /\ Len(log) \in Nat
                BY <3>3, <4>1, AppendProperties, LenProperties
            <4>3. Len(log) < MaxLog
                BY <4>2, BoundsAssumption
            <4>4. w \in R!In(allWrites[Writer[w]])
                BY <3>3, SameData
            <4>5. R!Apply(w)
                BY <3>1, <3>3, <4>3, <4>4 DEF R!Apply, syncVars, screenVars
            <4> QED  BY <4>5 DEF R!Next
        <3> QED  BY <3>1, <3>2, <3>3
    <2> QED  BY <1>5, <2>1, <2>2 DEF ServerStep
<1>6. ASSUME NEW c \in Clients, OnDisconnect(c) \/ Kill(c) PROVE R!Next \/ UNCHANGED R!vars
    <2>1. CASE OnDisconnect(c)
        BY <2>1, DisconnectMap
    <2>2. CASE Kill(c)
        BY <2>2, KillMap DEF R!Next
    <2> QED  BY <1>6, <2>1, <2>2
<1> QED
    BY <1>1, <1>2, <1>3, <1>4, <1>5, <1>6 DEF Next

\* What every step keeps: events is a function on the screens.
LEMMA EventsNext ==
    ASSUME EventsInv, ClientInv, [Next]_vars
    PROVE  EventsInv'
<1>1. CASE events' = events
    BY <1>1 DEF EventsInv
<1>2. \A c, l, vs : RaiseEvents(c, l, vs) => EventsInv'
    BY DEF RaiseEvents, EventsInv
<1>3. \A c, l, data, pos : ApplyServerData(c, l, data, pos) => EventsInv'
    BY <1>2 DEF ApplyServerData
<1>4. \A s, e : events' = [events EXCEPT ![s] = e] => EventsInv'
    BY DEF EventsInv
<1>5. CASE UNCHANGED vars
    BY <1>1, <1>5 DEF vars, screenVars
<1>6. ASSUME NEW s \in Screens, Observe(s) \/ FireEvent(s) PROVE EventsInv'
    <2>1. \E e : events' = [events EXCEPT ![s] = e]
        BY <1>6 DEF Observe, FireEvent
    <2> QED  BY <1>4, <2>1
<1>7. ASSUME NEW w \in Writes, SetValue(w) PROVE EventsInv'
    BY <1>2, <1>7 DEF SetValue
<1>8. ASSUME NEW c \in Clients, ClientStep(c) PROVE EventsInv'
    <2>1. CASE TryScheduleReconnect(c) \/ OnReady(c) \/ OnAuthResponse(c) \/ OnListenResponse(c)
        BY <1>1, <2>1 DEF TryScheduleReconnect, OnReady, OnAuthResponse, OnListenResponse, screenVars
    <2>2. CASE AckPuts(c) \/ OnPutResponse(c)
        BY <1>1, <1>2, <2>2 DEF AckPuts, OnPutResponse, AckWrite, screenVars
    <2>3. CASE OnSnapshot(c) \/ OnUpdate(c)
        BY <1>3, <2>3, SMTT(60) DEF OnSnapshot, OnUpdate
    <2> QED  BY <1>8, <2>1, <2>2, <2>3 DEF ClientStep
<1>9. ASSUME NEW c \in Clients, ServerStep(c) PROVE EventsInv'
    BY <1>1, <1>9 DEF ServerStep, ServeAuth, ServeListen, ServePut, Serve, screenVars
<1>10. ASSUME NEW c \in Clients, OnDisconnect(c) \/ Kill(c) PROVE EventsInv'
    <2>1. CASE OnDisconnect(c)
        BY <1>1, <2>1 DEF OnDisconnect, screenVars
    <2>2. CASE Kill(c)
        BY <2>2 DEF Kill, EventsInv
    <2> QED  BY <1>10, <2>1, <2>2
<1> QED
    BY <1>5, <1>6, <1>7, <1>8, <1>9, <1>10 DEF Next
\* The bound of Replica's log is not reached.
LogFits == Len(log) <= MaxLog

(***************************************************************************)
(* The SDK implements Replica, whatever connections are lost and processes *)
(* killed: what a screen is given is a prefix of the server's log that     *)
(* only grows, with the client's unsettled writes over it, and a write     *)
(* stays pending until the data has it or the server refused it.           *)
(* MaxLog bounds Replica's log only.                                       *)
(***************************************************************************)
THEOREM Refines == Spec /\ []LogFits => ImplementsReplica
<1>1. Init => R!Init
    BY SameData DEF Init, R!Init
<1>2. Init => EventsInv
    BY DEF Init, EventsInv
<1>3. ASSUME ClientInv, ClientInv', EventsInv, LogFits', [Next]_vars
      PROVE  [R!Next]_(R!vars)
    <2>1. log' \in Seq(Writes) /\ Len(log') <= MaxLog
        BY <1>3 DEF ClientInv, TypeInv, TypeOK, LogFits
    <2> QED  BY <1>3, <2>1, StepMap
<1>4. Spec => []EventsInv
    BY <1>2, EventsNext, ClientSound, PTL DEF Spec
<1> QED
    BY <1>1, <1>3, <1>4, ClientSound, PTL DEF Spec, ImplementsReplica, R!Spec
-------------------------------------------------------------------------------
\* The order of a client's writes

\* Write v was made before write w (is: the calls).
Prior(is, v, w) == \E i, j \in DOMAIN is : i < j /\ is[i] = v /\ is[j] = w

\* The last place of write w in log L.
LastIn(L, w) ==
    IF {i \in DOMAIN L : L[i] = w} = {} THEN 0 ELSE Latest({i \in DOMAIN L : L[i] = w})

\* Message m tells its client that a put was accepted.
Accepts(m) == Put(m) /\ m.ok = TRUE

\* Outstanding puts are kept in the order of the calls.
Ordered(is, out) == \A v, w \in In(out) : Prior(is, v, w) => Older(out, v, w)

\* When a put is answered, no earlier write of its client was applied over it.
OnTop(c, is, q, L) ==
    \A i \in DOMAIN q : Accepts(q[i]) =>
        \A v \in Writes : Writer[v] = c /\ Prior(is, v, q[i].w) => LastIn(L, v) < LastIn(L, q[i].w)

TopInv ==
    /\ IsInjective(issued)
    /\ \A c \in Clients : /\ Ordered(issued, outstandingPuts[c])
                          /\ OnTop(c, issued, toClient[c], log)

\* A write that is applied is the last one; the others stay where they were.
LEMMA LastGrows ==
    ASSUME NEW L \in Seq(Writes), NEW u \in Writes
    PROVE  /\ LastIn(Append(L, u), u) = Len(L) + 1
           /\ \A v : LastIn(L, v) \in 0 .. Len(L) /\ (v # u => LastIn(Append(L, u), v) = LastIn(L, v))
<1>1. PICK n \in Nat : n = Len(L) /\ DOMAIN L = 1 .. n
    BY LenProperties
<1>2. PICK K \in Seq(Writes) :
          /\ K = Append(L, u) /\ DOMAIN K = 1 .. n + 1 /\ K[n + 1] = u
          /\ \A i \in 1 .. n : K[i] = L[i]
    <2>1. /\ Append(L, u) \in Seq(Writes) /\ Len(Append(L, u)) = n + 1
          /\ Append(L, u)[n + 1] = u /\ \A i \in 1 .. n : Append(L, u)[i] = L[i]
        BY <1>1, AppendProperties
    <2>2. DOMAIN Append(L, u) = 1 .. n + 1
        BY <2>1, LenProperties
    <2> QED  BY <2>1, <2>2, Zenon
<1>3. LastIn(K, u) = n + 1
    <2>1. PICK I \in SUBSET (1 .. n + 1) : I = {i \in DOMAIN K : K[i] = u} /\ n + 1 \in I
        <3>1. n + 1 \in 1 .. n + 1
            OBVIOUS
        <3>2. {i \in DOMAIN K : K[i] = u} \subseteq 1 .. n + 1
            BY <1>2
        <3>3. n + 1 \in {i \in DOMAIN K : K[i] = u}
            BY <1>2, <3>1
        <3> QED  BY <3>2, <3>3, Zenon
    <2>2. n + 1 \in Nat /\ I # {}
        BY <2>1
    <2>3. Latest(I) \in I /\ \A j \in I : j <= Latest(I)
        BY <2>2, LatestIsLast
    <2>4. Latest(I) = n + 1
        BY <2>1, <2>3
    <2> QED  BY <2>1, <2>2, <2>4 DEF LastIn
<1>4. ASSUME NEW v PROVE LastIn(L, v) \in 0 .. n
    <2>1. PICK I \in SUBSET (1 .. n) : I = {i \in DOMAIN L : L[i] = v}
        BY <1>1
    <2>2. I # {} => Latest(I) \in I
        BY LatestIsLast
    <2> QED  BY <2>1, <2>2 DEF LastIn
<1>5. ASSUME NEW v, v # u PROVE LastIn(K, v) = LastIn(L, v)
    <2>1. {i \in DOMAIN K : K[i] = v} = {i \in DOMAIN L : L[i] = v}
        BY <1>1, <1>2, <1>5
    <2> QED  BY <2>1 DEF LastIn
<1> QED
    BY <1>1, <1>2, <1>3, <1>4, <1>5

\* A call comes after all the calls before it.
LEMMA PriorGrows ==
    ASSUME NEW is \in Seq(Writes), IsInjective(is)
    PROVE  /\ \A v, w : Prior(is, v, w) => v \in In(is) /\ w \in In(is) /\ v # w
           /\ \A u \in Writes \ In(is) :
                 /\ IsInjective(Append(is, u))
                 /\ \A v, w : Prior(Append(is, u), v, w) =>
                       Prior(is, v, w) \/ (w = u /\ v \in In(is))
<1>1. PICK n \in Nat : n = Len(is) /\ DOMAIN is = 1 .. n
    BY LenProperties
<1>2. ASSUME NEW v, NEW w, Prior(is, v, w) PROVE v \in In(is) /\ w \in In(is) /\ v # w
    <2>1. PICK i \in 1 .. n, j \in 1 .. n : i < j /\ is[i] = v /\ is[j] = w
        BY <1>1, <1>2 DEF Prior
    <2>2. i # j
        BY <2>1
    <2> QED  BY <1>1, <2>1, <2>2 DEF In, IsInjective
<1>3. ASSUME NEW u \in Writes \ In(is)
      PROVE  /\ IsInjective(Append(is, u))
             /\ \A v, w : Prior(Append(is, u), v, w) => Prior(is, v, w) \/ (w = u /\ v \in In(is))
    <2>1. PICK more \in {Append(is, u)} :
              /\ more = Append(is, u) /\ DOMAIN more = 1 .. n + 1 /\ more[n + 1] = u
              /\ \A i \in 1 .. n : more[i] = is[i] /\ is[i] # u
        <3>1. DOMAIN Append(is, u) = 1 .. n + 1 /\ Append(is, u)[n + 1] = u
              /\ \A i \in 1 .. n : Append(is, u)[i] = is[i]
            BY <1>1, AppendProperties, LenProperties
        <3>2. \A i \in 1 .. n : is[i] # u
            BY <1>1 DEF In
        <3> QED  BY <3>1, <3>2
    <2>2. \A i \in 1 .. n + 1 : i \in 1 .. n \/ i = n + 1
        OBVIOUS
    <2>3. IsInjective(more)
        BY <1>1, <2>1, <2>2 DEF IsInjective
    <2>4. ASSUME NEW v, NEW w, Prior(more, v, w)
          PROVE  Prior(is, v, w) \/ (w = u /\ v \in In(is))
        <3>1. PICK i \in 1 .. n + 1, j \in 1 .. n + 1 : i < j /\ more[i] = v /\ more[j] = w
            BY <2>1, <2>4 DEF Prior
        <3>2. i \in 1 .. n
            BY <3>1
        <3>3. v = is[i] /\ v \in In(is)
            BY <1>1, <2>1, <3>1, <3>2 DEF In
        <3>4. CASE j = n + 1
            BY <2>1, <3>1, <3>3, <3>4
        <3>5. CASE j \in 1 .. n
            BY <1>1, <2>1, <3>1, <3>3, <3>2, <3>5 DEF Prior
        <3> QED  BY <2>2, <3>4, <3>5
    <2> QED  BY <2>1, <2>3, <2>4
<1> QED
    BY <1>2, <1>3

\* A step that applies nothing and accepts nothing keeps the order.
LEMMA QuietTop ==
    ASSUME ClientInv, TopInv, issued' = issued, log' = log,
           \A d \in Clients : \/ outstandingPuts'[d] = outstandingPuts[d]
                              \/ outstandingPuts'[d] = <<>>
                              \/ /\ outstandingPuts[d] # <<>>
                                 /\ outstandingPuts'[d] = Tail(outstandingPuts[d]),
           \A d \in Clients : \A i \in DOMAIN toClient'[d] : Accepts(toClient'[d][i]) =>
              \E j \in DOMAIN toClient[d] : toClient[d][j] = toClient'[d][i]
    PROVE  TopInv'
<1>1. ASSUME NEW d \in Clients PROVE Ordered(issued, outstandingPuts'[d])
    <2>1. outstandingPuts[d] \in Seq(Writes) /\ Ordered(issued, outstandingPuts[d])
        BY DEF ClientInv, TypeInv, TypeOK, TopInv
    <2>2. Ordered(issued, <<>>)
        BY DEF Ordered, In
    <2>3. ASSUME NEW out \in Seq(Writes), out # <<>>, Ordered(issued, out)
          PROVE  Ordered(issued, Tail(out))
        <3>1. In(Tail(out)) \subseteq In(out)
            BY <2>3, InTail
        <3>2. \A v, w : Older(out, v, w) => Older(Tail(out), v, w)
            BY <2>3, OlderKept
        <3> QED  BY <2>3, <3>1, <3>2 DEF Ordered
    <2> QED  BY <2>1, <2>2, <2>3
<1>2. ASSUME NEW d \in Clients PROVE OnTop(d, issued, toClient'[d], log)
    BY DEF TopInv, OnTop
<1> QED
    BY <1>1, <1>2 DEF TopInv
\* A call: the new write is the last one, and nothing of it is on its way.
LEMMA SetValueTop ==
    ASSUME ClientInv, TopInv, NEW u \in Writes, SetValue(u)
    PROVE  TopInv'
<1>1. PICK c \in Clients : c = Writer[u]
    BY SyncTreeAssumption
<1>2. /\ u \notin In(issued) /\ issued' = Append(issued, u)
      /\ outstandingPuts' = [outstandingPuts EXCEPT ![c] = Append(@, u)]
      /\ UNCHANGED <<toClient, log>>
    BY <1>1 DEF SetValue
<1>3. /\ issued \in Seq(Writes) /\ IsInjective(issued)
      /\ outstandingPuts \in [Clients -> Seq(Writes)]
    BY DEF ClientInv, TypeInv, TypeOK, TopInv
<1>4. /\ \A v, w : Prior(issued, v, w) => v \in In(issued) /\ w \in In(issued) /\ v # w
      /\ IsInjective(issued')
      /\ \A v, w : Prior(issued', v, w) => Prior(issued, v, w) \/ (w = u /\ v \in In(issued))
    BY <1>2, <1>3, PriorGrows
<1>5. ASSUME NEW d \in Clients
      PROVE  /\ In(outstandingPuts[d]) \subseteq In(issued)
             /\ \A i \in DOMAIN toClient[d] :
                   Put(toClient[d][i]) => toClient[d][i].w \in In(issued)
    <2>1. TypeInv /\ PendingInv(d) /\ FlightInv(d)
        BY DEF ClientInv, OneInv
    <2>2. In(outstandingPuts[d]) \subseteq In(allWrites[d])
        BY <2>1, PendingParts
    <2>3. In(allWrites[d]) \subseteq In(issued)
        BY <2>1 DEF PendingInv
    <2>4. \A i \in DOMAIN toClient[d] :
              Put(toClient[d][i]) => toClient[d][i].w \in In(outstandingPuts[d])
        BY <2>1 DEF FlightInv, Flight
    <2> QED  BY <2>2, <2>3, <2>4
<1>6. ASSUME NEW d \in Clients PROVE OnTop(d, issued', toClient'[d], log')
    <2>1. OnTop(d, issued, toClient[d], log)
        BY DEF TopInv
    <2>2. \A i \in DOMAIN toClient[d] : Put(toClient[d][i]) => toClient[d][i].w # u
        BY <1>2, <1>5
    <2> QED  BY <1>2, <1>4, <2>1, <2>2 DEF OnTop, Accepts
<1>7. ASSUME NEW d \in Clients PROVE Ordered(issued', outstandingPuts'[d])
    <2>1. PICK out \in Seq(Writes) :
              /\ out = outstandingPuts[d] /\ Ordered(issued, out) /\ In(out) \subseteq In(issued)
              /\ u \notin In(out)
        BY <1>2, <1>3, <1>5 DEF TopInv
    <2>2. Ordered(issued', out)
        BY <1>2, <1>4, <2>1 DEF Ordered
    <2>3. CASE d # c
        BY <1>2, <1>3, <2>1, <2>2, <2>3
    <2>4. CASE d = c
        <3>1. outstandingPuts'[d] = Append(out, u) /\ In(Append(out, u)) = In(out) \cup {u}
            BY <1>2, <1>3, <2>1, <2>4, InAppend
        <3>2. ASSUME NEW v \in In(out) \cup {u}, NEW w \in In(out) \cup {u}, Prior(issued', v, w)
              PROVE  Older(Append(out, u), v, w)
            <4>1. v # u
                BY <1>2, <1>4, <3>2
            <4>2. v \in In(out)
                BY <3>2, <4>1
            <4>3. CASE w = u
                <5>1. PICK n \in Nat : n = Len(out) /\ DOMAIN out = 1 .. n
                    BY LenProperties
                <5>2. /\ DOMAIN Append(out, u) = 1 .. n + 1 /\ Append(out, u)[n + 1] = u
                      /\ \A i \in 1 .. n : Append(out, u)[i] = out[i]
                    BY <5>1, AppendProperties, LenProperties
                <5>3. \A i \in 1 .. n : out[i] # u
                    BY <2>1, <5>1 DEF In
                <5>4. \A i \in 1 .. n + 1 : i = n + 1 \/ (i \in 1 .. n /\ i < n + 1)
                    OBVIOUS
                <5> QED  BY <4>1, <4>3, <5>2, <5>3, <5>4 DEF Older
            <4>4. CASE w # u
                <5>1. Older(out, v, w)
                    BY <2>2, <3>2, <4>2, <4>4 DEF Ordered
                <5> QED  BY <4>1, <4>4, <5>1, OlderKept
            <4> QED  BY <4>3, <4>4
        <3> QED  BY <3>1, <3>2 DEF Ordered
    <2> QED  BY <2>3, <2>4
<1> QED
    BY <1>4, <1>6, <1>7 DEF TopInv

\* The server applies write u, the oldest put it has not taken: every earlier
\* write of that client has been answered, and none of the later ones.
LEMMA AcceptTop ==
    ASSUME ClientInv, TopInv, NEW c \in Clients, NEW u \in Writes, Writer[u] = c,
           toServer[c] # <<>>, Put(Head(toServer[c])), u = Head(toServer[c]).w,
           issued' = issued, outstandingPuts' = outstandingPuts, log' = Append(log, u),
           \A d \in Clients : \A i \in DOMAIN toClient'[d] : Accepts(toClient'[d][i]) =>
              \/ \E j \in DOMAIN toClient[d] : toClient[d][j] = toClient'[d][i]
              \/ toClient'[d][i].w = u
    PROVE  TopInv'
<1>1. issued \in Seq(Writes) /\ log \in Seq(Writes) /\ IsInjective(issued)
    BY DEF ClientInv, TypeInv, TypeOK, TopInv
<1>2. PICK n \in Nat : n = Len(log)
    BY <1>1, LenProperties
<1>3. /\ LastIn(log', u) = n + 1
      /\ \A v : LastIn(log, v) \in 0 .. n /\ (v # u => LastIn(log', v) = LastIn(log, v))
    BY <1>1, <1>2, LastGrows
<1>4. \A v, w : Prior(issued, v, w) => v # w
    BY <1>1, PriorGrows
<1>5. \A v : v # u => LastIn(log', v) < LastIn(log', u)
    <2>1. \A k \in 0 .. n : k < n + 1
        OBVIOUS
    <2> QED  BY <1>3, <2>1
<1>6. ASSUME NEW d \in Clients, NEW j \in DOMAIN toClient[d], Accepts(toClient[d][j]),
             NEW v \in Writes, Writer[v] = d, Prior(issued, v, toClient[d][j].w)
      PROVE  LastIn(log', v) < LastIn(log', toClient[d][j].w)
    <2>1. PICK w \in Writes : w = toClient[d][j].w
        <3>1. toClient[d][j] \in Messages
            BY ElementOfSeq, LenProperties, SMTT(60) DEF ClientInv, TypeInv, TypeOK
        <3> QED  BY <1>6, <3>1, MessageFields DEF Accepts, Put
    <2>2. LastIn(log, v) < LastIn(log, w)
        BY <1>6, <2>1 DEF TopInv, OnTop
    <2>3. v # u
        <3> SUFFICES ASSUME v = u PROVE FALSE
            OBVIOUS
        <3>1. d = c
            BY <1>6
        <3>2. FlightInv(c) /\ Ordered(issued, outstandingPuts[c])
            BY DEF ClientInv, OneInv, TopInv
        <3>3. 1 \in DOMAIN toServer[c] /\ Head(toServer[c]) = toServer[c][1]
            <4>1. toServer[c] \in Seq(Requests)
                BY DEF ClientInv, TypeInv, TypeOK
            <4> QED  BY <4>1, TailIndex
        <3>4. /\ w \in In(outstandingPuts[c]) /\ u \in In(outstandingPuts[c])
              /\ Older(outstandingPuts[c], w, u)
            BY <1>6, <2>1, <3>1, <3>2, <3>3 DEF FlightInv, Flight, Accepts
        <3>5. Older(outstandingPuts[c], u, w)
            BY <1>6, <2>1, <3>2, <3>4 DEF Ordered
        <3>6. PICK a \in DOMAIN outstandingPuts[c], b \in DOMAIN outstandingPuts[c] :
                  outstandingPuts[c][a] = w /\ outstandingPuts[c][b] = u
            BY <3>4 DEF In
        <3>7. a < b /\ b < a
            BY <3>4, <3>5, <3>6 DEF Older
        <3>8. a \in Nat /\ b \in Nat
            <4>1. outstandingPuts[c] \in Seq(Writes)
                BY DEF ClientInv, TypeInv, TypeOK
            <4> QED  BY <4>1, LenProperties
        <3> QED  BY <3>7, <3>8
    <2>4. CASE w = u
        BY <1>5, <2>1, <2>3, <2>4
    <2>5. CASE w # u
        BY <1>3, <2>1, <2>2, <2>3, <2>5
    <2> QED  BY <2>4, <2>5
<1>7. ASSUME NEW d \in Clients PROVE OnTop(d, issued, toClient'[d], log')
    <2> SUFFICES ASSUME NEW i \in DOMAIN toClient'[d], Accepts(toClient'[d][i]), NEW v \in Writes,
                        Writer[v] = d, Prior(issued, v, toClient'[d][i].w)
                 PROVE  LastIn(log', v) < LastIn(log', toClient'[d][i].w)
        BY DEF OnTop
    <2>1. CASE \E j \in DOMAIN toClient[d] : toClient[d][j] = toClient'[d][i]
        BY <1>6, <2>1
    <2>2. CASE toClient'[d][i].w = u
        BY <1>4, <1>5, <2>2
    <2> QED  BY <2>1, <2>2
<1> QED
    BY <1>7 DEF TopInv
\* A client takes a message: the others were there before.
LEMMA ReceiveQuiet ==
    ASSUME ClientInv, NEW c \in Clients, NEW type, Receive(c, type)
    PROVE  \A d \in Clients : \A i \in DOMAIN toClient'[d] :
               \E j \in DOMAIN toClient[d] : toClient[d][j] = toClient'[d][i]
<1>1. /\ toClient[c] \in Seq(Messages) /\ toClient[c] # <<>> /\ DOMAIN toClient = Clients
      /\ toClient' = [toClient EXCEPT ![c] = Tail(@)]
    BY DEF ClientInv, TypeInv, TypeOK, Receive
<1>2. \A i \in DOMAIN Tail(toClient[c]) :
          i + 1 \in DOMAIN toClient[c] /\ Tail(toClient[c])[i] = toClient[c][i + 1]
    BY <1>1, TailIndex
<1>3. toClient'[c] = Tail(toClient[c]) /\ \A d \in Clients \ {c} : toClient'[d] = toClient[d]
    BY <1>1
<1> QED
    BY <1>2, <1>3

\* The answer to a put is that of the oldest outstanding one.
LEMMA AnswersOldest ==
    ASSUME ClientInv, NEW c \in Clients, OnPutResponse(c)
    PROVE  /\ outstandingPuts[c] # <<>> /\ outstandingPuts'[c] = Tail(outstandingPuts[c])
           /\ \A d \in Clients \ {c} : outstandingPuts'[d] = outstandingPuts[d]
<1>1. TypeInv /\ PendingInv(c) /\ FlightInv(c)
    BY DEF ClientInv, OneInv
<1>2. /\ toClient[c] # <<>> /\ Put(Head(toClient[c])) /\ toClient[c] \in Seq(Messages)
      /\ outstandingPuts' = [outstandingPuts EXCEPT ![c] = Without(@, Head(toClient[c]).w)]
      /\ outstandingPuts \in [Clients -> Seq(Writes)]
    BY <1>1 DEF OnPutResponse, Receive, Put, TypeInv, TypeOK
<1>3. outstandingPuts[c] \in Seq(Writes) /\ IsInjective(outstandingPuts[c])
    BY <1>1, PendingParts
<1>4. outstandingPuts[c] # <<>> /\ Head(toClient[c]).w = Head(outstandingPuts[c])
    BY <1>1, <1>2, <1>3, FlightAnswer DEF FlightInv
<1>5. Without(outstandingPuts[c], Head(outstandingPuts[c])) = Tail(outstandingPuts[c])
    BY <1>3, <1>4, WithoutHead
<1> QED
    BY <1>2, <1>4, <1>5

\* The server sends messages ms: each one was there before or is one of them.
LEMMA SentQuiet ==
    ASSUME NEW q \in Seq(Messages), NEW ms \in Seq(Messages), NEW i \in DOMAIN (q \o ms)
    PROVE  \/ \E j \in DOMAIN q : q[j] = (q \o ms)[i]
           \/ \E j \in DOMAIN ms : ms[j] = (q \o ms)[i]
BY ConcatIndex

\* The server takes the token or a listen, or refuses a write.
LEMMA ServeQuiet ==
    ASSUME ClientInv, NEW c \in Clients, NEW ms \in Seq(Messages),
           \A i \in DOMAIN ms : ~Accepts(ms[i]),
           toClient' = [toClient EXCEPT ![c] = @ \o ms]
    PROVE  \A d \in Clients : \A i \in DOMAIN toClient'[d] : Accepts(toClient'[d][i]) =>
               \E j \in DOMAIN toClient[d] : toClient[d][j] = toClient'[d][i]
<1>1. toClient[c] \in Seq(Messages) /\ DOMAIN toClient = Clients
    BY DEF ClientInv, TypeInv, TypeOK
<1>2. toClient'[c] = toClient[c] \o ms /\ \A d \in Clients \ {c} : toClient'[d] = toClient[d]
    BY <1>1
<1>3. \A i \in DOMAIN (toClient[c] \o ms) : Accepts((toClient[c] \o ms)[i]) =>
          \E j \in DOMAIN toClient[c] : toClient[c][j] = (toClient[c] \o ms)[i]
    BY <1>1, SentQuiet, SMTT(60)
<1> QED
    BY <1>2, <1>3

\* A put: the write is refused, or applied last.
LEMMA ServePutTop ==
    ASSUME ClientInv, TopInv, NEW c \in Clients, ServePut(c)
    PROVE  TopInv'
<1>1. PICK w \in Writes :
          /\ Serve(c, "put") /\ UNCHANGED served
          /\ w = Head(toServer[c]).w /\ Put(Head(toServer[c])) /\ Writer[w] = c
          /\ \/ /\ log' = Append(log, w)
                /\ toClient' = [d \in Clients |-> toClient[d]
                      \o (IF WriteLoc(w) \in served[d] THEN <<Update(w, Len(log) + 1)>>
                                                       ELSE <<>>)
                      \o (IF d = c THEN <<Answer(w, TRUE)>> ELSE <<>>)]
             \/ /\ toClient' = [toClient EXCEPT ![c] = Append(@, Answer(w, FALSE))]
                /\ UNCHANGED log
    BY ServePutParts
<1>2. issued' = issued /\ outstandingPuts' = outstandingPuts /\ toServer[c] # <<>>
    BY <1>1 DEF Serve, syncVars, connectionVars
<1>3. \A ok \in BOOLEAN : Answer(w, ok) \in Messages
    <2>1. \A ok \in BOOLEAN : Answer(w, ok) \in [type : {"put"}, w : Writes, ok : BOOLEAN]
        BY DEF Answer
    <2> QED  BY <2>1 DEF Messages
<1>4. CASE /\ toClient' = [toClient EXCEPT ![c] = Append(@, Answer(w, FALSE))]
           /\ log' = log
    <2>1. PICK m \in Messages : m = Answer(w, FALSE) /\ ~Accepts(m)
        BY <1>3 DEF Accepts, Answer
    <2>2. toClient[c] \in Seq(Messages)
        BY DEF ClientInv, TypeInv, TypeOK
    <2>3. /\ <<m>> \in Seq(Messages) /\ DOMAIN <<m>> = {1} /\ <<m>>[1] = m
          /\ Append(toClient[c], m) = toClient[c] \o <<m>>
        BY <2>2, AppendIndex
    <2>4. PICK ms \in Seq(Messages) :
              /\ \A i \in DOMAIN ms : ~Accepts(ms[i])
              /\ Append(toClient[c], m) = toClient[c] \o ms
        BY <2>1, <2>3, Zenon
    <2>5. toClient' = [toClient EXCEPT ![c] = @ \o ms]
        BY <1>4, <2>1, <2>4
    <2>6. \A d \in Clients : \A i \in DOMAIN toClient'[d] : Accepts(toClient'[d][i]) =>
              \E j \in DOMAIN toClient[d] : toClient[d][j] = toClient'[d][i]
        BY <2>4, <2>5, ServeQuiet, SMTT(60)
    <2> QED  BY <1>2, <1>4, <2>6, QuietTop
<1>5. CASE /\ log' = Append(log, w)
           /\ toClient' = [d \in Clients |-> toClient[d]
                 \o (IF WriteLoc(w) \in served[d] THEN <<Update(w, Len(log) + 1)>>
                                                  ELSE <<>>)
                 \o (IF d = c THEN <<Answer(w, TRUE)>> ELSE <<>>)]
    <2>1. ASSUME NEW d \in Clients, NEW i \in DOMAIN toClient'[d], Accepts(toClient'[d][i])
          PROVE  \/ \E j \in DOMAIN toClient[d] : toClient[d][j] = toClient'[d][i]
                 \/ toClient'[d][i].w = w
        <3>1. PICK q \in Seq(Messages), A \in Seq(Messages) :
                  /\ q = toClient[d] /\ A = News(d, w, Len(log) + 1)
                  /\ \A k \in DOMAIN A : A[k].type = "update"
            BY NewsLink
        <3>2. PICK o \in Seq(Messages) :
                  /\ o = IF d = c THEN <<Answer(w, TRUE)>> ELSE <<>>
                  /\ \A k \in DOMAIN o : o[k].w = w
            <4>1. PICK m \in Messages : m = Answer(w, TRUE) /\ m.w = w
                BY <1>3 DEF Answer
            <4>2. /\ <<m>> \in Seq(Messages) /\ DOMAIN <<m>> = {1} /\ <<m>>[1] = m
                  /\ <<>> \in Seq(Messages) /\ DOMAIN <<>> = {}
                BY AppendIndex
            <4>3. CASE d = c
                BY <4>1, <4>2, <4>3, Zenon
            <4>4. CASE d # c
                BY <4>1, <4>2, <4>4, Zenon
            <4> QED  BY <4>3, <4>4
        <3>3. toClient'[d] = (q \o A) \o o
            BY <1>5, <3>1, <3>2 DEF News
        <3>4. PICK p \in Seq(Messages) : p = q \o A
            BY ConcatProperties
        <3>5. \/ \E j \in DOMAIN p : p[j] = toClient'[d][i]
              \/ \E j \in DOMAIN o : o[j] = toClient'[d][i]
            BY <3>3, <3>4, SentQuiet, SMTT(60)
        <3>6. CASE \E j \in DOMAIN o : o[j] = toClient'[d][i]
            BY <3>2, <3>6
        <3>7. ASSUME NEW j \in DOMAIN p, p[j] = toClient'[d][i]
              PROVE  \E k \in DOMAIN q : q[k] = toClient'[d][i]
            <4>1. \/ \E k \in DOMAIN q : q[k] = p[j]
                  \/ \E k \in DOMAIN A : A[k] = p[j]
                BY <3>4, SentQuiet
            <4>2. \A k \in DOMAIN A : A[k] # p[j]
                BY <2>1, <3>1, <3>7 DEF Accepts, Put
            <4> QED  BY <3>7, <4>1, <4>2
        <3> QED  BY <3>1, <3>5, <3>6, <3>7
    <2>2. \A d \in Clients : \A i \in DOMAIN toClient'[d] : Accepts(toClient'[d][i]) =>
              \/ \E j \in DOMAIN toClient[d] : toClient[d][j] = toClient'[d][i]
              \/ toClient'[d][i].w = w
        BY <2>1
    <2>3. /\ Writer[w] = c /\ toServer[c] # <<>> /\ Put(Head(toServer[c]))
          /\ w = Head(toServer[c]).w /\ issued' = issued
          /\ outstandingPuts' = outstandingPuts /\ log' = Append(log, w)
        BY <1>1, <1>2, <1>5
    <2> QED  BY <2>2, <2>3, AcceptTop, ZenonT(60)
<1> QED
    BY <1>1, <1>4, <1>5

\* Every step keeps the order of the writes.
LEMMA TopNext ==
    ASSUME ClientInv, TopInv, [Next]_vars
    PROVE  TopInv'
<1>1. ASSUME issued' = issued, log' = log, toClient' = toClient,
             outstandingPuts' = outstandingPuts
      PROVE  TopInv'
    BY <1>1 DEF TopInv
<1>2. ASSUME NEW c \in Clients, NEW type, Receive(c, type), issued' = issued, log' = log,
             outstandingPuts' = outstandingPuts
      PROVE  TopInv'
    <2>1. \A d \in Clients : \A i \in DOMAIN toClient'[d] :
              \E j \in DOMAIN toClient[d] : toClient[d][j] = toClient'[d][i]
        BY <1>2, ReceiveQuiet
    <2> QED  BY <1>2, <2>1, QuietTop
<1>3. CASE UNCHANGED vars
    BY <1>1, <1>3 DEF vars, syncVars, connectionVars, networkVars
<1>4. ASSUME NEW s \in Screens, Observe(s) \/ FireEvent(s) PROVE TopInv'
    BY <1>1, <1>4 DEF Observe, FireEvent, syncVars, connectionVars, networkVars
<1>5. ASSUME NEW w \in Writes, SetValue(w) PROVE TopInv'
    BY <1>5, SetValueTop
<1>6. ASSUME NEW c \in Clients, ClientStep(c) PROVE TopInv'
    <2>1. CASE TryScheduleReconnect(c)
        BY <1>1, <2>1 DEF TryScheduleReconnect, syncVars, networkVars
    <2>2. CASE OnReady(c)
        BY <1>1, <2>2 DEF OnReady, syncVars
    <2>3. CASE AckPuts(c)
        BY <1>1, <2>3 DEF AckPuts, AckWrite, networkVars
    <2>4. CASE OnAuthResponse(c)
        BY <1>2, <2>4 DEF OnAuthResponse, syncVars
    <2>5. CASE OnListenResponse(c)
        BY <1>2, <2>5 DEF OnListenResponse, syncVars
    <2>6. CASE OnSnapshot(c)
        BY <1>2, <2>6 DEF OnSnapshot, ApplyServerData, connectionVars
    <2>7. CASE OnUpdate(c)
        BY <1>2, <2>7 DEF OnUpdate, ApplyServerData, connectionVars
    <2>8. CASE OnPutResponse(c)
        <3>1. Receive(c, "put") /\ issued' = issued /\ log' = log
            BY <2>8 DEF OnPutResponse, AckWrite, syncVars
        <3>2. \A d \in Clients : \A i \in DOMAIN toClient'[d] :
                  \E j \in DOMAIN toClient[d] : toClient[d][j] = toClient'[d][i]
            BY <3>1, ReceiveQuiet
        <3>3. \A d \in Clients : \/ outstandingPuts'[d] = outstandingPuts[d]
                                 \/ /\ outstandingPuts[d] # <<>>
                                    /\ outstandingPuts'[d] = Tail(outstandingPuts[d])
            BY <2>8, AnswersOldest
        <3> QED  BY <3>1, <3>2, <3>3, QuietTop
    <2> QED
        BY <1>6, <2>1, <2>2, <2>3, <2>4, <2>5, <2>6, <2>7, <2>8 DEF ClientStep
<1>7. ASSUME NEW c \in Clients, ServerStep(c) PROVE TopInv'
    <2>1. toClient[c] \in Seq(Messages) /\ toServer[c] \in Seq(Requests) /\ log \in Seq(Writes)
        BY DEF ClientInv, TypeInv, TypeOK
    <2>2. CASE ServeAuth(c)
        <3>1. /\ toClient' = [toClient EXCEPT ![c] = Append(@, [type |-> "authOk"])]
              /\ issued' = issued /\ log' = log /\ outstandingPuts' = outstandingPuts
            BY <2>2 DEF ServeAuth, Serve, syncVars, connectionVars
        <3>2. PICK m \in Messages : m = [type |-> "authOk"]
            BY DEF Messages
        <3>3. /\ <<m>> \in Seq(Messages) /\ DOMAIN <<m>> = {1} /\ <<m>>[1] = m
              /\ Append(toClient[c], m) = toClient[c] \o <<m>>
            BY <2>1, AppendIndex
        <3>4. ~Accepts(m)
            BY <3>2 DEF Accepts, Put
        <3>5. PICK ms \in Seq(Messages) :
                  /\ \A i \in DOMAIN ms : ~Accepts(ms[i])
                  /\ Append(toClient[c], m) = toClient[c] \o ms
            BY <3>3, <3>4, Zenon
        <3>6. toClient' = [toClient EXCEPT ![c] = @ \o ms]
            BY <3>1, <3>2, <3>5
        <3>7. \A d \in Clients : \A i \in DOMAIN toClient'[d] : Accepts(toClient'[d][i]) =>
                  \E j \in DOMAIN toClient[d] : toClient[d][j] = toClient'[d][i]
            BY <3>5, <3>6, ServeQuiet
        <3> QED  BY <3>1, <3>7, QuietTop
    <2>3. CASE ServeListen(c)
        <3>1. PICK l \in {Head(toServer[c]).loc} :
                  /\ l = Head(toServer[c]).loc /\ Serve(c, "listen")
                  /\ toClient' = [toClient EXCEPT ![c] = @ \o
                        <<[type |-> "snapshot", loc |-> l, pos |-> Len(log),
                           data |-> DataAt(log, Len(log), l)],
                          [type |-> "listenOk", loc |-> l]>>]
                  /\ issued' = issued /\ log' = log /\ outstandingPuts' = outstandingPuts
            BY <2>3 DEF ServeListen, Serve, syncVars, connectionVars
        <3>2. l \in Locations
            <4>1. toServer[c] # <<>> /\ Head(toServer[c]).type = "listen"
                BY <3>1 DEF Serve
            <4> QED  BY <2>1, <3>1, <4>1, TailIndex, RequestFields
        <3>3. PICK m \in Messages, o \in Messages :
                  /\ m = [type |-> "snapshot", loc |-> l, pos |-> Len(log),
                          data |-> DataAt(log, Len(log), l)]
                  /\ o = [type |-> "listenOk", loc |-> l]
            <4>1. Len(log) \in Nat /\ Len(log) \in 0 .. Len(log)
                BY <2>1, LenProperties
            <4>2. DataAt(log, Len(log), l) \in UNION {DataIn(k) : k \in Locations}
                BY <2>1, <3>2, <4>1, DataAtType
            <4>3. /\ [type |-> "snapshot", loc |-> l, pos |-> Len(log),
                      data |-> DataAt(log, Len(log), l)]
                        \in [type : {"snapshot"}, loc : Locations, pos : Nat,
                             data : UNION {DataIn(k) : k \in Locations}]
                  /\ [type |-> "listenOk", loc |-> l] \in [type : {"listenOk"}, loc : Locations]
                BY <3>2, <4>1, <4>2
            <4> QED  BY <4>3 DEF Messages
        <3>4. ~Accepts(m) /\ ~Accepts(o)
            BY <3>3 DEF Accepts, Put
        <3>5. PICK ms \in Seq(Messages) :
                  ms = <<m, o>> /\ \A i \in DOMAIN ms : ~Accepts(ms[i])
            <4>1. /\ <<m, o>> \in Seq(Messages) /\ DOMAIN <<m, o>> = 1 .. 2
                  /\ <<m, o>>[1] = m /\ <<m, o>>[2] = o
                OBVIOUS
            <4>2. \A i \in 1 .. 2 : i = 1 \/ i = 2
                OBVIOUS
            <4> QED  BY <3>4, <4>1, <4>2, Zenon
        <3>6. toClient' = [toClient EXCEPT ![c] = @ \o ms]
            BY <3>1, <3>3, <3>5
        <3>7. \A d \in Clients : \A i \in DOMAIN toClient'[d] : Accepts(toClient'[d][i]) =>
                  \E j \in DOMAIN toClient[d] : toClient[d][j] = toClient'[d][i]
            BY <3>5, <3>6, ServeQuiet
        <3> QED  BY <3>1, <3>7, QuietTop
    <2> QED  BY <1>7, <2>2, <2>3, ServePutTop DEF ServerStep
<1>8. ASSUME NEW c \in Clients, OnDisconnect(c) \/ Kill(c) PROVE TopInv'
    <2>1. /\ issued' = issued /\ log' = log
          /\ toClient' = [toClient EXCEPT ![c] = <<>>]
          /\ \/ outstandingPuts' = outstandingPuts
             \/ outstandingPuts' = [outstandingPuts EXCEPT ![c] = <<>>]
        BY <1>8 DEF OnDisconnect, Kill, syncVars
    <2>2. DOMAIN toClient = Clients /\ DOMAIN outstandingPuts = Clients
        BY DEF ClientInv, TypeInv, TypeOK
    <2>3. \A d \in Clients : toClient'[d] = <<>> \/ toClient'[d] = toClient[d]
        BY <2>1, <2>2
    <2>4. \A d \in Clients : \A i \in DOMAIN toClient'[d] :
              \E j \in DOMAIN toClient[d] : toClient[d][j] = toClient'[d][i]
        BY <2>3
    <2>5. \A d \in Clients :
              outstandingPuts'[d] = <<>> \/ outstandingPuts'[d] = outstandingPuts[d]
        BY <2>1, <2>2
    <2> QED  BY <2>1, <2>4, <2>5, QuietTop
<1> QED
    BY <1>3, <1>4, <1>5, <1>6, <1>7, <1>8 DEF Next

\* Resending never reorders: when the SDK is told that a write was accepted, no
\* earlier write of the same client has been applied over it.
THEOREM AcceptedOnTop == Spec => AcceptedWriteIsOnTop
<1>1. Init => TopInv
    <2>1. ASSUME Init PROVE TopInv
        <3>1. /\ issued = <<>>
              /\ \A c \in Clients : outstandingPuts[c] = <<>> /\ toClient[c] = <<>>
            BY <2>1 DEF Init
        <3>2. IsInjective(<<>>) /\ In(<<>>) = {} /\ DOMAIN <<>> = {}
            BY DEF IsInjective, In
        <3> QED  BY <3>1, <3>2 DEF TopInv, Ordered, OnTop
    <2> QED  BY <2>1
<1>2. Spec => []TopInv
    BY <1>1, TopNext, ClientSound, PTL DEF Spec
<1>3. ASSUME ClientInv, TopInv
      PROVE  \A c \in Clients : \A v, w \in Writes :
                /\ w \in In(outstandingPuts[c]) \ In(outstandingPuts'[c])
                /\ toClient[c] # <<>>
                /\ Head(toClient[c]) = [type |-> "put", w |-> w, ok |-> TRUE]
                /\ Writer[v] = c /\ Before(v, w)
                => LastApplied(v) < LastApplied(w)
    <2> SUFFICES ASSUME NEW c \in Clients, NEW v \in Writes, NEW w \in Writes,
                        toClient[c] # <<>>,
                        Head(toClient[c]) = [type |-> "put", w |-> w, ok |-> TRUE],
                        Writer[v] = c, Before(v, w)
                 PROVE  LastApplied(v) < LastApplied(w)
        OBVIOUS
    <2>1. 1 \in DOMAIN toClient[c] /\ Head(toClient[c]) = toClient[c][1]
        <3>1. toClient[c] \in Seq(Messages)
            BY <1>3 DEF ClientInv, TypeInv, TypeOK
        <3> QED  BY <3>1, TailIndex
    <2>2. Accepts(toClient[c][1]) /\ toClient[c][1].w = w
        BY <2>1 DEF Accepts, Put
    <2>3. Prior(issued, v, w)
        BY DEF Before, Prior
    <2>4. LastIn(log, v) < LastIn(log, w)
        BY <1>3, <2>1, <2>2, <2>3 DEF TopInv, OnTop
    <2> QED  BY <2>4 DEF LastApplied, LastIn
<1> QED
    BY <1>2, <1>3, ClientSound, PTL DEF AcceptedWriteIsOnTop
===============================================================================
