---------------------------- MODULE MemTableProofs ----------------------------
(***************************************************************************)
(* For any keys, any write groups, any heights and any table: a search of  *)
(* the skip list that runs while nodes are being linked ends at the right  *)
(* node, and an iterator over the list and the table is between its calls  *)
(* where a cursor over the updates at its sequence number would be.        *)
(*                                                                         *)
(* The argument for the list is about one level at a time.  The nodes      *)
(* linked at a level are a chain in the order of internal keys; the writer *)
(* keeps, for every level still to be linked, the last node of the chain   *)
(* before the new one, and nobody else changes the list.  A reader is      *)
(* always at a node before its target that is linked at its level, and the *)
(* chain of the lowest level has every entry that was there when it began. *)
(*                                                                         *)
(* The argument for the iterator is one invariant per loop of db_iter.cc,  *)
(* about the entries that it may see: what is still to come holds the      *)
(* entry wanted.  An entry inserted meanwhile is too new to be seen, but   *)
(* the merging iterator may or may not meet it; that is why the invariants *)
(* of merger.cc say where its children are up to such entries only.        *)
(***************************************************************************)
EXTENDS MemTable, TLAPS, SequenceTheorems, FiniteSetTheorems, WellFoundedInduction

-------------------------------------------------------------------------------
\* Greatest members

\* A set of numbers that is not empty has a least one.
LEMMA LeastNatural ==
    ASSUME NEW N \in SUBSET Nat, N # {}
    PROVE  \E x \in N : \A y \in N : x <= y
<1>1. PICK x \in N : \A y \in N : ~(<<y, x>> \in OpToRel(<, Nat))
    BY NatLessThanWellFounded, WFMin
<1>2. \A y \in N : ~(y < x)
    BY <1>1 DEF OpToRel
<1> QED
    BY <1>2

\* Induction: the set of the numbers for which something holds.
LEMMA Induction ==
    ASSUME NEW S, 0 \in S, \A n \in Nat : n \in S => n + 1 \in S
    PROVE  Nat \subseteq S
<1> SUFFICES ASSUME ~(Nat \subseteq S) PROVE FALSE
    OBVIOUS
<1> DEFINE T == Nat \ S
<1>1. T \in SUBSET Nat /\ T # {}
    OBVIOUS
<1> HIDE DEF T
<1>2. PICK x \in T : \A y \in T : x <= y
    BY <1>1, LeastNatural
<1>3. x \in Nat /\ x \notin S
    BY DEF T
<1>4. x # 0 /\ x - 1 \in Nat /\ (x - 1) + 1 = x /\ ~(x <= x - 1)
    BY <1>3
<1>5. x - 1 \in S
    BY <1>2, <1>4 DEF T
<1> QED  BY <1>3, <1>4, <1>5

\* Any two members are in an order.
Ordered(A) == \A a, b \in A : a # b => Before(a, b) \/ Before(b, a)

\* What comparisons promise.
LEMMA BeforeOrder ==
    /\ \A a \in Entries : ~Before(a, a)
    /\ \A a, b \in Entries : ~(Before(a, b) /\ Before(b, a))
    /\ \A a, b, c \in Entries : Before(a, b) /\ Before(b, c) => Before(a, c)
BY DEF Before, Entries

IsLargest(A, m) == m \in A /\ \A d \in A \ {m} : Before(d, m)
IsSmallest(A, m) == m \in A /\ \A d \in A \ {m} : Before(m, d)

\* One member more.
LEMMA LargerSet ==
    ASSUME NEW A \in SUBSET Entries, Ordered(A), NEW x \in A,
           A \ {x} # {} => \E m : IsLargest(A \ {x}, m)
    PROVE  \E m : IsLargest(A, m)
<1>1. CASE A \ {x} = {}
    <2>1. IsLargest(A, x)
        BY <1>1 DEF IsLargest
    <2> QED  BY <2>1
<1>2. CASE A \ {x} # {}
    <2>1. PICK m : IsLargest(A \ {x}, m)
        BY <1>2
    <2>2. m \in A /\ m # x /\ \A d \in A \ {x, m} : Before(d, m)
        BY <2>1 DEF IsLargest
    <2>3. CASE Before(x, m)
        <3>1. IsLargest(A, m)
            BY <2>2, <2>3 DEF IsLargest
        <3> QED  BY <3>1
    <2>4. CASE Before(m, x)
        <3>1. \A d \in A \ {x} : Before(d, x)
            BY <2>2, <2>4, BeforeOrder
        <3>2. IsLargest(A, x)
            BY <3>1 DEF IsLargest
        <3> QED  BY <3>2
    <2> QED  BY <2>2, <2>3, <2>4 DEF Ordered
<1> QED  BY <1>1, <1>2

\* A finite ordered set that is not empty has a largest member.
LEMMA LargestExists ==
    ASSUME NEW A \in SUBSET Entries, Ordered(A), IsFiniteSet(A), A # {}
    PROVE  \E m : IsLargest(A, m)
<1> DEFINE Good == {n \in Nat : \A B \in SUBSET Entries :
                       /\ Ordered(B) /\ IsFiniteSet(B) /\ Cardinality(B) = n
                       /\ B # {}
                       => \E m : IsLargest(B, m)}
<1>1. 0 \in Good
    BY FS_EmptySet
<1>2. \A n \in Nat : n \in Good => n + 1 \in Good
    <2> SUFFICES ASSUME NEW n \in Nat, n \in Good, NEW B \in SUBSET Entries,
                        Ordered(B), IsFiniteSet(B), Cardinality(B) = n + 1, B # {}
                 PROVE  \E m : IsLargest(B, m)
        OBVIOUS
    <2>1. PICK x \in B : TRUE
        OBVIOUS
    <2> DEFINE C == B \ {x}
    <2>2. IsFiniteSet(C) /\ Cardinality(C) = n
        <3>1. IsFiniteSet(C) /\ Cardinality(C) = Cardinality(B) - 1
            BY <2>1, FS_RemoveElement, Zenon
        <3> QED  BY <3>1
    <2>3. C \in SUBSET Entries /\ Ordered(C)
        BY DEF Ordered
    <2>4. C # {} => \E m : IsLargest(C, m)
        BY <2>2, <2>3
    <2> QED  BY <2>4, LargerSet
<1> HIDE DEF Good
<1>3. Cardinality(A) \in Nat
    BY FS_CardinalityType
<1>4. Cardinality(A) \in Good
    BY <1>1, <1>2, <1>3, Induction
<1> QED  BY <1>4 DEF Good

LEMMA SmallerSet ==
    ASSUME NEW A \in SUBSET Entries, Ordered(A), NEW x \in A,
           A \ {x} # {} => \E m : IsSmallest(A \ {x}, m)
    PROVE  \E m : IsSmallest(A, m)
<1>1. CASE A \ {x} = {}
    <2>1. IsSmallest(A, x)
        BY <1>1 DEF IsSmallest
    <2> QED  BY <2>1
<1>2. CASE A \ {x} # {}
    <2>1. PICK m : IsSmallest(A \ {x}, m)
        BY <1>2
    <2>2. m \in A /\ m # x /\ \A d \in A \ {x, m} : Before(m, d)
        BY <2>1 DEF IsSmallest
    <2>3. CASE Before(m, x)
        <3>1. IsSmallest(A, m)
            BY <2>2, <2>3 DEF IsSmallest
        <3> QED  BY <3>1
    <2>4. CASE Before(x, m)
        <3>1. \A d \in A \ {x} : Before(x, d)
            BY <2>2, <2>4, BeforeOrder
        <3>2. IsSmallest(A, x)
            BY <3>1 DEF IsSmallest
        <3> QED  BY <3>2
    <2> QED  BY <2>2, <2>3, <2>4 DEF Ordered
<1> QED  BY <1>1, <1>2

\* A finite ordered set that is not empty has a smallest member.
LEMMA SmallestExists ==
    ASSUME NEW A \in SUBSET Entries, Ordered(A), IsFiniteSet(A), A # {}
    PROVE  \E m : IsSmallest(A, m)
<1> DEFINE Good == {n \in Nat : \A B \in SUBSET Entries :
                       /\ Ordered(B) /\ IsFiniteSet(B) /\ Cardinality(B) = n
                       /\ B # {}
                       => \E m : IsSmallest(B, m)}
<1>1. 0 \in Good
    BY FS_EmptySet
<1>2. \A n \in Nat : n \in Good => n + 1 \in Good
    <2> SUFFICES ASSUME NEW n \in Nat, n \in Good, NEW B \in SUBSET Entries,
                        Ordered(B), IsFiniteSet(B), Cardinality(B) = n + 1, B # {}
                 PROVE  \E m : IsSmallest(B, m)
        OBVIOUS
    <2>1. PICK x \in B : TRUE
        OBVIOUS
    <2> DEFINE C == B \ {x}
    <2>2. IsFiniteSet(C) /\ Cardinality(C) = n
        <3>1. IsFiniteSet(C) /\ Cardinality(C) = Cardinality(B) - 1
            BY <2>1, FS_RemoveElement, Zenon
        <3> QED  BY <3>1
    <2>3. C \in SUBSET Entries /\ Ordered(C)
        BY DEF Ordered
    <2>4. C # {} => \E m : IsSmallest(C, m)
        BY <2>2, <2>3
    <2> QED  BY <2>4, SmallerSet
<1> HIDE DEF Good
<1>3. Cardinality(A) \in Nat
    BY FS_CardinalityType
<1>4. Cardinality(A) \in Good
    BY <1>1, <1>2, <1>3, Induction
<1> QED  BY <1>4 DEF Good

\* Largest is what its name says.
LEMMA LargestIs ==
    ASSUME NEW A, \E m : IsLargest(A, m)
    PROVE  IsLargest(A, Largest(A))
BY DEF IsLargest, Largest

\* The numbers up to a bound have a greatest one.
LEMMA MaxOf ==
    ASSUME NEW S \in SUBSET Nat, S # {}, NEW b \in Nat, \A y \in S : y <= b
    PROVE  Max(S) \in S /\ \A y \in S : y <= Max(S)
<1> DEFINE T == {b - y : y \in S}
<1>0. \A y \in S : b - y \in Nat
    OBVIOUS
<1>1. T \in SUBSET Nat /\ T # {}
    BY <1>0
<1>2. PICK t \in T : \A u \in T : t <= u
    <2> HIDE DEF T
    <2> QED  BY <1>1, LeastNatural
<1>3. PICK x \in S : t = b - x
    BY <1>2
<1>4. \A y \in S : x >= y
    BY <1>2, <1>3
<1>5. \E z \in S : \A y \in S : z >= y
    BY <1>4
<1>6. Max(S) \in S /\ \A y \in S : Max(S) >= y
    BY <1>5 DEF Max
<1> QED  BY <1>6

\* A finite set of numbers has a bound.
LEMMA FiniteBound ==
    ASSUME NEW A \in SUBSET Nat, IsFiniteSet(A)
    PROVE  \E b \in Nat : \A y \in A : y <= b
<1> DEFINE Good == {n \in Nat : \A B \in SUBSET Nat :
                       IsFiniteSet(B) /\ Cardinality(B) = n
                       => \E b \in Nat : \A y \in B : y <= b}
<1>1. 0 \in Good
    BY FS_EmptySet
<1>2. \A n \in Nat : n \in Good => n + 1 \in Good
    <2> SUFFICES ASSUME NEW n \in Nat, n \in Good, NEW B \in SUBSET Nat,
                        IsFiniteSet(B), Cardinality(B) = n + 1
                 PROVE  \E b \in Nat : \A y \in B : y <= b
        BY SMTT(60)
    <2>0. B # {}
        BY FS_EmptySet
    <2>1. PICK x \in B : TRUE
        BY <2>0
    <2> DEFINE C == B \ {x}
    <2>2. IsFiniteSet(C) /\ Cardinality(C) = n
        <3>1. IsFiniteSet(C) /\ Cardinality(C) = Cardinality(B) - 1
            BY <2>1, FS_RemoveElement, Zenon
        <3> QED  BY <3>1
    <2>3. PICK b \in Nat : \A y \in C : y <= b
        BY <2>2
    <2>4. PICK c \in Nat : b <= c /\ x <= c
        <3>1. b + x \in Nat /\ b <= b + x /\ x <= b + x
            BY <2>1
        <3> QED  BY <3>1
    <2>5. \A y \in B : y <= c
        <3> SUFFICES ASSUME NEW y \in B PROVE y <= c
            OBVIOUS
        <3>1. y = x \/ y <= b
            BY <2>3
        <3> QED  BY <2>3, <2>4, <3>1
    <2> QED  BY <2>5
<1> HIDE DEF Good
<1>3. Cardinality(A) \in Nat
    BY FS_CardinalityType
<1>4. Cardinality(A) \in Good
    BY <1>1, <1>2, <1>3, Induction
<1> QED  BY <1>4 DEF Good

-------------------------------------------------------------------------------
\* One level of the list

\* m is the next member of chain A after n.
Follows(A, n, m) ==
    /\ m = Null \/ (m \in A /\ Before(n, m))
    /\ \A k \in A : Before(n, k) => m # Null /\ (k = m \/ Before(m, k))

\* p is the last member of chain A before e.
Precedes(A, p, e) ==
    /\ p \in A /\ Before(p, e)
    /\ \A k \in A : Before(k, e) => k = p \/ Before(k, p)

\* Linking e behind p keeps the chain.
LEMMA LinkChain ==
    ASSUME NEW A \in SUBSET Entries, NEW e \in Entries, e \notin A,
           Ordered(A \cup {e}), NEW p, Precedes(A, p, e), NEW s, Follows(A, p, s)
    PROVE  /\ Follows(A \cup {e}, e, s)
           /\ Follows(A \cup {e}, p, e)
           /\ \A n \in A \ {p} : \A m : Follows(A, n, m) => Follows(A \cup {e}, n, m)
<1>0. p \in A /\ p \in Entries /\ p # e /\ Before(p, e) /\ e # Null
    BY MemTableAssumption DEF Precedes
<1>1. \A k \in A : Before(e, k) => s # Null /\ (k = s \/ Before(s, k))
    <2> SUFFICES ASSUME NEW k \in A, Before(e, k)
                 PROVE  s # Null /\ (k = s \/ Before(s, k))
        OBVIOUS
    <2>1. Before(p, k)
        BY <1>0, BeforeOrder
    <2> QED  BY <2>1 DEF Follows
<1>2. s # Null => s \in A /\ Before(e, s)
    <2> SUFFICES ASSUME s # Null PROVE s \in A /\ Before(e, s)
        OBVIOUS
    <2>1. s \in A /\ Before(p, s)
        BY DEF Follows
    <2>2. ~Before(s, e)
        <3> SUFFICES ASSUME Before(s, e) PROVE FALSE
            OBVIOUS
        <3>1. s = p \/ Before(s, p)
            BY <2>1 DEF Precedes
        <3> QED  BY <1>0, <2>1, <3>1, BeforeOrder
    <2> QED  BY <2>1, <2>2 DEF Ordered
<1>3. Follows(A \cup {e}, e, s)
    <2>1. ~Before(e, e)
        BY BeforeOrder
    <2> QED  BY <1>1, <1>2, <2>1 DEF Follows
<1>4. Follows(A \cup {e}, p, e)
    <2> SUFFICES ASSUME NEW k \in A, Before(p, k), k # e PROVE Before(e, k)
        BY <1>0 DEF Follows
    <2>1. ~Before(k, e)
        <3> SUFFICES ASSUME Before(k, e) PROVE FALSE
            OBVIOUS
        <3>1. k = p \/ Before(k, p)
            BY DEF Precedes
        <3> QED  BY <1>0, <3>1, BeforeOrder
    <2> QED  BY <2>1 DEF Ordered
<1>5. ASSUME NEW n \in A \ {p}, NEW m, Follows(A, n, m)
      PROVE  Follows(A \cup {e}, n, m)
    <2>1. m = Null \/ (m \in A /\ Before(n, m))
        BY <1>5 DEF Follows
    <2>2. ASSUME Before(n, e) PROVE m # Null /\ Before(m, e)
        <3>1. Before(n, p)
            BY <1>5, <2>2 DEF Precedes
        <3>2. m # Null /\ (p = m \/ Before(m, p))
            BY <1>0, <1>5, <3>1 DEF Follows
        <3> QED  BY <1>0, <2>1, <3>2, BeforeOrder
    <2> QED  BY <1>5, <2>1, <2>2 DEF Follows
<1> QED  BY <1>3, <1>4, <1>5

-------------------------------------------------------------------------------
\* The inductive invariant

\* Entries of different updates have different sequence numbers.
Distinct(A) == \A a, b \in A : a.seq = b.seq => a = b

\* What the list is made of.
NodesInv ==
    /\ head \in DOMAIN next
    /\ DOMAIN next \ {head} \subseteq [key : Keys, seq : Nat, del : BOOLEAN]
    /\ IsFiniteSet(DOMAIN next)
    /\ Distinct(DOMAIN next \ {head})
    /\ \A n \in DOMAIN next : next[n] \in Seq(Entries \cup {Null, Raw})
    /\ Len(next[head]) = MaxHeight

\* A height is announced before a node has it.
HeightsInv ==
    /\ 1 \in max_heights /\ max_heights \subseteq 1 .. MaxHeight
    /\ \A n \in DOMAIN next \ {head} : \E h \in max_heights : Len(next[n]) <= h
    /\ \A n \in DOMAIN next : Len(next[n]) > 0

\* At every level the nodes are a chain, from the bottom up.
ChainInv ==
    /\ \A l \in 1 .. MaxHeight : \A n \in AtLevel(l) :
          Follows(AtLevel(l), n, next[n][l])
    /\ \A l \in 2 .. MaxHeight : AtLevel(l) \subseteq AtLevel(l - 1)
    /\ \A l \in 1 .. MaxHeight : head \in AtLevel(l)

\* The entries that a group has still to insert have the next numbers.
Used == last_sequence + w.count - Len(w.todo)

WriterInv ==
    /\ last_sequence \in Nat
    /\ DOMAIN w = DOMAIN Waiting
    /\ w.count \in Nat /\ w.todo \in Seq([key : Keys, seq : Nat, del : BOOLEAN])
    /\ Len(w.todo) <= w.count
    /\ w.pc \in {"idle", "log", "insert", "link", "finish"}
    /\ w.pc = "idle" => w = Waiting
    /\ w.pc = "insert" => w.todo # <<>>
    /\ \A i \in DOMAIN w.todo : w.todo[i].seq = Used + i
    /\ \A n \in DOMAIN next \ {head} : n.seq <= Used

\* The node that is being linked has no links from w.level up, and its
\* predecessors there are known.
LinkInv ==
    w.pc = "link" =>
        /\ w.node \in DOMAIN next \ {head}
        /\ w.node.seq > last_sequence
        /\ w.level \in 1 .. Len(next[w.node])
        /\ DOMAIN w.prev = 1 .. Len(next[w.node])
        /\ \A l \in DOMAIN w.prev :
              /\ next[w.node][l] = Raw <=> l >= w.level
              /\ l >= w.level => Precedes(AtLevel(l), w.prev[l], w.node)

\* A reader is on its way: at a node before its target, and what it may miss
\* is too new for it.
Searching ==
    /\ rd.level \in 1 .. MaxHeight /\ rd.x \in AtLevel(rd.level)
    /\ rd.known \subseteq Linked
    /\ rd.op # "last" => Before(rd.x, rd.target)
    /\ rd.op = "ge" => /\ rd.target.seq <= last_sequence
                       /\ \A e \in Linked \ rd.known : e.seq > rd.target.seq

Targets == [key : Nat, seq : Nat] \cup Entries

Readers == [pc : {"none", "search", "found"}, op : {"ge", "lt", "last"},
            target : Targets \cup {Null}, x : Entries \cup {Null},
            level : 0 .. MaxHeight, known : SUBSET Entries]

SearchInv ==
    /\ rd \in Readers
    /\ rd.pc # "none" /\ rd.op # "last" => rd.target \in Targets
    /\ rd.pc = "search" => Searching
    /\ SearchesAreRight

\* A node other than the one being linked has all its links.
RawInv ==
    \A n \in DOMAIN next : \A l \in 1 .. Len(next[n]) :
        next[n][l] = Raw => w.pc = "link" /\ n = w.node

ListInv == NodesInv /\ HeightsInv /\ ChainInv /\ WriterInv /\ LinkInv /\ RawInv

-------------------------------------------------------------------------------
\* Facts about the list

LEMMA HeadIsEntry == head \in Entries
BY DEF head, Entries

LEMMA DomainIsEntries ==
    ASSUME NodesInv
    PROVE  /\ DOMAIN next \subseteq Entries
           /\ \A n \in DOMAIN next \ {head} : n.key > 0 /\ n.key \in Nat /\ n.seq \in Nat
           /\ Null \notin Entries /\ Raw \notin Entries /\ Raw # Null
<1>1. [key : Keys, seq : Nat, del : BOOLEAN] \subseteq Entries
    BY MemTableAssumption DEF Entries
<1>2. \A n \in [key : Keys, seq : Nat, del : BOOLEAN] :
         n.key > 0 /\ n.key \in Nat /\ n.seq \in Nat
    <2>1. \A k \in Keys : k \in Nat /\ k > 0
        BY MemTableAssumption
    <2> QED  BY <2>1
<1> QED  BY <1>1, <1>2, HeadIsEntry, MemTableAssumption DEF NodesInv

\* The nodes of the list are in an order, head first.
LEMMA ListOrdered ==
    ASSUME NodesInv
    PROVE  Ordered(DOMAIN next) /\ \A n \in DOMAIN next \ {head} : Before(head, n)
<1>1. \A n \in DOMAIN next \ {head} : Before(head, n)
    BY DomainIsEntries DEF Before, head
<1>2. ASSUME NEW a \in DOMAIN next \ {head}, NEW b \in DOMAIN next \ {head}, a # b
      PROVE  Before(a, b) \/ Before(b, a)
    <2>1. a.seq # b.seq
        BY <1>2 DEF NodesInv, Distinct
    <2>2. a.key \in Nat /\ b.key \in Nat /\ a.seq \in Nat /\ b.seq \in Nat
        BY DomainIsEntries
    <2> QED  BY <2>1, <2>2 DEF Before
<1> QED  BY <1>1, <1>2 DEF Ordered

\* The lowest level.
LEMMA LinkedLevel ==
    ASSUME HeightsInv, NodesInv
    PROVE  Linked = AtLevel(1) \ {head}
<1>1. \A n \in DOMAIN next : 1 <= Len(next[n])
    <2> SUFFICES ASSUME NEW n \in DOMAIN next PROVE 1 <= Len(next[n])
        OBVIOUS
    <2>1. Len(next[n]) \in Nat /\ Len(next[n]) > 0
        BY LenProperties DEF HeightsInv, NodesInv
    <2> QED  BY <2>1
<1> QED  BY <1>1 DEF Linked, AtLevel

LEMMA LinkedLevelThen ==
    ASSUME HeightsInv', NodesInv'
    PROVE  Linked' = AtLevel(1)' \ {head}
<1>1. \A n \in DOMAIN next' : 1 <= Len(next'[n])
    <2> SUFFICES ASSUME NEW n \in DOMAIN next' PROVE 1 <= Len(next'[n])
        OBVIOUS
    <2>1. Len(next'[n]) \in Nat /\ Len(next'[n]) > 0
        BY LenProperties DEF HeightsInv, NodesInv
    <2> QED  BY <2>1
<1> QED  BY <1>1 DEF Linked, AtLevel

LEMMA HeightsMax ==
    ASSUME HeightsInv
    PROVE  Max(max_heights) \in max_heights /\ \A h \in max_heights : h <= Max(max_heights)
<1>1. MaxHeight \in Nat /\ max_heights \in SUBSET Nat /\ max_heights # {}
      /\ \A h \in max_heights : h <= MaxHeight
    BY MemTableAssumption DEF HeightsInv
<1> QED  BY <1>1, MaxOf

-------------------------------------------------------------------------------
\* Steps that leave the list alone

LEMMA SameLevels ==
    ASSUME next' = next
    PROVE  /\ \A l : AtLevel(l)' = AtLevel(l)
           /\ Linked' = Linked
BY DEF AtLevel, Linked

LEMMA SameChains ==
    ASSUME NodesInv, HeightsInv, ChainInv, next' = next, max_heights' = max_heights
    PROVE  NodesInv' /\ HeightsInv' /\ ChainInv'
<1>1. NodesInv'
    BY DEF NodesInv, Distinct
<1>2. HeightsInv'
    BY DEF HeightsInv
<1>3. ChainInv'
    BY SameLevels DEF ChainInv
<1> QED  BY <1>1, <1>2, <1>3

\* The writer goes on, but not with the list.
LEMMA SameList ==
    ASSUME ListInv, next' = next, max_heights' = max_heights,
           w.pc # "link", w'.pc # "link", WriterInv'
    PROVE  ListInv'
<1>1. NodesInv' /\ HeightsInv' /\ ChainInv'
    BY SameChains DEF ListInv
<1>2. RawInv'
    BY DEF ListInv, RawInv
<1>3. LinkInv'
    BY DEF LinkInv
<1> QED  BY <1>1, <1>2, <1>3 DEF ListInv

\* The domains of the writer's records.
LEMMA WriterFields ==
    DOMAIN Waiting = {"pc", "ok", "rec", "size", "from", "begin", "todo", "count",
                      "node", "prev", "level"}
BY DEF Waiting

LEMMA WriteList ==
    ASSUME ListInv, NEW b \in Batches, Write(b)
    PROVE  ListInv'
<1> DEFINE E == [key : Keys, seq : Nat, del : BOOLEAN]
           t == [i \in DOMAIN b |-> [key |-> b[i].key, del |-> b[i].del,
                                     seq |-> last_sequence + i]]
<1>0. b \in Seq([key : Keys, del : BOOLEAN])
    BY MemTableAssumption
<1>1. last_sequence \in Nat /\ \A n \in DOMAIN next \ {head} : n.seq <= last_sequence
    <2>1. last_sequence \in Nat /\ w.count = 0 /\ w.todo = <<>>
          /\ \A n \in DOMAIN next \ {head} : n.seq <= Used
        BY DEF ListInv, WriterInv, Write, Waiting
    <2>2. Used = last_sequence
        BY <2>1 DEF Used
    <2> QED  BY <2>1, <2>2
<1>2. PICK c \in Nat : c = Len(b) /\ DOMAIN b = 1 .. c
    BY <1>0, LenProperties
<1>3. t \in Seq(E) /\ Len(t) = c /\ DOMAIN t = 1 .. c
      /\ \A i \in 1 .. c : t[i].seq = last_sequence + i
    <2>1. \A i \in 1 .. c : b[i].key \in Keys /\ b[i].del \in BOOLEAN
          /\ last_sequence + i \in Nat
        <3>1. \A i \in 1 .. c : b[i] \in [key : Keys, del : BOOLEAN]
            BY <1>0, <1>2, ElementOfSeq
        <3> QED  BY <1>1, <3>1
    <2>2. t \in [1 .. c -> E]
        BY <1>2, <2>1
    <2>3. t \in Seq(E) /\ Len(t) = c
        BY <2>2
    <2> QED  BY <1>2, <2>2, <2>3
<1> HIDE DEF t
<1>4. /\ w'.pc = "log" /\ w'.count = c /\ w'.todo = t /\ DOMAIN w' = DOMAIN Waiting
      /\ w.pc = "idle"
    BY <1>2, WriterFields DEF Write, t, Waiting
<1>5. UNCHANGED <<next, max_heights, last_sequence>>
    BY DEF Write, listing
<1>6. Used' = last_sequence
    <2>1. Used' = last_sequence + c - c
        BY <1>3, <1>4, <1>5 DEF Used
    <2> QED  BY <1>1, <2>1
<1>7. WriterInv'
    BY <1>1, <1>3, <1>4, <1>5, <1>6 DEF WriterInv
<1> QED  BY <1>4, <1>5, <1>7, SameList

\* The log is written: the group stays as it is.
LEMMA LogList ==
    ASSUME ListInv, EmitPhysicalRecord \/ EmitFails
    PROVE  ListInv'
<1>1. UNCHANGED <<next, max_heights, last_sequence>>
    BY DEF EmitPhysicalRecord, EmitFails, listing
<1>2. /\ w.pc = "log" /\ w'.count = w.count /\ w'.todo = w.todo
      /\ w'.pc \in {"log", "insert", "finish"} /\ DOMAIN w' = DOMAIN w
      /\ w'.pc = "insert" => w.todo # <<>>
    <2>1. DOMAIN w = {"pc", "ok", "rec", "size", "from", "begin", "todo", "count",
                      "node", "prev", "level"}
        BY WriterFields DEF ListInv, WriterInv
    <2>2. CASE EmitPhysicalRecord
        BY <2>1, <2>2 DEF EmitPhysicalRecord
    <2>3. CASE EmitFails
        BY <2>1, <2>3 DEF EmitFails
    <2> QED  BY <2>2, <2>3
<1>3. Used' = Used
    BY <1>1, <1>2 DEF Used
<1>4. WriterInv'
    BY <1>1, <1>2, <1>3 DEF WriterInv, ListInv
<1> QED  BY <1>1, <1>2, <1>4, SameList

\* The group is done: its numbers are used up.
LEMMA FinishList ==
    ASSUME ListInv, Finish
    PROVE  ListInv'
<1>1. UNCHANGED <<next, max_heights>> /\ w.pc = "finish" /\ w' = Waiting
      /\ last_sequence' = last_sequence + w.count
    BY DEF Finish, listing
<1>2. last_sequence \in Nat /\ w.count \in Nat /\ Len(w.todo) \in Nat
      /\ \A n \in DOMAIN next \ {head} : n.seq <= Used /\ n.seq \in Nat
    BY LenProperties, DomainIsEntries DEF ListInv, WriterInv
<1>3. w'.count = 0 /\ w'.todo = <<>> /\ w'.pc = "idle"
    BY <1>1 DEF Waiting
<1>4. last_sequence' \in Nat /\ Used' = last_sequence' /\ Used \in Int /\ Used <= last_sequence'
    BY <1>1, <1>2, <1>3 DEF Used
<1>5. \A n \in DOMAIN next' \ {head} : n.seq <= Used'
    BY <1>1, <1>2, <1>4
<1>6. WriterInv'
    BY <1>1, <1>3, <1>4, <1>5 DEF WriterInv, Waiting
<1> QED  BY <1>1, <1>3, <1>6, SameList

-------------------------------------------------------------------------------
\* A new node

\* The writer's search ends at the last node before the new one.
LEMMA PredecessorIs ==
    ASSUME NodesInv, ChainInv, NEW l \in 1 .. MaxHeight, NEW e \in Entries, Before(head, e)
    PROVE  Precedes(AtLevel(l), Predecessor(e, l), e)
<1> DEFINE B == {n \in AtLevel(l) : Before(n, e)}
<1>1. AtLevel(l) \subseteq DOMAIN next /\ B \subseteq DOMAIN next /\ head \in B
    BY DEF AtLevel, ChainInv
<1>2. B \in SUBSET Entries /\ Ordered(B) /\ IsFiniteSet(B) /\ B # {}
    <2>1. IsFiniteSet(B)
        BY <1>1, FS_Subset DEF NodesInv
    <2> QED  BY <1>1, <2>1, DomainIsEntries, ListOrdered DEF Ordered
<1>3. IsLargest(B, Largest(B))
    <2> HIDE DEF B
    <2> QED  BY <1>2, LargestExists, LargestIs
<1>4. Predecessor(e, l) = Largest(B)
    BY DEF Predecessor
<1> QED  BY <1>3, <1>4 DEF IsLargest, Precedes

\* Nothing but head is higher than every height announced.
LEMMA AboveHeights ==
    ASSUME NodesInv, HeightsInv, NEW l \in Nat, l > Max(max_heights), NEW n \in AtLevel(l)
    PROVE  n = head
<1> SUFFICES ASSUME n # head PROVE FALSE
    OBVIOUS
<1>1. n \in DOMAIN next \ {head} /\ l <= Len(next[n])
    BY DEF AtLevel
<1>2. PICK h \in max_heights : Len(next[n]) <= h
    BY <1>1 DEF HeightsInv
<1>3. h <= Max(max_heights) /\ Max(max_heights) \in Nat /\ h \in Nat
    <2>1. \A x \in max_heights : x \in Nat
        BY MemTableAssumption DEF HeightsInv
    <2> QED  BY <1>2, <2>1, HeightsMax
<1>4. Len(next[n]) \in Nat
    BY <1>1, LenProperties DEF NodesInv
<1> QED  BY <1>1, <1>2, <1>3, <1>4

\* The next entry of the group.
LEMMA NewEntry ==
    ASSUME ListInv, w.pc = "insert"
    PROVE  /\ Head(w.todo) \in [key : Keys, seq : Nat, del : BOOLEAN]
           /\ Head(w.todo) \in Entries /\ Head(w.todo) \notin DOMAIN next
           /\ Before(head, Head(w.todo))
           /\ Head(w.todo).seq = Used + 1
           /\ Head(w.todo).seq > last_sequence
           /\ Used \in Nat
           /\ Tail(w.todo) \in Seq([key : Keys, seq : Nat, del : BOOLEAN])
           /\ Len(w.todo) \in Nat \ {0}
           /\ Len(Tail(w.todo)) = Len(w.todo) - 1
           /\ \A i \in DOMAIN Tail(w.todo) : Tail(w.todo)[i].seq = Used + 1 + i
<1> DEFINE E == [key : Keys, seq : Nat, del : BOOLEAN]
           e == Head(w.todo)
<1>0. NodesInv /\ WriterInv
    BY DEF ListInv
<1>1. w.todo \in Seq(E) /\ w.todo # <<>>
    BY <1>0 DEF WriterInv
<1>3. PICK k \in Nat : k = Len(w.todo) /\ k > 0 /\ DOMAIN w.todo = 1 .. k
    BY <1>1, LenProperties, EmptySeq
<1>2. e \in E /\ e = w.todo[1] /\ Tail(w.todo) \in Seq(E) /\ 1 \in DOMAIN w.todo
    <2> HIDE DEF E
    <2>1. e \in E /\ Tail(w.todo) \in Seq(E)
        BY <1>1, HeadTailProperties
    <2>2. e = w.todo[1]
        BY <1>1
    <2> QED  BY <1>3, <2>1, <2>2
<1>4. last_sequence \in Nat /\ w.count \in Nat /\ k <= w.count
    BY <1>0, <1>3 DEF WriterInv
<1>5. Used \in Nat /\ Used >= last_sequence
    BY <1>3, <1>4 DEF Used
<1>6. e.seq = Used + 1
    BY <1>0, <1>2, <1>3 DEF WriterInv
<1>7. e \in Entries /\ e.key > 0
    <2>1. \A x \in Keys : x \in Nat /\ x > 0
        BY MemTableAssumption
    <2> HIDE DEF e
    <2> QED  BY <1>2, <2>1 DEF Entries
<1>8. Before(head, e)
    <2> HIDE DEF e
    <2> QED  BY <1>7 DEF Before, head, Entries
<1>9. e \notin DOMAIN next
    <2> SUFFICES ASSUME e \in DOMAIN next PROVE FALSE
        OBVIOUS
    <2>1. e # head
        BY <1>7 DEF head
    <2>2. e.seq <= Used
        BY <1>0, <2>1 DEF WriterInv
    <2> QED  BY <1>5, <1>6, <2>2
<1>10. Len(Tail(w.todo)) = Len(w.todo) - 1
       /\ \A i \in 1 .. k - 1 : Tail(w.todo)[i] = w.todo[i + 1]
    BY <1>1, <1>3, HeadTailProperties
<1>11. DOMAIN Tail(w.todo) = 1 .. k - 1
    BY <1>2, <1>3, <1>10, LenProperties
<1>12. \A i \in 1 .. k - 1 : Tail(w.todo)[i].seq = Used + 1 + i
    <2> SUFFICES ASSUME NEW i \in 1 .. k - 1 PROVE Tail(w.todo)[i].seq = Used + 1 + i
        OBVIOUS
    <2>1. i + 1 \in DOMAIN w.todo
        BY <1>3
    <2>2. w.todo[i + 1].seq = Used + (i + 1)
        BY <1>0, <2>1 DEF WriterInv
    <2>3. Tail(w.todo)[i] = w.todo[i + 1]
        BY <1>10
    <2>4. i \in Nat /\ Used + (i + 1) = Used + 1 + i
        BY <1>5
    <2> QED  BY <2>2, <2>3, <2>4
<1>13. Used + 1 > last_sequence
    BY <1>4, <1>5
<1> HIDE DEF e
<1> QED
    <2>1. e.seq > last_sequence /\ Len(w.todo) \in Nat \ {0}
        BY <1>3, <1>6, <1>13
    <2> QED
        BY <1>2, <1>5, <1>6, <1>7, <1>8, <1>9, <1>10, <1>11, <1>12, <2>1 DEF e

\* The predecessors that Insert keeps for the new entry.
LEMMA InsertPredecessors ==
    ASSUME NodesInv, HeightsInv, ChainInv, NEW e \in Entries, Before(head, e),
           NEW l \in 1 .. MaxHeight
    PROVE  Precedes(AtLevel(l), IF l > Max(max_heights) THEN head ELSE Predecessor(e, l), e)
<1>1. CASE l > Max(max_heights)
    <2>1. \A n \in AtLevel(l) : n = head
        BY <1>1, AboveHeights
    <2> QED  BY <1>1, <2>1 DEF Precedes, ChainInv
<1>2. CASE ~(l > Max(max_heights))
    BY <1>2, PredecessorIs
<1> QED  BY <1>1, <1>2

LEMMA InsertList ==
    ASSUME ListInv, NEW height \in 1 .. MaxHeight, Insert(height)
    PROVE  /\ ListInv' /\ last_sequence' = last_sequence
           /\ \A l \in 1 .. MaxHeight : AtLevel(l)' = AtLevel(l)
<1> DEFINE E == [key : Keys, seq : Nat, del : BOOLEAN]
           links == [l \in 1 .. height |-> Raw]
<1>0. NodesInv /\ HeightsInv /\ ChainInv /\ WriterInv /\ RawInv
    BY DEF ListInv
<1>1. PICK e \in E : e = Head(w.todo)
    BY NewEntry DEF Insert
<1>2. /\ e \in Entries /\ e \notin DOMAIN next /\ Before(head, e) /\ e.seq = Used + 1
      /\ e.seq > last_sequence /\ Used \in Nat
    BY <1>1, NewEntry DEF Insert
<1>3. /\ w.pc = "insert"
      /\ next' = [n \in DOMAIN next \cup {e} |-> IF n = e THEN links ELSE next[n]]
      /\ max_heights' = max_heights \cup
                          (IF height > Max(max_heights) THEN {height} ELSE {})
      /\ UNCHANGED last_sequence
    BY <1>1 DEF Insert
<1>4. MaxHeight \in Nat /\ height \in Nat /\ height > 0 /\ height <= MaxHeight
    BY MemTableAssumption
<1>5. links \in Seq(Entries \cup {Null, Raw}) /\ Len(links) = height
      /\ DOMAIN links = 1 .. height /\ \A l \in 1 .. height : links[l] = Raw
    BY <1>4
<1> HIDE DEF links
<1>6. DOMAIN next' = DOMAIN next \cup {e} /\ next'[e] = links
      /\ \A n \in DOMAIN next : next'[n] = next[n]
    BY <1>2, <1>3
<1>7. e # head /\ head \in DOMAIN next
    BY <1>0, <1>2 DEF NodesInv
<1>8. \A l \in 1 .. MaxHeight : AtLevel(l)' = AtLevel(l)
    <2> SUFFICES ASSUME NEW l \in 1 .. MaxHeight PROVE AtLevel(l)' = AtLevel(l)
        OBVIOUS
    <2>1. ~(l <= Len(next'[e]) /\ next'[e][l] # Raw)
        BY <1>4, <1>5, <1>6
    <2> QED  BY <1>6, <2>1 DEF AtLevel
<1>9. NodesInv'
    <2>1. head \in DOMAIN next' /\ DOMAIN next' \ {head} \subseteq E
          /\ Len(next'[head]) = MaxHeight
        BY <1>0, <1>6, <1>7 DEF NodesInv
    <2>2. IsFiniteSet(DOMAIN next')
        BY <1>0, <1>6, FS_AddElement DEF NodesInv
    <2>3. Distinct(DOMAIN next' \ {head})
        <3>1. \A n \in DOMAIN next \ {head} : n.seq \in Nat /\ n.seq <= Used
            BY <1>0, DomainIsEntries DEF WriterInv
        <3>2. \A n \in DOMAIN next \ {head} : n.seq # e.seq
            BY <1>2, <3>1
        <3> QED  BY <1>0, <1>6, <3>2 DEF Distinct, NodesInv
    <2>4. \A n \in DOMAIN next' : next'[n] \in Seq(Entries \cup {Null, Raw})
        BY <1>0, <1>5, <1>6 DEF NodesInv
    <2> QED  BY <2>1, <2>2, <2>3, <2>4 DEF NodesInv
<1>10. HeightsInv'
    <2>1. Max(max_heights) \in max_heights /\ Max(max_heights) \in Nat
        <3>1. \A x \in max_heights : x \in Nat
            BY <1>0, MemTableAssumption DEF HeightsInv
        <3> QED  BY <1>0, <3>1, HeightsMax
    <2>2. \E h \in max_heights' : height <= h
        BY <1>3, <1>4, <2>1
    <2>3. 1 \in max_heights' /\ max_heights' \subseteq 1 .. MaxHeight
        BY <1>0, <1>3, <1>4 DEF HeightsInv
    <2>4. \A n \in DOMAIN next' \ {head} : \E h \in max_heights' : Len(next'[n]) <= h
        BY <1>0, <1>3, <1>5, <1>6, <2>2 DEF HeightsInv
    <2>5. \A n \in DOMAIN next' : Len(next'[n]) > 0
        BY <1>0, <1>4, <1>5, <1>6 DEF HeightsInv
    <2> QED  BY <2>3, <2>4, <2>5 DEF HeightsInv
<1>11. ChainInv'
    <2>1. ASSUME NEW l \in 1 .. MaxHeight, NEW n \in AtLevel(l)'
          PROVE  Follows(AtLevel(l)', n, next'[n][l])
        <3>1. n \in AtLevel(l) /\ n \in DOMAIN next
            BY <1>8, <2>1 DEF AtLevel
        <3> QED  BY <1>0, <1>6, <1>8, <3>1 DEF ChainInv
    <2>2. ASSUME NEW l \in 2 .. MaxHeight
          PROVE  AtLevel(l)' \subseteq AtLevel(l - 1)'
        <3>1. l \in 1 .. MaxHeight /\ l - 1 \in 1 .. MaxHeight
            BY <1>4
        <3> QED  BY <1>0, <1>8, <3>1 DEF ChainInv
    <2>3. \A l \in 1 .. MaxHeight : head \in AtLevel(l)'
        BY <1>0, <1>8 DEF ChainInv
    <2> QED  BY <2>1, <2>2, <2>3 DEF ChainInv
<1>12. /\ DOMAIN w' = DOMAIN w /\ w'.pc = "link" /\ w'.todo = Tail(w.todo)
       /\ w'.node = e /\ w'.level = 1 /\ w'.count = w.count
       /\ w'.prev = [l \in 1 .. height |-> IF l > Max(max_heights) THEN head
                                           ELSE Predecessor(e, l)]
    <2>1. DOMAIN w = {"pc", "ok", "rec", "size", "from", "begin", "todo", "count",
                      "node", "prev", "level"}
        BY <1>0, WriterFields DEF WriterInv
    <2> QED  BY <1>1, <2>1 DEF Insert
<1>13. WriterInv'
    <2>1. /\ Len(w.todo) \in Nat \ {0} /\ Len(Tail(w.todo)) = Len(w.todo) - 1
          /\ Tail(w.todo) \in Seq(E)
          /\ \A i \in DOMAIN Tail(w.todo) : Tail(w.todo)[i].seq = Used + 1 + i
        BY <1>3, NewEntry
    <2>2. last_sequence \in Nat /\ w.count \in Nat /\ Len(w.todo) <= w.count
        BY <1>0 DEF WriterInv
    <2>3. Used' = Used + 1
        <3>1. Used' = last_sequence + w.count - (Len(w.todo) - 1)
            BY <1>3, <1>12, <2>1 DEF Used
        <3> QED  BY <2>1, <2>2, <3>1 DEF Used
    <2>4. \A n \in DOMAIN next' \ {head} : n.seq <= Used'
        <3>1. \A n \in DOMAIN next \ {head} : n.seq \in Nat /\ n.seq <= Used
            BY <1>0, DomainIsEntries DEF WriterInv
        <3> QED  BY <1>2, <1>6, <2>3, <3>1
    <2>5. Len(w'.todo) <= w'.count
        BY <1>12, <2>1, <2>2
    <2> QED  BY <1>0, <1>3, <1>12, <2>1, <2>2, <2>3, <2>4, <2>5 DEF WriterInv
<1>14. RawInv'
    BY <1>0, <1>3, <1>6, <1>12 DEF RawInv
<1>15. LinkInv'
    <2>1. DOMAIN w'.prev = 1 .. height /\ Len(next'[e]) = height
        BY <1>5, <1>6, <1>12
    <2>2. \A l \in 1 .. height : next'[e][l] = Raw /\ l >= 1
        BY <1>5, <1>6
    <2>3. ASSUME NEW l \in 1 .. height
          PROVE  Precedes(AtLevel(l)', w'.prev[l], e)
        <3>1. l \in 1 .. MaxHeight
            BY <1>4
        <3>2. w'.prev[l] = IF l > Max(max_heights) THEN head ELSE Predecessor(e, l)
            BY <1>12
        <3> QED  BY <1>0, <1>2, <1>8, <3>1, <3>2, InsertPredecessors
    <2>4. 1 \in 1 .. height /\ e \in DOMAIN next' \ {head} /\ e.seq > last_sequence'
        BY <1>2, <1>3, <1>4, <1>6, <1>7
    <2> QED  BY <1>12, <2>1, <2>2, <2>3, <2>4 DEF LinkInv
<1> QED  BY <1>3, <1>8, <1>9, <1>10, <1>11, <1>13, <1>14, <1>15 DEF ListInv

-------------------------------------------------------------------------------
\* One level more

LEMMA LinkList ==
    ASSUME ListInv, LinkLevel
    PROVE  /\ ListInv' /\ last_sequence' = last_sequence
           /\ \A l \in 1 .. MaxHeight : AtLevel(l)' = AtLevel(l)
                 \/ (AtLevel(l)' = AtLevel(l) \cup {w.node} /\ w.node.seq > last_sequence)
<1> DEFINE E == [key : Keys, seq : Nat, del : BOOLEAN]
<1>0. NodesInv /\ HeightsInv /\ ChainInv /\ WriterInv /\ RawInv /\ LinkInv
      /\ w.pc = "link" /\ MaxHeight \in Nat
    BY MemTableAssumption DEF ListInv, LinkLevel
<1>1. PICK e : e = w.node /\ e \in DOMAIN next \ {head} /\ e.seq > last_sequence
    BY <1>0 DEF LinkInv
<1>2. PICK height \in Nat : height = Len(next[e]) /\ DOMAIN next[e] = 1 .. height
    BY <1>0, <1>1, LenProperties DEF NodesInv
<1>3. PICK level \in 1 .. height : level = w.level
    BY <1>0, <1>1, <1>2 DEF LinkInv
<1>4. PICK p : p = w.prev[level]
    OBVIOUS
<1>5. height <= MaxHeight /\ level \in 1 .. MaxHeight
    <2>1. PICK h \in max_heights : height <= h
        BY <1>0, <1>1, <1>2 DEF HeightsInv
    <2>2. h \in Nat /\ h <= MaxHeight
        BY <1>0 DEF HeightsInv
    <2> QED  BY <1>0, <2>1, <2>2
<1>6. /\ \A l \in 1 .. height : next[e][l] = Raw <=> l >= level
      /\ \A l \in 1 .. height : l >= level => Precedes(AtLevel(l), w.prev[l], e)
    BY <1>0, <1>1, <1>2, <1>3 DEF LinkInv
<1>7. Precedes(AtLevel(level), p, e) /\ next[e][level] = Raw
    BY <1>3, <1>4, <1>6
<1>8. p \in AtLevel(level) /\ p # e /\ p \in DOMAIN next /\ level \in 1 .. Len(next[p])
      /\ next[p][level] # Raw
    <2>1. p \in AtLevel(level)
        BY <1>7 DEF Precedes
    <2> QED  BY <1>3, <1>7, <2>1 DEF AtLevel
<1>9. PICK q : q = next[p][level] /\ q \in Entries \cup {Null, Raw} /\ q # Raw
    BY <1>0, <1>8, ElementOfSeq DEF NodesInv
<1>10. next' = [next EXCEPT ![e][level] = q, ![p][level] = e]
    BY <1>1, <1>3, <1>4, <1>9 DEF LinkLevel
<1>11. /\ DOMAIN next' = DOMAIN next
       /\ next'[e] = [next[e] EXCEPT ![level] = q]
       /\ next'[p] = [next[p] EXCEPT ![level] = e]
       /\ \A n \in DOMAIN next \ {e, p} : next'[n] = next[n]
    BY <1>1, <1>8, <1>10
<1>12. /\ DOMAIN w' = DOMAIN w /\ w'.level = level + 1 /\ w'.todo = w.todo
       /\ w'.node = e /\ w'.count = w.count /\ w'.prev = w.prev
       /\ w'.pc = IF level < height THEN "link"
                  ELSE IF w.todo # <<>> THEN "insert" ELSE "finish"
       /\ UNCHANGED <<max_heights, last_sequence>>
    <2>1. DOMAIN w = {"pc", "ok", "rec", "size", "from", "begin", "todo", "count",
                      "node", "prev", "level"}
        BY <1>0, WriterFields DEF WriterInv
    <2> QED  BY <1>1, <1>2, <1>3, <2>1 DEF LinkLevel
<1>13. e \in Entries /\ p \in Entries
    BY <1>0, <1>1, <1>8, DomainIsEntries
<1>14. \A n \in DOMAIN next :
          /\ next'[n] \in Seq(Entries \cup {Null, Raw})
          /\ Len(next'[n]) = Len(next[n])
          /\ \A l \in 1 .. Len(next[n]) :
                ~(l = level /\ n \in {e, p}) => next'[n][l] = next[n][l]
    <2> SUFFICES ASSUME NEW n \in DOMAIN next
                 PROVE  /\ next'[n] \in Seq(Entries \cup {Null, Raw})
                        /\ Len(next'[n]) = Len(next[n])
                        /\ \A l \in 1 .. Len(next[n]) :
                             ~(l = level /\ n \in {e, p}) => next'[n][l] = next[n][l]
        OBVIOUS
    <2>1. next[n] \in Seq(Entries \cup {Null, Raw})
        BY <1>0 DEF NodesInv
    <2>2. CASE n \in {e, p}
        <3>1. PICK v \in Entries \cup {Null, Raw} :
                 next'[n] = [next[n] EXCEPT ![level] = v]
            BY <1>9, <1>11, <1>13, <2>2
        <3>2. level \in 1 .. Len(next[n])
            BY <1>2, <1>3, <1>8, <2>2
        <3> QED  BY <2>1, <2>2, <3>1, <3>2, ExceptSeq
    <2>3. CASE n \notin {e, p}
        BY <1>11, <2>1, <2>3
    <2> QED  BY <2>2, <2>3
<1>15. next'[e][level] = q /\ next'[p][level] = e
    <2>1. level \in DOMAIN next[e] /\ level \in DOMAIN next[p]
        BY <1>0, <1>2, <1>3, <1>8, LenProperties DEF NodesInv
    <2> QED  BY <1>11, <2>1
<1>16. \A l \in 1 .. MaxHeight \ {level} : AtLevel(l)' = AtLevel(l)
    <2> SUFFICES ASSUME NEW l \in 1 .. MaxHeight \ {level} PROVE AtLevel(l)' = AtLevel(l)
        OBVIOUS
    <2>1. \A n \in DOMAIN next : Len(next[n]) \in Nat
        BY <1>0, LenProperties DEF NodesInv
    <2>2. \A n \in DOMAIN next : l <= Len(next[n]) => next'[n][l] = next[n][l]
        BY <1>14, <2>1
    <2> QED  BY <1>11, <1>14, <2>2 DEF AtLevel
<1>17. AtLevel(level)' = AtLevel(level) \cup {e}
    <2>1. \A n \in DOMAIN next : Len(next[n]) \in Nat
        BY <1>0, LenProperties DEF NodesInv
    <2>2. \A n \in DOMAIN next \ {e, p} :
             level <= Len(next[n]) => next'[n][level] = next[n][level]
        BY <1>14, <2>1
    <2>3. e \in AtLevel(level)' /\ p \in AtLevel(level)'
        <3>1. e # Raw
            BY <1>13, MemTableAssumption
        <3> QED  BY <1>1, <1>2, <1>3, <1>8, <1>9, <1>11, <1>14, <1>15, <3>1 DEF AtLevel
    <2>4. \A n \in DOMAIN next \ {e, p} : n \in AtLevel(level)' <=> n \in AtLevel(level)
        BY <1>11, <1>14, <2>2 DEF AtLevel
    <2>5. AtLevel(level)' \subseteq DOMAIN next /\ AtLevel(level) \subseteq DOMAIN next
        BY <1>11 DEF AtLevel
    <2> QED  BY <1>8, <2>3, <2>4, <2>5
<1>18. e \notin AtLevel(level)
    BY <1>7 DEF AtLevel
<1>19. NodesInv'
    BY <1>0, <1>11, <1>14 DEF NodesInv
<1>20. HeightsInv'
    BY <1>0, <1>11, <1>12, <1>14 DEF HeightsInv
<1>21. ChainInv'
    <2>1. ASSUME NEW n \in AtLevel(level)'
          PROVE  Follows(AtLevel(level)', n, next'[n][level])
        <3> DEFINE A == AtLevel(level)
        <3>1. A \in SUBSET Entries /\ Ordered(A \cup {e})
            <4>1. A \cup {e} \subseteq DOMAIN next
                BY <1>1 DEF AtLevel
            <4> QED  BY <1>0, <4>1, DomainIsEntries, ListOrdered DEF Ordered
        <3>2. Follows(A, p, q)
            BY <1>0, <1>5, <1>8, <1>9 DEF ChainInv
        <3>3. /\ Follows(A \cup {e}, e, q) /\ Follows(A \cup {e}, p, e)
              /\ \A k \in A \ {p} : \A m : Follows(A, k, m) => Follows(A \cup {e}, k, m)
            <4> HIDE DEF A
            <4> QED  BY <1>7, <1>13, <1>18, <3>1, <3>2, LinkChain DEF A
        <3>4. CASE n \in {e, p}
            BY <1>15, <1>17, <3>3, <3>4
        <3>5. CASE n \notin {e, p}
            <4>1. n \in A /\ n \in DOMAIN next /\ level <= Len(next[n])
                BY <1>17, <3>5 DEF AtLevel
            <4>2. next'[n] = next[n]
                BY <1>11, <3>5, <4>1
            <4>3. Follows(A, n, next[n][level])
                BY <1>0, <1>5, <4>1 DEF ChainInv
            <4> QED  BY <1>17, <3>3, <3>5, <4>1, <4>2, <4>3
        <3> QED  BY <3>4, <3>5
    <2>2. ASSUME NEW l \in 1 .. MaxHeight, l # level, NEW n \in AtLevel(l)'
          PROVE  Follows(AtLevel(l)', n, next'[n][l])
        <3>1. n \in AtLevel(l) /\ n \in DOMAIN next /\ l <= Len(next[n])
            BY <1>16, <2>2 DEF AtLevel
        <3>2. Len(next[n]) \in Nat
            BY <1>0, <3>1, LenProperties DEF NodesInv
        <3>3. next'[n][l] = next[n][l]
            BY <1>14, <2>2, <3>1, <3>2
        <3> QED  BY <1>0, <1>16, <2>2, <3>1, <3>3 DEF ChainInv
    <2>3. ASSUME NEW l \in 2 .. MaxHeight
          PROVE  AtLevel(l)' \subseteq AtLevel(l - 1)'
        <3>1. l \in 1 .. MaxHeight /\ l - 1 \in 1 .. MaxHeight /\ l - 1 # l
            BY <1>0
        <3>2. AtLevel(l) \subseteq AtLevel(l - 1)
            BY <1>0 DEF ChainInv
        <3>3. AtLevel(l - 1) \subseteq AtLevel(l - 1)'
            BY <1>16, <1>17, <3>1
        <3>4. CASE l = level
            <4>1. e \in AtLevel(l - 1)
                <5>1. l - 1 \in 1 .. height /\ ~(l - 1 >= level) /\ l - 1 <= height
                    BY <1>3, <3>1, <3>4
                <5> QED  BY <1>1, <1>2, <1>6, <5>1 DEF AtLevel
            <4> QED  BY <1>17, <3>2, <3>3, <3>4, <4>1
        <3>5. CASE l # level
            BY <1>16, <3>1, <3>2, <3>3, <3>5
        <3> QED  BY <3>4, <3>5
    <2>4. \A l \in 1 .. MaxHeight : head \in AtLevel(l)'
        BY <1>0, <1>16, <1>17 DEF ChainInv
    <2> QED  BY <1>5, <2>1, <2>2, <2>3, <2>4 DEF ChainInv
<1>22. WriterInv'
    <2>1. Used' = Used
        BY <1>12 DEF Used
    <2>2. w'.pc \in {"insert", "link", "finish"} /\ (w'.pc = "insert" => w'.todo # <<>>)
        BY <1>12
    <2> QED  BY <1>0, <1>11, <1>12, <2>1, <2>2 DEF WriterInv
<1>23. \A l \in 1 .. height : next'[e][l] = Raw <=> l >= level + 1
    <2> SUFFICES ASSUME NEW l \in 1 .. height
                 PROVE  next'[e][l] = Raw <=> l >= level + 1
        OBVIOUS
    <2>1. CASE l = level
        BY <1>9, <1>15, <2>1
    <2>2. CASE l # level
        <3>1. next'[e][l] = next[e][l]
            BY <1>1, <1>2, <1>14, <2>2
        <3> QED  BY <1>6, <2>2, <3>1
    <2> QED  BY <2>1, <2>2
<1>24. RawInv'
    <2> SUFFICES ASSUME NEW n \in DOMAIN next, NEW l \in 1 .. Len(next[n]),
                        next'[n][l] = Raw
                 PROVE  w'.pc = "link" /\ n = e
        BY <1>11, <1>12, <1>14 DEF RawInv
    <2>1. n = e
        <3> SUFFICES ASSUME n # e PROVE FALSE
            OBVIOUS
        <3>1. ~(n = p /\ l = level)
            BY <1>13, <1>15, MemTableAssumption
        <3>2. next'[n][l] = next[n][l]
            BY <1>14, <3>1
        <3> QED  BY <1>0, <1>1, <3>2 DEF RawInv
    <2>2. l >= level + 1 /\ l <= height
        BY <1>2, <1>23, <2>1
    <2>3. level < height
        BY <1>2, <2>1, <2>2
    <2> QED  BY <1>12, <2>1, <2>3
<1>25. LinkInv'
    <2> SUFFICES ASSUME w'.pc = "link" PROVE LinkInv'
        BY DEF LinkInv
    <2>1. level < height /\ level + 1 \in 1 .. height
        BY <1>12
    <2>2. Len(next'[e]) = height /\ DOMAIN w'.prev = 1 .. height
        BY <1>0, <1>1, <1>2, <1>12, <1>14 DEF LinkInv
    <2>3. ASSUME NEW l \in 1 .. height, l >= level + 1
          PROVE  Precedes(AtLevel(l)', w'.prev[l], e)
        <3>1. l >= level /\ l \in 1 .. MaxHeight \ {level}
            BY <1>5, <2>3, MemTableAssumption
        <3> QED  BY <1>6, <1>12, <1>16, <3>1
    <2> QED  BY <1>1, <1>11, <1>12, <1>23, <2>1, <2>2, <2>3 DEF LinkInv
<1>26. ListInv'
    BY <1>19, <1>20, <1>21, <1>22, <1>24, <1>25 DEF ListInv
<1> QED  BY <1>1, <1>12, <1>16, <1>17, <1>26

-------------------------------------------------------------------------------
\* The searches

\* What the readers leave alone.
listVars == <<next, max_heights, last_sequence, w>>

LEMMA SameListVars ==
    ASSUME ListInv, UNCHANGED listVars
    PROVE  ListInv'
<1>1. NodesInv' /\ HeightsInv' /\ ChainInv'
    BY SameChains DEF ListInv, listVars
<1>2. Used' = Used
    BY DEF Used, listVars
<1>3. WriterInv'
    BY <1>2 DEF ListInv, WriterInv, listVars
<1>4. RawInv'
    BY DEF ListInv, RawInv, listVars
<1>5. LinkInv'
    BY SameLevels DEF ListInv, LinkInv, listVars
<1> QED  BY <1>1, <1>3, <1>4, <1>5 DEF ListInv

\* The list grows while a reader is in it.
Grows ==
    /\ last_sequence \in Nat /\ last_sequence' \in Nat /\ last_sequence <= last_sequence'
    /\ \A l \in 1 .. MaxHeight : AtLevel(l) \subseteq AtLevel(l)'
    /\ Linked \subseteq Linked'
    /\ \A e \in Linked' \ Linked : e.seq > last_sequence /\ e.seq \in Nat
    /\ NodesInv' /\ RawInv'

LEMMA SearchGoesOn ==
    ASSUME SearchInv, Grows, UNCHANGED rd
    PROVE  SearchInv'
<1>1. ASSUME rd.pc = "search" PROVE Searching' /\ next'[rd.x][rd.level] # Raw
    <2>1. Searching
        BY <1>1 DEF SearchInv
    <2>2. rd.x \in AtLevel(rd.level)' /\ rd.level \in 1 .. MaxHeight
        BY <2>1 DEF Searching, Grows
    <2>3. next'[rd.x][rd.level] # Raw
        BY <2>2 DEF AtLevel
    <2>4. ASSUME rd.op = "ge"
          PROVE  /\ rd.target.seq <= last_sequence'
                 /\ \A e \in Linked' \ rd.known : e.seq > rd.target.seq
        <3>1. /\ rd.target.seq <= last_sequence /\ rd.target.seq \in Nat
              /\ \A e \in Linked \ rd.known : e.seq > rd.target.seq
            <4>1. rd.target \in Targets
                BY <1>1, <2>4 DEF SearchInv
            <4>2. \A t \in Targets : t.seq \in Nat
                BY DEF Targets, Entries
            <4> QED  BY <2>1, <2>4, <4>1, <4>2 DEF Searching
        <3> QED  BY <3>1 DEF Grows
    <2>5. rd.known \subseteq Linked'
        BY <2>1 DEF Searching, Grows
    <2>6. rd.op # "last" => Before(rd.x, rd.target)
        BY <2>1 DEF Searching
    <2> QED  BY <2>2, <2>3, <2>4, <2>5, <2>6 DEF Searching
<1>2. SearchesAreRight'
    <2>1. ASSUME rd.pc = "found" PROVE
          CASE rd.op = "ge" ->
                 /\ rd.x # Null => rd.x \in Linked' /\ ~Before(rd.x, rd.target)
                 /\ LET k == rd.target.key
                    IN  TableGet(rd.known, k, rd.target.seq) =
                            IF rd.x # Null /\ rd.x.key = k THEN rd.x ELSE Null
            [] rd.op = "lt" ->
                 /\ Before(rd.x, rd.target)
                 /\ \A e \in rd.known : ~(Before(rd.x, e) /\ Before(e, rd.target))
            [] OTHER -> \A e \in rd.known : ~Before(rd.x, e)
        BY <2>1 DEF SearchInv, SearchesAreRight, Grows
    <2> QED  BY <1>1, <2>1 DEF SearchesAreRight
<1> QED  BY <1>1, <1>2 DEF SearchInv

\* Comparisons with a target, which may be less than an entry.
LEMMA TargetOrder ==
    /\ \A t \in Targets : t.key \in Nat /\ t.seq \in Nat
    /\ \A a, b \in Entries, t \in Targets : Before(a, b) /\ Before(b, t) => Before(a, t)
<1>1. \A t \in Targets : t.key \in Nat /\ t.seq \in Nat
    BY DEF Targets, Entries
<1> QED  BY <1>1 DEF Before, Entries

LEMMA SmallestIs ==
    ASSUME NEW A \in SUBSET Entries, NEW m, IsSmallest(A, m)
    PROVE  Smallest(A) = m
<1>1. \E x \in A : \A d \in A \ {x} : Before(x, d)
    BY DEF IsSmallest
<1>2. Smallest(A) \in A /\ \A d \in A \ {Smallest(A)} : Before(Smallest(A), d)
    BY <1>1 DEF Smallest
<1> QED  BY <1>2, BeforeOrder DEF IsSmallest

\* Where a search for target t ends: at x and the node n behind it, among the
\* entries L of the lowest level.
LEMMA FoundAtLeast ==
    ASSUME NEW L \in SUBSET Entries, Ordered(L), NEW x \in L, NEW n, Follows(L, x, n),
           NEW t \in Targets, Before(x, t), n # Null => ~Before(n, t),
           NEW known \in SUBSET L,
           n \in L \ known => n.seq > t.seq
    PROVE  TableGet(known, t.key, t.seq) = IF n # Null /\ n.key = t.key THEN n ELSE Null
<1> DEFINE V == {e \in known : e.key = t.key /\ e.seq <= t.seq}
<1>0. /\ t.key \in Nat /\ t.seq \in Nat
      /\ n # Null => /\ n \in L /\ n \in Entries /\ n # x
                     /\ n.key \in Nat /\ n.seq \in Nat
    BY TargetOrder, BeforeOrder DEF Follows, Entries
<1>1. ASSUME NEW d \in V
      PROVE  /\ d \in L /\ n # Null /\ (d = n \/ Before(n, d))
             /\ d.key = t.key /\ d.seq <= t.seq /\ d.seq \in Nat
    <2>1. d \in L /\ d.key = t.key /\ d.seq <= t.seq /\ d.seq \in Nat
        BY DEF Entries
    <2>2. ~Before(d, t)
        BY <1>0, <2>1 DEF Before
    <2>3. Before(x, d)
        BY <2>1, <2>2, TargetOrder DEF Ordered
    <2> QED  BY <2>1, <2>3 DEF Follows
<1>2. CASE n # Null /\ n.key = t.key
    <2>1. n.seq <= t.seq
        BY <1>0, <1>2 DEF Before
    <2>2. n \in V
        BY <1>0, <1>2, <2>1
    <2>3. IsSmallest(V, n)
        BY <1>1, <2>2 DEF IsSmallest
    <2>4. Smallest(V) = n
        <3>1. V \in SUBSET Entries
            OBVIOUS
        <3> HIDE DEF V
        <3> QED  BY <2>3, <3>1, SmallestIs
    <2>5. V # {}
        BY <2>2
    <2> QED  BY <1>2, <2>4, <2>5 DEF TableGet
<1>3. CASE ~(n # Null /\ n.key = t.key)
    <2>1. V = {}
        <3> SUFFICES ASSUME NEW d \in V PROVE FALSE
            OBVIOUS
        <3>1. n # Null /\ (d = n \/ Before(n, d)) /\ d.key = t.key
            BY <1>1
        <3>2. n.key # t.key /\ ~Before(n, t)
            BY <1>3, <3>1
        <3>3. n.key > t.key
            BY <1>0, <3>1, <3>2 DEF Before
        <3> QED  BY <1>0, <3>1, <3>3 DEF Before
    <2> QED  BY <1>3, <2>1 DEF TableGet
<1> QED  BY <1>2, <1>3

LEMMA FoundBefore ==
    ASSUME NEW L \in SUBSET Entries, NEW x \in L, NEW n, Follows(L, x, n),
           NEW t \in Targets, n # Null => ~Before(n, t), NEW e \in L, Before(x, e)
    PROVE  ~Before(e, t)
<1>1. n # Null /\ n \in Entries /\ (e = n \/ Before(n, e))
    BY DEF Follows
<1> QED  BY <1>1, TargetOrder

-------------------------------------------------------------------------------
\* The readers' steps

LEMMA SearchStarts ==
    ASSUME ListInv, NEW op \in {"ge", "lt", "last"}, NEW t, Search(op, t),
           op = "last" => t = Null,
           op # "last" => t \in Targets /\ t.key > 0,
           op = "ge" => t.seq <= last_sequence
    PROVE  SearchInv'
<1>0. NodesInv /\ HeightsInv /\ ChainInv /\ next' = next /\ last_sequence' = last_sequence
    BY DEF ListInv, Search, listing
<1>1. PICK h \in max_heights :
         rd' = [pc |-> "search", op |-> op, target |-> t, x |-> head,
                level |-> h, known |-> Linked]
    BY DEF Search
<1>2. h \in 1 .. MaxHeight /\ head \in AtLevel(h) /\ MaxHeight \in Nat
    BY <1>0, MemTableAssumption DEF HeightsInv, ChainInv
<1>3. Linked \in SUBSET Entries
    BY <1>0, DomainIsEntries DEF Linked
<1>4. head \in Entries /\ h \in 0 .. MaxHeight
    BY <1>2, HeadIsEntry
<1>5. op # "last" => Before(head, t)
    BY TargetOrder DEF Before, head
<1>6. AtLevel(h)' = AtLevel(h) /\ Linked' = Linked
    BY <1>0, SameLevels
<1>7. Searching'
    BY <1>0, <1>1, <1>2, <1>5, <1>6 DEF Searching
<1>8. SearchesAreRight'
    <2>1. next'[rd'.x][rd'.level] # Raw
        BY <1>0, <1>1, <1>2 DEF AtLevel
    <2> QED  BY <1>1, <2>1 DEF SearchesAreRight
<1>9. rd' \in Readers
    BY <1>1, <1>3, <1>4 DEF Readers
<1> QED  BY <1>1, <1>7, <1>8, <1>9 DEF SearchInv

LEMMA SearchSteps ==
    ASSUME ListInv, SearchInv, SearchStep
    PROVE  SearchInv'
<1> DEFINE n == next[rd.x][rd.level]
           on == n # Null /\ (rd.op = "last" \/ Before(n, rd.target))
<1>0. NodesInv /\ HeightsInv /\ ChainInv /\ next' = next /\ last_sequence' = last_sequence
      /\ rd.pc = "search" /\ MaxHeight \in Nat
    BY MemTableAssumption DEF ListInv, SearchStep, listing
<1>1. Searching /\ (rd.op # "last" => rd.target \in Targets)
    BY <1>0 DEF SearchInv
<1>2. rd.level \in 1 .. MaxHeight /\ rd.x \in AtLevel(rd.level)
    BY <1>1 DEF Searching
<1>3. Follows(AtLevel(rd.level), rd.x, n)
    BY <1>0, <1>2 DEF ChainInv
<1>4. \A l : AtLevel(l)' = AtLevel(l) /\ AtLevel(l) \subseteq Entries
    BY <1>0, SameLevels, DomainIsEntries DEF AtLevel
<1>5. Linked' = Linked
    BY <1>0, SameLevels
<1>6. rd' = IF on THEN [rd EXCEPT !.x = n]
            ELSE IF rd.level > 1 THEN [rd EXCEPT !.level = @ - 1]
            ELSE [rd EXCEPT !.pc = "found", !.level = 0,
                            !.x = IF rd.op = "ge" THEN n ELSE @]
    BY DEF SearchStep
<1>7. rd \in [pc : {"none", "search", "found"}, op : {"ge", "lt", "last"},
              target : Targets \cup {Null}, x : Entries \cup {Null},
              level : 0 .. MaxHeight, known : SUBSET Entries]
    BY DEF SearchInv, Readers
<1> HIDE DEF n
<1>8. CASE on
    <2>1. n \in AtLevel(rd.level) /\ n \in Entries
        BY <1>3, <1>4, <1>8 DEF Follows
    <2>2. rd' = [rd EXCEPT !.x = n]
        BY <1>6, <1>8
    <2>3. Searching'
        BY <1>0, <1>1, <1>4, <1>5, <1>7, <1>8, <2>1, <2>2 DEF Searching
    <2>4. SearchesAreRight'
        BY <1>0, <1>7, <2>1, <2>2 DEF SearchesAreRight, AtLevel
    <2> QED  BY <1>0, <1>1, <1>7, <2>1, <2>2, <2>3, <2>4 DEF SearchInv, Readers
<1>9. CASE ~on /\ rd.level > 1
    <2>1. rd.level - 1 \in 1 .. MaxHeight /\ rd.x \in AtLevel(rd.level - 1)
        BY <1>0, <1>2, <1>9 DEF ChainInv
    <2>2. rd' = [rd EXCEPT !.level = rd.level - 1]
        BY <1>6, <1>9
    <2>3. Searching'
        BY <1>0, <1>1, <1>4, <1>5, <1>7, <2>1, <2>2 DEF Searching
    <2>4. SearchesAreRight'
        BY <1>0, <1>7, <2>1, <2>2 DEF SearchesAreRight, AtLevel
    <2> QED  BY <1>0, <1>1, <1>7, <2>1, <2>2, <2>3, <2>4 DEF SearchInv, Readers
<1>10. CASE ~on /\ ~(rd.level > 1)
    <2> DEFINE L == AtLevel(1)
    <2>1. rd.level = 1 /\ rd.x \in L /\ Follows(L, rd.x, n)
        BY <1>2, <1>3, <1>10
    <2>2. Linked = L \ {head} /\ L \subseteq Entries /\ L \subseteq DOMAIN next
        BY <1>0, <1>4, LinkedLevel DEF AtLevel
    <2>3. Ordered(L)
        BY <1>0, <2>2, ListOrdered DEF Ordered
    <2>4. n = Null \/ (n \in Linked /\ n \in Entries)
        <3>1. n # head
            <4>1. ~Before(rd.x, head)
                BY <1>0, <2>1, <2>2, HeadIsEntry, ListOrdered, BeforeOrder
            <4>2. head # Null
                BY HeadIsEntry, MemTableAssumption
            <4> QED  BY <2>1, <4>1, <4>2 DEF Follows
        <3> QED  BY <2>1, <2>2, <3>1 DEF Follows
    <2>5. rd' = [rd EXCEPT !.pc = "found", !.level = 0,
                            !.x = IF rd.op = "ge" THEN n ELSE @]
        BY <1>6, <1>10
    <2>10. rd' \in Readers
        <3>1. PICK v \in Entries \cup {Null} :
                 rd' = [rd EXCEPT !.pc = "found", !.level = 0, !.x = v]
            BY <1>7, <2>4, <2>5
        <3>2. 0 \in 0 .. MaxHeight
            BY <1>0
        <3> QED  BY <1>7, <3>1, <3>2 DEF Readers
    <2>6. rd.known \subseteq Linked
        BY <1>1 DEF Searching
    <2> HIDE DEF L
    <2>7. CASE rd.op = "ge"
        <3>1. /\ rd.target \in Targets /\ Before(rd.x, rd.target)
              /\ n # Null => ~Before(n, rd.target)
            BY <1>1, <1>10, <2>7 DEF Searching
        <3>2. n \in L \ rd.known => n.seq > rd.target.seq
            <4>1. \A e \in Linked \ rd.known : e.seq > rd.target.seq
                BY <1>1, <2>7 DEF Searching
            <4>2. Null \notin L
                BY <2>2, MemTableAssumption
            <4> QED  BY <2>4, <4>1, <4>2
        <3>3. TableGet(rd.known, rd.target.key, rd.target.seq) =
                  IF n # Null /\ n.key = rd.target.key THEN n ELSE Null
            BY <2>1, <2>2, <2>3, <2>6, <3>1, <3>2, FoundAtLeast
        <3>4. /\ rd'.pc = "found" /\ rd'.op = "ge" /\ rd'.x = n
              /\ rd'.target = rd.target /\ rd'.known = rd.known
            BY <1>7, <2>5, <2>7
        <3>5. SearchesAreRight'
            BY <1>5, <2>4, <3>1, <3>3, <3>4 DEF SearchesAreRight
        <3> QED  BY <2>10, <3>1, <3>4, <3>5 DEF SearchInv
    <2>8. CASE rd.op = "lt"
        <3>1. /\ rd.target \in Targets /\ Before(rd.x, rd.target)
              /\ n # Null => ~Before(n, rd.target)
            BY <1>1, <1>10, <2>8 DEF Searching
        <3>2. \A e \in rd.known : ~(Before(rd.x, e) /\ Before(e, rd.target))
            BY <2>1, <2>2, <2>6, <3>1, FoundBefore
        <3>3. /\ rd'.pc = "found" /\ rd'.op = "lt" /\ rd'.x = rd.x
              /\ rd'.target = rd.target /\ rd'.known = rd.known
            BY <1>7, <2>5, <2>8
        <3>4. SearchesAreRight'
            BY <3>1, <3>2, <3>3 DEF SearchesAreRight
        <3> QED  BY <2>10, <3>1, <3>3, <3>4 DEF SearchInv
    <2>9. CASE rd.op = "last"
        <3>1. n = Null
            BY <1>10, <2>9
        <3>2. \A e \in rd.known : ~Before(rd.x, e)
            BY <2>1, <2>2, <2>6, <3>1 DEF Follows
        <3>3. /\ rd'.pc = "found" /\ rd'.op = "last" /\ rd'.x = rd.x
              /\ rd'.target = rd.target /\ rd'.known = rd.known
            BY <1>7, <2>5, <2>9
        <3>4. SearchesAreRight'
            BY <3>2, <3>3 DEF SearchesAreRight
        <3> QED  BY <2>10, <3>3, <3>4 DEF SearchInv
    <2> QED  BY <1>7, <2>7, <2>8, <2>9
<1> QED  BY <1>8, <1>9, <1>10

-------------------------------------------------------------------------------
\* The system

\* The last sequence number when the database is opened.
LEMMA InitSequence ==
    ASSUME Init
    PROVE  last_sequence \in Nat /\ \A e \in table : e.seq <= last_sequence
<1> DEFINE S == {e.seq : e \in table}
           T == {0} \cup S
<1>1. last_sequence = Max(T)
    BY DEF Init
<1>2. table \in SUBSET [key : Keys, seq : Nat, del : BOOLEAN] /\ IsFiniteSet(table)
    BY MemTableAssumption DEF Init
<1>3. IsFiniteSet(T) /\ T \in SUBSET Nat /\ T # {}
    <2> DEFINE f == [e \in table |-> e.seq]
    <2>1. S \in SUBSET Nat
        BY <1>2
    <2>2. f \in Surjection(table, S)
        BY DEF Surjection
    <2>3. IsFiniteSet(S)
        BY <1>2, <2>1, <2>2, FS_Surjection
    <2> QED  BY <2>1, <2>3, FS_AddElement
<1>4. \A e \in table : e.seq \in T
    OBVIOUS
<1> HIDE DEF T
<1>5. PICK b \in Nat : \A y \in T : y <= b
    BY <1>3, FiniteBound
<1>6. Max(T) \in T /\ \A y \in T : y <= Max(T)
    BY <1>3, <1>5, MaxOf
<1> QED  BY <1>1, <1>3, <1>4, <1>6

LEMMA InitListInv ==
    ASSUME Init
    PROVE  ListInv /\ SearchInv
<1> DEFINE links == [l \in 1 .. MaxHeight |-> Null]
<1>0. MaxHeight \in Nat /\ MaxHeight > 0
    BY MemTableAssumption
<1>1. links \in Seq(Entries \cup {Null, Raw}) /\ Len(links) = MaxHeight
      /\ \A l \in 1 .. MaxHeight : links[l] = Null
    BY <1>0
<1>2. DOMAIN next = {head} /\ next[head] = links /\ max_heights = {1} /\ w = Waiting
      /\ rd = NoSearch
    BY DEF Init
<1> HIDE DEF links
<1>3. last_sequence \in Nat
    BY InitSequence
<1>4. NodesInv
    <2>1. IsFiniteSet({head})
        BY FS_Singleton
    <2> QED  BY <1>1, <1>2, <2>1 DEF NodesInv, Distinct
<1>5. HeightsInv
    BY <1>0, <1>1, <1>2 DEF HeightsInv
<1>6. \A l \in 1 .. MaxHeight : AtLevel(l) = {head} /\ next[head][l] = Null
    BY <1>0, <1>1, <1>2, MemTableAssumption DEF AtLevel
<1>7. ChainInv
    <2>1. Follows({head}, head, Null)
        BY HeadIsEntry, BeforeOrder DEF Follows
    <2>2. ASSUME NEW l \in 2 .. MaxHeight PROVE AtLevel(l) \subseteq AtLevel(l - 1)
        <3>1. l \in 1 .. MaxHeight /\ l - 1 \in 1 .. MaxHeight
            BY <1>0
        <3> QED  BY <1>6, <3>1
    <2> QED  BY <1>6, <2>1, <2>2 DEF ChainInv
<1>8. WriterInv
    <2>1. w.count = 0 /\ w.todo = <<>> /\ w.pc = "idle"
        BY <1>2 DEF Waiting
    <2> QED  BY <1>2, <1>3, <2>1 DEF WriterInv
<1>9. LinkInv /\ RawInv
    <2>1. w.pc = "idle"
        BY <1>2 DEF Waiting
    <2>2. RawInv
        BY <1>1, <1>2, MemTableAssumption DEF RawInv
    <2> QED  BY <2>1, <2>2 DEF LinkInv
<1>10. SearchInv
    <2>1. rd \in Readers
        BY <1>0, <1>2, HeadIsEntry DEF NoSearch, Readers
    <2> QED  BY <1>2, <2>1 DEF SearchInv, SearchesAreRight, NoSearch
<1> QED  BY <1>4, <1>5, <1>7, <1>8, <1>9, <1>10 DEF ListInv

\* Without a new link the reader's view stays.
LEMMA QuietGrows ==
    ASSUME ListInv, ListInv', last_sequence <= last_sequence',
           \A l \in 1 .. MaxHeight : AtLevel(l)' = AtLevel(l)
    PROVE  Grows
<1>1. 1 \in 1 .. MaxHeight
    BY MemTableAssumption
<1>2. Linked = AtLevel(1) \ {head}
    BY LinkedLevel DEF ListInv
<1>3. Linked' = AtLevel(1)' \ {head}
    BY LinkedLevelThen DEF ListInv
<1> QED  BY <1>1, <1>2, <1>3 DEF Grows, ListInv, WriterInv

\* A node has been linked at one more level.
LEMMA LinkGrows ==
    ASSUME ListInv, LinkLevel
    PROVE  Grows
<1>1. /\ ListInv' /\ last_sequence' = last_sequence
      /\ \A l \in 1 .. MaxHeight : AtLevel(l)' = AtLevel(l)
            \/ (AtLevel(l)' = AtLevel(l) \cup {w.node} /\ w.node.seq > last_sequence)
    BY LinkList
<1>2. 1 \in 1 .. MaxHeight
    BY MemTableAssumption
<1>3. Linked = AtLevel(1) \ {head} /\ Linked' = AtLevel(1)' \ {head}
    BY <1>1, LinkedLevel, LinkedLevelThen DEF ListInv
<1>4. w.node.seq \in Nat
    BY DomainIsEntries DEF ListInv, LinkInv, LinkLevel
<1>5. \A e \in Linked' \ Linked : e.seq > last_sequence /\ e.seq \in Nat
    BY <1>1, <1>2, <1>3, <1>4
<1>6. Linked \subseteq Linked' /\ \A l \in 1 .. MaxHeight : AtLevel(l) \subseteq AtLevel(l)'
    BY <1>1, <1>2, <1>3
<1>7. last_sequence \in Nat /\ last_sequence <= last_sequence'
    BY <1>1 DEF ListInv, WriterInv
<1> QED  BY <1>1, <1>5, <1>6, <1>7 DEF Grows, ListInv

\* What a step of the writer leaves alone, and the nodes it makes.
WriterLeaves ==
    /\ UNCHANGED <<table, rd, it, want>>
    /\ \A n \in DOMAIN next' \ DOMAIN next : n.seq > last_sequence

\* The steps of the writer.
LEMMA WriterGrows ==
    ASSUME ListInv,
           \/ \E b \in Batches : Write(b)
           \/ EmitPhysicalRecord \/ EmitFails
           \/ \E h \in 1 .. MaxHeight : Insert(h)
           \/ LinkLevel \/ Finish
    PROVE  ListInv' /\ Grows /\ WriterLeaves
<1>1. last_sequence \in Nat /\ w.count \in Nat
    BY DEF ListInv, WriterInv
<1>2. ASSUME NEW b \in Batches, Write(b) PROVE ListInv' /\ Grows /\ WriterLeaves
    <2>1. ListInv' /\ UNCHANGED <<next, last_sequence>> /\ WriterLeaves
        BY <1>2, WriteList DEF Write, listing, reader, fixed, WriterLeaves
    <2>2. /\ last_sequence <= last_sequence'
          /\ \A l \in 1 .. MaxHeight : AtLevel(l)' = AtLevel(l)
        BY <1>1, <2>1, SameLevels
    <2> QED  BY <2>1, <2>2, QuietGrows
<1>3. ASSUME EmitPhysicalRecord \/ EmitFails PROVE ListInv' /\ Grows /\ WriterLeaves
    <2>1. ListInv' /\ UNCHANGED <<next, last_sequence>> /\ WriterLeaves
        BY <1>3, LogList
           DEF EmitPhysicalRecord, EmitFails, listing, reader, fixed, WriterLeaves
    <2>2. /\ last_sequence <= last_sequence'
          /\ \A l \in 1 .. MaxHeight : AtLevel(l)' = AtLevel(l)
        BY <1>1, <2>1, SameLevels
    <2> QED  BY <2>1, <2>2, QuietGrows
<1>4. ASSUME NEW h \in 1 .. MaxHeight, Insert(h) PROVE ListInv' /\ Grows /\ WriterLeaves
    <2>1. /\ UNCHANGED <<table, rd, it, want>> /\ w.pc = "insert"
          /\ DOMAIN next' = DOMAIN next \cup {Head(w.todo)}
        BY <1>4 DEF Insert, reader, fixed
    <2>2. /\ ListInv' /\ last_sequence' = last_sequence
          /\ \A l \in 1 .. MaxHeight : AtLevel(l)' = AtLevel(l)
        BY <1>4, InsertList
    <2>3. Head(w.todo).seq > last_sequence
        BY <2>1, NewEntry
    <2>4. WriterLeaves
        BY <2>1, <2>3 DEF WriterLeaves
    <2> QED  BY <1>1, <2>2, <2>4, QuietGrows
<1>5. ASSUME LinkLevel PROVE ListInv' /\ Grows /\ WriterLeaves
    <2>1. UNCHANGED <<table, rd, it, want>> /\ DOMAIN next' = DOMAIN next
        BY <1>5 DEF LinkLevel, reader, fixed
    <2> QED  BY <1>5, <2>1, LinkList, LinkGrows DEF WriterLeaves
<1>6. ASSUME Finish PROVE ListInv' /\ Grows /\ WriterLeaves
    <2>1. ListInv' /\ UNCHANGED next /\ WriterLeaves /\ last_sequence' = last_sequence + w.count
        BY <1>6, FinishList DEF Finish, listing, reader, fixed, WriterLeaves
    <2>2. last_sequence <= last_sequence'
        BY <1>1, <2>1
    <2> QED  BY <2>1, <2>2, SameLevels, QuietGrows
<1> QED  BY <1>2, <1>3, <1>4, <1>5, <1>6

LEMMA WriterSteps ==
    ASSUME ListInv, SearchInv,
           \/ \E b \in Batches : Write(b)
           \/ EmitPhysicalRecord \/ EmitFails
           \/ \E h \in 1 .. MaxHeight : Insert(h)
           \/ LinkLevel \/ Finish
    PROVE  ListInv' /\ SearchInv'
BY WriterGrows, SearchGoesOn DEF WriterLeaves

\* The steps of the readers.
LEMMA ReaderSteps ==
    ASSUME ListInv, SearchInv,
           \/ \E k \in Keys : Get(k)
           \/ Prev \/ FindLast \/ SearchStep \/ EndSearch
    PROVE  ListInv' /\ SearchInv'
<1>1. UNCHANGED listVars
    BY DEF Get, Prev, FindLast, Search, SearchStep, EndSearch, listVars, listing
<1>2. ListInv'
    BY <1>1, SameListVars
<1>3. ASSUME NEW k \in Keys, Get(k) PROVE SearchInv'
    <2> DEFINE t == [key |-> k, seq |-> last_sequence]
    <2>1. k \in Nat /\ k > 0 /\ last_sequence \in Nat
        BY MemTableAssumption DEF ListInv, WriterInv
    <2>2. t \in Targets /\ t.key > 0 /\ t.seq <= last_sequence
        BY <2>1 DEF Targets
    <2>3. Search("ge", t)
        BY <1>3 DEF Get
    <2> HIDE DEF t
    <2> QED  BY <2>2, <2>3, SearchStarts
<1>4. ASSUME Prev PROVE SearchInv'
    <2>1. PICK n \in Linked : Search("lt", n)
        BY <1>4 DEF Prev
    <2>2. n \in Targets /\ n.key > 0
        BY DomainIsEntries DEF ListInv, Linked, Targets
    <2> QED  BY <2>1, <2>2, SearchStarts
<1>5. ASSUME FindLast PROVE SearchInv'
    BY <1>5, SearchStarts DEF FindLast
<1>6. ASSUME SearchStep PROVE SearchInv'
    BY <1>6, SearchSteps
<1>7. ASSUME EndSearch PROVE SearchInv'
    <2>1. rd' = NoSearch
        BY <1>7 DEF EndSearch
    <2>2. rd' \in Readers
        BY <2>1, HeadIsEntry, MemTableAssumption DEF NoSearch, Readers
    <2> QED  BY <2>1, <2>2 DEF SearchInv, SearchesAreRight, NoSearch
<1> QED  BY <1>2, <1>3, <1>4, <1>5, <1>6, <1>7

\* The steps of the iterator, which does not search the list in this model.
LEMMA IteratorSteps ==
    ASSUME ListInv, SearchInv, UNCHANGED <<listVars, rd>>
    PROVE  ListInv' /\ SearchInv'
<1>1. ListInv'
    BY SameListVars
<1>2. last_sequence <= last_sequence' /\ next' = next
    BY DEF ListInv, WriterInv, listVars
<1> QED  BY <1>1, <1>2, SameLevels, QuietGrows, SearchGoesOn

LEMMA NextSteps ==
    ASSUME ListInv, SearchInv, [Next]_vars
    PROVE  ListInv' /\ SearchInv'
<1>1. ASSUME \/ \E k \in Keys : CallSeek(k)
             \/ NewIterator \/ CallSeekToFirst \/ CallSeekToLast
             \/ CallNext \/ CallPrev \/ IteratorStep \/ DeleteIterator
             \/ UNCHANGED vars
      PROVE  UNCHANGED <<listVars, rd>>
    BY <1>1 DEF CallSeek, NewIterator, CallSeekToFirst, CallSeekToLast, CallNext,
           CallPrev, IteratorStep, DeleteIterator, Position, listVars, listing, vars,
           reader
<1> QED  BY <1>1, WriterSteps, ReaderSteps, IteratorSteps DEF Next

\* A search that runs while nodes are being linked ends at the right node: it
\* misses no entry that was in the list when it began, and a Get finds the newest
\* entry it may see (db/skiplist.h, "reads progress without any internal locking
\* or synchronization").
THEOREM SearchesCorrect == Spec => []SearchesAreRight
<1>1. Init => ListInv /\ SearchInv
    BY InitListInv
<1>2. (ListInv /\ SearchInv) /\ [Next]_vars => (ListInv /\ SearchInv)'
    BY NextSteps
<1>3. SearchInv => SearchesAreRight
    BY DEF SearchInv
<1> QED  BY <1>1, <1>2, <1>3, PTL DEF Spec

-------------------------------------------------------------------------------
\* The iterator's invariant
\* (C: the two children, V: the entries at or below the iterator's number)

\* What the iterator should show, of the entries V that it may see.
Newest(V) == {e \in V : ~e.del /\ \A f \in V : f.key = e.key => f.seq <= e.seq}

\* m is the first, or the last, of A; Null when there is none.
IsFirst(A, m) == IF A = {} THEN m = Null ELSE IsSmallest(A, m)
IsLast(A, m) == IF A = {} THEN m = Null ELSE IsLargest(A, m)

\* The merging iterator is at an entry of one of its children.
MergerAt(C, m) == m.cur \in {1, 2} /\ m.pos[m.cur] \in C[m.cur]

\* Going forward, the other child is at its next entry, or at a later one when
\* the entries it leaves out are too new.
MergerForward(C, V, m) ==
    /\ MergerAt(C, m) /\ m.forward
    /\ \A i \in {1, 2} \ {m.cur} :
          /\ m.pos[i] # Null => m.pos[i] \in C[i] /\ Before(Current(m), m.pos[i])
          /\ \A x \in C[i] \cap V : Before(Current(m), x) =>
                m.pos[i] # Null /\ ~Before(x, m.pos[i])

MergerBack(C, V, m) ==
    /\ MergerAt(C, m) /\ ~m.forward
    /\ \A i \in {1, 2} \ {m.cur} :
          /\ m.pos[i] # Null => m.pos[i] \in C[i] /\ Before(m.pos[i], Current(m))
          /\ \A x \in C[i] \cap V : Before(x, Current(m)) =>
                m.pos[i] # Null /\ ~Before(m.pos[i], x)

\* FindNextUserEntry: what is wanted is not before the current entry, and the
\* entries of a key that has been passed are skipped.
NextLoop(C, V, d, goal) ==
    LET e == Current(d.iter)
    IN  /\ MergerForward(C, V, d.iter) /\ d.forward
        /\ IsFirst({x \in Newest(V) : ~Before(x, e) /\ (d.skipping => x.key > d.saved)}, goal)
        /\ \A x \in V : Before(x, e) /\ x.key = e.key => d.skipping /\ e.key <= d.saved
        /\ d.skipping => /\ d.saved \in Nat
                         /\ \A x \in V : ~Before(x, e) => x.key >= d.saved

\* Prev leaves the entries of its key.
BackLoop(C, V, d, goal) ==
    /\ MergerAt(C, d.iter) /\ (d.iter.forward \/ MergerBack(C, V, d.iter))
    /\ d.saved \in Nat /\ Current(d.iter).key >= d.saved
    /\ IsLast({x \in Newest(V) : x.key < d.saved}, goal)

\* FindPrevUserEntry: an entry found is the last one seen, and may still turn
\* out not to be the newest of its key.
PrevLoop(C, V, d, goal) ==
    LET e == Current(d.iter)
    IN  /\ MergerBack(C, V, d.iter) /\ ~d.forward
        /\ d.found =>
              /\ d.value \in V /\ ~d.value.del /\ d.saved = d.value.key
              /\ Before(e, d.value)
              /\ \A x \in V : ~(Before(e, x) /\ Before(x, d.value))
              /\ IsLast({x \in Newest(V) : ~Before(d.value, x)}, goal)
        /\ ~d.found => IsLast({x \in Newest(V) : ~Before(e, x)}, goal)

\* Between two calls: going back, the merging iterator is before all the entries
\* of the key shown.
Between(C, V, d, goal) ==
    /\ d.valid <=> goal # Null
    /\ d.valid => goal \in Newest(V)
    /\ d.valid /\ d.forward => MergerForward(C, V, d.iter) /\ Current(d.iter) = goal
    /\ d.valid /\ ~d.forward =>
          /\ d.value = goal /\ d.saved = goal.key
          /\ Current(d.iter) = Null => \A x \in V : x.key >= d.saved
          /\ Current(d.iter) # Null =>
                /\ MergerBack(C, V, d.iter) /\ Current(d.iter).key < d.saved
                /\ \A x \in V : Before(Current(d.iter), x) => x.key >= d.saved

CursorInv(C, V, d, goal) ==
    /\ d.pc = "idle" => Between(C, V, d, goal)
    /\ d.pc = "next" => NextLoop(C, V, d, goal)
    /\ d.pc = "back" => BackLoop(C, V, d, goal)
    /\ d.pc = "prev" => PrevLoop(C, V, d, goal)

Mergers == [pos : [{1, 2} -> Entries \cup {Null}], cur : {0, 1, 2}, forward : BOOLEAN]

DBIters == [pc : {"idle", "next", "back", "prev"}, sequence : Nat, iter : Mergers,
              forward : BOOLEAN, valid : BOOLEAN, saved : Nat \cup {Null},
              value : Entries \cup {Null}, skipping : BOOLEAN, found : BOOLEAN]

\* The entries at or below a sequence number.
Visible(s) == {e \in Linked \cup table : e.seq <= s}

IteratorInv ==
    it # Null => /\ it \in DBIters /\ it.sequence <= last_sequence
                 /\ CursorInv(Children, Visible(it.sequence), it, want)

\* The table is older than the memtable.
TableInv ==
    /\ table \in Tables
    /\ \A e \in table : e.seq <= last_sequence
    /\ \A e \in table, n \in DOMAIN next \ {head} : e.seq < n.seq

\* What the children are.
Family(C, V, s) ==
    /\ DOMAIN C = {1, 2} /\ s \in Nat
    /\ \A i \in {1, 2} : C[i] \in SUBSET Entries /\ IsFiniteSet(C[i])
    /\ C[1] \cap C[2] = {}
    /\ Ordered(C[1] \cup C[2])
    /\ V = {x \in C[1] \cup C[2] : x.seq <= s}

LEMMA KeyOrder ==
    /\ \A a \in Entries : a.key \in Nat /\ a.seq \in Nat /\ a.del \in BOOLEAN
    /\ \A a, b \in Entries : Before(a, b) => a.key <= b.key
    /\ \A a, b \in Entries : a.key < b.key => Before(a, b)
    /\ \A a, b \in Entries : a.key = b.key => (Before(a, b) <=> a.seq > b.seq)
BY DEF Before, Entries

\* A child's entry q is the first of A in X, but for entries that are too new.
AimUp(A, V, X, q) ==
    /\ q # Null => q \in A \cap X
    /\ \A x \in A \cap V \cap X : q # Null /\ ~Before(x, q)

\* With an entry, X has the entries behind it.
Upward(U, X) == \A a \in X, b \in U : Before(a, b) => b \in X

LEMMA FirstOfIs ==
    ASSUME NEW A \in SUBSET Entries, Ordered(A), IsFiniteSet(A)
    PROVE  IsFirst(A, FirstOf(A))
<1>1. CASE A = {}
    BY <1>1 DEF IsFirst, FirstOf
<1>2. CASE A # {}
    <2>1. \E m : IsSmallest(A, m)
        BY <1>2, SmallestExists
    <2>2. IsSmallest(A, Smallest(A))
        BY <2>1 DEF IsSmallest, Smallest
    <2> QED  BY <1>2, <2>2 DEF IsFirst, FirstOf
<1> QED  BY <1>1, <1>2

LEMMA FirstAims ==
    ASSUME NEW A \in SUBSET Entries, Ordered(A), IsFiniteSet(A), NEW V, NEW X
    PROVE  AimUp(A, V, X, FirstOf(A \cap X))
<1> DEFINE B == A \cap X
           q == FirstOf(B)
<1>1. B \in SUBSET Entries /\ Ordered(B) /\ IsFiniteSet(B)
    BY FS_Subset DEF Ordered
<1>2. IsFirst(B, q)
    <2> HIDE DEF B
    <2> QED  BY <1>1, FirstOfIs
<1>3. q # Null => q \in B
    BY <1>2 DEF IsFirst, IsSmallest
<1>4. ASSUME NEW x \in B PROVE q # Null /\ ~Before(x, q)
    <2>1. IsSmallest(B, q)
        BY <1>2 DEF IsFirst
    <2>2. q \in Entries /\ q # Null
        BY <1>1, <2>1, MemTableAssumption DEF IsSmallest
    <2>3. x = q \/ Before(q, x)
        BY <2>1 DEF IsSmallest
    <2> QED  BY <1>1, <2>2, <2>3, BeforeOrder
<1> HIDE DEF q
<1>5. AimUp(A, V, X, q)
    BY <1>3, <1>4 DEF AimUp
<1> QED  BY <1>5 DEF q

\* A child's entry q is the last of A in X, but for entries that are too new.
AimDown(A, V, X, q) ==
    /\ q # Null => q \in A \cap X
    /\ \A x \in A \cap V \cap X : q # Null /\ ~Before(q, x)

\* With an entry, X has the entries before it.
Downward(U, X) == \A a \in X, b \in U : Before(b, a) => b \in X

LEMMA LastOfIs ==
    ASSUME NEW A \in SUBSET Entries, Ordered(A), IsFiniteSet(A)
    PROVE  IsLast(A, LastOf(A))
<1>1. CASE A = {}
    BY <1>1 DEF IsLast, LastOf
<1>2. CASE A # {}
    <2>1. \E m : IsLargest(A, m)
        BY <1>2, LargestExists
    <2>2. IsLargest(A, Largest(A))
        BY <2>1 DEF IsLargest, Largest
    <2> QED  BY <1>2, <2>2 DEF IsLast, LastOf
<1> QED  BY <1>1, <1>2

LEMMA LastAims ==
    ASSUME NEW A \in SUBSET Entries, Ordered(A), IsFiniteSet(A), NEW V, NEW X
    PROVE  AimDown(A, V, X, LastOf(A \cap X))
<1> DEFINE B == A \cap X
           q == LastOf(B)
<1>1. B \in SUBSET Entries /\ Ordered(B) /\ IsFiniteSet(B)
    BY FS_Subset DEF Ordered
<1>2. IsLast(B, q)
    <2> HIDE DEF B
    <2> QED  BY <1>1, LastOfIs
<1>3. q # Null => q \in B
    BY <1>2 DEF IsLast, IsLargest
<1>4. ASSUME NEW x \in B PROVE q # Null /\ ~Before(q, x)
    <2>1. IsLargest(B, q)
        BY <1>2 DEF IsLast
    <2>2. q \in Entries /\ q # Null
        BY <1>1, <2>1, MemTableAssumption DEF IsLargest
    <2>3. x = q \/ Before(x, q)
        BY <2>1 DEF IsLargest
    <2> QED  BY <1>1, <2>2, <2>3, BeforeOrder
<1> HIDE DEF q
<1>5. AimDown(A, V, X, q)
    BY <1>3, <1>4 DEF AimDown
<1> QED  BY <1>5 DEF q

\* FindSmallest, when the children are at their first entries in X.
LEMMA FindSmallestIs ==
    ASSUME NEW C, NEW V, NEW s, Family(C, V, s), NEW X, Upward(C[1] \cup C[2], X),
           NEW m \in Mergers, m.forward, \A i \in {1, 2} : AimUp(C[i], V, X, m.pos[i])
    PROVE  /\ FindSmallest(m) \in Mergers
           /\ \/ /\ Current(FindSmallest(m)) = Null
                 /\ V \cap X = {}
              \/ /\ MergerForward(C, V, FindSmallest(m))
                 /\ Current(FindSmallest(m)) \in X
                 /\ \A x \in V \cap X : ~Before(x, Current(FindSmallest(m)))
<1> DEFINE n == FindSmallest(m)
<1>0. /\ DOMAIN C = {1, 2} /\ V \subseteq C[1] \cup C[2]
      /\ C[1] \cap C[2] = {} /\ Ordered(C[1] \cup C[2])
      /\ \A i \in {1, 2} : C[i] \subseteq Entries
    BY DEF Family
<1>1. /\ m.pos \in [{1, 2} -> Entries \cup {Null}] /\ m.cur \in {0, 1, 2}
      /\ m.forward \in BOOLEAN
      /\ m = [pos |-> m.pos, cur |-> m.cur, forward |-> m.forward]
    BY DEF Mergers
<1>2. Valids(m) = {i \in {1, 2} : m.pos[i] # Null}
    BY <1>1 DEF Valids
<1>3. CASE Valids(m) = {}
    <2>1. n = [m EXCEPT !.cur = 0]
        BY <1>3 DEF FindSmallest
    <2>2. n \in Mergers /\ n.cur = 0
        BY <1>1, <2>1 DEF Mergers
    <2>3. Current(n) = Null
        BY <2>2 DEF Current
    <2>4. V \cap X = {}
        BY <1>0, <1>2, <1>3 DEF AimUp
    <2> QED  BY <2>2, <2>3, <2>4
<1>4. CASE Valids(m) # {}
    <2>1. \A i \in Valids(m) : i \in {1, 2} /\ m.pos[i] \in C[i] /\ m.pos[i] \in X
        BY <1>2 DEF AimUp
    <2>2. \A i, j \in Valids(m) :
             i # j => Before(m.pos[i], m.pos[j]) \/ Before(m.pos[j], m.pos[i])
        <3> SUFFICES ASSUME NEW i \in Valids(m), NEW j \in Valids(m), i # j
                     PROVE  Before(m.pos[i], m.pos[j]) \/ Before(m.pos[j], m.pos[i])
            OBVIOUS
        <3>1. m.pos[i] \in C[1] \cup C[2] /\ m.pos[j] \in C[1] \cup C[2]
            BY <2>1
        <3>2. m.pos[i] # m.pos[j]
            BY <1>0, <2>1
        <3> QED  BY <1>0, <3>1, <3>2 DEF Ordered
    <2>3. \E i \in Valids(m) : \A j \in Valids(m) \ {i} : Before(m.pos[i], m.pos[j])
        <3>1. CASE 1 \in Valids(m) /\ 2 \in Valids(m)
            <4>1. \A j \in Valids(m) : j = 1 \/ j = 2
                BY <1>2
            <4> QED  BY <2>2, <3>1, <4>1
        <3>2. CASE ~(1 \in Valids(m) /\ 2 \in Valids(m))
            BY <1>2, <1>4, <3>2
        <3> QED  BY <3>1, <3>2
    <2>4. PICK k : /\ k \in Valids(m) /\ \A j \in Valids(m) \ {k} : Before(m.pos[k], m.pos[j])
                   /\ n = [m EXCEPT !.cur = k]
        BY <1>4, <2>3 DEF FindSmallest
    <2>5. k \in {1, 2} /\ m.pos[k] \in C[k] /\ m.pos[k] \in X
        BY <2>1, <2>4
    <2>6. /\ n \in Mergers /\ n.cur = k /\ n.pos = m.pos /\ n.forward = m.forward
        BY <1>1, <2>4, <2>5 DEF Mergers
    <2>7. Current(n) = m.pos[k] /\ MergerAt(C, n)
        BY <2>5, <2>6 DEF Current, MergerAt
    <2>8. ASSUME NEW i \in {1, 2}, i # k
          PROVE  /\ m.pos[i] # Null => m.pos[i] \in C[i] /\ Before(m.pos[k], m.pos[i])
                 /\ \A x \in C[i] \cap V : Before(m.pos[k], x) =>
                       m.pos[i] # Null /\ ~Before(x, m.pos[i])
        <3>1. m.pos[i] # Null => m.pos[i] \in C[i] /\ Before(m.pos[k], m.pos[i])
            BY <1>2, <2>1, <2>4, <2>8
        <3>2. \A x \in C[i] \cap V : Before(m.pos[k], x) => x \in X
            BY <2>5 DEF Upward
        <3> QED  BY <3>1, <3>2 DEF AimUp
    <2>9. MergerForward(C, V, n)
        BY <2>6, <2>7, <2>8 DEF MergerForward
    <2>10. ASSUME NEW x \in V \cap X PROVE ~Before(x, m.pos[k])
        <3>1. PICK i \in {1, 2} : x \in C[i]
            BY <1>0
        <3>2. m.pos[i] # Null /\ ~Before(x, m.pos[i])
            BY <2>10, <3>1 DEF AimUp
        <3>3. CASE i = k
            BY <3>2, <3>3
        <3>4. CASE i # k
            <4>1. i \in Valids(m) /\ m.pos[i] \in C[i] /\ Before(m.pos[k], m.pos[i])
                BY <1>2, <2>1, <2>4, <3>2, <3>4
            <4>2. x \in Entries /\ m.pos[i] \in Entries /\ m.pos[k] \in Entries
                BY <1>0, <2>5, <3>1, <4>1
            <4> QED  BY <3>2, <4>1, <4>2, BeforeOrder
        <3> QED  BY <3>3, <3>4
    <2> QED  BY <2>5, <2>6, <2>7, <2>9, <2>10
<1> QED  BY <1>3, <1>4

\* FindLargest, when the children are at their last entries in X.
LEMMA FindLargestIs ==
    ASSUME NEW C, NEW V, NEW s, Family(C, V, s), NEW X, Downward(C[1] \cup C[2], X),
           NEW m \in Mergers, ~m.forward, \A i \in {1, 2} : AimDown(C[i], V, X, m.pos[i])
    PROVE  /\ FindLargest(m) \in Mergers
           /\ \/ /\ Current(FindLargest(m)) = Null
                 /\ V \cap X = {}
              \/ /\ MergerBack(C, V, FindLargest(m))
                 /\ Current(FindLargest(m)) \in X
                 /\ \A x \in V \cap X : ~Before(Current(FindLargest(m)), x)
<1> DEFINE n == FindLargest(m)
<1>0. /\ DOMAIN C = {1, 2} /\ V \subseteq C[1] \cup C[2]
      /\ C[1] \cap C[2] = {} /\ Ordered(C[1] \cup C[2])
      /\ \A i \in {1, 2} : C[i] \subseteq Entries
    BY DEF Family
<1>1. /\ m.pos \in [{1, 2} -> Entries \cup {Null}] /\ m.cur \in {0, 1, 2}
      /\ m.forward \in BOOLEAN
      /\ m = [pos |-> m.pos, cur |-> m.cur, forward |-> m.forward]
    BY DEF Mergers
<1>2. Valids(m) = {i \in {1, 2} : m.pos[i] # Null}
    BY <1>1 DEF Valids
<1>3. CASE Valids(m) = {}
    <2>1. n = [m EXCEPT !.cur = 0]
        BY <1>3 DEF FindLargest
    <2>2. n \in Mergers /\ n.cur = 0
        BY <1>1, <2>1 DEF Mergers
    <2>3. Current(n) = Null
        BY <2>2 DEF Current
    <2>4. V \cap X = {}
        BY <1>0, <1>2, <1>3 DEF AimDown
    <2> QED  BY <2>2, <2>3, <2>4
<1>4. CASE Valids(m) # {}
    <2>1. \A i \in Valids(m) : i \in {1, 2} /\ m.pos[i] \in C[i] /\ m.pos[i] \in X
        BY <1>2 DEF AimDown
    <2>2. \A i, j \in Valids(m) :
             i # j => Before(m.pos[j], m.pos[i]) \/ Before(m.pos[i], m.pos[j])
        <3> SUFFICES ASSUME NEW i \in Valids(m), NEW j \in Valids(m), i # j
                     PROVE  Before(m.pos[j], m.pos[i]) \/ Before(m.pos[i], m.pos[j])
            OBVIOUS
        <3>1. m.pos[i] \in C[1] \cup C[2] /\ m.pos[j] \in C[1] \cup C[2]
            BY <2>1
        <3>2. m.pos[i] # m.pos[j]
            BY <1>0, <2>1
        <3> QED  BY <1>0, <3>1, <3>2 DEF Ordered
    <2>3. \E i \in Valids(m) : \A j \in Valids(m) \ {i} : Before(m.pos[j], m.pos[i])
        <3>1. CASE 1 \in Valids(m) /\ 2 \in Valids(m)
            <4>1. \A j \in Valids(m) : j = 1 \/ j = 2
                BY <1>2
            <4> QED  BY <2>2, <3>1, <4>1
        <3>2. CASE ~(1 \in Valids(m) /\ 2 \in Valids(m))
            BY <1>2, <1>4, <3>2
        <3> QED  BY <3>1, <3>2
    <2>4. PICK k : /\ k \in Valids(m) /\ \A j \in Valids(m) \ {k} : Before(m.pos[j], m.pos[k])
                   /\ n = [m EXCEPT !.cur = k]
        BY <1>4, <2>3 DEF FindLargest
    <2>5. k \in {1, 2} /\ m.pos[k] \in C[k] /\ m.pos[k] \in X
        BY <2>1, <2>4
    <2>6. /\ n \in Mergers /\ n.cur = k /\ n.pos = m.pos /\ n.forward = m.forward
        BY <1>1, <2>4, <2>5 DEF Mergers
    <2>7. Current(n) = m.pos[k] /\ MergerAt(C, n)
        BY <2>5, <2>6 DEF Current, MergerAt
    <2>8. ASSUME NEW i \in {1, 2}, i # k
          PROVE  /\ m.pos[i] # Null => m.pos[i] \in C[i] /\ Before(m.pos[i], m.pos[k])
                 /\ \A x \in C[i] \cap V : Before(x, m.pos[k]) =>
                       m.pos[i] # Null /\ ~Before(m.pos[i], x)
        <3>1. m.pos[i] # Null => m.pos[i] \in C[i] /\ Before(m.pos[i], m.pos[k])
            BY <1>2, <2>1, <2>4, <2>8
        <3>2. \A x \in C[i] \cap V : Before(x, m.pos[k]) => x \in X
            BY <2>5 DEF Downward
        <3> QED  BY <3>1, <3>2 DEF AimDown
    <2>9. MergerBack(C, V, n)
        BY <2>6, <2>7, <2>8 DEF MergerBack
    <2>10. ASSUME NEW x \in V \cap X PROVE ~Before(m.pos[k], x)
        <3>1. PICK i \in {1, 2} : x \in C[i]
            BY <1>0
        <3>2. m.pos[i] # Null /\ ~Before(m.pos[i], x)
            BY <2>10, <3>1 DEF AimDown
        <3>3. CASE i = k
            BY <3>2, <3>3
        <3>4. CASE i # k
            <4>1. i \in Valids(m) /\ m.pos[i] \in C[i] /\ Before(m.pos[i], m.pos[k])
                BY <1>2, <2>1, <2>4, <3>2, <3>4
            <4>2. x \in Entries /\ m.pos[i] \in Entries /\ m.pos[k] \in Entries
                BY <1>0, <2>5, <3>1, <4>1
            <4> QED  BY <3>2, <4>1, <4>2, BeforeOrder
        <3> QED  BY <3>3, <3>4
    <2> QED  BY <2>5, <2>6, <2>7, <2>9, <2>10
<1> QED  BY <1>3, <1>4

\* All children are positioned by the same rule.
LEMMA ChildrenOrdered ==
    ASSUME NEW C, NEW V, NEW s, Family(C, V, s), NEW i \in {1, 2}
    PROVE  C[i] \in SUBSET Entries /\ Ordered(C[i]) /\ IsFiniteSet(C[i])
BY DEF Family, Ordered

LEMMA MergeSeekToFirstIs ==
    ASSUME NEW C, NEW V, NEW s, Family(C, V, s), NEW m \in Mergers
    PROVE  /\ MergeSeekToFirst(C, m) \in Mergers
           /\ \/ Current(MergeSeekToFirst(C, m)) = Null /\ V = {}
              \/ /\ MergerForward(C, V, MergeSeekToFirst(C, m))
                 /\ \A x \in V : ~Before(x, Current(MergeSeekToFirst(C, m)))
<1> DEFINE X == C[1] \cup C[2]
           P == [i \in DOMAIN C |-> FirstOf(C[i])]
           k == [m EXCEPT !.pos = P, !.forward = TRUE]
<1>0. DOMAIN C = {1, 2} /\ V \subseteq X
    BY DEF Family
<1>1. \A i \in {1, 2} : AimUp(C[i], V, X, P[i]) /\ P[i] \in Entries \cup {Null}
    <2> SUFFICES ASSUME NEW i \in {1, 2}
                 PROVE  AimUp(C[i], V, X, P[i]) /\ P[i] \in Entries \cup {Null}
        OBVIOUS
    <2>1. C[i] \in SUBSET Entries /\ Ordered(C[i]) /\ IsFiniteSet(C[i])
        BY ChildrenOrdered
    <2>2. C[i] \cap X = C[i] /\ P[i] = FirstOf(C[i])
        BY <1>0
    <2>3. AimUp(C[i], V, X, P[i])
        BY <2>1, <2>2, FirstAims
    <2> QED  BY <2>1, <2>3 DEF AimUp
<1>2. P \in [{1, 2} -> Entries \cup {Null}]
    BY <1>0, <1>1
<1> HIDE DEF P
<1>3. k \in Mergers /\ k.pos = P /\ k.forward = TRUE
    BY <1>2 DEF Mergers
<1>4. Upward(X, X)
    BY DEF Upward
<1>5. MergeSeekToFirst(C, m) = FindSmallest(k)
    BY DEF MergeSeekToFirst, P
<1> HIDE DEF k, X
<1>6. Upward(C[1] \cup C[2], X)
    BY <1>4 DEF X
<1>7. \A i \in {1, 2} : AimUp(C[i], V, X, k.pos[i])
    BY <1>1, <1>3
<1>8. /\ FindSmallest(k) \in Mergers
      /\ \/ Current(FindSmallest(k)) = Null /\ V \cap X = {}
         \/ /\ MergerForward(C, V, FindSmallest(k))
            /\ \A x \in V \cap X : ~Before(x, Current(FindSmallest(k)))
    BY <1>3, <1>6, <1>7, FindSmallestIs
<1>9. V \cap X = V
    BY <1>0
<1> QED  BY <1>5, <1>8, <1>9

LEMMA MergeSeekIs ==
    ASSUME NEW C, NEW V, NEW s, Family(C, V, s), NEW m \in Mergers, NEW t \in Targets
    PROVE  /\ MergeSeek(C, m, t) \in Mergers
           /\ \/ Current(MergeSeek(C, m, t)) = Null /\ \A x \in V : Before(x, t)
              \/ /\ MergerForward(C, V, MergeSeek(C, m, t))
                 /\ ~Before(Current(MergeSeek(C, m, t)), t)
                 /\ \A x \in V : ~Before(x, t) => ~Before(x, Current(MergeSeek(C, m, t)))
<1> DEFINE U == C[1] \cup C[2]
           X == {x \in U : ~Before(x, t)}
           P == [i \in DOMAIN C |-> SeekIn(C[i], t)]
           k == [m EXCEPT !.pos = P, !.forward = TRUE]
<1>0. DOMAIN C = {1, 2} /\ V \subseteq U /\ U \subseteq Entries
    BY DEF Family
<1>1. \A i \in {1, 2} : AimUp(C[i], V, X, P[i]) /\ P[i] \in Entries \cup {Null}
    <2> SUFFICES ASSUME NEW i \in {1, 2}
                 PROVE  AimUp(C[i], V, X, P[i]) /\ P[i] \in Entries \cup {Null}
        OBVIOUS
    <2>1. C[i] \in SUBSET Entries /\ Ordered(C[i]) /\ IsFiniteSet(C[i])
        BY ChildrenOrdered
    <2>2. C[i] \cap X = {x \in C[i] : ~Before(x, t)}
        OBVIOUS
    <2>3. P[i] = FirstOf(C[i] \cap X)
        BY <1>0, <2>2 DEF SeekIn
    <2>4. AimUp(C[i], V, X, P[i])
        BY <2>1, <2>3, FirstAims
    <2> QED  BY <2>1, <2>4 DEF AimUp
<1>2. P \in [{1, 2} -> Entries \cup {Null}]
    BY <1>0, <1>1
<1> HIDE DEF P
<1>3. k \in Mergers /\ k.pos = P /\ k.forward = TRUE
    BY <1>2 DEF Mergers
<1>4. Upward(U, X)
    BY <1>0, TargetOrder DEF Upward
<1>5. MergeSeek(C, m, t) = FindSmallest(k)
    BY DEF MergeSeek, P
<1> HIDE DEF k
<1>6. \A i \in {1, 2} : AimUp(C[i], V, X, k.pos[i])
    BY <1>1, <1>3
<1>7. /\ FindSmallest(k) \in Mergers
      /\ \/ Current(FindSmallest(k)) = Null /\ V \cap X = {}
         \/ /\ MergerForward(C, V, FindSmallest(k)) /\ Current(FindSmallest(k)) \in X
            /\ \A x \in V \cap X : ~Before(x, Current(FindSmallest(k)))
    <2> HIDE DEF X
    <2> QED  BY <1>3, <1>4, <1>6, FindSmallestIs
<1>8. \A x \in V : ~Before(x, t) => x \in V \cap X
    BY <1>0
<1> QED  BY <1>5, <1>7, <1>8

\* Next: the child that was current goes on, the others are where they should be
\* or are brought there.
LEMMA MergeNextIs ==
    ASSUME NEW C, NEW V, NEW s, Family(C, V, s), NEW m \in Mergers, MergerAt(C, m),
           m.forward => MergerForward(C, V, m)
    PROVE  /\ MergeNext(C, m) \in Mergers
           /\ \/ Current(MergeNext(C, m)) = Null /\ \A x \in V : ~Before(Current(m), x)
              \/ /\ MergerForward(C, V, MergeNext(C, m))
                 /\ Before(Current(m), Current(MergeNext(C, m)))
                 /\ \A x \in V : Before(Current(m), x) =>
                       ~Before(x, Current(MergeNext(C, m)))
<1> DEFINE U == C[1] \cup C[2]
           e == Current(m)
           X == {x \in U : Before(e, x)}
           T == TurnForward(C, m)
           k == [T EXCEPT !.pos[m.cur] = NextIn(C[m.cur], e)]
<1>0. /\ DOMAIN C = {1, 2} /\ V \subseteq U /\ U \subseteq Entries /\ Ordered(U)
      /\ C[1] \cap C[2] = {}
    BY DEF Family
<1>1. m.cur \in {1, 2} /\ e = m.pos[m.cur] /\ e \in C[m.cur] /\ e \in Entries
    BY <1>0 DEF MergerAt, Current
<1>2. /\ m.pos \in [{1, 2} -> Entries \cup {Null}] /\ m.forward \in BOOLEAN
      /\ m = [pos |-> m.pos, cur |-> m.cur, forward |-> m.forward]
    BY DEF Mergers
<1> HIDE DEF e
<1>3. ASSUME NEW i \in {1, 2}, i # m.cur
      PROVE  AimUp(C[i], V, X, T.pos[i]) /\ T.pos[i] \in Entries \cup {Null}
    <2>1. C[i] \in SUBSET Entries /\ Ordered(C[i]) /\ IsFiniteSet(C[i])
        BY ChildrenOrdered
    <2>2. CASE m.forward
        <3>1. T.pos[i] = m.pos[i]
            BY <2>2 DEF TurnForward
        <3>2. AimUp(C[i], V, X, m.pos[i])
            <4>1. /\ m.pos[i] # Null => m.pos[i] \in C[i] /\ Before(e, m.pos[i])
                  /\ \A x \in C[i] \cap V :
                        Before(e, x) => m.pos[i] # Null /\ ~Before(x, m.pos[i])
                BY <1>3, <2>2 DEF MergerForward, e
            <4> QED  BY <4>1 DEF AimUp
        <3> QED  BY <1>2, <3>1, <3>2
    <2>3. CASE ~m.forward
        <3> DEFINE q == SeekIn(C[i], e)
        <3>1. e \notin C[i]
            BY <1>0, <1>1, <1>3
        <3>2. \A x \in C[i] : ~Before(x, e) <=> Before(e, x)
            BY <1>0, <1>1, <3>1, BeforeOrder DEF Ordered
        <3>3. {x \in C[i] : ~Before(x, e)} = C[i] \cap X
            BY <3>2
        <3>4. q = FirstOf(C[i] \cap X)
            BY <3>3 DEF SeekIn
        <3>5. AimUp(C[i], V, X, q)
            <4> HIDE DEF X
            <4> QED  BY <2>1, <3>4, FirstAims
        <3>6. q # e
            BY <1>1, <3>1, <3>5, MemTableAssumption DEF AimUp
        <3>7. T.pos[i] = q
            BY <1>0, <1>2, <1>3, <2>3, <3>6 DEF TurnForward, e
        <3> QED  BY <2>1, <3>5, <3>7 DEF AimUp
    <2> QED  BY <1>2, <2>2, <2>3
<1>4. /\ T.forward = TRUE /\ DOMAIN T.pos = {1, 2} /\ T.cur = m.cur
      /\ DOMAIN T = {"pos", "cur", "forward"}
    BY <1>0, <1>2 DEF TurnForward
<1>5. AimUp(C[m.cur], V, X, NextIn(C[m.cur], e)) /\ NextIn(C[m.cur], e) \in Entries \cup {Null}
    <2>1. C[m.cur] \in SUBSET Entries /\ Ordered(C[m.cur]) /\ IsFiniteSet(C[m.cur])
        BY <1>1, ChildrenOrdered
    <2>2. C[m.cur] \cap X = {x \in C[m.cur] : Before(e, x)}
        BY <1>1
    <2>3. NextIn(C[m.cur], e) = FirstOf(C[m.cur] \cap X)
        BY <2>2 DEF NextIn
    <2>4. AimUp(C[m.cur], V, X, NextIn(C[m.cur], e))
        <3> HIDE DEF X
        <3> QED  BY <2>1, <2>3, FirstAims
    <2> QED  BY <2>1, <2>4 DEF AimUp
<1> HIDE DEF T
<1>6. /\ k.forward = TRUE /\ k.cur = m.cur /\ DOMAIN k = {"pos", "cur", "forward"}
      /\ DOMAIN k.pos = {1, 2} /\ k.pos[m.cur] = NextIn(C[m.cur], e)
      /\ \A i \in {1, 2} \ {m.cur} : k.pos[i] = T.pos[i]
      /\ k.pos = [T.pos EXCEPT ![m.cur] = NextIn(C[m.cur], e)]
      /\ k = [T EXCEPT !.pos = k.pos]
    BY <1>1, <1>4
<1> HIDE DEF k
<1>7. \A i \in {1, 2} : AimUp(C[i], V, X, k.pos[i]) /\ k.pos[i] \in Entries \cup {Null}
    BY <1>3, <1>5, <1>6
<1>8. T = [pos |-> T.pos, cur |-> T.cur, forward |-> T.forward]
    BY <1>0, <1>2 DEF TurnForward, T
<1>9. k \in Mergers
    <2>1. PICK P \in [{1, 2} -> Entries \cup {Null}] : P = k.pos
        BY <1>6, <1>7
    <2>2. k = [pos |-> P, cur |-> m.cur, forward |-> TRUE]
        BY <1>4, <1>6, <1>8, <2>1
    <2> QED  BY <1>1, <2>1, <2>2 DEF Mergers
<1>10. Upward(U, X)
    BY <1>0, <1>1, BeforeOrder DEF Upward
<1>11. MergeNext(C, m) = FindSmallest(k)
    BY DEF MergeNext, T, e, k
<1>12. /\ FindSmallest(k) \in Mergers
       /\ \/ Current(FindSmallest(k)) = Null /\ V \cap X = {}
          \/ /\ MergerForward(C, V, FindSmallest(k)) /\ Current(FindSmallest(k)) \in X
             /\ \A x \in V \cap X : ~Before(x, Current(FindSmallest(k)))
    <2> HIDE DEF X
    <2> QED  BY <1>6, <1>7, <1>9, <1>10, FindSmallestIs
<1>13. \A x \in V : Before(e, x) => x \in V \cap X
    BY <1>0
<1> QED  BY <1>11, <1>12, <1>13 DEF e

LEMMA MergeSeekToLastIs ==
    ASSUME NEW C, NEW V, NEW s, Family(C, V, s), NEW m \in Mergers
    PROVE  /\ MergeSeekToLast(C, m) \in Mergers
           /\ \/ Current(MergeSeekToLast(C, m)) = Null /\ V = {}
              \/ /\ MergerBack(C, V, MergeSeekToLast(C, m))
                 /\ \A x \in V : ~Before(Current(MergeSeekToLast(C, m)), x)
<1> DEFINE X == C[1] \cup C[2]
           P == [i \in DOMAIN C |-> LastOf(C[i])]
           k == [m EXCEPT !.pos = P, !.forward = FALSE]
<1>0. DOMAIN C = {1, 2} /\ V \subseteq X
    BY DEF Family
<1>1. \A i \in {1, 2} : AimDown(C[i], V, X, P[i]) /\ P[i] \in Entries \cup {Null}
    <2> SUFFICES ASSUME NEW i \in {1, 2}
                 PROVE  AimDown(C[i], V, X, P[i]) /\ P[i] \in Entries \cup {Null}
        OBVIOUS
    <2>1. C[i] \in SUBSET Entries /\ Ordered(C[i]) /\ IsFiniteSet(C[i])
        BY ChildrenOrdered
    <2>2. C[i] \cap X = C[i] /\ P[i] = LastOf(C[i])
        BY <1>0
    <2>3. AimDown(C[i], V, X, P[i])
        BY <2>1, <2>2, LastAims
    <2> QED  BY <2>1, <2>3 DEF AimDown
<1>2. P \in [{1, 2} -> Entries \cup {Null}]
    BY <1>0, <1>1
<1> HIDE DEF P
<1>3. k \in Mergers /\ k.pos = P /\ k.forward = FALSE
    BY <1>2 DEF Mergers
<1>4. Downward(X, X)
    BY DEF Downward
<1>5. MergeSeekToLast(C, m) = FindLargest(k)
    BY DEF MergeSeekToLast, P
<1> HIDE DEF k, X
<1>6. Downward(C[1] \cup C[2], X)
    BY <1>4 DEF X
<1>7. \A i \in {1, 2} : AimDown(C[i], V, X, k.pos[i])
    BY <1>1, <1>3
<1>8. /\ FindLargest(k) \in Mergers
      /\ \/ Current(FindLargest(k)) = Null /\ V \cap X = {}
         \/ /\ MergerBack(C, V, FindLargest(k))
            /\ \A x \in V \cap X : ~Before(Current(FindLargest(k)), x)
    BY <1>3, <1>6, <1>7, FindLargestIs
<1>9. V \cap X = V
    BY <1>0
<1> QED  BY <1>5, <1>8, <1>9

\* Prev: the child that was current goes back, the others are where they should be
\* or are brought there.
LEMMA MergePrevIs ==
    ASSUME NEW C, NEW V, NEW s, Family(C, V, s), NEW m \in Mergers, MergerAt(C, m),
           ~m.forward => MergerBack(C, V, m)
    PROVE  /\ MergePrev(C, m) \in Mergers
           /\ \/ Current(MergePrev(C, m)) = Null /\ \A x \in V : ~Before(x, Current(m))
              \/ /\ MergerBack(C, V, MergePrev(C, m))
                 /\ Before(Current(MergePrev(C, m)), Current(m))
                 /\ \A x \in V : Before(x, Current(m)) =>
                       ~Before(Current(MergePrev(C, m)), x)
<1> DEFINE U == C[1] \cup C[2]
           e == Current(m)
           X == {x \in U : Before(x, e)}
           T == TurnBack(C, m)
           k == [T EXCEPT !.pos[m.cur] = PrevIn(C[m.cur], e)]
<1>0. /\ DOMAIN C = {1, 2} /\ V \subseteq U /\ U \subseteq Entries /\ Ordered(U)
      /\ C[1] \cap C[2] = {}
    BY DEF Family
<1>1. m.cur \in {1, 2} /\ e = m.pos[m.cur] /\ e \in C[m.cur] /\ e \in Entries
    BY <1>0 DEF MergerAt, Current
<1>2. /\ m.pos \in [{1, 2} -> Entries \cup {Null}] /\ m.forward \in BOOLEAN
      /\ m = [pos |-> m.pos, cur |-> m.cur, forward |-> m.forward]
    BY DEF Mergers
<1> HIDE DEF e
<1>3. ASSUME NEW i \in {1, 2}, i # m.cur
      PROVE  AimDown(C[i], V, X, T.pos[i]) /\ T.pos[i] \in Entries \cup {Null}
    <2>1. C[i] \in SUBSET Entries /\ Ordered(C[i]) /\ IsFiniteSet(C[i])
        BY ChildrenOrdered
    <2>2. CASE ~m.forward
        <3>1. T.pos[i] = m.pos[i]
            BY <2>2 DEF TurnBack
        <3>2. AimDown(C[i], V, X, m.pos[i])
            <4>1. /\ m.pos[i] # Null => m.pos[i] \in C[i] /\ Before(m.pos[i], e)
                  /\ \A x \in C[i] \cap V :
                        Before(x, e) => m.pos[i] # Null /\ ~Before(m.pos[i], x)
                BY <1>3, <2>2 DEF MergerBack, e
            <4> QED  BY <4>1 DEF AimDown
        <3> QED  BY <1>2, <3>1, <3>2
    <2>3. CASE m.forward
        <3> DEFINE G == {x \in C[i] : ~Before(x, e)}
                   q == SeekIn(C[i], e)
                   r == IF q = Null THEN LastOf(C[i]) ELSE PrevIn(C[i], q)
        <3>1. e \notin C[i]
            BY <1>0, <1>1, <1>3
        <3>2. \A x \in C[i] : ~Before(x, e) <=> Before(e, x)
            BY <1>0, <1>1, <3>1, BeforeOrder DEF Ordered
        <3>3. IsFirst(G, q)
            <4>1. G \in SUBSET Entries /\ Ordered(G) /\ IsFiniteSet(G)
                BY <2>1, FS_Subset DEF Ordered
            <4>2. q = FirstOf(G)
                BY DEF SeekIn
            <4> HIDE DEF G, q
            <4> QED  BY <4>1, <4>2, FirstOfIs
        <3> HIDE DEF q
        <3>4. r = LastOf(C[i] \cap X)
            <4>1. CASE q = Null
                <5>1. G = {}
                    BY <2>1, <3>3, <4>1, MemTableAssumption DEF IsFirst, IsSmallest
                <5>2. C[i] \cap X = C[i]
                    BY <5>1
                <5> QED  BY <4>1, <5>2
            <4>2. CASE q # Null
                <5>1. IsSmallest(G, q)
                    BY <3>3, <4>2 DEF IsFirst
                <5>2. q \in C[i] /\ q \in Entries /\ Before(e, q)
                    BY <2>1, <3>2, <5>1 DEF IsSmallest
                <5>3. \A x \in C[i] : Before(x, q) <=> Before(x, e)
                    <6> SUFFICES ASSUME NEW x \in C[i] PROVE Before(x, q) <=> Before(x, e)
                        OBVIOUS
                    <6>1. Before(x, e) => Before(x, q)
                        BY <1>1, <2>1, <5>2, BeforeOrder
                    <6>2. ~Before(x, e) => x = q \/ Before(q, x)
                        BY <5>1 DEF IsSmallest
                    <6> QED  BY <2>1, <5>2, <6>1, <6>2, BeforeOrder
                <5>4. {x \in C[i] : Before(x, q)} = C[i] \cap X
                    BY <5>3
                <5> QED  BY <4>2, <5>4 DEF PrevIn
            <4> QED  BY <4>1, <4>2
        <3>5. AimDown(C[i], V, X, r)
            <4> HIDE DEF X, r
            <4> QED  BY <2>1, <3>4, LastAims
        <3>6. T.pos[i] = r
            BY <1>0, <1>2, <1>3, <2>3 DEF TurnBack, e, q
        <3> QED  BY <2>1, <3>5, <3>6 DEF AimDown
    <2> QED  BY <1>2, <2>2, <2>3
<1>4. /\ T.forward = FALSE /\ DOMAIN T.pos = {1, 2} /\ T.cur = m.cur
      /\ DOMAIN T = {"pos", "cur", "forward"}
    BY <1>0, <1>2 DEF TurnBack
<1>5. /\ AimDown(C[m.cur], V, X, PrevIn(C[m.cur], e))
      /\ PrevIn(C[m.cur], e) \in Entries \cup {Null}
    <2>1. C[m.cur] \in SUBSET Entries /\ Ordered(C[m.cur]) /\ IsFiniteSet(C[m.cur])
        BY <1>1, ChildrenOrdered
    <2>2. C[m.cur] \cap X = {x \in C[m.cur] : Before(x, e)}
        BY <1>1
    <2>3. PrevIn(C[m.cur], e) = LastOf(C[m.cur] \cap X)
        BY <2>2 DEF PrevIn
    <2>4. AimDown(C[m.cur], V, X, PrevIn(C[m.cur], e))
        <3> HIDE DEF X
        <3> QED  BY <2>1, <2>3, LastAims
    <2> QED  BY <2>1, <2>4 DEF AimDown
<1> HIDE DEF T
<1>6. /\ k.forward = FALSE /\ k.cur = m.cur /\ DOMAIN k = {"pos", "cur", "forward"}
      /\ DOMAIN k.pos = {1, 2} /\ k.pos[m.cur] = PrevIn(C[m.cur], e)
      /\ \A i \in {1, 2} \ {m.cur} : k.pos[i] = T.pos[i]
      /\ k.pos = [T.pos EXCEPT ![m.cur] = PrevIn(C[m.cur], e)]
      /\ k = [T EXCEPT !.pos = k.pos]
    BY <1>1, <1>4
<1> HIDE DEF k
<1>7. \A i \in {1, 2} : AimDown(C[i], V, X, k.pos[i]) /\ k.pos[i] \in Entries \cup {Null}
    BY <1>3, <1>5, <1>6
<1>8. T = [pos |-> T.pos, cur |-> T.cur, forward |-> T.forward]
    BY <1>0, <1>2 DEF TurnBack, T
<1>9. k \in Mergers
    <2>1. PICK P \in [{1, 2} -> Entries \cup {Null}] : P = k.pos
        BY <1>6, <1>7
    <2>2. k = [pos |-> P, cur |-> m.cur, forward |-> FALSE]
        BY <1>4, <1>6, <1>8, <2>1
    <2> QED  BY <1>1, <2>1, <2>2 DEF Mergers
<1>10. Downward(U, X)
    BY <1>0, <1>1, BeforeOrder DEF Downward
<1>11. MergePrev(C, m) = FindLargest(k)
    BY DEF MergePrev, T, e, k
<1>12. /\ FindLargest(k) \in Mergers
       /\ \/ Current(FindLargest(k)) = Null /\ V \cap X = {}
          \/ /\ MergerBack(C, V, FindLargest(k)) /\ Current(FindLargest(k)) \in X
             /\ \A x \in V \cap X : ~Before(Current(FindLargest(k)), x)
    <2> HIDE DEF X
    <2> QED  BY <1>6, <1>7, <1>9, <1>10, FindLargestIs
<1>13. \A x \in V : Before(x, e) => x \in V \cap X
    BY <1>0
<1> QED  BY <1>11, <1>12, <1>13 DEF e

-------------------------------------------------------------------------------
\* The calls of the iterator, going forward

\* What a call or a turn of its loop leaves.
Cursor(C, V, s, d, goal) ==
    d \in DBIters /\ d.sequence = s /\ CursorInv(C, V, d, goal)

LEMMA VisibleEntries ==
    ASSUME NEW C, NEW V, NEW s, Family(C, V, s)
    PROVE  /\ V \in SUBSET Entries /\ Ordered(V) /\ V \subseteq C[1] \cup C[2]
           /\ Newest(V) \subseteq V
           /\ \A x \in C[1] \cup C[2] : x \in Entries /\ (x \in V <=> x.seq <= s)
           /\ Ordered(C[1] \cup C[2]) /\ s \in Nat /\ \A x \in V : x.seq <= s
BY DEF Family, Ordered, Newest

LEMMA MergerEntry ==
    ASSUME NEW C, NEW V, NEW s, Family(C, V, s), NEW m, MergerAt(C, m)
    PROVE  Current(m) \in C[1] \cup C[2] /\ Current(m) \in Entries /\ Current(m) # Null
<1>1. m.cur \in {1, 2} /\ Current(m) = m.pos[m.cur]
    BY DEF MergerAt, Current
<1>2. Current(m) \in C[1] \cup C[2]
    BY <1>1 DEF MergerAt
<1>3. Current(m) \in Entries
    BY <1>2 DEF Family
<1> QED  BY <1>2, <1>3, MemTableAssumption

LEMMA FirstUnique ==
    ASSUME NEW A \in SUBSET Entries, NEW g, IsFirst(A, g), NEW e, IsSmallest(A, e)
    PROVE  g = e
<1>1. IsSmallest(A, g)
    BY DEF IsFirst, IsSmallest
<1> QED  BY <1>1, BeforeOrder DEF IsSmallest

\* The end: nothing is shown.
LEMMA EndedIs ==
    ASSUME NEW C, NEW V, NEW s, NEW d \in DBIters, d.sequence = s
    PROVE  /\ Cursor(C, V, s, Ended(d), Null)
           /\ Cursor(C, V, s, [Ended(d) EXCEPT !.forward = TRUE], Null)
<1>1. /\ Ended(d) \in DBIters /\ Ended(d).sequence = s /\ Ended(d).pc = "idle"
      /\ Ended(d).valid = FALSE
    BY DEF Ended, DBIters
<1> DEFINE f == [Ended(d) EXCEPT !.forward = TRUE]
<1>2. f \in DBIters /\ f.sequence = s /\ f.pc = "idle" /\ f.valid = FALSE
    BY <1>1 DEF DBIters
<1> HIDE DEF f
<1>3. Cursor(C, V, s, Ended(d), Null)
    BY <1>1 DEF Cursor, CursorInv, Between
<1>4. Cursor(C, V, s, f, Null)
    BY <1>2 DEF Cursor, CursorInv, Between
<1> QED  BY <1>3, <1>4 DEF f

\* The loop begins at an entry, or ends at once.
LEMMA FindNextIs ==
    ASSUME NEW C, NEW V, NEW s, NEW d \in DBIters, d.sequence = s, NEW goal,
           NEW k \in BOOLEAN, d.forward,
           Current(d.iter) = Null => goal = Null,
           Current(d.iter) # Null =>
              /\ MergerForward(C, V, d.iter)
              /\ IsFirst({x \in Newest(V) : ~Before(x, Current(d.iter)) /\
                                            (k => x.key > d.saved)}, goal)
              /\ \A x \in V : Before(x, Current(d.iter)) /\ x.key = Current(d.iter).key =>
                    k /\ Current(d.iter).key <= d.saved
              /\ k => /\ d.saved \in Nat
                      /\ \A x \in V : ~Before(x, Current(d.iter)) => x.key >= d.saved
    PROVE  Cursor(C, V, s, FindNext(d, k), goal)
<1>1. CASE Current(d.iter) = Null
    BY <1>1, EndedIs DEF FindNext
<1>2. CASE Current(d.iter) # Null
    <2> DEFINE r == FindNext(d, k)
    <2>1. r = [d EXCEPT !.pc = "next", !.skipping = k]
        BY <1>2 DEF FindNext
    <2>2. /\ r \in DBIters /\ r.sequence = s /\ r.pc = "next" /\ r.iter = d.iter
          /\ r.skipping = k /\ r.saved = d.saved /\ r.forward = d.forward
        BY <2>1 DEF DBIters
    <2> HIDE DEF r
    <2>3. NextLoop(C, V, r, goal)
        BY <1>2, <2>2 DEF NextLoop
    <2>4. Cursor(C, V, s, r, goal)
        BY <2>2, <2>3 DEF Cursor, CursorInv
    <2> QED  BY <2>4 DEF r
<1> QED  BY <1>1, <1>2

LEMMA SeekToFirstIs ==
    ASSUME NEW C, NEW V, NEW s, Family(C, V, s), NEW d \in DBIters, d.sequence = s,
           NEW goal, IsFirst(Newest(V), goal)
    PROVE  Cursor(C, V, s, SeekToFirst(C, d), goal)
<1> DEFINE n == MergeSeekToFirst(C, d.iter)
           f == [d EXCEPT !.forward = TRUE, !.value = Null, !.iter = n]
<1>1. /\ n \in Mergers
      /\ \/ Current(n) = Null /\ V = {}
         \/ MergerForward(C, V, n) /\ \A x \in V : ~Before(x, Current(n))
    <2>1. d.iter \in Mergers
        BY DEF DBIters
    <2> QED  BY <2>1, MergeSeekToFirstIs
<1>2. SeekToFirst(C, d) = FindNext(f, FALSE)
    BY DEF SeekToFirst
<1> HIDE DEF n
<1>3. f \in DBIters /\ f.iter = n /\ f.sequence = s /\ f.forward = TRUE
    BY <1>1 DEF DBIters
<1> HIDE DEF f
<1>4. CASE Current(n) = Null
    <2>1. goal = Null
        <3>1. MergerForward(C, V, n) => Current(n) # Null
            BY MergerEntry DEF MergerForward
        <3>2. Newest(V) = {}
            BY <1>1, <1>4, <3>1 DEF Newest
        <3> QED  BY <3>2 DEF IsFirst
    <2> QED  BY <1>2, <1>3, <1>4, <2>1, FindNextIs
<1>5. CASE Current(n) # Null
    <2>1. MergerForward(C, V, n) /\ \A x \in V : ~Before(x, Current(n))
        BY <1>1, <1>5
    <2>2. {x \in Newest(V) : ~Before(x, Current(n)) /\ (FALSE => x.key > f.saved)} = Newest(V)
        BY <2>1, VisibleEntries
    <2> QED  BY <1>2, <1>3, <1>5, <2>1, <2>2, FindNextIs
<1> QED  BY <1>4, <1>5

LEMMA SeekIs ==
    ASSUME NEW C, NEW V, NEW s, Family(C, V, s), NEW d \in DBIters, d.sequence = s,
           NEW key \in Nat, NEW goal, IsFirst({e \in Newest(V) : e.key >= key}, goal)
    PROVE  Cursor(C, V, s, Seek(C, d, key), goal)
<1> DEFINE t == [key |-> key, seq |-> s]
           n == MergeSeek(C, d.iter, t)
           f == [d EXCEPT !.forward = TRUE, !.value = Null, !.iter = n]
<1>0. V \in SUBSET Entries /\ Newest(V) \subseteq V /\ s \in Nat /\ \A x \in V : x.seq <= s
    BY DEF Family, Newest
<1>1. t \in Targets /\ d.iter \in Mergers
    BY <1>0 DEF DBIters, Targets
<1>2. \A x \in V : Before(x, t) <=> x.key < key
    BY <1>0, KeyOrder DEF Before
<1>3. \A x \in Entries : ~Before(x, t) => x.key >= key
    BY KeyOrder DEF Before
<1> HIDE DEF t
<1>4. /\ n \in Mergers
      /\ \/ Current(n) = Null /\ \A x \in V : Before(x, t)
         \/ /\ MergerForward(C, V, n) /\ ~Before(Current(n), t)
            /\ \A x \in V : ~Before(x, t) => ~Before(x, Current(n))
    BY <1>1, MergeSeekIs
<1>5. Seek(C, d, key) = FindNext(f, FALSE)
    BY DEF Seek, t
<1> HIDE DEF n
<1>6. f \in DBIters /\ f.iter = n /\ f.sequence = s /\ f.forward = TRUE
    BY <1>4 DEF DBIters
<1> HIDE DEF f
<1>7. CASE Current(n) = Null
    <2>1. MergerForward(C, V, n) => Current(n) # Null
        BY MergerEntry DEF MergerForward
    <2>2. {e \in Newest(V) : e.key >= key} = {}
        BY <1>0, <1>2, <1>4, <1>7, <2>1, KeyOrder
    <2>3. goal = Null
        BY <2>2 DEF IsFirst
    <2> QED  BY <1>5, <1>6, <1>7, <2>3, FindNextIs
<1>8. CASE Current(n) # Null
    <2>1. /\ MergerForward(C, V, n) /\ ~Before(Current(n), t)
          /\ \A x \in V : ~Before(x, t) => ~Before(x, Current(n))
        BY <1>4, <1>8
    <2>2. Current(n) \in Entries /\ Current(n).key >= key
        BY <1>3, <2>1, MergerEntry DEF MergerForward
    <2>3. ASSUME NEW x \in V PROVE ~Before(x, Current(n)) <=> x.key >= key
        <3>1. x.key >= key => ~Before(x, Current(n))
            BY <1>0, <1>2, <2>1, KeyOrder
        <3>2. x.key < key => x.key < Current(n).key
            BY <1>0, <2>2, KeyOrder
        <3> QED  BY <1>0, <2>2, <3>1, <3>2, KeyOrder
    <2>4. {x \in Newest(V) : ~Before(x, Current(n)) /\ (FALSE => x.key > f.saved)}
             = {e \in Newest(V) : e.key >= key}
        BY <1>0, <2>3
    <2>5. \A x \in V : ~(Before(x, Current(n)) /\ x.key = Current(n).key)
        BY <2>2, <2>3
    <2> QED  BY <1>5, <1>6, <1>8, <2>1, <2>4, <2>5, FindNextIs
<1> QED  BY <1>7, <1>8

\* One turn of FindNextUserEntry.
LEMMA NextStepIs ==
    ASSUME NEW C, NEW V, NEW s, Family(C, V, s), NEW d \in DBIters, d.sequence = s,
           NEW goal, d.pc = "next", NextLoop(C, V, d, goal)
    PROVE  Cursor(C, V, s, NextStep(C, d), goal)
<1> DEFINE e == Current(d.iter)
           seen == e.seq <= s
           hides == seen /\ e.del
           stop == seen /\ ~e.del /\ ~(d.skipping /\ e.key <= d.saved)
           n == MergeNext(C, d.iter)
           on == [d EXCEPT !.saved = IF hides THEN e.key ELSE @,
                           !.skipping = @ \/ hides, !.iter = n]
           S == {x \in Newest(V) : ~Before(x, e) /\ (d.skipping => x.key > d.saved)}
<1>0. /\ V \in SUBSET Entries /\ Newest(V) \subseteq V /\ s \in Nat
      /\ Ordered(C[1] \cup C[2]) /\ V \subseteq C[1] \cup C[2]
      /\ \A x \in C[1] \cup C[2] : x \in V <=> x.seq <= s
    BY DEF Family, Newest, Ordered
<1>1. /\ MergerForward(C, V, d.iter) /\ MergerAt(C, d.iter) /\ d.iter.forward
      /\ d.forward /\ IsFirst(S, goal)
      /\ \A x \in V : Before(x, e) /\ x.key = e.key => d.skipping /\ e.key <= d.saved
      /\ d.skipping => /\ d.saved \in Nat
                       /\ \A x \in V : ~Before(x, e) => x.key >= d.saved
    BY DEF NextLoop, MergerForward
<1>2. /\ e \in C[1] \cup C[2] /\ e \in Entries /\ (seen <=> e \in V)
      /\ e.key \in Nat /\ e.seq \in Nat /\ e.del \in BOOLEAN
    <2>1. e \in C[1] \cup C[2] /\ e \in Entries
        BY <1>1, MergerEntry
    <2> HIDE DEF e
    <2> QED  BY <1>0, <2>1, KeyOrder
<1>3. /\ n \in Mergers
      /\ \/ Current(n) = Null /\ \A x \in V : ~Before(e, x)
         \/ /\ MergerForward(C, V, n) /\ Before(e, Current(n))
            /\ \A x \in V : Before(e, x) => ~Before(x, Current(n))
    <2>1. d.iter \in Mergers
        BY DEF DBIters
    <2> QED  BY <1>1, <2>1, MergeNextIs
<1>4. NextStep(C, d) = IF stop THEN [d EXCEPT !.pc = "idle", !.valid = TRUE, !.saved = Null]
                       ELSE IF Current(on.iter) = Null THEN Ended(on) ELSE on
    BY DEF NextStep
<1> HIDE DEF e, n
<1>5. CASE stop
    <2> DEFINE r == [d EXCEPT !.pc = "idle", !.valid = TRUE, !.saved = Null]
    <2>1. /\ r \in DBIters /\ r.sequence = s /\ r.pc = "idle" /\ r.valid = TRUE
          /\ r.iter = d.iter /\ r.forward = d.forward
        BY DEF DBIters
    <2> HIDE DEF r
    <2>2. e \in V /\ ~e.del
        BY <1>2, <1>5
    <2>3. e \in Newest(V)
        <3> SUFFICES ASSUME NEW f \in V, f.key = e.key, ~(f.seq <= e.seq) PROVE FALSE
            BY <2>2 DEF Newest
        <3>1. f \in Entries /\ f.seq \in Nat /\ f.seq > e.seq
            BY <1>0, <1>2, KeyOrder
        <3>2. Before(f, e)
            BY <1>2, <3>1, KeyOrder
        <3> QED  BY <1>1, <1>5, <3>2
    <2>4. IsSmallest(S, e)
        <3>1. e \in S
            <4>1. ~Before(e, e)
                BY <1>2, BeforeOrder
            <4>2. d.skipping => e.key > d.saved
                BY <1>1, <1>2, <1>5
            <4> QED  BY <2>3, <4>1, <4>2
        <3>2. \A x \in S \ {e} : Before(e, x)
            BY <1>0, <1>2 DEF Ordered
        <3> QED  BY <3>1, <3>2 DEF IsSmallest
    <2>5. goal = e
        <3>1. S \in SUBSET Entries
            BY <1>0
        <3> HIDE DEF S
        <3> QED  BY <1>1, <2>4, <3>1, FirstUnique
    <2>6. e # Null
        BY <1>2, MemTableAssumption
    <2>7. Between(C, V, r, goal)
        BY <1>1, <2>1, <2>3, <2>5, <2>6 DEF Between, e
    <2>8. Cursor(C, V, s, r, goal)
        BY <2>1, <2>7 DEF Cursor, CursorInv
    <2> QED  BY <1>4, <1>5, <2>8 DEF r
<1>6. CASE ~stop
    <2>0. /\ d.saved \in Nat \cup {Null} /\ d.skipping \in BOOLEAN
        BY DEF DBIters
    <2>1. /\ on \in DBIters /\ on.sequence = s /\ on.iter = n /\ on.forward = d.forward
          /\ on.pc = d.pc /\ on.saved = (IF hides THEN e.key ELSE d.saved)
          /\ on.skipping = (d.skipping \/ hides)
        BY <1>2, <1>3, <2>0 DEF DBIters
    <2> HIDE DEF on
    <2>2. \A x \in S : x # e /\ Before(e, x)
        <3> SUFFICES ASSUME NEW x \in S PROVE x # e /\ Before(e, x)
            OBVIOUS
        <3>1. x # e
            <4> SUFFICES ASSUME x = e PROVE FALSE
                OBVIOUS
            <4>1. e \in V /\ ~e.del /\ (d.skipping => e.key > d.saved)
                BY <1>0 DEF Newest
            <4>2. d.skipping => ~(e.key <= d.saved)
                BY <1>1, <1>2, <4>1
            <4> QED  BY <1>2, <1>6, <4>1, <4>2
        <3> QED  BY <1>0, <1>2, <3>1 DEF Ordered
    <2>3. CASE Current(n) = Null
        <3>1. \A x \in V : ~Before(e, x)
            <4>1. MergerForward(C, V, n) => Current(n) # Null
                BY MergerEntry DEF MergerForward
            <4> QED  BY <1>3, <2>3, <4>1
        <3>2. S = {}
            BY <1>0, <2>2, <3>1
        <3>3. goal = Null
            BY <1>1, <3>2 DEF IsFirst
        <3>4. Cursor(C, V, s, Ended(on), goal)
            BY <2>1, <3>3, EndedIs
        <3> QED  BY <1>4, <1>6, <2>1, <2>3, <3>4
    <2>4. CASE Current(n) # Null
        <3> DEFINE g == Current(n)
        <3>1. /\ MergerForward(C, V, n) /\ Before(e, g)
              /\ \A x \in V : Before(e, x) => ~Before(x, g)
            BY <1>3, <2>4
        <3>2. g \in Entries /\ g \in C[1] \cup C[2] /\ g.key \in Nat /\ e.key <= g.key
            <4>1. g \in Entries /\ g \in C[1] \cup C[2]
                BY <3>1, MergerEntry DEF MergerForward
            <4> HIDE DEF g
            <4> QED  BY <1>2, <3>1, <4>1, KeyOrder
        <3> HIDE DEF g
        <3>3. \A x \in V : ~Before(x, g) => Before(e, x)
            BY <1>0, <1>2, <3>1, <3>2, BeforeOrder DEF Ordered
        <3>4. ASSUME NEW x \in Newest(V)
              PROVE  (~Before(x, e) /\ (d.skipping => x.key > d.saved)) <=>
                     (~Before(x, g) /\ (on.skipping => x.key > on.saved))
            <4>0. x \in V /\ x \in Entries /\ x.key \in Nat
                BY <1>0, KeyOrder
            <4>1. ASSUME ~Before(x, e), d.skipping => x.key > d.saved
                  PROVE  ~Before(x, g) /\ (on.skipping => x.key > on.saved)
                <5>1. Before(e, x) /\ ~Before(x, g)
                    BY <2>2, <3>1, <4>0, <4>1
                <5>2. CASE hides
                    <6>1. e \in V /\ on.saved = e.key
                        BY <1>2, <2>1, <5>2
                    <6>2. x.key # e.key
                        <7> SUFFICES ASSUME x.key = e.key PROVE FALSE
                            OBVIOUS
                        <7>1. e.seq <= x.seq
                            BY <6>1 DEF Newest
                        <7>2. e.seq > x.seq /\ x.seq \in Nat
                            BY <1>2, <4>0, <5>1, KeyOrder
                        <7> QED  BY <1>2, <7>1, <7>2
                    <6>3. e.key <= x.key
                        BY <1>2, <4>0, <5>1, KeyOrder
                    <6> QED  BY <1>2, <4>0, <5>1, <6>1, <6>2, <6>3
                <5>3. CASE ~hides
                    BY <2>1, <4>1, <5>1, <5>3
                <5> QED  BY <5>2, <5>3
            <4>2. ASSUME ~Before(x, g), on.skipping => x.key > on.saved
                  PROVE  ~Before(x, e) /\ (d.skipping => x.key > d.saved)
                <5>1. Before(e, x) /\ ~Before(x, e)
                    BY <1>2, <3>3, <4>0, <4>2, BeforeOrder
                <5>2. CASE hides
                    <6>1. on.skipping /\ x.key > e.key
                        BY <2>1, <4>2, <5>2
                    <6>2. d.skipping => d.saved \in Nat /\ e.key >= d.saved
                        <7>1. ~Before(e, e) /\ e \in V
                            BY <1>2, <5>2, BeforeOrder
                        <7> QED  BY <1>1, <7>1
                    <6> QED  BY <1>2, <4>0, <5>1, <6>1, <6>2
                <5>3. CASE ~hides
                    BY <2>1, <4>2, <5>1, <5>3
                <5> QED  BY <5>2, <5>3
            <4> QED  BY <4>1, <4>2
        <3>5. S = {x \in Newest(V) : ~Before(x, g) /\ (on.skipping => x.key > on.saved)}
            BY <3>4
        <3>6. ASSUME NEW x \in V, Before(x, g), x.key = g.key
              PROVE  on.skipping /\ g.key <= on.saved
            <4>0. x \in Entries /\ x.key \in Nat
                BY <1>0, KeyOrder
            <4>1. x = e \/ Before(x, e)
                <5>1. ~Before(e, x)
                    BY <3>1, <3>6
                <5> QED  BY <1>0, <1>2, <5>1 DEF Ordered
            <4>2. e.key = x.key
                <5>1. x.key <= e.key
                    BY <1>2, <4>0, <4>1, KeyOrder
                <5> QED  BY <1>2, <3>2, <3>6, <4>0, <5>1
            <4>3. CASE hides
                <5>1. on.skipping /\ on.saved = e.key
                    BY <2>1, <4>3
                <5>2. g.key = e.key
                    BY <3>6, <4>2
                <5> QED  BY <1>2, <5>1, <5>2
            <4>4. CASE ~hides
                <5>1. d.skipping /\ e.key <= d.saved
                    <6>1. CASE x = e
                        BY <1>2, <1>6, <4>4, <6>1
                    <6>2. CASE Before(x, e)
                        BY <1>1, <4>2, <6>2
                    <6> QED  BY <4>1, <6>1, <6>2
                <5> QED  BY <2>1, <3>6, <4>2, <4>4, <5>1
            <4> QED  BY <4>3, <4>4
        <3>7. ASSUME on.skipping
              PROVE  on.saved \in Nat /\ \A x \in V : ~Before(x, g) => x.key >= on.saved
            <4>1. CASE hides
                <5>1. \A x \in V : Before(e, x) => x.key >= e.key
                    BY <1>0, <1>2, KeyOrder
                <5> QED  BY <1>2, <2>1, <3>3, <4>1, <5>1
            <4>2. CASE ~hides
                <5>1. d.skipping /\ on.saved = d.saved
                    BY <2>1, <3>7, <4>2
                <5>2. \A x \in V : Before(e, x) => ~Before(x, e)
                    BY <1>0, <1>2, BeforeOrder
                <5> QED  BY <1>1, <3>3, <5>1, <5>2
            <4> QED  BY <4>1, <4>2
        <3>8. NextLoop(C, V, on, goal)
            <4>1. Current(on.iter) = g
                BY <2>1 DEF g
            <4>2. IsFirst({x \in Newest(V) :
                             ~Before(x, g) /\ (on.skipping => x.key > on.saved)}, goal)
                BY <1>1, <3>5
            <4> QED  BY <1>1, <2>1, <3>1, <3>6, <3>7, <4>1, <4>2 DEF NextLoop
        <3>9. Cursor(C, V, s, on, goal)
            BY <2>1, <3>8 DEF Cursor, CursorInv
        <3> QED  BY <1>4, <1>6, <2>1, <2>4, <3>9
    <2> QED  BY <2>3, <2>4
<1> QED  BY <1>5, <1>6

LEMMA IterNextIs ==
    ASSUME NEW C, NEW V, NEW s, Family(C, V, s), NEW d \in DBIters, d.sequence = s,
           d.valid, NEW g, Between(C, V, d, g),
           NEW goal, IsFirst({x \in Newest(V) : x.key > g.key}, goal)
    PROVE  Cursor(C, V, s, IterNext(C, d), goal)
<1>0. /\ V \in SUBSET Entries /\ Newest(V) \subseteq V /\ s \in Nat
      /\ Ordered(C[1] \cup C[2]) /\ V \subseteq C[1] \cup C[2]
    BY DEF Family, Newest
<1>1. g \in V /\ g \in Entries /\ g \in Newest(V) /\ g.key \in Nat
    BY <1>0, KeyOrder DEF Between
<1>2. CASE d.forward
    <2> DEFINE f == [d EXCEPT !.saved = Current(d.iter).key]
    <2>1. MergerForward(C, V, d.iter) /\ Current(d.iter) = g
        BY <1>2 DEF Between
    <2>2. f \in DBIters /\ f.sequence = s /\ f.iter = d.iter /\ f.forward /\ f.saved = g.key
        BY <1>1, <1>2, <2>1 DEF DBIters
    <2>3. IterNext(C, d) = FindNext(f, TRUE)
        BY <1>2 DEF IterNext
    <2> HIDE DEF f
    <2>4. \A x \in V : x.key > g.key => ~Before(x, g)
        BY <1>0, <1>1, KeyOrder
    <2>5. {x \in Newest(V) : ~Before(x, Current(f.iter)) /\ (TRUE => x.key > f.saved)}
             = {x \in Newest(V) : x.key > g.key}
        BY <1>0, <2>1, <2>2, <2>4
    <2>6. \A x \in V : ~Before(x, g) => x.key >= g.key
        <3> SUFFICES ASSUME NEW x \in V, ~Before(x, g) PROVE x.key >= g.key
            OBVIOUS
        <3>1. x = g \/ Before(g, x)
            BY <1>0, <1>1 DEF Ordered
        <3> QED  BY <1>0, <1>1, <3>1, KeyOrder
    <2>7. g # Null
        BY <1>1, MemTableAssumption
    <2>8. Current(f.iter) = g /\ MergerForward(C, V, f.iter) /\ g.key <= f.saved
          /\ f.saved \in Nat /\ \A x \in V : ~Before(x, Current(f.iter)) => x.key >= f.saved
        BY <1>1, <2>1, <2>2, <2>6
    <2> QED  BY <2>2, <2>3, <2>5, <2>7, <2>8, FindNextIs
<1>3. CASE ~d.forward
    <2> DEFINE c == Current(d.iter)
               n == IF c = Null THEN MergeSeekToFirst(C, d.iter) ELSE MergeNext(C, d.iter)
               f == [d EXCEPT !.forward = TRUE, !.iter = n]
    <2>1. /\ d.saved = g.key /\ (c = Null => \A x \in V : x.key >= g.key)
          /\ c # Null => /\ MergerBack(C, V, d.iter) /\ c.key < g.key
                         /\ \A x \in V : Before(c, x) => x.key >= g.key
        BY <1>3 DEF Between
    <2>2. d.iter \in Mergers
        BY DEF DBIters
    <2>3. IterNext(C, d) = FindNext(f, TRUE)
        BY <1>3 DEF IterNext
    \* c is before the entries of the key, and n goes on behind it.
    <2>4. /\ n \in Mergers
          /\ Current(n) = Null => \A x \in V : x.key < g.key
          /\ Current(n) # Null =>
                /\ MergerForward(C, V, n)
                /\ \A x \in V : ~Before(x, Current(n)) <=> x.key >= g.key
        <3>1. CASE c = Null
            <4>1. /\ n \in Mergers
                  /\ \/ Current(n) = Null /\ V = {}
                     \/ MergerForward(C, V, n) /\ \A x \in V : ~Before(x, Current(n))
                BY <2>2, <3>1, MergeSeekToFirstIs
            <4>2. MergerForward(C, V, n) => Current(n) # Null
                BY MergerEntry DEF MergerForward
            <4> HIDE DEF n
            <4> QED  BY <2>1, <3>1, <4>1, <4>2
        <3>2. CASE c # Null
            <4>0. MergerAt(C, d.iter) /\ ~d.iter.forward
                BY <2>1, <3>2 DEF MergerBack
            <4>1. /\ n \in Mergers
                  /\ \/ Current(n) = Null /\ \A x \in V : ~Before(c, x)
                     \/ /\ MergerForward(C, V, n) /\ Before(c, Current(n))
                        /\ \A x \in V : Before(c, x) => ~Before(x, Current(n))
                BY <2>2, <3>2, <4>0, MergeNextIs
            <4>2. c \in Entries /\ c \in C[1] \cup C[2] /\ c.key \in Nat
                <5>1. c \in Entries /\ c \in C[1] \cup C[2]
                    BY <4>0, MergerEntry
                <5> HIDE DEF c
                <5> QED  BY <5>1, KeyOrder
            <4>3. MergerForward(C, V, n) => Current(n) # Null /\ Current(n) \in Entries
                BY MergerEntry DEF MergerForward
            <4> HIDE DEF n, c
            <4>4. \A x \in V : ~Before(c, x) <=> x.key < g.key
                <5> SUFFICES ASSUME NEW x \in V PROVE ~Before(c, x) <=> x.key < g.key
                    OBVIOUS
                <5>1. x.key \in Nat /\ x \in Entries
                    BY <1>0, KeyOrder
                <5>2. ~Before(c, x) => x.key <= c.key
                    BY <4>2, <5>1, KeyOrder
                <5> QED  BY <1>1, <2>1, <3>2, <4>2, <5>1, <5>2
            <4>5. CASE Current(n) = Null
                BY <4>1, <4>3, <4>4, <4>5
            <4>6. CASE Current(n) # Null
                <5>1. \A x \in V : ~Before(x, Current(n)) <=> Before(c, x)
                    BY <1>0, <4>1, <4>2, <4>3, <4>6, BeforeOrder DEF Ordered
                <5>2. \A x \in V : x.key >= g.key <=> ~(x.key < g.key)
                    BY <1>0, <1>1, KeyOrder
                <5> QED  BY <4>1, <4>4, <4>6, <5>1, <5>2
            <4> QED  BY <4>1, <4>5, <4>6
        <3> QED  BY <3>1, <3>2
    <2> HIDE DEF n
    <2>5. f \in DBIters /\ f.sequence = s /\ f.iter = n /\ f.forward /\ f.saved = g.key
        BY <1>1, <2>1, <2>4 DEF DBIters
    <2> HIDE DEF f
    <2>6. CASE Current(n) = Null
        <3>1. {x \in Newest(V) : x.key > g.key} = {}
            BY <1>0, <1>1, <2>4, <2>6, KeyOrder
        <3>2. goal = Null
            BY <3>1 DEF IsFirst
        <3> QED  BY <2>3, <2>5, <2>6, <3>2, FindNextIs
    <2>7. CASE Current(n) # Null
        <3>0. Current(n) \in Entries /\ Current(n).key \in Nat
            <4>1. Current(n) \in Entries
                BY <2>4, <2>7, MergerEntry DEF MergerForward
            <4> QED  BY <4>1, KeyOrder
        <3>1. {x \in Newest(V) : ~Before(x, Current(f.iter)) /\ (TRUE => x.key > f.saved)}
                 = {x \in Newest(V) : x.key > g.key}
            <4>1. \A x \in V : x.key > g.key => x.key >= g.key
                BY <1>0, <1>1, KeyOrder
            <4> QED  BY <1>0, <2>4, <2>5, <2>7, <4>1
        <3>2. \A x \in V : Before(x, Current(n)) /\ x.key = Current(n).key
                 => Current(n).key <= g.key
            <4> SUFFICES ASSUME NEW x \in V, Before(x, Current(n)), x.key = Current(n).key
                         PROVE  Current(n).key <= g.key
                OBVIOUS
            <4>1. ~(x.key >= g.key)
                BY <2>4, <2>7
            <4> QED  BY <1>1, <3>0, <4>1
        <3> QED  BY <1>1, <2>3, <2>4, <2>5, <2>7, <3>1, <3>2, FindNextIs
    <2> QED  BY <2>6, <2>7
<1> QED  BY <1>2, <1>3

-------------------------------------------------------------------------------
\* The calls of the iterator, going back

LEMMA LastUnique ==
    ASSUME NEW A \in SUBSET Entries, NEW g, IsLast(A, g), NEW e, IsLargest(A, e)
    PROVE  g = e
<1>1. IsLargest(A, g)
    BY DEF IsLast, IsLargest
<1> QED  BY <1>1, BeforeOrder DEF IsLargest

LEMMA FindPrevIs ==
    ASSUME NEW C, NEW V, NEW s, NEW d \in DBIters, d.sequence = s, NEW goal,
           Current(d.iter) = Null => goal = Null,
           Current(d.iter) # Null =>
              /\ MergerBack(C, V, d.iter)
              /\ IsLast({x \in Newest(V) : ~Before(Current(d.iter), x)}, goal)
    PROVE  Cursor(C, V, s, FindPrev(d), goal)
<1> DEFINE e == [d EXCEPT !.found = FALSE, !.forward = FALSE]
<1>1. e \in DBIters /\ e.sequence = s /\ e.iter = d.iter /\ e.found = FALSE /\ e.forward = FALSE
    BY DEF DBIters
<1>2. FindPrev(d) = IF Current(d.iter) = Null THEN PrevEnd(e) ELSE [e EXCEPT !.pc = "prev"]
    BY DEF FindPrev
<1> HIDE DEF e
<1>3. CASE Current(d.iter) = Null
    <2>1. PrevEnd(e) = [Ended(e) EXCEPT !.forward = TRUE]
        BY <1>1 DEF PrevEnd
    <2>2. Cursor(C, V, s, [Ended(e) EXCEPT !.forward = TRUE], Null)
        BY <1>1, EndedIs
    <2> QED  BY <1>2, <1>3, <2>1, <2>2
<1>4. CASE Current(d.iter) # Null
    <2> DEFINE r == [e EXCEPT !.pc = "prev"]
    <2>1. /\ r \in DBIters /\ r.sequence = s /\ r.iter = d.iter /\ r.found = FALSE
          /\ r.forward = FALSE /\ r.pc = "prev"
        BY <1>1 DEF DBIters
    <2> HIDE DEF r
    <2>2. PrevLoop(C, V, r, goal)
        BY <1>4, <2>1 DEF PrevLoop
    <2>3. Cursor(C, V, s, r, goal)
        BY <2>1, <2>2 DEF Cursor, CursorInv
    <2> QED  BY <1>2, <1>4, <2>3 DEF r
<1> QED  BY <1>3, <1>4

LEMMA SeekToLastIs ==
    ASSUME NEW C, NEW V, NEW s, Family(C, V, s), NEW d \in DBIters, d.sequence = s,
           NEW goal, IsLast(Newest(V), goal)
    PROVE  Cursor(C, V, s, SeekToLast(C, d), goal)
<1> DEFINE n == MergeSeekToLast(C, d.iter)
           f == [d EXCEPT !.value = Null, !.iter = n]
<1>1. /\ n \in Mergers
      /\ \/ Current(n) = Null /\ V = {}
         \/ MergerBack(C, V, n) /\ \A x \in V : ~Before(Current(n), x)
    <2>1. d.iter \in Mergers
        BY DEF DBIters
    <2> QED  BY <2>1, MergeSeekToLastIs
<1>2. SeekToLast(C, d) = FindPrev(f)
    BY DEF SeekToLast
<1> HIDE DEF n
<1>3. f \in DBIters /\ f.iter = n /\ f.sequence = s
    BY <1>1 DEF DBIters
<1> HIDE DEF f
<1>4. CASE Current(n) = Null
    <2>1. goal = Null
        <3>1. MergerBack(C, V, n) => Current(n) # Null
            BY MergerEntry DEF MergerBack
        <3>2. Newest(V) = {}
            BY <1>1, <1>4, <3>1 DEF Newest
        <3> QED  BY <3>2 DEF IsLast
    <2> QED  BY <1>2, <1>3, <1>4, <2>1, FindPrevIs
<1>5. CASE Current(n) # Null
    <2>1. MergerBack(C, V, n) /\ \A x \in V : ~Before(Current(n), x)
        BY <1>1, <1>5
    <2>2. {x \in Newest(V) : ~Before(Current(n), x)} = Newest(V)
        BY <2>1, VisibleEntries
    <2> QED  BY <1>2, <1>3, <1>5, <2>1, <2>2, FindPrevIs
<1> QED  BY <1>4, <1>5

\* One turn of the loop by which Prev leaves the entries of its key.
LEMMA BackStepIs ==
    ASSUME NEW C, NEW V, NEW s, Family(C, V, s), NEW d \in DBIters, d.sequence = s,
           d.pc = "back", NEW goal, BackLoop(C, V, d, goal)
    PROVE  Cursor(C, V, s, BackStep(C, d), goal)
<1> DEFINE e == Current(d.iter)
           n == MergePrev(C, d.iter)
           c == Current(n)
           on == [d EXCEPT !.iter = n]
           S == {x \in Newest(V) : x.key < d.saved}
<1>0. /\ V \in SUBSET Entries /\ Newest(V) \subseteq V /\ s \in Nat
      /\ Ordered(C[1] \cup C[2]) /\ V \subseteq C[1] \cup C[2]
    BY DEF Family, Newest
<1>1. /\ MergerAt(C, d.iter) /\ (d.iter.forward \/ MergerBack(C, V, d.iter))
      /\ d.saved \in Nat /\ e.key >= d.saved /\ IsLast(S, goal)
    BY DEF BackLoop
<1>2. e \in Entries /\ e \in C[1] \cup C[2] /\ e.key \in Nat
    <2>1. e \in Entries /\ e \in C[1] \cup C[2]
        BY <1>1, MergerEntry
    <2> HIDE DEF e
    <2> QED  BY <2>1, KeyOrder
<1>3. /\ n \in Mergers
      /\ \/ c = Null /\ \A x \in V : ~Before(x, e)
         \/ /\ MergerBack(C, V, n) /\ Before(c, e)
            /\ \A x \in V : Before(x, e) => ~Before(c, x)
    <2>1. d.iter \in Mergers
        BY DEF DBIters
    <2> QED  BY <1>1, <2>1, MergePrevIs
<1>4. BackStep(C, d) = IF Current(on.iter) = Null THEN Ended(on)
                       ELSE IF Current(on.iter).key < d.saved THEN FindPrev(on) ELSE on
    BY DEF BackStep
<1>5. MergerBack(C, V, n) => c # Null /\ c \in Entries
    BY MergerEntry DEF MergerBack
<1> HIDE DEF n, e
<1>6. /\ on \in DBIters /\ on.sequence = s /\ on.iter = n /\ on.pc = "back"
      /\ on.saved = d.saved
    BY <1>3 DEF DBIters
<1>7. \A x \in V : x.key < d.saved => Before(x, e)
    <2> SUFFICES ASSUME NEW x \in V, x.key < d.saved PROVE Before(x, e)
        OBVIOUS
    <2>1. x \in Entries /\ x.key \in Nat
        BY <1>0, KeyOrder
    <2>2. x.key < e.key
        BY <1>1, <1>2, <2>1
    <2> QED  BY <1>2, <2>1, <2>2, KeyOrder
<1> HIDE DEF on
<1>8. CASE c = Null
    <2>1. S = {}
        BY <1>0, <1>3, <1>5, <1>7, <1>8
    <2>2. goal = Null
        BY <1>1, <2>1 DEF IsLast
    <2>3. Cursor(C, V, s, Ended(on), Null)
        BY <1>6, EndedIs
    <2> QED  BY <1>4, <1>6, <1>8, <2>2, <2>3
<1>9. CASE c # Null
    <2>1. /\ MergerBack(C, V, n) /\ c \in Entries /\ c.key \in Nat
          /\ \A x \in V : Before(x, e) => ~Before(c, x)
        BY <1>3, <1>5, <1>9, KeyOrder
    <2>2. CASE c.key < d.saved
        <3>1. \A x \in V : ~Before(c, x) <=> x.key < d.saved
            <4> SUFFICES ASSUME NEW x \in V PROVE ~Before(c, x) <=> x.key < d.saved
                OBVIOUS
            <4>1. x \in Entries /\ x.key \in Nat
                BY <1>0, KeyOrder
            <4>2. ~Before(c, x) => x.key <= c.key
                BY <2>1, <4>1, KeyOrder
            <4> QED  BY <1>1, <1>7, <2>1, <2>2, <4>1, <4>2
        <3>2. {x \in Newest(V) : ~Before(c, x)} = S
            BY <1>0, <3>1
        <3>3. Cursor(C, V, s, FindPrev(on), goal)
            BY <1>1, <1>6, <1>9, <2>1, <3>2, FindPrevIs
        <3> QED  BY <1>4, <1>6, <1>9, <2>2, <3>3
    <2>3. CASE ~(c.key < d.saved)
        <3>1. c.key >= d.saved /\ MergerAt(C, n)
            BY <1>1, <2>1, <2>3 DEF MergerBack
        <3>2. BackLoop(C, V, on, goal)
            BY <1>1, <1>6, <2>1, <3>1 DEF BackLoop
        <3>3. Cursor(C, V, s, on, goal)
            BY <1>6, <3>2 DEF Cursor, CursorInv
        <3> QED  BY <1>4, <1>6, <1>9, <2>3, <3>3
    <2> QED  BY <2>2, <2>3
<1> QED  BY <1>8, <1>9

LEMMA IterPrevIs ==
    ASSUME NEW C, NEW V, NEW s, Family(C, V, s), NEW d \in DBIters, d.sequence = s,
           d.valid, NEW g, Between(C, V, d, g),
           NEW goal, IsLast({x \in Newest(V) : x.key < g.key}, goal)
    PROVE  Cursor(C, V, s, IterPrev(C, d), goal)
<1>0. /\ V \in SUBSET Entries /\ Newest(V) \subseteq V /\ s \in Nat
      /\ Ordered(C[1] \cup C[2]) /\ V \subseteq C[1] \cup C[2]
    BY DEF Family, Newest
<1>1. g \in V /\ g \in Entries /\ g \in Newest(V) /\ g.key \in Nat
    BY <1>0, KeyOrder DEF Between
<1>2. CASE d.forward
    <2> DEFINE f == [d EXCEPT !.saved = Current(d.iter).key, !.pc = "back"]
    <2>1. MergerForward(C, V, d.iter) /\ Current(d.iter) = g
        BY <1>2 DEF Between
    <2>2. /\ f \in DBIters /\ f.sequence = s /\ f.iter = d.iter /\ f.saved = g.key
          /\ f.pc = "back"
        BY <1>1, <2>1 DEF DBIters
    <2>3. IterPrev(C, d) = f
        BY <1>2 DEF IterPrev
    <2> HIDE DEF f
    <2>4. BackLoop(C, V, f, goal)
        BY <1>1, <2>1, <2>2 DEF BackLoop, MergerForward
    <2> QED  BY <2>2, <2>3, <2>4 DEF Cursor, CursorInv
<1>3. CASE ~d.forward
    <2> DEFINE c == Current(d.iter)
    <2>1. /\ d.saved = g.key /\ (c = Null => \A x \in V : x.key >= g.key)
          /\ c # Null => /\ MergerBack(C, V, d.iter) /\ c.key < g.key
                         /\ \A x \in V : Before(c, x) => x.key >= g.key
        BY <1>3 DEF Between
    <2>2. IterPrev(C, d) = FindPrev(d)
        BY <1>3 DEF IterPrev
    <2>3. CASE c = Null
        <3>1. {x \in Newest(V) : x.key < g.key} = {}
            BY <1>0, <1>1, <2>1, <2>3, KeyOrder
        <3>2. goal = Null
            BY <3>1 DEF IsLast
        <3> QED  BY <2>2, <2>3, <3>2, FindPrevIs
    <2>4. CASE c # Null
        <3>1. c \in Entries /\ c.key \in Nat
            <4>1. c \in Entries
                BY <2>1, <2>4, MergerEntry DEF MergerBack
            <4> HIDE DEF c
            <4> QED  BY <4>1, KeyOrder
        <3>2. \A x \in V : ~Before(c, x) <=> x.key < g.key
            <4> HIDE DEF c
            <4> SUFFICES ASSUME NEW x \in V PROVE ~Before(c, x) <=> x.key < g.key
                OBVIOUS
            <4>1. x \in Entries /\ x.key \in Nat
                BY <1>0, KeyOrder
            <4>2. ~Before(c, x) => x.key <= c.key
                BY <3>1, <4>1, KeyOrder
            <4> QED  BY <1>1, <2>1, <2>4, <3>1, <4>1, <4>2
        <3>3. {x \in Newest(V) : ~Before(c, x)} = {x \in Newest(V) : x.key < g.key}
            BY <1>0, <3>2
        <3> QED  BY <2>1, <2>2, <2>4, <3>3, FindPrevIs
    <2> QED  BY <2>3, <2>4
<1> QED  BY <1>2, <1>3

\* An entry is the newest of its key when only other keys come before it.
LEMMA NewestFound ==
    ASSUME NEW V \in SUBSET Entries, Ordered(V), NEW v \in V, ~v.del,
           \A x \in V : Before(x, v) => x.key < v.key,
           NEW goal, IsLast({x \in Newest(V) : ~Before(v, x)}, goal)
    PROVE  goal = v /\ v \in Newest(V) /\ goal # Null
<1> DEFINE S == {x \in Newest(V) : ~Before(v, x)}
<1>1. v \in Entries /\ v.key \in Nat /\ v.seq \in Nat
    BY KeyOrder
<1>2. v \in Newest(V)
    <2> SUFFICES ASSUME NEW f \in V, f.key = v.key, ~(f.seq <= v.seq) PROVE FALSE
        BY DEF Newest
    <2>1. f \in Entries /\ f.seq \in Nat /\ f.seq > v.seq
        BY <1>1, KeyOrder
    <2>2. Before(f, v)
        BY <1>1, <2>1, KeyOrder
    <2> QED  BY <1>1, <2>2
<1>3. IsLargest(S, v)
    <2>1. ~Before(v, v)
        BY <1>1, BeforeOrder
    <2>2. \A x \in S \ {v} : Before(x, v)
        BY DEF Ordered, Newest
    <2> QED  BY <1>2, <2>1, <2>2 DEF IsLargest
<1>4. S \in SUBSET Entries
    BY DEF Newest
<1> HIDE DEF S
<1>5. goal = v
    BY <1>3, <1>4, LastUnique DEF S
<1> QED  BY <1>1, <1>2, <1>5, MemTableAssumption

\* One turn of the loop of FindPrevUserEntry.
LEMMA PrevStepIs ==
    ASSUME NEW C, NEW V, NEW s, Family(C, V, s), NEW d \in DBIters, d.sequence = s,
           d.pc = "prev", NEW goal, PrevLoop(C, V, d, goal)
    PROVE  Cursor(C, V, s, PrevStep(C, d), goal)
<1> DEFINE e == Current(d.iter)
           seen == e.seq <= s
           stop == seen /\ d.found /\ e.key < d.saved
           n == MergePrev(C, d.iter)
           c == Current(n)
           on == [d EXCEPT !.found = IF seen THEN ~e.del ELSE @,
                     !.saved = IF ~seen THEN @ ELSE IF e.del THEN Null ELSE e.key,
                     !.value = IF ~seen THEN @ ELSE IF e.del THEN Null ELSE e,
                     !.iter = n]
           UpTo(v) == {x \in Newest(V) : ~Before(v, x)}
<1>0. /\ V \in SUBSET Entries /\ Newest(V) \subseteq V /\ s \in Nat /\ Ordered(V)
      /\ Ordered(C[1] \cup C[2]) /\ V \subseteq C[1] \cup C[2]
      /\ \A x \in C[1] \cup C[2] : x \in V <=> x.seq <= s
    BY DEF Family, Newest, Ordered
<1>1. /\ MergerBack(C, V, d.iter) /\ MergerAt(C, d.iter) /\ ~d.forward
      /\ d.found => /\ d.value \in V /\ ~d.value.del /\ d.saved = d.value.key
                    /\ Before(e, d.value)
                    /\ \A x \in V : ~(Before(e, x) /\ Before(x, d.value))
                    /\ IsLast(UpTo(d.value), goal)
      /\ ~d.found => IsLast(UpTo(e), goal)
    BY DEF PrevLoop, MergerBack
<1>2. /\ e \in C[1] \cup C[2] /\ e \in Entries /\ (seen <=> e \in V)
      /\ e.key \in Nat /\ e.seq \in Nat /\ e.del \in BOOLEAN
    <2>1. e \in C[1] \cup C[2] /\ e \in Entries
        BY <1>1, MergerEntry
    <2> HIDE DEF e
    <2> QED  BY <1>0, <2>1, KeyOrder
<1>3. /\ n \in Mergers
      /\ \/ c = Null /\ \A x \in V : ~Before(x, e)
         \/ /\ MergerBack(C, V, n) /\ Before(c, e)
            /\ \A x \in V : Before(x, e) => ~Before(c, x)
    <2>1. d.iter \in Mergers
        BY DEF DBIters
    <2> QED  BY <1>1, <2>1, MergePrevIs
<1>4. MergerBack(C, V, n) => c # Null /\ c \in Entries /\ c \in C[1] \cup C[2]
    BY MergerEntry DEF MergerBack
<1>5. PrevStep(C, d) = IF stop THEN PrevEnd(d)
                       ELSE IF Current(on.iter) = Null THEN PrevEnd(on) ELSE on
    BY DEF PrevStep
<1>6. \A x \in V : x \in Entries /\ x.key \in Nat /\ x.seq \in Nat
    BY <1>0, KeyOrder
<1> HIDE DEF e, n, UpTo
\* A visible entry before the one found is at most the current one.
<1>7. ASSUME d.found, NEW x \in V, Before(x, d.value) PROVE x = e \/ Before(x, e)
    <2>1. ~Before(e, x)
        BY <1>1, <1>7
    <2> QED  BY <1>0, <1>2, <2>1 DEF Ordered
<1>8. CASE stop
    <2> DEFINE r == [d EXCEPT !.pc = "idle", !.valid = TRUE]
    <2>1. /\ r \in DBIters /\ r.sequence = s /\ r.pc = "idle" /\ r.valid = TRUE
          /\ r.iter = d.iter /\ r.forward = d.forward /\ r.saved = d.saved
          /\ r.value = d.value
        BY DEF DBIters
    <2>2. PrevStep(C, d) = r
        BY <1>5, <1>8 DEF PrevEnd
    <2> HIDE DEF r
    <2>3. d.value \in V /\ ~d.value.del /\ d.saved = d.value.key /\ IsLast(UpTo(d.value), goal)
        BY <1>1, <1>8
    <2>4. \A x \in V : Before(x, d.value) => x.key < d.value.key
        <3> SUFFICES ASSUME NEW x \in V, Before(x, d.value) PROVE x.key < d.value.key
            OBVIOUS
        <3>1. x.key <= e.key
            BY <1>2, <1>6, <1>7, <1>8, KeyOrder
        <3> QED  BY <1>2, <1>6, <1>8, <2>3, <3>1
    <2>5. goal = d.value /\ d.value \in Newest(V) /\ goal # Null
        BY <1>0, <2>3, <2>4, NewestFound DEF UpTo
    <2>6. \A x \in V : Before(e, x) => x.key >= d.saved
        <3> SUFFICES ASSUME NEW x \in V, Before(e, x) PROVE x.key >= d.saved
            OBVIOUS
        <3>1. ~Before(x, d.value)
            BY <1>1, <1>8
        <3>2. ~(x.key < d.value.key)
            BY <1>6, <2>3, <3>1, KeyOrder
        <3> QED  BY <1>6, <2>3, <3>2
    <2>7. Between(C, V, r, goal)
        <3>1. Current(r.iter) = e
            BY <2>1 DEF e
        <3>2. e # Null
            BY <1>2, MemTableAssumption
        <3> QED  BY <1>1, <1>8, <2>1, <2>3, <2>5, <2>6, <3>1, <3>2 DEF Between
    <2> QED  BY <2>1, <2>2, <2>7 DEF Cursor, CursorInv
<1>9. CASE ~stop
    <2>0. /\ d.saved \in Nat \cup {Null} /\ d.found \in BOOLEAN
          /\ d.value \in Entries \cup {Null}
        BY DEF DBIters
    <2>1. /\ on \in DBIters /\ on.sequence = s /\ on.iter = n /\ on.forward = d.forward
          /\ on.pc = d.pc /\ on.found = (IF seen THEN ~e.del ELSE d.found)
          /\ on.saved = (IF ~seen THEN d.saved ELSE IF e.del THEN Null ELSE e.key)
          /\ on.value = (IF ~seen THEN d.value ELSE IF e.del THEN Null ELSE e)
        BY <1>2, <1>3, <2>0 DEF DBIters
    <2>2. PrevStep(C, d) = IF c = Null THEN PrevEnd(on) ELSE on
        BY <1>5, <1>9, <2>1
    <2> HIDE DEF on
    \* A newer entry of the key found takes its place.
    <2>3. seen => IsLast(UpTo(e), goal)
        <3> SUFFICES ASSUME seen PROVE IsLast(UpTo(e), goal)
            OBVIOUS
        <3>1. CASE ~d.found
            BY <1>1, <3>1
        <3>2. CASE d.found
            <4> DEFINE v == d.value
            <4>1. /\ v \in V /\ v \in Entries /\ v.key \in Nat /\ v.seq \in Nat
                  /\ Before(e, v) /\ d.saved = v.key /\ IsLast(UpTo(v), goal) /\ e \in V
                BY <1>1, <1>2, <1>6, <3>2
            <4> HIDE DEF v
            <4>2. e.key = v.key
                <5>1. e.key <= v.key
                    BY <1>2, <4>1, KeyOrder
                <5>2. ~(e.key < v.key)
                    BY <1>9, <3>2, <4>1
                <5> QED  BY <1>2, <4>1, <5>1, <5>2
            <4>3. v \notin Newest(V)
                <5>1. e.seq > v.seq
                    BY <1>2, <4>1, <4>2, KeyOrder
                <5> QED  BY <1>2, <4>1, <4>2, <5>1 DEF Newest
            <4>4. ASSUME NEW x \in Newest(V) PROVE ~Before(v, x) <=> ~Before(e, x)
                <5>1. x \in V /\ x # v /\ x \in Entries
                    BY <1>0, <1>6, <4>3
                <5>2. ~(Before(e, x) /\ Before(x, v))
                    BY <1>1, <3>2, <5>1 DEF v
                <5>3. Before(x, v) \/ Before(v, x)
                    BY <1>0, <4>1, <5>1 DEF Ordered
                <5> QED  BY <1>2, <4>1, <5>1, <5>2, <5>3, BeforeOrder
            <4>5. UpTo(v) = UpTo(e)
                BY <4>4 DEF UpTo
            <4> QED  BY <4>1, <4>5
        <3> QED  BY <2>0, <3>1, <3>2
    \* What is found, and what is before it.
    <2>4. on.found =>
             /\ on.value \in V /\ ~on.value.del /\ on.saved = on.value.key
             /\ IsLast(UpTo(on.value), goal)
             /\ on.value = e \/ Before(e, on.value)
             /\ \A x \in V : Before(x, on.value) => Before(x, e)
        <3> SUFFICES ASSUME on.found
                     PROVE  /\ on.value \in V /\ ~on.value.del /\ on.saved = on.value.key
                            /\ IsLast(UpTo(on.value), goal)
                            /\ on.value = e \/ Before(e, on.value)
                            /\ \A x \in V : Before(x, on.value) => Before(x, e)
            OBVIOUS
        <3>1. CASE seen
            <4>1. on.value = e /\ ~e.del /\ on.saved = e.key
                BY <2>1, <3>1
            <4> QED  BY <1>2, <2>3, <3>1, <4>1
        <3>2. CASE ~seen
            <4>1. on.value = d.value /\ d.found /\ on.saved = d.saved /\ e \notin V
                BY <1>2, <2>1, <3>2
            <4>2. \A x \in V : Before(x, d.value) => Before(x, e)
                BY <1>7, <4>1
            <4> QED  BY <1>1, <4>1, <4>2
        <3> QED  BY <3>1, <3>2
    <2>5. ~on.found => IsLast(UpTo(e), goal) /\ e \notin Newest(V)
        <3>1. CASE seen
            BY <2>1, <2>3, <3>1 DEF Newest
        <3>2. CASE ~seen
            BY <1>0, <1>1, <1>2, <2>1, <3>2
        <3> QED  BY <3>1, <3>2
    <2>6. \A x \in UpTo(e) : e \in Newest(V) \/ Before(x, e)
        BY <1>0, <1>2 DEF UpTo, Ordered
    <2>7. CASE c = Null
        <3>1. \A x \in V : ~Before(x, e)
            BY <1>3, <1>4, <2>7
        <3>2. CASE ~on.found
            <4>1. UpTo(e) = {}
                BY <1>0, <2>5, <2>6, <3>1, <3>2 DEF UpTo
            <4>2. goal = Null
                BY <2>5, <3>2, <4>1 DEF IsLast
            <4>3. PrevEnd(on) = [Ended(on) EXCEPT !.forward = TRUE]
                BY <3>2 DEF PrevEnd
            <4>4. Cursor(C, V, s, [Ended(on) EXCEPT !.forward = TRUE], Null)
                BY <2>1, EndedIs
            <4> QED  BY <2>2, <2>7, <4>2, <4>3, <4>4
        <3>3. CASE on.found
            <4> DEFINE r == [on EXCEPT !.pc = "idle", !.valid = TRUE]
            <4>1. /\ r \in DBIters /\ r.sequence = s /\ r.pc = "idle" /\ r.valid = TRUE
                  /\ r.iter = n /\ r.forward = d.forward /\ r.saved = on.saved
                  /\ r.value = on.value
                BY <2>1 DEF DBIters
            <4>2. PrevStep(C, d) = r
                BY <2>2, <2>7, <3>3 DEF PrevEnd
            <4> HIDE DEF r
            <4>3. \A x \in V : ~Before(x, on.value)
                BY <2>4, <3>1, <3>3
            <4>4. goal = on.value /\ on.value \in Newest(V) /\ goal # Null
                BY <1>0, <2>4, <3>3, <4>3, NewestFound DEF UpTo
            <4>5. \A x \in V : x.key >= on.saved
                <5> SUFFICES ASSUME NEW x \in V PROVE x.key >= on.value.key
                    BY <2>4, <3>3
                <5>1. ~(x.key < on.value.key)
                    BY <1>6, <2>4, <3>3, <4>3, KeyOrder
                <5> QED  BY <1>6, <2>4, <3>3, <5>1
            <4>6. Between(C, V, r, goal)
                BY <1>1, <2>4, <2>7, <3>3, <4>1, <4>4, <4>5 DEF Between
            <4> QED  BY <4>1, <4>2, <4>6 DEF Cursor, CursorInv
        <3> QED  BY <2>1, <3>2, <3>3 DEF DBIters
    <2>8. CASE c # Null
        <3>1. /\ MergerBack(C, V, n) /\ Before(c, e) /\ c \in Entries
              /\ \A x \in V : Before(x, e) => ~Before(c, x)
            BY <1>3, <1>4, <2>8
        <3> HIDE DEF c
        <3>2. ASSUME on.found
              PROVE  /\ Before(c, on.value)
                     /\ \A x \in V : ~(Before(c, x) /\ Before(x, on.value))
            <4>1. on.value \in Entries
                BY <1>6, <2>4, <3>2
            <4> QED  BY <1>2, <2>4, <3>1, <3>2, <4>1, BeforeOrder
        <3>3. ASSUME ~on.found PROVE IsLast(UpTo(c), goal)
            <4>1. ASSUME NEW x \in Newest(V) PROVE ~Before(e, x) <=> ~Before(c, x)
                <5>1. x \in V /\ x \in Entries /\ x # e
                    BY <1>0, <1>6, <2>5, <3>3
                <5>2. Before(e, x) => Before(c, x)
                    BY <1>2, <3>1, <5>1, BeforeOrder
                <5>3. ~Before(e, x) => Before(x, e)
                    BY <1>0, <1>2, <5>1 DEF Ordered
                <5> QED  BY <3>1, <5>1, <5>2, <5>3
            <4>2. UpTo(c) = UpTo(e)
                BY <4>1 DEF UpTo
            <4> QED  BY <2>5, <3>3, <4>2
        <3>4. PrevLoop(C, V, on, goal)
            <4>1. Current(on.iter) = c
                BY <2>1 DEF c
            <4> QED  BY <1>1, <2>1, <2>4, <3>1, <3>2, <3>3, <4>1 DEF PrevLoop, UpTo
        <3> QED  BY <2>1, <2>2, <2>8, <3>4 DEF Cursor, CursorInv
    <2> QED  BY <2>7, <2>8
<1> QED  BY <1>8, <1>9

\* A turn of any of the loops.
LEMMA IterStepIs ==
    ASSUME NEW C, NEW V, NEW s, Family(C, V, s), NEW d, NEW goal,
           Cursor(C, V, s, d, goal), d.pc # "idle"
    PROVE  Cursor(C, V, s, IterStep(C, d), goal)
<1>1. d \in DBIters /\ d.sequence = s /\ d.pc \in {"next", "back", "prev"}
    BY DEF Cursor, DBIters
<1>2. CASE d.pc = "next"
    BY <1>1, <1>2, NextStepIs DEF Cursor, CursorInv, IterStep
<1>3. CASE d.pc = "back"
    BY <1>1, <1>3, BackStepIs DEF Cursor, CursorInv, IterStep
<1>4. CASE d.pc = "prev"
    BY <1>1, <1>4, PrevStepIs DEF Cursor, CursorInv, IterStep
<1> QED  BY <1>1, <1>2, <1>3, <1>4

-------------------------------------------------------------------------------
\* The iterator in the system

\* What is true of the iterator stays true while its children grow.
LEMMA CursorGoesOn ==
    ASSUME NEW C, NEW D, NEW V, NEW d, NEW goal, CursorInv(C, V, d, goal),
           \A i \in {1, 2} : C[i] \subseteq D[i] /\ D[i] \cap V = C[i] \cap V
    PROVE  CursorInv(D, V, d, goal)
<1>1. \A m : MergerAt(C, m) => MergerAt(D, m)
    BY DEF MergerAt
<1>2. ASSUME NEW m, MergerForward(C, V, m) PROVE MergerForward(D, V, m)
    BY <1>1, <1>2 DEF MergerForward
<1>3. ASSUME NEW m, MergerBack(C, V, m) PROVE MergerBack(D, V, m)
    BY <1>1, <1>3 DEF MergerBack
<1>4. d.pc = "idle" => Between(D, V, d, goal)
    BY <1>2, <1>3 DEF CursorInv, Between
<1>5. d.pc = "next" => NextLoop(D, V, d, goal)
    BY <1>2 DEF CursorInv, NextLoop
<1>6. d.pc = "back" => BackLoop(D, V, d, goal)
    BY <1>1, <1>3 DEF CursorInv, BackLoop
<1>7. d.pc = "prev" => PrevLoop(D, V, d, goal)
    BY <1>3 DEF CursorInv, PrevLoop
<1> QED  BY <1>4, <1>5, <1>6, <1>7 DEF CursorInv

LEMMA TableEntries ==
    ASSUME TableInv
    PROVE  table \subseteq Entries /\ IsFiniteSet(table) /\ Distinct(table)
<1>1. [key : Keys, seq : Nat, del : BOOLEAN] \subseteq Entries
    BY MemTableAssumption DEF Entries
<1>2. table \in SUBSET [key : Keys, seq : Nat, del : BOOLEAN]
    BY MemTableAssumption DEF TableInv
<1>3. IsFiniteSet(table) /\ Distinct(table)
    BY MemTableAssumption DEF TableInv, Distinct
<1> QED  BY <1>1, <1>2, <1>3

\* The memtable and the table are a family: no two entries have the same number.
LEMMA ChildrenFamily ==
    ASSUME NodesInv, TableInv, NEW s \in Nat
    PROVE  Family(Children, Visible(s), s)
<1>1. /\ Linked \subseteq DOMAIN next \ {head} /\ Linked \subseteq Entries
      /\ IsFiniteSet(Linked) /\ Distinct(Linked)
    BY DomainIsEntries, FS_Subset DEF Linked, NodesInv, Distinct
<1>2. /\ table \subseteq Entries /\ IsFiniteSet(table) /\ Distinct(table)
    BY TableEntries
<1>3. \A a \in table, b \in Linked : a.seq < b.seq
    BY <1>1 DEF TableInv
<1>4. \A a, b \in Linked \cup table : a.seq = b.seq => a = b
    BY <1>1, <1>2, <1>3, KeyOrder DEF Distinct
<1>5. Ordered(Linked \cup table)
    BY <1>1, <1>2, <1>4 DEF Ordered, Before, Entries
<1>6. Linked \cap table = {}
    BY <1>1, <1>3, KeyOrder
<1>7. DOMAIN Children = {1, 2} /\ Children[1] = Linked /\ Children[2] = table
    BY DEF Children
<1> QED  BY <1>1, <1>2, <1>5, <1>6, <1>7 DEF Family, Visible

\* What a call is told to go to.
LEMMA ShownBounds ==
    ASSUME NEW C, NEW V, NEW s, Family(C, V, s), NEW A, A \subseteq Newest(V)
    PROVE  IsFirst(A, FirstOf(A)) /\ IsLast(A, LastOf(A))
<1>1. A \in SUBSET Entries /\ Ordered(A) /\ A \subseteq C[1] \cup C[2]
    BY DEF Family, Newest, Ordered
<1>2. IsFiniteSet(A)
    <2>1. IsFiniteSet(C[1] \cup C[2])
        BY FS_Union DEF Family
    <2> QED  BY <1>1, <2>1, FS_Subset
<1> QED  BY <1>1, <1>2, FirstOfIs, LastOfIs

\* The table when the database is opened.
LEMMA InitTable ==
    ASSUME Init
    PROVE  TableInv /\ IteratorInv
<1>1. table \in Tables /\ DOMAIN next = {head} /\ it = Null
    BY DEF Init
<1> QED  BY <1>1, InitSequence DEF TableInv, IteratorInv

\* The writer under the iterator.
LEMMA IteratorGoesOn ==
    ASSUME ListInv, TableInv, IteratorInv, Grows, WriterLeaves
    PROVE  TableInv' /\ IteratorInv'
<1>1. /\ table' = table /\ it' = it /\ want' = want
      /\ \A n \in DOMAIN next' \ DOMAIN next : n.seq > last_sequence
    BY DEF WriterLeaves
<1>2. /\ last_sequence \in Nat /\ last_sequence' \in Nat /\ last_sequence <= last_sequence'
      /\ Linked \subseteq Linked' /\ NodesInv'
      /\ \A e \in Linked' \ Linked : e.seq > last_sequence /\ e.seq \in Nat
    BY DEF Grows
<1>3. table \subseteq Entries
    BY TableEntries
<1>4. \A n \in DOMAIN next' \ {head} : n.seq \in Nat
    BY <1>2 DEF NodesInv
<1>5. TableInv'
    <2>1. \A e \in table : e.seq \in Nat /\ e.seq <= last_sequence
        BY <1>3, KeyOrder DEF TableInv
    <2>2. \A e \in table : e.seq <= last_sequence'
        BY <1>2, <2>1
    <2>3. ASSUME NEW e \in table, NEW n \in DOMAIN next' \ {head} PROVE e.seq < n.seq
        <3>1. CASE n \in DOMAIN next
            BY <3>1 DEF TableInv
        <3>2. CASE n \notin DOMAIN next
            BY <1>1, <1>2, <1>4, <2>1, <3>2
        <3> QED  BY <3>1, <3>2
    <2> QED  BY <1>1, <2>2, <2>3 DEF TableInv
<1>6. ASSUME it # Null
      PROVE  /\ it \in DBIters /\ it.sequence <= last_sequence'
             /\ CursorInv(Children', Visible(it.sequence)', it, want)
    <2> DEFINE s == it.sequence
    <2>1. /\ it \in DBIters /\ s <= last_sequence /\ s \in Nat
          /\ CursorInv(Children, Visible(s), it, want)
        BY <1>6 DEF IteratorInv, DBIters
    <2>2. \A e \in Linked' \ Linked : ~(e.seq <= s)
        BY <1>2, <2>1
    <2>3. Visible(s)' = Visible(s)
        BY <1>1, <1>2, <2>2 DEF Visible
    <2>4. /\ Children[1] = Linked /\ Children[2] = table
          /\ Children'[1] = Linked' /\ Children'[2] = table
        BY <1>1 DEF Children
    <2>5. Linked' \cap Visible(s) = Linked \cap Visible(s)
        BY <1>2, <2>2 DEF Visible
    <2>6. CursorInv(Children', Visible(s), it, want)
        BY <1>2, <2>1, <2>4, <2>5, CursorGoesOn
    <2> QED  BY <1>2, <2>1, <2>3, <2>6
<1> QED  BY <1>1, <1>5, <1>6 DEF IteratorInv

\* A call, or a turn of its loop, leaves the iterator where it should be.
LEMMA CallIs ==
    ASSUME ListInv, TableInv, IteratorInv, it # Null
    PROVE  LET C == Children
               V == Visible(it.sequence)
               s == it.sequence
           IN  /\ Family(C, V, s) /\ Shown(it) = Newest(V)
               /\ Cursor(C, V, s, it, want) /\ s <= last_sequence
<1> DEFINE s == it.sequence
<1>1. it \in DBIters /\ s \in Nat /\ s <= last_sequence
    BY DEF IteratorInv, DBIters
<1>2. Family(Children, Visible(s), s)
    BY <1>1, ChildrenFamily DEF ListInv
<1>3. Shown(it) = Newest(Visible(s))
    BY DEF Shown, Newest, Visible
<1> QED  BY <1>1, <1>2, <1>3 DEF Cursor, IteratorInv

\* Between two calls of it, the iterator stays where the step has left it.
LEMMA StepKeeps ==
    ASSUME ListInv, TableInv, IteratorInv, it # Null, UNCHANGED <<listVars, table>>,
           Cursor(Children, Visible(it.sequence), it.sequence, it', want')
    PROVE  TableInv' /\ IteratorInv'
<1>1. Linked' = Linked
    BY DEF Linked, listVars
<1>2. Children' = Children
    BY <1>1 DEF Children
<1>3. /\ it' \in DBIters /\ it'.sequence = it.sequence
      /\ CursorInv(Children, Visible(it.sequence), it', want')
    BY DEF Cursor
<1>4. Visible(it.sequence)' = Visible(it.sequence)
    BY <1>1, <1>3 DEF Visible
<1>5. it.sequence <= last_sequence'
    BY DEF IteratorInv, listVars
<1>6. TableInv'
    BY DEF TableInv, listVars
<1>7. IteratorInv'
    BY <1>2, <1>3, <1>4, <1>5 DEF IteratorInv
<1> QED  BY <1>6, <1>7

\* A new iterator is nowhere.
LEMMA NewIteratorIs ==
    ASSUME ListInv, TableInv, NewIterator
    PROVE  TableInv' /\ IteratorInv'
<1>1. last_sequence \in Nat
    BY DEF ListInv, WriterInv
<1>2. /\ it' = NewDBIter(2, last_sequence) /\ want' = Null
      /\ UNCHANGED <<next, last_sequence, table>>
    BY DEF NewIterator, listing, fixed
<1>3. NewMerger(2) \in Mergers
    <2>1. 1 .. 2 = {1, 2}
        OBVIOUS
    <2> QED  BY <2>1 DEF NewMerger, Mergers
<1>4. it' \in DBIters /\ it'.pc = "idle" /\ it'.valid = FALSE /\ it'.sequence = last_sequence
    BY <1>1, <1>2, <1>3 DEF NewDBIter, DBIters
<1>5. \A C, V : CursorInv(C, V, it', want')
    BY <1>2, <1>4 DEF CursorInv, Between
<1>6. TableInv'
    BY <1>2 DEF TableInv
<1>7. IteratorInv'
    BY <1>1, <1>2, <1>4, <1>5 DEF IteratorInv
<1> QED  BY <1>6, <1>7

\* The calls of the iterator.
LEMMA IteratorCalls ==
    ASSUME ListInv, TableInv, IteratorInv,
           \/ \E k \in Keys : CallSeek(k)
           \/ NewIterator \/ CallSeekToFirst \/ CallSeekToLast
           \/ CallNext \/ CallPrev \/ IteratorStep \/ DeleteIterator
    PROVE  TableInv' /\ IteratorInv'
<1> DEFINE C == Children
           s == it.sequence
           V == Visible(s)
<1>1. ASSUME it # Null
      PROVE  /\ Family(C, V, s) /\ Shown(it) = Newest(V) /\ it \in DBIters
             /\ Cursor(C, V, s, it, want)
             /\ it.pc = "idle" => Between(C, V, it, want)
    BY <1>1, CallIs DEF Cursor, CursorInv
<1>2. ASSUME NEW d, NEW e, Position(d, e)
      PROVE  /\ it # Null /\ it.pc = "idle" /\ it' = d /\ want' = e
             /\ UNCHANGED <<listVars, table>>
    BY <1>2 DEF Position, listVars, listing, fixed
<1> HIDE DEF C, s, V
<1>3. ASSUME CallSeekToFirst PROVE TableInv' /\ IteratorInv'
    <2>1. Position(SeekToFirst(Children, it), FirstOf(Shown(it)))
        BY <1>3 DEF CallSeekToFirst
    <2>2. IsFirst(Newest(V), FirstOf(Newest(V)))
        BY <1>1, <1>2, <2>1, ShownBounds
    <2>3. Cursor(C, V, s, SeekToFirst(C, it), FirstOf(Newest(V)))
        BY <1>1, <1>2, <2>1, <2>2, SeekToFirstIs DEF s
    <2> QED  BY <1>1, <1>2, <2>1, <2>3, StepKeeps DEF C, s, V
<1>4. ASSUME CallSeekToLast PROVE TableInv' /\ IteratorInv'
    <2>1. Position(SeekToLast(Children, it), LastOf(Shown(it)))
        BY <1>4 DEF CallSeekToLast
    <2>2. IsLast(Newest(V), LastOf(Newest(V)))
        BY <1>1, <1>2, <2>1, ShownBounds
    <2>3. Cursor(C, V, s, SeekToLast(C, it), LastOf(Newest(V)))
        BY <1>1, <1>2, <2>1, <2>2, SeekToLastIs DEF s
    <2> QED  BY <1>1, <1>2, <2>1, <2>3, StepKeeps DEF C, s, V
<1>5. ASSUME NEW k \in Keys, CallSeek(k) PROVE TableInv' /\ IteratorInv'
    <2> DEFINE A == {e \in Newest(V) : e.key >= k}
    <2>0. k \in Nat
        BY MemTableAssumption
    <2>1. Position(Seek(Children, it, k), FirstOf({e \in Shown(it) : e.key >= k}))
        BY <1>5 DEF CallSeek
    <2>2. IsFirst(A, FirstOf(A))
        BY <1>1, <1>2, <2>1, ShownBounds
    <2>3. Cursor(C, V, s, Seek(C, it, k), FirstOf(A))
        BY <1>1, <1>2, <2>0, <2>1, <2>2, SeekIs DEF s
    <2> QED  BY <1>1, <1>2, <2>1, <2>3, StepKeeps DEF C, s, V
<1>6. ASSUME CallNext PROVE TableInv' /\ IteratorInv'
    <2> DEFINE A == {e \in Newest(V) : e.key > want.key}
    <2>1. /\ Position(IterNext(Children, it), FirstOf({e \in Shown(it) : e.key > want.key}))
          /\ it.valid
        BY <1>6 DEF CallNext
    <2>2. IsFirst(A, FirstOf(A))
        BY <1>1, <1>2, <2>1, ShownBounds
    <2>3. Cursor(C, V, s, IterNext(C, it), FirstOf(A))
        BY <1>1, <1>2, <2>1, <2>2, IterNextIs DEF s
    <2> QED  BY <1>1, <1>2, <2>1, <2>3, StepKeeps DEF C, s, V
<1>7. ASSUME CallPrev PROVE TableInv' /\ IteratorInv'
    <2> DEFINE A == {e \in Newest(V) : e.key < want.key}
    <2>1. /\ Position(IterPrev(Children, it), LastOf({e \in Shown(it) : e.key < want.key}))
          /\ it.valid
        BY <1>7 DEF CallPrev
    <2>2. IsLast(A, LastOf(A))
        BY <1>1, <1>2, <2>1, ShownBounds
    <2>3. Cursor(C, V, s, IterPrev(C, it), LastOf(A))
        BY <1>1, <1>2, <2>1, <2>2, IterPrevIs DEF s
    <2> QED  BY <1>1, <1>2, <2>1, <2>3, StepKeeps DEF C, s, V
<1>8. ASSUME IteratorStep PROVE TableInv' /\ IteratorInv'
    <2>1. /\ it # Null /\ it.pc # "idle" /\ it' = IterStep(Children, it) /\ want' = want
          /\ UNCHANGED <<listVars, table>>
        BY <1>8 DEF IteratorStep, listVars, listing, fixed
    <2>2. Cursor(C, V, s, IterStep(C, it), want)
        BY <1>1, <2>1, IterStepIs
    <2> QED  BY <2>1, <2>2, StepKeeps DEF C, s, V
<1>9. ASSUME DeleteIterator PROVE TableInv' /\ IteratorInv'
    <2>1. it' = Null /\ UNCHANGED <<next, last_sequence, table>>
        BY <1>9 DEF DeleteIterator, listing, fixed
    <2> QED  BY <2>1 DEF TableInv, IteratorInv
<1> QED  BY <1>3, <1>4, <1>5, <1>6, <1>7, <1>8, <1>9, NewIteratorIs

LEMMA IteratorNext ==
    ASSUME ListInv, TableInv, IteratorInv, [Next]_vars
    PROVE  TableInv' /\ IteratorInv'
<1>1. ASSUME \/ \E k \in Keys : Get(k)
             \/ Prev \/ FindLast \/ SearchStep \/ EndSearch
             \/ UNCHANGED vars
      PROVE  TableInv' /\ IteratorInv'
    <2>1. UNCHANGED <<listVars, table, it, want>>
        BY <1>1 DEF Get, Prev, FindLast, Search, SearchStep, EndSearch, listVars, listing,
                    fixed, vars, reader
    <2>2. CASE it = Null
        BY <2>1, <2>2 DEF TableInv, IteratorInv, listVars
    <2>3. CASE it # Null
        BY <2>1, <2>3, CallIs, StepKeeps
    <2> QED  BY <2>2, <2>3
<1> QED  BY <1>1, WriterGrows, IteratorGoesOn, IteratorCalls DEF Next

\* Between two calls the iterator is where a cursor over the updates at its
\* sequence number would be, however Next, Prev and Seek follow each other and
\* whatever has been inserted since, in the middle of a call too (db_iter.cc,
\* merger.cc).
THEOREM IteratorCorrect == Spec => []IteratorIsCursor
<1> DEFINE Inv == ListInv /\ SearchInv /\ TableInv /\ IteratorInv
<1>1. Init => Inv
    BY InitListInv, InitTable
<1>2. Inv /\ [Next]_vars => Inv'
    BY NextSteps, IteratorNext
<1>3. Inv => IteratorIsCursor
    BY DEF IteratorInv, CursorInv, Between, IteratorIsCursor, AtEntry
<1> QED  BY <1>1, <1>2, <1>3, PTL DEF Spec
===============================================================================
