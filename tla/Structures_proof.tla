-------------------------- MODULE Structures_proof --------------------------
(* The two data structures of the packet path: the trie of allowed IPs and the *)
(* anti-replay window.  For every address width the trie is sound between      *)
(* calls, holds and returns what the reference table does, and its iterator    *)
(* yields every entry once; for every word size, ring length and counter width *)
(* the window is exact and implements ReplayWindow.                            *)
EXTENDS AntiReplay, IpLookupTrie,
        FiniteSetTheorems, SequenceTheorems, WellFoundedInduction, TLAPS

-----------------------------------------------------------------------------
(* The trie of prefixes.                                                       *)

\* A set of natural numbers has a least one.
LEMMA Least ==
  ASSUME NEW T, T \subseteq Nat, T # {}
  PROVE  \E n \in T : \A m \in T : n <= m
<1> DEFINE R == {ss \in Nat \X Nat : ss[1] < ss[2]}
<1>1. IsWellFoundedOn(R, Nat)
  BY Zenon, NatLessThanWellFounded DEF OpToRel
<1>2. PICK n \in T : \A m \in T : ~(<<m, n>> \in R)
  <2> HIDE DEF R
  <2>1. QED
    BY Zenon, <1>1, WFMin
<1>3. ASSUME NEW m \in T PROVE n <= m
  <2>1. n \in Nat /\ m \in Nat /\ <<m, n>> \in Nat \X Nat
    OBVIOUS
  <2>2. ~(m < n)
    BY <1>2, <2>1
  <2>3. QED
    BY <2>1, <2>2
<1>4. QED
  BY <1>3

Prefixes == {n \in Names : n.k = Under(n.k, n.len)}

\* p is q or a prefix above it; it is above it.  For q also the arguments of a call.
Covers(p, q) == p.len <= q.len /\ Agree(p.k, q.k, p.len)
Above(p, q) == p.len < q.len /\ Agree(p.k, q.k, p.len)

\* Something with a key and a length.
Keyed(q) == q.k \in Addresses /\ q.len \in Lengths

\* A prefix is a key with its length, and zero after it.
LEMMA PrefixIsKeyed ==
  ASSUME NEW p \in Prefixes
  PROVE  Keyed(p) /\ p = [k |-> p.k, len |-> p.len] /\ p # Nil
         /\ \A i \in 1..Bits : i > p.len => p.k[i] = 0
BY IpLookupTrieAssumption DEF Prefixes, Names, Keyed, Under, Addresses, Lengths, Bit

\* Prefixes of one length that agree in it are the same.
LEMMA SamePrefix ==
  ASSUME NEW p \in Prefixes, NEW q \in Prefixes, p.len = q.len, Agree(p.k, q.k, p.len)
  PROVE  p = q
<1>1. \A i \in 1..Bits : p.k[i] = q.k[i]
  BY PrefixIsKeyed, IpLookupTrieAssumption DEF Agree, Keyed, Lengths
<1>2. p.k \in [1..Bits -> Bit] /\ q.k \in [1..Bits -> Bit]
  BY PrefixIsKeyed DEF Keyed, Addresses
<1>3. p.k = q.k
  <2> DEFINE S == 1..Bits
  <2>1. p.k \in [S -> Bit] /\ q.k \in [S -> Bit] /\ \A i \in S : p.k[i] = q.k[i]
    BY <1>1, <1>2
  <2> HIDE DEF S
  <2>2. QED
    BY <2>1
<1>4. QED
  BY <1>3, PrefixIsKeyed

\* Covering is transitive, and what is further down is on the same side.
LEMMA CoversTrans ==
  ASSUME NEW p, NEW q, NEW s, Keyed(p), Keyed(q), Keyed(s), Covers(p, q), Covers(q, s)
  PROVE  /\ Covers(p, s)
         /\ p.len < q.len => Above(p, s) /\ Above(p, q) /\ Side(p, q.k) = Side(p, s.k)
<1>1. p.len \in Nat /\ q.len \in Nat /\ s.len \in Nat
  BY IpLookupTrieAssumption DEF Keyed, Lengths
<1>2. \A i \in 1..p.len : p.k[i] = q.k[i]
  BY DEF Covers, Agree
<1>3. \A i \in 1..q.len : q.k[i] = s.k[i]
  BY DEF Covers, Agree
<1>4. p.len <= q.len /\ q.len <= s.len
  BY DEF Covers
<1>5. \A i \in 1..p.len : p.k[i] = s.k[i]
  BY <1>1, <1>2, <1>3, <1>4
<1>6. p.len < q.len => q.k[p.len + 1] = s.k[p.len + 1]
  BY <1>1, <1>3
<1>7. QED
  BY <1>1, <1>2, <1>4, <1>5, <1>6 DEF Covers, Above, Agree, Side

\* Of two prefixes that cover a third the shorter covers the longer.
LEMMA CoversComparable ==
  ASSUME NEW p, NEW q, NEW s, Keyed(p), Keyed(q), Keyed(s), Covers(p, s), Covers(q, s),
         p.len <= q.len
  PROVE  Covers(p, q)
BY IpLookupTrieAssumption DEF Covers, Keyed, Lengths, Addresses, Agree

\* A key that is above another covers it and has it on one of its sides.
LEMMA AboveCovers ==
  ASSUME NEW p, NEW q, Keyed(p), Keyed(q), Above(p, q)
  PROVE  Covers(p, q) /\ p.len < q.len /\ Side(p, q.k) \in Bit
BY IpLookupTrieAssumption DEF Covers, Above, Keyed, Lengths, Addresses, Side

\* The length of the common prefix.
LEMMA CommonPrefix ==
  ASSUME NEW p, NEW q, Keyed(p), Keyed(q)
  PROVE  LET n == CommonPrefixLen(p.k, p.len, q.k, q.len)
         IN /\ n \in Lengths /\ n <= p.len /\ n <= q.len
            /\ Agree(p.k, q.k, n)
            /\ n = p.len \/ n = q.len \/ p.k[n + 1] # q.k[n + 1]
<1> DEFINE smaller == IF p.len < q.len THEN p.len ELSE q.len
           Is(n) == Agree(p.k, q.k, n) /\ (n = smaller \/ p.k[n + 1] # q.k[n + 1])
<1>1. smaller \in Nat /\ smaller <= p.len /\ smaller <= q.len /\ smaller \in {p.len, q.len}
  BY IpLookupTrieAssumption DEF Keyed, Lengths
<1>2. p.len \in 0..Bits /\ q.len \in 0..Bits /\ Bits \in Nat
  BY IpLookupTrieAssumption DEF Keyed, Lengths
<1> HIDE DEF smaller
<1>3. \E n \in 0..smaller : Is(n)
  <2> DEFINE S == {i \in 1..smaller : p.k[i] # q.k[i]}
  <2>1. CASE S = {}
    <3>1. Is(smaller)
      BY <2>1 DEF Agree
    <3>2. QED
      BY <3>1, <1>1
  <2>2. CASE S # {}
    <3>1. PICK i \in S : \A j \in S : i <= j
      <4>1. S \subseteq Nat
        BY <1>1
      <4> HIDE DEF S
      <4>2. QED
        BY <2>2, <4>1, Least
    <3>2. i - 1 \in 0..smaller /\ i \in Nat /\ i - 1 + 1 = i
      BY <1>1, <3>1
    <3>3. Agree(p.k, q.k, i - 1)
      BY <1>1, <3>1, <3>2 DEF Agree
    <3>4. p.k[i] # q.k[i]
      BY <3>1
    <3>5. Is(i - 1)
      BY <3>2, <3>3, <3>4
    <3>6. QED
      BY <3>2, <3>5
  <2>3. QED
    BY <2>1, <2>2
<1>4. CommonPrefixLen(p.k, p.len, q.k, q.len) = CHOOSE n \in 0..smaller : Is(n)
  BY DEF CommonPrefixLen, smaller
<1> DEFINE c == CHOOSE n \in 0..smaller : Is(n)
<1>5. c \in 0..smaller /\ Is(c)
  BY <1>3, Zenon
<1> HIDE DEF c
<1>6. QED
  BY <1>1, <1>2, <1>4, <1>5 DEF c, Lengths

-----------------------------------------------------------------------------
\* What makes nodes a trie: a child extends its parent on its side, and a node that is
\* above another has a child on the way to it.
KidOf(t, p, b) == t[p].kids[b]

TrieShape(t) == t \in [DOMAIN t -> Nodes] /\ DOMAIN t \subseteq Prefixes

KidsRight(t) ==
  \A p \in DOMAIN t, b \in Bit :
    KidOf(t, p, b) # Nil =>
      /\ KidOf(t, p, b) \in DOMAIN t
      /\ Above(p, KidOf(t, p, b)) /\ Side(p, KidOf(t, p, b).k) = b

Finds(t) ==
  \A p, q \in DOMAIN t :
    Above(p, q) => /\ KidOf(t, p, Side(p, q.k)) # Nil
                   /\ Covers(KidOf(t, p, Side(p, q.k)), q)

Rooted(r, t) ==
  IF r = Nil THEN DOMAIN t = {} ELSE r \in DOMAIN t /\ \A q \in DOMAIN t : Covers(r, q)

Trie(r, t) == TrieShape(t) /\ KidsRight(t) /\ Finds(t) /\ Rooted(r, t)

\* The name of a node is a prefix, and a node has what a TrieNode has.
LEMMA NodeIsKeyed ==
  ASSUME NEW t, TrieShape(t), NEW p \in DOMAIN t
  PROVE  /\ p \in Prefixes /\ Keyed(p) /\ p # Nil /\ p.len \in Nat
         /\ \A b \in Bit : KidOf(t, p, b) \in Boxes
         /\ t[p] = [kids |-> t[p].kids, value |-> t[p].value]
         /\ t[p].kids \in [Bit -> Boxes] /\ t[p].value \in Values \cup {NoValue}
<1>1. p \in Prefixes
  BY DEF TrieShape
<1>2. Keyed(p) /\ p # Nil
  BY <1>1, PrefixIsKeyed
<1>3. p.len \in Nat
  BY <1>2, IpLookupTrieAssumption DEF Keyed, Lengths
<1>4. t[p] \in Nodes
  BY DEF TrieShape
<1>5. /\ t[p] = [kids |-> t[p].kids, value |-> t[p].value]
      /\ t[p].kids \in [Bit -> Boxes] /\ t[p].value \in Values \cup {NoValue}
  BY <1>4 DEF Nodes
<1>6. \A b \in Bit : t[p].kids[b] \in Boxes
  BY <1>5
<1>7. QED
  BY <1>1, <1>2, <1>3, <1>5, <1>6 DEF KidOf

\* Two nodes that cover the same, one of them no shorter, are one below the other.
LEMMA BelowOrSame ==
  ASSUME NEW p \in Prefixes, NEW q \in Prefixes, NEW s, Keyed(s), Covers(p, s), Covers(q, s)
  PROVE  p = q \/ Above(p, q) \/ Above(q, p)
<1>1. Keyed(p) /\ Keyed(q)
  BY PrefixIsKeyed
<1>2. p.len \in Nat /\ q.len \in Nat
  BY <1>1, IpLookupTrieAssumption DEF Keyed, Lengths
<1>3. p.len <= q.len => Covers(p, q)
  BY <1>1, CoversComparable
<1>4. q.len <= p.len => Covers(q, p)
  BY <1>1, CoversComparable
<1>5. p.len = q.len /\ Covers(p, q) => p = q
  BY SamePrefix DEF Covers
<1>6. QED
  BY <1>2, <1>3, <1>4, <1>5 DEF Covers, Above

\* What covers a node without being it is above it.
LEMMA CoversOrIs ==
  ASSUME NEW p \in Prefixes, NEW q \in Prefixes, Covers(p, q), p # q
  PROVE  Above(p, q)
<1>1. Keyed(p) /\ Keyed(q)
  BY PrefixIsKeyed
<1>2. p.len \in Nat /\ q.len \in Nat
  BY <1>1, IpLookupTrieAssumption DEF Keyed, Lengths
<1>3. p.len # q.len
  BY SamePrefix DEF Covers
<1>4. QED
  BY <1>2, <1>3 DEF Covers, Above

\* Every key covers itself.
LEMMA CoversItself ==
  ASSUME NEW p, Keyed(p)
  PROVE  Covers(p, p)
BY IpLookupTrieAssumption DEF Covers, Agree, Keyed, Lengths

\* A box is in one place.
LEMMA OnePlace ==
  ASSUME NEW r, NEW t, Trie(r, t)
  PROVE  /\ \A p \in DOMAIN t, b \in Bit : KidOf(t, p, b) # Nil => KidOf(t, p, b) # r
         /\ \A p, q \in DOMAIN t, b, e \in Bit :
              KidOf(t, p, b) # Nil /\ KidOf(t, p, b) = KidOf(t, q, e) => p = q /\ b = e
<1>1. ASSUME NEW p \in DOMAIN t, NEW b \in Bit, KidOf(t, p, b) # Nil
      PROVE  KidOf(t, p, b) # r
  <2>1. p.len < KidOf(t, p, b).len /\ KidOf(t, p, b) \in DOMAIN t
    BY <1>1 DEF Trie, KidsRight, Above
  <2>2. r \in DOMAIN t /\ r.len <= p.len
    BY DEF Trie, Rooted, Covers
  <2>3. p.len \in Nat /\ r.len \in Nat
    BY <2>2, NodeIsKeyed DEF Trie
  <2>4. QED
    BY <2>1, <2>2, <2>3
<1>2. ASSUME NEW p \in DOMAIN t, NEW q \in DOMAIN t, NEW b \in Bit, NEW e \in Bit,
             KidOf(t, p, b) # Nil, KidOf(t, p, b) = KidOf(t, q, e)
      PROVE  ~Above(p, q)
  <2> DEFINE c == KidOf(t, p, b)
  <2>1. c \in DOMAIN t /\ Above(q, c) /\ Above(p, c) /\ Side(p, c.k) = b
    BY <1>2 DEF Trie, KidsRight
  <2>2. Keyed(p) /\ Keyed(q) /\ Keyed(c) /\ c.len \in Nat /\ q.len \in Nat
    BY <2>1, NodeIsKeyed DEF Trie
  <2> HIDE DEF c
  <2>3. SUFFICES ASSUME Above(p, q) PROVE FALSE
    OBVIOUS
  <2>4. Side(p, q.k) = b
    BY <2>1, <2>2, <2>3, CoversTrans, AboveCovers
  <2>5. Covers(c, q)
    BY <2>3, <2>4 DEF Trie, Finds, c
  <2>6. QED
    BY <2>1, <2>2, <2>5 DEF Covers, Above
<1>3. ASSUME NEW p \in DOMAIN t, NEW q \in DOMAIN t, NEW b \in Bit, NEW e \in Bit,
             KidOf(t, p, b) # Nil, KidOf(t, p, b) = KidOf(t, q, e)
      PROVE  p = q /\ b = e
  <2> DEFINE c == KidOf(t, p, b)
  <2>1. c \in DOMAIN t /\ Above(q, c) /\ Above(p, c) /\ Side(p, c.k) = b /\ Side(q, c.k) = e
    BY <1>3 DEF Trie, KidsRight
  <2>2. Keyed(p) /\ Keyed(q) /\ Keyed(c) /\ p \in Prefixes /\ q \in Prefixes
    BY <2>1, NodeIsKeyed DEF Trie
  <2> HIDE DEF c
  <2>3. Covers(p, c) /\ Covers(q, c)
    BY <2>1, <2>2, AboveCovers
  <2>4. ~Above(p, q) /\ ~Above(q, p)
    BY <1>2, <1>3
  <2>5. p = q
    BY <2>2, <2>3, <2>4, BelowOrSame
  <2>6. QED
    BY <2>1, <2>5
<1>4. QED
  BY <1>1, <1>3

\* What a trie is says nothing of the values.
LEMMA SameKids ==
  ASSUME NEW r, NEW t, NEW u, Trie(r, t), TrieShape(u), DOMAIN u = DOMAIN t,
         \A p \in DOMAIN t, b \in Bit : KidOf(u, p, b) = KidOf(t, p, b)
  PROVE  Trie(r, u)
<1>1. KidsRight(u)
  BY DEF Trie, KidsRight
<1>2. Finds(u)
  <2> SUFFICES ASSUME NEW p \in DOMAIN u, NEW q \in DOMAIN u, Above(p, q)
               PROVE  /\ KidOf(u, p, Side(p, q.k)) # Nil
                      /\ Covers(KidOf(u, p, Side(p, q.k)), q)
    BY DEF Finds
  <2>1. Side(p, q.k) \in Bit
    BY NodeIsKeyed, AboveCovers
  <2>2. QED
    BY <2>1 DEF Trie, Finds
<1>3. Rooted(r, u)
  BY DEF Trie, Rooted
<1>4. QED
  BY <1>1, <1>2, <1>3 DEF Trie

\* The places that held x hold y.
Moved(r, t, x, y, s, u) ==
  /\ s = IF r = x THEN y ELSE r
  /\ \A p \in DOMAIN t \cap DOMAIN u, b \in Bit :
       KidOf(u, p, b) = IF KidOf(t, p, b) = x THEN y ELSE KidOf(t, p, b)

\* A node that lacks a child can give way to the other.
LEMMA GivesWay ==
  ASSUME NEW r, NEW t, NEW x \in DOMAIN t, NEW b \in Bit, NEW s, NEW u, Trie(r, t),
         KidOf(t, x, 1 - b) = Nil,
         TrieShape(u), DOMAIN u = DOMAIN t \ {x}, Moved(r, t, x, KidOf(t, x, b), s, u)
  PROVE  Trie(s, u)
<1> DEFINE y == KidOf(t, x, b)
<1>1. \A p \in DOMAIN t : p \in Prefixes /\ Keyed(p) /\ p # Nil /\ p.len \in Nat
  BY NodeIsKeyed DEF Trie
<1>2. y # Nil => y \in DOMAIN u /\ Above(x, y) /\ Covers(x, y)
  <2>1. y # Nil => y \in DOMAIN t /\ Above(x, y)
    BY DEF Trie, KidsRight
  <2>2. y # Nil => y # x /\ Covers(x, y)
    BY <1>1, <2>1, AboveCovers DEF Above
  <2>3. QED
    BY <2>1, <2>2
<1>3. ASSUME NEW q \in DOMAIN u, Covers(x, q)
      PROVE  y # Nil /\ Covers(y, q)
  <2>1. x # q /\ q \in DOMAIN t
    OBVIOUS
  <2>2. Above(x, q)
    BY <1>1, <1>3, <2>1, CoversOrIs
  <2>3. Side(x, q.k) \in Bit
    BY <1>1, <2>1, <2>2, AboveCovers
  <2>4. KidOf(t, x, Side(x, q.k)) # Nil /\ Covers(KidOf(t, x, Side(x, q.k)), q)
    BY <2>1, <2>2 DEF Trie, Finds
  <2>5. Side(x, q.k) = b
    BY <2>3, <2>4 DEF Bit
  <2>6. QED
    BY <2>4, <2>5
<1>4. \A p \in DOMAIN u, e \in Bit :
        KidOf(u, p, e) = IF KidOf(t, p, e) = x THEN y ELSE KidOf(t, p, e)
  BY DEF Moved
<1>5. s = IF r = x THEN y ELSE r
  BY DEF Moved
<1> HIDE DEF y
<1>6. KidsRight(u)
  <2> SUFFICES ASSUME NEW p \in DOMAIN u, NEW e \in Bit, KidOf(u, p, e) # Nil
               PROVE  /\ KidOf(u, p, e) \in DOMAIN u
                      /\ Above(p, KidOf(u, p, e)) /\ Side(p, KidOf(u, p, e).k) = e
    BY DEF KidsRight
  <2> DEFINE c == KidOf(t, p, e)
  <2>1. c # Nil => c \in DOMAIN t /\ Above(p, c) /\ Side(p, c.k) = e
    BY DEF Trie, KidsRight
  <2>2. CASE c # x
    BY <1>4, <2>1, <2>2
  <2>3. CASE c = x
    <3>1. KidOf(u, p, e) = y /\ y # Nil /\ Above(p, x) /\ Side(p, x.k) = e
      BY <1>1, <1>4, <2>1, <2>3
    <3>2. Keyed(p) /\ Keyed(x) /\ Keyed(y) /\ Covers(p, x) /\ p.len < x.len
      BY <1>1, <1>2, <3>1, AboveCovers
    <3>3. Above(p, y) /\ Side(p, y.k) = e
      BY <1>2, <3>1, <3>2, CoversTrans
    <3>4. QED
      BY <1>2, <3>1, <3>3
  <2>4. QED
    BY <2>2, <2>3
<1>7. Finds(u)
  <2> SUFFICES ASSUME NEW p \in DOMAIN u, NEW q \in DOMAIN u, Above(p, q)
               PROVE  /\ KidOf(u, p, Side(p, q.k)) # Nil
                      /\ Covers(KidOf(u, p, Side(p, q.k)), q)
    BY DEF Finds
  <2>1. Side(p, q.k) \in Bit
    BY <1>1, AboveCovers
  <2>2. KidOf(t, p, Side(p, q.k)) # Nil /\ Covers(KidOf(t, p, Side(p, q.k)), q)
    BY DEF Trie, Finds
  <2>3. QED
    BY <1>3, <1>4, <2>1, <2>2
<1>8. Rooted(s, u)
  <2>1. r \in DOMAIN t /\ \A q \in DOMAIN t : Covers(r, q)
    BY DEF Trie, Rooted
  <2>2. CASE r # x
    <3>1. s = r /\ r \in DOMAIN u
      BY <1>5, <2>1, <2>2
    <3>2. QED
      BY <1>1, <2>1, <3>1 DEF Rooted
  <2>3. CASE r = x
    <3>1. s = y
      BY <1>5, <2>3
    <3>2. \A q \in DOMAIN u : y # Nil /\ Covers(y, q)
      BY <1>3, <2>1, <2>3
    <3>3. QED
      BY <1>2, <3>1, <3>2 DEF Rooted
  <2>4. QED
    BY <2>2, <2>3
<1>9. QED
  BY <1>6, <1>7, <1>8 DEF Trie

\* A leaf can be added where a child is absent.
LEMMA LeafAdded ==
  ASSUME NEW r, NEW t, NEW p \in DOMAIN t, NEW n \in Prefixes, NEW u, Trie(r, t),
         Above(p, n), KidOf(t, p, Side(p, n.k)) = Nil,
         TrieShape(u), DOMAIN u = DOMAIN t \cup {n},
         \A q \in DOMAIN t, b \in Bit :
           KidOf(u, q, b) = IF q = p /\ b = Side(p, n.k) THEN n ELSE KidOf(t, q, b),
         \A b \in Bit : n \in DOMAIN t \/ KidOf(u, n, b) = Nil
  PROVE  Trie(r, u) /\ n \notin DOMAIN t
<1>1. \A q \in DOMAIN t : q \in Prefixes /\ Keyed(q) /\ q # Nil /\ q.len \in Nat
  BY NodeIsKeyed DEF Trie
<1>2. Keyed(n) /\ n # Nil /\ n.len \in Nat
  BY PrefixIsKeyed, IpLookupTrieAssumption DEF Keyed, Lengths
<1>3. Covers(p, n) /\ Side(p, n.k) \in Bit /\ p.len < n.len
  BY <1>1, <1>2, AboveCovers
<1>4. ASSUME NEW q \in DOMAIN t PROVE ~Covers(n, q)
  <2> SUFFICES ASSUME Covers(n, q) PROVE FALSE
    OBVIOUS
  <2>1. Above(p, q) /\ Side(p, q.k) = Side(p, n.k)
    BY <1>1, <1>2, <1>3, CoversTrans
  <2>2. QED
    BY <2>1 DEF Trie, Finds
<1>5. n \notin DOMAIN t
  BY <1>2, <1>4, CoversItself
<1>6. \A b \in Bit : KidOf(u, n, b) = Nil
  BY <1>5
<1>7. KidsRight(u)
  <2> SUFFICES ASSUME NEW q \in DOMAIN u, NEW b \in Bit, KidOf(u, q, b) # Nil
               PROVE  /\ KidOf(u, q, b) \in DOMAIN u
                      /\ Above(q, KidOf(u, q, b)) /\ Side(q, KidOf(u, q, b).k) = b
    BY DEF KidsRight
  <2>1. q \in DOMAIN t
    BY <1>6
  <2>2. CASE q = p /\ b = Side(p, n.k)
    BY <2>1, <2>2
  <2>3. CASE ~(q = p /\ b = Side(p, n.k))
    BY <2>1, <2>3 DEF Trie, KidsRight
  <2>4. QED
    BY <2>2, <2>3
<1>8. Finds(u)
  <2> SUFFICES ASSUME NEW q \in DOMAIN u, NEW s \in DOMAIN u, Above(q, s)
               PROVE  /\ KidOf(u, q, Side(q, s.k)) # Nil
                      /\ Covers(KidOf(u, q, Side(q, s.k)), s)
    BY DEF Finds
  <2>1. q # n
    <3> SUFFICES ASSUME q = n PROVE FALSE
      OBVIOUS
    <3>1. s # n
      BY <1>2 DEF Above
    <3>2. QED
      BY <1>1, <1>2, <1>4, <3>1, AboveCovers
  <2>2. q \in DOMAIN t /\ Keyed(q) /\ Keyed(s) /\ Side(q, s.k) \in Bit /\ Covers(q, s)
    BY <1>1, <1>2, <2>1, AboveCovers
  <2>3. CASE s \in DOMAIN t
    <3>1. KidOf(t, q, Side(q, s.k)) # Nil /\ Covers(KidOf(t, q, Side(q, s.k)), s)
      BY <2>2, <2>3 DEF Trie, Finds
    <3>2. QED
      BY <2>2, <3>1
  <2>4. CASE s = n
    <3>1. q = p \/ Above(q, p) \/ Above(p, q)
      BY <1>1, <1>2, <1>3, <2>2, <2>4, BelowOrSame
    <3>2. CASE q = p
      <4>1. KidOf(u, q, Side(q, s.k)) = n
        BY <2>2, <2>4, <3>2
      <4>2. QED
        BY <1>2, <2>4, <4>1, CoversItself
    <3>3. CASE Above(q, p)
      <4>1. Side(q, s.k) = Side(q, p.k)
        BY <1>1, <1>2, <1>3, <2>2, <2>4, <3>3, AboveCovers, CoversTrans
      <4>2. KidOf(t, q, Side(q, p.k)) # Nil /\ Covers(KidOf(t, q, Side(q, p.k)), p)
        BY <2>2, <3>3 DEF Trie, Finds
      <4>3. KidOf(t, q, Side(q, p.k)) \in DOMAIN t
        BY <2>2, <4>1, <4>2 DEF Trie, KidsRight
      <4>4. Covers(KidOf(t, q, Side(q, p.k)), n)
        BY <1>1, <1>2, <1>3, <4>2, <4>3, CoversTrans
      <4>5. q # p
        BY <1>1, <3>3 DEF Above
      <4>6. QED
        BY <2>2, <2>4, <4>1, <4>2, <4>4, <4>5
    <3>4. CASE Above(p, q)
      <4>1. Side(p, q.k) = Side(p, n.k)
        BY <1>1, <1>2, <1>3, <2>2, <2>4, <3>4, AboveCovers, CoversTrans
      <4>2. QED
        BY <2>2, <3>4, <4>1 DEF Trie, Finds
    <3>5. QED
      BY <3>1, <3>2, <3>3, <3>4
  <2>5. QED
    BY <2>3, <2>4
<1>9. Rooted(r, u)
  <2>1. r # Nil /\ r \in DOMAIN t /\ \A q \in DOMAIN t : Covers(r, q)
    BY <1>1 DEF Trie, Rooted
  <2>2. Covers(r, n)
    BY <1>1, <1>2, <1>3, <2>1, CoversTrans
  <2>3. QED
    BY <2>1, <2>2 DEF Rooted
<1>10. QED
  BY <1>5, <1>7, <1>8, <1>9 DEF Trie

\* The place that holds x is above u.
PlaceAbove(r, t, x, u) ==
  r = x \/ \E p \in DOMAIN t, b \in Bit : KidOf(t, p, b) = x /\ Above(p, u)

\* No node is between a node and its place.
LEMMA NothingBetween ==
  ASSUME NEW r, NEW t, NEW x \in DOMAIN t, NEW n \in Prefixes, Trie(r, t),
         Above(n, x), PlaceAbove(r, t, x, n)
  PROVE  n \notin DOMAIN t /\ \A q \in DOMAIN t : Covers(n, q) => Covers(x, q)
<1>1. \A q \in DOMAIN t : q \in Prefixes /\ Keyed(q) /\ q # Nil /\ q.len \in Nat
  BY NodeIsKeyed DEF Trie
<1>2. Keyed(n) /\ n # Nil /\ n.len \in Nat
  BY PrefixIsKeyed, IpLookupTrieAssumption DEF Keyed, Lengths
<1>3. Covers(n, x) /\ Side(n, x.k) \in Bit /\ n.len < x.len
  BY <1>1, <1>2, AboveCovers
<1>4. ASSUME NEW q \in DOMAIN t, Covers(n, q)
      PROVE  Covers(x, q)
  <2>1. CASE r = x
    BY <1>1, <2>1 DEF Trie, Rooted
  <2>2. CASE r # x
    <3>1. PICK p \in DOMAIN t, b \in Bit : KidOf(t, p, b) = x /\ Above(p, n)
      BY <2>2 DEF PlaceAbove
    <3>2. Covers(p, n) /\ p.len < n.len
      BY <1>1, <1>2, <3>1, AboveCovers
    <3>3. Above(p, q) /\ Side(p, q.k) = Side(p, n.k)
      BY <1>1, <1>2, <1>4, <3>2, CoversTrans
    <3>4. Side(p, n.k) = Side(p, x.k)
      BY <1>1, <1>2, <1>3, <3>2, CoversTrans
    <3>5. Side(p, x.k) = b
      BY <1>1, <3>1 DEF Trie, KidsRight
    <3>6. KidOf(t, p, Side(p, q.k)) = x
      BY <3>1, <3>3, <3>4, <3>5
    <3>7. QED
      BY <3>3, <3>6 DEF Trie, Finds
  <2>3. QED
    BY <2>1, <2>2
<1>5. n \notin DOMAIN t
  <2> SUFFICES ASSUME n \in DOMAIN t PROVE FALSE
    OBVIOUS
  <2>1. Covers(x, n)
    BY <1>2, <1>4, CoversItself
  <2>2. QED
    BY <1>1, <1>2, <1>3, <2>1 DEF Covers
<1>6. QED
  BY <1>4, <1>5

\* A node can be put between a node and its place.
LEMMA PutAbove ==
  ASSUME NEW r, NEW t, NEW x \in DOMAIN t, NEW n \in Prefixes, NEW s, NEW u, Trie(r, t),
         Above(n, x), PlaceAbove(r, t, x, n),
         TrieShape(u), DOMAIN u = DOMAIN t \cup {n}, Moved(r, t, x, n, s, u),
         \A b \in Bit : KidOf(u, n, b) = IF b = Side(n, x.k) THEN x ELSE Nil
  PROVE  Trie(s, u)
<1>1. \A q \in DOMAIN t : q \in Prefixes /\ Keyed(q) /\ q # Nil /\ q.len \in Nat
  BY NodeIsKeyed DEF Trie
<1>2. Keyed(n) /\ n # Nil /\ n.len \in Nat
  BY PrefixIsKeyed, IpLookupTrieAssumption DEF Keyed, Lengths
<1>3. Covers(n, x) /\ Side(n, x.k) \in Bit /\ n.len < x.len
  BY <1>1, <1>2, AboveCovers
<1>4. ASSUME NEW p \in DOMAIN t, NEW b \in Bit, KidOf(t, p, b) = x
      PROVE  Above(p, n) /\ Covers(p, n) /\ p.len < n.len /\ r # x
  <2>1. r # x
    BY <1>1, <1>4, OnePlace
  <2>2. PICK q \in DOMAIN t, e \in Bit : KidOf(t, q, e) = x /\ Above(q, n)
    BY <2>1 DEF PlaceAbove
  <2>3. p = q
    BY <1>1, <1>4, <2>2, OnePlace
  <2>4. QED
    BY <1>1, <1>2, <2>1, <2>2, <2>3, AboveCovers
<1>5. \A q \in DOMAIN t : Covers(n, q) => Covers(x, q)
  BY NothingBetween
<1>6. n \notin DOMAIN t
  BY NothingBetween
<1>7. \A b \in Bit : KidOf(u, n, b) = IF b = Side(n, x.k) THEN x ELSE Nil
  BY <1>6
<1>8. \A p \in DOMAIN t, b \in Bit :
        KidOf(u, p, b) = IF KidOf(t, p, b) = x THEN n ELSE KidOf(t, p, b)
  BY DEF Moved
<1>9. s = IF r = x THEN n ELSE r
  BY DEF Moved
<1>10. KidsRight(u)
  <2> SUFFICES ASSUME NEW p \in DOMAIN u, NEW b \in Bit, KidOf(u, p, b) # Nil
               PROVE  /\ KidOf(u, p, b) \in DOMAIN u
                      /\ Above(p, KidOf(u, p, b)) /\ Side(p, KidOf(u, p, b).k) = b
    BY DEF KidsRight
  <2>1. CASE p = n
    BY <1>7, <2>1
  <2>2. CASE p # n
    <3>1. p \in DOMAIN t
      BY <2>2
    <3> DEFINE c == KidOf(t, p, b)
    <3>2. CASE c # x
      BY <1>8, <3>1, <3>2 DEF Trie, KidsRight
    <3>3. CASE c = x
      <4>1. KidOf(u, p, b) = n /\ Above(p, n) /\ Covers(p, n) /\ p.len < n.len
        BY <1>4, <1>8, <3>1, <3>3
      <4>2. Side(p, n.k) = Side(p, x.k)
        BY <1>1, <1>2, <1>3, <3>1, <4>1, CoversTrans
      <4>3. Side(p, x.k) = b
        BY <1>1, <3>1, <3>3 DEF Trie, KidsRight
      <4>4. QED
        BY <4>1, <4>2, <4>3
    <3>4. QED
      BY <3>2, <3>3
  <2>3. QED
    BY <2>1, <2>2
<1>11. Finds(u)
  <2> SUFFICES ASSUME NEW p \in DOMAIN u, NEW q \in DOMAIN u, Above(p, q)
               PROVE  /\ KidOf(u, p, Side(p, q.k)) # Nil
                      /\ Covers(KidOf(u, p, Side(p, q.k)), q)
    BY DEF Finds
  <2>1. Keyed(p) /\ Keyed(q) /\ Side(p, q.k) \in Bit /\ Covers(p, q) /\ p.len < q.len
    BY <1>1, <1>2, AboveCovers
  <2>2. CASE p = n
    <3>1. q \in DOMAIN t
      BY <2>1, <2>2, <1>2
    <3>2. Covers(x, q)
      BY <1>5, <2>1, <2>2, <3>1
    <3>3. Side(n, q.k) = Side(n, x.k)
      BY <1>1, <1>2, <1>3, <3>1, <3>2, CoversTrans
    <3>4. QED
      BY <1>1, <1>7, <2>1, <2>2, <3>2, <3>3
  <2>3. CASE p # n
    <3>1. p \in DOMAIN t
      BY <2>3
    <3>2. CASE q # n
      <4>1. q \in DOMAIN t
        BY <3>2
      <4>2. KidOf(t, p, Side(p, q.k)) # Nil /\ Covers(KidOf(t, p, Side(p, q.k)), q)
        BY <3>1, <4>1 DEF Trie, Finds
      <4>3. CASE KidOf(t, p, Side(p, q.k)) # x
        BY <1>8, <2>1, <3>1, <4>2, <4>3
      <4>4. CASE KidOf(t, p, Side(p, q.k)) = x
        <5>1. KidOf(u, p, Side(p, q.k)) = n
          BY <1>8, <2>1, <3>1, <4>4
        <5>2. Covers(n, q)
          BY <1>1, <1>2, <1>3, <2>1, <4>2, <4>4, CoversTrans
        <5>3. QED
          BY <1>2, <5>1, <5>2
      <4>5. QED
        BY <4>3, <4>4
    <3>3. CASE q = n
      <4>1. Above(p, x) /\ Side(p, n.k) = Side(p, x.k)
        BY <1>1, <1>2, <1>3, <2>1, <3>1, <3>3, CoversTrans
      <4> DEFINE c == KidOf(t, p, Side(p, x.k))
      <4>2. c # Nil /\ Covers(c, x)
        BY <3>1, <4>1 DEF Trie, Finds
      <4>3. c \in DOMAIN t /\ c \in Prefixes /\ Keyed(c)
        BY <1>1, <2>1, <3>1, <3>3, <4>1, <4>2 DEF Trie, KidsRight
      <4>4. KidOf(u, p, Side(p, q.k)) = IF c = x THEN n ELSE c
        BY <1>8, <2>1, <3>1, <3>3, <4>1
      <4> HIDE DEF c
      <4>5. CASE c = x
        BY <1>2, <3>3, <4>4, <4>5, CoversItself
      <4>6. CASE c # x
        <5>1. c = n \/ Above(c, n) \/ Above(n, c)
          BY <1>1, <1>3, <4>2, <4>3, BelowOrSame
        <5>2. c # n
          BY <1>6, <4>3
        <5>3. ~Above(n, c)
          <6> SUFFICES ASSUME Above(n, c) PROVE FALSE
            OBVIOUS
          <6>1. Covers(x, c)
            BY <1>2, <1>5, <4>3, AboveCovers
          <6>2. Above(c, x)
            BY <1>1, <4>2, <4>3, <4>6, CoversOrIs
          <6>3. QED
            BY <1>1, <4>3, <6>1, <6>2 DEF Above, Covers
        <5>4. Covers(c, n)
          BY <1>2, <4>3, <5>1, <5>2, <5>3, AboveCovers
        <5>5. QED
          BY <3>3, <4>2, <4>4, <4>6, <5>4
      <4>7. QED
        BY <4>5, <4>6
    <3>4. QED
      BY <3>2, <3>3
  <2>4. QED
    BY <2>2, <2>3
<1>12. Rooted(s, u)
  <2>1. r # Nil /\ r \in DOMAIN t /\ \A q \in DOMAIN t : Covers(r, q)
    BY <1>1 DEF Trie, Rooted
  <2>2. CASE r = x
    <3>1. \A q \in DOMAIN t : Covers(n, q)
      BY <1>1, <1>2, <1>3, <2>1, <2>2, CoversTrans
    <3>2. QED
      BY <1>2, <1>9, <2>2, <3>1, CoversItself DEF Rooted
  <2>3. CASE r # x
    <3>1. PICK p \in DOMAIN t, b \in Bit : KidOf(t, p, b) = x /\ Above(p, n)
      BY <2>3 DEF PlaceAbove
    <3>2. Covers(r, n)
      BY <1>1, <1>2, <2>1, <3>1, AboveCovers, CoversTrans
    <3>3. QED
      BY <1>9, <2>1, <2>3, <3>2 DEF Rooted
  <2>4. QED
    BY <2>2, <2>3
<1>13. QED
  BY <1>5, <1>6, <1>10, <1>11, <1>12 DEF Trie

-----------------------------------------------------------------------------
\* What a trie holds.
Ents(t) == [n \in {p \in DOMAIN t : t[p].value # NoValue} |-> t[n].value]

\* Ents is Entries as an operator of the trie.
LEMMA EntriesAreEnts == Entries = Ents(tree)
BY DEF Entries, Ents

\* The entries of a trie are its nodes with a value, and At finds them.
LEMMA EntsAre ==
  ASSUME NEW t, NEW n
  PROVE  /\ n \in DOMAIN Ents(t) <=> n \in DOMAIN t /\ t[n].value # NoValue
         /\ n \in DOMAIN Ents(t) => Ents(t)[n] = t[n].value
         /\ n \in DOMAIN t => PT!At(Ents(t), n) = t[n].value
         /\ n \notin DOMAIN t => PT!At(Ents(t), n) = NoValue
BY DEF Ents, PT!At

\* The prefix of a key, as the trie and as the reference table make it.
LEMMA PrefixMade ==
  ASSUME NEW k \in Addresses, NEW len \in Lengths
  PROVE  /\ Name(Under(k, len), len) \in Prefixes
         /\ PT!Key(k, len) = Name(Under(k, len), len)
         /\ Under(Under(k, len), len) = Under(k, len)
         /\ Agree(Under(k, len), k, len)
<1>1. Under(k, len) \in Addresses /\ \A i \in 1..Bits : Under(k, len)[i] = IF i <= len THEN k[i] ELSE 0
  BY DEF Under, Addresses, Bit
<1>2. Under(Under(k, len), len) = Under(k, len)
  BY <1>1 DEF Under
<1>3. Agree(Under(k, len), k, len)
  BY <1>1, IpLookupTrieAssumption DEF Agree, Lengths
<1>4. PT!Key(k, len) = Name(Under(k, len), len)
  BY DEF PT!Key, PT!Masked, Name, Under
<1>5. QED
  BY <1>1, <1>2, <1>3, <1>4 DEF Prefixes, Names, Name

\* A prefix that covers a key is the prefix of that key of its length.
LEMMA PrefixOf ==
  ASSUME NEW p \in Prefixes, NEW a, Keyed(a), Covers(p, a)
  PROVE  p = Name(Under(a.k, p.len), p.len)
<1>1. a.k \in Addresses /\ p.len \in Lengths
  BY PrefixIsKeyed DEF Keyed
<1> DEFINE q == Name(Under(a.k, p.len), p.len)
<1>2. q \in Prefixes /\ q.len = p.len /\ q.k = Under(a.k, p.len) /\ Agree(q.k, a.k, p.len)
  BY <1>1, PrefixMade DEF Name
<1> HIDE DEF q
<1>3. Agree(p.k, q.k, p.len)
  BY <1>2 DEF Covers, Agree
<1>4. p = q
  BY <1>2, <1>3, SamePrefix
<1>5. QED
  BY <1>4 DEF q

-----------------------------------------------------------------------------
\* What the loop of longest_match has found: the longest of the entries shorter than
\* this that the address is under.
Best(t, a, limit, best) ==
  LET Matching(q) == Covers(q, a) /\ q.len < limit /\ t[q].value # NoValue
  IN \/ best = NoValue /\ \A q \in DOMAIN t : ~Matching(q)
     \/ \E q \in DOMAIN t : /\ Matching(q) /\ t[q].value = best
                            /\ \A s \in DOMAIN t : Matching(s) => s.len <= q.len

\* An address has all of its bits.
Whole(a) == Keyed(a) /\ a.len = Bits

\* The best match among all lengths is what the reference table returns.
LEMMA BestIsLongest ==
  ASSUME NEW t, TrieShape(t), NEW a, Whole(a), NEW best, Best(t, a, Bits + 1, best)
  PROVE  PT!LongestMatch(Ents(t), a.k) = best
<1> DEFINE matching == {len \in PT!Lengths : PT!Key(a.k, len) \in DOMAIN Ents(t)}
           M(q) == Covers(q, a) /\ q.len < Bits + 1 /\ t[q].value # NoValue
<1>1. PT!Lengths = Lengths /\ Lengths \subseteq Nat /\ a.k \in Addresses /\ Bits \in Nat
  BY IpLookupTrieAssumption DEF PT!Lengths, Lengths, Whole, Keyed
<1>2. ASSUME NEW len \in matching
      PROVE  LET q == PT!Key(a.k, len) IN q \in DOMAIN t /\ M(q) /\ q.len = len
  <2> DEFINE q == PT!Key(a.k, len)
  <2>1. q = Name(Under(a.k, len), len) /\ Agree(Under(a.k, len), a.k, len) /\ len \in Lengths
    BY <1>1, PrefixMade
  <2>2. q.len = len /\ q.k = Under(a.k, len) /\ len <= Bits
    BY <2>1 DEF Name, Lengths
  <2>3. q \in DOMAIN t /\ t[q].value # NoValue
    BY EntsAre
  <2> HIDE DEF q
  <2>4. Covers(q, a)
    BY <1>1, <2>1, <2>2 DEF Covers, Whole
  <2>5. QED
    BY <1>1, <2>1, <2>2, <2>3, <2>4 DEF q
<1>3. ASSUME NEW q \in DOMAIN t, M(q)
      PROVE  q.len \in matching /\ PT!Key(a.k, q.len) = q
  <2>1. q \in Prefixes /\ q.len \in Lengths
    BY NodeIsKeyed DEF Keyed
  <2>2. q = Name(Under(a.k, q.len), q.len)
    BY <1>3, <2>1, PrefixOf DEF Whole
  <2>3. PT!Key(a.k, q.len) = q
    BY <1>1, <2>1, <2>2, PrefixMade
  <2>4. q \in DOMAIN Ents(t)
    BY <1>3, EntsAre
  <2>5. QED
    BY <1>1, <2>1, <2>3, <2>4
<1> HIDE DEF matching
<1>4. PT!LongestMatch(Ents(t), a.k)
      = IF matching = {} THEN NoValue
        ELSE Ents(t)[PT!Key(a.k, CHOOSE len \in matching : \A m \in matching : m <= len)]
  BY DEF PT!LongestMatch, matching
<1>5. CASE best = NoValue /\ \A q \in DOMAIN t : ~M(q)
  <2>1. matching = {}
    BY <1>2, <1>5
  <2>2. QED
    BY <1>4, <1>5, <2>1
<1>6. CASE \E q \in DOMAIN t : /\ M(q) /\ t[q].value = best
                               /\ \A s \in DOMAIN t : M(s) => s.len <= q.len
  <2>1. PICK q \in DOMAIN t : /\ M(q) /\ t[q].value = best
                              /\ \A s \in DOMAIN t : M(s) => s.len <= q.len
    BY <1>6
  <2>2. q.len \in matching /\ PT!Key(a.k, q.len) = q
    BY <1>3, <2>1
  <2>3. \A m \in matching : m <= q.len
    BY <1>2, <2>1
  <2>4. matching \subseteq Nat
    BY <1>1 DEF matching
  <2>5. ASSUME NEW len \in matching, \A m \in matching : m <= len
        PROVE  len = q.len
    <3>1. q.len <= len /\ len <= q.len /\ len \in Nat /\ q.len \in Nat
      BY <2>2, <2>3, <2>4, <2>5
    <3>2. QED
      BY <3>1
  <2>6. (CHOOSE len \in matching : \A m \in matching : m <= len) = q.len
    BY <2>2, <2>3, <2>5
  <2>7. Ents(t)[q] = best
    BY <2>1, EntsAre
  <2>8. QED
    BY <1>4, <2>2, <2>6, <2>7
<1>7. QED
  BY <1>5, <1>6 DEF Best

\* A node on the way to the address is looked at.
LEMMA BestGoesOn ==
  ASSUME NEW r, NEW t, Trie(r, t), NEW a, Whole(a), NEW h \in DOMAIN t, Covers(h, a), NEW best,
         Best(t, a, h.len, best), NEW limit \in Nat,
         \A q \in DOMAIN t : Covers(q, a) => (q.len < limit <=> q.len <= h.len)
  PROVE  Best(t, a, limit, IF t[h].value # NoValue THEN t[h].value ELSE best)
<1>1. \A q \in DOMAIN t : q \in Prefixes /\ Keyed(q) /\ q.len \in Nat
  BY NodeIsKeyed DEF Trie
<1>2. \A q \in DOMAIN t : Covers(q, a) /\ q.len = h.len => q = h
  <2> SUFFICES ASSUME NEW q \in DOMAIN t, Covers(q, a), q.len = h.len PROVE q = h
    OBVIOUS
  <2>1. q = Name(Under(a.k, q.len), q.len) /\ h = Name(Under(a.k, h.len), h.len)
    BY <1>1, PrefixOf DEF Whole
  <2>2. QED
    BY <2>1
<1>3. \A q \in DOMAIN t : Covers(q, a) => (q.len < limit <=> q.len < h.len \/ q = h)
  BY <1>1, <1>2
<1>4. CASE t[h].value # NoValue
  BY <1>1, <1>3, <1>4 DEF Best
<1>5. CASE t[h].value = NoValue
  <2>1. \A q \in DOMAIN t : Covers(q, a) /\ t[q].value # NoValue => (q.len < limit <=> q.len < h.len)
    BY <1>1, <1>3, <1>5
  <2>2. QED
    BY <2>1, <1>5 DEF Best
<1>6. QED
  BY <1>4, <1>5

-----------------------------------------------------------------------------
(* The calls.                                                                  *)

\* The arguments of a call.
Args == [k : Addresses, len : Lengths, v : Values \cup {NoValue}]

\* The stack holds the way from the root to the current node: all above what the
\* call is about, but for the last.
Path ==
  /\ stack \in Seq(DOMAIN tree) /\ Len(stack) > 0 /\ stack[1] = root
  /\ \A i \in 1..(Len(stack) - 1) :
       /\ Above(stack[i], arg)
       /\ KidOf(tree, stack[i], Side(stack[i], arg.k)) = stack[i + 1]
  /\ \A i, j \in 1..Len(stack) : i < j => stack[i].len < stack[j].len

\* The only node that may lack a child and have no value: one that was just made for
\* the value that is inserted, or the parent of a node that was removed.
Loose(p) == (op = "unwind" \/ (op = "insert" /\ Matched(p))) /\ p = Here

NoneLoose ==
  \A p \in DOMAIN tree :
    tree[p].value = NoValue /\ ~Loose(p) => \A b \in Bit : KidOf(tree, p, b) # Nil

\* The prefix that a call of insert or remove is about.
Goal == Name(Under(arg.k, arg.len), arg.len)

\* A table after an insert, and after a remove.
With(t, n, v) == [m \in DOMAIN t \cup {n} |-> IF m = n THEN v ELSE t[m]]
Without(t, n) == [m \in DOMAIN t \ {n} |-> t[m]]

InsertInv ==
  /\ Path /\ arg \in Args /\ arg.v \in Values /\ arg.k = Under(arg.k, arg.len)
  /\ table = With(Ents(tree), Goal, arg.v) /\ expected = PT!At(Ents(tree), Goal)

RemoveInv ==
  /\ Path /\ arg \in Args /\ result = NoValue
  /\ table = Without(Ents(tree), Goal) /\ expected = PT!At(Ents(tree), Goal)

UnwindInv ==
  /\ Path /\ arg \in Args /\ Above(Here, arg)
  /\ table = Ents(tree) /\ expected = result

MatchInv ==
  /\ arg \in Args /\ Whole(arg)
  /\ Len(stack) = 1 /\ Here \in DOMAIN tree
  /\ Best(tree, arg, Here.len, result)
  /\ \A q \in DOMAIN tree : Covers(q, arg) => q.len < Here.len \/ Covers(Here, q)
  /\ table = Ents(tree) /\ expected = PT!LongestMatch(table, arg.k)

\* What is under a node of the iterator's stack is yet to come.
ToCome(q) == \E i \in 1..Len(stack) : Covers(stack[i], q)

IterInv ==
  /\ stack \in Seq(DOMAIN tree)
  /\ \A i, j \in 1..Len(stack) : i # j => ~Covers(stack[i], stack[j])
  /\ listed \in Seq([name : DOMAIN tree, value : Values])
  /\ \A i \in 1..Len(listed) :
       LET n == listed[i].name IN tree[n].value = listed[i].value /\ ~ToCome(n)
  /\ \A i, j \in 1..Len(listed) : i # j => listed[i].name # listed[j].name
  /\ \A q \in DOMAIN tree :
       tree[q].value # NoValue => ToCome(q) \/ \E i \in 1..Len(listed) : listed[i].name = q

TrieInv ==
  /\ Trie(root, tree) /\ NoneLoose
  /\ op \in {"none", "listed", "insert", "remove", "unwind", "match", "iter"}
  /\ op \in {"none", "listed", "iter"} => table = Ents(tree) /\ expected = result
  /\ op = "insert" => InsertInv
  /\ op = "remove" => RemoveInv
  /\ op = "unwind" => UnwindInv
  /\ op = "match" => MatchInv
  /\ op \in {"iter", "listed"} => IterInv
  /\ op = "listed" => stack = << >>

\* How a table is shown to be the entries of a trie.
LEMMA EntsIs ==
  ASSUME NEW u, NEW f, f = [n \in DOMAIN f |-> f[n]],
         \A n : n \in DOMAIN f <=> n \in DOMAIN u /\ u[n].value # NoValue,
         \A n \in DOMAIN f : f[n] = u[n].value
  PROVE  f = Ents(u)
<1>1. DOMAIN f = {p \in DOMAIN u : u[p].value # NoValue}
  OBVIOUS
<1>2. QED
  BY <1>1 DEF Ents

\* The argument of a call is a key with a length and a value.
LEMMA ArgIsKeyed ==
  ASSUME arg \in Args
  PROVE  /\ Keyed(arg) /\ arg.k \in Addresses /\ arg.len \in Lengths /\ arg.len \in Nat
         /\ arg.v \in Values \cup {NoValue}
BY IpLookupTrieAssumption DEF Args, Keyed, Lengths

\* The goal of a call, and the nodes it can come to.
LEMMA GoalIs ==
  ASSUME arg \in Args
  PROVE  /\ Goal \in Prefixes /\ Keyed(Goal) /\ Goal.len = arg.len /\ Goal.len \in Nat /\ Goal # Nil
         /\ \A p \in Prefixes : /\ Above(p, Goal) <=> Below(p)
                                /\ Above(p, arg) <=> Below(p)
                                /\ Matched(p) <=> p = Goal
                                /\ Below(p) => Side(p, Goal.k) = Side(p, arg.k) /\ Side(p, arg.k) \in Bit
         /\ arg.k = Under(arg.k, arg.len) => Goal = Name(arg.k, arg.len) /\ Goal.k = arg.k
<1>1. Goal \in Prefixes /\ Agree(Under(arg.k, arg.len), arg.k, arg.len)
  BY PrefixMade, ArgIsKeyed DEF Goal
<1>2. Goal.len = arg.len /\ Goal.k = Under(arg.k, arg.len)
  BY DEF Goal, Name
<1>3. Keyed(Goal) /\ Goal.len \in Nat /\ Goal # Nil
  BY <1>1, <1>2, PrefixIsKeyed, ArgIsKeyed
<1>4. \A i \in 1..arg.len : Goal.k[i] = arg.k[i]
  BY <1>1, <1>2 DEF Agree
<1>5. ASSUME NEW p \in Prefixes
      PROVE  /\ Above(p, Goal) <=> Below(p)
             /\ Above(p, arg) <=> Below(p)
             /\ Matched(p) <=> p = Goal
             /\ Below(p) => Side(p, Goal.k) = Side(p, arg.k) /\ Side(p, arg.k) \in Bit
  <2>1. p.len \in Nat /\ Keyed(p)
    BY PrefixIsKeyed, IpLookupTrieAssumption DEF Keyed, Lengths
  <2>2. Above(p, Goal) <=> Below(p)
    BY <1>2, <1>4, <2>1, ArgIsKeyed DEF Above, Below, Agree
  <2>3. Above(p, arg) <=> Below(p)
    BY DEF Above, Below
  <2>4. Matched(p) => p = Goal
    <3> SUFFICES ASSUME Matched(p) PROVE p = Goal
      OBVIOUS
    <3>1. p.len = Goal.len /\ Agree(p.k, Goal.k, p.len)
      BY <1>2, <1>4, <2>1, ArgIsKeyed DEF Matched, Agree
    <3>2. QED
      BY <1>1, <3>1, SamePrefix
  <2>5. p = Goal => Matched(p)
    BY <1>2, <1>4 DEF Matched, Agree
  <2>6. Below(p) => Side(p, Goal.k) = Side(p, arg.k) /\ Side(p, arg.k) \in Bit
    <3>1. Below(p) => p.len + 1 \in 1..arg.len
      BY <2>1, ArgIsKeyed DEF Below
    <3>2. Below(p) => Above(p, arg) /\ Keyed(arg)
      BY <2>3, ArgIsKeyed
    <3>3. Below(p) => Goal.k[p.len + 1] = arg.k[p.len + 1]
      BY <1>4, <3>1
    <3>4. QED
      BY <2>1, <3>2, <3>3, AboveCovers DEF Side
  <2>7. QED
    BY <2>2, <2>3, <2>4, <2>5, <2>6
<1>6. arg.k = Under(arg.k, arg.len) => Goal = Name(arg.k, arg.len) /\ Goal.k = arg.k
  BY <1>2 DEF Goal
<1>7. QED
  BY <1>1, <1>2, <1>3, <1>5, <1>6

\* The current node, and the one above it on the stack.
Parent == stack[Len(stack) - 1]

\* Arithmetic of the index before the last.
LEMMA OneLess ==
  ASSUME NEW n \in Nat \ {0}, n # 1
  PROVE  /\ n - 1 \in 1..(n - 1) /\ n - 1 + 1 = n /\ n - 1 \in 1..n /\ n - 1 < n
         /\ n - 1 \in Nat \ {0} /\ n \in 1..n
OBVIOUS

\* What Path says of the current node and of its parent.
LEMMA PathIs ==
  ASSUME Trie(root, tree), arg \in Args, Path
  PROVE  /\ Len(stack) \in Nat \ {0} /\ stack \in Seq(DOMAIN tree)
         /\ \A i \in 1..Len(stack) : stack[i] \in DOMAIN tree
         /\ Here \in DOMAIN tree /\ Here \in Prefixes
         /\ Len(stack) = 1 => Here = root
         /\ Len(stack) # 1 =>
              /\ Parent \in DOMAIN tree /\ Above(Parent, arg) /\ Parent # Here
              /\ Side(Parent, arg.k) \in Bit /\ KidOf(tree, Parent, Side(Parent, arg.k)) = Here
<1>1. Len(stack) \in Nat \ {0} /\ stack \in Seq(DOMAIN tree)
  BY DEF Path
<1>2. \A i \in 1..Len(stack) : stack[i] \in DOMAIN tree
  BY <1>1
<1>3. Here \in DOMAIN tree /\ Here \in Prefixes
  BY <1>1, <1>2 DEF Here, Trie, TrieShape
<1>4. ASSUME Len(stack) # 1
      PROVE  /\ Parent \in DOMAIN tree /\ Above(Parent, arg) /\ Parent # Here
             /\ Side(Parent, arg.k) \in Bit /\ KidOf(tree, Parent, Side(Parent, arg.k)) = Here
  <2> DEFINE l == Len(stack)
             m == l - 1
  <2>1. m \in 1..(l - 1) /\ m + 1 = l /\ m \in 1..l /\ l \in 1..l /\ m < l
    BY <1>1, <1>4, OneLess
  <2>2. /\ Above(stack[m], arg) /\ KidOf(tree, stack[m], Side(stack[m], arg.k)) = stack[m + 1]
        /\ stack[m].len < stack[l].len
    <3>1. \A i \in 1..(l - 1) :
            Above(stack[i], arg) /\ KidOf(tree, stack[i], Side(stack[i], arg.k)) = stack[i + 1]
      BY DEF Path
    <3>2. \A i, j \in 1..l : i < j => stack[i].len < stack[j].len
      BY DEF Path
    <3> HIDE DEF l, m
    <3>3. QED
      BY <2>1, <3>1, <3>2
  <2>3. stack[m] \in DOMAIN tree /\ stack[m].len \in Nat /\ Keyed(stack[m])
    BY <1>2, <2>1, NodeIsKeyed DEF Trie
  <2>4. Side(stack[m], arg.k) \in Bit
    BY <2>2, <2>3, ArgIsKeyed, AboveCovers
  <2>5. QED
    BY <2>1, <2>2, <2>3, <2>4 DEF Parent, Here
<1>5. Len(stack) = 1 => Here = root
  BY DEF Here, Path
<1>6. QED
  BY <1>1, <1>2, <1>3, <1>4, <1>5

\* A box of a node is filled.
Filled(t, x, s, y) == [t EXCEPT ![x].kids[s] = y]

\* Filling one box of one node changes nothing else.
LEMMA KidPut ==
  ASSUME NEW t, t \in [DOMAIN t -> Nodes], NEW x \in DOMAIN t, NEW s \in Bit, NEW y \in Boxes,
         NEW u, u = Filled(t, x, s, y)
  PROVE  /\ u \in [DOMAIN t -> Nodes] /\ DOMAIN u = DOMAIN t
         /\ \A p \in DOMAIN t :
              /\ u[p].value = t[p].value /\ (p # x => u[p] = t[p])
              /\ \A b \in Bit : KidOf(u, p, b) = IF p = x /\ b = s THEN y ELSE KidOf(t, p, b)
<1> DEFINE node == t[x]
           new == [kids |-> [node.kids EXCEPT ![s] = y], value |-> node.value]
<1>1. node \in Nodes
  OBVIOUS
<1>2. node.kids \in [Bit -> Boxes] /\ node.value \in Values \cup {NoValue}
      /\ node = [kids |-> node.kids, value |-> node.value]
  BY <1>1 DEF Nodes
<1>3. [node EXCEPT !.kids = [node.kids EXCEPT ![s] = y]] = new
  BY <1>2
<1>4. new \in Nodes
  BY <1>2 DEF Nodes
<1>5. u = [t EXCEPT ![x] = [node EXCEPT !.kids = [node.kids EXCEPT ![s] = y]]]
  BY DEF Filled
<1> HIDE DEF new
<1>6. u = [t EXCEPT ![x] = new]
  BY <1>3, <1>5
<1>7. /\ u \in [DOMAIN t -> Nodes] /\ DOMAIN u = DOMAIN t
      /\ u[x] = new /\ \A p \in DOMAIN t : p # x => u[p] = t[p]
  BY <1>4, <1>6
<1>8. new.value = node.value /\ \A b \in Bit : new.kids[b] = IF b = s THEN y ELSE node.kids[b]
  BY <1>2 DEF new
<1>9. ASSUME NEW p \in DOMAIN t
      PROVE  /\ u[p].value = t[p].value /\ (p # x => u[p] = t[p])
             /\ \A b \in Bit : KidOf(u, p, b) = IF p = x /\ b = s THEN y ELSE KidOf(t, p, b)
  BY <1>7, <1>8 DEF KidOf
<1>10. QED
  BY <1>7, <1>9

\* Holds moves a box to the place of the current node, and changes nothing else.
LEMMA HoldsMoves ==
  ASSUME Trie(root, tree), arg \in Args, Path, NEW t, NEW y \in Boxes,
         t \in [DOMAIN t -> Nodes], Len(stack) # 1 => Parent \in DOMAIN t,
         \A p \in DOMAIN tree \cap DOMAIN t, b \in Bit : KidOf(t, p, b) = KidOf(tree, p, b),
         Holds(t, y)
  PROVE  /\ tree' \in [DOMAIN t -> Nodes] /\ DOMAIN tree' = DOMAIN t
         /\ Moved(root, tree, Here, y, root', tree')
         /\ \A p \in DOMAIN t : tree'[p].value = t[p].value
         /\ \A p \in DOMAIN t : Len(stack) = 1 \/ p # Parent => tree'[p] = t[p]
<1>1. Here \in DOMAIN tree /\ Here # Nil
  BY PathIs, NodeIsKeyed DEF Trie
<1>2. CASE Len(stack) = 1
  <2>1. root' = y /\ tree' = t /\ root = Here
    BY <1>2, PathIs DEF Holds
  <2>2. \A p \in DOMAIN tree, b \in Bit : KidOf(tree, p, b) # Here
    BY <1>1, <2>1, OnePlace
  <2>3. QED
    BY <1>2, <2>1, <2>2 DEF Moved
<1>3. CASE Len(stack) # 1
  <2> DEFINE s == Side(Parent, arg.k)
  <2>1. root' = root /\ tree' = Filled(t, Parent, s, y)
    BY <1>3 DEF Holds, Parent, Filled
  <2>2. Parent \in DOMAIN tree /\ s \in Bit /\ KidOf(tree, Parent, s) = Here /\ Parent \in DOMAIN t
    BY <1>3, PathIs
  <2> HIDE DEF s
  <2>3. /\ tree' \in [DOMAIN t -> Nodes] /\ DOMAIN tree' = DOMAIN t
        /\ \A p \in DOMAIN t :
             /\ tree'[p].value = t[p].value /\ (p # Parent => tree'[p] = t[p])
             /\ \A b \in Bit : KidOf(tree', p, b) = IF p = Parent /\ b = s THEN y ELSE KidOf(t, p, b)
    BY <2>1, <2>2, KidPut
  <2>4. root # Here
    BY <1>1, <2>2, OnePlace
  <2>5. \A p \in DOMAIN tree, b \in Bit : KidOf(tree, p, b) = Here <=> p = Parent /\ b = s
    BY <1>1, <2>2, OnePlace
  <2>6. ASSUME NEW p \in DOMAIN tree \cap DOMAIN tree', NEW b \in Bit
        PROVE  KidOf(tree', p, b) = IF KidOf(tree, p, b) = Here THEN y ELSE KidOf(tree, p, b)
    <3>1. p \in DOMAIN t /\ KidOf(t, p, b) = KidOf(tree, p, b)
      BY <2>3
    <3>2. KidOf(tree', p, b) = IF p = Parent /\ b = s THEN y ELSE KidOf(t, p, b)
      BY <2>3, <3>1
    <3>3. QED
      BY <2>5, <3>1, <3>2
  <2>7. Moved(root, tree, Here, y, root', tree')
    BY <2>1, <2>4, <2>6 DEF Moved
  <2>8. QED
    BY <1>3, <2>3, <2>7
<1>4. QED
  BY <1>2, <1>3

\* The beginning of a sequence.
LEMMA Front ==
  ASSUME NEW S, NEW s \in Seq(S), Len(s) # 0, NEW T,
         \A i \in 1..(Len(s) - 1) : s[i] \in T
  PROVE  LET f == SubSeq(s, 1, Len(s) - 1)
         IN f \in Seq(T) /\ Len(f) = Len(s) - 1 /\ \A i \in 1..(Len(s) - 1) : f[i] = s[i]
<1> DEFINE m == Len(s) - 1
           f == SubSeq(s, 1, m)
<1>1. m \in Nat /\ 1..m \subseteq 1..Len(s) /\ m <= Len(s)
  OBVIOUS
<1>2. f = [i \in 1..m |-> s[i]]
  BY <1>1
<1> HIDE DEF f
<1>3. \A i \in 1..m : f[i] = s[i]
  BY <1>2
<1>4. f \in [1..m -> T]
  BY <1>2, <1>3
<1>5. f \in Seq(T) /\ Len(f) = m
  BY <1>1, <1>4
<1>6. QED
  BY <1>3, <1>5 DEF f

\* remove's node gives way, or stays between its children.
LEMMA BecomesKeeps ==
  ASSUME Trie(root, tree), arg \in Args, Path, NEW node \in Nodes,
         node.kids = tree[Here].kids, node.value = NoValue, Becomes(node)
  PROVE  /\ Trie(root', tree')
         /\ DOMAIN tree \ {Here} \subseteq DOMAIN tree' /\ DOMAIN tree' \subseteq DOMAIN tree
         /\ \A p \in DOMAIN tree' : p # Here => tree'[p].value = tree[p].value
         /\ Here \in DOMAIN tree' =>
              tree'[Here].value = NoValue /\ \A b \in Bit : KidOf(tree', Here, b) # Nil
         /\ \A p \in DOMAIN tree' :
              p # Here /\ (Len(stack) = 1 \/ p # Parent) => tree'[p] = tree[p]
         /\ \E y : Moved(root, tree, Here, y, root', tree')
<1> DEFINE n == Pruned(Here, node)
<1>1. Here \in DOMAIN tree /\ Here # Nil /\ \A b \in Bit : KidOf(tree, Here, b) \in Boxes
  BY PathIs, NodeIsKeyed DEF Trie
<1>2. \A b \in Bit : node.kids[b] = KidOf(tree, Here, b) /\ KidOf(tree, Here, b) # Here
  <2>1. Here.len \in Nat
    BY <1>1, NodeIsKeyed DEF Trie
  <2>2. \A b \in Bit : KidOf(tree, Here, b) # Nil => Above(Here, KidOf(tree, Here, b))
    BY <1>1 DEF Trie, KidsRight
  <2>3. ASSUME NEW b \in Bit PROVE KidOf(tree, Here, b) # Here
    BY <1>1, <2>1, <2>2 DEF Above
  <2>4. \A b \in Bit : node.kids[b] = KidOf(tree, Here, b)
    BY DEF KidOf
  <2>5. QED
    BY <2>3, <2>4
<1>3. tree \in [DOMAIN tree -> Nodes] /\ DOMAIN tree \subseteq Prefixes
  BY DEF Trie, TrieShape
<1>4. Len(stack) # 1 => Parent \in DOMAIN tree /\ Parent # Here
  BY PathIs
<1>5. CASE \E b \in Bit : KidOf(tree, Here, 1 - b) = Nil
  <2> DEFINE t == [p \in DOMAIN tree \ {Here} |-> tree[p]]
  <2>1. PICK b \in Bit : KidOf(tree, Here, 1 - b) = Nil /\ n = KidOf(tree, Here, b)
    <3>1. 0 \in Bit /\ 1 \in Bit /\ 1 - 0 = 1 /\ 1 - 1 = 0 /\ \A b \in Bit : b = 0 \/ b = 1
      BY DEF Bit
    <3>2. node.kids[0] = KidOf(tree, Here, 0) /\ node.kids[1] = KidOf(tree, Here, 1)
      BY <1>2, <3>1
    <3>3. CASE KidOf(tree, Here, 0) = Nil
      BY <3>1, <3>2, <3>3 DEF Pruned
    <3>4. CASE KidOf(tree, Here, 0) # Nil
      <4>1. KidOf(tree, Here, 1) = Nil
        BY <1>5, <3>1, <3>4
      <4>2. QED
        BY <3>1, <3>2, <3>4, <4>1 DEF Pruned
    <3>5. QED
      BY <3>3, <3>4
  <2>2. n # Here /\ n \in Boxes
    BY <1>1, <1>2, <2>1
  <2>3. Holds(t, n)
    BY <2>2 DEF Becomes
  <2>4. t \in [DOMAIN t -> Nodes] /\ DOMAIN t = DOMAIN tree \ {Here}
        /\ \A p \in DOMAIN t : t[p] = tree[p]
    BY <1>3
  <2> HIDE DEF t, n
  <2>5. /\ tree' \in [DOMAIN t -> Nodes] /\ DOMAIN tree' = DOMAIN t
        /\ Moved(root, tree, Here, n, root', tree')
        /\ \A p \in DOMAIN t : tree'[p].value = t[p].value
        /\ \A p \in DOMAIN t : Len(stack) = 1 \/ p # Parent => tree'[p] = t[p]
    <3>1. Len(stack) # 1 => Parent \in DOMAIN t
      BY <1>4, <2>4
    <3>2. \A p \in DOMAIN tree \cap DOMAIN t, e \in Bit : KidOf(t, p, e) = KidOf(tree, p, e)
      BY <2>4 DEF KidOf
    <3>3. QED
      BY <2>2, <2>3, <2>4, <3>1, <3>2, HoldsMoves
  <2>6. TrieShape(tree') /\ DOMAIN tree' = DOMAIN tree \ {Here}
    BY <1>3, <2>4, <2>5 DEF TrieShape
  <2>7. Trie(root', tree')
    BY <1>1, <2>1, <2>5, <2>6, GivesWay
  <2>8. QED
    BY <2>4, <2>5, <2>6, <2>7
<1>6. CASE \A b \in Bit : KidOf(tree, Here, 1 - b) # Nil
  <2> DEFINE t == [tree EXCEPT ![Here] = node]
  <2>1. KidOf(tree, Here, 0) # Nil /\ KidOf(tree, Here, 1) # Nil
    BY <1>6 DEF Bit
  <2>2. n = Here
    BY <1>2, <2>1 DEF Pruned, Bit
  <2>3. Holds(t, Here)
    BY <2>2 DEF Becomes
  <2>4. /\ t \in [DOMAIN t -> Nodes] /\ DOMAIN t = DOMAIN tree /\ t[Here] = node
        /\ \A p \in DOMAIN t : p # Here => t[p] = tree[p]
    BY <1>1, <1>3
  <2> HIDE DEF t, n
  <2>5. \A p \in DOMAIN tree \cap DOMAIN t, e \in Bit : KidOf(t, p, e) = KidOf(tree, p, e)
    <3>1. \A e \in Bit : KidOf(t, Here, e) = KidOf(tree, Here, e)
      BY <1>2, <2>4 DEF KidOf
    <3>2. QED
      BY <2>4, <3>1 DEF KidOf
  <2>6. /\ tree' \in [DOMAIN t -> Nodes] /\ DOMAIN tree' = DOMAIN t
        /\ Moved(root, tree, Here, Here, root', tree')
        /\ \A p \in DOMAIN t : tree'[p].value = t[p].value
        /\ \A p \in DOMAIN t : Len(stack) = 1 \/ p # Parent => tree'[p] = t[p]
    <3>1. Here \in Boxes
      BY <1>1, <1>3 DEF Boxes, Prefixes
    <3>2. QED
      BY <1>4, <2>3, <2>4, <2>5, <3>1, HoldsMoves
  <2>7. TrieShape(tree') /\ DOMAIN tree' = DOMAIN tree
    BY <1>3, <2>4, <2>6 DEF TrieShape
  <2>8. \A p \in DOMAIN tree, b \in Bit : KidOf(tree', p, b) = KidOf(tree, p, b)
    BY <2>6, <2>7 DEF Moved
  <2>9. root' = root
    BY <2>6 DEF Moved
  <2>10. Trie(root', tree')
    BY <2>7, <2>8, <2>9, SameKids
  <2>11. tree'[Here].value = NoValue /\ \A b \in Bit : KidOf(tree', Here, b) # Nil
    <3>1. \A b \in Bit : KidOf(tree, Here, b) # Nil
      BY <2>1 DEF Bit
    <3>2. QED
      BY <1>1, <2>4, <2>6, <2>8, <3>1
  <2>12. QED
    BY <2>4, <2>6, <2>7, <2>10, <2>11
<1>7. QED
  BY <1>5, <1>6

\* Arithmetic of the indices of a stack without its last node.
LEMMA Indices ==
  ASSUME NEW n \in Nat \ {0}, n # 1
  PROVE  LET m == n - 1
         IN /\ m \in Nat \ {0} /\ m \in 1..m /\ 1..m \subseteq 1..n
            /\ \A i \in 1..m : i < n /\ i + 1 \in 1..n
            /\ \A i \in 1..(m - 1) : i \in 1..m /\ i + 1 \in 1..m
            /\ 1 \in 1..m /\ n \in 1..n
OBVIOUS

\* Back to the parent, which may have a new child.
LEMMA PathPops ==
  ASSUME Trie(root, tree), arg \in Args, Path, Len(stack) # 1, DOMAIN tree \ {Here} \subseteq DOMAIN tree',
         NEW y, Moved(root, tree, Here, y, root', tree'),
         arg' = arg, stack' = SubSeq(stack, 1, Len(stack) - 1)
  PROVE  Path' /\ Here' = Parent /\ Above(Parent, arg)
<1> DEFINE m == Len(stack) - 1
<1>1. /\ m \in Nat \ {0} /\ m \in 1..m /\ 1..m \subseteq 1..Len(stack)
      /\ \A i \in 1..m : i < Len(stack) /\ i + 1 \in 1..Len(stack)
      /\ \A i \in 1..(m - 1) : i \in 1..m /\ i + 1 \in 1..m
      /\ 1 \in 1..m /\ Len(stack) \in 1..Len(stack)
  <2>1. Len(stack) \in Nat \ {0}
    BY PathIs
  <2>2. QED
    BY <2>1, Indices
<1>2. \A i \in 1..Len(stack) : stack[i] \in DOMAIN tree /\ stack[i].len \in Nat
  BY PathIs, NodeIsKeyed DEF Trie
<1>3. \A i \in 1..m : stack[i] # Here
  BY <1>1, <1>2 DEF Path, Here
<1>4. \A i \in 1..m : stack[i] \in DOMAIN tree'
  BY <1>1, <1>2, <1>3
<1>5. stack' \in Seq(DOMAIN tree') /\ Len(stack') = m /\ \A i \in 1..m : stack'[i] = stack[i]
  BY <1>1, <1>4, PathIs, Front
<1> HIDE DEF m
<1>6. stack'[1] = root'
  BY <1>1, <1>3, <1>5 DEF Path, Moved
<1>7. ASSUME NEW i \in 1..(m - 1)
      PROVE  Above(stack'[i], arg) /\ KidOf(tree', stack'[i], Side(stack'[i], arg.k)) = stack'[i + 1]
  <2>1. i \in 1..m /\ i + 1 \in 1..m
    BY <1>1
  <2>2. Above(stack[i], arg) /\ KidOf(tree, stack[i], Side(stack[i], arg.k)) = stack[i + 1]
    BY <2>1 DEF Path, m
  <2>3. stack[i] \in DOMAIN tree \cap DOMAIN tree' /\ Keyed(stack[i])
    BY <1>1, <1>2, <1>4, <2>1, NodeIsKeyed DEF Trie
  <2>4. Side(stack[i], arg.k) \in Bit
    BY <2>2, <2>3, ArgIsKeyed, AboveCovers
  <2>5. KidOf(tree', stack[i], Side(stack[i], arg.k)) = stack[i + 1]
    BY <1>3, <2>1, <2>2, <2>3, <2>4 DEF Moved
  <2>6. QED
    BY <1>5, <2>1, <2>2, <2>5
<1>8. \A i, j \in 1..m : i < j => stack'[i].len < stack'[j].len
  BY <1>1, <1>5 DEF Path
<1>9. Path'
  BY <1>1, <1>5, <1>6, <1>7, <1>8 DEF Path
<1>10. Here' = Parent
  BY <1>1, <1>5 DEF Here, Parent, m
<1>11. QED
  BY <1>9, <1>10, PathIs

\* remove returns: only the parent may now lack what it needs.
LEMMA Back ==
  ASSUME Trie(root, tree), arg \in Args, Path, Returns,
         Trie(root', tree'), DOMAIN tree \ {Here} \subseteq DOMAIN tree',
         NEW y, Moved(root, tree, Here, y, root', tree'),
         \A p \in DOMAIN tree' : tree'[p].value = NoValue /\ (Len(stack) = 1 \/ p # Parent) =>
           \A b \in Bit : KidOf(tree', p, b) # Nil,
         table' = Ents(tree'), expected' = result'
  PROVE  TrieInv'
<1>1. CASE Len(stack) = 1
  <2>1. op' = "none"
    BY <1>1 DEF Returns, Done
  <2>2. NoneLoose'
    BY <1>1 DEF NoneLoose
  <2>3. QED
    BY <2>1, <2>2 DEF TrieInv
<1>2. CASE Len(stack) # 1
  <2>1. op' = "unwind" /\ stack' = SubSeq(stack, 1, Len(stack) - 1) /\ arg' = arg
    BY <1>2 DEF Returns
  <2>2. Path' /\ Here' = Parent /\ Above(Parent, arg)
    BY <1>2, <2>1, PathPops
  <2>3. Args' = Args
    BY DEF Args
  <2>4. UnwindInv'
    BY <2>1, <2>2, <2>3 DEF UnwindInv
  <2>5. NoneLoose'
    BY <1>2, <2>1, <2>2 DEF NoneLoose, Loose
  <2>6. QED
    BY <2>1, <2>4, <2>5 DEF TrieInv
<1>3. QED
  BY <1>1, <1>2

-----------------------------------------------------------------------------
(* Every step preserves the invariant.                                         *)

\* The empty table satisfies the invariant.
LEMMA TrieInvAtFirst == TrieInit => TrieInv
<1> SUFFICES ASSUME TrieInit PROVE TrieInv
  OBVIOUS
<1>1. root = Nil /\ tree = << >> /\ op = "none" /\ result = NoValue /\ table = << >> /\ expected = NoValue
  BY DEF TrieInit, PT!Init
<1>2. DOMAIN tree = {} /\ tree \in [DOMAIN tree -> Nodes]
  BY <1>1
<1>3. Trie(root, tree)
  BY <1>1, <1>2 DEF Trie, TrieShape, KidsRight, Finds, Rooted
<1>4. table = Ents(tree)
  <2>1. table = [n \in DOMAIN table |-> table[n]] /\ DOMAIN table = {}
    BY <1>1
  <2>2. QED
    BY <1>2, <2>1, EntsIs
<1>5. QED
  BY <1>1, <1>2, <1>3, <1>4 DEF TrieInv, NoneLoose

\* Between two calls.
LEMMA WhenIdle ==
  ASSUME TrieInv, Idle
  PROVE  /\ Trie(root, tree) /\ table = Ents(tree) /\ expected = result
         /\ \A p \in DOMAIN tree : tree[p].value = NoValue => \A b \in Bit : KidOf(tree, p, b) # Nil
         /\ root = Nil => DOMAIN tree = {}
         /\ root # Nil => root \in DOMAIN tree /\ \A q \in DOMAIN tree : Covers(root, q)
BY DEF TrieInv, Idle, NoneLoose, Loose, Trie, Rooted

\* The first insert makes the root.
LEMMA InsertFirstKeeps ==
  ASSUME TrieInv, NEW a \in Addresses, NEW len \in Lengths, NEW v \in Values, InsertFirst(a, len, v)
  PROVE  TrieInv'
<1> DEFINE n == Name(Under(a, len), len)
<1>1. /\ root = Nil /\ root' = n /\ tree' = [p \in {n} |-> Leaf(v)]
      /\ op' = "none" /\ result' = NoValue /\ Idle
      /\ expected' = PT!At(table, PT!Key(a, len))
      /\ table' = [k \in DOMAIN table \cup {PT!Key(a, len)} |-> IF k = PT!Key(a, len) THEN v ELSE table[k]]
  BY DEF InsertFirst, Done, PT!Insert
<1>2. n \in Prefixes /\ PT!Key(a, len) = n
  BY PrefixMade
<1> HIDE DEF n
<1>3. n # Nil /\ Keyed(n) /\ n.len \in Nat
  BY <1>2, PrefixIsKeyed, IpLookupTrieAssumption DEF Keyed, Lengths
<1>4. DOMAIN tree = {} /\ table = Ents(tree)
  BY <1>1, WhenIdle
<1>5. DOMAIN table = {} /\ expected' = NoValue
  BY <1>1, <1>2, <1>4, EntsAre
<1>6. Leaf(v) \in Nodes /\ Leaf(v).value = v /\ v # NoValue /\ \A b \in Bit : Leaf(v).kids[b] = Nil
  BY IpLookupTrieAssumption DEF Leaf, Nodes, Boxes
<1>7. DOMAIN tree' = {n} /\ tree'[n] = Leaf(v) /\ tree' \in [{n} -> Nodes]
  BY <1>1, <1>6
<1>8. Trie(root', tree')
  <2>1. TrieShape(tree') /\ KidsRight(tree')
    BY <1>2, <1>6, <1>7 DEF TrieShape, KidsRight, KidOf
  <2>2. Finds(tree')
    BY <1>3, <1>7 DEF Finds, Above
  <2>3. Rooted(root', tree')
    BY <1>1, <1>3, <1>7, CoversItself DEF Rooted
  <2>4. QED
    BY <2>1, <2>2, <2>3 DEF Trie
<1>9. table' = Ents(tree')
  <2>1. DOMAIN table' = {n} /\ table'[n] = v /\ table' = [k \in DOMAIN table' |-> table'[k]]
    BY <1>1, <1>2, <1>5
  <2>2. QED
    BY <1>6, <1>7, <2>1, EntsIs
<1>10. NoneLoose'
  BY <1>6, <1>7 DEF NoneLoose
<1>11. QED
  BY <1>1, <1>5, <1>8, <1>9, <1>10 DEF TrieInv

\* The first node of a call is the root.
LEMMA CallStarts ==
  ASSUME TrieInv, NEW o, NEW k \in Addresses, NEW len \in Lengths, NEW v \in Values \cup {NoValue},
         Call(o, k, len, v), root # Nil
  PROVE  /\ op' = o /\ arg' = [k |-> k, len |-> len, v |-> v]
         /\ stack' = <<root>> /\ Here' = root /\ Path' /\ arg' \in Args'
         /\ root' = root /\ tree' = tree /\ result' = NoValue
         /\ NoneLoose'
<1>1. /\ op' = o /\ arg' = [k |-> k, len |-> len, v |-> v] /\ stack' = <<root>>
      /\ root' = root /\ tree' = tree /\ result' = NoValue /\ Idle
  BY DEF Call
<1>2. root \in DOMAIN tree
  BY <1>1, WhenIdle
<1>3. stack' \in Seq(DOMAIN tree') /\ Len(stack') = 1 /\ stack'[1] = root
  BY <1>1, <1>2
<1>4. Path'
  BY <1>1, <1>3 DEF Path
<1>5. arg' \in Args'
  BY <1>1 DEF Args
<1>6. Here' = root
  BY <1>3 DEF Here
<1>7. NoneLoose'
  BY <1>1, WhenIdle DEF NoneLoose
<1>8. QED
  BY <1>1, <1>4, <1>5, <1>6, <1>7

\* insert is called on the root.
LEMMA InsertKeeps ==
  ASSUME TrieInv, NEW a \in Addresses, NEW len \in Lengths, NEW v \in Values, Insert(a, len, v)
  PROVE  TrieInv'
<1> DEFINE k == Under(a, len)
<1>1. /\ root # Nil /\ Call("insert", k, len, v) /\ Idle
      /\ expected' = PT!At(table, PT!Key(a, len))
      /\ table' = [m \in DOMAIN table \cup {PT!Key(a, len)} |-> IF m = PT!Key(a, len) THEN v ELSE table[m]]
  BY DEF Insert, PT!Insert, Call
<1>2. /\ k \in Addresses /\ Under(k, len) = k /\ PT!Key(a, len) = Name(k, len)
  <2>1. Name(k, len) \in Prefixes /\ Name(k, len).k = k
    BY PrefixMade DEF Name
  <2>2. k \in Addresses
    BY <2>1, PrefixIsKeyed DEF Keyed
  <2>3. QED
    BY <2>2, PrefixMade
<1> HIDE DEF k
<1>3. /\ op' = "insert" /\ arg' = [k |-> k, len |-> len, v |-> v] /\ Path' /\ arg' \in Args'
      /\ root' = root /\ tree' = tree /\ NoneLoose'
  BY <1>1, <1>2, CallStarts
<1>4. Goal' = Name(k, len) /\ arg'.v = v /\ arg'.k = Under(arg'.k, arg'.len)
  BY <1>2, <1>3 DEF Goal
<1>5. table = Ents(tree) /\ Trie(root, tree)
  BY <1>1, WhenIdle
<1>6. table' = With(Ents(tree'), Goal', arg'.v) /\ expected' = PT!At(Ents(tree'), Goal')
  BY <1>1, <1>2, <1>3, <1>4, <1>5 DEF With
<1>7. InsertInv'
  BY <1>3, <1>4, <1>6 DEF InsertInv
<1>8. QED
  BY <1>3, <1>5, <1>7 DEF TrieInv

\* remove is called on the root.
LEMMA RemoveKeeps ==
  ASSUME TrieInv, NEW a \in Addresses, NEW len \in Lengths, Remove(a, len)
  PROVE  TrieInv'
<1>1. /\ Call("remove", a, len, NoValue) /\ Idle
      /\ expected' = PT!At(table, PT!Key(a, len))
      /\ table' = Without(table, PT!Key(a, len))
  BY DEF Remove, PT!Remove, PT!Restrict, Call, Without
<1>2. PT!Key(a, len) = Name(Under(a, len), len)
  BY PrefixMade
<1>3. table = Ents(tree) /\ Trie(root, tree)
  BY <1>1, WhenIdle
<1>4. CASE root = Nil
  <2>1. op' = "none" /\ root' = root /\ tree' = tree /\ result' = NoValue /\ DOMAIN tree = {}
    BY <1>1, <1>4, WhenIdle DEF Call, Done
  <2>2. expected' = NoValue
    BY <1>1, <1>3, <2>1, EntsAre
  <2>3. table' = [n \in DOMAIN table' |-> table'[n]] /\ DOMAIN table' = {}
    BY <1>1, <1>3, <2>1, EntsAre DEF Without
  <2>4. table' = Ents(tree')
    BY <2>1, <2>3, EntsIs
  <2>5. NoneLoose'
    BY <2>1 DEF NoneLoose
  <2>6. QED
    BY <1>3, <2>1, <2>2, <2>4, <2>5 DEF TrieInv
<1>5. CASE root # Nil
  <2>1. /\ op' = "remove" /\ arg' = [k |-> a, len |-> len, v |-> NoValue] /\ Path' /\ arg' \in Args'
        /\ root' = root /\ tree' = tree /\ NoneLoose' /\ result' = NoValue
    BY <1>1, <1>5, CallStarts
  <2>2. Goal' = PT!Key(a, len)
    BY <1>2, <2>1 DEF Goal
  <2>3. table' = Without(Ents(tree'), Goal') /\ expected' = PT!At(Ents(tree'), Goal')
    BY <1>1, <1>3, <2>1, <2>2
  <2>4. RemoveInv'
    BY <2>1, <2>3 DEF RemoveInv
  <2>5. QED
    BY <1>3, <2>1, <2>4 DEF TrieInv
<1>6. QED
  BY <1>4, <1>5

\* longest_match is called on the root.
LEMMA LongestMatchKeeps ==
  ASSUME TrieInv, NEW a \in Addresses, LongestMatch(a)
  PROVE  TrieInv'
<1>1. /\ Call("match", a, Bits, NoValue) /\ Idle
      /\ expected' = PT!LongestMatch(table, a) /\ table' = table
  BY DEF LongestMatch, PT!Match, Call
<1>2. table = Ents(tree) /\ Trie(root, tree)
  BY <1>1, WhenIdle
<1>3. Bits \in Lengths
  BY IpLookupTrieAssumption DEF Lengths
<1>4. CASE root = Nil
  <2>1. op' = "none" /\ root' = root /\ tree' = tree /\ result' = NoValue /\ DOMAIN tree = {}
    BY <1>1, <1>4, WhenIdle DEF Call, Done
  <2>2. DOMAIN table = {}
    BY <1>2, <2>1, EntsAre
  <2>3. expected' = NoValue
    BY <1>1, <2>2 DEF PT!LongestMatch
  <2>4. NoneLoose'
    BY <2>1 DEF NoneLoose
  <2>5. QED
    BY <1>1, <1>2, <2>1, <2>3, <2>4 DEF TrieInv
<1>5. CASE root # Nil
  <2>1. /\ op' = "match" /\ arg' = [k |-> a, len |-> Bits, v |-> NoValue] /\ arg' \in Args'
        /\ root' = root /\ tree' = tree /\ NoneLoose' /\ result' = NoValue
        /\ stack' = <<root>> /\ Here' = root
    BY <1>1, <1>3, <1>5, CallStarts
  <2>2. root \in DOMAIN tree /\ root.len \in Nat /\ \A q \in DOMAIN tree : Covers(root, q) /\ q.len \in Nat
    BY <1>1, <1>2, <1>5, WhenIdle, NodeIsKeyed DEF Trie
  <2>3. Whole(arg')
    BY <1>3, <2>1 DEF Whole, Keyed
  <2>4. Best(tree', arg', root.len, NoValue)
    BY <2>1, <2>2 DEF Best, Covers
  <2>5. MatchInv'
    BY <1>1, <1>2, <2>1, <2>2, <2>3, <2>4 DEF MatchInv
  <2>6. QED
    BY <1>2, <2>1, <2>5 DEF TrieInv
<1>6. QED
  BY <1>4, <1>5

\* The iterator starts at the root.
LEMMA IterKeeps ==
  ASSUME TrieInv, Iter
  PROVE  TrieInv'
<1>1. /\ Idle /\ op' = "iter" /\ stack' = (IF root = Nil THEN << >> ELSE <<root>>)
      /\ listed' = << >>
      /\ UNCHANGED <<root, tree, arg, result, table, expected>>
  BY DEF Iter
<1>2. table = Ents(tree) /\ Trie(root, tree) /\ expected = result
  BY <1>1, WhenIdle
<1>3. NoneLoose'
  BY <1>1, WhenIdle DEF NoneLoose
<1>4. listed' \in Seq([name : DOMAIN tree', value : Values']) /\ Len(listed') = 0
  BY <1>1
<1>5. IterInv'
  <2>1. CASE root = Nil
    <3>1. stack' \in Seq(DOMAIN tree') /\ Len(stack') = 0 /\ DOMAIN tree' = {}
      BY <1>1, <2>1, WhenIdle
    <3>2. QED
      BY <1>4, <3>1 DEF IterInv
  <2>2. CASE root # Nil
    <3>1. root \in DOMAIN tree /\ \A q \in DOMAIN tree : Covers(root, q)
      BY <1>1, <2>2, WhenIdle
    <3>2. stack' \in Seq(DOMAIN tree') /\ Len(stack') = 1 /\ stack'[1] = root /\ tree' = tree
      BY <1>1, <2>2, <3>1
    <3>3. \A q \in DOMAIN tree' : ToCome(q)'
      BY <3>1, <3>2 DEF ToCome
    <3>4. \A i, j \in 1..Len(stack') : i = j
      BY <3>2
    <3>5. QED
      BY <1>4, <3>2, <3>3, <3>4 DEF IterInv
  <2>3. QED
    BY <2>1, <2>2
<1>6. QED
  BY <1>1, <1>2, <1>3, <1>5 DEF TrieInv

\* remove.
LEMMA GoalIsBelow ==
  ASSUME Trie(root, tree), arg \in Args, Path, Goal \in DOMAIN tree
  PROVE  Matched(Here) \/ (Below(Here) /\ Kid # Nil)
<1>1. Here \in DOMAIN tree /\ Here \in Prefixes /\ Goal \in Prefixes
  BY PathIs, GoalIs
<1>2. Covers(Here, Goal)
  <2>1. CASE Len(stack) = 1
    <3>1. Here = root /\ root # Nil
      BY <2>1, PathIs DEF Trie, Rooted
    <3>2. QED
      BY <3>1 DEF Trie, Rooted
  <2>2. CASE Len(stack) # 1
    <3>1. /\ Parent \in DOMAIN tree /\ Above(Parent, arg)
          /\ KidOf(tree, Parent, Side(Parent, arg.k)) = Here
      BY <2>2, PathIs
    <3>2. Above(Parent, Goal) /\ Side(Parent, Goal.k) = Side(Parent, arg.k)
      BY <3>1, GoalIs DEF Trie, TrieShape
    <3>3. QED
      BY <3>1, <3>2 DEF Trie, Finds
  <2>3. QED
    BY <2>1, <2>2
<1>3. Here = Goal => Matched(Here)
  BY <1>1, GoalIs
<1>4. Above(Here, Goal) => Below(Here) /\ Side(Here, Goal.k) = Side(Here, arg.k)
  BY <1>1, GoalIs
<1>5. Above(Here, Goal) => KidOf(tree, Here, Side(Here, Goal.k)) # Nil
  BY <1>1 DEF Trie, Finds
<1>6. Above(Here, Goal) => Kid # Nil
  BY <1>4, <1>5 DEF Kid, KidOf
<1>7. QED
  BY <1>1, <1>2, <1>3, <1>4, <1>6, CoversOrIs

\* Where no node has the name, the reference removes nothing either.
LEMMA NothingToRemove ==
  ASSUME RemoveInv, Goal \notin DOMAIN tree
  PROVE  table = Ents(tree) /\ expected = result
<1>1. Goal \notin DOMAIN Ents(tree) /\ expected = NoValue
  BY EntsAre DEF RemoveInv
<1>2. table = [m \in DOMAIN Ents(tree) |-> Ents(tree)[m]]
  BY <1>1 DEF RemoveInv, Without
<1>3. Ents(tree) = [m \in DOMAIN Ents(tree) |-> Ents(tree)[m]]
  BY DEF Ents
<1>4. QED
  BY <1>1, <1>2, <1>3 DEF RemoveInv

\* remove takes the value of the node, which may give way to its child.
LEMMA RemoveFindsKeeps ==
  ASSUME TrieInv, RemoveFinds
  PROVE  TrieInv'
<1> DEFINE node == [tree[Here] EXCEPT !.value = NoValue]
<1>1. /\ Matched(Here) /\ result' = tree[Here].value /\ Becomes(node) /\ Returns
      /\ table' = table /\ expected' = expected /\ op = "remove"
  BY DEF RemoveFinds
<1>2. /\ Trie(root, tree) /\ NoneLoose /\ Path /\ arg \in Args
      /\ table = Without(Ents(tree), Goal) /\ expected = PT!At(Ents(tree), Goal)
  BY <1>1 DEF TrieInv, RemoveInv
<1>3. Here \in DOMAIN tree /\ Here = Goal
  BY <1>1, <1>2, PathIs, GoalIs
<1>4. tree[Here] = [kids |-> tree[Here].kids, value |-> tree[Here].value]
      /\ tree[Here].kids \in [Bit -> Boxes]
  BY <1>2, <1>3, NodeIsKeyed DEF Trie
<1>5. node = [kids |-> tree[Here].kids, value |-> NoValue]
  BY <1>4
<1>6. node \in Nodes /\ node.kids = tree[Here].kids /\ node.value = NoValue
  BY <1>4, <1>5 DEF Nodes
<1> HIDE DEF node
<1>7. /\ Trie(root', tree')
      /\ DOMAIN tree \ {Here} \subseteq DOMAIN tree' /\ DOMAIN tree' \subseteq DOMAIN tree
      /\ \A p \in DOMAIN tree' : p # Here => tree'[p].value = tree[p].value
      /\ Here \in DOMAIN tree' =>
           tree'[Here].value = NoValue /\ \A b \in Bit : KidOf(tree', Here, b) # Nil
      /\ \A p \in DOMAIN tree' :
           p # Here /\ (Len(stack) = 1 \/ p # Parent) => tree'[p] = tree[p]
      /\ \E y : Moved(root, tree, Here, y, root', tree')
  BY <1>1, <1>2, <1>6, BecomesKeeps
<1>8. ASSUME NEW p \in DOMAIN tree', tree'[p].value = NoValue, Len(stack) = 1 \/ p # Parent
      PROVE  \A b \in Bit : KidOf(tree', p, b) # Nil
  <2>1. CASE p = Here
    BY <1>7, <2>1
  <2>2. CASE p # Here
    <3>1. p \in DOMAIN tree /\ tree'[p] = tree[p] /\ ~Loose(p)
      BY <1>7, <1>8, <2>2 DEF Loose
    <3>2. \A b \in Bit : KidOf(tree, p, b) # Nil
      BY <1>2, <1>8, <3>1 DEF NoneLoose
    <3>3. QED
      BY <3>1, <3>2 DEF KidOf
  <2>3. QED
    BY <2>1, <2>2
<1>9. table' = Ents(tree')
  <2>1. table' = [n \in DOMAIN table' |-> table'[n]]
    BY <1>1, <1>2 DEF Without
  <2>2. \A n : n \in DOMAIN table' <=> n \in DOMAIN tree' /\ tree'[n].value # NoValue
    BY <1>1, <1>2, <1>3, <1>7, EntsAre DEF Without
  <2>3. \A n \in DOMAIN table' : table'[n] = tree'[n].value
    BY <1>1, <1>2, <1>3, <1>7, EntsAre, <2>2 DEF Without
  <2>4. QED
    BY <2>1, <2>2, <2>3, EntsIs
<1>10. expected' = result'
  BY <1>1, <1>2, <1>3, EntsAre
<1>11. QED
  BY <1>1, <1>2, <1>7, <1>8, <1>9, <1>10, Back

\* Nothing moves when the place of the current node is left as it is.
LEMMA Unmoved ==
  ASSUME UNCHANGED <<root, tree>>
  PROVE  Moved(root, tree, Here, Here, root', tree')
BY DEF Moved, KidOf

\* remove stops at a node that is neither the prefix nor above it.
LEMMA RemoveMissesKeeps ==
  ASSUME TrieInv, RemoveMisses
  PROVE  TrieInv'
<1>1. /\ ~Matched(Here) /\ ~Below(Here) /\ Returns /\ op = "remove"
      /\ UNCHANGED <<root, tree, result, listed, table, expected>>
  BY DEF RemoveMisses
<1>2. Trie(root, tree) /\ NoneLoose /\ RemoveInv
  BY <1>1 DEF TrieInv
<1>3. Path /\ arg \in Args
  BY <1>2 DEF RemoveInv
<1>4. Goal \notin DOMAIN tree
  BY <1>1, <1>2, <1>3, GoalIsBelow
<1>5. table = Ents(tree) /\ expected = result
  BY <1>2, <1>4, NothingToRemove
<1>6. Moved(root, tree, Here, Here, root', tree')
  BY <1>1, Unmoved
<1>7. \A p \in DOMAIN tree' : tree'[p].value = NoValue /\ (Len(stack) = 1 \/ p # Parent) =>
        \A b \in Bit : KidOf(tree', p, b) # Nil
  BY <1>1, <1>2 DEF NoneLoose, Loose
<1>8. Trie(root', tree') /\ table' = Ents(tree') /\ expected' = result' /\ DOMAIN tree \ {Here} \subseteq DOMAIN tree'
  BY <1>1, <1>2, <1>5
<1>9. QED
  BY <1>1, <1>2, <1>3, <1>6, <1>7, <1>8, Back

\* The indices of a sequence that became longer by one.
LEMMA OneMore ==
  ASSUME NEW n \in Nat, NEW j \in 1..(n + 1)
  PROVE  j \in 1..n \/ j = n + 1
OBVIOUS

\* Down to a child.
LEMMA PathPushes ==
  ASSUME Trie(root, tree), arg \in Args, Path, Below(Here), NEW n,
         root' = root, arg' = arg, stack' = Append(stack, n),
         n \in DOMAIN tree', DOMAIN tree \subseteq DOMAIN tree', n.len \in Nat, Here.len < n.len,
         KidOf(tree', Here, Side(Here, arg.k)) = n,
         \A p \in DOMAIN tree : p # Here => tree'[p] = tree[p]
  PROVE  Path' /\ Here' = n
<1> DEFINE m == Len(stack)
<1>1. m \in Nat \ {0} /\ stack \in Seq(DOMAIN tree) /\ stack \in Seq(DOMAIN tree')
  <2>1. m \in Nat \ {0} /\ stack \in Seq(DOMAIN tree)
    BY PathIs
  <2>2. QED
    BY <2>1
<1>2. \A i \in 1..m : stack[i] \in DOMAIN tree /\ stack[i].len \in Nat
  BY PathIs, NodeIsKeyed DEF Trie
<1>3. /\ stack' \in Seq(DOMAIN tree') /\ Len(stack') = m + 1 /\ stack'[m + 1] = n
      /\ \A i \in 1..m : stack'[i] = stack[i]
  BY <1>1
<1> HIDE DEF m
<1>4. 1 \in 1..m /\ m \in 1..m /\ m + 1 - 1 = m /\ Here = stack[m]
  BY <1>1 DEF Here, m
<1>5. stack'[1] = root' /\ Len(stack') > 0
  BY <1>1, <1>3, <1>4 DEF Path, m
<1>6. ASSUME NEW i \in 1..m
      PROVE  Above(stack'[i], arg) /\ KidOf(tree', stack'[i], Side(stack'[i], arg.k)) = stack'[i + 1]
  <2>1. CASE i = m
    <3>1. Above(Here, arg)
      BY PathIs, GoalIs
    <3>2. QED
      BY <1>3, <1>4, <2>1, <3>1
  <2>2. CASE i # m
    <3>1. i \in 1..(m - 1) /\ i + 1 \in 1..m /\ i < m
      BY <1>1, <2>2
    <3>2. /\ Above(stack[i], arg) /\ KidOf(tree, stack[i], Side(stack[i], arg.k)) = stack[i + 1]
          /\ stack[i].len < Here.len
      BY <1>4, <3>1 DEF Path, m
    <3>3. stack[i] # Here
      BY <1>2, <3>2
    <3>4. tree'[stack[i]] = tree[stack[i]]
      BY <1>2, <3>3
    <3>5. QED
      BY <1>3, <3>1, <3>2, <3>4 DEF KidOf
  <2>3. QED
    BY <2>1, <2>2
<1>7. ASSUME NEW i \in 1..(m + 1), NEW j \in 1..(m + 1), i < j
      PROVE  stack'[i].len < stack'[j].len
  <2>1. i \in 1..m
    <3>1. i \in 1..m \/ i = m + 1
      BY <1>1, OneMore
    <3>2. j <= m + 1 /\ i <= m + 1 /\ m \in Nat
      BY <1>1
    <3>3. QED
      BY <1>7, <3>1, <3>2
  <2>2. CASE j \in 1..m
    BY <1>3, <1>7, <2>1, <2>2 DEF Path, m
  <2>3. CASE j = m + 1
    <3>1. CASE i # m
      <4>1. i < m
        BY <1>1, <2>1, <3>1
      <4>2. stack[i].len < stack[m].len
        BY <1>4, <2>1, <4>1 DEF Path, m
      <4>3. QED
        BY <1>2, <1>3, <1>4, <2>1, <2>3, <4>2
    <3>2. CASE i = m
      BY <1>2, <1>3, <1>4, <2>1, <2>3, <3>2
    <3>3. QED
      BY <3>1, <3>2
  <2>4. j \in 1..m \/ j = m + 1
    BY <1>1, OneMore
  <2>5. QED
    BY <2>2, <2>3, <2>4
<1>8. Path'
  <2>1. Len(stack') - 1 = m
    BY <1>3, <1>4
  <2>2. \A i \in 1..(Len(stack') - 1) :
          Above(stack'[i], arg') /\ KidOf(tree', stack'[i], Side(stack'[i], arg'.k)) = stack'[i + 1]
    BY <1>6, <2>1
  <2>3. \A i, j \in 1..Len(stack') : i < j => stack'[i].len < stack'[j].len
    BY <1>3, <1>7
  <2>4. QED
    BY <1>3, <1>5, <2>2, <2>3 DEF Path
<1>9. Here' = n
  BY <1>3 DEF Here
<1>10. QED
  BY <1>8, <1>9

\* The child of the current node on the side of the argument.
LEMMA KidIs ==
  ASSUME Trie(root, tree), arg \in Args, Path, Below(Here)
  PROVE  /\ Above(Here, arg) /\ Side(Here, arg.k) \in Bit
         /\ Kid = KidOf(tree, Here, Side(Here, arg.k))
         /\ Kid # Nil => Kid \in DOMAIN tree /\ Kid.len \in Nat /\ Here.len < Kid.len
<1>1. Here \in DOMAIN tree /\ Here \in Prefixes
  BY PathIs
<1>2. Above(Here, arg) /\ Side(Here, arg.k) \in Bit
  BY <1>1, GoalIs
<1>3. Kid = KidOf(tree, Here, Side(Here, arg.k))
  BY DEF Kid, KidOf
<1>4. Kid # Nil => Kid \in DOMAIN tree /\ Above(Here, Kid)
  BY <1>1, <1>2, <1>3 DEF Trie, KidsRight
<1>5. QED
  BY <1>2, <1>3, <1>4, NodeIsKeyed DEF Trie, Above

\* remove goes to the child, or back if there is none.
LEMMA RemoveDescendsKeeps ==
  ASSUME TrieInv, RemoveDescends
  PROVE  TrieInv'
<1>1. /\ Below(Here) /\ op = "remove"
      /\ IF Kid = Nil THEN op' = "unwind" /\ UNCHANGED stack ELSE stack' = Append(stack, Kid) /\ UNCHANGED op
      /\ UNCHANGED <<root, tree, arg, result, listed, table, expected>>
  BY DEF RemoveDescends
<1>2. Trie(root, tree) /\ NoneLoose /\ RemoveInv
  BY <1>1 DEF TrieInv
<1>3. Path /\ arg \in Args /\ Here \in Prefixes
  BY <1>2, PathIs DEF RemoveInv
<1>4. ~Matched(Here)
  BY <1>1, <1>3, ArgIsKeyed DEF Matched, Below
<1>5. \A p \in DOMAIN tree : tree[p].value = NoValue => \A b \in Bit : KidOf(tree, p, b) # Nil
  BY <1>1, <1>2 DEF NoneLoose, Loose
<1>6. Trie(root', tree') /\ NoneLoose' /\ Args' = Args
  BY <1>1, <1>2, <1>5 DEF NoneLoose, Args
<1>7. CASE Kid = Nil
  <2>1. Goal \notin DOMAIN tree
    BY <1>2, <1>3, <1>4, <1>7, GoalIsBelow
  <2>2. table = Ents(tree) /\ expected = result
    BY <1>2, <2>1, NothingToRemove
  <2>3. Path' /\ Here' = Here /\ Above(Here, arg)
    BY <1>1, <1>2, <1>3, <1>7, KidIs DEF Path, Here
  <2>4. UnwindInv'
    BY <1>1, <1>3, <1>6, <2>2, <2>3 DEF UnwindInv
  <2>5. QED
    BY <1>1, <1>6, <1>7, <2>4 DEF TrieInv
<1>8. CASE Kid # Nil
  <2>1. Path'
    BY <1>1, <1>2, <1>3, <1>8, KidIs, PathPushes
  <2>2. RemoveInv'
    <3>1. Goal' = Goal
      BY <1>1 DEF Goal
    <3>2. QED
      BY <1>1, <1>2, <1>6, <2>1, <3>1 DEF RemoveInv
  <2>3. QED
    BY <1>1, <1>6, <1>8, <2>2 DEF TrieInv
<1>9. QED
  BY <1>7, <1>8

\* On the way back a parent that lost its child gives way as well.
LEMMA UnwindsKeeps ==
  ASSUME TrieInv, Unwinds
  PROVE  TrieInv'
<1>1. /\ op = "unwind" /\ Returns
      /\ IF tree[Here].value = NoValue THEN Becomes(tree[Here]) ELSE UNCHANGED <<root, tree>>
      /\ UNCHANGED <<result, listed, table, expected>>
  BY DEF Unwinds
<1>2. /\ Trie(root, tree) /\ NoneLoose /\ Path /\ arg \in Args
      /\ table = Ents(tree) /\ expected = result
  BY <1>1 DEF TrieInv, UnwindInv
<1>3. Here \in DOMAIN tree /\ tree[Here] \in Nodes
  BY <1>2, PathIs DEF Trie, TrieShape
<1>4. \A p \in DOMAIN tree :
        p # Here /\ tree[p].value = NoValue => \A b \in Bit : KidOf(tree, p, b) # Nil
  BY <1>1, <1>2 DEF NoneLoose, Loose
<1>5. CASE tree[Here].value = NoValue
  <2>1. /\ Trie(root', tree')
        /\ DOMAIN tree \ {Here} \subseteq DOMAIN tree' /\ DOMAIN tree' \subseteq DOMAIN tree
        /\ \A p \in DOMAIN tree' : p # Here => tree'[p].value = tree[p].value
        /\ Here \in DOMAIN tree' =>
             tree'[Here].value = NoValue /\ \A b \in Bit : KidOf(tree', Here, b) # Nil
        /\ \A p \in DOMAIN tree' :
             p # Here /\ (Len(stack) = 1 \/ p # Parent) => tree'[p] = tree[p]
        /\ \E y : Moved(root, tree, Here, y, root', tree')
    BY <1>1, <1>2, <1>3, <1>5, BecomesKeeps
  <2>2. ASSUME NEW p \in DOMAIN tree', tree'[p].value = NoValue, Len(stack) = 1 \/ p # Parent
        PROVE  \A b \in Bit : KidOf(tree', p, b) # Nil
    <3>1. CASE p = Here
      BY <2>1, <3>1
    <3>2. CASE p # Here
      BY <1>4, <2>1, <2>2, <3>2 DEF KidOf
    <3>3. QED
      BY <3>1, <3>2
  <2>3. table' = Ents(tree')
    <3>1. table' = [n \in DOMAIN table' |-> table'[n]]
      BY <1>1, <1>2 DEF Ents
    <3>2. \A n : n \in DOMAIN table' <=> n \in DOMAIN tree' /\ tree'[n].value # NoValue
      BY <1>1, <1>2, <1>5, <2>1, EntsAre
    <3>3. \A n \in DOMAIN table' : table'[n] = tree'[n].value
      BY <1>1, <1>2, <1>5, <2>1, EntsAre, <3>2
    <3>4. QED
      BY <3>1, <3>2, <3>3, EntsIs
  <2>4. expected' = result'
    BY <1>1, <1>2
  <2>5. QED
    BY <1>1, <1>2, <2>1, <2>2, <2>3, <2>4, Back
<1>6. CASE tree[Here].value # NoValue
  <2>1. UNCHANGED <<root, tree>>
    BY <1>1, <1>6
  <2>2. Moved(root, tree, Here, Here, root', tree')
    BY <2>1, Unmoved
  <2>3. \A p \in DOMAIN tree' : tree'[p].value = NoValue /\ (Len(stack) = 1 \/ p # Parent) =>
          \A b \in Bit : KidOf(tree', p, b) # Nil
    BY <1>4, <1>6, <2>1
  <2>4. Trie(root', tree') /\ table' = Ents(tree') /\ expected' = result' /\ DOMAIN tree \ {Here} \subseteq DOMAIN tree'
    BY <1>1, <1>2, <2>1
  <2>5. QED
    BY <1>1, <1>2, <2>2, <2>3, <2>4, Back
<1>7. QED
  BY <1>5, <1>6

\* insert.
LEMMA WithIs ==
  ASSUME NEW t, NEW u, NEW n, NEW v, DOMAIN Ents(u) = DOMAIN Ents(t) \cup {n}, u[n].value = v,
         \A p \in DOMAIN Ents(t) : p # n => u[p].value = t[p].value
  PROVE  With(Ents(t), n, v) = Ents(u)
<1> DEFINE f == With(Ents(t), n, v)
<1>1. /\ f = [p \in DOMAIN f |-> f[p]] /\ DOMAIN f = DOMAIN Ents(t) \cup {n}
      /\ \A p \in DOMAIN f : f[p] = IF p = n THEN v ELSE Ents(t)[p]
  BY DEF With
<1> HIDE DEF f
<1>2. \A p : p \in DOMAIN f <=> p \in DOMAIN u /\ u[p].value # NoValue
  BY <1>1, EntsAre
<1>3. \A p \in DOMAIN f : f[p] = u[p].value
  BY <1>1, <1>2, EntsAre
<1>4. f = Ents(u)
  BY <1>1, <1>2, <1>3, EntsIs
<1>5. QED
  BY <1>4 DEF f

\* insert at the node of the prefix puts its value there.
LEMMA InsertReplacesKeeps ==
  ASSUME TrieInv, InsertReplaces
  PROVE  TrieInv'
<1>1. /\ op = "insert" /\ Matched(Here) /\ result' = tree[Here].value
      /\ tree' = [tree EXCEPT ![Here].value = arg.v] /\ op' = "none"
      /\ UNCHANGED <<root, listed, table, expected>>
  BY DEF InsertReplaces, Done
<1>2. Trie(root, tree) /\ NoneLoose /\ InsertInv
  BY <1>1 DEF TrieInv
<1>3. /\ Path /\ arg \in Args /\ arg.v \in Values /\ arg.v # NoValue
      /\ table = With(Ents(tree), Goal, arg.v) /\ expected = PT!At(Ents(tree), Goal)
  BY <1>2, IpLookupTrieAssumption DEF InsertInv
<1>4. Here \in DOMAIN tree /\ Here = Goal
  BY <1>1, <1>2, <1>3, PathIs, GoalIs
<1>5. /\ tree[Here] = [kids |-> tree[Here].kids, value |-> tree[Here].value]
      /\ tree[Here].kids \in [Bit -> Boxes]
  BY <1>2, <1>4, NodeIsKeyed DEF Trie
<1> DEFINE node == [tree[Here] EXCEPT !.value = arg.v]
<1>6. node = [kids |-> tree[Here].kids, value |-> arg.v]
  BY <1>5
<1>7. node \in Nodes /\ node.kids = tree[Here].kids /\ node.value = arg.v
  BY <1>3, <1>5, <1>6 DEF Nodes
<1>8. tree' = [tree EXCEPT ![Here] = node]
  BY <1>1
<1> HIDE DEF node
<1>9. tree \in [DOMAIN tree -> Nodes] /\ DOMAIN tree \subseteq Prefixes
  BY <1>2 DEF Trie, TrieShape
<1>10. /\ tree' \in [DOMAIN tree -> Nodes] /\ DOMAIN tree' = DOMAIN tree /\ tree'[Here] = node
       /\ \A p \in DOMAIN tree : p # Here => tree'[p] = tree[p]
  BY <1>4, <1>7, <1>8, <1>9
<1>11. \A p \in DOMAIN tree, b \in Bit : KidOf(tree', p, b) = KidOf(tree, p, b)
  <2>1. \A b \in Bit : KidOf(tree', Here, b) = KidOf(tree, Here, b)
    BY <1>7, <1>10 DEF KidOf
  <2>2. QED
    BY <1>10, <2>1 DEF KidOf
<1>12. Trie(root', tree')
  BY <1>1, <1>2, <1>9, <1>10, <1>11, SameKids DEF TrieShape
<1>13. table' = Ents(tree')
  <2>1. Here \in DOMAIN tree' /\ tree'[Here].value = arg.v
    BY <1>4, <1>7, <1>10
  <2>2. DOMAIN Ents(tree') = DOMAIN Ents(tree) \cup {Here}
    <3>1. \A p : p \in DOMAIN Ents(tree') <=> p \in DOMAIN tree' /\ tree'[p].value # NoValue
      BY EntsAre
    <3>2. \A p : p \in DOMAIN Ents(tree) <=> p \in DOMAIN tree /\ tree[p].value # NoValue
      BY EntsAre
    <3>3. tree'[Here].value # NoValue /\ Here \in DOMAIN tree'
      BY <1>3, <2>1
    <3>4. \A p : p # Here => (p \in DOMAIN Ents(tree') <=> p \in DOMAIN Ents(tree))
      BY <1>10, <3>1, <3>2
    <3>5. Here \in DOMAIN Ents(tree')
      BY <3>1, <3>3
    <3>6. QED
      BY <3>4, <3>5
  <2>3. \A p \in DOMAIN Ents(tree) : p # Here => tree'[p].value = tree[p].value
    BY <1>10, EntsAre
  <2>4. With(Ents(tree), Here, arg.v) = Ents(tree')
    BY <2>1, <2>2, <2>3, WithIs
  <2>5. QED
    BY <1>1, <1>3, <1>4, <2>4
<1>14. expected' = result'
  BY <1>1, <1>3, <1>4, EntsAre
<1>15. NoneLoose'
  <2>1. ASSUME NEW p \in DOMAIN tree', tree'[p].value = NoValue
        PROVE  \A b \in Bit : KidOf(tree', p, b) # Nil
    <3>1. p # Here /\ p \in DOMAIN tree /\ tree[p].value = NoValue
      BY <1>3, <1>7, <1>10, <2>1
    <3>2. \A b \in Bit : KidOf(tree, p, b) # Nil
      BY <1>2, <3>1 DEF NoneLoose, Loose
    <3>3. QED
      BY <1>11, <3>1, <3>2
  <2>2. QED
    BY <2>1 DEF NoneLoose
<1>16. QED
  BY <1>1, <1>12, <1>13, <1>14, <1>15 DEF TrieInv

\* insert goes to the child, which it makes if there is none.
LEMMA InsertDescendsKeeps ==
  ASSUME TrieInv, InsertDescends
  PROVE  TrieInv'
<1> DEFINE new == Name(arg.k, arg.len)
           s == Side(Here, arg.k)
           t == [p \in DOMAIN tree \cup {new} |-> IF p = new THEN Leaf(NoValue) ELSE tree[p]]
<1>1. /\ op = "insert" /\ Below(Here)
      /\ IF Kid # Nil THEN stack' = Append(stack, Kid) /\ UNCHANGED tree
         ELSE stack' = Append(stack, new) /\ tree' = Filled(t, Here, s, new)
      /\ UNCHANGED <<root, op, arg, result, listed, table, expected>>
  BY DEF InsertDescends, Filled
<1>2. Trie(root, tree) /\ NoneLoose /\ InsertInv
  BY <1>1 DEF TrieInv
<1>3. /\ Path /\ arg \in Args /\ arg.v \in Values /\ arg.k = Under(arg.k, arg.len)
      /\ table = With(Ents(tree), Goal, arg.v) /\ expected = PT!At(Ents(tree), Goal)
  BY <1>2 DEF InsertInv
<1>4. Here \in DOMAIN tree /\ Here \in Prefixes
  BY <1>2, <1>3, PathIs
<1>5. ~Matched(Here)
  BY <1>1, <1>3, ArgIsKeyed DEF Matched, Below
<1>6. \A p \in DOMAIN tree : tree[p].value = NoValue => \A b \in Bit : KidOf(tree, p, b) # Nil
  BY <1>2, <1>5, <1>1 DEF NoneLoose, Loose
<1>7. Goal' = Goal /\ Args' = Args
  BY <1>1 DEF Goal, Args
<1>8. CASE Kid # Nil
  <2>1. UNCHANGED tree /\ stack' = Append(stack, Kid)
    BY <1>1, <1>8
  <2>2. Path'
    BY <1>1, <1>2, <1>3, <1>8, <2>1, KidIs, PathPushes
  <2>3. InsertInv'
    BY <1>1, <1>3, <1>7, <2>1, <2>2 DEF InsertInv
  <2>4. NoneLoose'
    BY <1>6, <2>1 DEF NoneLoose
  <2>5. QED
    BY <1>1, <1>2, <2>1, <2>3, <2>4 DEF TrieInv
<1>9. CASE Kid = Nil
  <2>1. tree' = Filled(t, Here, s, new) /\ stack' = Append(stack, new)
    BY <1>1, <1>9
  <2>2. new = Goal /\ new \in Prefixes /\ new.len \in Nat /\ new # Nil /\ Keyed(new)
    BY <1>3, GoalIs
  <2>3. Above(Here, new) /\ Side(Here, new.k) = s /\ s \in Bit /\ Here.len < new.len
    BY <1>1, <1>3, <1>4, <2>2, GoalIs DEF Above
  <2>4. KidOf(tree, Here, s) = Nil
    BY <1>9 DEF Kid, KidOf
  <2>5. tree \in [DOMAIN tree -> Nodes] /\ DOMAIN tree \subseteq Prefixes
    BY <1>2 DEF Trie, TrieShape
  <2>6. Leaf(NoValue) \in Nodes /\ Leaf(NoValue).value = NoValue /\ \A b \in Bit : Leaf(NoValue).kids[b] = Nil
    BY DEF Leaf, Nodes, Boxes
  <2> HIDE DEF new, s
  <2>7. /\ t \in [DOMAIN t -> Nodes] /\ DOMAIN t = DOMAIN tree \cup {new}
        /\ t[new] = Leaf(NoValue) /\ \A p \in DOMAIN tree : p # new => t[p] = tree[p]
    BY <2>5, <2>6
  <2> HIDE DEF t
  <2>8. new \in Boxes /\ Here # new /\ Here \in DOMAIN t
    <3>1. Here.len \in Nat
      BY <1>2, <1>4, NodeIsKeyed DEF Trie
    <3>2. QED
      BY <1>4, <2>2, <2>3, <2>7, <3>1 DEF Boxes, Prefixes
  <2>9. /\ tree' \in [DOMAIN t -> Nodes] /\ DOMAIN tree' = DOMAIN t
        /\ \A p \in DOMAIN t :
             /\ tree'[p].value = t[p].value /\ (p # Here => tree'[p] = t[p])
             /\ \A b \in Bit : KidOf(tree', p, b) = IF p = Here /\ b = s THEN new ELSE KidOf(t, p, b)
    <3>1. t \in [DOMAIN t -> Nodes] /\ Here \in DOMAIN t /\ s \in Bit /\ new \in Boxes
      BY <2>3, <2>7, <2>8
    <3>2. QED
      BY <2>1, <3>1, KidPut
  <2>10. new \notin DOMAIN tree
    <3>1. new \in DOMAIN tree => Kid # Nil
      BY <1>2, <1>3, <1>5, <2>2, GoalIsBelow
    <3>2. QED
      BY <1>9, <3>1
  <2>11. \A p \in DOMAIN tree, b \in Bit :
           KidOf(tree', p, b) = IF p = Here /\ b = s THEN new ELSE KidOf(tree, p, b)
    BY <2>7, <2>9, <2>10 DEF KidOf
  <2>12. \A b \in Bit : KidOf(tree', new, b) = Nil
    BY <2>6, <2>7, <2>8, <2>9 DEF KidOf
  <2>13. TrieShape(tree') /\ DOMAIN tree' = DOMAIN tree \cup {new}
    BY <2>2, <2>5, <2>7, <2>9 DEF TrieShape
  <2>14. Trie(root', tree')
    <3>1. KidOf(tree, Here, Side(Here, new.k)) = Nil
      BY <2>3, <2>4
    <3>2. \A q \in DOMAIN tree, b \in Bit :
            KidOf(tree', q, b) = IF q = Here /\ b = Side(Here, new.k) THEN new ELSE KidOf(tree, q, b)
      BY <2>3, <2>11
    <3>3. Above(Here, new) /\ root' = root
      BY <1>1, <2>3
    <3>4. QED
      BY <1>2, <1>4, <2>2, <2>12, <2>13, <3>1, <3>2, <3>3, LeafAdded
  <2>15. /\ tree'[new].value = NoValue
         /\ \A p \in DOMAIN tree : tree'[p].value = tree[p].value /\ (p # Here => tree'[p] = tree[p])
    BY <2>6, <2>7, <2>9, <2>10
  <2>16. Ents(tree) = Ents(tree')
    <3>1. Ents(tree) = [n \in DOMAIN Ents(tree) |-> Ents(tree)[n]]
      BY DEF Ents
    <3>2. \A n : n \in DOMAIN Ents(tree) <=> n \in DOMAIN tree' /\ tree'[n].value # NoValue
      BY <2>13, <2>15, EntsAre
    <3>3. \A n \in DOMAIN Ents(tree) : Ents(tree)[n] = tree'[n].value
      BY <2>15, EntsAre
    <3>4. QED
      BY <3>1, <3>2, <3>3, EntsIs
  <2>17. Path' /\ Here' = new
    <3>1. KidOf(tree', Here, s) = new /\ new \in DOMAIN tree' /\ DOMAIN tree \subseteq DOMAIN tree'
      BY <1>4, <2>3, <2>11, <2>13
    <3>2. root' = root /\ arg' = arg
      BY <1>1
    <3>3. QED
      BY <1>1, <1>2, <1>3, <2>1, <2>2, <2>3, <2>15, <3>1, <3>2, PathPushes DEF s
  <2>18. InsertInv'
    BY <1>1, <1>3, <1>7, <2>16, <2>17 DEF InsertInv
  <2>19. NoneLoose'
    <3>1. ASSUME NEW p \in DOMAIN tree', tree'[p].value = NoValue, ~Loose(p)'
          PROVE  \A b \in Bit : KidOf(tree', p, b) # Nil
      <4>1. Matched(new) /\ op' = "insert" /\ arg' = arg
        BY <1>1, <1>3, <2>2, GoalIs
      <4>2. p = new => p.len = arg'.len /\ Agree(p.k, arg'.k, arg'.len)
        BY <4>1 DEF Matched
      <4>3. p # new
        BY <2>17, <3>1, <4>1, <4>2 DEF Loose, Matched
      <4>4. p \in DOMAIN tree /\ tree[p].value = NoValue
        BY <2>13, <2>15, <3>1, <4>3
      <4>5. QED
        BY <1>6, <2>2, <2>11, <4>4
    <3>2. QED
      BY <3>1 DEF NoneLoose
  <2>20. QED
    BY <1>1, <2>14, <2>18, <2>19 DEF TrieInv
<1>10. QED
  BY <1>8, <1>9

\* Where insert splits: above the current node, below its place.
LEMMA SplitAt ==
  ASSUME Trie(root, tree), arg \in Args, Path, arg.k = Under(arg.k, arg.len),
         ~Matched(Here), ~Below(Here),
         NEW len, len = CommonPrefixLen(Here.k, Here.len, arg.k, arg.len),
         NEW up, up = Name(Under(Here.k, len), len)
  PROVE  /\ up \in Prefixes /\ up \notin DOMAIN tree
         /\ Above(up, Here) /\ PlaceAbove(root, tree, Here, up) /\ Side(up, Here.k) \in Bit
         /\ len = arg.len => up = Goal
         /\ len # arg.len => Above(up, Goal) /\ Side(up, Goal.k) \in Bit \ {Side(up, Here.k)}
         /\ Goal \notin DOMAIN tree
<1>1. Here \in DOMAIN tree /\ Here \in Prefixes /\ Keyed(Here) /\ Here.len \in Nat
  BY PathIs, NodeIsKeyed DEF Trie
<1>2. Keyed(arg) /\ arg.len \in Nat
  BY ArgIsKeyed
<1>3. /\ len \in Lengths /\ len <= Here.len /\ len <= arg.len /\ Agree(Here.k, arg.k, len)
      /\ len = Here.len \/ len = arg.len \/ Here.k[len + 1] # arg.k[len + 1]
  BY <1>1, <1>2, CommonPrefix
<1>4. len \in Nat
  BY <1>3, IpLookupTrieAssumption DEF Lengths
<1>5. len < Here.len
  <2>1. len = Here.len => Matched(Here) \/ Below(Here)
    BY <1>1, <1>2, <1>3 DEF Matched, Below
  <2>2. QED
    BY <1>1, <1>3, <1>4, <2>1
<1>6. up \in Prefixes /\ up.len = len /\ up.k = Under(Here.k, len) /\ Agree(up.k, Here.k, len)
  <2>1. Here.k \in Addresses
    BY <1>1 DEF Keyed
  <2>2. up.len = len /\ up.k = Under(Here.k, len)
    BY DEF Name
  <2>3. QED
    BY <1>3, <2>1, <2>2, PrefixMade
<1>7. Keyed(up)
  BY <1>6, PrefixIsKeyed
<1>8. Above(up, Here) /\ Side(up, Here.k) \in Bit
  BY <1>1, <1>5, <1>6, <1>7, AboveCovers DEF Above
<1>9. /\ Goal \in Prefixes /\ Keyed(Goal) /\ Goal.len = arg.len /\ Goal.k = arg.k
      /\ ~Matched(Here) => Here # Goal
  BY <1>1, GoalIs
<1>10. Agree(up.k, Goal.k, len)
  BY <1>3, <1>6, <1>9 DEF Agree
<1>11. len = arg.len => up = Goal
  BY <1>6, <1>9, <1>10, SamePrefix
<1>12. ASSUME len # arg.len
       PROVE  Above(up, Goal) /\ Side(up, Goal.k) \in Bit \ {Side(up, Here.k)}
  <2>1. Above(up, Goal)
    BY <1>2, <1>3, <1>4, <1>6, <1>9, <1>10, <1>12 DEF Above
  <2>2. Side(up, Goal.k) \in Bit
    BY <1>7, <1>9, <2>1, AboveCovers
  <2>3. Side(up, Goal.k) # Side(up, Here.k)
    BY <1>1, <1>3, <1>4, <1>5, <1>6, <1>9, <1>12 DEF Side
  <2>4. QED
    BY <2>1, <2>2, <2>3
<1>13. PlaceAbove(root, tree, Here, up)
  <2>1. CASE Len(stack) = 1
    BY <2>1, PathIs DEF PlaceAbove
  <2>2. CASE Len(stack) # 1
    <3> DEFINE s == Side(Parent, arg.k)
    <3>1. Parent \in DOMAIN tree /\ Above(Parent, arg) /\ s \in Bit /\ KidOf(tree, Parent, s) = Here
      BY <2>2, PathIs
    <3>2. Parent.len \in Nat /\ Keyed(Parent) /\ Here # Nil
      BY <1>1, <3>1, NodeIsKeyed DEF Trie
    <3>3. Above(Parent, Here) /\ Side(Parent, Here.k) = s
      BY <3>1, <3>2 DEF Trie, KidsRight
    <3>4. Here.k[Parent.len + 1] = arg.k[Parent.len + 1]
      BY <3>3 DEF Side
    <3>5. \A i \in 1..Parent.len : Here.k[i] = arg.k[i]
      BY <3>1, <3>3 DEF Above, Agree
    <3>6. Parent.len < len
      <4>1. SUFFICES ASSUME len <= Parent.len PROVE FALSE
        BY <1>4, <3>2
      <4>2. Parent.len < arg.len
        BY <3>1 DEF Above
      <4>3. len # arg.len /\ Here.k[len + 1] # arg.k[len + 1]
        BY <1>1, <1>2, <1>3, <1>4, <1>5, <3>2, <4>1, <4>2
      <4>4. len = Parent.len \/ len + 1 \in 1..Parent.len
        BY <1>4, <3>2, <4>1
      <4>5. QED
        BY <3>4, <3>5, <4>3, <4>4
    <3>7. Above(Parent, up)
      BY <1>4, <1>6, <3>2, <3>3, <3>6 DEF Above, Agree
    <3>8. QED
      BY <3>1, <3>7 DEF PlaceAbove
  <2>3. QED
    BY <2>1, <2>2
<1>14. up \notin DOMAIN tree
  BY <1>1, <1>6, <1>8, <1>13, NothingBetween
<1>15. Goal \notin DOMAIN tree
  BY GoalIsBelow
<1>16. QED
  BY <1>6, <1>8, <1>11, <1>12, <1>13, <1>14, <1>15

\* insert splits: both children of the new node are under it, one on each side.
LEMMA InsertSplitsKeeps ==
  ASSUME TrieInv, InsertSplits
  PROVE  TrieInv'
<1> DEFINE len == CommonPrefixLen(Here.k, Here.len, arg.k, arg.len)
           up == Name(Under(Here.k, len), len)
           new == Name(arg.k, arg.len)
           other == IF len = arg.len THEN Nil ELSE new
           upNode == [kids |-> [b \in Bit |-> IF b = Side(up, Here.k) THEN Here ELSE other],
                      value |-> IF len = arg.len THEN arg.v ELSE NoValue]
           D == DOMAIN tree \cup {up} \cup ({other} \ {Nil})
           t == [p \in D |-> IF p = up THEN upNode ELSE IF p = other THEN Leaf(arg.v) ELSE tree[p]]
<1>1. /\ op = "insert" /\ ~Matched(Here) /\ ~Below(Here) /\ Holds(t, up)
      /\ result' = NoValue /\ op' = "none"
      /\ UNCHANGED <<listed, table, expected>>
  BY DEF InsertSplits, Done
<1>2. Trie(root, tree) /\ NoneLoose /\ InsertInv
  BY <1>1 DEF TrieInv
<1>3. /\ Path /\ arg \in Args /\ arg.v \in Values /\ arg.v # NoValue /\ arg.k = Under(arg.k, arg.len)
      /\ table = With(Ents(tree), Goal, arg.v) /\ expected = PT!At(Ents(tree), Goal)
  BY <1>2, IpLookupTrieAssumption DEF InsertInv
<1>4. new = Goal /\ Goal \in Prefixes /\ Goal # Nil
  BY <1>3, GoalIs
<1>5. /\ up \in Prefixes /\ up \notin DOMAIN tree
      /\ Above(up, Here) /\ PlaceAbove(root, tree, Here, up) /\ Side(up, Here.k) \in Bit
      /\ len = arg.len => up = Goal
      /\ len # arg.len => Above(up, Goal) /\ Side(up, Goal.k) \in Bit \ {Side(up, Here.k)}
      /\ Goal \notin DOMAIN tree
  BY <1>1, <1>2, <1>3, SplitAt
<1>6. Here \in DOMAIN tree /\ up # Nil /\ Here # Nil
  BY <1>2, <1>3, <1>5, PathIs, PrefixIsKeyed DEF Trie, TrieShape
<1>7. tree \in [DOMAIN tree -> Nodes] /\ DOMAIN tree \subseteq Prefixes /\ Prefixes \subseteq Boxes
  BY <1>2 DEF Trie, TrieShape, Boxes, Prefixes
<1> DEFINE whole == len = arg.len
           h == Side(up, Here.k)
<1>8. other = (IF whole THEN Nil ELSE Goal) /\ other \in Boxes /\ (whole => up = Goal)
      /\ (~whole => Above(up, Goal) /\ Side(up, Goal.k) \in Bit \ {h})
  BY <1>4, <1>5, <1>7 DEF Boxes
<1>9. /\ upNode.value = (IF whole THEN arg.v ELSE NoValue)
      /\ \A b \in Bit : upNode.kids[b] = IF b = h THEN Here ELSE other
  OBVIOUS
<1>10. upNode \in Nodes
  <2>1. [b \in Bit |-> IF b = Side(up, Here.k) THEN Here ELSE other] \in [Bit -> Boxes]
    BY <1>6, <1>7, <1>8
  <2>2. QED
    BY <1>3, <2>1 DEF Nodes
<1>11. Leaf(arg.v) \in Nodes /\ Leaf(arg.v).value = arg.v /\ \A b \in Bit : Leaf(arg.v).kids[b] = Nil
  BY <1>3 DEF Leaf, Nodes, Boxes
<1> HIDE DEF other, upNode, whole, h, up, new, len
<1>12. /\ t \in [DOMAIN t -> Nodes] /\ DOMAIN t = DOMAIN tree \cup {up} \cup (IF whole THEN {} ELSE {Goal})
       /\ t[up] = upNode /\ \A p \in DOMAIN tree : t[p] = tree[p]
       /\ ~whole => up # Goal /\ t[Goal] = Leaf(arg.v)
  <2>1. D = DOMAIN tree \cup {up} \cup (IF whole THEN {} ELSE {Goal})
    BY <1>4, <1>8
  <2>2. ~whole => up # Goal
    <3>1. up.len \in Nat
      BY <1>5, PrefixIsKeyed, IpLookupTrieAssumption DEF Keyed, Lengths
    <3>2. QED
      BY <1>8, <3>1 DEF Above
  <2>3. \A p \in DOMAIN tree : p # up /\ p # other
    BY <1>5, <1>8, <1>7, PrefixIsKeyed
  <2>4. t \in [D -> Nodes]
    BY <1>7, <1>8, <1>10, <1>11
  <2>5. t[up] = upNode /\ \A p \in DOMAIN tree : t[p] = tree[p]
    BY <2>3
  <2>6. ~whole => t[Goal] = Leaf(arg.v)
    BY <1>8, <2>1, <2>2
  <2>7. QED
    BY <2>1, <2>2, <2>4, <2>5, <2>6
<1> HIDE DEF t
<1>13. /\ tree' \in [DOMAIN t -> Nodes] /\ DOMAIN tree' = DOMAIN t
       /\ Moved(root, tree, Here, up, root', tree')
       /\ \A p \in DOMAIN t : tree'[p].value = t[p].value
       /\ \A p \in DOMAIN t : Len(stack) = 1 \/ p # Parent => tree'[p] = t[p]
  <2>1. \A p \in DOMAIN tree \cap DOMAIN t, b \in Bit : KidOf(t, p, b) = KidOf(tree, p, b)
    BY <1>12 DEF KidOf
  <2>2. up \in Boxes
    BY <1>5, <1>7
  <2>3. Len(stack) # 1 => Parent \in DOMAIN t
    BY <1>2, <1>3, <1>12, PathIs
  <2>4. QED
    BY <1>1, <1>2, <1>3, <1>12, <2>1, <2>2, <2>3, HoldsMoves
<1>14. tree'[up] = upNode /\ (~whole => tree'[Goal] = Leaf(arg.v))
  <2>1. Len(stack) = 1 \/ (up # Parent /\ Goal # Parent)
    BY <1>2, <1>3, <1>5, PathIs
  <2>2. up \in DOMAIN t /\ (~whole => Goal \in DOMAIN t)
    BY <1>12
  <2>3. QED
    BY <1>12, <1>13, <2>1, <2>2
<1>15. TrieShape(tree')
  BY <1>4, <1>5, <1>7, <1>12, <1>13 DEF TrieShape
<1>16. \A p \in DOMAIN tree : tree'[p].value = tree[p].value
  BY <1>12, <1>13
\* Without the node that may have been added under the new one.
<1> DEFINE lone == [kids |-> [b \in Bit |-> IF b = h THEN Here ELSE Nil], value |-> NoValue]
           E == DOMAIN tree \cup {up}
           u == [p \in E |-> IF p = up THEN lone ELSE tree'[p]]
<1>17. /\ TrieShape(u) /\ DOMAIN u = DOMAIN tree \cup {up}
       /\ \A p \in DOMAIN tree, b \in Bit : KidOf(u, p, b) = KidOf(tree', p, b)
       /\ \A b \in Bit : KidOf(u, up, b) = IF b = h THEN Here ELSE Nil
  <2>1. [b \in Bit |-> IF b = h THEN Here ELSE Nil] \in [Bit -> Boxes]
    BY <1>6, <1>7 DEF Boxes
  <2>2. lone \in Nodes /\ \A b \in Bit : lone.kids[b] = IF b = h THEN Here ELSE Nil
    BY <2>1 DEF Nodes
  <2> HIDE DEF lone
  <2>3. \A p \in DOMAIN tree : tree'[p] \in Nodes /\ p # up
    BY <1>5, <1>12, <1>13
  <2>4. u \in [E -> Nodes] /\ u[up] = lone /\ \A p \in DOMAIN tree : u[p] = tree'[p]
    BY <2>2, <2>3
  <2> HIDE DEF u
  <2>5. E \subseteq Prefixes
    BY <1>5, <1>7
  <2>6. QED
    BY <2>2, <2>4, <2>5 DEF TrieShape, KidOf
<1> HIDE DEF u
<1>18. Trie(root', u)
  <2>1. Moved(root, tree, Here, up, root', u)
    BY <1>12, <1>13, <1>17 DEF Moved
  <2>2. \A b \in Bit : KidOf(u, up, b) = IF b = Side(up, Here.k) THEN Here ELSE Nil
    BY <1>17 DEF h
  <2>3. QED
    BY <1>2, <1>5, <1>6, <1>17, <2>1, <2>2, PutAbove
<1>19. \A b \in Bit : KidOf(tree', up, b) = IF b = h THEN Here ELSE other
  BY <1>9, <1>14 DEF KidOf
<1>20. Trie(root', tree')
  <2>1. CASE whole
    <3>1. DOMAIN tree' = DOMAIN u
      BY <1>12, <1>13, <1>17, <2>1
    <3>2. \A p \in DOMAIN u, b \in Bit : KidOf(tree', p, b) = KidOf(u, p, b)
      BY <1>8, <1>17, <1>19, <2>1
    <3>3. QED
      BY <1>15, <1>18, <3>1, <3>2, SameKids
  <2>2. CASE ~whole
    <3>1. DOMAIN tree' = DOMAIN u \cup {Goal} /\ up \in DOMAIN u
      BY <1>12, <1>13, <1>17, <2>2
    <3>2. Above(up, Goal) /\ Side(up, Goal.k) \in Bit /\ Side(up, Goal.k) # h
      BY <1>8, <2>2
    <3>3. KidOf(u, up, Side(up, Goal.k)) = Nil
      BY <1>17, <3>2
    <3>4. \A b \in Bit : b # h => b = Side(up, Goal.k)
      BY <1>5, <3>2 DEF Bit, h
    <3>5. \A q \in DOMAIN u, b \in Bit :
            KidOf(tree', q, b) = IF q = up /\ b = Side(up, Goal.k) THEN Goal ELSE KidOf(u, q, b)
      BY <1>8, <1>17, <1>19, <2>2, <3>2, <3>4
    <3>6. \A b \in Bit : KidOf(tree', Goal, b) = Nil
      BY <1>11, <1>14, <2>2 DEF KidOf
    <3>7. QED
      BY <1>4, <1>15, <1>18, <3>1, <3>2, <3>3, <3>5, <3>6, LeafAdded
  <2>3. QED
    BY <2>1, <2>2
<1>21. table' = Ents(tree')
  <2>1. Goal \in DOMAIN tree' /\ tree'[Goal].value = arg.v
    BY <1>8, <1>9, <1>11, <1>12, <1>13, <1>14
  <2>2. ~whole => tree'[up].value = NoValue
    BY <1>9, <1>14
  <2>3. DOMAIN Ents(tree') = DOMAIN Ents(tree) \cup {Goal}
    <3>1. \A p : p \in DOMAIN Ents(tree') <=> p \in DOMAIN tree' /\ tree'[p].value # NoValue
      BY EntsAre
    <3>2. \A p : p \in DOMAIN Ents(tree) <=> p \in DOMAIN tree /\ tree[p].value # NoValue
      BY EntsAre
    <3>3. Goal \in DOMAIN Ents(tree')
      BY <1>3, <2>1, <3>1
    <3>4. \A p : p # Goal /\ p \in DOMAIN tree' => p \in DOMAIN tree \/ tree'[p].value = NoValue
      BY <1>8, <1>12, <1>13, <2>2
    <3>5. DOMAIN tree \subseteq DOMAIN tree'
      BY <1>12, <1>13
    <3>6. \A p : p # Goal => (p \in DOMAIN Ents(tree') <=> p \in DOMAIN Ents(tree))
      BY <1>16, <3>1, <3>2, <3>4, <3>5
    <3>7. QED
      BY <3>3, <3>6
  <2>4. \A p \in DOMAIN Ents(tree) : p # Goal => tree'[p].value = tree[p].value
    BY <1>16, EntsAre
  <2>5. With(Ents(tree), Goal, arg.v) = Ents(tree')
    BY <2>1, <2>3, <2>4, WithIs
  <2>6. QED
    BY <1>1, <1>3, <2>5
<1>22. expected' = result'
  BY <1>1, <1>3, <1>5, EntsAre
<1>23. NoneLoose'
  <2>1. ASSUME NEW p \in DOMAIN tree', tree'[p].value = NoValue
        PROVE  \A b \in Bit : KidOf(tree', p, b) # Nil
    <3>1. CASE p = up
      <4>1. ~whole
        BY <1>3, <1>9, <1>14, <2>1, <3>1
      <4>2. QED
        BY <1>4, <1>6, <1>8, <1>19, <3>1, <4>1
    <3>2. CASE p # up
      <4>1. p # Goal \/ whole
        BY <1>3, <1>11, <1>14, <2>1
      <4>2. p \in DOMAIN tree /\ tree[p].value = NoValue
        BY <1>12, <1>13, <1>16, <2>1, <3>2, <4>1
      <4>3. \A b \in Bit : KidOf(tree, p, b) # Nil
        BY <1>1, <1>2, <4>2 DEF NoneLoose, Loose
      <4>4. QED
        BY <1>6, <1>13, <2>1, <4>2, <4>3 DEF Moved
    <3>3. QED
      BY <3>1, <3>2
  <2>2. QED
    BY <2>1 DEF NoneLoose
<1>24. QED
  BY <1>1, <1>20, <1>21, <1>22, <1>23 DEF TrieInv

\* longest_match: the loop comes to a node.
LEMMA MatchIs ==
  ASSUME Trie(root, tree), MatchInv
  PROVE  /\ Here \in DOMAIN tree /\ Here \in Prefixes /\ Keyed(Here) /\ Here.len \in Nat
         /\ Keyed(arg) /\ arg.len = Bits /\ Bits \in Nat /\ Here.len <= Bits
         /\ Agree(Here.k, arg.k, Here.len) <=> Covers(Here, arg)
         /\ \A q \in DOMAIN tree : q \in Prefixes /\ Keyed(q) /\ q.len \in Nat /\ q.len <= Bits
<1>1. Here \in DOMAIN tree /\ Keyed(arg) /\ arg.len = Bits /\ Bits \in Nat
  BY IpLookupTrieAssumption DEF MatchInv, Whole
<1>2. \A q \in DOMAIN tree : q \in Prefixes /\ Keyed(q) /\ q.len \in Nat /\ q.len <= Bits
  BY <1>1, NodeIsKeyed DEF Trie, Keyed, Lengths
<1>3. QED
  BY <1>1, <1>2 DEF Covers

\* longest_match ends at a node that does not cover the address.
LEMMA MatchEndsKeeps ==
  ASSUME TrieInv, MatchEnds
  PROVE  TrieInv'
<1>1. /\ op = "match" /\ ~Agree(Here.k, arg.k, Here.len) /\ op' = "none"
      /\ UNCHANGED <<root, tree, result, listed, table, expected>>
  BY DEF MatchEnds, Done
<1>2. Trie(root, tree) /\ NoneLoose /\ MatchInv
  BY <1>1 DEF TrieInv
<1>3. ASSUME NEW q \in DOMAIN tree, Covers(q, arg) PROVE q.len < Here.len
  <2>1. Covers(Here, q) => Covers(Here, arg)
    BY <1>2, <1>3, MatchIs, CoversTrans
  <2>2. ~Covers(Here, arg)
    BY <1>1, <1>2, MatchIs
  <2>3. QED
    BY <1>2, <1>3, <2>1, <2>2 DEF MatchInv
<1>4. Best(tree, arg, Here.len, result)
  BY <1>2 DEF MatchInv
<1>5. Best(tree, arg, Bits + 1, result)
  <2>1. \A q \in DOMAIN tree : Covers(q, arg) => (q.len < Bits + 1 <=> q.len < Here.len)
    BY <1>2, <1>3, MatchIs
  <2>2. QED
    BY <1>4, <2>1 DEF Best
<1>6. expected = result
  BY <1>2, <1>5, BestIsLongest DEF MatchInv, Trie
<1>7. NoneLoose' /\ table' = Ents(tree')
  BY <1>1, <1>2 DEF NoneLoose, Loose, MatchInv
<1>8. QED
  BY <1>1, <1>2, <1>6, <1>7 DEF TrieInv

\* longest_match keeps the value of the node and goes to the child.
LEMMA MatchGoesOnKeeps ==
  ASSUME TrieInv, MatchGoesOn
  PROVE  TrieInv'
<1> DEFINE next == IF Here.len = Bits THEN Nil ELSE Kid
           found == IF tree[Here].value # NoValue THEN tree[Here].value ELSE result
<1>1. /\ op = "match" /\ Agree(Here.k, arg.k, Here.len) /\ result' = found
      /\ IF next = Nil THEN op' = "none" ELSE stack' = <<next>> /\ UNCHANGED <<op, arg>>
      /\ UNCHANGED <<root, tree, listed, table, expected>>
  BY DEF MatchGoesOn, Done
<1>2. Trie(root, tree) /\ NoneLoose /\ MatchInv
  BY <1>1 DEF TrieInv
<1>3. /\ Here \in DOMAIN tree /\ Keyed(Here) /\ Here.len \in Nat /\ Here.len <= Bits
      /\ Covers(Here, arg) /\ Keyed(arg) /\ arg.len = Bits /\ Bits \in Nat
      /\ \A q \in DOMAIN tree : q \in Prefixes /\ Keyed(q) /\ q.len \in Nat /\ q.len <= Bits
  BY <1>1, <1>2, MatchIs
<1>4. /\ Best(tree, arg, Here.len, result) /\ Whole(arg) /\ table = Ents(tree)
      /\ expected = PT!LongestMatch(table, arg.k) /\ arg \in Args
      /\ \A q \in DOMAIN tree : Covers(q, arg) => q.len < Here.len \/ Covers(Here, q)
  BY <1>2 DEF MatchInv
\* What of the nodes above the address is below the current one.
<1>5. ASSUME NEW q \in DOMAIN tree, Covers(q, arg)
      PROVE  q.len <= Here.len \/ (next # Nil /\ Covers(next, q))
  <2>1. CASE q.len < Here.len
    BY <1>3, <2>1
  <2>2. CASE q = Here
    BY <1>3, <2>2
  <2>3. CASE Covers(Here, q) /\ q # Here
    <3>1. Above(Here, q) /\ Here.len < q.len
      BY <1>3, <2>3, CoversOrIs DEF Above
    <3>2. Side(Here, q.k) = Side(Here, arg.k)
      BY <1>3, <1>5, <2>3, <3>1, CoversTrans
    <3>3. KidOf(tree, Here, Side(Here, arg.k)) # Nil /\ Covers(KidOf(tree, Here, Side(Here, arg.k)), q)
      BY <1>2, <1>3, <3>1, <3>2 DEF Trie, Finds
    <3>4. next = KidOf(tree, Here, Side(Here, arg.k))
      BY <1>3, <3>1 DEF Kid, KidOf
    <3>5. QED
      BY <3>3, <3>4
  <2>4. QED
    BY <1>4, <1>5, <2>1, <2>2, <2>3
<1>6. next # Nil => next \in DOMAIN tree /\ next.len \in Nat /\ Here.len < next.len
  <2>1. next # Nil => next = KidOf(tree, Here, Side(Here, arg.k)) /\ Above(Here, arg)
    BY <1>3 DEF Kid, KidOf, Above, Covers
  <2>2. next # Nil => Side(Here, arg.k) \in Bit
    BY <1>3, <2>1, AboveCovers
  <2>3. QED
    BY <1>2, <1>3, <2>1, <2>2 DEF Trie, KidsRight, Above
<1>7. NoneLoose'
  BY <1>1, <1>2 DEF NoneLoose, Loose
<1> HIDE DEF next
<1>8. CASE next = Nil
  <2>1. \A q \in DOMAIN tree : Covers(q, arg) => (q.len < Bits + 1 <=> q.len <= Here.len)
    BY <1>3, <1>5, <1>8
  <2>2. Best(tree, arg, Bits + 1, found)
    BY <1>2, <1>3, <1>4, <2>1, BestGoesOn
  <2>3. expected = found
    BY <1>2, <1>4, <2>2, BestIsLongest DEF Trie
  <2>4. QED
    BY <1>1, <1>2, <1>4, <1>7, <1>8, <2>3 DEF TrieInv
<1>9. CASE next # Nil
  <2>1. /\ stack' = <<next>> /\ op' = "match" /\ arg' = arg /\ tree' = tree /\ root' = root
        /\ result' = found /\ table' = table /\ expected' = expected
    BY <1>1, <1>9
  <2>2. Len(stack') = 1 /\ Here' = next
    BY <2>1 DEF Here
  <2>3. \A q \in DOMAIN tree : Covers(q, arg) => (q.len < next.len <=> q.len <= Here.len)
    BY <1>3, <1>5, <1>6, <1>9 DEF Covers
  <2>4. Best(tree, arg, next.len, found)
    BY <1>2, <1>3, <1>4, <1>6, <1>9, <2>3, BestGoesOn
  <2>5. \A q \in DOMAIN tree : Covers(q, arg) => q.len < next.len \/ Covers(next, q)
    BY <1>3, <1>5, <1>6, <1>9
  <2>6. Args' = Args
    BY DEF Args
  <2> HIDE DEF found
  <2>7. MatchInv'
    BY <1>4, <1>6, <1>9, <2>1, <2>2, <2>4, <2>5, <2>6 DEF MatchInv
  <2>8. QED
    BY <1>2, <1>7, <2>1, <2>7 DEF TrieInv
<1>10. QED
  BY <1>8, <1>9

\* The elements of a concatenation.
LEMMA ConcatAt ==
  ASSUME NEW S, NEW x \in Seq(S), NEW y \in Seq(S), NEW p, p = x \o y
  PROVE  /\ p \in Seq(S) /\ Len(p) = Len(x) + Len(y)
         /\ \A i \in 1..Len(x) : i \in 1..Len(p) /\ p[i] = x[i]
         /\ \A i \in 1..Len(y) :
              Len(x) + i \in 1..Len(p) /\ Len(x) + i \notin 1..Len(x) /\ p[Len(x) + i] = y[i]
         /\ \A i \in 1..Len(p) :
              i \in 1..Len(x) \/ (i \notin 1..Len(x) /\ i - Len(x) \in 1..Len(y) /\ p[i] = y[i - Len(x)])
<1> DEFINE n == Len(x)
           k == Len(y)
<1>1. n \in Nat /\ k \in Nat
  OBVIOUS
<1>2. p \in Seq(S) /\ Len(p) = n + k
      /\ \A i \in 1..(n + k) : p[i] = IF i <= n THEN x[i] ELSE y[i - n]
  BY ConcatProperties
<1> HIDE DEF n, k
<1>3. \A i \in 1..n : i \in 1..(n + k) /\ i <= n
  BY <1>1
<1>4. \A i \in 1..k : n + i \in 1..(n + k) /\ n + i \notin 1..n /\ ~(n + i <= n) /\ n + i - n = i
  BY <1>1
<1>5. \A i \in 1..(n + k) : i \in 1..n \/ (i \notin 1..n /\ i - n \in 1..k /\ ~(i <= n))
  BY <1>1
<1>6. /\ p \in Seq(S) /\ Len(p) = n + k
      /\ \A i \in 1..n : i \in 1..Len(p) /\ p[i] = x[i]
      /\ \A i \in 1..k : n + i \in 1..Len(p) /\ n + i \notin 1..n /\ p[n + i] = y[i]
      /\ \A i \in 1..Len(p) : i \in 1..n \/ (i \notin 1..n /\ i - n \in 1..k /\ p[i] = y[i - n])
  BY <1>1, <1>2, <1>3, <1>4, <1>5
<1>7. QED
  BY <1>6 DEF n, k

\* Pushed are the children there are; after the front of the stack.
AreIn(p, a, b) ==
  /\ \A j \in 1..Len(p) : p[j] \in {a, b} \ {Nil}
  /\ \A i, j \in 1..Len(p) : i # j => (p[i] = a /\ p[j] = b) \/ (p[i] = b /\ p[j] = a)
  /\ a # Nil => \E j \in 1..Len(p) : p[j] = a
  /\ b # Nil => \E j \in 1..Len(p) : p[j] = b

AreAfter(t, s, m, a, b) ==
  /\ \A i \in 1..Len(t) : (i \in 1..m /\ t[i] = s[i]) \/ (i \notin 1..m /\ t[i] \in {a, b} \ {Nil})
  /\ \A i, j \in 1..Len(t) :
       i # j /\ i \notin 1..m /\ j \notin 1..m => (t[i] = a /\ t[j] = b) \/ (t[i] = b /\ t[j] = a)
  /\ \A i \in 1..m : i \in 1..Len(t) /\ t[i] = s[i]
  /\ a # Nil => \E i \in 1..Len(t) : t[i] = a
  /\ b # Nil => \E i \in 1..Len(t) : t[i] = b

\* What the iterator pushes: the children that are there, once.
LEMMA PushedAre ==
  ASSUME NEW S, Nil \notin S, NEW a \in S \cup {Nil}, NEW b \in S \cup {Nil},
         NEW p, p = Present(a) \o Present(b)
  PROVE  p \in Seq(S) /\ AreIn(p, a, b)
<1> DEFINE x == Present(a)
           y == Present(b)
<1>1. /\ a = Nil => x \in Seq(S) /\ Len(x) = 0
      /\ a # Nil => x \in Seq(S) /\ Len(x) = 1 /\ x[1] = a
      /\ b = Nil => y \in Seq(S) /\ Len(y) = 0
      /\ b # Nil => y \in Seq(S) /\ Len(y) = 1 /\ y[1] = b
  BY DEF Present
<1> HIDE DEF x, y
<1>2. /\ p \in Seq(S)
      /\ a = Nil /\ b = Nil => Len(p) = 0
      /\ a = Nil /\ b # Nil => Len(p) = 1 /\ p[1] = b
      /\ a # Nil /\ b = Nil => Len(p) = 1 /\ p[1] = a
      /\ a # Nil /\ b # Nil => Len(p) = 2 /\ p[1] = a /\ p[2] = b
  <2>1. x \in Seq(S) /\ y \in Seq(S) /\ p = x \o y
    BY <1>1 DEF x, y
  <2>2. /\ p \in Seq(S) /\ Len(p) = Len(x) + Len(y) 
        /\ \A i \in 1..Len(x) : p[i] = x[i]
        /\ \A i \in 1..Len(y) : p[Len(x) + i] = y[i]
    BY <2>1, ConcatAt
  <2> DEFINE n == Len(x)
             k == Len(y)
  <2> HIDE DEF n, k
  <2>a. 1 \in 1..1 /\ 0 + 1 = 1 /\ 1 + 1 = 2 /\ 1 + 0 = 1
    OBVIOUS
  <2>b. /\ Len(p) = n + k /\ n \in Nat /\ k \in Nat
        /\ \A i \in 1..n : p[i] = x[i]
        /\ \A i \in 1..k : p[n + i] = y[i]
    BY <2>1, <2>2 DEF n, k
  <2>3. CASE a = Nil /\ b = Nil
    BY <1>1, <2>2, <2>a, <2>b, <2>3 DEF n, k
  <2>4. CASE a = Nil /\ b # Nil
    BY <1>1, <2>2, <2>a, <2>b, <2>4 DEF n, k
  <2>5. CASE a # Nil /\ b = Nil
    BY <1>1, <2>2, <2>a, <2>b, <2>5 DEF n, k
  <2>6. CASE a # Nil /\ b # Nil
    <3>1. n = 1 /\ k = 1 /\ x[1] = a /\ y[1] = b
      BY <1>1, <2>6 DEF n, k
    <3>2. Len(p) = 2 /\ p[1] = a
      BY <2>a, <2>b, <3>1
    <3>3. p[2] = b
      BY <2>a, <2>b, <3>1
    <3>4. QED
      BY <2>2, <2>6, <3>2, <3>3
  <2>7. QED
    BY <2>2, <2>3, <2>4, <2>5, <2>6
<1>3. /\ \A j \in 1..Len(p) : p[j] \in {a, b} \ {Nil}
      /\ \A i, j \in 1..Len(p) : i # j => (p[i] = a /\ p[j] = b) \/ (p[i] = b /\ p[j] = a)
      /\ a # Nil => \E j \in 1..Len(p) : p[j] = a
      /\ b # Nil => \E j \in 1..Len(p) : p[j] = b
  <2>a. /\ 1 \in 1..1 /\ 1 \in 1..2 /\ 2 \in 1..2 /\ 1..0 = {}
        /\ \A j \in 1..1 : j = 1
        /\ \A j \in 1..2 : j = 1 \/ j = 2
    OBVIOUS
  <2>1. CASE a = Nil /\ b = Nil
    BY <1>2, <2>a, <2>1
  <2>2. CASE a = Nil /\ b # Nil
    BY <1>2, <2>a, <2>2
  <2>3. CASE a # Nil /\ b = Nil
    BY <1>2, <2>a, <2>3
  <2>4. CASE a # Nil /\ b # Nil
    BY <1>2, <2>a, <2>4
  <2>5. QED
    BY <2>1, <2>2, <2>3, <2>4
<1>4. QED
  BY <1>2, <1>3 DEF AreIn

\* The iterator's stack: the last node is popped, its children are pushed.
LEMMA Popped ==
  ASSUME NEW S, NEW s, NEW f \in Seq(S), NEW p \in Seq(S), NEW m \in Nat, m = Len(f), NEW a, NEW b,
         \A i \in 1..m : f[i] = s[i],
         AreIn(p, a, b),
         NEW t, t = f \o p
  PROVE  t \in Seq(S) /\ AreAfter(t, s, m, a, b)
<1>1. /\ \A j \in 1..Len(p) : p[j] \in {a, b} \ {Nil}
      /\ \A i, j \in 1..Len(p) : i # j => (p[i] = a /\ p[j] = b) \/ (p[i] = b /\ p[j] = a)
      /\ a # Nil => \E j \in 1..Len(p) : p[j] = a
      /\ b # Nil => \E j \in 1..Len(p) : p[j] = b
  BY DEF AreIn
<1>2. /\ t \in Seq(S)
      /\ \A i \in 1..m : i \in 1..Len(t) /\ t[i] = s[i]
      /\ \A i \in 1..Len(p) : m + i \in 1..Len(t) /\ t[m + i] = p[i]
      /\ \A i \in 1..Len(t) : i \in 1..m \/ (i \notin 1..m /\ i - m \in 1..Len(p) /\ t[i] = p[i - m])
  BY ConcatAt
<1>3. \A i \in 1..Len(t) : (i \in 1..m /\ t[i] = s[i]) \/ (i \notin 1..m /\ t[i] \in {a, b} \ {Nil})
  BY <1>1, <1>2
<1>4. \A i, j \in 1..Len(t) :
         i # j /\ i \notin 1..m /\ j \notin 1..m => (t[i] = a /\ t[j] = b) \/ (t[i] = b /\ t[j] = a)
  <2> SUFFICES ASSUME NEW i \in 1..Len(t), NEW j \in 1..Len(t), i # j, i \notin 1..m, j \notin 1..m
               PROVE  (t[i] = a /\ t[j] = b) \/ (t[i] = b /\ t[j] = a)
    OBVIOUS
  <2>1. i - m \in 1..Len(p) /\ j - m \in 1..Len(p) /\ t[i] = p[i - m] /\ t[j] = p[j - m]
    BY <1>2
  <2>2. i - m # j - m
    BY <1>2
  <2>3. QED
    BY <1>1, <2>1, <2>2
<1>5. /\ a # Nil => \E i \in 1..Len(t) : t[i] = a
      /\ b # Nil => \E i \in 1..Len(t) : t[i] = b
  BY <1>1, <1>2
<1>6. QED
  BY <1>1, <1>2, <1>3, <1>4, <1>5 DEF AreAfter

\* No prefix is under two nodes of the frontier.
LEMMA Apart ==
  ASSUME NEW p \in Prefixes, NEW q \in Prefixes, NEW s, Keyed(s), ~Covers(p, q), ~Covers(q, p)
  PROVE  ~(Covers(p, s) /\ Covers(q, s))
<1>1. Keyed(p) /\ Keyed(q)
  BY PrefixIsKeyed
<1>2. Above(p, q) => Covers(p, q)
  BY <1>1, AboveCovers
<1>3. Above(q, p) => Covers(q, p)
  BY <1>1, AboveCovers
<1>4. p # q
  BY <1>1, CoversItself
<1>5. QED
  BY <1>2, <1>3, <1>4, BelowOrSame

\* The iterator yields the node it takes and pushes its children.
LEMMA IterNextKeeps ==
  ASSUME TrieInv, IterNext
  PROVE  TrieInv'
<1> DEFINE node == tree[Here]
           entry == [name |-> Here, value |-> node.value]
           m == Len(stack) - 1
           L == KidOf(tree, Here, 0)
           R == KidOf(tree, Here, 1)
           Coming(q) == \E i \in 1..Len(stack') : Covers(stack'[i], q)
<1>1. /\ op = "iter" /\ stack # << >> /\ op' = "iter"
      /\ stack' = SubSeq(stack, 1, Len(stack) - 1) \o (Present(R) \o Present(L))
      /\ listed' = IF node.value = NoValue THEN listed ELSE Append(listed, entry)
      /\ UNCHANGED <<root, tree, arg, result, table, expected>>
  BY DEF IterNext, Pushed, KidOf
<1>2. /\ Trie(root, tree) /\ NoneLoose /\ table = Ents(tree) /\ expected = result
      /\ stack \in Seq(DOMAIN tree)
      /\ \A i, j \in 1..Len(stack) : i # j => ~Covers(stack[i], stack[j])
      /\ listed \in Seq([name : DOMAIN tree, value : Values])
      /\ \A i \in 1..Len(listed) : tree[listed[i].name].value = listed[i].value /\ ~ToCome(listed[i].name)
      /\ \A i, j \in 1..Len(listed) : i # j => listed[i].name # listed[j].name
      /\ \A q \in DOMAIN tree :
           tree[q].value # NoValue => ToCome(q) \/ \E i \in 1..Len(listed) : listed[i].name = q
  BY <1>1 DEF TrieInv, IterInv
<1>3. Len(stack) # 0 /\ Len(stack) \in Nat /\ m \in Nat
  BY <1>1, <1>2
<1>4. /\ \A i \in 1..Len(stack) : stack[i] \in DOMAIN tree /\ (i \in 1..m \/ stack[i] = Here)
      /\ 1..m \subseteq 1..Len(stack) /\ Len(stack) \in 1..Len(stack) /\ Len(stack) \notin 1..m
  BY <1>2, <1>3 DEF Here
<1>5. Here \in DOMAIN tree /\ Here = stack[Len(stack)]
  BY <1>4 DEF Here
<1>6. \A q \in DOMAIN tree : q \in Prefixes /\ Keyed(q) /\ q.len \in Nat /\ q # Nil
  BY <1>2, NodeIsKeyed DEF Trie
\* The children of the popped node.
<1>7. /\ L \in DOMAIN tree \cup {Nil} /\ R \in DOMAIN tree \cup {Nil}
      /\ L # Nil => Above(Here, L) /\ Covers(Here, L) /\ ~Covers(L, Here) /\ Side(Here, L.k) = 0
      /\ R # Nil => Above(Here, R) /\ Covers(Here, R) /\ ~Covers(R, Here) /\ Side(Here, R.k) = 1
  <2>1. ASSUME NEW b \in Bit, KidOf(tree, Here, b) # Nil
        PROVE  LET k == KidOf(tree, Here, b)
               IN /\ k \in DOMAIN tree /\ Above(Here, k) /\ Covers(Here, k) /\ ~Covers(k, Here)
                  /\ Side(Here, k.k) = b
    <3> DEFINE k == KidOf(tree, Here, b)
    <3>1. k \in DOMAIN tree /\ Above(Here, k) /\ Side(Here, k.k) = b
      BY <1>2, <1>5, <2>1 DEF Trie, KidsRight
    <3> HIDE DEF k
    <3>2. Covers(Here, k) /\ Here.len < k.len
      BY <1>5, <1>6, <3>1, AboveCovers
    <3>3. ~Covers(k, Here)
      BY <1>5, <1>6, <3>1, <3>2 DEF Covers
    <3>4. QED
      BY <3>1, <3>2, <3>3 DEF k
  <2>2. 0 \in Bit /\ 1 \in Bit
    BY DEF Bit
  <2>3. QED
    BY <2>1, <2>2
<1>8. L # Nil /\ R # Nil => ~Covers(L, R) /\ ~Covers(R, L)
  <2> SUFFICES ASSUME L # Nil, R # Nil PROVE ~Covers(L, R) /\ ~Covers(R, L)
    OBVIOUS
  <2>1. Keyed(L) /\ Keyed(R) /\ Keyed(Here) /\ Here.len < L.len /\ Here.len < R.len
    BY <1>5, <1>6, <1>7 DEF Above
  <2>2. Covers(L, R) => Side(Here, L.k) = Side(Here, R.k)
    BY <1>7, <2>1, CoversTrans
  <2>3. Covers(R, L) => Side(Here, R.k) = Side(Here, L.k)
    BY <1>7, <2>1, CoversTrans
  <2>4. QED
    BY <1>7, <2>2, <2>3
<1> HIDE DEF L, R, m
<1>9. /\ stack' \in Seq(DOMAIN tree)
      /\ \A i \in 1..Len(stack') :
           (i \in 1..m /\ stack'[i] = stack[i]) \/ (i \notin 1..m /\ stack'[i] \in {R, L} \ {Nil})
      /\ \A i, j \in 1..Len(stack') : i # j /\ i \notin 1..m /\ j \notin 1..m =>
           (stack'[i] = R /\ stack'[j] = L) \/ (stack'[i] = L /\ stack'[j] = R)
      /\ \A i \in 1..m : i \in 1..Len(stack') /\ stack'[i] = stack[i]
      /\ R # Nil => \E i \in 1..Len(stack') : stack'[i] = R
      /\ L # Nil => \E i \in 1..Len(stack') : stack'[i] = L
  <2> DEFINE f == SubSeq(stack, 1, Len(stack) - 1)
             p == Present(R) \o Present(L)
  <2>1. Nil \notin DOMAIN tree /\ m = Len(stack) - 1 /\ m \in Nat
    BY <1>3, <1>6 DEF m
  <2>2. f \in Seq(DOMAIN tree) /\ m = Len(f) /\ \A i \in 1..m : f[i] = stack[i]
    <3>1. \A i \in 1..(Len(stack) - 1) : stack[i] \in DOMAIN tree
      BY <1>4, <2>1
    <3>2. QED
      BY <1>2, <1>3, <2>1, <3>1, Front
  <2>3. p \in Seq(DOMAIN tree) /\ AreIn(p, R, L)
    BY <1>7, <2>1, PushedAre
  <2>4. stack' = f \o p
    BY <1>1
  <2> HIDE DEF f, p
  <2>5. stack' \in Seq(DOMAIN tree) /\ AreAfter(stack', stack, m, R, L)
    BY <2>1, <2>2, <2>3, <2>4, Popped
  <2>6. QED
    BY <2>5 DEF AreAfter
<1>10. \A i \in 1..m : ~Covers(stack[i], Here) /\ ~Covers(Here, stack[i])
  BY <1>2, <1>4, <1>5
<1>11. ASSUME NEW i \in 1..Len(stack'), NEW j \in 1..Len(stack'), i # j
       PROVE  ~Covers(stack'[i], stack'[j])
  <2>1. \A n \in {R, L} \ {Nil} : n \in DOMAIN tree /\ Covers(Here, n) /\ ~Covers(n, Here)
    BY <1>7
  <2>2. CASE i \in 1..m /\ j \in 1..m
    BY <1>2, <1>4, <1>9, <1>11, <2>2
  <2>3. CASE i \in 1..m /\ j \notin 1..m
    <3>1. stack'[i] = stack[i] /\ stack[i] \in DOMAIN tree /\ stack'[j] \in {R, L} \ {Nil}
      BY <1>4, <1>9, <2>3
    <3>2. ~(Covers(stack[i], stack'[j]) /\ Covers(Here, stack'[j]))
      BY <1>5, <1>6, <1>10, <2>1, <2>3, <3>1, Apart
    <3>3. QED
      BY <2>1, <3>1, <3>2
  <2>4. CASE i \notin 1..m /\ j \in 1..m
    <3>1. stack'[j] = stack[j] /\ stack[j] \in DOMAIN tree /\ stack'[i] \in {R, L} \ {Nil}
      BY <1>4, <1>9, <2>4
    <3>2. Covers(stack'[i], stack[j]) => Covers(Here, stack[j])
      BY <1>5, <1>6, <2>1, <3>1, CoversTrans
    <3>3. QED
      BY <1>10, <2>4, <3>1, <3>2
  <2>5. CASE i \notin 1..m /\ j \notin 1..m
    <3>1. (stack'[i] = R /\ stack'[j] = L) \/ (stack'[i] = L /\ stack'[j] = R)
      BY <1>9, <1>11, <2>5
    <3>2. stack'[i] # Nil /\ stack'[j] # Nil
      BY <1>9, <2>5
    <3>3. QED
      BY <1>8, <3>1, <3>2
  <2>6. QED
    BY <2>2, <2>3, <2>4, <2>5
<1>12. ASSUME NEW q \in DOMAIN tree, Coming(q)
       PROVE  ToCome(q) /\ q # Here
  <2>1. PICK i \in 1..Len(stack') : Covers(stack'[i], q)
    BY <1>12
  <2>2. CASE i \in 1..m
    <3>1. Covers(stack[i], q) /\ i \in 1..Len(stack)
      BY <1>4, <1>9, <2>1, <2>2
    <3>2. QED
      BY <1>10, <2>2, <3>1 DEF ToCome
  <2>3. CASE i \notin 1..m
    <3>1. stack'[i] \in DOMAIN tree /\ Covers(Here, stack'[i]) /\ ~Covers(stack'[i], Here)
      BY <1>7, <1>9, <2>3
    <3>2. Covers(Here, q)
      BY <1>5, <1>6, <2>1, <3>1, CoversTrans
    <3>3. QED
      BY <1>4, <1>5, <2>1, <3>1, <3>2 DEF ToCome
  <2>4. QED
    BY <2>2, <2>3
<1>13. ASSUME NEW q \in DOMAIN tree, ToCome(q)
       PROVE  q = Here \/ Coming(q)
  <2>1. PICK i \in 1..Len(stack) : Covers(stack[i], q)
    BY <1>13 DEF ToCome
  <2>2. CASE i \in 1..m
    BY <1>9, <2>1, <2>2
  <2>3. CASE i \notin 1..m /\ q # Here
    <3>1. Above(Here, q)
      BY <1>4, <1>5, <1>6, <2>1, <2>3, CoversOrIs
    <3>2. Side(Here, q.k) \in Bit
      BY <1>5, <1>6, <3>1, AboveCovers
    <3>3. /\ KidOf(tree, Here, Side(Here, q.k)) # Nil
          /\ Covers(KidOf(tree, Here, Side(Here, q.k)), q)
      BY <1>2, <1>5, <3>1 DEF Trie, Finds
    <3>4. (L # Nil /\ Covers(L, q)) \/ (R # Nil /\ Covers(R, q))
      BY <3>2, <3>3 DEF Bit, L, R
    <3>5. QED
      BY <1>9, <3>4
  <2>4. QED
    BY <2>2, <2>3
<1>14. ToCome(Here)
  BY <1>4, <1>5, <1>6, CoversItself DEF ToCome
\* What has been listed.
<1>15. /\ listed' \in Seq([name : DOMAIN tree, value : Values])
       /\ \A i \in 1..Len(listed) : i \in 1..Len(listed') /\ listed'[i] = listed[i]
       /\ \A i \in 1..Len(listed') :
            \/ i \in 1..Len(listed) /\ listed'[i] = listed[i]
            \/ node.value # NoValue /\ i = Len(listed) + 1 /\ listed'[i] = entry
       /\ node.value # NoValue =>
            Len(listed) + 1 \in 1..Len(listed') /\ listed'[Len(listed) + 1] = entry
  <2>1. CASE node.value = NoValue
    BY <1>1, <1>2, <2>1
  <2>2. CASE node.value # NoValue
    <3>1. node.value \in Values
      BY <1>2, <1>5, <2>2, NodeIsKeyed DEF Trie
    <3>2. entry \in [name : DOMAIN tree, value : Values]
      BY <1>5, <3>1
    <3> HIDE DEF entry
    <3> DEFINE T == [name : DOMAIN tree, value : Values]
    <3>3. listed \in Seq(T) /\ entry \in T /\ listed' = Append(listed, entry)
      BY <1>1, <1>2, <2>2, <3>2
    <3> HIDE DEF T
    <3>4. /\ listed' \in Seq(T) /\ Len(listed') = Len(listed) + 1 /\ Len(listed) \in Nat
          /\ listed'[Len(listed) + 1] = entry
          /\ \A i \in 1..Len(listed) : listed'[i] = listed[i]
      BY <3>3
    <3>5. \A i \in 1..Len(listed') : i \in 1..Len(listed) \/ i = Len(listed) + 1
      BY <3>4, OneMore
    <3>6. Len(listed) + 1 \in 1..Len(listed') /\ \A i \in 1..Len(listed) : i \in 1..Len(listed')
      BY <3>4
    <3>7. QED
      BY <2>2, <3>4, <3>5, <3>6 DEF T
  <2>3. QED
    BY <2>1, <2>2
<1>16. entry.name = Here /\ entry.value = node.value
  OBVIOUS
<1>17. \A i \in 1..Len(listed) : listed[i].name \in DOMAIN tree
  <2> DEFINE T == [name : DOMAIN tree, value : Values]
  <2>1. \A e \in T : e.name \in DOMAIN tree
    OBVIOUS
  <2>2. listed \in Seq(T)
    BY <1>2
  <2> HIDE DEF T
  <2>3. \A i \in 1..Len(listed) : listed[i] \in T
    BY <2>2
  <2>4. QED
    BY <2>1, <2>3
<1> HIDE DEF entry, node, Coming
<1>18. ASSUME NEW i \in 1..Len(listed')
       PROVE  /\ tree[listed'[i].name].value = listed'[i].value /\ ~Coming(listed'[i].name)
              /\ listed'[i].name \in DOMAIN tree
  <2>1. CASE i \in 1..Len(listed) /\ listed'[i] = listed[i]
    BY <1>2, <1>12, <1>17, <2>1
  <2>2. CASE listed'[i] = entry
    BY <1>5, <1>12, <1>16, <2>2 DEF node
  <2>3. QED
    BY <1>15, <2>1, <2>2
<1>19. \A i \in 1..Len(listed) : listed[i].name # Here
  BY <1>2, <1>14
<1>20. ASSUME NEW i \in 1..Len(listed'), NEW j \in 1..Len(listed'), i # j
       PROVE  listed'[i].name # listed'[j].name
  BY <1>2, <1>15, <1>16, <1>19, <1>20
<1>21. ASSUME NEW q \in DOMAIN tree, tree[q].value # NoValue
       PROVE  Coming(q) \/ \E i \in 1..Len(listed') : listed'[i].name = q
  <2>1. CASE ToCome(q) /\ q # Here
    BY <1>13, <2>1
  <2>2. CASE q = Here
    BY <1>15, <1>16, <1>21, <2>2 DEF node
  <2>3. CASE \E i \in 1..Len(listed) : listed[i].name = q
    BY <1>15, <2>3
  <2>4. QED
    BY <1>2, <1>21, <2>1, <2>2, <2>3
<1>22. IterInv'
  <2>1. tree' = tree
    BY <1>1
  <2>2. \A i \in 1..Len(listed') : tree'[listed'[i].name].value = listed'[i].value /\ ~Coming(listed'[i].name)
    BY <1>18, <2>1
  <2>3. \A q \in DOMAIN tree' :
          tree'[q].value # NoValue => Coming(q) \/ \E i \in 1..Len(listed') : listed'[i].name = q
    BY <1>21, <2>1
  <2>4. stack' \in Seq(DOMAIN tree') /\ listed' \in Seq([name : DOMAIN tree', value : Values])
    BY <1>9, <1>15, <2>1
  <2>5. QED
    BY <1>11, <1>20, <2>2, <2>3, <2>4 DEF IterInv, ToCome, Coming
<1>23. NoneLoose' /\ table' = Ents(tree') /\ expected' = result'
  BY <1>1, <1>2 DEF NoneLoose, Loose
<1>24. QED
  BY <1>1, <1>2, <1>22, <1>23 DEF TrieInv

\* The iterator ends when nothing is left on its stack.
LEMMA IterEndsKeeps ==
  ASSUME TrieInv, IterEnds
  PROVE  TrieInv'
<1>1. /\ op = "iter" /\ op' = "listed" /\ stack = << >>
      /\ UNCHANGED <<root, tree, arg, stack, result, listed, table, expected>>
  BY DEF IterEnds
<1>2. Trie(root, tree) /\ NoneLoose /\ table = Ents(tree) /\ expected = result /\ IterInv
  BY <1>1 DEF TrieInv
<1>3. NoneLoose'
  BY <1>1, <1>2 DEF NoneLoose, Loose
<1>4. IterInv'
  BY <1>1, <1>2 DEF IterInv, ToCome
<1>5. QED
  BY <1>1, <1>2, <1>3, <1>4 DEF TrieInv

\* Every step keeps the invariant.
LEMMA TrieInvKept == TrieInv /\ [TrieNext]_trieVars => TrieInv'
<1> SUFFICES ASSUME TrieInv, [TrieNext]_trieVars PROVE TrieInv'
  OBVIOUS
<1>1. ASSUME NEW a \in Addresses, NEW len \in Lengths, Remove(a, len) PROVE TrieInv'
  BY <1>1, RemoveKeeps
<1>2. ASSUME NEW a \in Addresses, NEW len \in Lengths, NEW v \in Values,
             InsertFirst(a, len, v) \/ Insert(a, len, v)
      PROVE  TrieInv'
  BY <1>2, InsertFirstKeeps, InsertKeeps
<1>3. ASSUME NEW a \in Addresses, LongestMatch(a) PROVE TrieInv'
  BY <1>3, LongestMatchKeeps
<1>4. Iter => TrieInv'
  BY IterKeeps
<1>5. InsertReplaces \/ InsertDescends \/ InsertSplits => TrieInv'
  BY InsertReplacesKeeps, InsertDescendsKeeps, InsertSplitsKeeps
<1>6. RemoveFinds \/ RemoveMisses \/ RemoveDescends \/ Unwinds => TrieInv'
  BY RemoveFindsKeeps, RemoveMissesKeeps, RemoveDescendsKeeps, UnwindsKeeps
<1>7. MatchGoesOn \/ MatchEnds \/ IterNext \/ IterEnds => TrieInv'
  BY MatchGoesOnKeeps, MatchEndsKeeps, IterNextKeeps, IterEndsKeeps
<1>8. UNCHANGED trieVars => TrieInv'
  <2> SUFFICES ASSUME UNCHANGED trieVars PROVE TrieInv'
    OBVIOUS
  <2>1. /\ root' = root /\ tree' = tree /\ op' = op /\ arg' = arg /\ stack' = stack /\ result' = result
        /\ listed' = listed /\ table' = table /\ expected' = expected
    BY DEF trieVars
  <2>2. /\ NoneLoose' <=> NoneLoose
        /\ InsertInv' <=> InsertInv
        /\ RemoveInv' <=> RemoveInv
        /\ UnwindInv' <=> UnwindInv
        /\ MatchInv' <=> MatchInv
        /\ IterInv' <=> IterInv
    <3>1. NoneLoose' <=> NoneLoose
      BY <2>1 DEF NoneLoose, Loose, Matched, Here
    <3>2. Path' <=> Path
      BY <2>1 DEF Path
    <3>3. Goal' = Goal /\ Here' = Here /\ Args' = Args
      BY <2>1 DEF Goal, Here, Args
    <3>4. (InsertInv' <=> InsertInv) /\ (RemoveInv' <=> RemoveInv)
      BY <2>1, <3>2, <3>3 DEF InsertInv, RemoveInv
    <3>5. (UnwindInv' <=> UnwindInv) /\ (MatchInv' <=> MatchInv)
      BY <2>1, <3>2, <3>3 DEF UnwindInv, MatchInv
    <3>6. IterInv' <=> IterInv
      BY <2>1 DEF IterInv, ToCome
    <3>7. QED
      BY <3>1, <3>4, <3>5, <3>6
  <2>3. QED
    BY <2>1, <2>2 DEF TrieInv
<1>9. QED
  BY <1>1, <1>2, <1>3, <1>4, <1>5, <1>6, <1>7, <1>8 DEF TrieNext

\* The invariant holds always.
LEMMA TrieInvAlways == TrieSpec => []TrieInv
BY TrieInvAtFirst, TrieInvKept, PTL DEF TrieSpec

\* After any calls of insert and remove the trie passes self_check: keys are masked,
\* children extend their parents on the right side, and no node is left without a value
\* that does not separate two others (mod.rs:242).
THEOREM TriePassesSelfCheck == TrieSpec => []SelfCheck
<1>1. TrieInv => SelfCheck
  <2> SUFFICES ASSUME TrieInv, Idle, NEW n \in DOMAIN tree PROVE Sound(n)
    BY DEF SelfCheck
  <2>1. /\ Trie(root, tree)
        /\ tree[n].value = NoValue => \A b \in Bit : KidOf(tree, n, b) # Nil
    BY WhenIdle
  <2>2. n \in Prefixes /\ Keyed(n) /\ n.len \in Nat
    BY <2>1, NodeIsKeyed DEF Trie
  <2>3. n.len \in Lengths /\ n.k = Under(n.k, n.len)
    BY <2>2 DEF Prefixes, Keyed
  <2>4. tree[n].value = NoValue => tree[n].kids[0] # Nil /\ tree[n].kids[1] # Nil
    BY <2>1 DEF Bit, KidOf
  <2>5. ASSUME NEW b \in Bit, KidOf(tree, n, b) # Nil
        PROVE  LET kid == KidOf(tree, n, b)
               IN /\ kid \in DOMAIN tree /\ n.len < kid.len /\ Side(n, kid.k) = b
                  /\ Under(kid.k, n.len) = n.k
    <3> DEFINE kid == KidOf(tree, n, b)
    <3>1. kid \in DOMAIN tree /\ Above(n, kid) /\ Side(n, kid.k) = b
      BY <2>1, <2>5 DEF Trie, KidsRight
    <3> HIDE DEF kid
    <3>2. Keyed(kid) /\ Covers(n, kid) /\ n.len < kid.len
      BY <2>1, <2>2, <3>1, NodeIsKeyed, AboveCovers DEF Trie
    <3>3. n = Name(Under(kid.k, n.len), n.len)
      BY <2>2, <3>2, PrefixOf
    <3>4. Under(kid.k, n.len) = n.k
      BY <3>3 DEF Name
    <3>5. QED
      BY <3>1, <3>2, <3>4 DEF kid
  <2>6. QED
    BY <2>3, <2>4, <2>5 DEF Sound, KidOf
<1>2. QED
  BY <1>1, TrieInvAlways, PTL

\* The trie holds what the reference table holds after the same calls, and insert,
\* remove and longest_match return what the reference's do.
THEOREM TrieIsTheTable == TrieSpec => []MatchesReference
<1>1. TrieInv => MatchesReference
  BY EntriesAreEnts DEF TrieInv, MatchesReference, Idle
<1>2. QED
  BY <1>1, TrieInvAlways, PTL

\* An iteration has yielded every entry, once.
THEOREM IterationIsExact == TrieSpec => []IterExact
<1>1. TrieInv => IterExact
  <2> SUFFICES ASSUME TrieInv, op = "listed" PROVE IterExact
    BY DEF IterExact
  <2> DEFINE T == [name : DOMAIN tree, value : Values]
             E == Ents(tree)
             n == Len(listed)
             Of(q) == [name |-> q, value |-> E[q]]
  <2>1. IterInv /\ stack = << >>
    BY DEF TrieInv
  <2>2. Len(stack) = 0 /\ \A q : ~ToCome(q)
    BY <2>1 DEF ToCome
  <2>3. /\ listed \in Seq(T)
        /\ \A i \in 1..n : tree[listed[i].name].value = listed[i].value
        /\ \A i, j \in 1..n : i # j => listed[i].name # listed[j].name
        /\ \A q \in DOMAIN tree : tree[q].value # NoValue => \E i \in 1..n : listed[i].name = q
    BY <2>1, <2>2 DEF IterInv
  <2>4. \A e \in T : e.name \in DOMAIN tree /\ e.value # NoValue /\ e = [name |-> e.name, value |-> e.value]
    BY IpLookupTrieAssumption
  <2> HIDE DEF T, Of
  <2>5. \A q : q \in DOMAIN E <=> q \in DOMAIN tree /\ tree[q].value # NoValue
    BY EntsAre
  <2>6. \A q \in DOMAIN E : E[q] = tree[q].value
    BY EntsAre
  <2> HIDE DEF E
  <2>7. n \in Nat /\ DOMAIN listed = 1..n /\ \A i \in 1..n : listed[i] \in T
    BY <2>3
  <2> HIDE DEF n
  <2>8. ASSUME NEW i \in 1..n
        PROVE  listed[i].name \in DOMAIN E /\ listed[i] = Of(listed[i].name)
    <3>1. listed[i].name \in DOMAIN E /\ E[listed[i].name] = listed[i].value
      BY <2>3, <2>4, <2>5, <2>6, <2>7
    <3>2. QED
      BY <2>4, <2>7, <3>1 DEF Of
  <2>9. \A q \in DOMAIN E : \E i \in 1..n : listed[i].name = q
    BY <2>3, <2>5
  <2>10. {listed[i] : i \in DOMAIN listed} = {Of(q) : q \in DOMAIN E}
    <3> DEFINE Left == {listed[i] : i \in DOMAIN listed}
               Right == {Of(q) : q \in DOMAIN E}
    <3>1. ASSUME NEW i \in DOMAIN listed PROVE listed[i] \in Right
      BY <2>7, <2>8
    <3>2. ASSUME NEW q \in DOMAIN E PROVE Of(q) \in Left
      <4>1. PICK i \in 1..n : listed[i].name = q
        BY <2>9
      <4>2. listed[i] = Of(q) /\ i \in DOMAIN listed
        BY <2>7, <2>8, <4>1
      <4>3. QED
        BY <4>2
    <3>3. QED
      BY <3>1, <3>2
  <2>11. n = Cardinality(DOMAIN E)
    <3> DEFINE f == [i \in 1..n |-> listed[i].name]
    <3>1. f \in [1..n -> DOMAIN E]
      BY <2>8
    <3>2. \A i, j \in 1..n : f[i] = f[j] => i = j
      BY <2>3 DEF n
    <3>3. \A q \in DOMAIN E : \E i \in 1..n : f[i] = q
      BY <2>9
    <3> HIDE DEF f
    <3>4. ExistsBijection(1..n, DOMAIN E)
      BY <3>1, <3>2, <3>3 DEF ExistsBijection, Bijection, Injection, IsInjective, Surjection
    <3>5. QED
      BY <2>7, <3>4, FS_CountingElements
  <2>12. QED
    BY <2>10, <2>11, EntriesAreEnts DEF IterExact, Of, E, n
<1>2. QED
  BY <1>1, TrieInvAlways, PTL

-----------------------------------------------------------------------------
(* The anti-replay window.                                                     *)

USE AntiReplayAssumption

\* Division with remainder.
LEMMA DivMod ==
  ASSUME NEW n \in Nat, NEW d \in Nat \ {0}
  PROVE  /\ n \div d \in Nat /\ n % d \in 0..(d - 1)
         /\ n = d * (n \div d) + (n % d)
OBVIOUS

\* A positive factor only makes a product larger.
LEMMA MulMonotonic ==
  ASSUME NEW d \in Nat, NEW a \in Int, NEW b \in Int, a <= b
  PROVE  d * a <= d * b
OBVIOUS

\* Places less than a whole ring apart are different.
LEMMA ModDistinct ==
  ASSUME NEW d \in Nat \ {0}, NEW v \in Nat, NEW w \in Nat, v < w, w < v + d
  PROVE  v % d # w % d
<1> SUFFICES ASSUME v % d = w % d PROVE FALSE
  OBVIOUS
<1> DEFINE q == w \div d - v \div d
<1>1. w - v = d * q /\ q \in Int
  BY DivMod
<1>2. CASE q <= 0
  <2>1. d * q <= d * 0
    BY <1>1, <1>2, MulMonotonic
  <2>2. QED
    BY <2>1, <1>1
<1>3. CASE q >= 1
  <2>1. d * 1 <= d * q
    BY <1>1, <1>3, MulMonotonic
  <2>2. QED
    BY <2>1, <1>1
<1>4. QED
  BY <1>1, <1>2, <1>3

\* A counter is its word and its place in it.
LEMMA Places ==
  ASSUME NEW n \in Seqs
  PROVE  /\ n \in Nat /\ WordOf(n) \in Nat /\ BitLocation(n) \in Locs
         /\ n = WordSize * WordOf(n) + BitLocation(n)
<1>1. n \in Nat
  BY DEF Seqs
<1>2. /\ n \div WordSize \in Nat /\ n % WordSize \in 0..(WordSize - 1)
      /\ n = WordSize * (n \div WordSize) + (n % WordSize)
  BY <1>1
<1>3. QED
  BY <1>1, <1>2 DEF WordOf, BitLocation, Locs

\* A word has a place in the ring.
LEMMA InRing ==
  ASSUME NEW w \in Nat
  PROVE  Index(w) \in Ring
BY DivMod DEF Index, Ring

\* Counters and their words are ordered alike.
LEMMA WordsOrdered ==
  ASSUME NEW m \in Seqs, NEW n \in Seqs
  PROVE  /\ m <= n => WordOf(m) <= WordOf(n)
         /\ WordOf(m) = WordOf(n) /\ BitLocation(m) = BitLocation(n) => m = n
<1>1. ASSUME m <= n, WordOf(m) > WordOf(n) PROVE FALSE
  <2>1. WordSize * (WordOf(n) + 1) <= WordSize * WordOf(m)
    BY <1>1, Places, MulMonotonic
  <2>2. WordSize * (WordOf(n) + 1) = WordSize * WordOf(n) + WordSize
    BY Places
  <2>3. QED
    BY <1>1, <2>1, <2>2, Places DEF Locs
<1>2. QED
  BY <1>1, Places

\* A counter within the window of last has its word in the ring.
LEMMA WindowCovered ==
  ASSUME NEW n \in Seqs, last \in Seqs, n <= last, last - n <= Window
  PROVE  Covered(n)
<1>1. ASSUME WordOf(n) + Words <= WordOf(last) PROVE FALSE
  <2>1. WordSize * (WordOf(n) + Words) <= WordSize * WordOf(last)
    BY <1>1, Places, MulMonotonic
  <2>2. WordSize * (WordOf(n) + Words) = WordSize * WordOf(n) + Words * WordSize
    BY Places
  <2>3. QED
    BY <2>1, <2>2, Places DEF Locs, Window
<1>2. QED
  BY <1>1, WordsOrdered, Places DEF Covered

\* Two words of the ring that share a place are the same.
LEMMA CoveredDistinct ==
  ASSUME NEW v \in Nat, NEW w \in Nat, NEW top \in Nat,
         v <= top, v + Words > top, w <= top, w + Words > top,
         Index(v) = Index(w)
  PROVE  v = w
<1>1. ASSUME v < w PROVE FALSE
  <2>1. w < v + Words
    OBVIOUS
  <2>2. v % Words # w % Words
    BY <1>1, <2>1, ModDistinct
  <2>3. QED
    BY <2>2 DEF Index
<1>2. ASSUME w < v PROVE FALSE
  <2>1. v < w + Words
    OBVIOUS
  <2>2. w % Words # v % Words
    BY <1>2, <2>1, ModDistinct
  <2>3. QED
    BY <2>2 DEF Index
<1>3. QED
  BY <1>1, <1>2

-----------------------------------------------------------------------------

\* last is the highest counter accepted, 0 before there is one.
LastIsHighest ==
  /\ \A m \in accepted : m <= last
  /\ accepted = {} => last = 0
  /\ accepted # {} => last \in accepted

Inv == TypeOK /\ LastIsHighest /\ BitmapExact

\* The window's width is not negative.
LEMMA WindowNat == Window \in Nat
<1>1. WordSize * 1 <= WordSize * Words
  BY MulMonotonic
<1>2. QED
  BY <1>1 DEF Window

\* check says what the abstract window says.
LEMMA CheckExact ==
  ASSUME Inv, NEW n \in Seqs
  PROVE  Check(n) <=> (n \notin accepted /\ ~RW!TooOld(n))
<1> USE WindowNat, Places DEF Inv, TypeOK, LastIsHighest, RW!TooOld
<1>1. \A m \in accepted : m \in Nat
  BY DEF Seqs
<1>2. CASE n > last
  BY <1>1, <1>2 DEF Check
<1>3. CASE n <= last /\ last - n <= Window
  <2>1. BitSet(n) <=> n \in accepted
    BY <1>3, WindowCovered DEF BitmapExact
  <2>2. QED
    BY <1>1, <1>3, <2>1 DEF Check
<1>4. CASE n <= last /\ last - n > Window
  <2>1. last \in accepted
    BY <1>4
  <2>2. QED
    BY <1>4, <2>1 DEF Check
<1>5. QED
  BY <1>2, <1>3, <1>4

\* What update makes of the bits of a counter the ring covers afterwards.
LEMMA UpdateBits ==
  ASSUME Inv, NEW n \in Seqs, Check(n), Update(n), NEW m \in Seqs, Covered(m)'
  PROVE  BitSet(m)' <=> (m = n \/ m \in accepted)
<1> DEFINE W == WordOf(last)
           kept == IF n > last
                   THEN [i \in Ring |-> IF i \in Cleared(n) THEN {} ELSE bitmap[i]]
                   ELSE bitmap
<1> USE DEF Inv, TypeOK
<1>1. /\ W \in Nat /\ WordOf(n) \in Nat /\ WordOf(m) \in Nat
      /\ Index(WordOf(n)) \in Ring /\ Index(WordOf(m)) \in Ring
  BY Places, InRing
<1>2. /\ last' = IF n > last THEN n ELSE last
      /\ bitmap' = [kept EXCEPT ![Index(WordOf(n))] = @ \cup {BitLocation(n)}]
      /\ kept \in [Ring -> SUBSET Locs]
  BY DEF Update
<1>3. /\ WordOf(m) <= WordOf(last') /\ WordOf(m) + Words > WordOf(last')
      /\ BitSet(m)' <=> BitLocation(m) \in bitmap'[Index(WordOf(m))]
  BY DEF Covered, BitSet, WordOf, BitLocation, Index
<1>4. /\ WordOf(last') \in Nat /\ WordOf(n) <= WordOf(last')
      /\ WordOf(n) + Words > WordOf(last')
  <2>1. CASE n > last
    BY <1>1, <1>2, <2>1
  <2>2. CASE n <= last
    BY <1>1, <1>2, <2>2, WindowCovered, Places DEF Check, Covered
  <2>3. QED
    BY <2>1, <2>2, Places
\* The bit that update sets is n's, and no other counter's.
<1>5. BitSet(m)' <=> m = n \/ BitLocation(m) \in kept[Index(WordOf(m))]
  <2>1. CASE Index(WordOf(m)) = Index(WordOf(n))
    <3>1. WordOf(m) = WordOf(n)
      BY <1>1, <1>3, <1>4, <2>1, CoveredDistinct
    <3>2. BitLocation(m) = BitLocation(n) => m = n
      BY <3>1, WordsOrdered
    <3>3. QED
      BY <1>1, <1>2, <1>3, <2>1, <3>2
  <2>2. CASE Index(WordOf(m)) # Index(WordOf(n))
    BY <1>1, <1>2, <1>3, <2>2
  <2>3. QED
    BY <2>1, <2>2
\* The bits that update keeps are those of the counters accepted.
<1>6. BitLocation(m) \in kept[Index(WordOf(m))] <=> m \in accepted
  <2>1. CASE n <= last
    <3>1. kept = bitmap /\ Covered(m)
      BY <1>2, <1>3, <2>1, Places DEF Covered
    <3>2. QED
      BY <3>1 DEF BitmapExact, BitSet
  <2>2. CASE n > last /\ WordOf(m) <= W
    <3>1. Covered(m) /\ W <= WordOf(n)
      BY <1>1, <1>2, <1>3, <2>2, WordsOrdered, Places DEF Covered
    <3>2. WordOf(n) - W < Words
      BY <1>1, <1>2, <1>3, <2>2
    <3>3. ASSUME NEW i \in 1..(WordOf(n) - W), Index(W + i) = Index(WordOf(m))
          PROVE  FALSE
      <4>1. W + i \in Nat /\ W + i <= WordOf(n) /\ W + i + Words > WordOf(n)
        BY <1>1, <3>2
      <4>2. WordOf(m) <= WordOf(n) /\ WordOf(m) + Words > WordOf(n)
        BY <1>1, <1>2, <1>3, <2>2
      <4>3. W + i = WordOf(m)
        BY <1>1, <3>3, <4>1, <4>2, CoveredDistinct
      <4>4. QED
        BY <1>1, <2>2, <4>3
    <3>4. Index(WordOf(m)) \notin Cleared(n)
      BY <1>1, <3>2, <3>3 DEF Cleared
    <3>5. QED
      BY <1>1, <2>2, <3>1, <3>4 DEF BitmapExact, BitSet
  <2>3. CASE n > last /\ WordOf(m) > W
    <3>1. m > last
      BY <2>3, <1>1, WordsOrdered, Places
    <3>2. m \notin accepted
      BY <3>1, Places DEF LastIsHighest, Seqs
    <3>3. WordOf(m) <= WordOf(n)
      BY <1>2, <1>3, <2>3
    <3>4. Index(WordOf(m)) \in Cleared(n)
      <4>1. CASE WordOf(n) - W >= Words
        BY <1>1, <4>1 DEF Cleared
      <4>2. CASE WordOf(n) - W < Words
        <5>1. /\ WordOf(m) - W \in 1..(WordOf(n) - W)
              /\ WordOf(m) = W + (WordOf(m) - W)
          BY <1>1, <2>3, <3>3
        <5>2. QED
          BY <1>1, <4>2, <5>1 DEF Cleared
      <4>3. QED
        BY <1>1, <4>1, <4>2
    <3>5. QED
      BY <1>1, <2>3, <3>2, <3>4
  <2>4. QED
    BY <1>1, <2>1, <2>2, <2>3, Places
<1>7. QED
  BY <1>5, <1>6

\* A step keeps the ring exact.
LEMMA InvStep ==
  ASSUME Inv, [Next]_vars
  PROVE  Inv'
<1>1. ASSUME NEW n \in Seqs, Check(n), CheckAndUpdate(n) PROVE Inv'
  <2>1. Update(n) /\ accepted' = accepted \cup {n} /\ verdict' = TRUE
    BY <1>1 DEF CheckAndUpdate
  <2>2. TypeOK'
    <3>1. Index(WordOf(n)) \in Ring /\ BitLocation(n) \in Locs
      BY Places, InRing
    <3>2. last' \in Seqs /\ accepted' \subseteq Seqs /\ verdict' \in BOOLEAN
      BY <2>1 DEF Update, Inv, TypeOK
    <3>3. bitmap' \in [Ring -> SUBSET Locs]
      BY <2>1, <3>1 DEF Update, Inv, TypeOK
    <3>4. QED
      BY <3>2, <3>3 DEF TypeOK
  <2>3. LastIsHighest'
    BY <2>1, Places DEF Update, Inv, TypeOK, LastIsHighest, Seqs
  <2>4. ASSUME NEW m \in Seqs, Covered(m)' PROVE (BitSet(m) <=> m \in accepted)'
    BY <1>1, <2>1, <2>4, UpdateBits
  <2>5. QED
    BY <2>2, <2>3, <2>4 DEF Inv, BitmapExact
<1>2. ASSUME UNCHANGED <<bitmap, last, accepted>>, verdict' \in BOOLEAN PROVE Inv'
  BY <1>2 DEF Inv, TypeOK, LastIsHighest, BitmapExact, Covered, BitSet
<1>3. ASSUME NEW n \in Seqs, ~Check(n), CheckAndUpdate(n) PROVE Inv'
  BY <1>2, <1>3 DEF CheckAndUpdate
<1>4. CASE UNCHANGED vars
  BY <1>2, <1>4 DEF vars, Inv, TypeOK
<1>5. QED
  BY <1>1, <1>3, <1>4 DEF Next

\* A new window is exact.
LEMMA InvInit == Init => Inv
<1> SUFFICES ASSUME Init PROVE Inv
  OBVIOUS
<1>1. TypeOK /\ LastIsHighest
  <2>1. last \in Seqs
    BY AntiReplayAssumption DEF Init, Seqs
  <2>2. bitmap \in [Ring -> SUBSET Locs]
    BY DEF Init
  <2>3. QED
    BY <2>1, <2>2 DEF Init, TypeOK, LastIsHighest
<1>2. BitmapExact
  <2>1. ASSUME NEW n \in Seqs PROVE ~BitSet(n)
    BY Places, InRing DEF Init, BitSet
  <2>2. QED
    BY <2>1 DEF Init, BitmapExact
<1>3. QED
  BY <1>1, <1>2 DEF Inv

\* update never leaves the bit of an older counter in a word it reuses and never
\* clears one the window still needs.
THEOREM BitmapAlwaysExact == Spec => []BitmapExact
<1>1. Inv => BitmapExact
  BY DEF Inv
<1>2. QED
  BY <1>1, InvInit, InvStep, PTL DEF Spec

\* check_and_update implements the abstract window: no counter is accepted
\* twice, none that is too old, and every other one is.
THEOREM WindowImplemented == Spec => ImplementsWindow
<1>1. Init => RW!Init
  BY DEF Init, RW!Init
<1>2. Inv /\ [Next]_vars => [RW!Next]_<<accepted, verdict>>
  <2>1. ASSUME Inv, NEW n \in Seqs, CheckAndUpdate(n) PROVE RW!Accept(n) \/ RW!Refuse(n)
    BY <2>1, CheckExact DEF CheckAndUpdate, RW!Accept, RW!Refuse
  <2>2. QED
    BY <2>1 DEF Next, RW!Next, RW!Seqs, Seqs, vars
<1>3. QED
  BY <1>1, <1>2, InvInit, InvStep, PTL DEF Spec, ImplementsWindow, RW!Spec
=============================================================================
