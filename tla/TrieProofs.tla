----------------------------- MODULE TrieProofs -----------------------------
(***************************************************************************)
(* Theorems about Trie, for any alphabet, any words and batches of them,   *)
(* any number of writers and readers, and any number of copies of a node.  *)
(***************************************************************************)
EXTENDS Trie, FiniteSetTheorems, SequenceTheorems, WellFoundedInduction, TLAPS

(***************************************************************************)
(* Induction.  The provers cannot instantiate the induction theorems of    *)
(* the library, which take an operator; that every non-empty set of        *)
(* numbers has a least one follows from its theorems about sets, and a     *)
(* proof by induction is one about the least counterexample.               *)
(***************************************************************************)
LEMMA LeastNumber ==
    ASSUME NEW S, S \subseteq Nat, S # {}
    PROVE  \E x \in S : \A y \in S : x <= y
<1> DEFINE Lt == OpToRel(<, Nat)
<1>1. IsWellFoundedOn(Lt, Nat)
  BY NatLessThanWellFounded
<1>2. \E x \in S : \A y \in S : ~ (<<y, x>> \in Lt)
  <2> HIDE DEF Lt
  <2> QED BY <1>1, WFMin
<1>3. \A x, y \in Nat : y < x => <<y, x>> \in Lt
  BY DEF OpToRel
<1> HIDE DEF Lt
<1>4. PICK x \in S : \A y \in S : ~ (<<y, x>> \in Lt)
  BY <1>2
<1>5. \A y \in S : ~ (y < x)
  BY <1>3, <1>4
<1>6. ASSUME NEW y \in S PROVE x <= y
  <2>1. x \in Nat /\ y \in Nat /\ ~ (y < x)
    BY <1>5
  <2> QED BY <2>1
<1> QED BY <1>6

LEMMA Shortest ==
    ASSUME NEW S, NEW B, B \subseteq Seq(S), B # {}
    PROVE  \E p \in B : \A q \in B : Len(p) <= Len(q)
<1> DEFINE L == {Len(p) : p \in B}
<1>1. L \subseteq Nat /\ L # {}
  BY LenProperties
<1>2. PICK n \in L : \A m \in L : n <= m
  <2> HIDE DEF L
  <2> QED BY <1>1, LeastNumber
<1> QED BY <1>2

-----------------------------------------------------------------------------
(***************************************************************************)
(* Texts as sequences, and their prefixes.                                 *)
(***************************************************************************)
LEMMA AppendFacts ==
    ASSUME NEW S, NEW r \in Seq(S), NEW c \in S
    PROVE  /\ Append(r, c) \in Seq(S) /\ Len(Append(r, c)) = Len(r) + 1
           /\ Append(r, c)[Len(r) + 1] = c
           /\ \A i \in 1 .. Len(r) : Append(r, c)[i] = r[i]
           /\ Prefix(Append(r, c), Len(r)) = r
  BY DEF Prefix

LEMMA Unappend ==
    ASSUME NEW S, NEW p \in Seq(S), p # <<>>
    PROVE  \E r \in Seq(S), c \in S : p = Append(r, c) /\ Len(p) = Len(r) + 1
  BY SequenceEmptyOrAppend, AppendFacts

\* A prefix letter by letter.
LEMMA PrefixIs ==
    ASSUME NEW S, NEW s \in Seq(S), NEW t \in Seq(S)
    PROVE  IsPrefix(s, t) <=> Len(s) <= Len(t) /\ \A i \in 1 .. Len(s) : s[i] = t[i]
<1>1. SubSeq(s, 1, Len(s)) = s
  OBVIOUS
<1>2. CASE Len(s) <= Len(t)
  <2>1. SubSeq(t, 1, Len(s)) = [i \in 1 .. Len(s) |-> t[i]]
    BY <1>2
  <2>2. s = [i \in 1 .. Len(s) |-> s[i]]
    OBVIOUS
  <2> QED BY <1>1, <1>2, <2>1, <2>2 DEF IsPrefix
<1>3. CASE ~ (Len(s) <= Len(t))
  BY <1>3 DEF IsPrefix
<1> QED BY <1>2, <1>3

LEMMA PrefixOf ==
    ASSUME NEW S, NEW t \in Seq(S), NEW n \in 0 .. Len(t)
    PROVE  /\ Prefix(t, n) \in Seq(S) /\ Len(Prefix(t, n)) = n
           /\ \A i \in 1 .. n : Prefix(t, n)[i] = t[i]
           /\ IsPrefix(Prefix(t, n), t)
<1>1. /\ Prefix(t, n) \in Seq(S) /\ Len(Prefix(t, n)) = n
      /\ \A i \in 1 .. n : Prefix(t, n)[i] = t[i]
  BY DEF Prefix
<1> QED BY <1>1, PrefixIs

\* The only prefix of a length.
LEMMA PrefixFixed ==
    ASSUME NEW S, NEW s \in Seq(S), NEW t \in Seq(S), IsPrefix(s, t)
    PROVE  Len(s) \in 0 .. Len(t) /\ s = Prefix(t, Len(s))
<1>1. Len(s) \in 0 .. Len(t) /\ \A i \in 1 .. Len(s) : s[i] = t[i]
  BY PrefixIs
<1> QED BY <1>1, PrefixOf, SeqEqual

LEMMA PrefixNext ==
    ASSUME NEW S, NEW t \in Seq(S), NEW n \in 0 .. Len(t) - 1
    PROVE  t[n + 1] \in S /\ Prefix(t, n + 1) = Append(Prefix(t, n), t[n + 1])
<1>1. n \in 0 .. Len(t) /\ n + 1 \in 0 .. Len(t)
  OBVIOUS
<1>2. t[n + 1] \in S
  OBVIOUS
<1> DEFINE a == Prefix(t, n + 1)
           b == Append(Prefix(t, n), t[n + 1])
<1>3. a \in Seq(S) /\ Len(a) = n + 1 /\ \A i \in 1 .. n + 1 : a[i] = t[i]
  BY <1>1, PrefixOf
<1>4. b \in Seq(S) /\ Len(b) = n + 1 /\ \A i \in 1 .. n + 1 : b[i] = t[i]
  <2>1. /\ Prefix(t, n) \in Seq(S) /\ Len(Prefix(t, n)) = n
        /\ \A i \in 1 .. n : Prefix(t, n)[i] = t[i]
    BY <1>1, PrefixOf
  <2> QED BY <2>1, <1>2, AppendFacts
<1> HIDE DEF a, b
<1>5. a = b
  BY <1>3, <1>4, SeqEqual
<1> QED BY <1>2, <1>5 DEF a, b

LEMMA PrefixAll ==
    ASSUME NEW S, NEW t \in Seq(S)
    PROVE  Prefix(t, Len(t)) = t /\ Prefix(t, 0) = <<>>
  BY DEF Prefix

LEMMA PrefixOrder ==
    ASSUME NEW S, NEW s \in Seq(S), NEW t \in Seq(S), NEW u \in Seq(S)
    PROVE  /\ IsPrefix(<<>>, s) /\ IsPrefix(s, s)
           /\ IsPrefix(s, t) /\ IsPrefix(t, u) => IsPrefix(s, u)
           /\ IsPrefix(s, t) /\ Len(s) = Len(t) => s = t
           /\ IsPrefix(s, t) => Len(s) <= Len(t)
           /\ IsPrefix(s, u) /\ IsPrefix(t, u) /\ Len(s) <= Len(t) => IsPrefix(s, t)
<1>1. <<>> \in Seq(S) /\ Len(<<>>) = 0
  OBVIOUS
<1>2. ASSUME IsPrefix(s, t), Len(s) = Len(t) PROVE s = t
  <2>1. \A i \in 1 .. Len(s) : s[i] = t[i]
    BY <1>2, PrefixIs
  <2> QED BY <1>2, <2>1, SeqEqual
<1>3. IsPrefix(<<>>, s)
  <2>1. Len(<<>>) <= Len(s) /\ \A i \in 1 .. Len(<<>>) : <<>>[i] = s[i]
    OBVIOUS
  <2> QED BY <1>1, <2>1, PrefixIs
<1>4. IsPrefix(s, s)
  BY PrefixIs
<1>5. ASSUME IsPrefix(s, t), IsPrefix(t, u) PROVE IsPrefix(s, u)
  <2>1. Len(s) <= Len(t) /\ \A i \in 1 .. Len(s) : s[i] = t[i]
    BY <1>5, PrefixIs
  <2>2. Len(t) <= Len(u) /\ \A i \in 1 .. Len(t) : t[i] = u[i]
    BY <1>5, PrefixIs
  <2>3. Len(s) <= Len(u) /\ \A i \in 1 .. Len(s) : s[i] = u[i]
    BY <2>1, <2>2
  <2> QED BY <2>3, PrefixIs
<1>6. ASSUME IsPrefix(s, u), IsPrefix(t, u), Len(s) <= Len(t) PROVE IsPrefix(s, t)
  BY <1>6, PrefixIs
<1> QED BY <1>2, <1>3, <1>4, <1>5, <1>6, PrefixIs

LEMMA PrefixAppend ==
    ASSUME NEW S, NEW s \in Seq(S), NEW t \in Seq(S), NEW c \in S
    PROVE  /\ IsPrefix(s, Append(s, c))
           /\ IsPrefix(Append(s, c), t) <=> IsPrefix(s, t) /\ Len(s) < Len(t) /\ t[Len(s) + 1] = c
           /\ IsPrefix(t, Append(s, c)) <=> IsPrefix(t, s) \/ t = Append(s, c)
<1> DEFINE a == Append(s, c)
<1>1. /\ a \in Seq(S) /\ Len(a) = Len(s) + 1
      /\ a[Len(s) + 1] = c
      /\ \A i \in 1 .. Len(s) : a[i] = s[i]
  BY AppendFacts
<1> HIDE DEF a
<1>2. IsPrefix(s, a)
  BY <1>1, PrefixIs
<1>3. IsPrefix(a, t) <=> IsPrefix(s, t) /\ Len(s) < Len(t) /\ t[Len(s) + 1] = c
  <2>1. ASSUME IsPrefix(a, t)
        PROVE  IsPrefix(s, t) /\ Len(s) < Len(t) /\ t[Len(s) + 1] = c
    <3>1. Len(a) <= Len(t) /\ \A i \in 1 .. Len(a) : a[i] = t[i]
      BY <2>1, <1>1, PrefixIs
    <3>2. Len(s) + 1 \in 1 .. Len(a) /\ \A i \in 1 .. Len(s) : i \in 1 .. Len(a)
      BY <1>1
    <3>3. Len(s) < Len(t) /\ \A i \in 1 .. Len(s) : s[i] = t[i]
      BY <3>1, <3>2, <1>1
    <3> QED BY <3>1, <3>2, <3>3, <1>1, PrefixIs
  <2>2. ASSUME IsPrefix(s, t), Len(s) < Len(t), t[Len(s) + 1] = c
        PROVE  IsPrefix(a, t)
    <3>1. \A i \in 1 .. Len(s) : s[i] = t[i]
      BY <2>2, PrefixIs
    <3>2. Len(a) <= Len(t) /\ \A i \in 1 .. Len(a) : a[i] = t[i]
      BY <2>2, <3>1, <1>1
    <3> QED BY <3>2, <1>1, PrefixIs
  <2> QED BY <2>1, <2>2
<1>4. ASSUME IsPrefix(t, a) PROVE IsPrefix(t, s) \/ t = a
  <2>1. CASE Len(t) = Len(s) + 1
    BY <2>1, <1>1, <1>4, PrefixOrder
  <2>2. CASE Len(t) # Len(s) + 1
    <3>1. Len(t) <= Len(s) /\ \A i \in 1 .. Len(t) : t[i] = a[i]
      BY <2>2, <1>1, <1>4, PrefixIs
    <3>2. \A i \in 1 .. Len(t) : t[i] = s[i]
      BY <3>1, <1>1
    <3> QED BY <3>1, <3>2, PrefixIs
  <2> QED BY <2>1, <2>2
<1>5. ASSUME IsPrefix(t, s) PROVE IsPrefix(t, a)
  BY <1>1, <1>2, <1>5, PrefixOrder
<1>6. IsPrefix(a, a)
  BY <1>1, PrefixOrder
<1>7. /\ IsPrefix(s, a)
      /\ IsPrefix(a, t) <=> IsPrefix(s, t) /\ Len(s) < Len(t) /\ t[Len(s) + 1] = c
      /\ IsPrefix(t, a) <=> IsPrefix(t, s) \/ t = a
  BY <1>2, <1>3, <1>4, <1>5, <1>6
<1> QED BY <1>7 DEF a

-----------------------------------------------------------------------------
(***************************************************************************)
(* The walk from the root, as a function of the heap.                      *)
(***************************************************************************)
ChildIn(h, n, c) == IF n # None /\ c \in DOMAIN h[n].children
                      THEN h[n].children[c] ELSE None

AtIn(h, path) ==
    LET walk[n \in 0 .. Len(path)] ==
          IF n = 0 THEN Root ELSE ChildIn(h, walk[n - 1], path[n])
    IN  walk[Len(path)]

LEMMA AtIs == \A p : At(p) = AtIn(heap, p) /\ At(p)' = AtIn(heap', p)
  BY DEF At, AtIn, Child, ChildIn

IsWalk(w, h, path) ==
    w = [n \in 0 .. Len(path) |-> IF n = 0 THEN Root ELSE ChildIn(h, w[n - 1], path[n])]

LEMMA WalkStep ==
    ASSUME NEW w, NEW h, NEW path, IsWalk(w, h, path), Len(path) \in Nat
    PROVE  /\ w[0] = Root
           /\ \A n \in 1 .. Len(path) : w[n] = ChildIn(h, w[n - 1], path[n])
<1>1. \A n \in 0 .. Len(path) :
         w[n] = IF n = 0 THEN Root ELSE ChildIn(h, w[n - 1], path[n])
  BY Zenon DEF IsWalk
<1> QED BY <1>1

\* The recursive definition defines something.
LEMMA WalkExists ==
    ASSUME NEW S, NEW h, NEW path \in Seq(S)
    PROVE  \E w : IsWalk(w, h, path)
<1> DEFINE B == {p \in Seq(S) : ~ \E w : IsWalk(w, h, p)}
<1> SUFFICES ASSUME B # {} PROVE FALSE
  OBVIOUS
<1>1. PICK p \in B : \A q \in B : Len(p) <= Len(q)
  BY Shortest, Zenon
<1>2. p # <<>>
  <2> SUFFICES ASSUME p = <<>> PROVE FALSE
    OBVIOUS
  <2>1. 0 .. Len(<<>>) = {0}
    OBVIOUS
  <2>2. IsWalk([n \in {0} |-> Root], h, <<>>)
    BY <2>1 DEF IsWalk
  <2> QED BY <2>2
<1>3. PICK r \in Seq(S), c \in S : p = Append(r, c) /\ Len(p) = Len(r) + 1
  BY <1>2, Unappend
<1>4. PICK w : IsWalk(w, h, r)
  <2>1. Len(r) \in Nat /\ ~ (Len(p) <= Len(r))
    BY <1>3
  <2> QED BY <2>1, <1>1
<1> DEFINE v == [n \in 0 .. Len(p) |->
                   IF n = Len(p) THEN ChildIn(h, w[Len(r)], c) ELSE w[n]]
<1>5. ASSUME NEW n \in 0 .. Len(p)
      PROVE  v[n] = IF n = 0 THEN Root ELSE ChildIn(h, v[n - 1], p[n])
  <2>1. Len(r) \in Nat /\ p[Len(r) + 1] = c /\ \A i \in 1 .. Len(r) : p[i] = r[i]
    BY <1>3, AppendFacts
  <2>2. CASE n = Len(p)
    <3>1. v[n] = ChildIn(h, w[Len(r)], c) /\ v[n - 1] = w[Len(r)] /\ n # 0
      BY <2>1, <2>2, <1>3
    <3> QED BY <3>1, <2>1, <2>2, <1>3
  <2>3. CASE n # Len(p)
    <3>1. n \in 0 .. Len(r) /\ v[n] = w[n]
      BY <2>1, <2>3, <1>3
    <3>2. CASE n = 0
      BY <3>1, <3>2, <2>1, <1>4, WalkStep
    <3>3. CASE n # 0
      <4>1. n \in 1 .. Len(r) /\ v[n - 1] = w[n - 1] /\ p[n] = r[n]
        BY <3>1, <3>3, <2>1, <1>3
      <4>2. w[n] = ChildIn(h, w[n - 1], r[n])
        BY <4>1, <2>1, <1>4, WalkStep
      <4> QED BY <3>1, <3>3, <4>1, <4>2
    <3> QED BY <3>2, <3>3
  <2> QED BY <2>2, <2>3
<1>6. v = [n \in 0 .. Len(p) |-> v[n]]
  OBVIOUS
<1> HIDE DEF v
<1>7. IsWalk(v, h, p)
  BY <1>5, <1>6 DEF IsWalk
<1> QED BY <1>7

LEMMA AtWalk ==
    ASSUME NEW S, NEW h, NEW path \in Seq(S)
    PROVE  \E w : IsWalk(w, h, path) /\ AtIn(h, path) = w[Len(path)]
<1>1. PICK u : IsWalk(u, h, path)
  BY WalkExists
<1> DEFINE w == CHOOSE u2 : u2 = [n \in 0 .. Len(path) |->
                   IF n = 0 THEN Root ELSE ChildIn(h, u2[n - 1], path[n])]
<1>2. IsWalk(w, h, path)
  BY <1>1, Zenon DEF IsWalk
<1>3. AtIn(h, path) = w[Len(path)]
  BY DEF AtIn
<1> QED BY <1>2, <1>3

\* Two walks agree as far as their paths do.
LEMMA WalkPrefix ==
    ASSUME NEW S, NEW h, NEW p \in Seq(S), NEW q \in Seq(S), IsPrefix(p, q),
           NEW v, IsWalk(v, h, p), NEW w, IsWalk(w, h, q)
    PROVE  v[Len(p)] = w[Len(p)]
<1> DEFINE B == {n \in 0 .. Len(p) : v[n] # w[n]}
<1> SUFFICES ASSUME B # {} PROVE FALSE
  OBVIOUS
<1>1. Len(p) \in Nat /\ Len(q) \in Nat /\ Len(p) <= Len(q)
      /\ \A i \in 1 .. Len(p) : p[i] = q[i]
  BY PrefixIs
<1>2. B \subseteq Nat
  OBVIOUS
<1>3. PICK n \in B : \A m \in B : n <= m
  BY <1>2, LeastNumber, Zenon
<1>4. v[0] = Root /\ w[0] = Root
  BY <1>1, WalkStep
<1>5. n \in 1 .. Len(p) /\ n - 1 \in 0 .. Len(p) /\ n - 1 \notin B
  BY <1>1, <1>3, <1>4
<1>6. v[n] = ChildIn(h, v[n - 1], p[n]) /\ w[n] = ChildIn(h, w[n - 1], q[n])
  BY <1>1, <1>5, WalkStep
<1>7. v[n - 1] = w[n - 1] /\ p[n] = q[n]
  BY <1>1, <1>5
<1> QED BY <1>3, <1>6, <1>7

\* The definition of the walk, unfolded once.
LEMMA AtRoot == \A h : AtIn(h, <<>>) = Root
<1> TAKE h
<1>1. <<>> \in Seq(Nat) /\ Len(<<>>) = 0
  OBVIOUS
<1>2. PICK w : IsWalk(w, h, <<>>) /\ AtIn(h, <<>>) = w[0]
  BY <1>1, AtWalk
<1> QED BY <1>1, <1>2, WalkStep

LEMMA AtAppend ==
    ASSUME NEW S, NEW h, NEW r \in Seq(S), NEW c \in S
    PROVE  AtIn(h, Append(r, c)) = ChildIn(h, AtIn(h, r), c)
<1> DEFINE p == Append(r, c)
<1>1. p \in Seq(S) /\ Len(r) \in Nat /\ Len(p) = Len(r) + 1 /\ p[Len(r) + 1] = c
      /\ IsPrefix(r, p)
  BY AppendFacts, PrefixAppend
<1> HIDE DEF p
<1>2. PICK v : IsWalk(v, h, r) /\ AtIn(h, r) = v[Len(r)]
  BY AtWalk
<1>3. PICK w : IsWalk(w, h, p) /\ AtIn(h, p) = w[Len(p)]
  BY <1>1, AtWalk
<1>4. v[Len(r)] = w[Len(r)]
  BY <1>1, <1>2, <1>3, WalkPrefix
<1>5. w[Len(r) + 1] = ChildIn(h, w[Len(r)], p[Len(r) + 1])
  <2>1. Len(r) + 1 \in 1 .. Len(p) /\ Len(p) \in Nat /\ Len(r) + 1 - 1 = Len(r)
    BY <1>1
  <2> QED BY <2>1, <1>3, WalkStep
<1>6. AtIn(h, p) = ChildIn(h, AtIn(h, r), c)
  BY <1>1, <1>2, <1>3, <1>4, <1>5
<1> QED BY <1>6 DEF p

-----------------------------------------------------------------------------
(***************************************************************************)
(* Paths, nodes and heaps.                                                 *)
(***************************************************************************)
LEMMA PathsAreTexts ==
    /\ Paths \subseteq Seq(Chars)
    /\ \A x \in Texts : Key[x] \in Paths
    /\ <<>> \in Seq(Chars)
<1>1. ASSUME NEW p \in Paths PROVE p \in Seq(Chars)
  <2>1. PICK x \in Texts : p \in {Prefix(Key[x], n) : n \in 0 .. Len(Key[x])}
    BY DEF Paths
  <2>2. PICK n \in 0 .. Len(Key[x]) : p = Prefix(Key[x], n)
    BY <2>1
  <2>3. Key[x] \in Seq(Chars)
    BY TrieAssumption
  <2> QED BY <2>2, <2>3, PrefixOf
<1>2. ASSUME NEW x \in Texts PROVE Key[x] \in Paths
  <2>1. Key[x] \in Seq(Chars) /\ Len(Key[x]) \in 0 .. Len(Key[x])
    BY TrieAssumption
  <2>2. Key[x] = Prefix(Key[x], Len(Key[x]))
    BY <2>1, PrefixAll
  <2> QED BY <2>1, <2>2 DEF Paths
<1> QED BY <1>1, <1>2

LEMMA PathsClosed ==
    ASSUME NEW p \in Paths, NEW q \in Seq(Chars), IsPrefix(q, p)
    PROVE  q \in Paths
<1>1. PICK x \in Texts : p \in {Prefix(Key[x], n) : n \in 0 .. Len(Key[x])}
  BY DEF Paths
<1>2. Key[x] \in Seq(Chars) /\ p \in Seq(Chars)
  BY TrieAssumption, PathsAreTexts
<1>3. IsPrefix(p, Key[x])
  BY <1>1, <1>2, PrefixOf
<1>4. IsPrefix(q, Key[x])
  BY <1>2, <1>3, PrefixOrder
<1>5. q = Prefix(Key[x], Len(q)) /\ Len(q) \in 0 .. Len(Key[x])
  BY <1>2, <1>4, PrefixFixed
<1> QED BY <1>5 DEF Paths

LEMMA NodeFacts ==
    /\ None \notin Nodes
    /\ \A n \in Nodes : n[1] \in Paths /\ n[1] \in Seq(Chars) /\ n = <<n[1], n[2]>>
    /\ \A p \in Paths, i \in 1 .. MaxCopies : <<p, i>> \in Nodes
<1>1. \A n \in Nodes : n[1] \in Paths /\ n[2] \in 1 .. MaxCopies /\ n = <<n[1], n[2]>>
  BY DEF Nodes
<1>2. \A i \in 1 .. MaxCopies : i \in Nat
  BY TrieAssumption
<1>3. \A n \in Nodes : n \in Seq(Chars) \X Nat
  BY <1>1, <1>2, PathsAreTexts
<1> QED BY <1>1, <1>3, PathsAreTexts, TrieAssumption DEF Nodes

ChildMaps == UNION {[D -> Nodes] : D \in SUBSET Chars}

TrieNode == [children : ChildMaps, is_end : BOOLEAN, weight : Weights \cup {0},
             value : Texts \cup {EmptyText}]

\* Every child of a node has the path of the node and one character more.
HeapOK(h) ==
    /\ h \in [Nodes -> TrieNode]
    /\ \A n \in Nodes : \A c \in DOMAIN h[n].children :
          h[n].children[c][1] = Append(n[1], c)

LEMMA ChildrenOK ==
    ASSUME NEW h, HeapOK(h), NEW n \in Nodes, NEW c \in DOMAIN h[n].children
    PROVE  c \in Chars /\ h[n].children[c] \in Nodes
           /\ h[n].children[c][1] = Append(n[1], c)
<1>1. h[n].children \in ChildMaps
  BY DEF HeapOK, TrieNode
<1>2. PICK D \in SUBSET Chars : h[n].children \in [D -> Nodes]
  BY <1>1, Zenon DEF ChildMaps
<1> QED BY <1>2 DEF HeapOK

\* The walk down a path ends nowhere or at a node of that path.
LEMMA AtNode ==
    ASSUME NEW h, HeapOK(h), Root \in Nodes, NEW path \in Seq(Chars)
    PROVE  AtIn(h, path) = None \/ (AtIn(h, path) \in Nodes /\ AtIn(h, path)[1] = path)
<1> DEFINE Good(p) == AtIn(h, p) = None \/ (AtIn(h, p) \in Nodes /\ AtIn(h, p)[1] = p)
           B == {p \in Seq(Chars) : ~ Good(p)}
<1> SUFFICES ASSUME B # {} PROVE FALSE
  OBVIOUS
<1>1. PICK p \in B : \A q \in B : Len(p) <= Len(q)
  BY Shortest, Zenon
<1>2. p # <<>>
  BY AtRoot DEF Root
<1>3. PICK r \in Seq(Chars), c \in Chars : p = Append(r, c) /\ Len(p) = Len(r) + 1
  BY <1>2, Unappend
<1>4. AtIn(h, r) = None \/ (AtIn(h, r) \in Nodes /\ AtIn(h, r)[1] = r)
  <2>1. Len(r) \in Nat /\ ~ (Len(p) <= Len(r))
    BY <1>3
  <2> QED BY <2>1, <1>1
<1>5. AtIn(h, p) = ChildIn(h, AtIn(h, r), c)
  BY <1>3, AtAppend
<1>6. Good(p)
  <2>1. CASE AtIn(h, r) # None /\ c \in DOMAIN h[AtIn(h, r)].children
    BY <1>3, <1>4, <1>5, <2>1, ChildrenOK DEF ChildIn
  <2>2. CASE ~ (AtIn(h, r) # None /\ c \in DOMAIN h[AtIn(h, r)].children)
    BY <1>5, <2>2 DEF ChildIn
  <2> QED BY <2>1, <2>2
<1> QED BY <1>6

\* A path that is in the tree has all its prefixes there.
LEMMA AtParents ==
    ASSUME NEW h, NEW q \in Seq(Chars), AtIn(h, q) # None,
           NEW p \in Seq(Chars), IsPrefix(p, q)
    PROVE  AtIn(h, p) # None
<1> DEFINE B == {s \in Seq(Chars) : AtIn(h, s) # None /\ IsPrefix(p, s)}
<1> SUFFICES ASSUME AtIn(h, p) = None PROVE FALSE
  OBVIOUS
<1>1. PICK s \in B : \A t \in B : Len(s) <= Len(t)
  <2>1. B # {}
    OBVIOUS
  <2> QED BY <2>1, Shortest, Zenon
<1>2. s # <<>>
  <2> SUFFICES ASSUME s = <<>> PROVE FALSE
    OBVIOUS
  <2>1. Len(p) <= Len(<<>>)
    BY PrefixOrder
  <2>2. p = <<>>
    BY <2>1
  <2> QED BY <2>2
<1>3. PICK r \in Seq(Chars), c \in Chars : s = Append(r, c) /\ Len(s) = Len(r) + 1
  BY <1>2, Unappend
<1>4. AtIn(h, r) # None
  BY <1>3, AtAppend DEF ChildIn
<1>5. IsPrefix(p, r)
  <2>1. IsPrefix(p, Append(r, c))
    BY <1>3
  <2>2. p # s
    OBVIOUS
  <2> QED BY <2>1, <2>2, <1>3, PrefixAppend
<1>6. Len(r) \in Nat /\ ~ (Len(s) <= Len(r))
  BY <1>3
<1> QED BY <1>1, <1>4, <1>5, <1>6

\* ... and, but for the last node, the next character among the children.
LEMMA AtChild ==
    ASSUME NEW h, NEW q \in Seq(Chars), AtIn(h, q) # None,
           NEW p \in Seq(Chars), IsPrefix(p, q), p # q
    PROVE  /\ Len(p) < Len(q) /\ q[Len(p) + 1] \in Chars
           /\ AtIn(h, p) # None
           /\ q[Len(p) + 1] \in DOMAIN h[AtIn(h, p)].children
           /\ AtIn(h, Append(p, q[Len(p) + 1])) = h[AtIn(h, p)].children[q[Len(p) + 1]]
           /\ IsPrefix(Append(p, q[Len(p) + 1]), q)
<1>1. Len(p) < Len(q) /\ q[Len(p) + 1] \in Chars
  <2>1. Len(p) <= Len(q) /\ Len(p) # Len(q)
    BY PrefixOrder
  <2> QED BY <2>1
<1> DEFINE c == q[Len(p) + 1]
<1>2. IsPrefix(Append(p, c), q) /\ Append(p, c) \in Seq(Chars)
  BY <1>1, PrefixAppend, AppendFacts
<1>3. AtIn(h, Append(p, c)) # None
  BY <1>2, AtParents
<1>4. AtIn(h, Append(p, c)) = ChildIn(h, AtIn(h, p), c)
  BY <1>1, AtAppend
<1> HIDE DEF c
<1>5. AtIn(h, p) # None /\ c \in DOMAIN h[AtIn(h, p)].children
      /\ AtIn(h, Append(p, c)) = h[AtIn(h, p)].children[c]
  BY <1>3, <1>4 DEF ChildIn
<1> QED BY <1>1, <1>2, <1>5 DEF c

\* The walks depend on nothing but the children.
LEMMA AtSame ==
    ASSUME NEW h, HeapOK(h), Root \in Nodes,
           NEW g, \A n \in Nodes : g[n].children = h[n].children
    PROVE  \A path \in Seq(Chars) : AtIn(g, path) = AtIn(h, path)
<1> DEFINE B == {p \in Seq(Chars) : AtIn(g, p) # AtIn(h, p)}
<1> SUFFICES ASSUME B # {} PROVE FALSE
  OBVIOUS
<1>1. PICK p \in B : \A q \in B : Len(p) <= Len(q)
  BY Shortest, Zenon
<1>2. p # <<>>
  BY AtRoot
<1>3. PICK r \in Seq(Chars), c \in Chars : p = Append(r, c) /\ Len(p) = Len(r) + 1
  BY <1>2, Unappend
<1>4. AtIn(g, r) = AtIn(h, r)
  <2>1. Len(r) \in Nat /\ ~ (Len(p) <= Len(r))
    BY <1>3
  <2> QED BY <2>1, <1>1
<1>5. /\ AtIn(g, p) = ChildIn(g, AtIn(g, r), c)
      /\ AtIn(h, p) = ChildIn(h, AtIn(h, r), c)
  BY <1>3, AtAppend
<1>6. AtIn(h, r) = None \/ AtIn(h, r) \in Nodes
  BY AtNode
<1>7. ChildIn(g, AtIn(h, r), c) = ChildIn(h, AtIn(h, r), c)
  BY <1>6 DEF ChildIn
<1> QED BY <1>4, <1>5, <1>7

\* From h to g the node at q gets or loses the child c, which has no children itself.
Edit(h, g, q, c, v) ==
    /\ q \in Seq(Chars) /\ c \in Chars /\ AtIn(h, q) # None
    /\ \A n \in Nodes : n # AtIn(h, q) /\ n = AtIn(h, n[1]) =>
                            g[n].children = h[n].children
    /\ \A d \in Chars : d # c => ChildIn(g, AtIn(h, q), d) = ChildIn(h, AtIn(h, q), d)
    /\ ChildIn(g, AtIn(h, q), c) = v
    /\ \A d \in Chars : ChildIn(g, v, d) = None
    /\ \A d \in Chars : ChildIn(h, AtIn(h, Append(q, c)), d) = None

\* The walk to the child changes, and no other.
LEMMA AtEdit ==
    ASSUME NEW h, HeapOK(h), Root \in Nodes, NEW g, NEW q, NEW c, NEW v,
           Edit(h, g, q, c, v)
    PROVE  \A path \in Seq(Chars) :
              AtIn(g, path) = IF path = Append(q, c) THEN v ELSE AtIn(h, path)
<1> USE DEF Edit
<1> DEFINE Good(p) == AtIn(g, p) = IF p = Append(q, c) THEN v ELSE AtIn(h, p)
           B == {p \in Seq(Chars) : ~ Good(p)}
<1> SUFFICES ASSUME B # {} PROVE FALSE
  OBVIOUS
<1>1. PICK p \in B : \A s \in B : Len(p) <= Len(s)
  BY Shortest, Zenon
<1>2. p # <<>>
  <2>1. <<>> # Append(q, c) /\ AtIn(g, <<>>) = AtIn(h, <<>>)
    BY AtRoot
  <2>2. Good(<<>>)
    BY <2>1
  <2> QED BY <2>2
<1>3. PICK r \in Seq(Chars), d \in Chars : p = Append(r, d) /\ Len(p) = Len(r) + 1
  BY <1>2, Unappend
<1>4. Good(r)
  <2>1. Len(r) \in Nat /\ ~ (Len(p) <= Len(r))
    BY <1>3
  <2> QED BY <2>1, <1>1
<1>5. /\ AtIn(g, p) = ChildIn(g, AtIn(g, r), d)
      /\ AtIn(h, p) = ChildIn(h, AtIn(h, r), d)
  BY <1>3, AtAppend
<1>6. p = Append(q, c) <=> r = q /\ d = c
  BY <1>3, AppendInjective
<1>7. r # Append(q, c) \/ p # Append(q, c)
  BY <1>3, AppendFacts
<1>8. CASE r = Append(q, c)
  <2>1. AtIn(g, p) = None /\ AtIn(h, p) = None
    BY <1>4, <1>5, <1>8
  <2> QED BY <2>1, <1>7, <1>8
<1>9. CASE r = q /\ r # Append(q, c)
  <2>1. CASE d = c
    BY <2>1, <1>4, <1>5, <1>6, <1>9
  <2>2. CASE d # c
    BY <2>2, <1>4, <1>5, <1>6, <1>9
  <2> QED BY <2>1, <2>2
<1>10. CASE r # q /\ r # Append(q, c)
  <2> DEFINE m == AtIn(h, r)
  <2>1. AtIn(g, r) = m /\ p # Append(q, c)
    BY <1>4, <1>6, <1>10
  <2>2. CASE m = None
    BY <2>1, <2>2, <1>5 DEF ChildIn
  <2>3. CASE m # None
    <3>1. m \in Nodes /\ m[1] = r
      BY <2>3, AtNode
    <3>2. m # AtIn(h, q)
      BY <1>10, <3>1, AtNode
    <3>3. g[m].children = h[m].children
      BY <3>1, <3>2
    <3>4. ChildIn(g, m, d) = ChildIn(h, m, d)
      BY <3>3 DEF ChildIn
    <3> QED BY <2>1, <3>4, <1>5
  <2> QED BY <2>2, <2>3
<1> QED BY <1>8, <1>9, <1>10

-----------------------------------------------------------------------------
(***************************************************************************)
(* Types.                                                                  *)
(***************************************************************************)
Items == {r \in [text : Texts, weight : Int] : r.weight \in Weights}

Inserting == [pc : {"link", "weigh", "name"}, op : {"insert"}, items : Seq(Items) \ {<<>>}]

Deleting == [pc : {"unmark", "unname", "unweigh", "prune"}, op : {"delete"},
             key : Paths, depth : Nat]

Suggested == (Weights \cup {0}) \X (Texts \cup {EmptyText})

Walks == [pc : {"look", "follow", "found", "visit", "read_weight", "read_value",
                "children", "next"},
          op : Reads, key : Paths, limit : Nat, depth : Nat, node : Nodes,
          queue : Seq(Nodes), children : ChildMaps, taken : SUBSET Chars,
          weight : Weights \cup {0}, results : Seq(Suggested), skipped : BOOLEAN]

Walking == {j \in Walks : j.pc = "visit" => j.queue # <<>>}

Finished == [pc : {"done"}, op : Reads, key : Paths, limit : Nat, node : Nodes,
             queue : Seq(Nodes), skipped : BOOLEAN,
             answer : BOOLEAN \cup Seq(Texts \cup {EmptyText})]

Jobs == {Idle} \cup Inserting \cup Deleting \cup Walking \cup Finished

TypeInv ==
    /\ HeapOK(heap)
    /\ job \in [Threads -> Jobs]
    /\ lock \in Threads \cup {None}
    /\ \A t \in Threads : lock = t <=> job[t].op \in {"insert", "delete"}
    /\ DOMAIN words \subseteq Paths /\ IsFiniteSet(DOMAIN words)
    /\ \A k \in DOMAIN words : words[k] \in Weights \X Texts /\ Key[words[k][2]] = k
    /\ DOMAIN seen = Threads

LEMMA RootOK == Root \in Nodes /\ <<>> \in Paths
<1>1. PICK x \in Texts : TRUE
  BY TrieAssumption
<1>2. Key[x] \in Seq(Chars) /\ 0 \in 0 .. Len(Key[x]) /\ 1 \in 1 .. MaxCopies
  BY TrieAssumption
<1>3. <<>> = Prefix(Key[x], 0)
  BY <1>2, PrefixAll
<1> QED BY <1>2, <1>3, NodeFacts DEF Root, Paths

LEMMA NewNodeOK ==
    /\ NewNode \in TrieNode /\ DOMAIN NewNode.children = {}
    /\ NewNode.is_end = FALSE /\ NewNode.value = EmptyText /\ NewNode.weight = 0
<1>1. [c \in {} |-> Root] \in [{} -> Nodes] /\ {} \in SUBSET Chars
  OBVIOUS
<1>2. [c \in {} |-> Root] \in ChildMaps
  BY <1>1, Zenon DEF ChildMaps
<1> QED BY <1>2 DEF NewNode, TrieNode

\* What a job is known to be from its pc.
LEMMA JobKinds ==
    ASSUME TypeInv, NEW t \in Threads
    PROVE  /\ job[t].pc \in {"link", "weigh", "name"} <=> job[t] \in Inserting
           /\ job[t].pc \in {"unmark", "unname", "unweigh", "prune"} <=> job[t] \in Deleting
           /\ job[t].pc \in {"look", "follow", "found", "visit", "read_weight",
                             "read_value", "children", "next"} <=> job[t] \in Walking
           /\ job[t].pc = "done" <=> job[t] \in Finished
           /\ job[t].pc = "idle" <=> job[t] = Idle
           /\ job[t].op = "insert" <=> job[t] \in Inserting
           /\ job[t].op = "delete" <=> job[t] \in Deleting
           /\ Reading(t) <=> job[t] \in Walking \cup Finished
           /\ lock = t <=> job[t] \in Inserting \cup Deleting
<1>1. job[t] \in Jobs /\ (lock = t <=> job[t].op \in {"insert", "delete"})
  BY DEF TypeInv
<1>2. CASE job[t] = Idle
  BY <1>1, <1>2 DEF Idle, Inserting, Deleting, Walking, Walks, Finished, Reading, Reads
<1>3. CASE job[t] \in Inserting
  BY <1>1, <1>3 DEF Idle, Inserting, Deleting, Walking, Walks, Finished, Reading, Reads
<1>4. CASE job[t] \in Deleting
  BY <1>1, <1>4 DEF Idle, Inserting, Deleting, Walking, Walks, Finished, Reading, Reads
<1>5. CASE job[t] \in Walking
  BY <1>1, <1>5 DEF Idle, Inserting, Deleting, Walking, Walks, Finished, Reading, Reads
<1>6. CASE job[t] \in Finished
  BY <1>1, <1>6 DEF Idle, Inserting, Deleting, Walking, Walks, Finished, Reading, Reads
<1> QED BY <1>1, <1>2, <1>3, <1>4, <1>5, <1>6 DEF Jobs

LEMMA OneWriter ==
    ASSUME TypeInv, NEW t \in Threads, lock = t, NEW u \in Threads, u # t
    PROVE  job[u] \notin Inserting \cup Deleting
  BY JobKinds

-----------------------------------------------------------------------------
(***************************************************************************)
(* What the steps of a writer do to the heap.                              *)
(***************************************************************************)
LEMMA SetEnd ==
    ASSUME HeapOK(heap), NEW n \in Nodes, NEW v \in BOOLEAN, heap' = Set(n, "is_end", v)
    PROVE  /\ HeapOK(heap')
           /\ \A m \in Nodes : heap'[m].children = heap[m].children
                               /\ heap'[m].weight = heap[m].weight
                               /\ heap'[m].value = heap[m].value
                               /\ (m # n => heap'[m] = heap[m])
           /\ heap'[n].is_end = v
  BY DEF HeapOK, TrieNode, Set

LEMMA SetWeight ==
    ASSUME HeapOK(heap), NEW n \in Nodes, NEW v \in Weights \cup {0},
           heap' = Set(n, "weight", v)
    PROVE  /\ HeapOK(heap')
           /\ \A m \in Nodes : heap'[m].children = heap[m].children
                               /\ heap'[m].is_end = heap[m].is_end
                               /\ heap'[m].value = heap[m].value
                               /\ (m # n => heap'[m] = heap[m])
           /\ heap'[n].weight = v
  BY DEF HeapOK, TrieNode, Set

LEMMA SetValue ==
    ASSUME HeapOK(heap), NEW n \in Nodes, NEW v \in Texts \cup {EmptyText},
           heap' = Set(n, "value", v)
    PROVE  /\ HeapOK(heap')
           /\ \A m \in Nodes : heap'[m].children = heap[m].children
                               /\ heap'[m].is_end = heap[m].is_end
                               /\ heap'[m].weight = heap[m].weight
                               /\ (m # n => heap'[m] = heap[m])
           /\ heap'[n].value = v
  BY DEF HeapOK, TrieNode, Set

-----------------------------------------------------------------------------
(***************************************************************************)
(* What holds between the stores of a writer: h stands for the heap, n for *)
(* the size, w for the words and j for the job of the thread that holds    *)
(* the lock, so that a step says it of the next state by its arguments.    *)
(***************************************************************************)
Busy == IF lock = None THEN Idle ELSE job[lock]

Entering(j) == Key[Head(j.items).text]

Spot(j) == Prefix(j.key, j.depth)

DeleteSteps == {"unmark", "unname", "unweigh", "prune"}

\* A node that is not in the tree, used before or not, is as TrieNode() left it.
Blank(h) ==
    \A m \in Nodes : AtIn(h, m[1]) # m =>
        DOMAIN h[m].children = {} /\ h[m].is_end = FALSE /\ h[m].value = EmptyText

\* A node spells its own path, and spells nothing unless it is a word.
Spelled(h, j) ==
    \A m \in Nodes :
        /\ h[m].value # EmptyText => Key[h[m].value] = m[1]
        /\ h[m].is_end = FALSE =>
              h[m].value = EmptyText \/ (j.pc = "unname" /\ AtIn(h, Spot(j)) = m)

Marked(h, w) ==
    \A p \in Paths : p \in DOMAIN w <=> AtIn(h, p) # None /\ h[AtIn(h, p)].is_end = TRUE

Stored(h, w, j) ==
    \A p \in DOMAIN w :
        /\ h[AtIn(h, p)].weight = w[p][1] \/ (j.pc = "weigh" /\ Entering(j) = p)
        /\ h[AtIn(h, p)].value = w[p][2] \/ (j.pc \in {"weigh", "name"} /\ Entering(j) = p)

\* A branch ends in a word, or is being made or pruned.
Ending(w, j, p) ==
    \/ \E q \in DOMAIN w : IsPrefix(p, q)
    \/ j.pc = "link" /\ IsPrefix(p, Entering(j))
    \/ j.pc \in {"unname", "unweigh", "prune"} /\ IsPrefix(p, Spot(j))

Branching(h, w, j) ==
    \A p \in Paths : AtIn(h, p) # None /\ p # <<>> => Ending(w, j, p)

Counted(n, w, j) ==
    n = Cardinality(DOMAIN w) + (IF j.pc \in {"unname", "unweigh"} THEN 1 ELSE 0)

Doing(h, w, j) ==
    /\ j.pc \in {"weigh", "name"} =>
          Entering(j) \in DOMAIN w
          /\ w[Entering(j)] = <<Head(j.items).weight, Head(j.items).text>>
    /\ j.pc \in DeleteSteps => j.depth <= Len(j.key) /\ AtIn(h, Spot(j)) # None
    /\ j.pc \in {"unmark", "unname", "unweigh"} => j.depth = Len(j.key)
    /\ j.pc = "unmark" => j.key \in DOMAIN w
    /\ j.pc \in {"unname", "unweigh"} => j.key \notin DOMAIN w

WriterInv ==
    /\ Blank(heap) /\ Spelled(heap, Busy) /\ Marked(heap, words)
    /\ Stored(heap, words, Busy) /\ Branching(heap, words, Busy)
    /\ Counted(size, words, Busy) /\ Doing(heap, words, Busy)

LEMMA Places ==
    ASSUME TypeInv, NEW p \in Paths
    PROVE  /\ p \in Seq(Chars)
           /\ AtIn(heap, p) = None \/ (AtIn(heap, p) \in Nodes /\ AtIn(heap, p)[1] = p)
  BY PathsAreTexts, RootOK, AtNode DEF TypeInv

\* The entry that a writer is inserting.
LEMMA EnteringOK ==
    ASSUME NEW j \in Inserting
    PROVE  /\ Head(j.items) \in Items /\ Head(j.items).text \in Texts
           /\ Head(j.items).weight \in Weights
           /\ Entering(j) \in Paths /\ Entering(j) \in Seq(Chars)
           /\ Tail(j.items) \in Seq(Items)
<1>1. j.items \in Seq(Items) /\ j.items # <<>>
  BY DEF Inserting
<1>2. Head(j.items) \in Items /\ Tail(j.items) \in Seq(Items)
  BY <1>1
<1> QED BY <1>2, PathsAreTexts DEF Items, Entering

\* The node that a deletion is at.
LEMMA SpotOK ==
    ASSUME TypeInv, NEW j \in Deleting, j.depth <= Len(j.key)
    PROVE  /\ j.key \in Paths /\ j.key \in Seq(Chars) /\ j.depth \in 0 .. Len(j.key)
           /\ Spot(j) \in Paths /\ Spot(j) \in Seq(Chars) /\ Len(Spot(j)) = j.depth
           /\ IsPrefix(Spot(j), j.key)
           /\ j.depth = Len(j.key) => Spot(j) = j.key
<1>1. j.key \in Paths /\ j.key \in Seq(Chars) /\ j.depth \in Nat
  BY PathsAreTexts DEF Deleting
<1>2. j.depth \in 0 .. Len(j.key)
  BY <1>1
<1>3. Spot(j) \in Seq(Chars) /\ Len(Spot(j)) = j.depth /\ IsPrefix(Spot(j), j.key)
  BY <1>1, <1>2, PrefixOf DEF Spot
<1>4. Spot(j) \in Paths
  BY <1>1, <1>3, PathsClosed
<1>5. j.depth = Len(j.key) => Spot(j) = j.key
  BY <1>1, PrefixAll DEF Spot
<1> QED BY <1>1, <1>2, <1>3, <1>4, <1>5

\* The job of the holder of the lock, before and after a step of its own.
LEMMA BusyIs ==
    ASSUME TypeInv, NEW t \in Threads
    PROVE  /\ lock = t => Busy = job[t]
           /\ lock' = t => Busy' = job'[t]
           /\ lock = None => Busy = Idle
           /\ lock' = None => Busy' = Idle
           /\ job[t] \in Inserting \cup Deleting => lock = t
<1>1. None \notin Threads
  BY TrieAssumption
<1> QED BY <1>1, JobKinds DEF Busy

\* A step of a writer leaves the types of the jobs alone, and the lock in order.
LEMMA WriterTypes ==
    ASSUME TypeInv, NEW t \in Threads, NEW j \in {Idle} \cup Inserting \cup Deleting,
           job' = [job EXCEPT ![t] = j],
           lock = t \/ (lock = None /\ Ready(t)),
           lock' = IF j = Idle THEN None ELSE t
    PROVE  /\ job' \in [Threads -> Jobs]
           /\ lock' \in Threads \cup {None}
           /\ \A u \in Threads : lock' = u <=> job'[u].op \in {"insert", "delete"}
<1>1. job \in [Threads -> Jobs] /\ j \in Jobs /\ None \notin Threads
  BY TrieAssumption DEF TypeInv, Jobs
<1>2. job'[t] = j /\ \A u \in Threads : u # t => job'[u] = job[u]
  BY <1>1
<1>3. j = Idle <=> ~ (j.op \in {"insert", "delete"})
  BY DEF Idle, Inserting, Deleting
<1>4. ASSUME NEW u \in Threads, u # t PROVE ~ (job[u].op \in {"insert", "delete"})
  BY <1>4, <1>1 DEF TypeInv
<1>5. ASSUME NEW u \in Threads PROVE lock' = u <=> job'[u].op \in {"insert", "delete"}
  BY <1>1, <1>2, <1>3, <1>4
<1> QED BY <1>1, <1>5

LEMMA SameWalks ==
    ASSUME TypeInv, \A m \in Nodes : heap'[m].children = heap[m].children
    PROVE  /\ \A p \in Seq(Chars) : AtIn(heap', p) = AtIn(heap, p)
           /\ \A p \in Paths : AtIn(heap', p) = AtIn(heap, p)
           /\ \A m \in Nodes : AtIn(heap', m[1]) = AtIn(heap, m[1])
<1>1. \A p \in Seq(Chars) : AtIn(heap', p) = AtIn(heap, p)
  BY AtSame, RootOK DEF TypeInv
<1> QED BY <1>1, PathsAreTexts, NodeFacts

-----------------------------------------------------------------------------
LEMMA MarkTypes ==
    ASSUME TypeInv, WriterInv, NEW t \in Threads, Mark(t)
    PROVE  /\ lock = t /\ job[t] \in Inserting /\ Busy = job[t] /\ job[t].pc = "link"
           /\ job'[t] \in Inserting /\ Busy' = job'[t] /\ job'[t].pc = "weigh"
           /\ job'[t].items = job[t].items
           /\ AtIn(heap, Entering(job[t])) \in Nodes
           /\ AtIn(heap, Entering(job[t]))[1] = Entering(job[t])
           /\ heap' = Set(AtIn(heap, Entering(job[t])), "is_end", TRUE)
           /\ size' = IF heap[AtIn(heap, Entering(job[t]))].is_end THEN size ELSE size + 1
           /\ words' = Enter(Entering(job[t]), <<Head(job[t].items).weight, Head(job[t].items).text>>)
           /\ TypeInv'
<1>1. job[t] \in Inserting /\ lock = t /\ lock' = t
  BY JobKinds DEF Mark
<1> DEFINE e == Entering(job[t])
           j == [job[t] EXCEPT !.pc = "weigh"]
<1>2. Word(t) = e /\ At(e) = AtIn(heap, e) /\ Item(t) = Head(job[t].items)
  BY AtIs DEF Word, Entering, Item
<1>3. e \in Paths /\ AtIn(heap, e) # None
  BY <1>1, <1>2, EnteringOK DEF Mark
<1>4. AtIn(heap, e) \in Nodes /\ AtIn(heap, e)[1] = e
  BY <1>3, Places
<1>5. j \in Inserting /\ j.pc = "weigh" /\ j.items = job[t].items
  BY <1>1 DEF Inserting
<1>6. job' = [job EXCEPT ![t] = j] /\ job'[t] = j
  BY DEF Mark, TypeInv
<1>7. Busy = job[t] /\ Busy' = job'[t]
  BY <1>1, BusyIs
<1>8. HeapOK(heap')
  BY <1>2, <1>4, SetEnd DEF Mark, TypeInv
<1>9. /\ job' \in [Threads -> Jobs]
      /\ lock' \in Threads \cup {None}
      /\ \A u \in Threads : lock' = u <=> job'[u].op \in {"insert", "delete"}
  <2>1. lock' = IF j = Idle THEN None ELSE t
    BY <1>1, <1>5 DEF Idle
  <2> HIDE DEF j
  <2> QED BY <1>1, <1>5, <1>6, <2>1, WriterTypes
<1>10. /\ DOMAIN words' \subseteq Paths /\ IsFiniteSet(DOMAIN words')
       /\ \A k \in DOMAIN words' : words'[k] \in Weights \X Texts /\ Key[words'[k][2]] = k
  <2>1. DOMAIN words' = DOMAIN words \cup {e}
        /\ \A k \in DOMAIN words' : words'[k] = IF k = e
              THEN <<Head(job[t].items).weight, Head(job[t].items).text>> ELSE words[k]
    BY <1>2 DEF Mark, Enter
  <2>2. Head(job[t].items).text \in Texts /\ Head(job[t].items).weight \in Weights
        /\ Key[Head(job[t].items).text] = e
    BY <1>1, EnteringOK DEF Entering
  <2>3. IsFiniteSet(DOMAIN words \cup {e})
    BY FS_AddElement DEF TypeInv
  <2> QED BY <2>1, <2>2, <2>3, <1>3 DEF TypeInv
<1>11. DOMAIN seen' = Threads
  BY DEF Mark, Observe
<1> QED BY <1>1, <1>2, <1>4, <1>5, <1>6, <1>7, <1>8, <1>9, <1>10, <1>11 DEF Mark, TypeInv

LEMMA MarkStep ==
    ASSUME TypeInv, WriterInv, NEW t \in Threads, Mark(t)
    PROVE  TypeInv' /\ WriterInv'
<1> DEFINE j == job[t]
           k == job'[t]
           e == Entering(j)
           n == AtIn(heap, e)
           entry == <<Head(j.items).weight, Head(j.items).text>>
<1>1. /\ j \in Inserting /\ Busy = j /\ Busy' = k
      /\ j.pc = "link" /\ k.pc = "weigh" /\ k.items = j.items
      /\ n \in Nodes /\ n[1] = e /\ heap' = Set(n, "is_end", TRUE)
      /\ words' = Enter(e, entry) /\ TypeInv'
      /\ size' = IF heap[n].is_end THEN size ELSE size + 1
  BY MarkTypes
<1>2. e \in Paths /\ e \in Seq(Chars) /\ n # None /\ Entering(k) = e
  BY <1>1, EnteringOK, NodeFacts DEF Entering
<1>3. /\ \A m \in Nodes : heap'[m].children = heap[m].children
                          /\ heap'[m].weight = heap[m].weight
                          /\ heap'[m].value = heap[m].value
                          /\ (m # n => heap'[m] = heap[m])
      /\ heap'[n].is_end = TRUE
  BY <1>1, SetEnd DEF TypeInv
<1>4. /\ \A p \in Paths : AtIn(heap', p) = AtIn(heap, p)
      /\ \A m \in Nodes : AtIn(heap', m[1]) = AtIn(heap, m[1])
  BY <1>3, SameWalks
<1>5. DOMAIN words' = DOMAIN words \cup {e}
      /\ \A p \in DOMAIN words' : words'[p] = IF p = e THEN entry ELSE words[p]
  BY <1>1 DEF Enter
<1>6. \A p \in Paths : AtIn(heap, p) = n => p = e
  BY <1>1, <1>2, Places
<1> HIDE DEF j, k, e, n, entry
<1>7. Blank(heap')
  <2>1. AtIn(heap, n[1]) = n
    BY <1>1 DEF n
  <2> QED BY <2>1, <1>3, <1>4 DEF WriterInv, Blank
<1>8. Spelled(heap', Busy')
  BY <1>1, <1>3, <1>4 DEF WriterInv, Spelled
<1>9. Marked(heap', words')
  <2> SUFFICES ASSUME NEW p \in Paths
               PROVE  p \in DOMAIN words' <=> AtIn(heap', p) # None
                                               /\ heap'[AtIn(heap', p)].is_end = TRUE
    BY DEF Marked
  <2>1. p \in DOMAIN words <=> AtIn(heap, p) # None /\ heap[AtIn(heap, p)].is_end = TRUE
    BY DEF WriterInv, Marked
  <2>2. AtIn(heap, p) = None \/ AtIn(heap, p) \in Nodes
    BY Places
  <2> QED BY <2>1, <2>2, <1>2, <1>3, <1>4, <1>5, <1>6 DEF n
<1>10. Stored(heap', words', Busy')
  <2> SUFFICES ASSUME NEW p \in DOMAIN words'
               PROVE  /\ heap'[AtIn(heap', p)].weight = words'[p][1]
                         \/ (k.pc = "weigh" /\ Entering(k) = p)
                      /\ heap'[AtIn(heap', p)].value = words'[p][2]
                         \/ (k.pc \in {"weigh", "name"} /\ Entering(k) = p)
    BY <1>1 DEF Stored
  <2>1. CASE p = e
    BY <2>1, <1>1, <1>2
  <2>2. CASE p # e
    <3>1. p \in DOMAIN words /\ words'[p] = words[p]
      BY <2>2, <1>5
    <3>2. p \in Paths /\ AtIn(heap', p) = AtIn(heap, p)
      BY <3>1, <1>4 DEF TypeInv
    <3>3. AtIn(heap, p) \in Nodes
      BY <3>1, <3>2, Places DEF WriterInv, Marked
    <3>4. heap[AtIn(heap, p)].weight = words[p][1] /\ heap[AtIn(heap, p)].value = words[p][2]
      BY <3>1, <1>1 DEF WriterInv, Stored
    <3> QED BY <3>1, <3>2, <3>3, <3>4, <1>3
  <2> QED BY <2>1, <2>2
<1>11. Branching(heap', words', Busy')
  <2> SUFFICES ASSUME NEW p \in Paths, AtIn(heap', p) # None, p # <<>>
               PROVE  Ending(words', k, p)
    BY <1>1 DEF Branching
  <2>1. Ending(words, j, p)
    BY <1>1, <1>4 DEF WriterInv, Branching
  <2> QED BY <2>1, <1>1, <1>5 DEF Ending, e
<1>12. Counted(size', words', Busy')
  <2>1. size = Cardinality(DOMAIN words) /\ IsFiniteSet(DOMAIN words)
    BY <1>1, FS_CardinalityType DEF WriterInv, Counted, TypeInv
  <2>2. e \in DOMAIN words <=> heap[n].is_end = TRUE
    BY <1>2 DEF WriterInv, Marked, n
  <2>3. heap[n].is_end \in BOOLEAN
    BY <1>1 DEF TypeInv, HeapOK, TrieNode
  <2>4. Cardinality(DOMAIN words \cup {e}) =
            IF e \in DOMAIN words THEN Cardinality(DOMAIN words)
                                  ELSE Cardinality(DOMAIN words) + 1
    BY <2>1, FS_AddElement
  <2>5. Cardinality(DOMAIN words) \in Nat
    BY <2>1, FS_CardinalityType
  <2>6. size' = Cardinality(DOMAIN words')
    BY <2>1, <2>2, <2>3, <2>4, <1>1, <1>5
  <2> QED BY <2>4, <2>5, <2>6, <1>1, <1>5 DEF Counted
<1>13. Doing(heap', words', Busy')
  <2>1. k.pc \notin DeleteSteps /\ k.pc \notin {"unmark", "unname", "unweigh"}
    BY <1>1 DEF DeleteSteps
  <2>2. Entering(k) \in DOMAIN words' /\ words'[Entering(k)] = entry
    BY <1>2, <1>5
  <2>3. entry = <<Head(k.items).weight, Head(k.items).text>>
    BY <1>1 DEF entry
  <2> QED BY <2>1, <2>2, <2>3, <1>1 DEF Doing
<1> QED BY <1>1, <1>7, <1>8, <1>9, <1>10, <1>11, <1>12, <1>13 DEF WriterInv

\* What a step of the holder of the lock does to the jobs.
LEMMA HolderMoves ==
    ASSUME TypeInv, NEW t \in Threads, lock = t, NEW j \in {Idle} \cup Inserting \cup Deleting,
           job' = [job EXCEPT ![t] = j], lock' = IF j = Idle THEN None ELSE t
    PROVE  /\ Busy = job[t] /\ Busy' = j /\ job'[t] = j
           /\ \A u \in Threads : u # t => job'[u] = job[u]
           /\ job' \in [Threads -> Jobs]
           /\ lock' \in Threads \cup {None}
           /\ \A u \in Threads : lock' = u <=> job'[u].op \in {"insert", "delete"}
<1>1. /\ job' \in [Threads -> Jobs]
      /\ lock' \in Threads \cup {None}
      /\ \A u \in Threads : lock' = u <=> job'[u].op \in {"insert", "delete"}
  BY WriterTypes, Zenon
<1>2. job'[t] = j /\ \A u \in Threads : u # t => job'[u] = job[u]
  BY DEF TypeInv
<1>3. Busy = job[t] /\ Busy' = j
  BY <1>2, BusyIs
<1> QED BY <1>1, <1>2, <1>3

LEMMA SameWords ==
    ASSUME TypeInv, HeapOK(heap'), words' = words, job' \in [Threads -> Jobs],
           lock' \in Threads \cup {None},
           \A u \in Threads : lock' = u <=> job'[u].op \in {"insert", "delete"},
           DOMAIN seen' = Threads
    PROVE  TypeInv'
  BY DEF TypeInv

\* The stores that complete an insertion are of the node that it marked.
LEMMA EnteredNode ==
    ASSUME TypeInv, WriterInv, NEW t \in Threads, job[t].pc \in {"weigh", "name"}
    PROVE  /\ lock = t /\ job[t] \in Inserting /\ Busy = job[t]
           /\ Word(t) = Entering(job[t]) /\ Item(t) = Head(job[t].items)
           /\ Entering(job[t]) \in Paths /\ Entering(job[t]) \in DOMAIN words
           /\ words[Entering(job[t])] = <<Item(t).weight, Item(t).text>>
           /\ At(Word(t)) = AtIn(heap, Entering(job[t]))
           /\ At(Word(t)) \in Nodes /\ At(Word(t))[1] = Entering(job[t])
           /\ heap[At(Word(t))].is_end = TRUE
<1>1. job[t] \in Inserting /\ lock = t /\ Busy = job[t]
  BY JobKinds, BusyIs
<1>2. Word(t) = Entering(job[t]) /\ Item(t) = Head(job[t].items)
  BY DEF Word, Entering, Item
<1>3. /\ Entering(job[t]) \in DOMAIN words
      /\ words[Entering(job[t])] = <<Head(job[t].items).weight, Head(job[t].items).text>>
  BY <1>1 DEF WriterInv, Doing
<1>4. Entering(job[t]) \in Paths
  BY <1>1, EnteringOK
<1>5. /\ AtIn(heap, Entering(job[t])) # None
      /\ heap[AtIn(heap, Entering(job[t]))].is_end = TRUE
  BY <1>3, <1>4 DEF WriterInv, Marked
<1>6. At(Word(t)) = AtIn(heap, Entering(job[t]))
  BY <1>2, AtIs
<1> QED BY <1>1, <1>2, <1>3, <1>4, <1>5, <1>6, Places

LEMMA WeighStep ==
    ASSUME TypeInv, WriterInv, NEW t \in Threads, Weigh(t)
    PROVE  TypeInv' /\ WriterInv'
<1> DEFINE j == job[t]
           k == [job[t] EXCEPT !.pc = "name"]
           e == Entering(j)
           n == At(Word(t))
<1>1. /\ lock = t /\ j \in Inserting /\ e \in Paths /\ e \in DOMAIN words
      /\ words[e] = <<Item(t).weight, Item(t).text>> /\ Item(t) = Head(j.items)
      /\ n = AtIn(heap, e) /\ n \in Nodes /\ n[1] = e /\ heap[n].is_end = TRUE
  BY EnteredNode DEF Weigh
<1>2. k \in Inserting /\ k.pc = "name" /\ k.items = j.items /\ Entering(k) = e /\ k # Idle
      /\ j.pc = "weigh"
  BY <1>1 DEF Inserting, Entering, Idle, Weigh
<1>3. job' = [job EXCEPT ![t] = k] /\ lock' = (IF k = Idle THEN None ELSE t)
  BY <1>1, <1>2 DEF Weigh
<1>4. /\ heap' = Set(n, "weight", Item(t).weight) /\ size' = size /\ words' = words
      /\ DOMAIN seen' = Threads
  BY DEF Weigh, Observe
<1>5. Item(t).weight \in Weights
  BY <1>1, EnteringOK
<1> HIDE DEF k
<1>6. /\ Busy = j /\ Busy' = k /\ job' \in [Threads -> Jobs] /\ lock' \in Threads \cup {None}
      /\ \A u \in Threads : lock' = u <=> job'[u].op \in {"insert", "delete"}
  BY <1>1, <1>2, <1>3, HolderMoves
<1> HIDE DEF j, e, n
<1>7. /\ HeapOK(heap')
      /\ \A m \in Nodes : heap'[m].children = heap[m].children
                          /\ heap'[m].is_end = heap[m].is_end
                          /\ heap'[m].value = heap[m].value
                          /\ (m # n => heap'[m] = heap[m])
      /\ heap'[n].weight = Item(t).weight
  BY <1>1, <1>4, <1>5, SetWeight DEF TypeInv
<1>8. /\ \A p \in Paths : AtIn(heap', p) = AtIn(heap, p)
      /\ \A m \in Nodes : AtIn(heap', m[1]) = AtIn(heap, m[1])
  BY <1>7, SameWalks
<1>9. TypeInv'
  BY <1>4, <1>6, <1>7, SameWords
<1>10. Blank(heap')
  BY <1>7, <1>8 DEF WriterInv, Blank
<1>11. Spelled(heap', Busy')
  BY <1>2, <1>6, <1>7, <1>8 DEF WriterInv, Spelled
<1>12. Marked(heap', words')
  BY <1>4, <1>7, <1>8, Places DEF WriterInv, Marked
<1>13. Stored(heap', words', Busy')
  <2> SUFFICES ASSUME NEW p \in DOMAIN words
               PROVE  /\ heap'[AtIn(heap', p)].weight = words[p][1]
                      /\ heap'[AtIn(heap', p)].value = words[p][2] \/ e = p
    BY <1>2, <1>4, <1>6 DEF Stored
  <2>1. p \in Paths /\ AtIn(heap', p) = AtIn(heap, p)
    BY <1>8 DEF TypeInv
  <2>2. AtIn(heap, p) \in Nodes /\ AtIn(heap, p)[1] = p
    BY <2>1, Places DEF WriterInv, Marked
  <2>3. /\ heap[AtIn(heap, p)].weight = words[p][1] \/ e = p
        /\ heap[AtIn(heap, p)].value = words[p][2] \/ e = p
    BY <1>2, <1>6 DEF WriterInv, Stored, e
  <2> QED BY <2>1, <2>2, <2>3, <1>1, <1>7
<1>14. Branching(heap', words', Busy')
  <2> SUFFICES ASSUME NEW p \in Paths, AtIn(heap', p) # None, p # <<>>
               PROVE  Ending(words', k, p)
    BY <1>6 DEF Branching
  <2>1. Ending(words, j, p)
    BY <1>6, <1>8 DEF WriterInv, Branching
  <2> QED BY <2>1, <1>2, <1>4 DEF Ending
<1>15. Counted(size', words', Busy') /\ Doing(heap', words', Busy')
  BY <1>1, <1>2, <1>4, <1>6 DEF WriterInv, Counted, Doing, DeleteSteps
<1> QED BY <1>9, <1>10, <1>11, <1>12, <1>13, <1>14, <1>15 DEF WriterInv

LEMMA NameStep ==
    ASSUME TypeInv, WriterInv, NEW t \in Threads, Name(t)
    PROVE  TypeInv' /\ WriterInv'
<1> DEFINE j == job[t]
           k == IF Tail(job[t].items) = <<>> THEN Idle
                  ELSE [job[t] EXCEPT !.pc = "link", !.items = Tail(job[t].items)]
           e == Entering(j)
           n == At(Word(t))
<1>1. /\ lock = t /\ j \in Inserting /\ e \in Paths /\ e \in DOMAIN words
      /\ words[e] = <<Item(t).weight, Item(t).text>> /\ Item(t) = Head(j.items)
      /\ n = AtIn(heap, e) /\ n \in Nodes /\ n[1] = e /\ heap[n].is_end = TRUE
  BY EnteredNode DEF Name
<1>2. /\ k \in {Idle} \cup Inserting /\ k.pc \in {"idle", "link"}
      /\ (k = Idle <=> Tail(j.items) = <<>>) /\ j.pc = "name"
  <2>1. Tail(j.items) \in Seq(Items)
    BY <1>1, EnteringOK
  <2>2. CASE Tail(j.items) = <<>>
    BY <2>2 DEF Idle, Name
  <2>3. CASE Tail(j.items) # <<>>
    BY <2>1, <2>3, <1>1 DEF Inserting, Idle, Name
  <2> QED BY <2>2, <2>3
<1>3. job' = [job EXCEPT ![t] = k] /\ lock' = (IF k = Idle THEN None ELSE t)
  <2>1. CASE Tail(j.items) = <<>>
    BY <2>1, <1>2 DEF Name
  <2>2. CASE Tail(j.items) # <<>>
    BY <2>2, <1>1, <1>2 DEF Name
  <2> QED BY <2>1, <2>2
<1>4. /\ heap' = Set(n, "value", Item(t).text) /\ size' = size /\ words' = words
      /\ DOMAIN seen' = Threads
  BY DEF Name, Observe
<1>5. Item(t).text \in Texts /\ Key[Item(t).text] = e
  BY <1>1, EnteringOK DEF Entering
<1> HIDE DEF k
<1>6. /\ Busy = j /\ Busy' = k /\ job' \in [Threads -> Jobs] /\ lock' \in Threads \cup {None}
      /\ \A u \in Threads : lock' = u <=> job'[u].op \in {"insert", "delete"}
  BY <1>1, <1>2, <1>3, HolderMoves
<1> HIDE DEF j, e, n
<1>7. /\ HeapOK(heap')
      /\ \A m \in Nodes : heap'[m].children = heap[m].children
                          /\ heap'[m].is_end = heap[m].is_end
                          /\ heap'[m].weight = heap[m].weight
                          /\ (m # n => heap'[m] = heap[m])
      /\ heap'[n].value = Item(t).text
  BY <1>1, <1>4, <1>5, SetValue DEF TypeInv
<1>8. /\ \A p \in Paths : AtIn(heap', p) = AtIn(heap, p)
      /\ \A m \in Nodes : AtIn(heap', m[1]) = AtIn(heap, m[1])
  BY <1>7, SameWalks
<1>9. TypeInv'
  BY <1>4, <1>6, <1>7, SameWords
<1>10. Blank(heap')
  <2>1. AtIn(heap, n[1]) = n
    BY <1>1
  <2> QED BY <2>1, <1>7, <1>8 DEF WriterInv, Blank
<1>11. Spelled(heap', Busy')
  BY <1>1, <1>2, <1>5, <1>6, <1>7, <1>8 DEF WriterInv, Spelled
<1>12. Marked(heap', words')
  BY <1>4, <1>7, <1>8, Places DEF WriterInv, Marked
<1>13. Stored(heap', words', Busy')
  <2> SUFFICES ASSUME NEW p \in DOMAIN words
               PROVE  /\ heap'[AtIn(heap', p)].weight = words[p][1]
                      /\ heap'[AtIn(heap', p)].value = words[p][2]
    BY <1>4, <1>6 DEF Stored
  <2>1. p \in Paths /\ AtIn(heap', p) = AtIn(heap, p)
    BY <1>8 DEF TypeInv
  <2>2. AtIn(heap, p) \in Nodes /\ AtIn(heap, p)[1] = p
    BY <2>1, Places DEF WriterInv, Marked
  <2>3. /\ heap[AtIn(heap, p)].weight = words[p][1]
        /\ heap[AtIn(heap, p)].value = words[p][2] \/ e = p
    BY <1>2, <1>6 DEF WriterInv, Stored, e
  <2> QED BY <2>1, <2>2, <2>3, <1>1, <1>7
<1>14. Branching(heap', words', Busy')
  <2> SUFFICES ASSUME NEW p \in Paths, AtIn(heap', p) # None, p # <<>>
               PROVE  Ending(words', k, p)
    BY <1>6 DEF Branching
  <2>1. Ending(words, j, p)
    BY <1>6, <1>8 DEF WriterInv, Branching
  <2> QED BY <2>1, <1>2, <1>4 DEF Ending
<1>15. Counted(size', words', Busy') /\ Doing(heap', words', Busy')
  BY <1>1, <1>2, <1>4, <1>6 DEF WriterInv, Counted, Doing, DeleteSteps
<1> QED BY <1>9, <1>10, <1>11, <1>12, <1>13, <1>14, <1>15 DEF WriterInv

\* The node that a deletion is at.
LEMMA DeletedNode ==
    ASSUME TypeInv, WriterInv, NEW t \in Threads, job[t].pc \in DeleteSteps
    PROVE  /\ lock = t /\ job[t] \in Deleting /\ Busy = job[t]
           /\ job[t].depth <= Len(job[t].key)
           /\ job[t].depth \in Nat
           /\ Spot(job[t]) \in Paths /\ Spot(job[t]) \in Seq(Chars)
           /\ Target(t) = AtIn(heap, Spot(job[t]))
           /\ Target(t) \in Nodes /\ Target(t)[1] = Spot(job[t])
           /\ job[t].depth = Len(job[t].key) => Spot(job[t]) = job[t].key
<1>1. job[t] \in Deleting /\ lock = t /\ Busy = job[t]
  BY JobKinds, BusyIs DEF DeleteSteps
<1>2. job[t].depth <= Len(job[t].key) /\ AtIn(heap, Spot(job[t])) # None
  BY <1>1 DEF WriterInv, Doing
<1>3. Target(t) = AtIn(heap, Spot(job[t]))
  BY AtIs DEF Target, Spot
<1>4. /\ Spot(job[t]) \in Paths /\ Spot(job[t]) \in Seq(Chars)
      /\ (job[t].depth = Len(job[t].key) => Spot(job[t]) = job[t].key)
  BY <1>1, <1>2, SpotOK
<1>5. Target(t) \in Nodes /\ Target(t)[1] = Spot(job[t])
  BY <1>2, <1>3, <1>4, Places
<1>6. job[t].depth \in Nat
  BY <1>1 DEF Deleting
<1> QED BY <1>1, <1>2, <1>3, <1>4, <1>5, <1>6

LEMMA UnmarkStep ==
    ASSUME TypeInv, WriterInv, NEW t \in Threads, Unmark(t)
    PROVE  TypeInv' /\ WriterInv'
<1> DEFINE j == job[t]
           k == [job[t] EXCEPT !.pc = "unname"]
           e == j.key
           n == Target(t)
<1>1. /\ lock = t /\ j \in Deleting /\ Spot(j) = e /\ e \in Paths /\ e \in Seq(Chars)
      /\ e \in DOMAIN words /\ n = AtIn(heap, e) /\ n \in Nodes /\ n[1] = e
      /\ Busy = j /\ j.depth = Len(e) /\ j.pc = "unmark"
  <2>1. job[t].pc \in DeleteSteps
    BY DEF Unmark, DeleteSteps
  <2>2. /\ lock = t /\ j \in Deleting /\ Busy = j
        /\ Spot(j) \in Paths /\ Spot(j) \in Seq(Chars)
        /\ n = AtIn(heap, Spot(j)) /\ n \in Nodes /\ n[1] = Spot(j)
        /\ (j.depth = Len(e) => Spot(j) = e)
    BY <2>1, DeletedNode
  <2>3. e \in DOMAIN words /\ j.depth = Len(e)
    BY <2>2 DEF Unmark, WriterInv, Doing
  <2> QED BY <2>2, <2>3 DEF Unmark
<1>2. /\ k \in Deleting /\ k.pc = "unname" /\ k.key = e /\ k.depth = Len(e) /\ Spot(k) = e
      /\ k # Idle
  BY <1>1 DEF Deleting, Spot, Idle
<1>3. job' = [job EXCEPT ![t] = k] /\ lock' = (IF k = Idle THEN None ELSE t)
  BY <1>1, <1>2 DEF Unmark
<1>4. /\ heap' = Set(n, "is_end", FALSE) /\ size' = size
      /\ words' = [p \in DOMAIN words \ {e} |-> words[p]]
      /\ DOMAIN seen' = Threads
  BY DEF Unmark, Observe
<1> HIDE DEF k
<1>5. /\ Busy' = k /\ job' \in [Threads -> Jobs] /\ lock' \in Threads \cup {None}
      /\ \A u \in Threads : lock' = u <=> job'[u].op \in {"insert", "delete"}
  BY <1>1, <1>2, <1>3, HolderMoves
<1> HIDE DEF j, e, n
<1>6. /\ HeapOK(heap')
      /\ \A m \in Nodes : heap'[m].children = heap[m].children
                          /\ heap'[m].weight = heap[m].weight
                          /\ heap'[m].value = heap[m].value
                          /\ (m # n => heap'[m] = heap[m])
      /\ heap'[n].is_end = FALSE
  BY <1>1, <1>4, SetEnd DEF TypeInv
<1>7. /\ \A p \in Paths : AtIn(heap', p) = AtIn(heap, p)
      /\ \A m \in Nodes : AtIn(heap', m[1]) = AtIn(heap, m[1])
  BY <1>6, SameWalks
<1>8. /\ DOMAIN words' = DOMAIN words \ {e}
      /\ \A p \in DOMAIN words' : words'[p] = words[p]
  BY <1>4
<1>9. TypeInv'
  <2>1. IsFiniteSet(DOMAIN words \ {e})
    BY FS_RemoveElement DEF TypeInv
  <2> QED BY <2>1, <1>4, <1>5, <1>6, <1>8 DEF TypeInv
<1>10. Blank(heap')
  <2>1. AtIn(heap, n[1]) = n
    BY <1>1
  <2> QED BY <2>1, <1>6, <1>7 DEF WriterInv, Blank
<1>11. Spelled(heap', Busy')
  <2>1. AtIn(heap', Spot(k)) = n
    BY <1>1, <1>2, <1>7
  <2> QED BY <2>1, <1>1, <1>2, <1>5, <1>6 DEF WriterInv, Spelled
<1>12. Marked(heap', words')
  <2> SUFFICES ASSUME NEW p \in Paths
               PROVE  p \in DOMAIN words' <=> AtIn(heap', p) # None
                                               /\ heap'[AtIn(heap', p)].is_end = TRUE
    BY DEF Marked
  <2>1. p \in DOMAIN words <=> AtIn(heap, p) # None /\ heap[AtIn(heap, p)].is_end = TRUE
    BY DEF WriterInv, Marked
  <2>2. AtIn(heap, p) = None \/ (AtIn(heap, p) \in Nodes /\ AtIn(heap, p)[1] = p)
    BY Places
  <2> QED BY <2>1, <2>2, <1>1, <1>6, <1>7, <1>8
<1>13. Stored(heap', words', Busy')
  <2> SUFFICES ASSUME NEW p \in DOMAIN words, p # e
               PROVE  /\ heap'[AtIn(heap', p)].weight = words[p][1]
                      /\ heap'[AtIn(heap', p)].value = words[p][2]
    BY <1>5, <1>8 DEF Stored
  <2>1. p \in Paths /\ AtIn(heap', p) = AtIn(heap, p)
    BY <1>7 DEF TypeInv
  <2>2. AtIn(heap, p) \in Nodes
    BY <2>1, Places DEF WriterInv, Marked
  <2>3. heap[AtIn(heap, p)].weight = words[p][1] /\ heap[AtIn(heap, p)].value = words[p][2]
    BY <1>1 DEF WriterInv, Stored
  <2> QED BY <2>1, <2>2, <2>3, <1>6
<1>14. Branching(heap', words', Busy')
  <2> SUFFICES ASSUME NEW p \in Paths, AtIn(heap', p) # None, p # <<>>
               PROVE  Ending(words', k, p)
    BY <1>5 DEF Branching
  <2>1. Ending(words, j, p)
    BY <1>1, <1>7 DEF WriterInv, Branching
  <2>2. PICK q \in DOMAIN words : IsPrefix(p, q)
    BY <2>1, <1>1 DEF Ending
  <2> QED BY <2>2, <1>2, <1>8 DEF Ending
<1>15. Counted(size', words', Busy')
  <2>1. size = Cardinality(DOMAIN words) /\ IsFiniteSet(DOMAIN words)
    BY <1>1, FS_CardinalityType DEF WriterInv, Counted, TypeInv
  <2>2. Cardinality(DOMAIN words) \in Nat
        /\ Cardinality(DOMAIN words \ {e}) = Cardinality(DOMAIN words) - 1
    BY <2>1, <1>1, FS_CardinalityType, FS_RemoveElement
  <2> QED BY <2>1, <2>2, <1>2, <1>4, <1>5, <1>8 DEF Counted
<1>16. Doing(heap', words', Busy')
  <2>1. Len(e) <= Len(e)
    BY <1>1
  <2>2. AtIn(heap', Spot(k)) # None
    BY <1>1, <1>2, <1>7, NodeFacts
  <2> QED BY <2>1, <2>2, <1>2, <1>5, <1>8 DEF Doing
<1> QED BY <1>9, <1>10, <1>11, <1>12, <1>13, <1>14, <1>15, <1>16 DEF WriterInv

\* Unname and Unweigh: the stores that follow, of a node that is no word any more.
LEMMA ClearStep ==
    ASSUME TypeInv, WriterInv, NEW t \in Threads, job[t].pc \in {"unname", "unweigh"},
           HeapOK(heap'),
           \A m \in Nodes : /\ heap'[m].children = heap[m].children
                            /\ heap'[m].is_end = heap[m].is_end
                            /\ m # Target(t) => heap'[m] = heap[m]
                            /\ heap'[m].value = EmptyText \/ heap'[m].value = heap[m].value,
           heap'[Target(t)].value = EmptyText,
           NEW pc, pc = (IF job[t].pc = "unname" THEN "unweigh" ELSE "prune"),
           job' = [job EXCEPT ![t].pc = pc],
           size' = IF job[t].pc = "unname" THEN size ELSE size - 1,
           lock' = lock, words' = words, DOMAIN seen' = Threads
    PROVE  TypeInv' /\ WriterInv'
<1> DEFINE j == job[t]
           k == [job[t] EXCEPT !.pc = pc]
           e == j.key
           n == Target(t)
<1>1. /\ lock = t /\ j \in Deleting /\ Spot(j) = e /\ e \in Paths /\ e \in Seq(Chars)
      /\ e \notin DOMAIN words /\ n = AtIn(heap, e) /\ n \in Nodes /\ n[1] = e
      /\ Busy = j /\ j.depth = Len(e)
  <2>1. job[t].pc \in DeleteSteps
    BY DEF DeleteSteps
  <2>2. /\ lock = t /\ j \in Deleting /\ Busy = j
        /\ Spot(j) \in Paths /\ Spot(j) \in Seq(Chars)
        /\ n = AtIn(heap, Spot(j)) /\ n \in Nodes /\ n[1] = Spot(j)
        /\ (j.depth = Len(e) => Spot(j) = e)
    BY <2>1, DeletedNode
  <2>3. e \notin DOMAIN words /\ j.depth = Len(e)
    BY <2>2 DEF WriterInv, Doing
  <2> QED BY <2>2, <2>3
<1>2. /\ k \in Deleting /\ k.pc = pc /\ k.key = e /\ k.depth = Len(e) /\ Spot(k) = e
      /\ k # Idle /\ pc \in {"unweigh", "prune"}
  BY <1>1 DEF Deleting, Spot, Idle
<1>3. job' = [job EXCEPT ![t] = k] /\ lock' = (IF k = Idle THEN None ELSE t)
  BY <1>1, <1>2
<1> HIDE DEF k
<1>4. /\ Busy' = k /\ job' \in [Threads -> Jobs] /\ lock' \in Threads \cup {None}
      /\ \A u \in Threads : lock' = u <=> job'[u].op \in {"insert", "delete"}
  <2>1. lock = t /\ k \in {Idle} \cup Inserting \cup Deleting
    BY <1>1, <1>2
  <2>2. /\ job' \in [Threads -> Jobs] /\ lock' \in Threads \cup {None}
        /\ \A u \in Threads : lock' = u <=> job'[u].op \in {"insert", "delete"}
    BY <2>1, <1>3, HolderMoves
  <2>3. Busy' = job'[t]
    BY <2>1, BusyIs
  <2>4. job'[t] = k
    BY <1>3 DEF TypeInv
  <2> QED BY <2>2, <2>3, <2>4
<1>5. j.pc \in {"unname", "unweigh"} /\ pc = (IF j.pc = "unname" THEN "unweigh" ELSE "prune")
      /\ size' = (IF j.pc = "unname" THEN size ELSE size - 1)
  OBVIOUS
<1> HIDE DEF j, e, n
<1>6. /\ \A p \in Paths : AtIn(heap', p) = AtIn(heap, p)
      /\ \A m \in Nodes : AtIn(heap', m[1]) = AtIn(heap, m[1])
  BY SameWalks
<1>7. TypeInv'
  BY <1>4, SameWords
<1>8. Blank(heap')
  BY <1>6 DEF WriterInv, Blank
<1>9. Spelled(heap', Busy')
  <2> SUFFICES ASSUME NEW m \in Nodes
               PROVE  /\ heap'[m].value # EmptyText => Key[heap'[m].value] = m[1]
                      /\ heap'[m].is_end = FALSE => heap'[m].value = EmptyText
    BY DEF Spelled
  <2>1. /\ heap[m].value # EmptyText => Key[heap[m].value] = m[1]
        /\ heap[m].is_end = FALSE => heap[m].value = EmptyText \/ n = m
    BY <1>1 DEF WriterInv, Spelled
  <2> QED BY <2>1 DEF n
<1>10. Marked(heap', words')
  BY <1>6, Places DEF WriterInv, Marked
<1>11. Stored(heap', words', Busy')
  <2> SUFFICES ASSUME NEW p \in DOMAIN words
               PROVE  /\ heap'[AtIn(heap', p)].weight = words[p][1]
                      /\ heap'[AtIn(heap', p)].value = words[p][2]
    BY DEF Stored
  <2>1. p \in Paths /\ AtIn(heap', p) = AtIn(heap, p)
    BY <1>6 DEF TypeInv
  <2>2. AtIn(heap, p) \in Nodes /\ AtIn(heap, p)[1] = p
    BY <2>1, Places DEF WriterInv, Marked
  <2>3. heap[AtIn(heap, p)].weight = words[p][1] /\ heap[AtIn(heap, p)].value = words[p][2]
    BY <1>1, <1>5 DEF WriterInv, Stored
  <2>4. AtIn(heap, p) # n
    BY <2>2, <1>1
  <2> QED BY <2>1, <2>2, <2>3, <2>4 DEF n
<1>12. Branching(heap', words', Busy')
  <2> SUFFICES ASSUME NEW p \in Paths, AtIn(heap', p) # None, p # <<>>
               PROVE  Ending(words', k, p)
    BY <1>4 DEF Branching
  <2>1. Ending(words, j, p)
    BY <1>1, <1>6 DEF WriterInv, Branching
  <2> QED BY <2>1, <1>1, <1>2, <1>5 DEF Ending
<1>13. Counted(size', words', Busy')
  <2>1. Cardinality(DOMAIN words) \in Nat
    BY FS_CardinalityType DEF TypeInv
  <2>2. size = Cardinality(DOMAIN words) + 1
    BY <1>1, <1>5 DEF WriterInv, Counted
  <2> QED BY <2>1, <2>2, <1>2, <1>4, <1>5 DEF Counted
<1>14. Doing(heap', words', Busy')
  <2>1. Len(e) <= Len(e)
    BY <1>1
  <2>2. AtIn(heap', Spot(k)) # None
    BY <1>1, <1>2, <1>6, NodeFacts
  <2> QED BY <2>1, <2>2, <1>1, <1>2, <1>4 DEF Doing
<1> QED BY <1>7, <1>8, <1>9, <1>10, <1>11, <1>12, <1>13, <1>14 DEF WriterInv

LEMMA UnnameStep ==
    ASSUME TypeInv, WriterInv, NEW t \in Threads, Unname(t)
    PROVE  TypeInv' /\ WriterInv'
<1>1. job[t].pc = "unname" /\ job[t].pc \in DeleteSteps
  BY DEF Unname, DeleteSteps
<1>2. Target(t) \in Nodes
  BY <1>1, DeletedNode
<1>3. /\ HeapOK(heap')
      /\ \A m \in Nodes : heap'[m].children = heap[m].children
                          /\ heap'[m].is_end = heap[m].is_end
                          /\ heap'[m].weight = heap[m].weight
                          /\ (m # Target(t) => heap'[m] = heap[m])
      /\ heap'[Target(t)].value = EmptyText
  BY <1>2, SetValue DEF Unname, TypeInv
<1>4. \A m \in Nodes : heap'[m].value = EmptyText \/ heap'[m].value = heap[m].value
  BY <1>3
<1>5. /\ job' = [job EXCEPT ![t].pc = "unweigh"] /\ size' = size
      /\ UNCHANGED <<lock, words>> /\ DOMAIN seen' = Threads
  BY DEF Unname, Observe
<1> QED BY <1>1, <1>3, <1>4, <1>5, ClearStep

LEMMA UnweighStep ==
    ASSUME TypeInv, WriterInv, NEW t \in Threads, Unweigh(t)
    PROVE  TypeInv' /\ WriterInv'
<1>1. job[t].pc = "unweigh" /\ job[t].pc \in DeleteSteps
  BY DEF Unweigh, DeleteSteps
<1>2. Target(t) \in Nodes /\ Target(t) = AtIn(heap, Spot(job[t])) /\ Busy = job[t]
      /\ Spot(job[t]) \in Paths
      /\ (job[t].depth = Len(job[t].key) => Spot(job[t]) = job[t].key)
  BY <1>1, DeletedNode
<1>3. /\ HeapOK(heap')
      /\ \A m \in Nodes : heap'[m].children = heap[m].children
                          /\ heap'[m].is_end = heap[m].is_end
                          /\ heap'[m].value = heap[m].value
                          /\ (m # Target(t) => heap'[m] = heap[m])
  BY <1>2, SetWeight DEF Unweigh, TypeInv
<1>4. heap[Target(t)].value = EmptyText
  <2>1. job[t].key \notin DOMAIN words /\ Spot(job[t]) = job[t].key
    BY <1>1, <1>2 DEF WriterInv, Doing
  <2>2. heap[Target(t)].is_end # TRUE
    BY <2>1, <1>2, NodeFacts DEF WriterInv, Marked
  <2>3. heap[Target(t)].is_end \in BOOLEAN
    BY <1>2 DEF TypeInv, HeapOK, TrieNode
  <2>4. heap[Target(t)].is_end = FALSE
    BY <2>2, <2>3
  <2> QED BY <2>4, <1>1, <1>2 DEF WriterInv, Spelled
<1>5. /\ job' = [job EXCEPT ![t].pc = "prune"] /\ size' = size - 1
      /\ UNCHANGED <<lock, words>> /\ DOMAIN seen' = Threads
  BY DEF Unweigh, Observe
<1>6. heap'[Target(t)].value = EmptyText
  BY <1>2, <1>3, <1>4
<1> QED BY <1>1, <1>3, <1>5, <1>6, ClearStep

LEMMA NoChildren ==
    ASSUME NEW m \in ChildMaps
    PROVE  DOMAIN m = {} <=> m = NewNode.children
<1>1. PICK D \in SUBSET Chars : m \in [D -> Nodes]
  BY Zenon DEF ChildMaps
<1>2. NewNode.children = [c \in {} |-> Root]
  BY DEF NewNode
<1> QED BY <1>1, <1>2

\* The first step of a call that takes the lock, and the last one of a deletion.
LEMMA InsertStep ==
    ASSUME TypeInv, WriterInv, NEW t \in Threads, NEW items \in Batches, Insert(t, items)
    PROVE  TypeInv' /\ WriterInv'
<1> DEFINE k == [pc |-> "link", op |-> "insert", items |-> items]
<1>1. k \in Inserting /\ k # Idle /\ k.pc = "link"
  <2>1. items \in Seq([text : Texts, weight : Int]) /\ items # <<>>
    BY TrieAssumption
  <2>2. \A i \in 1 .. Len(items) : items[i] \in Items
    <3> TAKE i \in 1 .. Len(items)
    <3>1. i \in DOMAIN items /\ items[i] \in [text : Texts, weight : Int]
      BY <2>1, ElementOfSeq, LenProperties
    <3>2. items[i].weight \in {items[x].weight : x \in DOMAIN items}
      BY <3>1
    <3>3. items[i].weight \in Weights
      BY <3>2 DEF Weights
    <3> QED BY <3>1, <3>3 DEF Items
  <2>3. items \in Seq(Items)
    <3>1. items = [i \in 1 .. Len(items) |-> items[i]] /\ Len(items) \in Nat
      BY <2>1
    <3>2. items \in [1 .. Len(items) -> Items]
      BY <3>1, <2>2
    <3> QED BY <3>1, <3>2, SeqDef
  <2> QED BY <2>1, <2>3 DEF Inserting, Idle
<1>2. /\ lock = None /\ Ready(t) /\ lock' = t /\ job' = [job EXCEPT ![t] = k]
      /\ heap' = heap /\ size' = size /\ words' = words /\ DOMAIN seen' = Threads
  BY DEF Insert, MayWrite, Observe
<1> HIDE DEF k
<1>3. lock' = IF k = Idle THEN None ELSE t
  BY <1>1, <1>2
<1>4. /\ job' \in [Threads -> Jobs] /\ lock' \in Threads \cup {None}
      /\ \A u \in Threads : lock' = u <=> job'[u].op \in {"insert", "delete"}
  BY <1>1, <1>2, <1>3, WriterTypes
<1>5. Busy = Idle /\ Busy' = k
  BY <1>2, BusyIs DEF TypeInv
<1>6. TypeInv'
  BY <1>2, <1>4, SameWords DEF TypeInv
<1>7. Idle.pc = "idle"
  BY DEF Idle
<1>8. Spelled(heap', Busy') /\ Stored(heap', words', Busy')
  BY <1>1, <1>2, <1>5, <1>7 DEF WriterInv, Spelled, Stored
<1>9. Branching(heap', words', Busy')
  BY <1>1, <1>2, <1>5, <1>7 DEF WriterInv, Branching, Ending
<1>10. Counted(size', words', Busy') /\ Doing(heap', words', Busy')
  BY <1>1, <1>2, <1>5, <1>7 DEF WriterInv, Counted, Doing, DeleteSteps
<1> QED BY <1>2, <1>6, <1>8, <1>9, <1>10 DEF WriterInv

LEMMA DeleteStep ==
    ASSUME TypeInv, WriterInv, NEW t \in Threads, NEW text \in Texts, Delete(t, text)
    PROVE  TypeInv' /\ WriterInv'
<1> DEFINE e == Key[text]
           k == [pc |-> "unmark", op |-> "delete", key |-> e, depth |-> Len(e)]
<1>1. e \in Paths /\ e \in Seq(Chars)
  BY PathsAreTexts
<1>2. /\ k \in Deleting /\ k # Idle /\ k.pc = "unmark" /\ k.key = e /\ k.depth = Len(e)
      /\ Spot(k) = e
  <2>1. Prefix(e, Len(e)) = e
    BY <1>1, PrefixAll
  <2>2. Len(e) \in Nat
    BY <1>1
  <2> HIDE DEF e
  <2> QED BY <2>1, <2>2, <1>1 DEF Deleting, Idle, Spot
<1>3. /\ lock = None /\ Ready(t) /\ lock' = t /\ job' = [job EXCEPT ![t] = k]
      /\ heap' = heap /\ size' = size /\ words' = words /\ DOMAIN seen' = Threads
      /\ e \in DOMAIN words
  BY DEF Delete, MayWrite, Observe
<1> HIDE DEF k
<1>4. lock' = IF k = Idle THEN None ELSE t
  BY <1>2, <1>3
<1>5. /\ job' \in [Threads -> Jobs] /\ lock' \in Threads \cup {None}
      /\ \A u \in Threads : lock' = u <=> job'[u].op \in {"insert", "delete"}
  BY <1>2, <1>3, <1>4, WriterTypes
<1>6. Busy = Idle /\ Busy' = k
  BY <1>3, BusyIs DEF TypeInv
<1>7. TypeInv'
  BY <1>3, <1>5, SameWords DEF TypeInv
<1>8. Idle.pc = "idle"
  BY DEF Idle
<1>9. Spelled(heap', Busy') /\ Stored(heap', words', Busy')
  BY <1>2, <1>3, <1>6, <1>8 DEF WriterInv, Spelled, Stored
<1>10. Branching(heap', words', Busy')
  BY <1>2, <1>3, <1>6, <1>8 DEF WriterInv, Branching, Ending
<1>11. Counted(size', words', Busy')
  BY <1>2, <1>3, <1>6, <1>8 DEF WriterInv, Counted
<1>12. Doing(heap', words', Busy')
  <2>1. AtIn(heap, e) # None
    BY <1>1, <1>3 DEF WriterInv, Marked
  <2>2. Len(e) <= Len(e)
    BY <1>1
  <2> QED BY <2>1, <2>2, <1>2, <1>3, <1>6 DEF Doing
<1> QED BY <1>3, <1>7, <1>9, <1>10, <1>11, <1>12 DEF WriterInv

LEMMA EndDeleteStep ==
    ASSUME TypeInv, WriterInv, NEW t \in Threads, EndDelete(t)
    PROVE  TypeInv' /\ WriterInv'
<1> DEFINE j == job[t]
           n == Target(t)
<1>1. /\ lock = t /\ j \in Deleting /\ Busy = j
      /\ j.depth <= Len(j.key) /\ j.depth \in Nat
      /\ Spot(j) \in Paths /\ Spot(j) \in Seq(Chars)
      /\ n = AtIn(heap, Spot(j)) /\ n \in Nodes /\ n[1] = Spot(j)
  <2>1. job[t].pc \in DeleteSteps
    BY DEF EndDelete, DeleteSteps
  <2> QED BY <2>1, DeletedNode
<1>2. /\ job' = [job EXCEPT ![t] = Idle] /\ lock' = None
      /\ heap' = heap /\ size' = size /\ words' = words /\ DOMAIN seen' = Threads
      /\ j.pc = "prune" /\ (j.depth = 0 \/ ~ShouldPrune(n))
  BY DEF EndDelete, Observe
<1>3. /\ job' \in [Threads -> Jobs] /\ lock' \in Threads \cup {None}
      /\ \A u \in Threads : lock' = u <=> job'[u].op \in {"insert", "delete"}
  BY <1>1, <1>2, HolderMoves
<1>4. Busy' = Idle /\ Idle.pc = "idle"
  BY <1>2, BusyIs DEF Idle
<1>5. TypeInv'
  BY <1>2, <1>3, SameWords DEF TypeInv
<1> HIDE DEF j, n
<1>6. Spelled(heap', Busy') /\ Stored(heap', words', Busy')
  BY <1>1, <1>2, <1>4 DEF WriterInv, Spelled, Stored
<1>7. Branching(heap', words', Busy')
  <2> SUFFICES ASSUME NEW p \in Paths, AtIn(heap, p) # None, p # <<>>
               PROVE  \E q \in DOMAIN words : IsPrefix(p, q)
    BY <1>2 DEF Branching, Ending
  <2>1. p \in Seq(Chars)
    BY PathsAreTexts
  <2>2. Ending(words, j, p)
    BY <1>1 DEF WriterInv, Branching
  <2>3. CASE \E q \in DOMAIN words : IsPrefix(p, q)
    BY <2>3
  <2>4. CASE IsPrefix(p, Spot(j))
    <3>1. Len(p) <= Len(Spot(j)) /\ Len(p) # 0
      BY <2>1, <2>4, <1>1, PrefixOrder
    <3>2. j.depth # 0
      <4>1. Len(Spot(j)) = j.depth
        BY <1>1, SpotOK
      <4>2. Len(p) \in Nat
        BY <2>1
      <4> QED BY <3>1, <4>1, <4>2
    <3>3. CASE heap[n].is_end = TRUE
      <4>1. Spot(j) \in DOMAIN words
        BY <3>3, <1>1, NodeFacts DEF WriterInv, Marked
      <4> QED BY <4>1, <2>4
    <3>4. CASE heap[n].is_end # TRUE
      <4>1. heap[n].is_end \in BOOLEAN /\ heap[n].children \in ChildMaps
        BY <1>1 DEF TypeInv, HeapOK, TrieNode
      <4>2. heap[n].children # NewNode.children
        BY <3>2, <3>4, <4>1, <1>2 DEF ShouldPrune
      <4>3. DOMAIN heap[n].children # {}
        BY <4>1, <4>2, NoChildren
      <4>4. PICK c \in DOMAIN heap[n].children : TRUE
        BY <4>3
      <4> DEFINE s == Append(Spot(j), c)
      <4>5. c \in Chars /\ heap[n].children[c] \in Nodes
            /\ heap[n].children[c][1] = s
        BY <1>1, ChildrenOK DEF TypeInv
      <4>6. s \in Paths /\ s \in Seq(Chars) /\ s # <<>> /\ IsPrefix(Spot(j), s)
            /\ Len(s) = Len(Spot(j)) + 1
        <5>1. s \in Seq(Chars) /\ Len(s) = Len(Spot(j)) + 1
          BY <4>5, <1>1, AppendFacts
        <5>2. IsPrefix(Spot(j), s)
          BY <4>5, <1>1, PrefixAppend
        <5>3. s \in Paths
          BY <4>5, NodeFacts
        <5>4. s # <<>>
          BY <5>1, <1>1
        <5> QED BY <5>1, <5>2, <5>3, <5>4
      <4>7. AtIn(heap, s) # None
        <5>1. AtIn(heap, s) = ChildIn(heap, n, c)
          BY <4>5, <1>1, AtAppend
        <5> QED BY <5>1, <4>4, <4>5, <1>1, NodeFacts DEF ChildIn
      <4> HIDE DEF s
      <4>8. Ending(words, j, s)
        BY <4>6, <4>7, <1>1 DEF WriterInv, Branching
      <4>9. ~ IsPrefix(s, Spot(j))
        <5>1. Len(Spot(j)) \in Nat /\ ~ (Len(s) <= Len(Spot(j)))
          BY <4>6, <1>1
        <5> QED BY <5>1, <4>6, <1>1, PrefixOrder
      <4>10. PICK q \in DOMAIN words : IsPrefix(s, q)
        BY <4>8, <4>9, <1>2 DEF Ending
      <4>11. q \in Seq(Chars)
        BY PathsAreTexts DEF TypeInv
      <4>12. IsPrefix(p, s)
        BY <2>1, <2>4, <4>6, <1>1, PrefixOrder
      <4>13. IsPrefix(p, q)
        BY <2>1, <4>6, <4>10, <4>11, <4>12, PrefixOrder
      <4> QED BY <4>13
    <3> QED BY <3>3, <3>4
  <2> QED BY <2>2, <2>3, <2>4, <1>2 DEF Ending
<1>8. Counted(size', words', Busy') /\ Doing(heap', words', Busy')
  BY <1>1, <1>2, <1>4 DEF WriterInv, Counted, Doing, DeleteSteps
<1> QED BY <1>2, <1>5, <1>6, <1>7, <1>8 DEF WriterInv

\* A new node under the node of q, for the character c.
Linked(q, c, new) ==
    LET parent == AtIn(heap, q)
    IN  /\ q \in Paths /\ c \in Chars /\ new \in Nodes /\ new[1] = Append(q, c)
        /\ parent \in Nodes /\ parent[1] = q /\ AtIn(heap, new[1]) = None
        /\ new # parent /\ new \notin Held /\ HeapOK(heap')
        /\ heap'[new] = NewNode
        /\ \A m \in Nodes \ {new, parent} : heap'[m] = heap[m]
        /\ heap'[parent].is_end = heap[parent].is_end
        /\ heap'[parent].value = heap[parent].value
        /\ heap'[parent].weight = heap[parent].weight
        /\ DOMAIN heap'[parent].children = DOMAIN heap[parent].children \cup {c}
        /\ c \notin DOMAIN heap[parent].children
        /\ heap'[parent].children[c] = new
        /\ \A d \in DOMAIN heap[parent].children :
              heap'[parent].children[d] = heap[parent].children[d]

LEMMA LinkFacts ==
    ASSUME TypeInv, NEW t \in Threads, Link(t)
    PROVE  \E q \in Paths, c \in Chars, new \in Nodes :
              Linked(q, c, new) /\ IsPrefix(new[1], Entering(job[t]))
<1> DEFINE w == Word(t)
           B == {i \in 0 .. Len(w) : AtIn(heap, Prefix(w, i)) = None}
           Next1(i) == AtIn(heap, Prefix(w, i)) = None /\ AtIn(heap, Prefix(w, i - 1)) # None
<1>1. job[t] \in Inserting /\ w = Entering(job[t]) /\ w \in Paths /\ w \in Seq(Chars)
  <2>1. job[t] \in Inserting
    BY JobKinds DEF Link
  <2> QED BY <2>1, EnteringOK DEF Word, Item, Entering
<1>2. AtIn(heap, w) = None
  BY AtIs DEF Link
<1> HIDE DEF w
<1>3. \E i \in 1 .. Len(w) : Next1(i)
  <2>1. Len(w) \in B /\ B \subseteq Nat
    BY <1>1, <1>2, PrefixAll
  <2>2. PICK i \in B : \A k \in B : i <= k
    <3> HIDE DEF B
    <3> QED BY <2>1, LeastNumber
  <2>3. i # 0
    <3>1. Prefix(w, 0) = <<>> /\ AtIn(heap, <<>>) # None
      BY <1>1, PrefixAll, AtRoot, RootOK, NodeFacts
    <3>2. AtIn(heap, Prefix(w, i)) = None
      BY <2>2
    <3> QED BY <3>1, <3>2
  <2>4. i \in 1 .. Len(w) /\ i - 1 \in 0 .. Len(w) /\ ~ (i <= i - 1)
    BY <2>2, <2>3, <1>1
  <2>5. AtIn(heap, Prefix(w, i)) = None /\ AtIn(heap, Prefix(w, i - 1)) # None
    BY <2>2, <2>4
  <2> QED BY <2>4, <2>5
<1> DEFINE n == CHOOSE i \in 1 .. Len(w) : Next1(i)
<1>4. n \in 1 .. Len(w) /\ Next1(n)
  BY <1>3
<1>5. n = CHOOSE i \in 1 .. Len(w) :
            At(Prefix(w, i)) = None /\ At(Prefix(w, i - 1)) # None
  BY AtIs
<1> DEFINE q == Prefix(w, n - 1)
           p == Prefix(w, n)
           c == w[n]
           parent == AtIn(heap, q)
           free == Free(p)
           new == <<p, CHOOSE i \in free : \A k \in free : i <= k>>
<1>6. /\ free # {}
      /\ heap' = [heap EXCEPT ![new] = NewNode,
                              ![parent].children =
                                   [d \in DOMAIN @ \cup {c} |-> IF d = c THEN new ELSE @[d]]]
  <2> DEFINE N == CHOOSE i \in 1 .. Len(Word(t)) :
                    At(Prefix(Word(t), i)) = None /\ At(Prefix(Word(t), i - 1)) # None
             P == At(Prefix(Word(t), N - 1))
             F == Free(Prefix(Word(t), N))
             M == <<Prefix(Word(t), N), CHOOSE i \in F : \A k \in F : i <= k>>
  <2>1. /\ F # {}
        /\ heap' = [heap EXCEPT ![M] = NewNode,
                                ![P].children =
                                   [d \in DOMAIN @ \cup {Word(t)[N]} |->
                                      IF d = Word(t)[N] THEN M ELSE @[d]]]
    BY DEF Link
  <2>2. N = n /\ Word(t) = w
    BY <1>5 DEF w
  <2> HIDE DEF N
  <2>3. P = parent /\ F = free /\ Word(t)[N] = c
    BY <2>2, AtIs
  <2>4. M = new
    BY <2>2, <2>3
  <2> HIDE DEF P, F, M, parent, free, c, new
  <2> QED BY <2>1, <2>3, <2>4
<1>7. /\ n - 1 \in 0 .. Len(w) /\ n \in 0 .. Len(w) /\ n - 1 \in 0 .. Len(w) - 1
      /\ n - 1 + 1 = n
  BY <1>4, <1>1
<1> HIDE DEF n
<1>8. /\ q \in Seq(Chars) /\ p \in Seq(Chars) /\ IsPrefix(q, w) /\ IsPrefix(p, w)
      /\ c \in Chars /\ p = Append(q, c)
  <2>1. q \in Seq(Chars) /\ p \in Seq(Chars) /\ IsPrefix(q, w) /\ IsPrefix(p, w)
    BY <1>7, <1>1, PrefixOf
  <2>2. w[n - 1 + 1] \in Chars /\ Prefix(w, n - 1 + 1) = Append(Prefix(w, n - 1), w[n - 1 + 1])
    BY <1>7, <1>1, PrefixNext
  <2> QED BY <2>1, <2>2, <1>7
<1>9. q \in Paths /\ p \in Paths
  BY <1>8, <1>1, PathsClosed
<1>10. parent \in Nodes /\ parent[1] = q /\ AtIn(heap, p) = None
  BY <1>4, <1>9, Places
<1>11. new \in Nodes /\ new[1] = p /\ new \notin Held
  <2>1. free \subseteq 1 .. MaxCopies /\ MaxCopies \in Nat
        /\ \A i \in free : <<p, i>> \notin Held
    BY TrieAssumption DEF Free
  <2>2. free \subseteq Nat
    BY <2>1
  <2>3. \E i \in free : \A k \in free : i <= k
    <3> HIDE DEF free
    <3> QED BY <2>2, <1>6, LeastNumber
  <2> DEFINE i == CHOOSE i \in free : \A k \in free : i <= k
  <2>4. i \in free
    BY <2>3
  <2> HIDE DEF i
  <2>5. i \in 1 .. MaxCopies /\ <<p, i>> \notin Held
    BY <2>1, <2>4
  <2>6. <<p, i>> \in Nodes
    BY <2>5, <1>9, NodeFacts
  <2>7. new = <<p, i>>
    BY DEF i
  <2> HIDE DEF p, new
  <2> QED BY <2>5, <2>6, <2>7
<1>12. p # q
  <2>1. Len(p) = Len(q) + 1 /\ Len(q) \in Nat
    BY <1>8, AppendFacts
  <2> QED BY <2>1
<1> HIDE DEF q, p, c, parent, new, free, w
<1>13. new # parent
  BY <1>10, <1>11, <1>12
<1>14. c \notin DOMAIN heap[parent].children
  <2> SUFFICES ASSUME c \in DOMAIN heap[parent].children PROVE FALSE
    OBVIOUS
  <2>1. heap[parent].children[c] \in Nodes
    BY <1>10, ChildrenOK DEF TypeInv
  <2>2. AtIn(heap, p) = ChildIn(heap, parent, c)
    BY <1>8, AtAppend DEF parent
  <2> QED BY <2>1, <2>2, <1>10, NodeFacts DEF ChildIn
<1>15. heap \in [Nodes -> TrieNode]
  BY DEF TypeInv, HeapOK
<1> DEFINE kids == heap[parent].children
<1>16. /\ heap'[new] = NewNode
       /\ \A m \in Nodes \ {new, parent} : heap'[m] = heap[m]
       /\ heap'[parent].is_end = heap[parent].is_end
       /\ heap'[parent].value = heap[parent].value
       /\ heap'[parent].weight = heap[parent].weight
       /\ heap'[parent].children = [d \in DOMAIN kids \cup {c} |-> IF d = c THEN new ELSE kids[d]]
  <2>1. heap[parent] \in TrieNode
    BY <1>10, <1>15
  <2> QED BY <2>1, <1>6, <1>10, <1>11, <1>13, <1>15 DEF TrieNode
<1> DEFINE both == [d \in DOMAIN kids \cup {c} |-> IF d = c THEN new ELSE kids[d]]
<1>17. /\ both \in ChildMaps
       /\ \A d \in DOMAIN both : both[d][1] = Append(q, d)
  <2>1. \A d \in DOMAIN kids : d \in Chars /\ kids[d] \in Nodes /\ kids[d][1] = Append(q, d)
    BY <1>10, ChildrenOK DEF TypeInv
  <2>2. DOMAIN kids \cup {c} \in SUBSET Chars /\ both \in [DOMAIN kids \cup {c} -> Nodes]
    BY <2>1, <1>8, <1>11
  <2>3. both \in ChildMaps
    <3> HIDE DEF both, kids
    <3> QED BY <2>2 DEF ChildMaps
  <2>4. new[1] = Append(q, c)
    BY <1>8, <1>11
  <2> QED BY <2>1, <2>3, <2>4
<1>18. HeapOK(heap')
  <2>1. heap' = [heap EXCEPT ![new] = NewNode, ![parent].children = both]
    <3>1. [heap EXCEPT ![new] = NewNode][parent] = heap[parent]
      BY <1>10, <1>13, <1>15
    <3> QED BY <1>6, <1>10, <1>11, <1>13, <1>15, <3>1
  <2> HIDE DEF both, kids
  <2>2. heap' \in [Nodes -> TrieNode]
    <3>1. [heap EXCEPT ![new] = NewNode] \in [Nodes -> TrieNode]
      BY <1>11, <1>15, NewNodeOK
    <3> QED BY <2>1, <3>1, <1>10, <1>17 DEF TrieNode
  <2>3. heap'[parent].children = both
    BY <1>16 DEF both, kids
  <2>4. \A m \in Nodes : \A d \in DOMAIN heap'[m].children :
           heap'[m].children[d][1] = Append(m[1], d)
    <3> TAKE m \in Nodes
    <3>1. CASE m = new
      BY <3>1, <1>16, NewNodeOK
    <3>2. CASE m = parent
      BY <3>2, <2>3, <1>10, <1>17
    <3>3. CASE m # new /\ m # parent
      BY <3>3, <1>16 DEF TypeInv, HeapOK
    <3> QED BY <3>1, <3>2, <3>3
  <2> QED BY <2>2, <2>4 DEF HeapOK
<1>19. Linked(q, c, new)
  <2>1. AtIn(heap, q) = parent
    BY DEF parent
  <2>2. new[1] = Append(q, c) /\ AtIn(heap, new[1]) = None
    BY <1>8, <1>10, <1>11
  <2>3. /\ DOMAIN heap'[parent].children = DOMAIN heap[parent].children \cup {c}
        /\ heap'[parent].children[c] = new
        /\ \A d \in DOMAIN heap[parent].children :
              heap'[parent].children[d] = heap[parent].children[d]
    BY <1>14, <1>16
  <2> QED BY <2>1, <2>2, <2>3, <1>8, <1>9, <1>10, <1>11, <1>13, <1>14, <1>16, <1>18 DEF Linked
<1> QED BY <1>1, <1>8, <1>9, <1>11, <1>19

LEMMA LinkedWalks ==
    ASSUME TypeInv, WriterInv, NEW q, NEW c, NEW new, Linked(q, c, new)
    PROVE  /\ \A path \in Seq(Chars) :
                 AtIn(heap', path) = IF path = new[1] THEN new ELSE AtIn(heap, path)
           /\ \A path \in Paths :
                 AtIn(heap', path) = IF path = new[1] THEN new ELSE AtIn(heap, path)
           /\ \A m \in Nodes : AtIn(heap', m[1]) =
                                 IF m[1] = new[1] THEN new ELSE AtIn(heap, m[1])
<1> DEFINE parent == AtIn(heap, q)
<1>1. /\ q \in Paths /\ c \in Chars /\ new \in Nodes /\ new[1] = Append(q, c)
      /\ parent \in Nodes /\ AtIn(heap, new[1]) = None /\ new # parent
      /\ heap'[new] = NewNode
      /\ \A m \in Nodes \ {new, parent} : heap'[m] = heap[m]
      /\ DOMAIN heap'[parent].children = DOMAIN heap[parent].children \cup {c}
      /\ heap'[parent].children[c] = new
      /\ \A d \in DOMAIN heap[parent].children :
            heap'[parent].children[d] = heap[parent].children[d]
  BY DEF Linked
<1> HIDE DEF parent
<1>2. parent # None /\ new # None /\ q \in Seq(Chars)
  BY <1>1, NodeFacts, PathsAreTexts
<1>3. \A m \in Nodes : m # parent /\ m = AtIn(heap, m[1]) => heap'[m].children = heap[m].children
  BY <1>1, NodeFacts
<1>4. \A d \in Chars : d # c => ChildIn(heap', parent, d) = ChildIn(heap, parent, d)
  BY <1>1 DEF ChildIn
<1>5. ChildIn(heap', parent, c) = new
  BY <1>1, <1>2 DEF ChildIn
<1>6. \A d \in Chars : ChildIn(heap', new, d) = None
  BY <1>1, NewNodeOK DEF ChildIn
<1>7. \A d \in Chars : ChildIn(heap, AtIn(heap, Append(q, c)), d) = None
  BY <1>1 DEF ChildIn
<1>8. \A path \in Seq(Chars) :
         AtIn(heap', path) = IF path = Append(q, c) THEN new ELSE AtIn(heap, path)
  <2>1. HeapOK(heap) /\ Root \in Nodes
    BY RootOK DEF TypeInv
  <2>2. Edit(heap, heap', q, c, new)
    BY <1>1, <1>2, <1>3, <1>4, <1>5, <1>6, <1>7 DEF Edit, parent
  <2> QED BY <2>1, <2>2, AtEdit
<1>9. \A path \in Seq(Chars) :
         AtIn(heap', path) = IF path = new[1] THEN new ELSE AtIn(heap, path)
  BY <1>8, <1>1
<1> QED BY <1>9, PathsAreTexts, NodeFacts

LEMMA LinkStep ==
    ASSUME TypeInv, WriterInv, NEW t \in Threads, Link(t)
    PROVE  TypeInv' /\ WriterInv'
<1> DEFINE j == job[t]
           e == Entering(j)
<1>1. /\ j \in Inserting /\ lock = t /\ Busy = j /\ j.pc = "link" /\ e \in Paths /\ e \in Seq(Chars)
  BY JobKinds, BusyIs, EnteringOK DEF Link
<1>2. /\ size' = size /\ lock' = lock /\ job' = job /\ words' = words /\ DOMAIN seen' = Threads
  BY DEF Link, Observe
<1>3. PICK q \in Paths, c \in Chars, new \in Nodes : Linked(q, c, new) /\ IsPrefix(new[1], e)
  BY LinkFacts
<1> DEFINE parent == AtIn(heap, q)
<1>4. /\ parent \in Nodes /\ parent[1] = q /\ AtIn(heap, new[1]) = None
      /\ new # parent /\ HeapOK(heap') /\ heap'[new] = NewNode
      /\ \A m \in Nodes \ {new, parent} : heap'[m] = heap[m]
      /\ heap'[parent].is_end = heap[parent].is_end
      /\ heap'[parent].value = heap[parent].value
      /\ heap'[parent].weight = heap[parent].weight
  BY <1>3 DEF Linked
<1>5. /\ \A p \in Paths : AtIn(heap', p) = IF p = new[1] THEN new ELSE AtIn(heap, p)
      /\ \A m \in Nodes : AtIn(heap', m[1]) = IF m[1] = new[1] THEN new ELSE AtIn(heap, m[1])
  BY <1>3, LinkedWalks
<1>6. AtIn(heap, parent[1]) = parent /\ parent[1] # new[1]
  BY <1>4, NodeFacts
<1>7. new[1] \in Paths /\ new[1] \notin DOMAIN words
  BY <1>3, <1>4, NodeFacts DEF WriterInv, Marked
<1> HIDE DEF j, e, parent
<1>8. Busy' = j
  BY <1>1, <1>2, BusyIs DEF j
<1>9. TypeInv'
  BY <1>2, <1>4, SameWords DEF TypeInv
<1>10. Blank(heap')
  <2> SUFFICES ASSUME NEW m \in Nodes, AtIn(heap', m[1]) # m
               PROVE  DOMAIN heap'[m].children = {} /\ heap'[m].is_end = FALSE
                      /\ heap'[m].value = EmptyText
    BY DEF Blank
  <2>1. m # new /\ AtIn(heap, m[1]) # m
    BY <1>4, <1>5, NodeFacts
  <2>2. m # parent
    BY <2>1, <1>6
  <2> QED BY <2>1, <2>2, <1>4 DEF WriterInv, Blank
<1>11. Spelled(heap', Busy')
  BY <1>1, <1>4, <1>8, NewNodeOK DEF WriterInv, Spelled
<1>12. Marked(heap', words')
  <2> SUFFICES ASSUME NEW p \in Paths
               PROVE  p \in DOMAIN words <=> AtIn(heap', p) # None
                                              /\ heap'[AtIn(heap', p)].is_end = TRUE
    BY <1>2 DEF Marked
  <2>1. CASE p = new[1]
    BY <2>1, <1>4, <1>5, <1>7, NewNodeOK
  <2>2. CASE p # new[1]
    <3>1. AtIn(heap', p) = AtIn(heap, p) /\ AtIn(heap, p) # new
      BY <2>2, <1>5, Places, NodeFacts
    <3>2. AtIn(heap, p) = None \/ AtIn(heap, p) \in Nodes
      BY Places
    <3> QED BY <3>1, <3>2, <1>4 DEF WriterInv, Marked
  <2> QED BY <2>1, <2>2
<1>13. Stored(heap', words', Busy')
  <2> SUFFICES ASSUME NEW p \in DOMAIN words
               PROVE  /\ heap'[AtIn(heap', p)].weight = words[p][1]
                      /\ heap'[AtIn(heap', p)].value = words[p][2]
    BY <1>2 DEF Stored
  <2>1. p \in Paths /\ p # new[1]
    BY <1>7 DEF TypeInv
  <2>2. AtIn(heap', p) = AtIn(heap, p) /\ AtIn(heap, p) # new /\ AtIn(heap, p) \in Nodes
    BY <2>1, <1>5, Places DEF WriterInv, Marked
  <2>3. heap[AtIn(heap, p)].weight = words[p][1] /\ heap[AtIn(heap, p)].value = words[p][2]
    BY <1>1 DEF WriterInv, Stored
  <2> QED BY <2>2, <2>3, <1>4
<1>14. Branching(heap', words', Busy')
  <2> SUFFICES ASSUME NEW p \in Paths, AtIn(heap', p) # None, p # <<>>
               PROVE  Ending(words, j, p)
    BY <1>2, <1>8 DEF Branching
  <2>1. CASE p = new[1]
    BY <2>1, <1>1, <1>3 DEF Ending, e
  <2>2. CASE p # new[1]
    BY <2>2, <1>1, <1>5 DEF WriterInv, Branching
  <2> QED BY <2>1, <2>2
<1>15. Counted(size', words', Busy') /\ Doing(heap', words', Busy')
  BY <1>1, <1>2, <1>8 DEF WriterInv, Counted, Doing, DeleteSteps
<1> QED BY <1>9, <1>10, <1>11, <1>12, <1>13, <1>14, <1>15 DEF WriterInv

\* The node of q loses its child for the character c.
Unlinked(q, c, dead) ==
    LET parent == AtIn(heap, q)
    IN  /\ q \in Paths /\ c \in Chars /\ dead \in Nodes /\ dead[1] = Append(q, c)
        /\ parent \in Nodes /\ parent[1] = q /\ AtIn(heap, dead[1]) = dead
        /\ dead # parent /\ HeapOK(heap')
        /\ DOMAIN heap[dead].children = {} /\ heap[dead].is_end = FALSE
        /\ \A m \in Nodes \ {parent} : heap'[m] = heap[m]
        /\ heap'[parent].is_end = heap[parent].is_end
        /\ heap'[parent].value = heap[parent].value
        /\ heap'[parent].weight = heap[parent].weight
        /\ DOMAIN heap'[parent].children = DOMAIN heap[parent].children \ {c}
        /\ \A d \in DOMAIN heap'[parent].children :
              heap'[parent].children[d] = heap[parent].children[d]

LEMMA PruneFacts ==
    ASSUME TypeInv, WriterInv, NEW t \in Threads, Prune(t)
    PROVE  \E q \in Paths, c \in Chars, dead \in Nodes :
              /\ Unlinked(q, c, dead) /\ dead[1] = Spot(job[t])
              /\ q = Prefix(job[t].key, job[t].depth - 1)
<1> DEFINE j == job[t]
           dead == Target(t)
           d == job[t].depth
           q == Prefix(job[t].key, d - 1)
           c == job[t].key[d]
           parent == AtIn(heap, q)
<1>1. /\ j \in Deleting /\ d <= Len(j.key) /\ d \in Nat
      /\ Spot(j) \in Paths /\ Spot(j) \in Seq(Chars)
      /\ dead = AtIn(heap, Spot(j)) /\ dead \in Nodes /\ dead[1] = Spot(j)
  <2>1. job[t].pc \in DeleteSteps
    BY DEF Prune, DeleteSteps
  <2> QED BY <2>1, DeletedNode
<1>2. /\ d > 0 /\ ~ heap[dead].is_end /\ heap[dead].children = NewNode.children
      /\ heap' = [heap EXCEPT ![At(q)].children = [x \in DOMAIN @ \ {c} |-> @[x]]]
  BY DEF Prune, ShouldPrune
<1>3. j.key \in Seq(Chars) /\ j.key \in Paths
  BY <1>1, PathsAreTexts DEF Deleting
<1>4. /\ d - 1 \in 0 .. Len(j.key) /\ d - 1 \in 0 .. Len(j.key) - 1 /\ d - 1 + 1 = d
  BY <1>1, <1>2, <1>3
<1>5. /\ q \in Seq(Chars) /\ IsPrefix(q, j.key) /\ c \in Chars /\ Spot(j) = Append(q, c)
  <2>1. q \in Seq(Chars) /\ IsPrefix(q, j.key)
    BY <1>3, <1>4, PrefixOf
  <2>2. j.key[d - 1 + 1] \in Chars
        /\ Prefix(j.key, d - 1 + 1) = Append(Prefix(j.key, d - 1), j.key[d - 1 + 1])
    BY <1>3, <1>4, PrefixNext
  <2> QED BY <2>1, <2>2, <1>4 DEF Spot
<1>6. At(q) = parent
  BY AtIs
<1> HIDE DEF j, dead, d, q, c, parent
<1>7. q \in Paths
  BY <1>3, <1>5, PathsClosed
<1>8. IsPrefix(q, Spot(j)) /\ dead # None
  BY <1>1, <1>5, PrefixAppend, NodeFacts
<1>9. parent \in Nodes /\ parent[1] = q
  <2>1. parent # None
    BY <1>1, <1>5, <1>8, AtParents DEF parent
  <2> QED BY <2>1, <1>7, Places DEF parent
<1>10. dead # parent
  BY <1>1, <1>5, <1>9, AppendFacts
<1>11. heap \in [Nodes -> TrieNode] /\ heap[parent] \in TrieNode /\ heap[dead] \in TrieNode
  BY <1>1, <1>9 DEF TypeInv, HeapOK
<1>12. heap[dead].is_end = FALSE /\ DOMAIN heap[dead].children = {}
  BY <1>2, <1>11, NewNodeOK DEF TrieNode
<1> DEFINE kids == heap[parent].children
           rest == [x \in DOMAIN kids \ {c} |-> kids[x]]
<1>13. heap' = [heap EXCEPT ![parent].children = rest]
  BY <1>2, <1>6, <1>9, <1>11
<1>14. rest \in ChildMaps /\ \A x \in DOMAIN rest : rest[x][1] = Append(q, x)
  <2>1. \A x \in DOMAIN kids : x \in Chars /\ kids[x] \in Nodes /\ kids[x][1] = Append(q, x)
    BY <1>9, ChildrenOK DEF TypeInv
  <2>2. DOMAIN kids \ {c} \in SUBSET Chars /\ rest \in [DOMAIN kids \ {c} -> Nodes]
    BY <2>1
  <2>3. rest \in ChildMaps
    <3> HIDE DEF rest, kids
    <3> QED BY <2>2 DEF ChildMaps
  <2> QED BY <2>1, <2>3
<1>15. /\ \A m \in Nodes \ {parent} : heap'[m] = heap[m]
       /\ heap'[parent].is_end = heap[parent].is_end
       /\ heap'[parent].value = heap[parent].value
       /\ heap'[parent].weight = heap[parent].weight
       /\ heap'[parent].children = rest
  <2> HIDE DEF rest, kids
  <2> QED BY <1>9, <1>11, <1>13 DEF TrieNode
<1>16. HeapOK(heap')
  <2>1. heap' \in [Nodes -> TrieNode]
    <3> HIDE DEF rest, kids
    <3> QED BY <1>9, <1>11, <1>13, <1>14 DEF TrieNode
  <2>2. \A m \in Nodes : \A x \in DOMAIN heap'[m].children :
           heap'[m].children[x][1] = Append(m[1], x)
    <3> TAKE m \in Nodes
    <3>1. CASE m = parent
      <4> HIDE DEF rest, kids
      <4> QED BY <3>1, <1>9, <1>14, <1>15
    <3>2. CASE m # parent
      BY <3>2, <1>15 DEF TypeInv, HeapOK
    <3> QED BY <3>1, <3>2
  <2> QED BY <2>1, <2>2 DEF HeapOK
<1>17. DOMAIN rest = DOMAIN heap[parent].children \ {c}
       /\ \A x \in DOMAIN rest : rest[x] = heap[parent].children[x]
  OBVIOUS
<1> HIDE DEF rest, kids
<1>18. Unlinked(q, c, dead)
  <2>1. dead[1] = Append(q, c) /\ AtIn(heap, dead[1]) = dead
    BY <1>1, <1>5
  <2> QED BY <2>1, <1>1, <1>5, <1>7, <1>9, <1>10, <1>12, <1>15, <1>16, <1>17
      DEF Unlinked, parent
<1>19. dead[1] = Spot(job[t]) /\ q = Prefix(job[t].key, job[t].depth - 1)
  BY <1>1 DEF j, q, d
<1> QED BY <1>1, <1>5, <1>7, <1>18, <1>19

LEMMA UnlinkedWalks ==
    ASSUME TypeInv, NEW q, NEW c, NEW dead, Unlinked(q, c, dead)
    PROVE  /\ \A path \in Seq(Chars) :
                 AtIn(heap', path) = IF path = dead[1] THEN None ELSE AtIn(heap, path)
           /\ \A path \in Paths :
                 AtIn(heap', path) = IF path = dead[1] THEN None ELSE AtIn(heap, path)
           /\ \A m \in Nodes : AtIn(heap', m[1]) =
                                 IF m[1] = dead[1] THEN None ELSE AtIn(heap, m[1])
<1> DEFINE parent == AtIn(heap, q)
<1>1. /\ q \in Paths /\ c \in Chars /\ dead \in Nodes /\ dead[1] = Append(q, c)
      /\ parent \in Nodes /\ AtIn(heap, dead[1]) = dead
      /\ DOMAIN heap[dead].children = {}
      /\ \A m \in Nodes \ {parent} : heap'[m] = heap[m]
      /\ DOMAIN heap'[parent].children = DOMAIN heap[parent].children \ {c}
      /\ \A d \in DOMAIN heap'[parent].children :
            heap'[parent].children[d] = heap[parent].children[d]
  BY DEF Unlinked
<1> HIDE DEF parent
<1>2. parent # None /\ q \in Seq(Chars)
  BY <1>1, NodeFacts, PathsAreTexts
<1>3. \A m \in Nodes : m # parent /\ m = AtIn(heap, m[1]) => heap'[m].children = heap[m].children
  BY <1>1
<1>4. \A d \in Chars : d # c => ChildIn(heap', parent, d) = ChildIn(heap, parent, d)
  BY <1>1 DEF ChildIn
<1>5. ChildIn(heap', parent, c) = None
  BY <1>1 DEF ChildIn
<1>6. \A d \in Chars : ChildIn(heap', None, d) = None
  BY DEF ChildIn
<1>7. \A d \in Chars : ChildIn(heap, AtIn(heap, Append(q, c)), d) = None
  BY <1>1 DEF ChildIn
<1>8. \A path \in Seq(Chars) :
         AtIn(heap', path) = IF path = Append(q, c) THEN None ELSE AtIn(heap, path)
  <2>1. HeapOK(heap) /\ Root \in Nodes
    BY RootOK DEF TypeInv
  <2>2. Edit(heap, heap', q, c, None)
    BY <1>1, <1>2, <1>3, <1>4, <1>5, <1>6, <1>7 DEF Edit, parent
  <2> QED BY <2>1, <2>2, AtEdit
<1>9. \A path \in Seq(Chars) :
         AtIn(heap', path) = IF path = dead[1] THEN None ELSE AtIn(heap, path)
  BY <1>8, <1>1
<1> QED BY <1>9, PathsAreTexts, NodeFacts

LEMMA PruneStep ==
    ASSUME TypeInv, WriterInv, NEW t \in Threads, Prune(t)
    PROVE  TypeInv' /\ WriterInv'
<1> DEFINE j == job[t]
           k == [job[t] EXCEPT !.depth = @ - 1]
<1>1. PICK q \in Paths, c \in Chars, dead \in Nodes :
         Unlinked(q, c, dead) /\ dead[1] = Spot(j) /\ q = Prefix(j.key, j.depth - 1)
  BY PruneFacts
<1>2. /\ lock = t /\ j \in Deleting /\ Busy = j
      /\ j.depth <= Len(j.key) /\ j.depth \in Nat /\ Spot(j) \in Seq(Chars)
  <2>1. job[t].pc \in DeleteSteps
    BY DEF Prune, DeleteSteps
  <2> QED BY <2>1, DeletedNode
<1>3. /\ j.depth > 0 /\ job' = [job EXCEPT ![t] = k] /\ j.pc = "prune"
      /\ size' = size /\ lock' = lock /\ words' = words /\ DOMAIN seen' = Threads
  BY DEF Prune, Observe
<1>4. /\ k \in Deleting /\ k # Idle /\ k.pc = "prune" /\ k.key = j.key
      /\ k.depth = j.depth - 1 /\ Spot(k) = q /\ k.depth <= Len(k.key)
  BY <1>1, <1>2, <1>3 DEF Deleting, Idle, Spot
<1>5. lock' = (IF k = Idle THEN None ELSE t)
  BY <1>2, <1>3, <1>4
<1> HIDE DEF k
<1>6. /\ Busy' = k /\ job' \in [Threads -> Jobs] /\ lock' \in Threads \cup {None}
      /\ \A u \in Threads : lock' = u <=> job'[u].op \in {"insert", "delete"}
  BY <1>2, <1>3, <1>4, <1>5, HolderMoves
<1> HIDE DEF j
<1> DEFINE parent == AtIn(heap, q)
<1>7. /\ dead[1] = Append(q, c) /\ parent \in Nodes /\ parent[1] = q
      /\ AtIn(heap, dead[1]) = dead /\ dead # parent /\ HeapOK(heap')
      /\ DOMAIN heap[dead].children = {} /\ heap[dead].is_end = FALSE
      /\ \A m \in Nodes \ {parent} : heap'[m] = heap[m]
      /\ heap'[parent].is_end = heap[parent].is_end
      /\ heap'[parent].value = heap[parent].value
      /\ heap'[parent].weight = heap[parent].weight
  BY <1>1 DEF Unlinked
<1>8. /\ \A p \in Paths : AtIn(heap', p) = IF p = dead[1] THEN None ELSE AtIn(heap, p)
      /\ \A m \in Nodes : AtIn(heap', m[1]) = IF m[1] = dead[1] THEN None ELSE AtIn(heap, m[1])
  BY <1>1, UnlinkedWalks
<1>9. dead[1] \in Paths /\ dead[1] \notin DOMAIN words /\ q # dead[1] /\ q \in Seq(Chars)
  <2>1. dead[1] \in Paths /\ dead[1] \notin DOMAIN words
    BY <1>1, <1>7, NodeFacts DEF WriterInv, Marked
  <2> QED BY <2>1, <1>1, <1>7, AppendFacts, PathsAreTexts
<1>10. AtIn(heap, parent[1]) = parent
  BY <1>7
<1> HIDE DEF parent
<1>11. TypeInv'
  BY <1>3, <1>6, <1>7, SameWords
<1>12. \A m \in Nodes : heap'[m].is_end = heap[m].is_end /\ heap'[m].value = heap[m].value
                        /\ heap'[m].weight = heap[m].weight
  BY <1>7
<1>13. Blank(heap')
  <2> SUFFICES ASSUME NEW m \in Nodes, AtIn(heap', m[1]) # m
               PROVE  DOMAIN heap'[m].children = {} /\ heap'[m].is_end = FALSE
                      /\ heap'[m].value = EmptyText
    BY DEF Blank
  <2>1. CASE m = dead
    BY <2>1, <1>2, <1>3, <1>7 DEF WriterInv, Spelled
  <2>2. CASE m # dead
    <3>1. AtIn(heap, m[1]) # m
      BY <2>2, <1>7, <1>8
    <3>2. m # parent
      BY <3>1, <1>10
    <3> QED BY <3>1, <3>2, <1>7 DEF WriterInv, Blank
  <2> QED BY <2>1, <2>2
<1>14. Spelled(heap', Busy')
  BY <1>2, <1>3, <1>12 DEF WriterInv, Spelled
<1>15. Marked(heap', words')
  <2> SUFFICES ASSUME NEW p \in Paths
               PROVE  p \in DOMAIN words <=> AtIn(heap', p) # None
                                              /\ heap'[AtIn(heap', p)].is_end = TRUE
    BY <1>3 DEF Marked
  <2>1. AtIn(heap, p) = None \/ AtIn(heap, p) \in Nodes
    BY Places
  <2> QED BY <2>1, <1>8, <1>9, <1>12 DEF WriterInv, Marked
<1>16. Stored(heap', words', Busy')
  <2> SUFFICES ASSUME NEW p \in DOMAIN words
               PROVE  /\ heap'[AtIn(heap', p)].weight = words[p][1]
                      /\ heap'[AtIn(heap', p)].value = words[p][2]
    BY <1>3 DEF Stored
  <2>1. p \in Paths /\ p # dead[1]
    BY <1>9 DEF TypeInv
  <2>2. AtIn(heap', p) = AtIn(heap, p) /\ AtIn(heap, p) \in Nodes
    BY <2>1, <1>8, Places DEF WriterInv, Marked
  <2>3. heap[AtIn(heap, p)].weight = words[p][1] /\ heap[AtIn(heap, p)].value = words[p][2]
    BY <1>2, <1>3 DEF WriterInv, Stored
  <2> QED BY <2>2, <2>3, <1>12
<1>17. Branching(heap', words', Busy')
  <2> SUFFICES ASSUME NEW p \in Paths, AtIn(heap', p) # None, p # <<>>
               PROVE  Ending(words, k, p)
    BY <1>3, <1>6 DEF Branching
  <2>1. p # dead[1] /\ AtIn(heap, p) # None /\ p \in Seq(Chars)
    BY <1>8, PathsAreTexts
  <2>2. Ending(words, j, p)
    BY <2>1, <1>2 DEF WriterInv, Branching
  <2>3. CASE \E x \in DOMAIN words : IsPrefix(p, x)
    BY <2>3 DEF Ending
  <2>4. CASE IsPrefix(p, Spot(j))
    <3>1. IsPrefix(p, Append(q, c)) /\ p # Append(q, c)
      BY <2>1, <2>4, <1>1, <1>7
    <3>2. IsPrefix(p, q)
      BY <3>1, <2>1, <1>9, PrefixAppend
    <3> QED BY <3>2, <1>4 DEF Ending
  <2> QED BY <2>2, <2>3, <2>4, <1>3 DEF Ending
<1>18. Counted(size', words', Busy')
  BY <1>2, <1>3, <1>4, <1>6 DEF WriterInv, Counted
<1>19. Doing(heap', words', Busy')
  <2>1. AtIn(heap', Spot(k)) # None
    BY <1>4, <1>7, <1>8, <1>9, NodeFacts DEF parent
  <2> QED BY <2>1, <1>4, <1>6 DEF Doing
<1> QED BY <1>11, <1>13, <1>14, <1>15, <1>16, <1>17, <1>18, <1>19 DEF WriterInv

-----------------------------------------------------------------------------
(***************************************************************************)
(* Sorting.  results.sort() orders any list: the last result is put where  *)
(* it belongs among the others.                                            *)
(***************************************************************************)
Sorts(order, s) ==
    /\ order \in [DOMAIN s -> DOMAIN s]
    /\ \A i, j \in DOMAIN s : i < j =>
          order[i] # order[j] /\ ~ Before(s[order[j]], s[order[i]])

LEMMA BeforeOrders ==
    /\ \A x \in Int \X Int : ~ Before(x, x)
    /\ \A x, y \in Int \X Int : x # y => Before(x, y) \/ Before(y, x)
    /\ \A x, y, z \in Int \X Int :
          /\ Before(x, y) /\ Before(y, z) => Before(x, z)
          /\ Before(x, y) /\ ~ Before(z, y) => ~ Before(z, x)
<1>1. ASSUME NEW x \in Int \X Int, NEW y \in Int \X Int, x # y
      PROVE  Before(x, y) \/ Before(y, x)
  <2>1. /\ x[1] \in Int /\ x[2] \in Int /\ y[1] \in Int /\ y[2] \in Int
        /\ x = <<x[1], x[2]>> /\ y = <<y[1], y[2]>>
    OBVIOUS
  <2>2. x[1] # y[1] \/ x[2] # y[2]
    BY <2>1, <1>1
  <2> QED BY <2>1, <2>2 DEF Before
<1>2. ASSUME NEW x \in Int \X Int, NEW y \in Int \X Int, NEW z \in Int \X Int
      PROVE  /\ Before(x, y) /\ Before(y, z) => Before(x, z)
             /\ Before(x, y) /\ ~ Before(z, y) => ~ Before(z, x)
  <2>1. /\ x[1] \in Int /\ x[2] \in Int /\ y[1] \in Int /\ y[2] \in Int
        /\ z[1] \in Int /\ z[2] \in Int
    OBVIOUS
  <2> QED BY <2>1 DEF Before
<1>3. \A x \in Int \X Int : ~ Before(x, x)
  BY DEF Before
<1> QED BY <1>1, <1>2, <1>3

LEMMA SortExists ==
    ASSUME NEW s \in Seq(Int \X Int)
    PROVE  \E order : Sorts(order, s)
<1> DEFINE B == {r \in Seq(Int \X Int) : ~ \E order : Sorts(order, r)}
<1> SUFFICES ASSUME B # {} PROVE FALSE
  OBVIOUS
<1>1. PICK p \in B : \A q \in B : Len(p) <= Len(q)
  BY Shortest, Zenon
<1>2. p # <<>>
  <2> SUFFICES ASSUME p = <<>> PROVE FALSE
    OBVIOUS
  <2>1. Sorts([i \in {} |-> i], <<>>)
    BY DEF Sorts
  <2> QED BY <2>1
<1>3. PICK r \in Seq(Int \X Int), x \in Int \X Int : p = Append(r, x) /\ Len(p) = Len(r) + 1
  BY <1>2, Unappend
<1>4. PICK o : Sorts(o, r)
  <2>1. Len(r) \in Nat /\ ~ (Len(p) <= Len(r))
    BY <1>3
  <2> QED BY <2>1, <1>1
<1> DEFINE m == Len(r)
           n == m + 1
           Late == {i \in 1 .. n : i = n \/ Before(x, r[o[i]])}
<1>5. PICK k \in Late : \A i \in Late : k <= i
  <2>1. Late \subseteq Nat /\ n \in Late
    BY <1>3
  <2> HIDE DEF Late
  <2> QED BY <2>1, LeastNumber
<1>6. /\ m \in Nat /\ n = m + 1 /\ n \in Nat
      /\ DOMAIN p = 1 .. n /\ DOMAIN r = 1 .. m /\ p[n] = x
  BY <1>3, AppendFacts
<1>7. /\ \A i \in 1 .. m : o[i] \in 1 .. m
      /\ \A i, j \in 1 .. m : i < j => o[i] # o[j] /\ ~ Before(r[o[j]], r[o[i]])
  BY <1>4, <1>6 DEF Sorts
<1>8. \A i \in 1 .. n : i \notin Late => i # n /\ ~ Before(x, r[o[i]])
  OBVIOUS
<1>9. k \in 1 .. n /\ (k # n => Before(x, r[o[k]]))
  BY <1>5
<1>10. \A i \in 1 .. m : /\ o[i] \in 1 .. m /\ o[i] # n
                         /\ p[o[i]] = r[o[i]] /\ r[o[i]] \in Int \X Int
  <2>1. \A i \in 1 .. m : p[i] = r[i] /\ r[i] \in Int \X Int
    BY <1>3, AppendFacts
  <2> HIDE DEF m, n
  <2>2. \A i \in 1 .. m : i # n
    BY <1>6
  <2> QED BY <2>1, <2>2, <1>7
<1> HIDE DEF Late, m, n
<1>11. k \in Nat /\ m \in Nat /\ n \in Nat /\ n = m + 1 /\ k <= n /\ 1 <= k
  BY <1>6, <1>9
<1>12. \A i \in 1 .. n : i < k => i \in 1 .. m /\ ~ Before(x, r[o[i]])
  <2> SUFFICES ASSUME NEW i \in 1 .. n, i < k
               PROVE  i \in 1 .. m /\ ~ Before(x, r[o[i]])
    OBVIOUS
  <2>1. ~ (k <= i) /\ i \in 1 .. m
    BY <1>11
  <2> QED BY <2>1, <1>5, <1>8
<1>13. \A j \in 1 .. m : k <= j => ~ Before(r[o[j]], x)
  <2> SUFFICES ASSUME NEW j \in 1 .. m, k <= j PROVE ~ Before(r[o[j]], x)
    OBVIOUS
  <2>1. k \in 1 .. m /\ k # n
    BY <1>11
  <2>2. ~ Before(r[o[j]], r[o[k]])
    <3>1. CASE j = k
      BY <3>1, <2>1, <1>10, BeforeOrders
    <3>2. CASE j # k
      <4>1. k < j
        BY <3>2, <2>1, <1>11
      <4> QED BY <4>1, <2>1, <1>7
    <3> QED BY <3>1, <3>2
  <2>3. r[o[j]] \in Int \X Int /\ r[o[k]] \in Int \X Int
    BY <2>1, <1>10
  <2> QED BY <2>1, <2>2, <2>3, <1>9, BeforeOrders
<1> DEFINE new == [i \in 1 .. n |-> IF i < k THEN o[i] ELSE IF i = k THEN n ELSE o[i - 1]]
<1>14. /\ \A i \in 1 .. n : i < k => /\ new[i] = o[i] /\ new[i] \in 1 .. m /\ new[i] # n
                                     /\ p[new[i]] = r[o[i]]
       /\ new[k] = n /\ p[new[k]] = x
       /\ \A i \in 1 .. n : k < i => /\ i - 1 \in 1 .. m /\ k <= i - 1
                                     /\ new[i] = o[i - 1] /\ new[i] \in 1 .. m /\ new[i] # n
                                     /\ p[new[i]] = r[o[i - 1]]
  <2>1. ASSUME NEW i \in 1 .. n, i < k
        PROVE  /\ new[i] = o[i] /\ new[i] \in 1 .. m /\ new[i] # n /\ p[new[i]] = r[o[i]]
    <3>1. i \in 1 .. m /\ new[i] = o[i]
      BY <2>1, <1>12
    <3> HIDE DEF new
    <3> QED BY <3>1, <1>10
  <2>2. new[k] = n /\ p[new[k]] = x
    BY <1>6, <1>9
  <2>3. ASSUME NEW i \in 1 .. n, k < i
        PROVE  /\ i - 1 \in 1 .. m /\ k <= i - 1
               /\ new[i] = o[i - 1] /\ new[i] \in 1 .. m /\ new[i] # n
               /\ p[new[i]] = r[o[i - 1]]
    <3>1. i - 1 \in 1 .. m /\ k <= i - 1 /\ new[i] = o[i - 1]
      BY <2>3, <1>11
    <3> HIDE DEF new
    <3> QED BY <3>1, <1>10
  <2> QED BY <2>1, <2>2, <2>3
<1>15. new \in [1 .. n -> 1 .. n]
  <2>1. \A i \in 1 .. n : i < k \/ i = k \/ k < i
    BY <1>11
  <2>2. n \in 1 .. n /\ \A i \in 1 .. m : i \in 1 .. n
    BY <1>11
  <2>3. \A i \in 1 .. n : new[i] \in 1 .. n
    <3> HIDE DEF new
    <3> QED BY <2>1, <2>2, <1>14
  <2> QED BY <2>3
<1> HIDE DEF new
<1>16. \A i, j \in 1 .. n : i < j => new[i] # new[j] /\ ~ Before(p[new[j]], p[new[i]])
  <2> SUFFICES ASSUME NEW i \in 1 .. n, NEW j \in 1 .. n, i < j
               PROVE  new[i] # new[j] /\ ~ Before(p[new[j]], p[new[i]])
    OBVIOUS
  <2>1. CASE j < k
    <3>1. i < k /\ i \in 1 .. m /\ j \in 1 .. m
      BY <2>1, <1>11
    <3> QED BY <3>1, <2>1, <1>7, <1>14
  <2>2. CASE j = k
    BY <2>2, <1>12, <1>14
  <2>3. CASE i = k
    BY <2>3, <1>13, <1>14
  <2>4. CASE k < i
    <3>1. i - 1 < j - 1 /\ k < j
      BY <2>4, <1>11
    <3>2. /\ i - 1 \in 1 .. m /\ new[i] = o[i - 1] /\ p[new[i]] = r[o[i - 1]]
          /\ j - 1 \in 1 .. m /\ new[j] = o[j - 1] /\ p[new[j]] = r[o[j - 1]]
      BY <3>1, <2>4, <1>14
    <3>3. o[i - 1] # o[j - 1] /\ ~ Before(r[o[j - 1]], r[o[i - 1]])
      BY <3>1, <3>2, <1>7
    <3> QED BY <3>2, <3>3
  <2>5. CASE i < k /\ k < j
    <3>1. i < j - 1 /\ i \in 1 .. m /\ j - 1 \in 1 .. m
      BY <2>5, <1>11
    <3> QED BY <3>1, <2>5, <1>7, <1>14
  <2> QED BY <2>1, <2>2, <2>3, <2>4, <2>5, <1>11
<1>17. Sorts(new, p)
  BY <1>6, <1>15, <1>16 DEF Sorts
<1> QED BY <1>17

LEMMA OrderSorts ==
    ASSUME NEW s \in Seq(Int \X Int)
    PROVE  Sorts(SortOrder(s), s)
<1>1. PICK order : Sorts(order, s)
  BY SortExists
<1>2. \E o \in [DOMAIN s -> DOMAIN s] : \A i, j \in DOMAIN s : i < j =>
          o[i] # o[j] /\ ~ Before(s[o[j]], s[o[i]])
  BY <1>1 DEF Sorts
<1> QED BY <1>2 DEF SortOrder, Sorts

\* The answer has the spellings of the best results, at most as many as asked for.
LEMMA BestIs ==
    ASSUME NEW s \in Seq(Int \X Int), NEW limit \in Nat
    PROVE  LET n == IF limit < Len(s) THEN limit ELSE Len(s)
           IN  /\ Len(Best(s, limit)) = n /\ n \in 0 .. Len(s) /\ n <= limit
               /\ DOMAIN Best(s, limit) = 1 .. n
               /\ \A i \in 1 .. n : SortOrder(s)[i] \in 1 .. Len(s)
                                    /\ Best(s, limit)[i] = s[SortOrder(s)[i]][2]
               /\ \A V : (\A i \in 1 .. Len(s) : s[i][2] \in V) => Best(s, limit) \in Seq(V)
<1> DEFINE n == IF limit < Len(s) THEN limit ELSE Len(s)
           order == SortOrder(s)
           b == [i \in 1 .. n |-> s[order[i]][2]]
<1>1. Best(s, limit) = b
  BY DEF Best
<1>2. n \in Nat /\ n \in 0 .. Len(s) /\ n <= limit /\ DOMAIN s = 1 .. Len(s)
  OBVIOUS
<1>3. \A i \in 1 .. n : order[i] \in 1 .. Len(s)
  BY <1>2, OrderSorts DEF Sorts
<1> HIDE DEF n, order
<1>4. DOMAIN b = 1 .. n /\ Len(b) = n /\ \A i \in 1 .. n : b[i] = s[order[i]][2]
  BY <1>2
<1>5. ASSUME NEW V, \A i \in 1 .. Len(s) : s[i][2] \in V PROVE b \in Seq(V)
  BY <1>2, <1>3, <1>5
<1> QED BY <1>1, <1>2, <1>3, <1>4, <1>5 DEF n, order

-----------------------------------------------------------------------------
(***************************************************************************)
(* The reads change nothing that the writers rely on.                      *)
(***************************************************************************)
LEMMA ReaderKeeps ==
    ASSUME TypeInv, WriterInv, NEW t \in Threads, job[t] \in {Idle} \cup Walking \cup Finished,
           NEW j \in {Idle} \cup Walking \cup Finished, job' = [job EXCEPT ![t] = j],
           UNCHANGED <<heap, size, lock, words>>, DOMAIN seen' = Threads
    PROVE  TypeInv' /\ WriterInv'
<1>1. job' \in [Threads -> Jobs] /\ job'[t] = j /\ \A u \in Threads : u # t => job'[u] = job[u]
  BY DEF TypeInv, Jobs
<1>2. ~ (j.op \in {"insert", "delete"}) /\ ~ (job[t].op \in {"insert", "delete"})
  BY DEF Idle, Walking, Walks, Finished, Reads
<1>3. \A u \in Threads : lock' = u <=> job'[u].op \in {"insert", "delete"}
  BY <1>1, <1>2 DEF TypeInv
<1>4. HeapOK(heap') /\ lock' \in Threads \cup {None}
  BY DEF TypeInv
<1>5. TypeInv'
  BY <1>1, <1>3, <1>4, SameWords
<1>6. lock # t
  BY <1>2 DEF TypeInv
<1>7. Busy' = Busy
  BY <1>1, <1>6 DEF Busy, TypeInv
<1> QED BY <1>5, <1>7 DEF WriterInv

\* The arguments and the variables of a read.
LEMMA WalkingIs ==
    ASSUME NEW j \in Walking
    PROVE  /\ j.op \in Reads /\ j.key \in Paths /\ j.key \in Seq(Chars) /\ j.limit \in Nat
           /\ j.depth \in Nat /\ j.node \in Nodes /\ j.queue \in Seq(Nodes)
           /\ j.children \in ChildMaps /\ j.taken \in SUBSET Chars
           /\ j.weight \in Weights \cup {0} /\ j.results \in Seq(Suggested)
           /\ j.skipped \in BOOLEAN /\ (j.pc = "visit" => j.queue # <<>>)
  BY PathsAreTexts DEF Walking, Walks

LEMMA WeightsAreInt == Weights \cup {0} \subseteq Int
<1>1. ASSUME NEW w \in Weights PROVE w \in Int
  <2>1. PICK batch \in Batches : w \in {batch[i].weight : i \in DOMAIN batch}
    BY DEF Weights
  <2>2. batch \in Seq([text : Texts, weight : Int])
    BY TrieAssumption
  <2>3. PICK i \in DOMAIN batch : w = batch[i].weight
    BY <2>1
  <2>4. batch[i] \in [text : Texts, weight : Int]
    BY <2>2, <2>3, ElementOfSeq, LenProperties
  <2> QED BY <2>3, <2>4
<1> QED BY <1>1

LEMMA ResultsOK ==
    ASSUME NEW s \in Seq(Suggested)
    PROVE  /\ s \in Seq(Int \X Int)
           /\ \A i \in 1 .. Len(s) : s[i] \in Suggested /\ s[i][2] \in Texts \cup {EmptyText}
<1>1. Suggested \subseteq Int \X Int
  <2>1. Texts \cup {EmptyText} \subseteq Int
    BY TrieAssumption DEF EmptyText
  <2> QED BY <2>1, WeightsAreInt DEF Suggested
<1>2. \A i \in 1 .. Len(s) : s[i] \in Suggested
  BY ElementOfSeq
<1>3. s \in Seq(Int \X Int)
  BY <1>1, SeqMonotonic, Zenon
<1> QED BY <1>2, <1>3 DEF Suggested

LEMMA BestOK ==
    ASSUME NEW s \in Seq(Suggested), NEW limit \in Nat
    PROVE  Best(s, limit) \in Seq(Texts \cup {EmptyText})
  BY ResultsOK, BestIs

LEMMA AnswerOK ==
    ASSUME TypeInv, NEW t \in Threads, job[t] \in Walking,
           NEW a \in BOOLEAN \cup Seq(Texts \cup {EmptyText})
    PROVE  [pc |-> "done", op |-> job[t].op, key |-> job[t].key,
            limit |-> job[t].limit, node |-> Root, queue |-> <<>>,
            skipped |-> Skipped(t), answer |-> a] \in Finished
<1>1. Skipped(t) \in BOOLEAN
  BY WalkingIs DEF Skipped
<1> QED BY <1>1, RootOK, WalkingIs DEF Finished

\* Each step of a read puts the thread into another state of a read, or ends it.
LEMMA ReadTypes ==
    ASSUME TypeInv, NEW t \in Threads, ReadStep(t)
    PROVE  /\ job[t] \in Walking
           /\ \E j \in {Idle} \cup Walking \cup Finished : job' = [job EXCEPT ![t] = j]
           /\ UNCHANGED <<heap, size, lock, words>>
           /\ seen' = seen \/ seen' = [seen EXCEPT ![t] = NoWatch]
<1> DEFINE j == job[t]
           Ends == \E k \in {Idle} \cup Walking \cup Finished : job' = [job EXCEPT ![t] = k]
<1>1. j \in Walking
  <2>1. j.pc \in {"look", "follow", "found", "visit", "read_weight", "read_value",
                  "children", "next"}
    BY DEF ReadStep, Look, Follow, Found, Visit, ReadWeight, ReadValue, Iterate, NextChild
  <2> QED BY <2>1, JobKinds
<1>2. /\ j.op \in Reads /\ j.key \in Paths /\ j.limit \in Nat
      /\ j.depth \in Nat /\ j.node \in Nodes /\ j.queue \in Seq(Nodes)
      /\ j.children \in ChildMaps /\ j.taken \in SUBSET Chars
      /\ j.weight \in Weights \cup {0} /\ j.results \in Seq(Suggested)
      /\ j.skipped \in BOOLEAN
  BY <1>1, WalkingIs
<1>3. /\ j \in Walks
      /\ \A m \in Nodes : /\ heap[m].children \in ChildMaps /\ heap[m].is_end \in BOOLEAN
                          /\ heap[m].weight \in Weights \cup {0}
                          /\ heap[m].value \in Texts \cup {EmptyText}
  BY <1>1 DEF Walking, TypeInv, HeapOK, TrieNode
<1>4. Skipped(t) \in BOOLEAN
  BY <1>2 DEF Skipped
<1>5. ASSUME NEW a \in BOOLEAN \cup Seq(Texts \cup {EmptyText}), Answer(t, a) PROVE Ends
  BY <1>1, <1>5, AnswerOK DEF Answer
<1>6. ASSUME Raise(t) PROVE Ends /\ seen' = [seen EXCEPT ![t] = NoWatch]
  BY <1>6 DEF Raise
<1>7. CASE Look(t)
  <2>1. CASE Answer(t, IF job[t].op = "autocomplete" THEN <<>> ELSE FALSE)
    <3>1. (IF job[t].op = "autocomplete" THEN <<>> ELSE FALSE)
             \in BOOLEAN \cup Seq(Texts \cup {EmptyText})
      OBVIOUS
    <3> QED BY <2>1, <3>1, <1>1, <1>5, <1>7 DEF Look
  <2>2. CASE job' = [job EXCEPT ![t].pc = "follow"]
    <3>1. [j EXCEPT !.pc = "follow"] \in Walking
      BY <1>3 DEF Walking, Walks
    <3> QED BY <2>2, <3>1, <1>1, <1>7 DEF Look
  <2> QED BY <2>1, <2>2, <1>7 DEF Look
<1>8. CASE Follow(t)
  <2> DEFINE n == Child(job[t].node, NextChar(t))
             k == [j EXCEPT !.node = n, !.depth = job[t].depth + 1,
                            !.pc = IF job[t].depth + 1 = Len(job[t].key) THEN "found" ELSE "look"]
  <2>1. CASE Raise(t)
    BY <2>1, <1>1, <1>6, <1>8 DEF Follow
  <2>2. CASE n # None /\ job' = [job EXCEPT ![t].node = n, ![t].depth = job[t].depth + 1,
                   ![t].pc = IF job[t].depth + 1 = Len(job[t].key) THEN "found" ELSE "look"]
             /\ UNCHANGED seen
    <3>1. n \in Nodes
      BY <2>2, <1>2, ChildrenOK DEF Child, TypeInv
    <3>3. job' = [job EXCEPT ![t] = k]
      BY <2>2
    <3> HIDE DEF n
    <3> DEFINE pc == IF job[t].depth + 1 = Len(job[t].key) THEN "found" ELSE "look"
    <3>4. pc \in {"found", "look"} /\ job[t].depth + 1 \in Nat
      BY <1>2
    <3> HIDE DEF pc
    <3>2. [j EXCEPT !.node = n, !.depth = job[t].depth + 1, !.pc = pc] \in Walking
      BY <3>1, <3>4, <1>3 DEF Walking, Walks
    <3> USE DEF pc
    <3> HIDE DEF k
    <3> QED BY <2>2, <3>2, <3>3, <1>1, <1>8 DEF Follow, k
  <2> QED BY <2>1, <2>2, <1>8 DEF Follow
<1>9. CASE Found(t)
  <2>1. CASE Answer(t, heap[job[t].node].is_end)
    BY <2>1, <1>1, <1>2, <1>3, <1>5, <1>9 DEF Found
  <2>2. CASE Answer(t, TRUE)
    BY <2>2, <1>1, <1>5, <1>9 DEF Found
  <2>3. CASE job' = [job EXCEPT ![t].pc = "visit", ![t].queue = <<job[t].node>>,
                                ![t].node = Root, ![t].depth = 0]
    <3>1. [j EXCEPT !.pc = "visit", !.queue = <<job[t].node>>, !.node = Root, !.depth = 0]
             \in Walking
      <4> DEFINE first == <<job[t].node>>
      <4>1. first \in Seq(Nodes) /\ first # <<>>
        BY <1>2
      <4> HIDE DEF first
      <4>2. [j EXCEPT !.pc = "visit", !.queue = first, !.node = Root, !.depth = 0] \in Walking
        BY <4>1, <1>3, RootOK DEF Walking, Walks
      <4> QED BY <4>2 DEF first
    <3> QED BY <2>3, <3>1, <1>1, <1>9 DEF Found
  <2> QED BY <2>1, <2>2, <2>3, <1>9 DEF Found
<1>10. CASE Visit(t)
  <2>1. j.queue # <<>>
    BY <1>1, <1>10, WalkingIs DEF Visit
  <2>2. Head(j.queue) \in Nodes /\ Tail(j.queue) \in Seq(Nodes)
    BY <2>1, <1>2
  <2>3. [j EXCEPT !.node = Head(j.queue), !.queue = Tail(j.queue),
                  !.pc = IF heap[Head(job[t].queue)].is_end THEN "read_weight"
                                                            ELSE "children"] \in Walking
    BY <2>2, <1>3 DEF Walking, Walks
  <2> QED BY <2>3, <1>1, <1>10 DEF Visit
<1>11. CASE ReadWeight(t)
  <2>1. [j EXCEPT !.weight = heap[job[t].node].weight, !.pc = "read_value"] \in Walking
    BY <1>2, <1>3 DEF Walking, Walks
  <2> QED BY <2>1, <1>1, <1>11 DEF ReadWeight
<1>12. CASE ReadValue(t)
  <2> DEFINE more == Append(j.results, <<job[t].weight, heap[job[t].node].value>>)
  <2>1. more \in Seq(Suggested)
    BY <1>2, <1>3 DEF Suggested
  <2> HIDE DEF more
  <2>2. [j EXCEPT !.results = more, !.weight = 0, !.pc = "children"] \in Walking
    BY <2>1, <1>3 DEF Walking, Walks
  <2> QED BY <2>2, <1>1, <1>12 DEF ReadValue, more
<1>13. CASE Iterate(t)
  <2>1. [j EXCEPT !.children = heap[job[t].node].children, !.taken = {}, !.pc = "next"]
           \in Walking
    BY <1>2, <1>3 DEF Walking, Walks
  <2> QED BY <2>1, <1>1, <1>13 DEF Iterate
<1>14. CASE NextChild(t)
  <2>1. CASE Raise(t)
    BY <2>1, <1>1, <1>6, <1>14 DEF NextChild
  <2>2. ASSUME TakeChild(t) PROVE Ends
    <3>1. PICK c \in DOMAIN Now(t) \ job[t].taken :
             job' = [job EXCEPT ![t].taken = @ \cup {c}, ![t].queue = Append(@, Now(t)[c]),
                                ![t].skipped = Skipped(t)]
      BY <2>2 DEF TakeChild
    <3>2. c \in Chars /\ Now(t)[c] \in Nodes
      BY <1>2, ChildrenOK DEF Now, TypeInv
    <3> DEFINE more == Append(j.queue, Now(t)[c])
    <3>3. more \in Seq(Nodes)
      BY <3>2, <1>2
    <3> HIDE DEF more
    <3>4. [j EXCEPT !.taken = @ \cup {c}, !.queue = more, !.skipped = Skipped(t)] \in Walking
      <4>1. job[t].pc = "next"
        BY <1>14 DEF NextChild
      <4> QED BY <4>1, <3>2, <3>3, <1>2, <1>3, <1>4 DEF Walking, Walks
    <3> QED BY <3>1, <3>4 DEF more
  <2>3. ASSUME EndIteration(t) PROVE Ends
    <3>1. CASE Answer(t, Best(job[t].results, job[t].limit))
      BY <3>1, <1>2, <1>5, BestOK
    <3>2. CASE job[t].queue # <<>> /\ job' = [job EXCEPT ![t].pc = "visit", ![t].skipped = Skipped(t)]
      <4>1. [j EXCEPT !.pc = "visit", !.skipped = Skipped(t)] \in Walking
        BY <3>2, <1>3, <1>4 DEF Walking, Walks
      <4> QED BY <3>2, <4>1
    <3> QED BY <2>3, <3>1, <3>2 DEF EndIteration
  <2> QED BY <2>1, <2>2, <2>3, <1>1, <1>14 DEF NextChild
<1> QED BY <1>7, <1>8, <1>9, <1>10, <1>11, <1>12, <1>13, <1>14 DEF ReadStep

LEMMA CallTypes ==
    ASSUME TypeInv, NEW t \in Threads, Call(t)
    PROVE  \E op \in Reads, x \in Texts, limit \in Nat : Read(t, op, x, limit)
<1>1. CASE \E x \in Texts, op \in {"search", "starts_with"} : Read(t, op, x, 0)
  BY <1>1 DEF Reads
<1>2. CASE \E x \in Texts, limit \in Limits : Read(t, "autocomplete", x, limit)
  BY <1>2, TrieAssumption DEF Reads
<1> QED BY <1>1, <1>2 DEF Call

LEMMA ReadStarts ==
    ASSUME TypeInv, NEW t \in Threads, NEW op \in Reads, NEW x \in Texts, NEW limit \in Nat
    PROVE  [pc |-> IF Key[x] # <<>> THEN "look" ELSE "found",
            op |-> op, key |-> Key[x], limit |-> limit,
            depth |-> 0, node |-> Root, queue |-> <<>>,
            children |-> NewNode.children, taken |-> {},
            weight |-> 0, results |-> <<>>, skipped |-> FALSE] \in Walking
<1>1. NewNode.children \in ChildMaps /\ Key[x] \in Paths
  BY NewNodeOK, PathsAreTexts DEF TrieNode
<1> QED BY <1>1, RootOK DEF Walking, Walks

-----------------------------------------------------------------------------
LEMMA WritersInv == Spec => [](TypeInv /\ WriterInv)
<1>1. Init => TypeInv /\ WriterInv
  <2> SUFFICES ASSUME Init PROVE TypeInv /\ WriterInv
    OBVIOUS
  <2>1. heap = [n \in Nodes |-> NewNode] /\ HeapOK(heap)
    BY NewNodeOK DEF Init, HeapOK
  <2>2. DOMAIN words = {} /\ size = 0 /\ lock = None
    BY DEF Init
  <2>3. TypeInv
    BY <2>1, <2>2, FS_EmptySet, TrieAssumption DEF Init, TypeInv, Jobs, Idle
  <2>4. Busy = Idle /\ Idle.pc = "idle"
    BY <2>2 DEF Busy, Idle
  <2>5. Blank(heap) /\ Spelled(heap, Busy)
    BY <2>1, NewNodeOK DEF Blank, Spelled
  <2>6. \A p \in Paths : p # <<>> => AtIn(heap, p) = None
    <3> SUFFICES ASSUME NEW p \in Paths, p # <<>>, AtIn(heap, p) # None PROVE FALSE
      OBVIOUS
    <3>1. p \in Seq(Chars) /\ <<>> \in Seq(Chars) /\ IsPrefix(<<>>, p)
      BY PathsAreTexts, PrefixOrder
    <3>2. p[Len(<<>>) + 1] \in DOMAIN heap[AtIn(heap, <<>>)].children
      BY <3>1, AtChild
    <3> QED BY <3>2, <2>1, AtRoot, RootOK, NewNodeOK
  <2>7. Marked(heap, words)
    BY <2>1, <2>2, Places, <2>3, NewNodeOK DEF Marked
  <2>8. Branching(heap, words, Busy) /\ Stored(heap, words, Busy)
    BY <2>2, <2>6 DEF Branching, Stored
  <2>9. Counted(size, words, Busy) /\ Doing(heap, words, Busy)
    BY <2>2, <2>4, FS_EmptySet DEF Counted, Doing, DeleteSteps
  <2> QED BY <2>3, <2>5, <2>7, <2>8, <2>9 DEF WriterInv
<1>2. TypeInv /\ WriterInv /\ [Next]_vars => TypeInv' /\ WriterInv'
  <2> SUFFICES ASSUME TypeInv, WriterInv, [Next]_vars PROVE TypeInv' /\ WriterInv'
    OBVIOUS
  <2>1. CASE UNCHANGED vars
    BY <2>1 DEF vars, TypeInv, WriterInv, Busy
  <2>2. ASSUME NEW t \in Threads, Return(t) PROVE TypeInv' /\ WriterInv'
    <3>1. job[t] \in Finished
      BY <2>2, JobKinds DEF Return
    <3>2. /\ job' = [job EXCEPT ![t] = Idle] /\ DOMAIN seen' = Threads
          /\ UNCHANGED <<heap, size, lock, words>>
      BY <2>2 DEF Return, TypeInv
    <3> QED BY <3>1, <3>2, ReaderKeeps
  <2>3. ASSUME NEW t \in Threads, Write(t) PROVE TypeInv' /\ WriterInv'
    BY <2>3, InsertStep, LinkStep, MarkStep, WeighStep, NameStep, DeleteStep, UnmarkStep,
       UnnameStep, UnweighStep, PruneStep, EndDeleteStep DEF Write
  <2>4. ASSUME NEW t \in Threads, Call(t) PROVE TypeInv' /\ WriterInv'
    <3>1. PICK op \in Reads, x \in Texts, limit \in Nat : Read(t, op, x, limit)
      BY <2>4, CallTypes
    <3>2. job[t] = Idle
      BY <3>1, JobKinds DEF Read, Ready
    <3>3. DOMAIN seen' = Threads /\ UNCHANGED <<heap, size, lock, words>>
      BY <3>1 DEF Read, TypeInv
    <3>4. \E j \in Walking : job' = [job EXCEPT ![t] = j]
      BY <3>1, ReadStarts DEF Read
    <3> QED BY <3>2, <3>3, <3>4, ReaderKeeps
  <2>5. ASSUME NEW t \in Threads, ReadStep(t) PROVE TypeInv' /\ WriterInv'
    <3>1. /\ job[t] \in Walking
          /\ \E j \in {Idle} \cup Walking \cup Finished : job' = [job EXCEPT ![t] = j]
          /\ UNCHANGED <<heap, size, lock, words>>
          /\ seen' = seen \/ seen' = [seen EXCEPT ![t] = NoWatch]
      BY <2>5, ReadTypes
    <3>2. DOMAIN seen' = Threads
      BY <3>1 DEF TypeInv
    <3> QED BY <3>1, <3>2, ReaderKeeps
  <2> QED BY <2>1, <2>2, <2>3, <2>4, <2>5 DEF Next
<1> QED BY <1>1, <1>2, PTL DEF Spec

\* The nodes are used as trie.py uses them (lines 41, 45 and 89): the lock is held
\* exactly while insert(), bulk_insert() or delete() runs, a child is never the root,
\* and no node is reached by two paths.
THEOREM TypeCorrect == Spec => []TypeOK
<1>1. TypeInv /\ WriterInv => TypeOK
  <2> SUFFICES ASSUME TypeInv, WriterInv PROVE TypeOK
    OBVIOUS
  <2>1. size \in Nat
    <3>1. Cardinality(DOMAIN words) \in Nat
      BY FS_CardinalityType DEF TypeInv
    <3> QED BY <3>1 DEF WriterInv, Counted
  <2>2. ASSUME NEW n \in Nodes
        PROVE  /\ DOMAIN heap[n].children \subseteq Chars
               /\ \A c \in DOMAIN heap[n].children : heap[n].children[c] \in Nodes \ {Root}
               /\ heap[n].is_end \in BOOLEAN
               /\ heap[n].weight \in Weights \cup {0}
               /\ heap[n].value \in Texts \cup {EmptyText}
    <3>1. heap[n] \in TrieNode
      BY DEF TypeInv, HeapOK
    <3>2. ASSUME NEW c \in DOMAIN heap[n].children
          PROVE  c \in Chars /\ heap[n].children[c] \in Nodes \ {Root}
      <4>1. c \in Chars /\ heap[n].children[c] \in Nodes
            /\ heap[n].children[c][1] = Append(n[1], c)
        BY ChildrenOK DEF TypeInv
      <4>2. Append(n[1], c) # <<>>
        <5>1. n[1] \in Seq(Chars)
          BY NodeFacts
        <5> DEFINE s == Append(n[1], c)
        <5>2. s \in Seq(Chars) /\ Len(s) = Len(n[1]) + 1 /\ Len(n[1]) \in Nat
          BY <5>1, <4>1, AppendFacts
        <5> HIDE DEF s
        <5>3. s # <<>>
          BY <5>2
        <5> QED BY <5>3 DEF s
      <4> QED BY <4>1, <4>2 DEF Root
    <3> QED BY <3>1, <3>2 DEF TrieNode
  <2>3. \A p, q \in Tree : At(p) = At(q) => p = q
    BY Places, AtIs DEF Tree
  <2> QED BY <2>1, <2>2, <2>3 DEF TypeOK, TypeInv
<1> QED BY <1>1, WritersInv, PTL

LEMMA InvWellFormed ==
    ASSUME TypeInv, WriterInv
    PROVE  WellFormed
<1>1. Tree = {p \in Paths : AtIn(heap, p) # None}
  BY AtIs DEF Tree
<1>2. Represents = DOMAIN words
  <2>1. \A p \in Tree : heap[AtIn(heap, p)].is_end \in BOOLEAN
    BY <1>1, Places DEF TypeInv, HeapOK, TrieNode
  <2>2. \A p : p \in Represents <=> p \in Tree /\ heap[AtIn(heap, p)].is_end = TRUE
    BY <2>1, AtIs DEF Represents
  <2>3. \A p : p \in DOMAIN words <=> p \in Tree /\ heap[AtIn(heap, p)].is_end = TRUE
    BY <1>1 DEF WriterInv, Marked, TypeInv
  <2> QED BY <2>2, <2>3
<1>3. ASSUME lock = None
      PROVE  /\ \A p \in DOMAIN words : InMemory(p) = words[p]
             /\ \A p \in Tree : p # <<>> => \E q \in DOMAIN words : IsPrefix(p, q)
             /\ size = Cardinality(DOMAIN words)
  <2>1. Busy = Idle /\ Idle.pc = "idle"
    BY <1>3 DEF Busy, Idle
  <2>2. ASSUME NEW p \in DOMAIN words PROVE InMemory(p) = words[p]
    <3>1. heap[AtIn(heap, p)].weight = words[p][1] /\ heap[AtIn(heap, p)].value = words[p][2]
      BY <2>1 DEF WriterInv, Stored
    <3>2. words[p] \in Weights \X Texts
      BY DEF TypeInv
    <3> QED BY <3>1, <3>2, AtIs DEF InMemory
  <2>3. \A p \in Tree : p # <<>> => \E q \in DOMAIN words : IsPrefix(p, q)
    BY <1>1, <2>1 DEF WriterInv, Branching, Ending
  <2>4. size = Cardinality(DOMAIN words)
    <3>1. Cardinality(DOMAIN words) \in Nat
      BY FS_CardinalityType DEF TypeInv
    <3> QED BY <2>1, <3>1 DEF WriterInv, Counted
  <2> QED BY <2>2, <2>3, <2>4
<1> QED BY <1>2, <1>3 DEF WellFormed

\* At any time the nodes marked as words are the words inserted and not deleted;
\* while nobody holds the lock they have the weight and the spelling inserted last,
\* every branch ends in a word, and _size counts the words (trie.py:41-51, 113-130).
THEOREM TrieWellFormed == Spec => []WellFormed
  BY InvWellFormed, WritersInv, PTL

-----------------------------------------------------------------------------
(***************************************************************************)
(* What holds of a read between its steps.  Again the state is given by    *)
(* arguments: the heap h, the words w, the job j of the thread and what    *)
(* was seen, s.  First what holds whatever the writers do.                 *)
(***************************************************************************)
Finding == {"look", "follow", "found"}

Reporting == {"read_weight", "read_value"}

AtOneNode == Reporting \cup {"children", "next"}

Collecting == AtOneNode \cup {"visit"}

Kept(w, j, s) == \A k \in s.kept : k \in DOMAIN w /\ IsPrefix(j.key, k)

\* What the read may come across has been met: the words, and the spelling of any
\* node that is marked or that the read has found marked.
Meets(h, w, j, s) ==
    /\ \A k \in DOMAIN w : IsPrefix(j.key, k) => \E e \in s.met : e[1] = k
    /\ \A n \in Nodes :
          /\ IsPrefix(j.key, n[1]) /\ h[n].value # EmptyText
          /\ h[n].is_end = TRUE \/ (j.node = n /\ j.pc \in Reporting)
          => <<n[1], h[n].value>> \in s.met

Position(j) ==
    /\ j.pc \in Finding => /\ j.node[1] = Prefix(j.key, j.depth)
                           /\ j.queue = <<>> /\ j.results = <<>>
    /\ j.pc \in {"look", "follow"} => j.depth < Len(j.key)
    /\ j.pc = "found" => j.depth = Len(j.key)
    /\ j.pc \in Collecting =>
          /\ j.op = "autocomplete"
          /\ \A i \in 1 .. Len(j.queue) : IsPrefix(j.key, j.queue[i][1])
    /\ j.pc \in AtOneNode => IsPrefix(j.key, j.node[1])

\* A node that the read holds is in the tree as long as it leads to a kept word.
Alive(h, j, s) ==
    \A k \in s.kept :
        /\ IsPrefix(j.node[1], k) => AtIn(h, j.node[1]) = j.node
        /\ \A i \in 1 .. Len(j.queue) :
              IsPrefix(j.queue[i][1], k) => AtIn(h, j.queue[i][1]) = j.queue[i]

Real(j, s) ==
    \A i \in 1 .. Len(j.results) :
        j.results[i][2] = EmptyText \/ \E e \in s.met : e[2] = j.results[i][2]

Reported(j, k) ==
    \E i \in 1 .. Len(j.results) : j.results[i][2] = EmptyText \/ Key[j.results[i][2]] = k

Ahead(j, k) ==
    \/ \E i \in 1 .. Len(j.queue) : IsPrefix(j.queue[i][1], k)
    \/ /\ j.pc \in AtOneNode /\ IsPrefix(j.node[1], k)
       /\ j.pc \in {"children", "next"} => j.node[1] # k
       /\ j.pc = "next" => k[Len(j.node[1]) + 1] \notin j.taken

\* An iteration that went over a changing dictionary may have lost words, no other.
Covered(j, s) ==
    j.pc \in Collecting /\ j.skipped = FALSE =>
        \A k \in s.kept : Reported(j, k) \/ Ahead(j, k)

ReadInv(h, w, j, s) ==
    /\ Kept(w, j, s) /\ Meets(h, w, j, s) /\ Position(j)
    /\ Alive(h, j, s) /\ Real(j, s) /\ Covered(j, s)

(***************************************************************************)
(* While no writer is at work, the read visits each node once.             *)
(***************************************************************************)
InTree(h, j) ==
    /\ AtIn(h, j.node[1]) = j.node
    /\ \A i \in 1 .. Len(j.queue) : AtIn(h, j.queue[i][1]) = j.queue[i]

Current(h, j) ==
    /\ j.pc \in Reporting => h[j.node].is_end = TRUE
    /\ j.pc = "read_value" => j.weight = h[j.node].weight
    /\ j.pc = "next" => h[j.node].children = j.children

\* The branches that are still to be visited are disjoint ...
Apart(j) ==
    /\ \A i, m \in 1 .. Len(j.queue) : IsPrefix(j.queue[i][1], j.queue[m][1]) => i = m
    /\ j.pc \in AtOneNode =>
          \A i \in 1 .. Len(j.queue) :
              /\ ~ IsPrefix(j.queue[i][1], j.node[1])
              /\ IsPrefix(j.node[1], j.queue[i][1]) =>
                    j.pc = "next" /\ j.queue[i][1][Len(j.node[1]) + 1] \in j.taken

\* ... and no reported word is in one of them.
Behind(j) ==
    \A r \in 1 .. Len(j.results) :
        /\ \A i \in 1 .. Len(j.queue) : ~ IsPrefix(j.queue[i][1], Key[j.results[r][2]])
        /\ j.pc \in Reporting => ~ IsPrefix(j.node[1], Key[j.results[r][2]])
        /\ j.pc \in {"children", "next"} /\ IsPrefix(j.node[1], Key[j.results[r][2]]) =>
              Key[j.results[r][2]] = j.node[1]

Exact(w, j, s) ==
    /\ \A r \in 1 .. Len(j.results) : \E k \in s.kept : j.results[r] = w[k]
    /\ \A r, q \in 1 .. Len(j.results) : j.results[r] = j.results[q] => r = q

QuietInv(h, w, j, s) ==
    /\ s.kept = {k \in DOMAIN w : IsPrefix(j.key, k)} /\ j.skipped = FALSE
    /\ InTree(h, j) /\ Current(h, j) /\ Apart(j) /\ Behind(j) /\ Exact(w, j, s)

ReaderInv ==
    /\ \A t \in Threads : job[t] \in Walking =>
          /\ ReadInv(heap, words, job[t], seen[t])
          /\ seen[t].quiet = TRUE =>
                lock = None /\ QuietInv(heap, words, job[t], seen[t])
    /\ \A t \in Threads : seen[t].quiet \in BOOLEAN
    /\ ReadsAreRegular

-----------------------------------------------------------------------------
(***************************************************************************)
(* What a step of a writer can do to the reads that are running.           *)
(***************************************************************************)
Harmless ==
    /\ \A p \in Paths : \A k \in DOMAIN words \cap DOMAIN words' :
          IsPrefix(p, k) => AtIn(heap', p) = AtIn(heap, p)
    /\ \A n \in Nodes :
          /\ \/ heap'[n].value = heap[n].value \/ heap'[n].value = EmptyText
             \/ n[1] \in DOMAIN words' /\ heap'[n].value = words'[n[1]][2]
          /\ heap'[n].is_end = TRUE => heap[n].is_end = TRUE \/ heap'[n].value = EmptyText

LEMMA WriteHarmless ==
    ASSUME TypeInv, WriterInv, NEW t \in Threads, Write(t)
    PROVE  Harmless
<1>1. CASE heap' = heap
  BY <1>1 DEF Harmless
<1>2. CASE Link(t)
  <2>1. PICK q \in Paths, c \in Chars, new \in Nodes : Linked(q, c, new)
    BY <1>2, LinkFacts
  <2>2. \A p \in Paths : AtIn(heap', p) = IF p = new[1] THEN new ELSE AtIn(heap, p)
    BY <2>1, LinkedWalks
  <2>3. ASSUME NEW p \in Paths, NEW k \in DOMAIN words, IsPrefix(p, k)
        PROVE  AtIn(heap', p) = AtIn(heap, p)
    <3>1. k \in Paths /\ AtIn(heap, k) # None
      BY DEF TypeInv, WriterInv, Marked
    <3>2. AtIn(heap, p) # None
      BY <3>1, <2>3, PathsAreTexts, AtParents
    <3>3. AtIn(heap, new[1]) = None
      BY <2>1 DEF Linked
    <3> QED BY <2>2, <3>2, <3>3
  <2>4. ASSUME NEW n \in Nodes
        PROVE  /\ heap'[n].value = heap[n].value \/ heap'[n].value = EmptyText
               /\ heap'[n].is_end = TRUE => heap[n].is_end = TRUE
    BY <2>1, NewNodeOK DEF Linked
  <2> QED BY <2>3, <2>4 DEF Harmless
<1>3. CASE Prune(t)
  <2>1. PICK q \in Paths, c \in Chars, dead \in Nodes : Unlinked(q, c, dead)
    BY <1>3, PruneFacts
  <2>2. \A p \in Paths : AtIn(heap', p) = IF p = dead[1] THEN None ELSE AtIn(heap, p)
    BY <2>1, UnlinkedWalks
  <2>3. ASSUME NEW p \in Paths, NEW k \in DOMAIN words, IsPrefix(p, k)
        PROVE  AtIn(heap', p) = AtIn(heap, p)
    <3> SUFFICES ASSUME p = dead[1] PROVE FALSE
      BY <2>2
    <3>1. k \in Paths /\ AtIn(heap, k) # None /\ heap[AtIn(heap, k)].is_end = TRUE
      BY DEF TypeInv, WriterInv, Marked
    <3>2. AtIn(heap, p) = dead /\ heap[dead].is_end = FALSE /\ DOMAIN heap[dead].children = {}
      BY <2>1 DEF Unlinked
    <3>3. p # k
      BY <3>1, <3>2
    <3>4. k[Len(p) + 1] \in DOMAIN heap[AtIn(heap, p)].children
      BY <3>1, <3>3, <2>3, PathsAreTexts, AtChild
    <3> QED BY <3>2, <3>4
  <2>4. ASSUME NEW n \in Nodes
        PROVE  /\ heap'[n].value = heap[n].value
               /\ heap'[n].is_end = TRUE => heap[n].is_end = TRUE
    BY <2>1 DEF Unlinked
  <2> QED BY <2>3, <2>4 DEF Harmless
<1>4. ASSUME \A m \in Nodes : heap'[m].children = heap[m].children,
             \A n \in Nodes :
                /\ \/ heap'[n].value = heap[n].value \/ heap'[n].value = EmptyText
                   \/ n[1] \in DOMAIN words' /\ heap'[n].value = words'[n[1]][2]
                /\ heap'[n].is_end = TRUE => heap[n].is_end = TRUE \/ heap'[n].value = EmptyText
      PROVE  Harmless
  BY <1>4, SameWalks DEF Harmless
<1>5. CASE Mark(t)
  <2> DEFINE n == AtIn(heap, Entering(job[t]))
  <2>1. n \in Nodes /\ heap' = Set(n, "is_end", TRUE) /\ Busy.pc = "link"
    BY <1>5, MarkTypes
  <2> HIDE DEF n
  <2>2. /\ \A m \in Nodes : heap'[m].children = heap[m].children
                            /\ heap'[m].value = heap[m].value
                            /\ (m # n => heap'[m] = heap[m])
    BY <2>1, SetEnd DEF TypeInv
  <2>3. ASSUME NEW m \in Nodes
        PROVE  heap'[m].is_end = TRUE => heap[m].is_end = TRUE \/ heap'[m].value = EmptyText
    <3>1. heap[m].is_end \in BOOLEAN
      BY DEF TypeInv, HeapOK, TrieNode
    <3>2. heap[m].is_end = FALSE => heap[m].value = EmptyText
      BY <2>1 DEF WriterInv, Spelled
    <3> QED BY <3>1, <3>2, <2>2
  <2> QED BY <1>4, <2>2, <2>3
<1>6. CASE Weigh(t)
  <2>1. At(Word(t)) \in Nodes /\ Item(t).weight \in Weights
    <3>1. job[t] \in Inserting /\ At(Word(t)) \in Nodes
      BY <1>6, EnteredNode DEF Weigh
    <3> QED BY <3>1, EnteringOK DEF Item
  <2>2. \A m \in Nodes : heap'[m].children = heap[m].children
                         /\ heap'[m].is_end = heap[m].is_end
                         /\ heap'[m].value = heap[m].value
    BY <1>6, <2>1, SetWeight DEF TypeInv, Weigh
  <2> QED BY <1>4, <2>2
<1>7. CASE Name(t)
  <2>1. /\ At(Word(t)) \in Nodes /\ Item(t).text \in Texts
        /\ At(Word(t))[1] \in DOMAIN words /\ words[At(Word(t))[1]][2] = Item(t).text
    <3>1. job[t] \in Inserting /\ At(Word(t)) \in Nodes /\ At(Word(t))[1] \in DOMAIN words
          /\ words[At(Word(t))[1]] = <<Item(t).weight, Item(t).text>>
      BY <1>7, EnteredNode DEF Name
    <3>2. words[At(Word(t))[1]][2] = Item(t).text
      BY <3>1
    <3> QED BY <3>1, <3>2, EnteringOK DEF Item
  <2>2. /\ \A m \in Nodes : heap'[m].children = heap[m].children
                            /\ heap'[m].is_end = heap[m].is_end
                            /\ (m # At(Word(t)) => heap'[m] = heap[m])
        /\ heap'[At(Word(t))].value = Item(t).text
        /\ words' = words
    BY <1>7, <2>1, SetValue DEF TypeInv, Name
  <2> QED BY <1>4, <2>1, <2>2
<1>8. CASE Unmark(t) \/ Unname(t) \/ Unweigh(t)
  <2>1. Target(t) \in Nodes
    BY <1>8, DeletedNode DEF Unmark, Unname, Unweigh, DeleteSteps
  <2>2. CASE Unmark(t)
    <3>1. /\ \A m \in Nodes : heap'[m].children = heap[m].children
                              /\ heap'[m].value = heap[m].value
                              /\ (m # Target(t) => heap'[m] = heap[m])
          /\ heap'[Target(t)].is_end = FALSE
      BY <2>1, <2>2, SetEnd DEF TypeInv, Unmark
    <3> QED BY <1>4, <3>1
  <2>3. CASE Unname(t)
    <3>1. /\ \A m \in Nodes : heap'[m].children = heap[m].children
                              /\ heap'[m].is_end = heap[m].is_end
                              /\ (m # Target(t) => heap'[m] = heap[m])
          /\ heap'[Target(t)].value = EmptyText
      BY <2>1, <2>3, SetValue DEF TypeInv, Unname
    <3> QED BY <1>4, <3>1
  <2>4. CASE Unweigh(t)
    <3>1. \A m \in Nodes : heap'[m].children = heap[m].children
                           /\ heap'[m].is_end = heap[m].is_end
                           /\ heap'[m].value = heap[m].value
      BY <2>1, <2>4, SetWeight DEF TypeInv, Unweigh
    <3> QED BY <1>4, <3>1
  <2> QED BY <1>8, <2>2, <2>3, <2>4
<1> QED BY <1>1, <1>2, <1>3, <1>5, <1>6, <1>7, <1>8 DEF Write, Insert, Delete, EndDelete

LEMMA WriteJobs ==
    ASSUME TypeInv, NEW t \in Threads, Write(t)
    PROVE  /\ \A u \in Threads : u # t => job'[u] = job[u]
           /\ lock' = t \/ job'[t] = Idle
           /\ Observe
<1>1. job[t].pc \in {"link", "weigh", "name"} \cup DeleteSteps => lock = t
  BY JobKinds DEF DeleteSteps
<1>2. \A u \in Threads : u # t => job'[u] = job[u]
  BY DEF TypeInv, Write, Insert, Link, Mark, Weigh, Name, Delete, Unmark, Unname, Unweigh,
         Prune, EndDelete
<1>3. lock' = t \/ job'[t] = Idle
  BY <1>1 DEF TypeInv, Write, Insert, Link, Mark, Weigh, Name, Delete, Unmark, Unname,
         Unweigh, Prune, EndDelete, DeleteSteps
<1>4. Observe
  BY DEF Write, Insert, Link, Mark, Weigh, Name, Delete, Unmark, Unname, Unweigh, Prune,
         EndDelete
<1> QED BY <1>2, <1>3, <1>4

\* A read bears any step of a writer.
LEMMA ReadBearsWrite ==
    ASSUME TypeInv, WriterInv, Harmless, NEW u \in Threads, job[u] \in Walking, Observe,
           ReadInv(heap, words, job[u], seen[u])
    PROVE  ReadInv(heap', words', job[u], seen'[u]) /\ seen'[u].quiet = FALSE
<1> DEFINE j == job[u]
           s == seen[u]
           z == seen'[u]
<1>1. /\ z.kept = s.kept \cap DOMAIN words' /\ z.quiet = FALSE
      /\ z.met = s.met \cup {<<k, words'[k][2]>> : k \in {q \in DOMAIN words' : IsPrefix(j.key, q)}}
  <2>1. Reading(u)
    BY JobKinds
  <2> QED BY <2>1 DEF Observe
<1>2. /\ j.node \in Nodes /\ j.queue \in Seq(Nodes)
      /\ \A i \in 1 .. Len(j.queue) : j.queue[i] \in Nodes
  BY WalkingIs, ElementOfSeq
<1> HIDE DEF j, s, z
<1>3. /\ Kept(words, j, s) /\ Meets(heap, words, j, s) /\ Position(j)
      /\ Alive(heap, j, s) /\ Real(j, s) /\ Covered(j, s)
  BY DEF ReadInv, j, s
<1>4. Kept(words', j, z)
  BY <1>1, <1>3 DEF Kept
<1>5. \A k \in DOMAIN words' : IsPrefix(j.key, k) => <<k, words'[k][2]>> \in z.met
  BY <1>1
<1>6. Meets(heap', words', j, z)
  <2>1. ASSUME NEW k \in DOMAIN words', IsPrefix(j.key, k) PROVE \E e \in z.met : e[1] = k
    <3>1. <<k, words'[k][2]>> \in z.met /\ <<k, words'[k][2]>>[1] = k
      BY <2>1, <1>5
    <3> QED BY <3>1
  <2>2. ASSUME NEW n \in Nodes, IsPrefix(j.key, n[1]), heap'[n].value # EmptyText,
               heap'[n].is_end = TRUE \/ (j.node = n /\ j.pc \in Reporting)
        PROVE  <<n[1], heap'[n].value>> \in z.met
    <3>1. CASE n[1] \in DOMAIN words' /\ heap'[n].value = words'[n[1]][2]
      BY <3>1, <2>2, <1>5
    <3>2. CASE heap'[n].value = heap[n].value
      <4>1. heap[n].is_end = TRUE \/ (j.node = n /\ j.pc \in Reporting)
        BY <2>2 DEF Harmless
      <4>2. <<n[1], heap[n].value>> \in s.met
        BY <4>1, <3>2, <2>2, <1>3 DEF Meets
      <4> QED BY <4>2, <3>2, <1>1
    <3> QED BY <3>1, <3>2, <2>2 DEF Harmless
  <2> QED BY <2>1, <2>2 DEF Meets
<1>7. Alive(heap', j, z)
  <2> SUFFICES ASSUME NEW k \in z.kept
               PROVE  /\ IsPrefix(j.node[1], k) => AtIn(heap', j.node[1]) = j.node
                      /\ \A i \in 1 .. Len(j.queue) :
                            IsPrefix(j.queue[i][1], k) => AtIn(heap', j.queue[i][1]) = j.queue[i]
    BY DEF Alive
  <2>1. k \in s.kept /\ k \in DOMAIN words \cap DOMAIN words'
    BY <1>1, <1>3 DEF Kept
  <2>2. \A n \in Nodes : IsPrefix(n[1], k) => AtIn(heap', n[1]) = AtIn(heap, n[1])
    BY <2>1, NodeFacts DEF Harmless
  <2> QED BY <2>1, <2>2, <1>2, <1>3 DEF Alive
<1>8. Real(j, z)
  BY <1>1, <1>3 DEF Real
<1>9. Covered(j, z)
  BY <1>1, <1>3 DEF Covered
<1> QED BY <1>1, <1>3, <1>4, <1>6, <1>7, <1>8, <1>9 DEF ReadInv, j, z

-----------------------------------------------------------------------------
(***************************************************************************)
(* Two lists of the same results, without repetition, are sorted alike.    *)
(***************************************************************************)
Distinct(s) == \A i, j \in 1 .. Len(s) : s[i] = s[j] => i = j

Listing(s) == {s[i] : i \in 1 .. Len(s)}

\* Every result has its place.
LEMMA OrderReaches ==
    ASSUME NEW s \in Seq(Int \X Int)
    PROVE  \A i \in 1 .. Len(s) : \E m \in 1 .. Len(s) : SortOrder(s)[m] = i
<1> DEFINE n == Len(s)
           o == SortOrder(s)
<1>1. n \in Nat /\ DOMAIN s = 1 .. n
  OBVIOUS
<1>2. o \in [1 .. n -> 1 .. n] /\ \A i, j \in 1 .. n : i < j => o[i] # o[j]
  BY <1>1, OrderSorts DEF Sorts
<1> HIDE DEF n, o
<1>3. \A i, j \in 1 .. n : o[i] = o[j] => i = j
  <2> SUFFICES ASSUME NEW i \in 1 .. n, NEW j \in 1 .. n, o[i] = o[j], i # j PROVE FALSE
    OBVIOUS
  <2>1. i < j \/ j < i
    BY <1>1
  <2> QED BY <2>1, <1>2
<1>4. o \in Injection(1 .. n, 1 .. n)
  BY <1>2, <1>3 DEF Injection, IsInjective
<1>5. IsFiniteSet(1 .. n)
  BY <1>1, FS_Interval
<1>6. o \in Surjection(1 .. n, 1 .. n)
  BY <1>4, <1>5, FS_Injection
<1>7. \A i \in 1 .. n : \E m \in 1 .. n : o[m] = i
  BY <1>6 DEF Surjection
<1> QED BY <1>7 DEF n, o

\* The n results of S, each before the next.
Ranked(x, n, S) ==
    /\ x \in [1 .. n -> Int \X Int] /\ \A i \in 1 .. n : x[i] \in S
    /\ \A v \in S : \E m \in 1 .. n : x[m] = v
    /\ \A i, j \in 1 .. n : i < j => Before(x[i], x[j])

LEMMA Ranking ==
    ASSUME NEW s \in Seq(Int \X Int), Distinct(s)
    PROVE  \E x : /\ Ranked(x, Len(s), Listing(s))
                  /\ \A i \in 1 .. Len(s) : x[i] = s[SortOrder(s)[i]]
<1> DEFINE n == Len(s)
           o == SortOrder(s)
           x == [i \in 1 .. n |-> s[o[i]]]
<1>1. n \in Nat /\ DOMAIN s = 1 .. n /\ \A i \in 1 .. n : s[i] \in Int \X Int
  OBVIOUS
<1>2. /\ \A i \in 1 .. n : o[i] \in 1 .. n
      /\ \A i, j \in 1 .. n : i < j => o[i] # o[j] /\ ~ Before(s[o[j]], s[o[i]])
  BY <1>1, OrderSorts DEF Sorts
<1>3. \A i \in 1 .. n : \E m \in 1 .. n : o[m] = i
  BY OrderReaches
<1>4. \A i, j \in 1 .. n : s[i] = s[j] => i = j
  BY DEF Distinct
<1> HIDE DEF n, o
<1>5. \A i, j \in 1 .. n : i < j => Before(s[o[i]], s[o[j]])
  <2> SUFFICES ASSUME NEW i \in 1 .. n, NEW j \in 1 .. n, i < j
               PROVE  Before(s[o[i]], s[o[j]])
    OBVIOUS
  <2>1. s[o[i]] # s[o[j]] /\ ~ Before(s[o[j]], s[o[i]])
    BY <1>2, <1>4
  <2>2. s[o[i]] \in Int \X Int /\ s[o[j]] \in Int \X Int
    BY <1>1, <1>2
  <2> QED BY <2>1, <2>2, BeforeOrders
<1>6. Listing(s) = {s[i] : i \in 1 .. n}
  BY DEF Listing, n
<1>7. /\ x \in [1 .. n -> Int \X Int]
      /\ \A i \in 1 .. n : x[i] = s[o[i]] /\ x[i] \in Listing(s)
      /\ \A v \in Listing(s) : \E m \in 1 .. n : x[m] = v
      /\ \A i, j \in 1 .. n : i < j => Before(x[i], x[j])
  <2>1. \A i \in 1 .. n : x[i] = s[o[i]] /\ x[i] \in Int \X Int
    BY <1>1, <1>2
  <2>2. x = [i \in 1 .. n |-> x[i]]
    OBVIOUS
  <2> HIDE DEF x
  <2>3. x \in [1 .. n -> Int \X Int]
    BY <2>1, <2>2
  <2>4. \A i \in 1 .. n : x[i] \in Listing(s)
    BY <2>1, <1>2, <1>6
  <2>5. ASSUME NEW v \in Listing(s) PROVE \E m \in 1 .. n : x[m] = v
    <3>1. PICK i \in 1 .. n : v = s[i]
      BY <1>6
    <3>2. PICK m \in 1 .. n : o[m] = i
      BY <1>3
    <3> QED BY <3>1, <3>2, <2>1
  <2>6. \A i, j \in 1 .. n : i < j => Before(x[i], x[j])
    BY <2>1, <1>5
  <2> QED BY <2>1, <2>3, <2>4, <2>5, <2>6
<1> HIDE DEF x
<1> QED BY <1>7 DEF n, o, Ranked

\* Of two lists in strict order that have the same results, one is not shorter.
LEMMA RankedAlike ==
    ASSUME NEW S, NEW m \in Nat, NEW n \in Nat,
           NEW x, Ranked(x, m, S), NEW y, Ranked(y, n, S)
    PROVE  /\ \A i \in 1 .. m : i \in 1 .. n => x[i] = y[i]
           /\ m <= n
<1> USE DEF Ranked
<1> DEFINE B == {i \in 1 .. m : i \in 1 .. n /\ x[i] # y[i]}
<1>1. B = {}
  <2> SUFFICES ASSUME B # {} PROVE FALSE
    OBVIOUS
  <2>1. PICK i \in B : \A j \in B : i <= j
    <3>1. B \subseteq Nat
      OBVIOUS
    <3> HIDE DEF B
    <3> QED BY <3>1, LeastNumber
  <2>2. i \in 1 .. m /\ i \in 1 .. n /\ x[i] # y[i]
    OBVIOUS
  <2>3. \A j \in 1 .. m : j < i => x[j] = y[j] /\ j \in 1 .. n
    <3> SUFFICES ASSUME NEW j \in 1 .. m, j < i PROVE x[j] = y[j] /\ j \in 1 .. n
      OBVIOUS
    <3>1. j \in 1 .. n /\ ~ (i <= j)
      BY <2>2
    <3> QED BY <3>1, <2>1
  <2> HIDE DEF B
  <2>4. PICK j \in 1 .. n : y[j] = x[i]
    BY <2>2
  <2>5. PICK k \in 1 .. m : x[k] = y[i]
    BY <2>2
  <2>6. x[i] \in Int \X Int /\ y[i] \in Int \X Int
    BY <2>2
  <2>7. ~ (j < i)
    <3> SUFFICES ASSUME j < i PROVE FALSE
      OBVIOUS
    <3>1. j \in 1 .. m
      BY <2>2
    <3>2. x[j] = x[i] /\ Before(x[j], x[i])
      BY <3>1, <2>2, <2>3, <2>4
    <3> QED BY <3>2, <2>6, BeforeOrders
  <2>8. ~ (k < i)
    <3> SUFFICES ASSUME k < i PROVE FALSE
      OBVIOUS
    <3>1. k \in 1 .. n /\ y[k] = y[i]
      BY <2>3, <2>5
    <3>2. Before(y[k], y[i])
      BY <3>1, <2>2
    <3> QED BY <3>1, <3>2, <2>6, BeforeOrders
  <2>9. i < j /\ i < k
    BY <2>2, <2>4, <2>5, <2>7, <2>8
  <2>10. Before(y[i], x[i]) /\ Before(x[i], y[i])
    BY <2>2, <2>4, <2>5, <2>9
  <2> QED BY <2>6, <2>10, BeforeOrders
<1>2. \A i \in 1 .. m : i \in 1 .. n => x[i] = y[i]
  BY <1>1
<1>3. m <= n
  <2> SUFFICES ASSUME n < m PROVE FALSE
    OBVIOUS
  <2>1. n + 1 \in 1 .. m
    OBVIOUS
  <2>2. PICK i \in 1 .. n : y[i] = x[n + 1]
    BY <2>1
  <2>3. i \in 1 .. m /\ i < n + 1
    OBVIOUS
  <2>4. x[i] = x[n + 1] /\ Before(x[i], x[n + 1])
    BY <1>2, <2>1, <2>2, <2>3
  <2>5. x[n + 1] \in Int \X Int
    BY <2>1
  <2> QED BY <2>4, <2>5, BeforeOrders
<1> QED BY <1>2, <1>3

LEMMA SameBest ==
    ASSUME NEW s \in Seq(Int \X Int), Distinct(s), NEW limit \in Nat
    PROVE  Best(SetToSeq(Listing(s)), limit) = Best(s, limit)
<1> DEFINE n == Len(s)
           S == Listing(s)
           r == SetToSeq(S)
<1>1. n \in Nat /\ s \in [1 .. n -> S] /\ S \subseteq Int \X Int
  BY DEF Listing
<1>2. IsFiniteSet(S) /\ Cardinality(S) = n
  <2>1. s \in Injection(1 .. n, S)
    BY <1>1 DEF Injection, IsInjective, Distinct
  <2>2. \A v \in S : \E i \in 1 .. n : s[i] = v
    BY DEF Listing
  <2> HIDE DEF n, S
  <2>3. s \in Surjection(1 .. n, S)
    BY <1>1, <2>2 DEF Surjection
  <2>4. ExistsBijection(1 .. n, S)
    BY <2>1, <2>3 DEF ExistsBijection, Bijection
  <2>5. IsFiniteSet(1 .. n) /\ Cardinality(1 .. n) = n
    BY <1>1, FS_Interval
  <2> QED BY <2>4, <2>5, FS_Bijection
<1>3. r \in [1 .. n -> S] /\ IsInjective(r)
  <2>1. IsInjective(s)
    BY <1>1 DEF IsInjective, Distinct
  <2> HIDE DEF S, n
  <2>2. \E f \in [1 .. n -> S] : IsInjective(f)
    BY <2>1, <1>1
  <2> QED BY <2>2, <1>2 DEF SetToSeq
<1>4. \A v \in S : \E i \in 1 .. n : r[i] = v
  <2> HIDE DEF S, n, r
  <2>1. r \in Injection(1 .. n, S)
    BY <1>3 DEF Injection
  <2>2. IsFiniteSet(1 .. n) /\ Cardinality(1 .. n) = n
    BY <1>1, FS_Interval
  <2>3. r \in Surjection(1 .. n, S)
    BY <2>1, <2>2, <1>2, FS_Injection
  <2> QED BY <2>3 DEF Surjection
<1> HIDE DEF r, n
<1>5. r \in Seq(Int \X Int) /\ Len(r) = n
  BY <1>1, <1>3
<1>6. Distinct(r)
  BY <1>3, <1>5 DEF IsInjective, Distinct
<1>7. Listing(r) = S
  <2>1. \A i \in 1 .. n : r[i] \in S
    BY <1>3
  <2> HIDE DEF S
  <2> QED BY <2>1, <1>4, <1>5 DEF Listing
<1>8. PICK x : Ranked(x, n, S) /\ \A i \in 1 .. n : x[i] = s[SortOrder(s)[i]]
  <2> HIDE DEF S
  <2> QED BY Ranking DEF S, n
<1>9. PICK y : Ranked(y, n, S) /\ \A i \in 1 .. n : y[i] = r[SortOrder(r)[i]]
  <2> HIDE DEF S
  <2>1. \E y : /\ Ranked(y, Len(r), Listing(r))
               /\ \A i \in 1 .. Len(r) : y[i] = r[SortOrder(r)[i]]
    BY <1>5, <1>6, Ranking
  <2> QED BY <2>1, <1>5, <1>7, Zenon
<1>10. \A i \in 1 .. n : s[SortOrder(s)[i]] = r[SortOrder(r)[i]]
  <2> HIDE DEF S
  <2>1. \A i \in 1 .. n : i \in 1 .. n => x[i] = y[i]
    BY <1>1, <1>8, <1>9, RankedAlike
  <2> QED BY <2>1, <1>8, <1>9
<1> DEFINE k == IF limit < n THEN limit ELSE n
<1>11. /\ Len(Best(s, limit)) = k /\ Len(Best(r, limit)) = k
       /\ DOMAIN Best(s, limit) = 1 .. k /\ DOMAIN Best(r, limit) = 1 .. k
       /\ k \in 0 .. n
       /\ \A i \in 1 .. k : Best(s, limit)[i] = s[SortOrder(s)[i]][2]
       /\ \A i \in 1 .. k : Best(r, limit)[i] = r[SortOrder(r)[i]][2]
  BY <1>5, BestIs DEF n
<1>12. Best(s, limit) \in Seq(Int) /\ Best(r, limit) \in Seq(Int)
  <2>1. \A i \in 1 .. Len(s) : s[i] \in Int \X Int
    OBVIOUS
  <2>2. \A i \in 1 .. Len(r) : r[i] \in Int \X Int
    BY <1>5
  <2>3. /\ \A i \in 1 .. Len(s) : s[i][2] \in Int
        /\ \A i \in 1 .. Len(r) : r[i][2] \in Int
    BY <2>1, <2>2
  <2> HIDE DEF k
  <2> QED BY <2>3, <1>5, BestIs
<1>13. \A i \in 1 .. k : Best(s, limit)[i] = Best(r, limit)[i]
  <2>1. \A i \in 1 .. k : i \in 1 .. n
    BY <1>1, <1>11
  <2> HIDE DEF k
  <2> QED BY <2>1, <1>10, <1>11
<1>14. Best(s, limit) = Best(r, limit)
  <2> HIDE DEF k
  <2> QED BY <1>11, <1>12, <1>13, SeqEqual
<1> QED BY <1>14 DEF r

-----------------------------------------------------------------------------
(***************************************************************************)
(* The steps of a read, one by one: j is the state of the read before the  *)
(* step and k the state after it.                                          *)
(***************************************************************************)
Carries(j, k, s) ==
    /\ ReadInv(heap, words, k, s)
    /\ lock = None /\ QuietInv(heap, words, j, s) => QuietInv(heap, words, k, s)

\* The arguments of the call, which stay.
SameCall(j, k) == k.op = j.op /\ k.key = j.key /\ k.limit = j.limit

\* What is known of a word that was stored all the time.
LEMMA KeptFacts ==
    ASSUME TypeInv, WriterInv, NEW j, NEW s, Kept(words, j, s)
    PROVE  \A k \in s.kept :
              /\ k \in DOMAIN words /\ k \in Paths /\ k \in Seq(Chars) /\ IsPrefix(j.key, k)
              /\ AtIn(heap, k) # None /\ AtIn(heap, k) \in Nodes
              /\ heap[AtIn(heap, k)].is_end = TRUE
<1> TAKE k \in s.kept
<1>1. k \in DOMAIN words /\ IsPrefix(j.key, k)
  BY DEF Kept
<1>2. k \in Paths
  BY <1>1 DEF TypeInv
<1>3. AtIn(heap, k) # None /\ heap[AtIn(heap, k)].is_end = TRUE
  BY <1>1, <1>2 DEF WriterInv, Marked
<1> QED BY <1>1, <1>2, <1>3, Places

\* A node that is marked is in the tree, and its path is a word.
LEMMA MarkedNode ==
    ASSUME TypeInv, WriterInv, NEW n \in Nodes, heap[n].is_end = TRUE
    PROVE  AtIn(heap, n[1]) = n /\ n[1] \in DOMAIN words
<1>1. AtIn(heap, n[1]) = n
  BY DEF WriterInv, Blank
<1> QED BY <1>1, NodeFacts DEF WriterInv, Marked

LEMMA StillMeets ==
    ASSUME NEW h, NEW w, NEW j, NEW k, NEW s, Meets(h, w, j, s), k.key = j.key,
           k.pc \in Reporting =>
              h[k.node].is_end = TRUE \/ (j.pc \in Reporting /\ k.node = j.node)
    PROVE  Meets(h, w, k, s)
  BY DEF Meets

\* The child that a read goes to.
LEMMA ChildNode ==
    ASSUME TypeInv, NEW n \in Nodes, NEW c \in DOMAIN heap[n].children
    PROVE  /\ heap[n].children[c] \in Nodes /\ c \in Chars /\ n[1] \in Seq(Chars)
           /\ heap[n].children[c][1] = Append(n[1], c)
           /\ AtIn(heap, n[1]) = n =>
                 AtIn(heap, heap[n].children[c][1]) = heap[n].children[c]
<1>1. /\ heap[n].children[c] \in Nodes /\ c \in Chars
      /\ heap[n].children[c][1] = Append(n[1], c) /\ n[1] \in Seq(Chars) /\ n # None
  BY ChildrenOK, NodeFacts DEF TypeInv
<1>2. AtIn(heap, Append(n[1], c)) = ChildIn(heap, AtIn(heap, n[1]), c)
  BY <1>1, AtAppend
<1> QED BY <1>1, <1>2 DEF ChildIn

\* A read starts at the root.
LEMMA ReadBegins ==
    ASSUME TypeInv, WriterInv, NEW k \in Walking,
           k.pc = IF k.key # <<>> THEN "look" ELSE "found",
           k.depth = 0, k.node = Root, k.queue = <<>>, k.results = <<>>, k.skipped = FALSE,
           NEW s, s = Watch(k.key)
    PROVE  /\ ReadInv(heap, words, k, s)
           /\ s.quiet \in BOOLEAN
           /\ s.quiet = TRUE => lock = None /\ QuietInv(heap, words, k, s)
<1>1. k.key \in Seq(Chars)
  BY WalkingIs
<1>2. /\ s.kept = {q \in DOMAIN words : IsPrefix(k.key, q)}
      /\ s.met = Under(k.key) /\ s.quiet = (lock = None)
  BY DEF Watch
<1>3. Len(k.queue) = 0 /\ Len(k.results) = 0 /\ Root[1] = <<>>
  BY DEF Root
<1>4. Represents = DOMAIN words
  BY InvWellFormed DEF WellFormed
<1>5. Kept(words, k, s)
  BY <1>2 DEF Kept
<1>6. Meets(heap, words, k, s)
  <2>1. \A p \in DOMAIN words : IsPrefix(k.key, p) => <<p, heap[At(p)].value>> \in s.met
    BY <1>2, <1>4 DEF Under
  <2>2. ASSUME NEW p \in DOMAIN words, IsPrefix(k.key, p) PROVE \E e \in s.met : e[1] = p
    <3>1. <<p, heap[At(p)].value>>[1] = p
      OBVIOUS
    <3> QED BY <3>1, <2>1, <2>2
  <2>3. k.pc \notin Reporting
    BY DEF Reporting
  <2>4. ASSUME NEW n \in Nodes, IsPrefix(k.key, n[1]), heap[n].is_end = TRUE
        PROVE  <<n[1], heap[n].value>> \in s.met
    <3>1. At(n[1]) = n /\ n[1] \in DOMAIN words
      BY <2>4, MarkedNode, AtIs
    <3> QED BY <3>1, <2>1, <2>4
  <2> QED BY <2>2, <2>3, <2>4 DEF Meets
<1>7. Position(k)
  <2>1. Root[1] = Prefix(k.key, 0) /\ Len(k.key) \in Nat /\ (k.key = <<>> <=> Len(k.key) = 0)
    BY <1>1, <1>3, PrefixAll
  <2> QED BY <2>1, <1>3 DEF Position, Finding, Collecting, AtOneNode, Reporting
<1>8. AtIn(heap, <<>>) = Root
  BY AtRoot
<1>9. Alive(heap, k, s) /\ InTree(heap, k)
  BY <1>3, <1>8 DEF Alive, InTree
<1>10. Real(k, s) /\ Covered(k, s) /\ Exact(words, k, s)
  BY <1>3 DEF Real, Covered, Exact, Collecting, AtOneNode, Reporting
<1>11. Current(heap, k) /\ Apart(k) /\ Behind(k)
  BY <1>3 DEF Current, Apart, Behind, AtOneNode, Reporting
<1> QED BY <1>2, <1>5, <1>6, <1>7, <1>9, <1>10, <1>11 DEF ReadInv, QuietInv

\* One character further down.
LEMMA FollowKeeps ==
    ASSUME TypeInv, WriterInv, NEW j \in Walking, NEW k \in Walking, NEW s,
           ReadInv(heap, words, j, s), SameCall(j, k), j.pc = "follow",
           NEW c, c = j.key[j.depth + 1], c \in DOMAIN heap[j.node].children,
           k.node = heap[j.node].children[c], k.depth = j.depth + 1,
           k.pc = IF k.depth = Len(k.key) THEN "found" ELSE "look",
           k.queue = j.queue, k.results = j.results, k.skipped = j.skipped
    PROVE  Carries(j, k, s)
<1>1. /\ Kept(words, j, s) /\ Meets(heap, words, j, s) /\ Position(j)
      /\ Alive(heap, j, s) /\ Real(j, s)
  BY DEF ReadInv
<1>2. /\ j.node \in Nodes /\ j.key \in Seq(Chars) /\ j.depth \in Nat /\ Len(j.key) \in Nat
      /\ k.key = j.key
  BY WalkingIs DEF SameCall
<1>3. /\ j.node[1] = Prefix(j.key, j.depth) /\ j.queue = <<>> /\ j.results = <<>>
      /\ j.depth < Len(j.key) /\ Len(k.queue) = 0 /\ Len(k.results) = 0
  BY <1>1 DEF Position, Finding
<1>4. /\ k.node \in Nodes /\ c \in Chars /\ j.node[1] \in Seq(Chars)
      /\ k.node[1] = Append(j.node[1], c)
      /\ AtIn(heap, j.node[1]) = j.node => AtIn(heap, k.node[1]) = k.node
  BY <1>2, ChildNode
<1>5. k.node[1] = Prefix(k.key, k.depth)
  <2>1. j.depth \in 0 .. Len(j.key) - 1
    BY <1>2, <1>3
  <2> QED BY <2>1, <1>2, <1>3, <1>4, PrefixNext
<1>6. k.pc \in {"look", "found"} /\ (k.pc = "found" <=> k.depth = Len(k.key))
  OBVIOUS
<1>7. Position(k)
  <2>1. k.depth \in Nat /\ k.depth <= Len(k.key)
    BY <1>2, <1>3
  <2> QED BY <2>1, <1>2, <1>3, <1>5, <1>6 DEF Position, Finding, Collecting, AtOneNode, Reporting
<1>8. Kept(words, k, s) /\ Real(k, s)
  BY <1>1, <1>2, <1>3 DEF Kept, Real
<1>9. Meets(heap, words, k, s)
  BY <1>1, <1>2, <1>6, StillMeets DEF Reporting
<1>10. \A i : ~ (i \in 1 .. Len(k.queue)) /\ ~ (i \in 1 .. Len(k.results))
  BY <1>3
<1>11. Alive(heap, k, s)
  <2>1. ASSUME NEW q \in s.kept, IsPrefix(k.node[1], q)
        PROVE  AtIn(heap, k.node[1]) = k.node
    <3>1. q \in Seq(Chars) /\ IsPrefix(Append(j.node[1], c), q)
      BY <2>1, <1>1, <1>4, KeptFacts
    <3>2. IsPrefix(j.node[1], q)
      <4>1. j.node[1] \in Seq(Chars) /\ c \in Chars
        BY <1>4
      <4> QED BY <3>1, <4>1, PrefixAppend
    <3> QED BY <3>2, <1>1, <1>4 DEF Alive
  <2> QED BY <2>1, <1>10 DEF Alive
<1>12. Covered(k, s)
  BY <1>6 DEF Covered, Collecting, AtOneNode, Reporting
<1>13. QuietInv(heap, words, j, s) => QuietInv(heap, words, k, s)
  <2> SUFFICES ASSUME QuietInv(heap, words, j, s) PROVE QuietInv(heap, words, k, s)
    OBVIOUS
  <2>1. InTree(heap, k)
    BY <1>4, <1>10 DEF QuietInv, InTree
  <2>2. Current(heap, k) /\ Apart(k) /\ Behind(k) /\ Exact(words, k, s)
    BY <1>6, <1>10 DEF Current, Apart, Behind, Exact, AtOneNode, Reporting
  <2> QED BY <2>1, <2>2, <1>2 DEF QuietInv
<1> QED BY <1>7, <1>8, <1>9, <1>11, <1>12, <1>13 DEF Carries, ReadInv

\* The first character is there, or there are no more: nothing is read yet.
LEMMA LookKeeps ==
    ASSUME NEW j \in Walking, NEW k \in Walking, NEW s,
           ReadInv(heap, words, j, s), SameCall(j, k), j.pc = "look", k.pc = "follow",
           k.node = j.node, k.depth = j.depth,
           k.queue = j.queue, k.results = j.results, k.skipped = j.skipped
    PROVE  Carries(j, k, s)
<1>1. ReadInv(heap, words, k, s)
  <2>1. Meets(heap, words, k, s)
    BY StillMeets DEF ReadInv, SameCall, Reporting
  <2> QED BY <2>1 DEF ReadInv, Kept, Position, Alive, Real, Covered, SameCall, Finding,
             Collecting, AtOneNode, Reporting
<1>2. QuietInv(heap, words, j, s) => QuietInv(heap, words, k, s)
  BY DEF QuietInv, InTree, Current, Apart, Behind, Exact, SameCall, AtOneNode, Reporting
<1> QED BY <1>1, <1>2 DEF Carries

\* autocomplete() starts its queue with the node of the prefix.
LEMMA FoundKeeps ==
    ASSUME TypeInv, WriterInv, NEW j \in Walking, NEW k \in Walking, NEW s,
           ReadInv(heap, words, j, s), SameCall(j, k), j.pc = "found", j.op = "autocomplete",
           k.pc = "visit", k.queue = <<j.node>>, k.node = Root,
           k.results = j.results, k.skipped = j.skipped
    PROVE  Carries(j, k, s)
<1>1. /\ Kept(words, j, s) /\ Meets(heap, words, j, s) /\ Position(j)
      /\ Alive(heap, j, s) /\ Real(j, s)
  BY DEF ReadInv
<1>2. j.key \in Seq(Chars) /\ k.key = j.key /\ k.op = "autocomplete"
  BY WalkingIs DEF SameCall
<1>3. /\ j.node[1] = j.key /\ j.results = <<>> /\ Len(k.results) = 0
      /\ Len(k.queue) = 1 /\ k.queue[1] = j.node
  BY <1>1, <1>2, PrefixAll DEF Position, Finding
<1>4. AtIn(heap, <<>>) = Root /\ Root[1] = <<>> /\ IsPrefix(j.key, j.key)
  BY <1>2, AtRoot, PrefixOrder DEF Root
<1>5. \A i \in 1 .. Len(k.queue) : i = 1 /\ k.queue[i] = j.node
  BY <1>3
<1>6. Position(k)
  <2>1. k.pc = "visit"
    OBVIOUS
  <2>2. \A i \in 1 .. Len(k.queue) : IsPrefix(k.key, k.queue[i][1])
    BY <1>2, <1>3, <1>4, <1>5
  <2> QED BY <2>1, <2>2, <1>2 DEF Position, Finding, AtOneNode, Reporting
<1>7. Kept(words, k, s) /\ Real(k, s)
  BY <1>1, <1>2, <1>3 DEF Kept, Real
<1>8. Meets(heap, words, k, s)
  BY <1>1, <1>2, StillMeets DEF Reporting
<1>9. Alive(heap, k, s)
  <2> SUFFICES ASSUME NEW q \in s.kept
               PROVE  /\ AtIn(heap, k.node[1]) = k.node
                      /\ \A i \in 1 .. Len(k.queue) :
                            IsPrefix(k.queue[i][1], q) => AtIn(heap, k.queue[i][1]) = k.queue[i]
    BY DEF Alive
  <2>1. IsPrefix(j.node[1], q) => AtIn(heap, j.node[1]) = j.node
    BY <1>1 DEF Alive
  <2>2. AtIn(heap, k.node[1]) = k.node
    BY <1>4
  <2>3. \A i \in 1 .. Len(k.queue) :
           IsPrefix(k.queue[i][1], q) => AtIn(heap, k.queue[i][1]) = k.queue[i]
    BY <2>1, <1>5
  <2> QED BY <2>2, <2>3
<1>10. Covered(k, s)
  <2>1. \A q \in s.kept : IsPrefix(k.queue[1][1], q)
    BY <1>1, <1>3 DEF Kept
  <2>2. 1 \in 1 .. Len(k.queue)
    BY <1>3
  <2> QED BY <2>1, <2>2 DEF Covered, Ahead
<1>11. QuietInv(heap, words, j, s) => QuietInv(heap, words, k, s)
  <2> SUFFICES ASSUME QuietInv(heap, words, j, s) PROVE QuietInv(heap, words, k, s)
    OBVIOUS
  <2>1. InTree(heap, k)
    <3>1. AtIn(heap, j.node[1]) = j.node
      BY DEF QuietInv, InTree
    <3>2. AtIn(heap, k.node[1]) = k.node
      BY <1>4
    <3> QED BY <3>1, <3>2, <1>5 DEF InTree
  <2>2. Apart(k)
    <3>1. \A i, m \in 1 .. Len(k.queue) : i = m
      BY <1>5
    <3>2. k.pc \notin AtOneNode
      BY DEF AtOneNode, Reporting
    <3> QED BY <3>1, <3>2 DEF Apart
  <2>3. Behind(k) /\ Exact(words, k, s) /\ Current(heap, k)
    BY <1>3 DEF Behind, Exact, Current, Reporting
  <2>4. s.kept = {q \in DOMAIN words : IsPrefix(k.key, q)} /\ k.skipped = FALSE
    BY <1>2 DEF QuietInv
  <2> QED BY <2>1, <2>2, <2>3, <2>4 DEF QuietInv
<1> QED BY <1>6, <1>7, <1>8, <1>9, <1>10, <1>11 DEF Carries, ReadInv

\* The nodes and the results that a read has collected.
LEMMA CollectedIs ==
    ASSUME NEW j \in Walking
    PROVE  /\ Len(j.queue) \in Nat /\ Len(j.results) \in Nat
           /\ \A i \in 1 .. Len(j.queue) : j.queue[i] \in Nodes /\ j.queue[i][1] \in Seq(Chars)
           /\ j.node[1] \in Seq(Chars)
           /\ \A i \in 1 .. Len(j.results) :
                 j.results[i] \in Suggested /\ j.results[i][2] \in Texts \cup {EmptyText}
<1>1. j.queue \in Seq(Nodes) /\ j.results \in Seq(Suggested) /\ j.node \in Nodes
  BY WalkingIs
<1>2. \A i \in 1 .. Len(j.queue) : j.queue[i] \in Nodes
  BY <1>1, ElementOfSeq
<1> QED BY <1>1, <1>2, NodeFacts, ResultsOK

\* The first node of the queue is the one that is read next.
LEMMA VisitKeeps ==
    ASSUME TypeInv, WriterInv, NEW j \in Walking, NEW k \in Walking, NEW s,
           ReadInv(heap, words, j, s), SameCall(j, k), j.pc = "visit",
           k.node = Head(j.queue), k.queue = Tail(j.queue),
           k.pc = IF heap[Head(j.queue)].is_end THEN "read_weight" ELSE "children",
           k.results = j.results, k.skipped = j.skipped
    PROVE  Carries(j, k, s)
<1>1. /\ Kept(words, j, s) /\ Meets(heap, words, j, s) /\ Position(j)
      /\ Alive(heap, j, s) /\ Real(j, s) /\ Covered(j, s)
  BY DEF ReadInv
<1>2. k.key = j.key /\ k.op = j.op
  BY DEF SameCall
<1>3. /\ k.node = j.queue[1] /\ 1 \in 1 .. Len(j.queue) /\ Len(k.queue) \in Nat
      /\ \A i \in 1 .. Len(k.queue) :
            /\ i + 1 \in 1 .. Len(j.queue) /\ i + 1 # 1 /\ k.queue[i] = j.queue[i + 1]
      /\ \A i \in 1 .. Len(j.queue) :
            i # 1 => i - 1 \in 1 .. Len(k.queue) /\ k.queue[i - 1] = j.queue[i]
  <2>1. j.queue \in Seq(Nodes) /\ j.queue # <<>>
    BY WalkingIs
  <2> DEFINE q == j.queue
  <2> HIDE DEF q
  <2>2. /\ Len(q) \in Nat /\ Len(q) # 0 /\ Head(q) = q[1] /\ Len(Tail(q)) = Len(q) - 1
        /\ \A i \in 1 .. Len(q) - 1 : Tail(q)[i] = q[i + 1]
    BY <2>1 DEF q
  <2>3. /\ 1 \in 1 .. Len(q) /\ Len(Tail(q)) \in Nat
        /\ \A i \in 1 .. Len(Tail(q)) :
              i + 1 \in 1 .. Len(q) /\ i + 1 # 1 /\ Tail(q)[i] = q[i + 1]
    BY <2>2
  <2>4. \A i \in 1 .. Len(q) :
           i # 1 => i - 1 \in 1 .. Len(Tail(q)) /\ Tail(q)[i - 1] = q[i]
    <3> SUFFICES ASSUME NEW i \in 1 .. Len(q), i # 1
                 PROVE  i - 1 \in 1 .. Len(Tail(q)) /\ Tail(q)[i - 1] = q[i]
      OBVIOUS
    <3>1. i - 1 \in 1 .. Len(q) - 1 /\ (i - 1) + 1 = i
      BY <2>2
    <3> QED BY <3>1, <2>2
  <2> QED BY <2>2, <2>3, <2>4 DEF q
<1>4. heap[k.node].is_end \in BOOLEAN /\ k.node \in Nodes /\ k.node = Head(j.queue)
  BY WalkingIs DEF TypeInv, HeapOK, TrieNode
<1>5. /\ k.pc \in {"read_weight", "children"} /\ k.pc # "read_value" /\ k.pc # "next"
      /\ k.pc = "read_weight" <=> heap[k.node].is_end = TRUE
      /\ k.pc \in Reporting <=> k.pc = "read_weight"
      /\ k.pc \in AtOneNode /\ k.pc \in Collecting
  BY <1>4 DEF Reporting, AtOneNode, Collecting
<1>6. /\ \A i \in 1 .. Len(j.queue) : j.queue[i][1] \in Seq(Chars)
      /\ k.node[1] \in Seq(Chars)
  BY CollectedIs
<1> HIDE DEF Carries
<1>7. Position(k)
  <2>1. k.op = "autocomplete" /\ \A i \in 1 .. Len(j.queue) : IsPrefix(j.key, j.queue[i][1])
    BY <1>1, <1>2 DEF Position, Collecting
  <2> QED BY <2>1, <1>2, <1>3, <1>5 DEF Position, Finding
<1>8. Kept(words, k, s) /\ Real(k, s)
  BY <1>1, <1>2 DEF Kept, Real
<1>9. Meets(heap, words, k, s)
  BY <1>1, <1>2, <1>5, StillMeets
<1>10. Alive(heap, k, s)
  BY <1>1, <1>3 DEF Alive
<1>11. Covered(k, s)
  <2> SUFFICES ASSUME k.skipped = FALSE, NEW q \in s.kept
               PROVE  Reported(k, q) \/ Ahead(k, q)
    BY DEF Covered
  <2>1. j.pc \in Collecting /\ j.pc \notin AtOneNode
    BY DEF Collecting, AtOneNode, Reporting
  <2>2. CASE Reported(j, q)
    BY <2>2 DEF Reported
  <2>3. CASE ~ Reported(j, q)
    <3>1. PICK i \in 1 .. Len(j.queue) : IsPrefix(j.queue[i][1], q)
      BY <2>1, <2>3, <1>1 DEF Covered, Ahead
    <3>2. CASE i # 1
      BY <3>1, <3>2, <1>3 DEF Ahead
    <3>3. CASE i = 1
      <4>1. IsPrefix(k.node[1], q) /\ AtIn(heap, k.node[1]) = k.node
        BY <3>1, <3>3, <1>1, <1>3 DEF Alive
      <4>2. k.pc = "children" => k.node[1] # q
        BY <4>1, <1>1, <1>5, KeptFacts
      <4> QED BY <4>1, <4>2, <1>5 DEF Ahead
    <3> QED BY <3>2, <3>3
  <2> QED BY <2>2, <2>3
<1>12. ASSUME QuietInv(heap, words, j, s) PROVE QuietInv(heap, words, k, s)
  <2>1. InTree(heap, k)
    BY <1>3, <1>12 DEF QuietInv, InTree
  <2>2. Current(heap, k)
    BY <1>5 DEF Current
  <2>3. \A i, m \in 1 .. Len(j.queue) : IsPrefix(j.queue[i][1], j.queue[m][1]) => i = m
    BY <1>12 DEF QuietInv, Apart
  <2>4. Apart(k)
    <3>1. ASSUME NEW i \in 1 .. Len(k.queue), NEW m \in 1 .. Len(k.queue),
                 IsPrefix(k.queue[i][1], k.queue[m][1])
          PROVE  i = m
      <4>1. i + 1 = m + 1
        BY <3>1, <2>3, <1>3
      <4> QED BY <4>1, <1>3
    <3>2. ASSUME NEW i \in 1 .. Len(k.queue)
          PROVE  ~ IsPrefix(k.queue[i][1], k.node[1]) /\ ~ IsPrefix(k.node[1], k.queue[i][1])
      BY <2>3, <1>3
    <3> QED BY <3>1, <3>2 DEF Apart
  <2>5. Behind(k)
    <3>1. \A r \in 1 .. Len(j.results) : \A i \in 1 .. Len(j.queue) :
             ~ IsPrefix(j.queue[i][1], Key[j.results[r][2]])
      BY <1>12 DEF QuietInv, Behind
    <3> QED BY <3>1, <1>3 DEF Behind
  <2>6. Exact(words, k, s)
    BY <1>12 DEF QuietInv, Exact
  <2>7. s.kept = {q \in DOMAIN words : IsPrefix(k.key, q)} /\ k.skipped = FALSE
    BY <1>2, <1>12 DEF QuietInv
  <2> QED BY <2>1, <2>2, <2>4, <2>5, <2>6, <2>7 DEF QuietInv
<1> QED BY <1>7, <1>8, <1>9, <1>10, <1>11, <1>12 DEF Carries, ReadInv

\* current.weight is read.
LEMMA ReadWeightKeeps ==
    ASSUME NEW j \in Walking, NEW k \in Walking, NEW s,
           ReadInv(heap, words, j, s), SameCall(j, k), j.pc = "read_weight",
           k.pc = "read_value", k.weight = heap[j.node].weight,
           k.node = j.node, k.queue = j.queue, k.results = j.results, k.skipped = j.skipped
    PROVE  Carries(j, k, s)
<1>1. k.key = j.key /\ k.op = j.op
  BY DEF SameCall
<1>2. /\ {j.pc, k.pc} \subseteq Reporting \cap AtOneNode \cap Collecting
      /\ k.pc \notin Finding \cup {"children", "next"}
  BY DEF Reporting, AtOneNode, Collecting, Finding
<1>3. Kept(words, k, s) /\ Real(k, s) /\ Alive(heap, k, s)
  BY <1>1 DEF ReadInv, Kept, Real, Alive
<1>4. Meets(heap, words, k, s)
  BY <1>1, <1>2, StillMeets DEF ReadInv
<1>5. Position(k)
  BY <1>1, <1>2 DEF ReadInv, Position, Finding
<1>6. Covered(k, s)
  BY <1>2 DEF ReadInv, Covered, Reported, Ahead
<1>7. QuietInv(heap, words, j, s) => QuietInv(heap, words, k, s)
  BY <1>1, <1>2 DEF QuietInv, InTree, Current, Apart, Behind, Exact
<1> QED BY <1>3, <1>4, <1>5, <1>6, <1>7 DEF Carries, ReadInv

\* The iteration over the children starts.
LEMMA IterateKeeps ==
    ASSUME NEW j \in Walking, NEW k \in Walking, NEW s,
           ReadInv(heap, words, j, s), SameCall(j, k), j.pc = "children", k.pc = "next",
           k.children = heap[j.node].children, k.taken = {},
           k.node = j.node, k.queue = j.queue, k.results = j.results, k.skipped = j.skipped
    PROVE  Carries(j, k, s)
<1>1. k.key = j.key /\ k.op = j.op
  BY DEF SameCall
<1>2. /\ {j.pc, k.pc} \subseteq AtOneNode \cap Collecting
      /\ k.pc \notin Finding \cup Reporting
  BY DEF Reporting, AtOneNode, Collecting, Finding
<1>3. Kept(words, k, s) /\ Real(k, s) /\ Alive(heap, k, s)
  BY <1>1 DEF ReadInv, Kept, Real, Alive
<1>4. Meets(heap, words, k, s)
  BY <1>1, <1>2, StillMeets DEF ReadInv
<1>5. Position(k)
  BY <1>1, <1>2 DEF ReadInv, Position, Finding
<1>6. Covered(k, s)
  BY <1>2 DEF ReadInv, Covered, Reported, Ahead
<1>7. ASSUME QuietInv(heap, words, j, s) PROVE QuietInv(heap, words, k, s)
  <2>1. InTree(heap, k) /\ Current(heap, k) /\ Exact(words, k, s)
    BY <1>2, <1>7 DEF QuietInv, InTree, Current, Exact
  <2>2. Apart(k)
    BY <1>2, <1>7 DEF QuietInv, Apart
  <2>3. Behind(k)
    BY <1>2, <1>7 DEF QuietInv, Behind
  <2> QED BY <2>1, <2>2, <2>3, <1>1, <1>7 DEF QuietInv
<1> QED BY <1>3, <1>4, <1>5, <1>6, <1>7 DEF Carries, ReadInv

\* current.value is read, and the result is appended.
LEMMA ReadValueKeeps ==
    ASSUME TypeInv, WriterInv, NEW j \in Walking, NEW k \in Walking, NEW s,
           ReadInv(heap, words, j, s), SameCall(j, k), j.pc = "read_value", k.pc = "children",
           k.results = Append(j.results, <<j.weight, heap[j.node].value>>),
           k.node = j.node, k.queue = j.queue, k.skipped = j.skipped
    PROVE  Carries(j, k, s)
<1> DEFINE v == heap[j.node].value
           L == Len(j.results)
<1>1. /\ Kept(words, j, s) /\ Meets(heap, words, j, s) /\ Position(j)
      /\ Alive(heap, j, s) /\ Real(j, s) /\ Covered(j, s)
  BY DEF ReadInv
<1>2. k.key = j.key /\ k.op = j.op
  BY DEF SameCall
<1>3. /\ j.pc \in Reporting /\ {j.pc, k.pc} \subseteq AtOneNode \cap Collecting
      /\ k.pc \notin Finding \cup Reporting
  BY DEF Reporting, AtOneNode, Collecting, Finding
<1>4. /\ j.node \in Nodes /\ j.node[1] \in Seq(Chars) /\ j.key \in Seq(Chars)
      /\ v \in Texts \cup {EmptyText} /\ j.weight \in Weights \cup {0}
      /\ j.results \in Seq(Suggested)
  BY WalkingIs, NodeFacts DEF TypeInv, HeapOK, TrieNode
<1>5. /\ L \in Nat /\ Len(k.results) = L + 1
      /\ k.results[L + 1] = <<j.weight, v>> /\ k.results[L + 1][2] = v
      /\ \A i \in 1 .. L : k.results[i] = j.results[i]
      /\ \A i \in 1 .. L + 1 : i = L + 1 \/ i \in 1 .. L
      /\ L + 1 \in 1 .. L + 1 /\ \A i \in 1 .. L : i \in 1 .. L + 1
  <2>1. <<j.weight, v>> \in Suggested
    BY <1>4 DEF Suggested
  <2> HIDE DEF v
  <2>2. /\ Len(k.results) = Len(j.results) + 1
        /\ k.results[Len(j.results) + 1] = <<j.weight, v>>
        /\ \A i \in 1 .. Len(j.results) : k.results[i] = j.results[i]
    BY <2>1, <1>4, AppendFacts DEF v
  <2>3. L \in Nat
    BY <1>4
  <2> HIDE DEF L
  <2>4. \A i \in 1 .. L + 1 : i = L + 1 \/ i \in 1 .. L
    BY <2>3
  <2>5. L + 1 \in 1 .. L + 1 /\ \A i \in 1 .. L : i \in 1 .. L + 1
    BY <2>3
  <2> QED BY <2>2, <2>3, <2>4, <2>5 DEF L
<1>6. v # EmptyText => Key[v] = j.node[1] /\ <<j.node[1], v>> \in s.met
  <2>1. v # EmptyText => Key[v] = j.node[1]
    BY <1>4 DEF WriterInv, Spelled
  <2>2. IsPrefix(j.key, j.node[1])
    BY <1>1, <1>3 DEF Position
  <2> QED BY <2>1, <2>2, <1>1, <1>3, <1>4 DEF Meets
<1> HIDE DEF v, L
<1>7. Position(k)
  BY <1>1, <1>2, <1>3 DEF Position, Finding
<1>8. Kept(words, k, s) /\ Alive(heap, k, s)
  BY <1>1, <1>2 DEF Kept, Alive
<1>9. Meets(heap, words, k, s)
  BY <1>1, <1>2, <1>3, StillMeets
<1>10. Real(k, s)
  <2> SUFFICES ASSUME NEW i \in 1 .. L + 1
               PROVE  \/ k.results[i][2] = EmptyText
                      \/ \E e \in s.met : e[2] = k.results[i][2]
    BY <1>5 DEF Real
  <2>1. CASE i \in 1 .. L
    BY <2>1, <1>1, <1>5 DEF Real, L
  <2>2. CASE i = L + 1
    <3>1. v # EmptyText => <<j.node[1], v>> \in s.met /\ <<j.node[1], v>>[2] = v
      BY <1>6
    <3> QED BY <3>1, <2>2, <1>5
  <2> QED BY <2>1, <2>2, <1>5
<1>11. Covered(k, s)
  <2> SUFFICES ASSUME k.skipped = FALSE, NEW q \in s.kept
               PROVE  Reported(k, q) \/ Ahead(k, q)
    BY DEF Covered
  <2>1. Reported(j, q) \/ Ahead(j, q)
    BY <1>1, <1>3 DEF Covered
  <2>2. CASE Reported(j, q)
    BY <2>2, <1>5 DEF Reported, L
  <2>3. CASE \E i \in 1 .. Len(j.queue) : IsPrefix(j.queue[i][1], q)
    BY <2>3 DEF Ahead
  <2>4. CASE IsPrefix(j.node[1], q) /\ j.node[1] # q
    BY <2>4, <1>3 DEF Ahead
  <2>5. CASE j.node[1] = q
    <3>1. v = EmptyText \/ Key[v] = q
      BY <2>5, <1>6
    <3> QED BY <3>1, <1>5 DEF Reported
  <2> QED BY <2>1, <2>2, <2>3, <2>4, <2>5 DEF Ahead
<1>12. ASSUME lock = None, QuietInv(heap, words, j, s) PROVE QuietInv(heap, words, k, s)
  <2>1. InTree(heap, k) /\ Current(heap, k)
    BY <1>3, <1>12 DEF QuietInv, InTree, Current
  <2>2. Apart(k)
    BY <1>3, <1>12 DEF QuietInv, Apart
  <2>3. /\ \A i \in 1 .. Len(j.queue) : ~ IsPrefix(j.queue[i][1], j.node[1])
        /\ \A r \in 1 .. L :
              /\ \A i \in 1 .. Len(j.queue) : ~ IsPrefix(j.queue[i][1], Key[j.results[r][2]])
              /\ ~ IsPrefix(j.node[1], Key[j.results[r][2]])
    BY <1>3, <1>12 DEF QuietInv, Apart, Behind, L
  <2>4. j.node[1] \in s.kept /\ <<j.weight, v>> = words[j.node[1]] /\ v # EmptyText
    <3>1. /\ AtIn(heap, j.node[1]) = j.node /\ heap[j.node].is_end = TRUE
          /\ j.weight = heap[j.node].weight
      BY <1>3, <1>12 DEF QuietInv, InTree, Current
    <3>2. j.node[1] \in DOMAIN words
      BY <3>1, <1>4, MarkedNode
    <3>3. IsPrefix(j.key, j.node[1])
      BY <1>1, <1>3 DEF Position
    <3>4. Busy.pc = "idle"
      BY <1>12 DEF Busy, Idle
    <3>5. j.weight = words[j.node[1]][1] /\ v = words[j.node[1]][2]
      BY <3>1, <3>2, <3>4 DEF WriterInv, Stored, v
    <3>6. words[j.node[1]] \in Weights \X Texts /\ EmptyText \notin Texts
      BY <3>2, TrieAssumption DEF TypeInv, EmptyText
    <3> QED BY <3>2, <3>3, <3>5, <3>6, <1>12 DEF QuietInv
  <2>5. Key[v] = j.node[1]
    BY <2>4, <1>6
  <2>6. Behind(k)
    <3>1. ASSUME NEW r \in 1 .. L + 1
          PROVE  /\ \A i \in 1 .. Len(j.queue) : ~ IsPrefix(j.queue[i][1], Key[k.results[r][2]])
                 /\ IsPrefix(j.node[1], Key[k.results[r][2]]) =>
                       Key[k.results[r][2]] = j.node[1]
      BY <2>3, <2>5, <1>5
    <3> QED BY <3>1, <1>3, <1>5 DEF Behind
  <2>7. Exact(words, k, s)
    <3>1. /\ \A r \in 1 .. L : \E q \in s.kept : j.results[r] = words[q]
          /\ \A r, q \in 1 .. L : j.results[r] = j.results[q] => r = q
      BY <1>12 DEF QuietInv, Exact, L
    <3>2. \A r \in 1 .. L + 1 : \E q \in s.kept : k.results[r] = words[q]
      BY <3>1, <2>4, <1>5
    <3>3. \A r \in 1 .. L : k.results[r] # k.results[L + 1]
      <4>1. IsPrefix(j.node[1], j.node[1])
        BY <1>4, PrefixOrder
      <4> QED BY <4>1, <2>3, <2>5, <1>5
    <3>4. \A r, q \in 1 .. L + 1 : k.results[r] = k.results[q] => r = q
      BY <3>1, <3>3, <1>5
    <3> QED BY <3>2, <3>4, <1>5 DEF Exact
  <2> QED BY <2>1, <2>2, <2>6, <2>7, <1>2, <1>12 DEF QuietInv
<1> QED BY <1>7, <1>8, <1>9, <1>10, <1>11, <1>12 DEF Carries, ReadInv

\* One more child is put into the queue.
LEMMA TakeChildKeeps ==
    ASSUME TypeInv, WriterInv, NEW j \in Walking, NEW k \in Walking, NEW s,
           ReadInv(heap, words, j, s), SameCall(j, k), j.pc = "next", k.pc = "next",
           NEW c \in DOMAIN heap[j.node].children, c \notin j.taken,
           k.taken = j.taken \cup {c}, k.queue = Append(j.queue, heap[j.node].children[c]),
           k.skipped = FALSE <=> j.skipped = FALSE /\ heap[j.node].children = j.children,
           k.node = j.node, k.children = j.children, k.results = j.results
    PROVE  Carries(j, k, s)
<1> DEFINE n == heap[j.node].children[c]
           L == Len(j.queue)
           p == j.node[1]
<1>1. /\ Kept(words, j, s) /\ Meets(heap, words, j, s) /\ Position(j)
      /\ Alive(heap, j, s) /\ Real(j, s) /\ Covered(j, s)
  BY DEF ReadInv
<1>2. k.key = j.key /\ k.op = j.op
  BY DEF SameCall
<1>3. /\ {j.pc, k.pc} \subseteq AtOneNode \cap Collecting
      /\ k.pc \notin Finding \cup Reporting
  BY DEF Reporting, AtOneNode, Collecting, Finding
<1>4. /\ j.node \in Nodes /\ p \in Seq(Chars) /\ j.key \in Seq(Chars)
      /\ j.queue \in Seq(Nodes) /\ n \in Nodes /\ n[1] = Append(p, c) /\ c \in Chars
      /\ AtIn(heap, p) = j.node => AtIn(heap, n[1]) = n
  BY WalkingIs, ChildNode
<1>5. /\ n[1] \in Seq(Chars) /\ Len(n[1]) = Len(p) + 1 /\ n[1][Len(p) + 1] = c
      /\ Len(p) \in Nat /\ IsPrefix(p, n[1])
  BY <1>4, AppendFacts, PrefixAppend
<1>6. \A q \in Seq(Chars) :
         /\ IsPrefix(n[1], q) <=> IsPrefix(p, q) /\ Len(p) < Len(q) /\ q[Len(p) + 1] = c
         /\ IsPrefix(q, n[1]) => IsPrefix(q, p) \/ q = n[1]
  BY <1>4, PrefixAppend
<1>7. /\ L \in Nat /\ Len(k.queue) = L + 1 /\ k.queue[L + 1] = n
      /\ \A i \in 1 .. L : k.queue[i] = j.queue[i]
      /\ \A i \in 1 .. L + 1 : i = L + 1 \/ i \in 1 .. L
      /\ L + 1 \in 1 .. L + 1 /\ \A i \in 1 .. L : i \in 1 .. L + 1
  <2> HIDE DEF n
  <2>1. /\ Len(k.queue) = Len(j.queue) + 1 /\ k.queue[Len(j.queue) + 1] = n
        /\ \A i \in 1 .. Len(j.queue) : k.queue[i] = j.queue[i]
    BY <1>4, AppendFacts DEF n
  <2>2. L \in Nat
    BY <1>4
  <2> HIDE DEF L
  <2>3. \A i \in 1 .. L + 1 : i = L + 1 \/ i \in 1 .. L
    BY <2>2
  <2>4. L + 1 \in 1 .. L + 1 /\ \A i \in 1 .. L : i \in 1 .. L + 1
    BY <2>2
  <2> QED BY <2>1, <2>2, <2>3, <2>4 DEF L
<1>8. \A i \in 1 .. L : j.queue[i][1] \in Seq(Chars)
  BY CollectedIs
<1> HIDE DEF n, L
<1>9. Position(k)
  <2>1. /\ j.op = "autocomplete" /\ IsPrefix(j.key, p)
        /\ \A i \in 1 .. L : IsPrefix(j.key, j.queue[i][1])
    BY <1>1, <1>3 DEF Position, L
  <2>2. IsPrefix(j.key, n[1])
    <3> DEFINE u == n[1]
    <3>1. /\ j.key \in Seq(Chars) /\ p \in Seq(Chars) /\ u \in Seq(Chars)
          /\ IsPrefix(j.key, p) /\ IsPrefix(p, u)
      BY <2>1, <1>4, <1>5
    <3> HIDE DEF p, u
    <3>2. IsPrefix(j.key, u)
      BY <3>1, PrefixOrder
    <3> QED BY <3>2 DEF u
  <2>3. \A i \in 1 .. L + 1 : IsPrefix(j.key, k.queue[i][1])
    BY <2>1, <2>2, <1>7
  <2> QED BY <2>1, <2>3, <1>2, <1>3, <1>7 DEF Position
<1>10. Kept(words, k, s) /\ Real(k, s)
  BY <1>1, <1>2 DEF Kept, Real
<1>11. Meets(heap, words, k, s)
  BY <1>1, <1>2, <1>3, StillMeets
<1>12. Alive(heap, k, s)
  <2> SUFFICES ASSUME NEW q \in s.kept
               PROVE  /\ IsPrefix(p, q) => AtIn(heap, p) = j.node
                      /\ \A i \in 1 .. L + 1 :
                            IsPrefix(k.queue[i][1], q) => AtIn(heap, k.queue[i][1]) = k.queue[i]
    BY <1>7 DEF Alive
  <2>1. /\ IsPrefix(p, q) => AtIn(heap, p) = j.node
        /\ \A i \in 1 .. L :
              IsPrefix(j.queue[i][1], q) => AtIn(heap, j.queue[i][1]) = j.queue[i]
    BY <1>1 DEF Alive, L
  <2>2. IsPrefix(n[1], q) => AtIn(heap, n[1]) = n
    <3>1. q \in Seq(Chars)
      BY <1>1, KeptFacts
    <3>2. IsPrefix(n[1], q) => IsPrefix(p, q)
      BY <3>1, <1>6
    <3> QED BY <3>2, <2>1, <1>4
  <2> QED BY <2>1, <2>2, <1>7
<1>13. Covered(k, s)
  <2> SUFFICES ASSUME k.skipped = FALSE, NEW q \in s.kept
               PROVE  Reported(k, q) \/ Ahead(k, q)
    BY DEF Covered
  <2>1. Reported(j, q) \/ Ahead(j, q)
    BY <1>1, <1>3 DEF Covered
  <2>2. CASE Reported(j, q)
    BY <2>2 DEF Reported
  <2>3. CASE \E i \in 1 .. L : IsPrefix(j.queue[i][1], q)
    BY <2>3, <1>7 DEF Ahead
  <2>4. CASE IsPrefix(p, q) /\ p # q /\ q[Len(p) + 1] \notin j.taken
    <3>1. CASE q[Len(p) + 1] = c
      <4>1. q \in Seq(Chars) /\ Len(p) < Len(q)
        <5>1. q \in Seq(Chars) /\ AtIn(heap, q) # None
          BY <1>1, KeptFacts
        <5> QED BY <5>1, <2>4, <1>4, AtChild
      <4>2. IsPrefix(n[1], q)
        BY <4>1, <2>4, <3>1, <1>6
      <4> QED BY <4>2, <1>7 DEF Ahead
    <3>2. CASE q[Len(p) + 1] # c
      BY <2>4, <3>2, <1>3 DEF Ahead
    <3> QED BY <3>1, <3>2
  <2> QED BY <2>1, <2>2, <2>3, <2>4 DEF Ahead, L
<1>14. ASSUME QuietInv(heap, words, j, s) PROVE QuietInv(heap, words, k, s)
  <2>1. /\ AtIn(heap, p) = j.node /\ heap[j.node].children = j.children /\ j.skipped = FALSE
        /\ \A i \in 1 .. L : AtIn(heap, j.queue[i][1]) = j.queue[i]
    BY <1>14 DEF QuietInv, InTree, Current, L
  <2>2. InTree(heap, k)
    <3>1. \A i \in 1 .. L + 1 : AtIn(heap, k.queue[i][1]) = k.queue[i]
      BY <2>1, <1>4, <1>7
    <3> QED BY <3>1, <2>1, <1>7 DEF InTree
  <2>3. Current(heap, k) /\ Exact(words, k, s)
    BY <2>1, <1>3, <1>14 DEF QuietInv, Current, Exact
  <2>4. /\ \A i, m \in 1 .. L : IsPrefix(j.queue[i][1], j.queue[m][1]) => i = m
        /\ \A i \in 1 .. L :
              /\ ~ IsPrefix(j.queue[i][1], p)
              /\ IsPrefix(p, j.queue[i][1]) => j.queue[i][1][Len(p) + 1] \in j.taken
    BY <1>3, <1>14 DEF QuietInv, Apart, L
  <2>5. \A i \in 1 .. L : ~ IsPrefix(j.queue[i][1], n[1]) /\ ~ IsPrefix(n[1], j.queue[i][1])
    <3> SUFFICES ASSUME NEW i \in 1 .. L
                 PROVE  ~ IsPrefix(j.queue[i][1], n[1]) /\ ~ IsPrefix(n[1], j.queue[i][1])
      OBVIOUS
    <3>1. ~ IsPrefix(n[1], j.queue[i][1])
      BY <2>4, <1>6, <1>8
    <3>2. IsPrefix(n[1], n[1])
      BY <1>5, PrefixOrder
    <3> QED BY <3>1, <3>2, <2>4, <1>6, <1>8
  <2>6. ~ IsPrefix(n[1], p)
    <3> DEFINE u == n[1]
    <3>1. p \in Seq(Chars) /\ u \in Seq(Chars) /\ Len(u) = Len(p) + 1 /\ Len(p) \in Nat
      BY <1>4, <1>5
    <3> HIDE DEF p, u
    <3>2. IsPrefix(u, p) => Len(u) <= Len(p)
      BY <3>1, PrefixOrder
    <3>3. ~ IsPrefix(u, p)
      BY <3>1, <3>2
    <3> QED BY <3>3 DEF u
  <2>7. Apart(k)
    <3>1. \A i, m \in 1 .. L + 1 : IsPrefix(k.queue[i][1], k.queue[m][1]) => i = m
      BY <2>4, <2>5, <1>7
    <3>2. \A i \in 1 .. L + 1 :
             /\ ~ IsPrefix(k.queue[i][1], p)
             /\ IsPrefix(p, k.queue[i][1]) => k.queue[i][1][Len(p) + 1] \in k.taken
      BY <2>4, <2>6, <1>5, <1>7
    <3> QED BY <3>1, <3>2, <1>7 DEF Apart
  <2>8. Behind(k)
    <3>1. ASSUME NEW r \in 1 .. Len(j.results)
          PROVE  /\ \A i \in 1 .. L : ~ IsPrefix(j.queue[i][1], Key[j.results[r][2]])
                 /\ IsPrefix(p, Key[j.results[r][2]]) => Key[j.results[r][2]] = p
      BY <1>14 DEF QuietInv, Behind, L
    <3>2. ASSUME NEW r \in 1 .. Len(j.results) PROVE Key[j.results[r][2]] \in Seq(Chars)
      <4>1. PICK q \in s.kept : j.results[r] = words[q]
        BY <1>14 DEF QuietInv, Exact
      <4>2. q \in DOMAIN words /\ q \in Seq(Chars)
        BY <4>1, <1>1, KeptFacts
      <4> QED BY <4>1, <4>2 DEF TypeInv
    <3>3. ASSUME NEW r \in 1 .. Len(j.results)
          PROVE  ~ IsPrefix(n[1], Key[j.results[r][2]])
      <4>1. IsPrefix(n[1], Key[j.results[r][2]]) => IsPrefix(p, Key[j.results[r][2]])
        BY <3>2, <1>6
      <4> QED BY <4>1, <3>1, <2>6
    <3>4. ASSUME NEW r \in 1 .. Len(j.results), NEW i \in 1 .. L + 1
          PROVE  ~ IsPrefix(k.queue[i][1], Key[j.results[r][2]])
      BY <3>1, <3>3, <1>7
    <3> QED BY <3>1, <3>4, <1>3, <1>7 DEF Behind
  <2> QED BY <2>1, <2>2, <2>3, <2>7, <2>8, <1>2, <1>14 DEF QuietInv
<1> QED BY <1>9, <1>10, <1>11, <1>12, <1>13, <1>14 DEF Carries, ReadInv

\* When all children are in the queue, nothing is left at this node.
LEMMA AllTaken ==
    ASSUME TypeInv, WriterInv, NEW j \in Walking, NEW s, ReadInv(heap, words, j, s),
           j.pc = "next", j.skipped = FALSE, j.taken = DOMAIN heap[j.node].children
    PROVE  \A q \in s.kept :
              Reported(j, q) \/ \E i \in 1 .. Len(j.queue) : IsPrefix(j.queue[i][1], q)
<1> SUFFICES ASSUME NEW q \in s.kept, IsPrefix(j.node[1], q), j.node[1] # q,
                    q[Len(j.node[1]) + 1] \notin j.taken
             PROVE  FALSE
  BY DEF ReadInv, Covered, Ahead, Collecting, AtOneNode, Reporting
<1>1. q \in Seq(Chars) /\ AtIn(heap, q) # None
  BY KeptFacts DEF ReadInv
<1>2. AtIn(heap, j.node[1]) = j.node /\ j.node[1] \in Seq(Chars)
  BY CollectedIs DEF ReadInv, Alive
<1>3. q[Len(j.node[1]) + 1] \in DOMAIN heap[AtIn(heap, j.node[1])].children
  BY <1>1, <1>2, AtChild
<1> QED BY <1>2, <1>3

\* The iteration ends, and the next node of the queue follows.
LEMMA EndIterationKeeps ==
    ASSUME TypeInv, WriterInv, NEW j \in Walking, NEW k \in Walking, NEW s,
           ReadInv(heap, words, j, s), SameCall(j, k), j.pc = "next", k.pc = "visit",
           heap[j.node].children = j.children => j.taken = DOMAIN heap[j.node].children,
           k.skipped = FALSE <=> j.skipped = FALSE /\ heap[j.node].children = j.children,
           k.node = j.node, k.queue = j.queue, k.results = j.results
    PROVE  Carries(j, k, s)
<1>1. k.key = j.key /\ k.op = j.op
  BY DEF SameCall
<1>2. /\ j.pc \in AtOneNode /\ {j.pc, k.pc} \subseteq Collecting
      /\ k.pc \notin Finding \cup AtOneNode \cup Reporting
  BY DEF Reporting, AtOneNode, Collecting, Finding
<1>3. Kept(words, k, s) /\ Real(k, s) /\ Alive(heap, k, s)
  BY <1>1 DEF ReadInv, Kept, Real, Alive
<1>4. Meets(heap, words, k, s)
  BY <1>1, <1>2, StillMeets DEF ReadInv
<1>5. Position(k)
  BY <1>1, <1>2 DEF ReadInv, Position
<1>6. Covered(k, s)
  <2> SUFFICES ASSUME k.skipped = FALSE, NEW q \in s.kept
               PROVE  Reported(k, q) \/ Ahead(k, q)
    BY DEF Covered
  <2>1. Reported(j, q) \/ \E i \in 1 .. Len(j.queue) : IsPrefix(j.queue[i][1], q)
    BY AllTaken
  <2> QED BY <2>1 DEF Reported, Ahead
<1>7. ASSUME QuietInv(heap, words, j, s) PROVE QuietInv(heap, words, k, s)
  <2>1. InTree(heap, k) /\ Current(heap, k) /\ Exact(words, k, s) /\ k.skipped = FALSE
    BY <1>2, <1>7 DEF QuietInv, InTree, Current, Exact
  <2>2. Apart(k)
    BY <1>2, <1>7 DEF QuietInv, Apart
  <2>3. Behind(k)
    BY <1>2, <1>7 DEF QuietInv, Behind
  <2> QED BY <2>1, <2>2, <2>3, <1>1, <1>7 DEF QuietInv
<1> QED BY <1>3, <1>4, <1>5, <1>6, <1>7 DEF Carries, ReadInv

-----------------------------------------------------------------------------
(***************************************************************************)
(* The answers: ReadsAreRegular says this of a thread that is done.        *)
(***************************************************************************)
SuggestionsIn(w, prefix, limit) ==
    Best(SetToSeq({w[p] : p \in {q \in DOMAIN w : IsPrefix(prefix, q)}}), limit)

SearchRight(f, s) ==
    /\ f.answer = TRUE => \E e \in s.met : e[1] = f.key
    /\ f.answer = FALSE => f.key \notin s.kept

StartsWithRight(f, s) ==
    /\ f.answer = FALSE => s.kept = {}
    /\ f.answer = TRUE /\ s.quiet => f.key = <<>> \/ s.met # {}

AutocompleteRight(w, f, s) ==
    /\ \A i \in DOMAIN f.answer :
          f.answer[i] = EmptyText \/ \E e \in s.met : e[2] = f.answer[i]
    /\ Len(f.answer) < f.limit /\ ~ f.skipped =>
          \A k \in s.kept :
              \E i \in DOMAIN f.answer : f.answer[i] = EmptyText \/ Spells(f.answer[i], k)
    /\ s.quiet => f.answer = SuggestionsIn(w, f.key, f.limit)

Right(w, f, s) ==
    \/ f.op = "search" /\ SearchRight(f, s)
    \/ f.op = "starts_with" /\ StartsWithRight(f, s)
    \/ f.op = "autocomplete" /\ AutocompleteRight(w, f, s)

LEMMA RegularIs ==
    /\ ReadsAreRegular <=>
          \A t \in Threads : job[t].pc = "done" => Right(words, job[t], seen[t])
    /\ ReadsAreRegular' <=>
          \A t \in Threads : job'[t].pc = "done" => Right(words', job'[t], seen'[t])
  BY Zenon DEF ReadsAreRegular, SearchIsRegular, StartsWithIsRegular, AutocompleteIsRegular,
     Suggestions, SuggestionsIn, SearchRight, StartsWithRight, AutocompleteRight, Right

LEMMA NothingBest ==
    ASSUME NEW limit \in Nat
    PROVE  Best(SetToSeq({}), limit) = <<>>
<1> DEFINE s == <<>>
<1>1. /\ s \in Seq(Int \X Int) /\ Len(s) = 0 /\ Distinct(s) /\ Listing(s) = {}
      /\ \A i \in 1 .. Len(s) : s[i][2] \in Int
  BY DEF Distinct, Listing
<1> HIDE DEF s
<1>2. Best(SetToSeq({}), limit) = Best(s, limit)
  BY <1>1, SameBest
<1>3. Len(Best(s, limit)) = IF limit < Len(s) THEN limit ELSE Len(s)
  BY <1>1, BestIs
<1>4. Best(s, limit) \in Seq(Int)
  BY <1>1, BestIs
<1>5. Len(Best(s, limit)) = 0
  BY <1>1, <1>3
<1> QED BY <1>2, <1>4, <1>5, EmptySeq

\* No child for the next character: no word with this prefix was there all the time.
LEMMA LookEnds ==
    ASSUME TypeInv, WriterInv, NEW j \in Walking, NEW s, ReadInv(heap, words, j, s),
           s.quiet \in BOOLEAN, s.quiet = TRUE => QuietInv(heap, words, j, s),
           j.pc = "look", j.key[j.depth + 1] \notin DOMAIN heap[j.node].children,
           NEW f, SameCall(j, f),
           f.answer = IF j.op = "autocomplete" THEN <<>> ELSE FALSE
    PROVE  Right(words, f, s)
<1>1. Kept(words, j, s) /\ Position(j) /\ Alive(heap, j, s)
  BY DEF ReadInv
<1>2. /\ j.key \in Seq(Chars) /\ j.depth \in Nat /\ j.node \in Nodes /\ j.node[1] \in Seq(Chars)
      /\ j.op \in Reads /\ j.limit \in Nat
  BY WalkingIs, NodeFacts
<1>3. j.node[1] = Prefix(j.key, j.depth) /\ j.depth < Len(j.key)
  BY <1>1 DEF Position, Finding
<1>4. ASSUME NEW k \in s.kept PROVE FALSE
  <2>1. k \in Seq(Chars) /\ IsPrefix(j.key, k) /\ AtIn(heap, k) # None
    BY <1>1, KeptFacts
  <2>2. j.depth \in 0 .. Len(j.key) /\ j.depth + 1 \in 1 .. Len(j.key)
    BY <1>2, <1>3
  <2>3. Len(j.node[1]) = j.depth /\ IsPrefix(j.node[1], j.key)
    BY <1>2, <1>3, <2>2, PrefixOf
  <2>4. IsPrefix(j.node[1], k)
    BY <1>2, <2>1, <2>3, PrefixOrder
  <2>5. Len(j.key) <= Len(k) /\ k[j.depth + 1] = j.key[j.depth + 1]
    BY <1>2, <2>1, <2>2, PrefixIs
  <2>6. j.node[1] # k
    BY <1>2, <1>3, <2>1, <2>3, <2>5
  <2>7. k[Len(j.node[1]) + 1] \in DOMAIN heap[AtIn(heap, j.node[1])].children
    BY <1>2, <2>1, <2>4, <2>6, AtChild
  <2>8. AtIn(heap, j.node[1]) = j.node
    BY <2>4, <1>1 DEF Alive
  <2> QED BY <2>3, <2>5, <2>7, <2>8
<1>5. s.kept = {}
  BY <1>4
<1>6. CASE j.op \in {"search", "starts_with"}
  BY <1>5, <1>6 DEF SameCall, Right, SearchRight, StartsWithRight
<1>7. CASE j.op = "autocomplete"
  <2>1. f.answer = <<>> /\ f.limit \in Nat /\ f.op = "autocomplete" /\ f.key = j.key
    BY <1>2, <1>7 DEF SameCall
  <2>2. ASSUME s.quiet PROVE f.answer = SuggestionsIn(words, f.key, f.limit)
    <3>1. {q \in DOMAIN words : IsPrefix(f.key, q)} = {}
      BY <1>5, <2>1, <2>2 DEF QuietInv
    <3>2. {words[p] : p \in {q \in DOMAIN words : IsPrefix(f.key, q)}} = {}
      BY <3>1
    <3>3. SuggestionsIn(words, f.key, f.limit) = Best(SetToSeq({}), f.limit)
      BY <3>2, Zenon DEF SuggestionsIn
    <3> QED BY <3>3, <2>1, NothingBest
  <2>3. DOMAIN f.answer = {}
    <3>1. f.answer \in Seq(Int) /\ Len(f.answer) = 0
      BY <2>1, EmptySeq
    <3>2. DOMAIN f.answer = 1 .. 0
      BY <3>1, LenProperties
    <3>3. 1 .. 0 = {}
      OBVIOUS
    <3> QED BY <3>2, <3>3
  <2> QED BY <2>1, <2>2, <2>3, <1>5 DEF Right, AutocompleteRight
<1> QED BY <1>2, <1>6, <1>7 DEF Reads

\* The node of the key is found.
LEMMA FoundEnds ==
    ASSUME TypeInv, WriterInv, NEW j \in Walking, NEW s, ReadInv(heap, words, j, s),
           s.quiet \in BOOLEAN,
           s.quiet = TRUE => lock = None /\ QuietInv(heap, words, j, s),
           j.pc = "found", NEW f, SameCall(j, f),
           \/ j.op = "search" /\ f.answer = heap[j.node].is_end
           \/ j.op = "starts_with" /\ f.answer = TRUE
    PROVE  Right(words, f, s)
<1>1. /\ Kept(words, j, s) /\ Meets(heap, words, j, s) /\ Position(j) /\ Alive(heap, j, s)
  BY DEF ReadInv
<1>2. j.key \in Seq(Chars) /\ j.key \in Paths /\ j.node \in Nodes /\ f.key = j.key
      /\ f.op = j.op
  BY WalkingIs DEF SameCall
<1>3. j.node[1] = j.key /\ IsPrefix(j.key, j.key)
  BY <1>1, <1>2, PrefixAll, PrefixOrder DEF Position, Finding
<1>4. CASE j.op = "search"
  <2>1. ASSUME f.answer = TRUE PROVE \E e \in s.met : e[1] = f.key
    <3>1. j.key \in DOMAIN words
      BY <2>1, <1>2, <1>3, <1>4, MarkedNode
    <3> QED BY <3>1, <1>1, <1>2, <1>3 DEF Meets
  <2>2. ASSUME f.answer = FALSE, f.key \in s.kept PROVE FALSE
    <3>1. AtIn(heap, j.key) = j.node
      BY <2>2, <1>1, <1>2, <1>3 DEF Alive
    <3> QED BY <3>1, <2>2, <1>1, <1>2, <1>4, KeptFacts
  <2> QED BY <2>1, <2>2, <1>2, <1>4 DEF Right, SearchRight
<1>5. CASE j.op = "starts_with"
  <2>1. ASSUME s.quiet, j.key # <<>> PROVE s.met # {}
    <3>1. AtIn(heap, j.key) # None /\ Busy.pc = "idle"
      BY <2>1, <1>2, <1>3, NodeFacts DEF QuietInv, InTree, Busy, Idle
    <3>2. PICK q \in DOMAIN words : IsPrefix(j.key, q)
      BY <3>1, <2>1, <1>2 DEF WriterInv, Branching, Ending
    <3> QED BY <3>2, <1>1 DEF Meets
  <2> QED BY <2>1, <1>2, <1>5 DEF Right, StartsWithRight
<1> QED BY <1>4, <1>5

\* The queue is empty: autocomplete() sorts and cuts what it has collected.
LEMMA AutocompleteEnds ==
    ASSUME TypeInv, WriterInv, NEW j \in Walking, NEW s, ReadInv(heap, words, j, s),
           s.quiet \in BOOLEAN, s.quiet = TRUE => QuietInv(heap, words, j, s),
           j.pc = "next", j.queue = <<>>,
           heap[j.node].children = j.children => j.taken = DOMAIN heap[j.node].children,
           NEW f, SameCall(j, f), f.answer = Best(j.results, j.limit),
           f.skipped \in BOOLEAN,
           f.skipped = FALSE <=> j.skipped = FALSE /\ heap[j.node].children = j.children
    PROVE  Right(words, f, s)
<1> DEFINE r == j.results
           n == IF j.limit < Len(r) THEN j.limit ELSE Len(r)
<1>1. Kept(words, j, s) /\ Position(j) /\ Real(j, s)
  BY DEF ReadInv
<1>2. /\ j.limit \in Nat /\ r \in Seq(Int \X Int) /\ Len(r) \in Nat /\ j.key \in Seq(Chars)
      /\ \A i \in 1 .. Len(r) : r[i] \in Suggested /\ r[i][2] \in Texts \cup {EmptyText}
      /\ f.key = j.key /\ f.limit = j.limit /\ f.op = "autocomplete"
  BY <1>1, WalkingIs, ResultsOK
     DEF SameCall, Position, Collecting, AtOneNode
<1> HIDE DEF r
<1>3. /\ Len(f.answer) = n /\ n \in 0 .. Len(r) /\ n <= j.limit
      /\ DOMAIN f.answer = 1 .. n
      /\ \A i \in 1 .. n : SortOrder(r)[i] \in 1 .. Len(r)
                           /\ f.answer[i] = r[SortOrder(r)[i]][2]
  <2>1. f.answer = Best(r, j.limit)
    BY DEF r
  <2> HIDE DEF n
  <2>2. /\ Len(Best(r, j.limit)) = n /\ n \in 0 .. Len(r) /\ n <= j.limit
        /\ DOMAIN Best(r, j.limit) = 1 .. n
        /\ \A i \in 1 .. n : SortOrder(r)[i] \in 1 .. Len(r)
                             /\ Best(r, j.limit)[i] = r[SortOrder(r)[i]][2]
    BY <1>2, BestIs DEF n
  <2> QED BY <2>1, <2>2
<1>4. j.skipped = FALSE /\ heap[j.node].children = j.children =>
         \A q \in s.kept : Reported(j, q)
  <2>1. \A i : ~ (i \in 1 .. Len(j.queue))
    <3>1. Len(j.queue) = 0
      OBVIOUS
    <3> QED BY <3>1
  <2> QED BY <2>1, AllTaken
<1>5. \A i \in DOMAIN f.answer :
         f.answer[i] = EmptyText \/ \E e \in s.met : e[2] = f.answer[i]
  <2> HIDE DEF n
  <2> QED BY <1>1, <1>3 DEF Real, r
<1>6. ASSUME Len(f.answer) < f.limit, ~ f.skipped, NEW k \in s.kept
      PROVE  \E i \in DOMAIN f.answer : f.answer[i] = EmptyText \/ Spells(f.answer[i], k)
  <2>1. n = Len(r)
    BY <1>2, <1>3, <1>6
  <2>2. PICK i \in 1 .. Len(r) : r[i][2] = EmptyText \/ Key[r[i][2]] = k
    BY <1>4, <1>6 DEF Reported, r
  <2>3. PICK m \in 1 .. Len(r) : SortOrder(r)[m] = i
    BY <1>2, OrderReaches
  <2>4. m \in DOMAIN f.answer /\ f.answer[m] = r[i][2]
    BY <2>1, <2>3, <1>3
  <2> QED BY <2>2, <2>4 DEF Spells
<1>7. ASSUME s.quiet PROVE f.answer = SuggestionsIn(words, f.key, f.limit)
  <2>1. /\ s.kept = {q \in DOMAIN words : IsPrefix(j.key, q)} /\ j.skipped = FALSE
        /\ heap[j.node].children = j.children /\ Exact(words, j, s)
    BY <1>7 DEF QuietInv, Current
  <2>2. /\ \A i \in 1 .. Len(r) : \E k \in s.kept : r[i] = words[k]
        /\ Distinct(r)
    BY <2>1 DEF Exact, Distinct, r
  <2>3. Listing(r) = {words[p] : p \in s.kept}
    <3>1. ASSUME NEW k \in s.kept PROVE \E i \in 1 .. Len(r) : r[i] = words[k]
      <4>1. PICK i \in 1 .. Len(r) : r[i][2] = EmptyText \/ Key[r[i][2]] = k
        BY <2>1, <1>4 DEF Reported, r
      <4>2. PICK q \in s.kept : r[i] = words[q]
        BY <2>2
      <4>3. q \in DOMAIN words
        BY <2>1
      <4>4. words[q][2] \in Texts /\ Key[words[q][2]] = q /\ EmptyText \notin Texts
        BY <4>3, TrieAssumption DEF TypeInv, EmptyText
      <4>5. q = k
        BY <4>1, <4>2, <4>4
      <4> QED BY <4>2, <4>5
    <3> QED BY <3>1, <2>2 DEF Listing
  <2>4. f.answer = Best(SetToSeq(Listing(r)), j.limit)
    BY <2>2, <1>2, SameBest DEF r
  <2> QED BY <2>1, <2>3, <2>4, <1>2 DEF SuggestionsIn
<1> QED BY <1>2, <1>5, <1>6, <1>7 DEF Right, AutocompleteRight

-----------------------------------------------------------------------------
(***************************************************************************)
(* The reads as a whole.                                                   *)
(***************************************************************************)
\* A step of a read raises, goes on, or answers.
Moves(t) ==
    \/ job'[t] = Idle /\ seen' = [seen EXCEPT ![t] = NoWatch]
    \/ job'[t] \in Walking /\ seen' = seen /\ Carries(job[t], job'[t], seen[t])
    \/ job'[t] \in Finished /\ seen' = seen /\ Right(words, job'[t], seen[t])

LEMMA StepOK ==
    ASSUME TypeInv, NEW t \in Threads, ReadStep(t)
    PROVE  /\ job[t] \in Walking /\ job[t] \in Walks
           /\ DOMAIN job = Threads
           /\ job'[t] \in {Idle} \cup Walking \cup Finished
           /\ job'[t].pc \notin {"idle", "done"} => job'[t] \in Walking
           /\ job'[t].pc = "done" => job'[t] \in Finished
<1>1. job[t] \in Walking /\ DOMAIN job = Threads
  BY ReadTypes DEF TypeInv
<1>2. job'[t] \in {Idle} \cup Walking \cup Finished
  BY <1>1, ReadTypes
<1> QED BY <1>1, <1>2 DEF Idle, Walking, Walks, Finished

\* The record that Answer() leaves.
LEMMA AnswerGiven ==
    ASSUME TypeInv, NEW t \in Threads, ReadStep(t), NEW a, Answer(t, a)
    PROVE  /\ SameCall(job[t], job'[t]) /\ job'[t].answer = a /\ job'[t].pc = "done"
           /\ job'[t] \in Finished /\ job'[t].skipped = Skipped(t)
<1>1. /\ job'[t].pc = "done" /\ job'[t].answer = a /\ job'[t].skipped = Skipped(t)
      /\ SameCall(job[t], job'[t])
  BY StepOK DEF Answer, SameCall
<1> QED BY <1>1, StepOK

LEMMA ReadMoves ==
    ASSUME TypeInv, WriterInv, NEW t \in Threads, ReadStep(t),
           ReadInv(heap, words, job[t], seen[t]), seen[t].quiet \in BOOLEAN,
           seen[t].quiet = TRUE => lock = None /\ QuietInv(heap, words, job[t], seen[t])
    PROVE  Moves(t)
<1> DEFINE j == job[t]
           k == job'[t]
           s == seen[t]
<1>1. /\ j \in Walking /\ j \in Walks /\ DOMAIN job = Threads
      /\ k.pc \notin {"idle", "done"} => k \in Walking
  BY StepOK
<1>2. CASE Look(t)
  <2>1. CASE NextChar(t) \in DOMAIN heap[j.node].children
    <3>1. k = [j EXCEPT !.pc = "follow"] /\ j.pc = "look" /\ seen' = seen
      BY <1>1, <1>2, <2>1 DEF Look
    <3>2. /\ SameCall(j, k) /\ k.pc = "follow" /\ k.node = j.node /\ k.depth = j.depth
          /\ k.queue = j.queue /\ k.results = j.results /\ k.skipped = j.skipped
      BY <1>1, <3>1 DEF Walks, SameCall
    <3>3. Carries(j, k, s)
      <4> HIDE DEF j, k, s
      <4> QED BY <1>1, <3>1, <3>2, LookKeeps DEF j, s
    <3> QED BY <1>1, <3>1, <3>2, <3>3 DEF Moves
  <2>2. CASE ~ (NextChar(t) \in DOMAIN heap[j.node].children)
    <3>1. /\ Answer(t, IF j.op = "autocomplete" THEN <<>> ELSE FALSE)
          /\ j.pc = "look" /\ seen' = seen
          /\ j.key[j.depth + 1] \notin DOMAIN heap[j.node].children
      BY <1>2, <2>2 DEF Look, NextChar
    <3>2. /\ SameCall(j, k) /\ k \in Finished
          /\ k.answer = IF j.op = "autocomplete" THEN <<>> ELSE FALSE
      BY <3>1, AnswerGiven
    <3>3. Right(words, k, s)
      <4> HIDE DEF j, k, s
      <4> QED BY <1>1, <3>1, <3>2, LookEnds DEF j, s
    <3> QED BY <3>1, <3>2, <3>3 DEF Moves
  <2> QED BY <2>1, <2>2
<1>3. CASE Follow(t)
  <2> DEFINE c == j.key[j.depth + 1]
  <2>1. CASE Raise(t)
    BY <1>1, <2>1 DEF Raise, Moves
  <2>2. CASE ~ Raise(t)
    <3>1. /\ Child(j.node, c) # None /\ seen' = seen /\ j.pc = "follow"
          /\ k = [j EXCEPT !.node = Child(j.node, c), !.depth = j.depth + 1,
                           !.pc = IF j.depth + 1 = Len(j.key) THEN "found" ELSE "look"]
      BY <1>1, <1>3, <2>2 DEF Follow, NextChar
    <3>2. c \in DOMAIN heap[j.node].children /\ Child(j.node, c) = heap[j.node].children[c]
      BY <3>1 DEF Child
    <3>3. /\ SameCall(j, k) /\ k.node = heap[j.node].children[c] /\ k.depth = j.depth + 1
          /\ k.pc = IF k.depth = Len(k.key) THEN "found" ELSE "look"
          /\ k.queue = j.queue /\ k.results = j.results /\ k.skipped = j.skipped
      <4> HIDE DEF j, k, c
      <4> QED BY <1>1, <3>1, <3>2 DEF Walks, SameCall
    <3>4. k \in Walking
      BY <1>1, <3>3
    <3>5. Carries(j, k, s)
      <4> HIDE DEF j, k, s
      <4> QED BY <1>1, <3>1, <3>2, <3>3, <3>4, FollowKeeps DEF j, s
    <3> QED BY <3>1, <3>4, <3>5 DEF Moves
  <2> QED BY <2>1, <2>2
<1>4. CASE Found(t)
  <2>1. CASE \/ j.op = "search" /\ Answer(t, heap[j.node].is_end)
             \/ j.op = "starts_with" /\ Answer(t, TRUE)
    <3>1. j.pc = "found" /\ seen' = seen
      BY <1>4 DEF Found
    <3>2. /\ SameCall(j, k) /\ k \in Finished
          /\ \/ j.op = "search" /\ k.answer = heap[j.node].is_end
             \/ j.op = "starts_with" /\ k.answer = TRUE
      BY <2>1, AnswerGiven
    <3>3. Right(words, k, s)
      <4> HIDE DEF j, k, s
      <4> QED BY <1>1, <3>1, <3>2, FoundEnds DEF j, s
    <3> QED BY <3>1, <3>2, <3>3 DEF Moves
  <2>2. CASE /\ j.op = "autocomplete"
             /\ job' = [job EXCEPT ![t].pc = "visit", ![t].queue = <<job[t].node>>,
                                   ![t].node = Root, ![t].depth = 0]
    <3>1. /\ j.pc = "found" /\ seen' = seen
          /\ k = [j EXCEPT !.pc = "visit", !.queue = <<j.node>>, !.node = Root, !.depth = 0]
      BY <1>1, <1>4, <2>2 DEF Found
    <3>2. /\ SameCall(j, k) /\ k.pc = "visit" /\ k.queue = <<j.node>> /\ k.node = Root
          /\ k.results = j.results /\ k.skipped = j.skipped
      <4> HIDE DEF j, k
      <4> QED BY <1>1, <3>1 DEF Walks, SameCall
    <3>3. k \in Walking
      BY <1>1, <3>2
    <3>4. Carries(j, k, s)
      <4> HIDE DEF j, k, s
      <4> QED BY <1>1, <2>2, <3>1, <3>2, <3>3, FoundKeeps DEF j, s
    <3> QED BY <3>1, <3>3, <3>4 DEF Moves
  <2> QED BY <1>4, <2>1, <2>2 DEF Found
<1>5. CASE Visit(t)
  <2>1. /\ j.pc = "visit" /\ seen' = seen
        /\ k = [j EXCEPT !.node = Head(j.queue), !.queue = Tail(j.queue),
                         !.pc = IF heap[Head(j.queue)].is_end THEN "read_weight"
                                                              ELSE "children"]
    BY <1>1, <1>5 DEF Visit
  <2>2. /\ SameCall(j, k) /\ k.node = Head(j.queue) /\ k.queue = Tail(j.queue)
        /\ k.pc = IF heap[Head(j.queue)].is_end THEN "read_weight" ELSE "children"
        /\ k.results = j.results /\ k.skipped = j.skipped
    <3> HIDE DEF j, k
    <3> QED BY <1>1, <2>1 DEF Walks, SameCall
  <2>3. k \in Walking
    BY <1>1, <2>2
  <2>4. Carries(j, k, s)
    <3> HIDE DEF j, k, s
    <3> QED BY <1>1, <2>1, <2>2, <2>3, VisitKeeps DEF j, s
  <2> QED BY <2>1, <2>3, <2>4 DEF Moves
<1>6. CASE ReadWeight(t)
  <2>1. /\ j.pc = "read_weight" /\ seen' = seen
        /\ k = [j EXCEPT !.weight = heap[j.node].weight, !.pc = "read_value"]
    BY <1>1, <1>6 DEF ReadWeight
  <2>2. /\ SameCall(j, k) /\ k.pc = "read_value" /\ k.weight = heap[j.node].weight
        /\ k.node = j.node /\ k.queue = j.queue /\ k.results = j.results
        /\ k.skipped = j.skipped
    <3> HIDE DEF j, k
    <3> QED BY <1>1, <2>1 DEF Walks, SameCall
  <2>3. k \in Walking
    BY <1>1, <2>2
  <2>4. Carries(j, k, s)
    <3> HIDE DEF j, k, s
    <3> QED BY <1>1, <2>1, <2>2, <2>3, ReadWeightKeeps DEF j, s
  <2> QED BY <2>1, <2>3, <2>4 DEF Moves
<1>7. CASE ReadValue(t)
  <2>1. /\ j.pc = "read_value" /\ seen' = seen
        /\ k = [j EXCEPT !.results = Append(j.results, <<j.weight, heap[j.node].value>>),
                         !.weight = 0, !.pc = "children"]
    BY <1>1, <1>7 DEF ReadValue
  <2>2. /\ SameCall(j, k) /\ k.pc = "children"
        /\ k.results = Append(j.results, <<j.weight, heap[j.node].value>>)
        /\ k.node = j.node /\ k.queue = j.queue /\ k.skipped = j.skipped
    <3> HIDE DEF j, k
    <3> QED BY <1>1, <2>1 DEF Walks, SameCall
  <2>3. k \in Walking
    BY <1>1, <2>2
  <2>4. Carries(j, k, s)
    <3> HIDE DEF j, k, s
    <3> QED BY <1>1, <2>1, <2>2, <2>3, ReadValueKeeps DEF j, s
  <2> QED BY <2>1, <2>3, <2>4 DEF Moves
<1>8. CASE Iterate(t)
  <2>1. /\ j.pc = "children" /\ seen' = seen
        /\ k = [j EXCEPT !.children = heap[j.node].children, !.taken = {}, !.pc = "next"]
    BY <1>1, <1>8 DEF Iterate
  <2>2. /\ SameCall(j, k) /\ k.pc = "next" /\ k.children = heap[j.node].children
        /\ k.taken = {} /\ k.node = j.node /\ k.queue = j.queue
        /\ k.results = j.results /\ k.skipped = j.skipped
    <3> HIDE DEF j, k
    <3> QED BY <1>1, <2>1 DEF Walks, SameCall
  <2>3. k \in Walking
    BY <1>1, <2>2
  <2>4. Carries(j, k, s)
    <3> HIDE DEF j, k, s
    <3> QED BY <1>1, <2>1, <2>2, <2>3, IterateKeeps DEF j, s
  <2> QED BY <2>1, <2>3, <2>4 DEF Moves
<1>9. CASE NextChild(t)
  <2>1. j.pc = "next" /\ Now(t) = heap[j.node].children /\ j.skipped \in BOOLEAN
    BY <1>1, <1>9 DEF NextChild, Now, Walks
  <2>2. Skipped(t) \in BOOLEAN
        /\ (Skipped(t) = FALSE <=> j.skipped = FALSE /\ heap[j.node].children = j.children)
    BY <2>1 DEF Skipped
  <2>3. CASE Raise(t)
    BY <1>1, <2>3 DEF Raise, Moves
  <2>4. CASE TakeChild(t) /\ seen' = seen
    <3>1. PICK c \in DOMAIN Now(t) \ j.taken :
             k = [j EXCEPT !.taken = j.taken \cup {c}, !.queue = Append(j.queue, Now(t)[c]),
                           !.skipped = Skipped(t)]
      BY <1>1, <2>4 DEF TakeChild
    <3>2. /\ SameCall(j, k) /\ k.pc = "next" /\ k.taken = j.taken \cup {c}
          /\ k.queue = Append(j.queue, heap[j.node].children[c]) /\ k.skipped = Skipped(t)
          /\ k.node = j.node /\ k.children = j.children /\ k.results = j.results
      <4> HIDE DEF j, k
      <4> QED BY <1>1, <2>1, <3>1 DEF Walks, SameCall
    <3>3. k \in Walking
      BY <1>1, <3>2
    <3>4. /\ c \in DOMAIN heap[j.node].children /\ c \notin j.taken
          /\ k.skipped = FALSE <=> j.skipped = FALSE /\ heap[j.node].children = j.children
      BY <2>1, <2>2, <3>1, <3>2
    <3>5. Carries(j, k, s)
      <4> HIDE DEF j, k, s
      <4> QED BY <1>1, <2>1, <3>2, <3>3, <3>4, TakeChildKeeps DEF j, s
    <3> QED BY <2>4, <3>3, <3>5 DEF Moves
  <2>5. CASE EndIteration(t) /\ seen' = seen
             /\ (heap[j.node].children = j.children => j.taken = DOMAIN heap[j.node].children)
    <3>1. CASE j.queue = <<>>
      <4>1. Answer(t, Best(j.results, j.limit))
        BY <2>5, <3>1 DEF EndIteration
      <4>2. /\ SameCall(j, k) /\ k \in Finished /\ k.answer = Best(j.results, j.limit)
            /\ k.skipped = Skipped(t)
        BY <4>1, AnswerGiven
      <4>3. Right(words, k, s)
        <5> HIDE DEF j, k, s
        <5> QED BY <1>1, <2>1, <2>2, <2>5, <3>1, <4>2, AutocompleteEnds DEF j, s
      <4> QED BY <2>5, <4>2, <4>3 DEF Moves
    <3>2. CASE j.queue # <<>>
      <4>1. k = [j EXCEPT !.pc = "visit", !.skipped = Skipped(t)]
        BY <1>1, <2>5, <3>2 DEF EndIteration
      <4>2. /\ SameCall(j, k) /\ k.pc = "visit" /\ k.skipped = Skipped(t)
            /\ k.node = j.node /\ k.queue = j.queue /\ k.results = j.results
        <5> HIDE DEF j, k
        <5> QED BY <1>1, <4>1 DEF Walks, SameCall
      <4>3. k \in Walking
        BY <1>1, <4>2
      <4>4. k.skipped = FALSE <=> j.skipped = FALSE /\ heap[j.node].children = j.children
        BY <2>2, <4>2
      <4>5. Carries(j, k, s)
        <5> HIDE DEF j, k, s
        <5> QED BY <1>1, <2>1, <2>5, <4>2, <4>3, <4>4, EndIterationKeeps DEF j, s
      <4> QED BY <2>5, <4>3, <4>5 DEF Moves
    <3> QED BY <3>1, <3>2
  <2> QED BY <1>9, <2>1, <2>3, <2>4, <2>5 DEF NextChild
<1> QED BY <1>2, <1>3, <1>4, <1>5, <1>6, <1>7, <1>8, <1>9 DEF ReadStep

\* What concerns one thread in the next state.
KeptUp(u) ==
    /\ job'[u] \in Walking =>
          /\ ReadInv(heap', words', job'[u], seen'[u])
          /\ seen'[u].quiet = TRUE =>
                lock' = None /\ QuietInv(heap', words', job'[u], seen'[u])
    /\ seen'[u].quiet \in BOOLEAN
    /\ job'[u].pc = "done" => Right(words', job'[u], seen'[u])

LEMMA AllKeptUp ==
    ASSUME \A u \in Threads : KeptUp(u)
    PROVE  ReaderInv'
<1>1. ReadsAreRegular'
  BY RegularIs DEF KeptUp
<1>2. \A t \in Threads : job'[t] \in Walking =>
          /\ ReadInv(heap', words', job'[t], seen'[t])
          /\ seen'[t].quiet = TRUE =>
                lock' = None /\ QuietInv(heap', words', job'[t], seen'[t])
  BY DEF KeptUp
<1>3. \A t \in Threads : seen'[t].quiet \in BOOLEAN
  BY DEF KeptUp
<1> QED BY <1>1, <1>2, <1>3 DEF ReaderInv

\* A thread that is not concerned.
LEMMA OthersKeptUp ==
    ASSUME ReaderInv, NEW u \in Threads, job'[u] = job[u], seen'[u] = seen[u],
           UNCHANGED <<heap, lock, words>>
    PROVE  KeptUp(u)
  BY RegularIs DEF ReaderInv, KeptUp

LEMMA NotWalking == Idle \notin Walking /\ Idle.pc = "idle" /\ NoWatch.quiet = FALSE
  BY DEF Idle, Walking, Walks, NoWatch

LEMMA ReturnKeepsUp ==
    ASSUME TypeInv, ReaderInv, NEW t \in Threads, Return(t)
    PROVE  ReaderInv'
<1>1. /\ DOMAIN job = Threads /\ DOMAIN seen = Threads /\ UNCHANGED <<heap, lock, words>>
      /\ job' = [job EXCEPT ![t] = Idle] /\ seen' = [seen EXCEPT ![t] = NoWatch]
  BY DEF Return, TypeInv
<1>2. KeptUp(t)
  BY <1>1, NotWalking DEF KeptUp
<1>3. \A u \in Threads : u # t => KeptUp(u)
  BY <1>1, OthersKeptUp
<1> QED BY <1>2, <1>3, AllKeptUp

LEMMA WriteKeepsUp ==
    ASSUME TypeInv, WriterInv, ReaderInv, TypeInv', NEW t \in Threads, Write(t),
           \A u \in Threads : job[u].pc # "done"
    PROVE  ReaderInv'
<1>1. /\ \A u \in Threads : u # t => job'[u] = job[u]
      /\ lock' = t \/ job'[t] = Idle
      /\ Observe
  BY WriteJobs
<1>2. job'[t] \notin Walking /\ job'[t].pc # "done"
  <2>1. CASE lock' = t
    <3>1. job'[t].op \in {"insert", "delete"} /\ job'[t] \in Jobs
      BY <2>1 DEF TypeInv
    <3> QED BY <3>1 DEF Jobs, Idle, Inserting, Deleting, Walking, Walks, Finished, Reads
  <2>2. CASE job'[t] = Idle
    BY <2>2, NotWalking
  <2> QED BY <1>1, <2>1, <2>2
<1>3. \A u \in Threads : seen'[u].quiet \in BOOLEAN
  <2> SUFFICES ASSUME NEW u \in Threads PROVE seen'[u].quiet \in BOOLEAN
    OBVIOUS
  <2>1. CASE Reading(u)
    BY <1>1, <2>1 DEF Observe
  <2>2. CASE ~ Reading(u)
    BY <1>1, <2>2 DEF Observe, ReaderInv
  <2> QED BY <2>1, <2>2
<1>4. ASSUME NEW u \in Threads, u # t PROVE KeptUp(u)
  <2>1. job'[u] = job[u] /\ job'[u].pc # "done"
    BY <1>1, <1>4
  <2>2. ASSUME job[u] \in Walking
        PROVE  /\ ReadInv(heap', words', job[u], seen'[u])
               /\ seen'[u].quiet = FALSE
    BY <2>2, <1>1, WriteHarmless, ReadBearsWrite DEF ReaderInv
  <2> QED BY <2>1, <2>2, <1>3 DEF KeptUp
<1>5. KeptUp(t)
  BY <1>2, <1>3 DEF KeptUp
<1> QED BY <1>4, <1>5, AllKeptUp

LEMMA CallKeepsUp ==
    ASSUME TypeInv, WriterInv, ReaderInv, NEW t \in Threads, Call(t)
    PROVE  ReaderInv'
<1>1. PICK op \in Reads, x \in Texts, limit \in Nat : Read(t, op, x, limit)
  BY CallTypes
<1> DEFINE k == [pc |-> IF Key[x] # <<>> THEN "look" ELSE "found",
                 op |-> op, key |-> Key[x], limit |-> limit,
                 depth |-> 0, node |-> Root, queue |-> <<>>,
                 children |-> NewNode.children, taken |-> {},
                 weight |-> 0, results |-> <<>>, skipped |-> FALSE]
<1>2. /\ DOMAIN job = Threads /\ DOMAIN seen = Threads
      /\ UNCHANGED <<heap, lock, words>>
      /\ job' = [job EXCEPT ![t] = k] /\ seen' = [seen EXCEPT ![t] = Watch(Key[x])]
  BY <1>1 DEF Read, TypeInv
<1>3. k \in Walking
  BY ReadStarts
<1>4. /\ k.key = Key[x] /\ k.pc = IF k.key # <<>> THEN "look" ELSE "found"
      /\ k.depth = 0 /\ k.node = Root /\ k.queue = <<>> /\ k.results = <<>>
      /\ k.skipped = FALSE /\ k.pc # "done"
  OBVIOUS
<1> HIDE DEF k
<1>5. /\ ReadInv(heap, words, k, Watch(Key[x]))
      /\ Watch(Key[x]).quiet \in BOOLEAN
      /\ Watch(Key[x]).quiet = TRUE =>
            lock = None /\ QuietInv(heap, words, k, Watch(Key[x]))
  BY <1>3, <1>4, ReadBegins
<1>6. KeptUp(t)
  <2>1. job'[t] = k /\ seen'[t] = Watch(Key[x])
    BY <1>2
  <2> QED BY <2>1, <1>2, <1>4, <1>5 DEF KeptUp
<1>7. \A u \in Threads : u # t => KeptUp(u)
  BY <1>2, OthersKeptUp
<1> QED BY <1>6, <1>7, AllKeptUp

LEMMA ReadKeepsUp ==
    ASSUME TypeInv, WriterInv, ReaderInv, NEW t \in Threads, ReadStep(t)
    PROVE  ReaderInv'
<1>1. /\ job[t] \in Walking /\ DOMAIN job = Threads /\ DOMAIN seen = Threads
      /\ UNCHANGED <<heap, lock, words>>
  BY ReadTypes DEF TypeInv
<1>2. \A u \in Threads : u # t => job'[u] = job[u] /\ seen'[u] = seen[u]
  BY ReadTypes, <1>1
<1>3. /\ ReadInv(heap, words, job[t], seen[t]) /\ seen[t].quiet \in BOOLEAN
      /\ seen[t].quiet = TRUE => lock = None /\ QuietInv(heap, words, job[t], seen[t])
  BY <1>1 DEF ReaderInv
<1>4. Moves(t)
  BY <1>3, ReadMoves
<1>5. KeptUp(t)
  <2>1. CASE job'[t] = Idle /\ seen' = [seen EXCEPT ![t] = NoWatch]
    BY <2>1, <1>1, NotWalking DEF KeptUp
  <2>2. CASE job'[t] \in Walking /\ seen' = seen /\ Carries(job[t], job'[t], seen[t])
    <3>1. job'[t].pc # "done"
      BY <2>2 DEF Walking, Walks
    <3> QED BY <2>2, <3>1, <1>1, <1>3 DEF KeptUp, Carries
  <2>3. CASE job'[t] \in Finished /\ seen' = seen /\ Right(words, job'[t], seen[t])
    <3>1. job'[t] \notin Walking
      BY <2>3 DEF Finished, Walking, Walks
    <3> QED BY <2>3, <3>1, <1>1, <1>3 DEF KeptUp
  <2> QED BY <1>4, <2>1, <2>2, <2>3 DEF Moves
<1>6. \A u \in Threads : u # t => KeptUp(u)
  BY <1>1, <1>2, OthersKeptUp
<1> QED BY <1>5, <1>6, AllKeptUp

\* What a read without the lock still promises (trie.py:53-82): it misses no word that
\* was stored all the time and reports none that never was; when no writer was at work
\* it answers exactly what the words in the trie say.
THEOREM ReadsRegular == Spec => []ReadsAreRegular
<1>1. Init => ReaderInv
  <2> SUFFICES ASSUME Init PROVE ReaderInv
    OBVIOUS
  <2>1. \A t \in Threads : job[t] = Idle /\ seen[t] = NoWatch
    BY DEF Init
  <2>2. ReadsAreRegular
    BY <2>1, NotWalking, RegularIs
  <2> QED BY <2>1, <2>2, NotWalking DEF ReaderInv
<1>2. TypeInv /\ WriterInv /\ ReaderInv /\ TypeInv' /\ [Next]_vars => ReaderInv'
  <2> SUFFICES ASSUME TypeInv, WriterInv, ReaderInv, TypeInv', [Next]_vars
               PROVE  ReaderInv'
    OBVIOUS
  <2>1. CASE UNCHANGED vars
    BY <2>1, OthersKeptUp, AllKeptUp DEF vars
  <2>2. CASE \E t \in Threads : Return(t)
    BY <2>2, ReturnKeepsUp
  <2>3. CASE /\ \A t \in Threads : job[t].pc # "done"
             /\ \E t \in Threads : Write(t) \/ Call(t) \/ ReadStep(t)
    BY <2>3, WriteKeepsUp, CallKeepsUp, ReadKeepsUp
  <2> QED BY <2>1, <2>2, <2>3 DEF Next
<1>3. ReaderInv => ReadsAreRegular
  BY DEF ReaderInv
<1> QED BY <1>1, <1>2, <1>3, WritersInv, PTL DEF Spec
=============================================================================
