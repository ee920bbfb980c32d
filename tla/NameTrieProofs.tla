--------------------------- MODULE NameTrieProofs ---------------------------
(***************************************************************************)
(* The name trie, for every alphabet, every width of the header and every  *)
(* list of names that can be built: a number is read back from its bytes;  *)
(* the tree is packed into the bytes it was counted to need; the walk      *)
(* stands at a node of it and finds what the list of names says.           *)
(***************************************************************************)
EXTENDS NameTrie, FiniteSetTheorems, TLAPS

LEMMA LowPositive == LOW \in Nat \ {0, 1}
  BY MaskAssumption DEF LOW, MASKS_LAST

LEMMA Division ==
    ASSUME NEW a \in Nat, NEW b \in Nat \ {0}
    PROVE  /\ a \div b \in Nat
           /\ a % b \in 0 .. b - 1
           /\ a = b * (a \div b) + (a % b)
  OBVIOUS

LEMMA FlagDropped ==
    ASSUME NEW b \in Nat \ {0}, NEW r \in 0 .. b - 1
    PROVE  (b + r) % b = r /\ r % b = r
  OBVIOUS

LEMMA QuotientBound ==
    ASSUME NEW a \in Nat, NEW b \in Nat \ {0}, NEW c \in Nat, a < b * c
    PROVE  a \div b < c
  OBVIOUS

(* What a byte tells, flagged or not. *)
LEMMA PlainByte ==
    ASSUME NEW pos \in Nat, NEW r \in 0 .. LOW - 1, At(pos) = r
    PROVE  ~More(pos) /\ LowPart(pos) = r
  BY LowPositive, FlagDropped DEF More, LowPart

LEMMA FlaggedByte ==
    ASSUME NEW pos \in Nat, NEW r \in 0 .. LOW - 1, At(pos) = LOW + r
    PROVE  More(pos) /\ LowPart(pos) = r
  BY LowPositive, FlagDropped DEF More, LowPart

(* The array holds the bytes s from pos on. *)
Holds(pos, s) == \A i \in DOMAIN s : At(pos + i - 1) = s[i]

(* A subtree size is read back from its bytes, whether it took one, two or *)
(* three, and skipped over exactly.                                        *)
THEOREM SizeReadBack ==
    ASSUME NEW pos \in Nat, NEW size \in Nat,
           size < 2 * (LOW * (LOW * LOW)), Holds(pos, PackSize(size))
    PROVE  /\ GetSubtreeSize(pos) = size
           /\ SkipSubtreeSize(pos) = pos + SizeSize(size)
<1> DEFINE q == size \div LOW
<1>0. LOW \in Nat \ {0, 1} /\ LOW * LOW \in Nat \ {0} /\ LOW < LOW * LOW
  BY LowPositive
<1>1. q \in Nat /\ size % LOW \in 0 .. LOW - 1 /\ size = LOW * q + (size % LOW)
  BY <1>0, Division
<1>2. CASE size < LOW
  <2>1. PackSize(size) = <<size>>
    BY <1>2 DEF PackSize
  <2>2. At(pos) = size
    BY <2>1 DEF Holds
  <2>3. ~More(pos) /\ LowPart(pos) = size
    BY <1>0, <1>2, <2>2, PlainByte
  <2>4. SizeSize(size) = 1
    BY <1>0, <1>2 DEF SizeSize
  <2> QED BY <2>3, <2>4 DEF GetSubtreeSize, SkipSubtreeSize
<1>3. CASE size >= LOW /\ size < LOW * LOW
  <2>1. PackSize(size) = <<LOW + (size % LOW), q>>
    BY <1>0, <1>3 DEF PackSize
  <2>2. At(pos) = LOW + (size % LOW) /\ At(pos + 1) = q
    BY <2>1 DEF Holds
  <2>3. q < LOW
    BY <1>0, <1>3, QuotientBound
  <2>4. More(pos) /\ LowPart(pos) = size % LOW
    BY <1>1, <2>2, FlaggedByte
  <2>5. ~More(pos + 1) /\ LowPart(pos + 1) = q
    BY <1>0, <1>1, <2>2, <2>3, PlainByte
  <2>6. SizeSize(size) = 2
    BY <1>0, <1>3 DEF SizeSize
  <2> QED BY <1>0, <1>1, <2>4, <2>5, <2>6 DEF GetSubtreeSize, SkipSubtreeSize
<1>4. CASE size >= LOW * LOW
  <2> DEFINE t == q \div LOW
  <2>1. t \in Nat /\ q % LOW \in 0 .. LOW - 1 /\ q = LOW * t + (q % LOW)
    BY <1>0, <1>1, Division
  <2>2. size \div (LOW * LOW) = t /\ t < 2 * LOW
    <3>1. size \div (LOW * LOW) = t
      BY <1>0
    <3>2. size < (LOW * LOW) * (2 * LOW)
      BY <1>0
    <3> QED BY <1>0, <3>1, <3>2, QuotientBound
  <2>3. t % (2 * LOW) = t
    BY <1>0, <2>1, <2>2, FlagDropped
  <2>4. PackSize(size) = <<LOW + (size % LOW), LOW + (q % LOW), t>>
    BY <1>0, <1>4, <2>2, <2>3 DEF PackSize
  <2>5. At(pos) = LOW + (size % LOW) /\ At(pos + 1) = LOW + (q % LOW) /\ At(pos + 2) = t
    BY <2>4 DEF Holds
  <2>6. More(pos) /\ LowPart(pos) = size % LOW
    BY <1>1, <2>5, FlaggedByte
  <2>7. More(pos + 1) /\ LowPart(pos + 1) = q % LOW
    BY <2>1, <2>5, FlaggedByte
  <2>8. SizeSize(size) = 3
    BY <1>0, <1>4 DEF SizeSize
  <2>9. GetSubtreeSize(pos) = (size % LOW) + LOW * ((q % LOW) + LOW * t)
    BY <2>5, <2>6, <2>7 DEF GetSubtreeSize
  <2> QED BY <1>0, <1>1, <2>1, <2>6, <2>7, <2>8, <2>9 DEF SkipSubtreeSize
<1> QED BY <1>0, <1>2, <1>3, <1>4

(* The index of a command is read back, and the walk that does not ask for *)
(* it skips exactly its bytes: feed() finds the size behind it.            *)
THEOREM IndexReadBack ==
    ASSUME NEW index \in Nat \ {0}, index - 1 < LOW * (2 * LOW), m_pos \in Nat,
           IsLeaf(m_pos), Holds(m_pos + 1, PackIndex(index))
    PROVE  /\ GetCommandIndex = index - 1
           /\ SkipCommandIndex(m_pos) = m_pos + 1 + IndexSize(index)
<1> DEFINE c == index - 1
<1>0. LOW \in Nat \ {0, 1} /\ c \in Nat /\ m_pos + 1 \in Nat
  BY LowPositive
<1>1. c \div LOW \in Nat /\ c % LOW \in 0 .. LOW - 1 /\ c = LOW * (c \div LOW) + (c % LOW)
  BY <1>0, Division
<1>2. CASE index <= LOW
  <2>1. PackIndex(index) = <<c>>
    BY <1>0, <1>2 DEF PackIndex
  <2>2. At(m_pos + 1) = c
    BY <2>1 DEF Holds
  <2>3. ~More(m_pos + 1) /\ LowPart(m_pos + 1) = c
    BY <1>0, <1>2, <2>2, PlainByte
  <2>4. IndexSize(index) = 1
    BY <1>0, <1>2 DEF IndexSize
  <2> QED BY <1>0, <2>3, <2>4 DEF GetCommandIndex, SkipCommandIndex
<1>3. CASE index > LOW
  <2>1. PackIndex(index) = <<LOW + (c % LOW), c \div LOW>>
    BY <1>0, <1>3 DEF PackIndex
  <2>2. At(m_pos + 1) = LOW + (c % LOW) /\ At(m_pos + 2) = c \div LOW
    BY <2>1 DEF Holds
  <2>3. More(m_pos + 1) /\ LowPart(m_pos + 1) = c % LOW
    BY <1>0, <1>1, <2>2, FlaggedByte
  <2>4. IndexSize(index) = 2
    BY <1>0, <1>3 DEF IndexSize
  <2>5. GetCommandIndex = (c % LOW) + LOW * (c \div LOW)
    BY <2>2, <2>3 DEF GetCommandIndex
  <2>6. SkipCommandIndex(m_pos) = m_pos + 3
    BY <2>3 DEF SkipCommandIndex
  <2> QED BY <1>0, <1>1, <2>4, <2>5, <2>6
<1>4. index <= LOW \/ index > LOW
  BY <1>0
<1> HIDE DEF c
<1> QED BY <1>2, <1>3, <1>4
-----------------------------------------------------------------------------
(* Induction over the naturals, stated about sets, so that any prover can  *)
(* use it: T stands for the predicate.  It follows from the strict         *)
(* ordering of the finite sets being well founded.                         *)
LEMMA LeastMember ==
    ASSUME NEW T, T \subseteq Nat, T # {}
    PROVE  \E x \in T : \A y \in T : x <= y
<1> DEFINE Smaller   == StrictSubsetOrdering(Nat)
           Finite    == FiniteSubsetsOf(Nat)
           Intervals == {1 .. n : n \in T}
<1>1. IsWellFoundedOn(Smaller, Finite)
  BY FS_StrictSubsetOrderingWellFounded
<1>2. Intervals \subseteq Finite /\ Intervals # {}
  <2>1. ASSUME NEW n \in T PROVE 1 .. n \in Finite
    <3>1. IsFiniteSet(1 .. n)
      BY FS_Interval
    <3> QED BY <3>1 DEF FiniteSubsetsOf
  <2> QED BY <2>1
<1>3. \E X \in Intervals : \A Y \in Intervals : <<Y, X>> \notin Smaller
  <2> HIDE DEF Smaller, Finite, Intervals
  <2> QED BY <1>1, <1>2, WFMin
<1>4. PICK n \in T : \A m \in T : <<1 .. m, 1 .. n>> \notin Smaller
  BY <1>3
<1>5. ASSUME NEW m \in T PROVE n <= m
  <2> SUFFICES ASSUME m < n PROVE FALSE
    OBVIOUS
  <2>1. 1 .. m \subseteq 1 .. n /\ n \in 1 .. n /\ n \notin 1 .. m
    OBVIOUS
  <2>2. 1 .. m \in SUBSET Nat /\ 1 .. n \in SUBSET Nat
    OBVIOUS
  <2> QED BY <2>1, <2>2, <1>4 DEF StrictSubsetOrdering
<1> QED BY <1>5

LEMMA SetInduction ==
    ASSUME NEW T, 0 \in T, \A n \in Nat : n \in T => n + 1 \in T
    PROVE  Nat \subseteq T
<1> SUFFICES ASSUME Nat \ T # {} PROVE FALSE
  OBVIOUS
<1>1. PICK m \in Nat \ T : \A y \in Nat \ T : m <= y
  BY LeastMember
<1>2. m # 0 /\ m - 1 \in Nat
  OBVIOUS
<1> QED BY <1>1, <1>2

LEMMA IntervalInduction ==
    ASSUME NEW lo \in Int, NEW hi \in Int, NEW T,
           lo <= hi => lo \in T,
           \A n \in lo .. hi - 1 : n \in T => n + 1 \in T
    PROVE  lo .. hi \subseteq T
<1> SUFFICES ASSUME lo <= hi PROVE lo .. hi \subseteq T
  OBVIOUS
<1> DEFINE U == {n \in Nat : lo + n <= hi => lo + n \in T}
<1>1. 0 \in U
  OBVIOUS
<1>2. ASSUME NEW n \in Nat, n \in U PROVE n + 1 \in U
  <2> SUFFICES ASSUME lo + (n + 1) <= hi PROVE lo + (n + 1) \in T
    OBVIOUS
  <2>1. lo + n \in lo .. hi - 1 /\ lo + n \in T
    BY <1>2
  <2>2. (lo + n) + 1 \in T
    BY <2>1
  <2> QED BY <2>2
<1>3. Nat \subseteq U
  <2> HIDE DEF U
  <2> QED BY <1>1, <1>2, SetInduction
<1>4. ASSUME NEW m \in lo .. hi PROVE m \in T
  <2>1. m - lo \in U
    BY <1>3
  <2> QED BY <2>1
<1> QED BY <1>4

(* The same, with the hypothesis as one fact. *)
Inductive(T, lo, hi) == /\ lo <= hi => lo \in T
                        /\ \A n \in lo .. hi - 1 : n \in T => n + 1 \in T

LEMMA InductiveHolds ==
    ASSUME NEW lo \in Int, NEW hi \in Int, NEW T, Inductive(T, lo, hi)
    PROVE  lo .. hi \subseteq T
<1>1. lo <= hi => lo \in T
  BY DEF Inductive
<1>2. \A n \in lo .. hi - 1 : n \in T => n + 1 \in T
  BY DEF Inductive
<1> QED BY <1>1, <1>2, IntervalInduction

-----------------------------------------------------------------------------
(* The nodes, for a list of names that buildTrie accepts. *)
Name == Seq(Encodable) \ {<<>>}

LEMMA NamesListed ==
    ASSUME NEW t \in Tables
    PROVE  /\ t \in Seq(Name) /\ Len(t) \in Nat /\ DOMAIN t = 1 .. Len(t)
           /\ \A i \in DOMAIN t : t[i] \in Seq(Encodable) /\ Len(t[i]) \in Nat \ {0}
<1>1. t \in Seq(Name)
  BY TablesAssumption DEF Name
<1>2. ASSUME NEW n \in Name PROVE Len(n) \in Nat \ {0}
  BY DEF Name
<1> QED BY <1>1, <1>2 DEF Name

(* What begins a name. *)
LEMMA Beginning ==
    ASSUME NEW n \in Seq(Encodable), NEW k \in 0 .. Len(n)
    PROVE  /\ SubSeq(n, 1, k) \in Seq(Encodable) /\ Len(SubSeq(n, 1, k)) = k
           /\ \A j \in 1 .. k : SubSeq(n, 1, k)[j] = n[j]
  OBVIOUS

LEMMA Whole ==
    ASSUME NEW S, NEW s \in Seq(S)
    PROVE  SubSeq(s, 1, Len(s)) = s
  OBVIOUS

LEMMA BeginsWith ==
    ASSUME NEW p \in Seq(Encodable), NEW n \in Seq(Encodable)
    PROVE  /\ IsPrefix(p, n) <=> Len(p) <= Len(n) /\ SubSeq(n, 1, Len(p)) = p
           /\ IsPrefix(p, n) <=> Len(p) <= Len(n) /\ \A j \in 1 .. Len(p) : n[j] = p[j]
<1>1. IsPrefix(p, n) <=> Len(p) <= Len(n) /\ SubSeq(n, 1, Len(p)) = p
  BY Whole DEF IsPrefix
<1>2. ASSUME Len(p) <= Len(n)
      PROVE  SubSeq(n, 1, Len(p)) = p <=> \A j \in 1 .. Len(p) : n[j] = p[j]
  <2>1. PICK m : m = SubSeq(n, 1, Len(p))
    OBVIOUS
  <2>2. m \in Seq(Encodable) /\ Len(m) = Len(p) /\ \A j \in 1 .. Len(p) : m[j] = n[j]
    BY <1>2, <2>1, Beginning
  <2>3. m = p <=> \A j \in 1 .. Len(p) : m[j] = p[j]
    BY <2>2
  <2> QED BY <2>1, <2>2, <2>3
<1> QED BY <1>1, <1>2

LEMMA NodeIsBeginning ==
    ASSUME NEW t \in Tables, NEW p \in Nodes(t)
    PROVE  /\ p \in Seq(Encodable) /\ Len(p) \in Nat
           /\ p # <<>> => \E i \in DOMAIN t : IsPrefix(p, t[i])
<1>1. CASE p = <<>>
  BY <1>1
<1>2. CASE p # <<>>
  <2>1. PICK i \in DOMAIN t : \E k \in DOMAIN t[i] : p = SubSeq(t[i], 1, k)
    BY <1>2 DEF Nodes
  <2>0. PICK k \in DOMAIN t[i] : p = SubSeq(t[i], 1, k)
    BY <2>1
  <2>2. t[i] \in Seq(Encodable) /\ k \in 0 .. Len(t[i])
    BY NamesListed
  <2>3. p \in Seq(Encodable) /\ Len(p) = k
    BY <2>0, <2>2, Beginning
  <2>4. Len(p) <= Len(t[i]) /\ SubSeq(t[i], 1, Len(p)) = p
    BY <2>0, <2>2, <2>3
  <2>5. IsPrefix(p, t[i])
    BY <2>2, <2>3, <2>4, BeginsWith
  <2>6. Len(p) \in Nat
    BY <2>3
  <2> QED BY <2>3, <2>5, <2>6
<1> QED BY <1>1, <1>2

LEMMA BeginningIsNode ==
    ASSUME NEW t \in Tables, NEW i \in DOMAIN t, NEW p \in Seq(Encodable), IsPrefix(p, t[i])
    PROVE  p \in Nodes(t)
<1>1. CASE Len(p) = 0
  <2>1. p = <<>>
    BY <1>1
  <2> QED BY <2>1 DEF Nodes
<1>2. CASE Len(p) # 0
  <2>1. t[i] \in Seq(Encodable)
    BY NamesListed
  <2>2. Len(p) \in DOMAIN t[i] /\ p = SubSeq(t[i], 1, Len(p))
    BY <1>2, <2>1, BeginsWith
  <2> QED BY <2>2 DEF Nodes
<1> QED BY <1>1, <1>2

(* No node is deeper than the longest name. *)
LEMMA Height ==
    ASSUME NEW t \in Tables
    PROVE  \E h \in Nat : \A p \in Nodes(t) : Len(p) <= h
<1>1. PICK l \in Nat : /\ l = Len(t) /\ DOMAIN t = 1 .. l
                      /\ \A i \in 1 .. l : Len(t[i]) \in Nat
  BY NamesListed
<1> DEFINE T == {n \in 0 .. l : \E h \in Nat : \A i \in 1 .. n : Len(t[i]) <= h}
<1>2. 0 .. l \subseteq T
  <2>1. 0 \in T
    BY <1>1
  <2>2. ASSUME NEW n \in 0 .. l - 1, n \in T PROVE n + 1 \in T
    <3>1. PICK h \in Nat : \A i \in 1 .. n : Len(t[i]) <= h
      BY <2>2
    <3>2. n + 1 \in 1 .. l /\ Len(t[n + 1]) \in Nat
      BY <1>1
    <3>3. PICK g \in Nat : h <= g /\ Len(t[n + 1]) <= g
      BY <3>2
    <3>4. ASSUME NEW i \in 1 .. n + 1 PROVE Len(t[i]) <= g
      <4>1. CASE i = n + 1
        BY <3>3, <4>1
      <4>2. CASE i # n + 1
        <5>1. i \in 1 .. n /\ i \in 1 .. l
          BY <1>1, <4>2
        <5>2. Len(t[i]) <= h /\ Len(t[i]) \in Nat
          BY <1>1, <3>1, <5>1
        <5> QED BY <3>3, <5>2
      <4> QED BY <4>1, <4>2
    <3> QED BY <1>1, <3>2, <3>4
  <2> HIDE DEF T
  <2>9. Inductive(T, 0, l)
    BY <2>1, <2>2 DEF Inductive
  <2> QED BY <2>9, InductiveHolds
<1>3. PICK h \in Nat : \A i \in 1 .. l : Len(t[i]) <= h
  <2>1. l \in T
    <3> HIDE DEF T
    <3> QED BY <1>1, <1>2
  <2> QED BY <2>1
<1>4. ASSUME NEW p \in Nodes(t) PROVE Len(p) <= h
  <2>1. CASE p = <<>>
    BY <2>1
  <2>2. CASE p # <<>>
    <3>1. PICK i \in 1 .. l : IsPrefix(p, t[i])
      BY <1>1, <2>2, NodeIsBeginning
    <3>2. Len(p) <= Len(t[i]) /\ Len(t[i]) <= h /\ Len(p) \in Nat /\ Len(t[i]) \in Nat
      BY <1>1, <1>3, <3>1, NodeIsBeginning DEF IsPrefix
    <3> QED BY <3>2
  <2> QED BY <2>1, <2>2
<1> QED BY <1>4
-----------------------------------------------------------------------------
(* Recursion.  A function given by its value at 0 and by each value from   *)
(* the one before exists; F stands for the step.                           *)
Steps(F, n, V) == \A k \in 1 .. n : \A u \in V : F[k][u] \in V
Stepwise(g, v, F, n, V) ==
    /\ g \in [0 .. n -> V] /\ g[0] = v
    /\ \A k \in 1 .. n : g[k] = F[k][g[k - 1]]

LEMMA Recursion ==
    ASSUME NEW n \in Nat, NEW V, NEW v \in V, NEW F, Steps(F, n, V)
    PROVE  \E g : Stepwise(g, v, F, n, V)
<1> DEFINE Upto(m, g) == /\ g \in [0 .. n -> V] /\ g[0] = v
                         /\ \A k \in 1 .. m : g[k] = F[k][g[k - 1]]
           T == {m \in 0 .. n : \E g : Upto(m, g)}
<1>1. 0 \in T
  <2>1. PICK g : g = [k \in 0 .. n |-> v]
    OBVIOUS
  <2>2. Upto(0, g)
    BY <2>1
  <2> QED BY <2>2
<1>2. ASSUME NEW m \in 0 .. n - 1, m \in T PROVE m + 1 \in T
  <2>1. PICK g : Upto(m, g)
    BY <1>2
  <2>2. m + 1 \in 1 .. n /\ m \in 0 .. n
    OBVIOUS
  <2>3. PICK u \in V : u = F[m + 1][g[m]]
    BY <2>1, <2>2 DEF Steps
  <2>4. PICK f : f = [k \in 0 .. n |-> IF k = m + 1 THEN u ELSE g[k]]
    OBVIOUS
  <2>5. f \in [0 .. n -> V] /\ f[0] = v
    BY <2>1, <2>4
  <2>6. ASSUME NEW k \in 1 .. m + 1 PROVE f[k] = F[k][f[k - 1]]
    <3>1. f[k - 1] = g[k - 1]
      BY <2>2, <2>4
    <3>2. CASE k = m + 1
      <4>1. f[k] = u /\ f[k - 1] = g[m]
        BY <2>2, <2>4, <3>1, <3>2
      <4> QED BY <2>3, <3>2, <4>1
    <3>3. CASE k # m + 1
      <4>1. k \in 1 .. m /\ f[k] = g[k]
        BY <2>2, <2>4, <3>3
      <4> QED BY <2>1, <3>1, <4>1
    <3> QED BY <3>2, <3>3
  <2>7. Upto(m + 1, f)
    BY <2>5, <2>6
  <2> HIDE DEF Upto
  <2> QED BY <2>2, <2>7
<1>3. 0 .. n \subseteq T
  <2>1. \A m \in 0 .. n - 1 : m \in T => m + 1 \in T
    BY <1>2
  <2> HIDE DEF T
  <2>9. Inductive(T, 0, n)
    BY <1>1, <2>1 DEF Inductive
  <2> QED BY <2>9, InductiveHolds
<1>4. n \in T
  <2> HIDE DEF T
  <2> QED BY <1>3
<1> QED BY <1>4 DEF Stepwise

(* The children of a node, in any order, lie one level below it. *)
ChildSet(t, p) == {q \in Nodes(t) : Len(q) = Len(p) + 1 /\ IsPrefix(p, q)}

ChildStep(t, p, g, n) ==
    IF n = 0 THEN <<>>
    ELSE IF ~IsStrictPrefix(p, t[n]) THEN g[n - 1]
    ELSE Insert(g[n - 1], SubSeq(t[n], 1, Len(p) + 1))

LEMMA NextOfName ==
    ASSUME NEW t \in Tables, NEW p \in Seq(Encodable), NEW i \in DOMAIN t,
           IsStrictPrefix(p, t[i])
    PROVE  SubSeq(t[i], 1, Len(p) + 1) \in ChildSet(t, p)
<1>1. t[i] \in Seq(Encodable) /\ Len(p) \in Nat /\ Len(t[i]) \in Nat
  BY NamesListed
<1>2. Len(p) <= Len(t[i]) /\ SubSeq(t[i], 1, Len(p)) = p /\ p # t[i]
      /\ \A j \in 1 .. Len(p) : t[i][j] = p[j]
  BY <1>1, BeginsWith DEF IsStrictPrefix
<1>3. Len(p) # Len(t[i])
  BY <1>1, <1>2, Whole
<1>4. PICK k \in 0 .. Len(t[i]) : k = Len(p) + 1
  BY <1>1, <1>2, <1>3
<1>5. PICK q : q = SubSeq(t[i], 1, k)
  OBVIOUS
<1>6. q \in Seq(Encodable) /\ Len(q) = k /\ \A j \in 1 .. k : q[j] = t[i][j]
  BY <1>1, <1>5, Beginning
<1>7. IsPrefix(q, t[i])
  <2>1. Len(q) <= Len(t[i]) /\ SubSeq(t[i], 1, Len(q)) = q
    BY <1>4, <1>5, <1>6
  <2> QED BY <1>1, <1>6, <2>1, BeginsWith
<1>8. q \in Nodes(t)
  BY <1>6, <1>7, BeginningIsNode
<1>9. IsPrefix(p, q)
  <2>1. Len(p) <= Len(q) /\ \A j \in 1 .. Len(p) : q[j] = p[j]
    BY <1>1, <1>2, <1>4, <1>6
  <2> QED BY <1>6, <2>1, BeginsWith
<1> QED BY <1>4, <1>5, <1>6, <1>8, <1>9 DEF ChildSet

LEMMA Inserted ==
    ASSUME NEW S, NEW s \in Seq(S), NEW q \in S
    PROVE  /\ Insert(s, q) \in Seq(S) /\ q \in ToSet(Insert(s, q))
           /\ ToSet(s) \subseteq ToSet(Insert(s, q))
<1>1. CASE q \in ToSet(s)
  BY <1>1 DEF Insert
<1>2. CASE q \notin ToSet(s)
  <2>1. PICK u : u = Append(s, q)
    OBVIOUS
  <2>2. /\ u \in Seq(S) /\ Len(u) = Len(s) + 1 /\ Len(s) \in Nat
        /\ u[Len(s) + 1] = q /\ \A i \in 1 .. Len(s) : u[i] = s[i]
    BY <2>1
  <2>3. DOMAIN u = 1 .. Len(s) + 1 /\ DOMAIN s = 1 .. Len(s)
    BY <2>2
  <2>4. q \in ToSet(u)
    BY <2>2, <2>3 DEF ToSet
  <2>5. ToSet(s) \subseteq ToSet(u)
    BY <2>2, <2>3 DEF ToSet
  <2> QED BY <1>2, <2>1, <2>2, <2>4, <2>5 DEF Insert
<1> QED BY <1>1, <1>2

LEMMA ChildrenUnfold ==
    ASSUME NEW t \in Tables, NEW p \in Seq(Encodable)
    PROVE  \E kids : /\ \A n \in 0 .. Len(t) : kids[n] = ChildStep(t, p, kids, n)
                     /\ Children(t, p) = kids[Len(t)]
<1>1. PICK l \in Nat : l = Len(t) /\ DOMAIN t = 1 .. l
  BY NamesListed
<1> DEFINE V == Seq(ChildSet(t, p))
           F == [n \in 1 .. l |-> [s \in V |->
                   IF ~IsStrictPrefix(p, t[n]) THEN s
                   ELSE Insert(s, SubSeq(t[n], 1, Len(p) + 1))]]
           Unfold(g) == [n \in 0 .. l |-> ChildStep(t, p, g, n)]
           kids == CHOOSE g : g = Unfold(g)
<1>2. ASSUME NEW n \in 1 .. l, NEW s \in V PROVE F[n][s] \in V
  <2>1. F[n][s] = IF ~IsStrictPrefix(p, t[n]) THEN s
                  ELSE Insert(s, SubSeq(t[n], 1, Len(p) + 1))
    OBVIOUS
  <2> HIDE DEF F
  <2> QED BY <1>1, <2>1, NextOfName, Inserted
<1>3. PICK v : v = <<>>
  OBVIOUS
<1>4. PICK g : Stepwise(g, v, F, l, V)
  <2>1. v \in V
    BY <1>3
  <2> HIDE DEF F, V
  <2>2. Steps(F, l, V)
    BY <1>2 DEF Steps
  <2> QED BY <2>1, <2>2, Recursion
<1>5. ASSUME NEW n \in 0 .. l PROVE g[n] = ChildStep(t, p, g, n)
  <2>1. CASE n = 0
    BY <1>3, <1>4, <2>1 DEF ChildStep, Stepwise
  <2>2. CASE n # 0
    <3>1. n \in 1 .. l /\ n - 1 \in 0 .. l
      BY <2>2
    <3>2. g[n - 1] \in V
      BY <1>4, <3>1 DEF Stepwise
    <3>3. g[n] = F[n][g[n - 1]]
      BY <1>4, <3>1 DEF Stepwise
    <3> HIDE DEF V
    <3> QED BY <2>2, <3>1, <3>2, <3>3 DEF ChildStep
  <2> QED BY <2>1, <2>2
<1>6. g = Unfold(g)
  <2> HIDE DEF V, F
  <2> QED BY <1>4, <1>5 DEF Stepwise
<1>7. kids = Unfold(kids)
  <2> HIDE DEF Unfold
  <2> QED BY <1>6
<1>8. Children(t, p) = kids[l]
  BY <1>1 DEF Children, ChildStep
<1>9. \A n \in 0 .. l : kids[n] = ChildStep(t, p, kids, n)
  <2> HIDE DEF kids
  <2> QED BY <1>7
<1> HIDE DEF kids
<1> QED BY <1>1, <1>8, <1>9

(* Every name that goes on beyond a node goes on through one of them. *)
LEMMA ChildrenAre ==
    ASSUME NEW t \in Tables, NEW p \in Seq(Encodable)
    PROVE  /\ Children(t, p) \in Seq(ChildSet(t, p))
           /\ \A i \in DOMAIN t : IsStrictPrefix(p, t[i])
                => SubSeq(t[i], 1, Len(p) + 1) \in ToSet(Children(t, p))
<1>1. PICK l \in Nat : l = Len(t) /\ DOMAIN t = 1 .. l
  BY NamesListed
<1>2. PICK kids : /\ \A n \in 0 .. l : kids[n] = ChildStep(t, p, kids, n)
                  /\ Children(t, p) = kids[l]
  BY <1>1, ChildrenUnfold
<1> DEFINE Next1(i) == SubSeq(t[i], 1, Len(p) + 1)
           V == Seq(ChildSet(t, p))
           T == {n \in 0 .. l : /\ kids[n] \in V
                                /\ \A i \in 1 .. n : IsStrictPrefix(p, t[i])
                                                       => Next1(i) \in ToSet(kids[n])}
<1>3. 0 \in T
  <2>1. kids[0] = <<>>
    BY <1>2 DEF ChildStep
  <2>2. kids[0] \in V
    BY <2>1
  <2> HIDE DEF V, Next1
  <2> QED BY <2>2
<1>4. ASSUME NEW n \in 0 .. l - 1, n \in T PROVE n + 1 \in T
  <2>1. n + 1 \in 1 .. l /\ n + 1 \in 0 .. l /\ (n + 1) - 1 = n /\ n + 1 # 0
    OBVIOUS
  <2>2. kids[n + 1] = IF ~IsStrictPrefix(p, t[n + 1]) THEN kids[n]
                      ELSE Insert(kids[n], Next1(n + 1))
    BY <1>2, <2>1 DEF ChildStep
  <2>3. kids[n] \in V /\ \A i \in 1 .. n : IsStrictPrefix(p, t[i])
                                           => Next1(i) \in ToSet(kids[n])
    BY <1>4
  <2>4. IsStrictPrefix(p, t[n + 1]) => Next1(n + 1) \in ChildSet(t, p)
    BY <1>1, <2>1, NextOfName
  <2> HIDE DEF Next1
  <2>5. /\ kids[n + 1] \in V /\ ToSet(kids[n]) \subseteq ToSet(kids[n + 1])
        /\ IsStrictPrefix(p, t[n + 1]) => Next1(n + 1) \in ToSet(kids[n + 1])
    BY <2>2, <2>3, <2>4, Inserted
  <2>6. ASSUME NEW i \in 1 .. n + 1, IsStrictPrefix(p, t[i])
        PROVE  Next1(i) \in ToSet(kids[n + 1])
    <3>1. CASE i = n + 1
      BY <2>5, <2>6, <3>1
    <3>2. CASE i # n + 1
      <4>1. i \in 1 .. n
        BY <3>2
      <4> QED BY <2>3, <2>5, <2>6, <4>1
    <3> QED BY <3>1, <3>2
  <2> HIDE DEF V
  <2> QED BY <2>1, <2>5, <2>6
<1>5. 0 .. l \subseteq T
  <2> HIDE DEF T
  <2>9. Inductive(T, 0, l)
    BY <1>3, <1>4 DEF Inductive
  <2> QED BY <2>9, InductiveHolds
<1>6. l \in T
  <2> HIDE DEF T
  <2> QED BY <1>5
<1> QED BY <1>1, <1>2, <1>6

(* Sums, and where the parts of a concatenation lie. *)
Sums(sum, s) ==
    /\ sum \in [0 .. Len(s) -> Nat] /\ sum[0] = 0
    /\ \A k \in 1 .. Len(s) : sum[k] = sum[k - 1] + s[k]

LEMMA TotalIs ==
    ASSUME NEW s \in Seq(Nat)
    PROVE  \E sum : Sums(sum, s) /\ Total(s) = sum[Len(s)]
<1>1. PICK l \in Nat : l = Len(s) /\ \A k \in 1 .. l : s[k] \in Nat
  OBVIOUS
<1> DEFINE Step(g, k) == IF k = 0 THEN 0 ELSE g[k - 1] + s[k]
           F == [k \in 1 .. l |-> [u \in Nat |-> u + s[k]]]
           Unfold(g) == [k \in 0 .. l |-> Step(g, k)]
           sum == CHOOSE g : g = Unfold(g)
<1>2. PICK g : Stepwise(g, 0, F, l, Nat)
  <2>1. Steps(F, l, Nat)
    BY <1>1 DEF Steps
  <2> HIDE DEF F
  <2> QED BY <2>1, Recursion
<1>3. g = Unfold(g)
  <2>1. ASSUME NEW k \in 0 .. l PROVE g[k] = Step(g, k)
    <3>1. CASE k = 0
      BY <1>2, <3>1 DEF Stepwise
    <3>2. CASE k # 0
      <4>1. k \in 1 .. l /\ k - 1 \in 0 .. l
        BY <3>2
      <4>2. g[k - 1] \in Nat /\ g[k] = F[k][g[k - 1]]
        BY <1>2, <4>1 DEF Stepwise
      <4> QED BY <3>2, <4>1, <4>2
    <3> QED BY <3>1, <3>2
  <2> HIDE DEF Step, F
  <2> QED BY <1>2, <2>1 DEF Stepwise
<1>4. sum = Unfold(sum)
  <2> HIDE DEF Unfold
  <2> QED BY <1>3
<1>5. Total(s) = sum[l]
  BY <1>1 DEF Total
<1> HIDE DEF sum
<1>6. \A k \in 0 .. l : sum[k] = Step(sum, k)
  <2> HIDE DEF Step
  <2> QED BY <1>4
<1> DEFINE T == {k \in 0 .. l : sum[k] \in Nat}
<1>7. 0 .. l \subseteq T
  <2>1. 0 \in T
    BY <1>6
  <2>2. ASSUME NEW k \in 0 .. l - 1, k \in T PROVE k + 1 \in T
    <3>1. k + 1 \in 1 .. l /\ k + 1 \in 0 .. l /\ k + 1 # 0 /\ (k + 1) - 1 = k
      OBVIOUS
    <3>2. sum[k + 1] = sum[k] + s[k + 1]
      BY <1>6, <3>1
    <3> QED BY <1>1, <2>2, <3>1, <3>2
  <2> HIDE DEF T
  <2>9. Inductive(T, 0, l)
    BY <2>1, <2>2 DEF Inductive
  <2> QED BY <2>9, InductiveHolds
<1>8. sum \in [0 .. l -> Nat]
  BY <1>4, <1>7
<1>9. sum[0] = 0 /\ \A k \in 1 .. l : sum[k] = sum[k - 1] + s[k]
  BY <1>6
<1> QED BY <1>1, <1>5, <1>8, <1>9 DEF Sums

LEMMA SumsGrow ==
    ASSUME NEW s \in Seq(Nat), NEW sum, Sums(sum, s),
           NEW j \in 0 .. Len(s), NEW k \in j .. Len(s)
    PROVE  sum[j] <= sum[k]
<1>1. PICK l \in Nat : l = Len(s) /\ (\A i \in 1 .. l : s[i] \in Nat) /\ k \in j .. l
  OBVIOUS
<1> DEFINE T == {i \in j .. l : sum[j] <= sum[i]}
<1>2. sum \in [0 .. l -> Nat] /\ \A i \in 1 .. l : sum[i] = sum[i - 1] + s[i]
  BY <1>1 DEF Sums
<1>3. j \in T
  <2>1. j \in j .. l /\ j \in 0 .. l
    BY <1>1
  <2>2. sum[j] \in Nat
    BY <1>2, <2>1
  <2> QED BY <2>1, <2>2
<1>4. ASSUME NEW i \in j .. l - 1, i \in T PROVE i + 1 \in T
  <2>1. /\ i + 1 \in 1 .. l /\ i + 1 \in j .. l /\ (i + 1) - 1 = i
        /\ i \in 0 .. l /\ j \in 0 .. l
    BY <1>1
  <2>2. sum[i + 1] = sum[i] + s[i + 1] /\ s[i + 1] \in Nat /\ sum[i] \in Nat /\ sum[j] \in Nat
    BY <1>1, <1>2, <2>1
  <2>3. sum[j] <= sum[i + 1]
    BY <1>4, <2>2
  <2> QED BY <2>1, <2>3
<1>5. j .. l \subseteq T
  <2> HIDE DEF T
  <2>9. Inductive(T, j, l)
    BY <1>3, <1>4 DEF Inductive
  <2> QED BY <2>9, InductiveHolds
<1> QED BY <1>1, <1>5

Lengths(seqs) == [k \in 1 .. Len(seqs) |-> Len(seqs[k])]

(* The parts of f lie behind each other, each from where off says. *)
Parts(f, seqs, off) ==
    \A k \in 1 .. Len(seqs) : \A j \in 1 .. Len(seqs[k]) : f[off[k - 1] + j] = seqs[k][j]

LEMMA Joined ==
    ASSUME NEW S, NEW f \in Seq(S), NEW g \in Seq(S), NEW h, h = f \o g
    PROVE  /\ h \in Seq(S) /\ Len(h) = Len(f) + Len(g)
           /\ \A j \in 1 .. Len(f) : h[j] = f[j]
           /\ \A j \in 1 .. Len(g) : h[Len(f) + j] = g[j]
  OBVIOUS

LEMMA FlattenUnfold ==
    ASSUME NEW S, NEW seqs \in Seq(Seq(S)), Len(seqs) # 0
    PROVE  \E all : /\ FlattenSeq(seqs) = all[Len(seqs)] /\ all[1] = seqs[1]
                    /\ \A k \in 2 .. Len(seqs) : all[k] = all[k - 1] \o seqs[k]
<1>1. PICK l \in Nat \ {0} : l = Len(seqs) /\ \A k \in 1 .. l : seqs[k] \in Seq(S)
  OBVIOUS
<1> DEFINE V == Seq(S)
           Step(g, k) == IF k = 1 THEN seqs[k] ELSE g[k - 1] \o seqs[k]
           F == [k \in 1 .. l |-> [u \in V |-> u \o seqs[k]]]
           Unfold(g) == [k \in 1 .. l |-> Step(g, k)]
           all == CHOOSE g : g = Unfold(g)
<1>2. PICK none1 : none1 = <<>>
  OBVIOUS
<1>3. PICK g : Stepwise(g, none1, F, l, V)
  <2>1. Steps(F, l, V)
    <3>1. ASSUME NEW k \in 1 .. l, NEW u \in V PROVE F[k][u] \in V
      <4>1. F[k][u] = u \o seqs[k] /\ u \in Seq(S) /\ seqs[k] \in Seq(S)
        BY <1>1
      <4> HIDE DEF F
      <4> QED BY <4>1, Joined
    <3> HIDE DEF F, V
    <3> QED BY <3>1 DEF Steps
  <2>2. none1 \in V
    BY <1>2
  <2> HIDE DEF F, V
  <2> QED BY <2>1, <2>2, Recursion
<1>4. PICK f : f = [k \in 1 .. l |-> g[k]]
  OBVIOUS
<1>5. f = Unfold(f)
  <2>1. ASSUME NEW k \in 1 .. l PROVE f[k] = Step(f, k)
    <3>1. k \in 0 .. l /\ k - 1 \in 0 .. l
      OBVIOUS
    <3>2. g[k - 1] \in V /\ g[k] = F[k][g[k - 1]]
      BY <1>3, <3>1 DEF Stepwise
    <3>3. f[k] = g[k - 1] \o seqs[k]
      BY <1>4, <3>2
    <3>4. CASE k = 1
      <4>1. g[k - 1] = <<>> /\ seqs[k] \in Seq(S)
        BY <1>1, <1>2, <1>3, <3>4 DEF Stepwise
      <4>2. g[k - 1] \o seqs[k] = seqs[k]
        BY <4>1
      <4> QED BY <3>3, <3>4, <4>2
    <3>5. CASE k # 1
      <4>1. k - 1 \in 1 .. l
        BY <3>5
      <4>2. f[k - 1] = g[k - 1]
        BY <1>4, <4>1
      <4> QED BY <3>3, <3>5, <4>2
    <3> QED BY <3>4, <3>5
  <2> HIDE DEF Step
  <2> QED BY <1>4, <2>1
<1>6. all = Unfold(all)
  <2> HIDE DEF Unfold
  <2> QED BY <1>5
<1>7. FlattenSeq(seqs) = all[l]
  BY <1>1 DEF FlattenSeq
<1> HIDE DEF all
<1>8. \A k \in 1 .. l : all[k] = Step(all, k)
  <2> HIDE DEF Step
  <2> QED BY <1>6
<1>9. all[1] = seqs[1]
  <2>1. 1 \in 1 .. l
    OBVIOUS
  <2> QED BY <1>8, <2>1
<1>10. ASSUME NEW k \in 2 .. l PROVE all[k] = all[k - 1] \o seqs[k]
  <2>1. k \in 1 .. l /\ k # 1
    OBVIOUS
  <2> QED BY <1>8, <2>1
<1> QED BY <1>1, <1>7, <1>9, <1>10

LEMMA FlattenIs ==
    ASSUME NEW S, NEW seqs \in Seq(Seq(S))
    PROVE  /\ Lengths(seqs) \in Seq(Nat) /\ Len(Lengths(seqs)) = Len(seqs)
           /\ \E off : /\ Sums(off, Lengths(seqs))
                       /\ Total(Lengths(seqs)) = off[Len(seqs)]
                       /\ FlattenSeq(seqs) \in Seq(S)
                       /\ Len(FlattenSeq(seqs)) = off[Len(seqs)]
                       /\ Parts(FlattenSeq(seqs), seqs, off)
<1>1. PICK l \in Nat : l = Len(seqs) /\ \A k \in 1 .. l : seqs[k] \in Seq(S) /\ Len(seqs[k]) \in Nat
  OBVIOUS
<1>2. Lengths(seqs) \in Seq(Nat) /\ Len(Lengths(seqs)) = l
      /\ \A k \in 1 .. l : Lengths(seqs)[k] = Len(seqs[k])
  BY <1>1 DEF Lengths
<1>3. PICK off : Sums(off, Lengths(seqs)) /\ Total(Lengths(seqs)) = off[l]
  BY <1>2, TotalIs
<1>4. /\ off \in [0 .. l -> Nat] /\ off[0] = 0
      /\ \A k \in 1 .. l : off[k] = off[k - 1] + Len(seqs[k])
  BY <1>2, <1>3 DEF Sums
<1>5. CASE l = 0
  <2>1. Len(seqs) = 0
    BY <1>1, <1>5
  <2>2. FlattenSeq(seqs) \in Seq(S) /\ Len(FlattenSeq(seqs)) = 0
    <3>1. FlattenSeq(seqs) = seqs
      BY <2>1, Zenon DEF FlattenSeq
    <3>2. PICK f : f = seqs
      OBVIOUS
    <3>3. f \in Seq(S) /\ Len(f) = 0
      BY <2>1, <3>2
    <3> QED BY <3>1, <3>2, <3>3
  <2>3. Parts(FlattenSeq(seqs), seqs, off)
    BY <1>1, <1>5 DEF Parts
  <2> QED BY <1>1, <1>2, <1>3, <1>4, <1>5, <2>2, <2>3
<1>6. CASE l # 0
  <2>1. PICK all : /\ FlattenSeq(seqs) = all[l] /\ all[1] = seqs[1]
                   /\ \A k \in 2 .. l : all[k] = all[k - 1] \o seqs[k]
    BY <1>1, <1>6, FlattenUnfold
  <2> DEFINE Laid(m) == /\ all[m] \in Seq(S) /\ Len(all[m]) = off[m]
                        /\ \A k \in 1 .. m : \A j \in 1 .. Len(seqs[k]) :
                              all[m][off[k - 1] + j] = seqs[k][j]
             T == {m \in 1 .. l : Laid(m)}
  <2>2. 1 \in T
    <3>1. 1 \in 1 .. l /\ 0 \in 0 .. l /\ 1 - 1 = 0
      BY <1>6
    <3>2. all[1] \in Seq(S) /\ Len(all[1]) = off[1]
      BY <1>1, <1>4, <2>1, <3>1
    <3>3. ASSUME NEW k \in 1 .. 1, NEW j \in 1 .. Len(seqs[k])
          PROVE  all[1][off[k - 1] + j] = seqs[k][j]
      <4>1. k = 1 /\ off[k - 1] + j = j
        BY <1>1, <1>4, <3>1
      <4> QED BY <2>1, <4>1
    <3> QED BY <3>1, <3>2, <3>3
  <2>3. ASSUME NEW m \in 1 .. l - 1, m \in T PROVE m + 1 \in T
    <3>1. m + 1 \in 2 .. l /\ m + 1 \in 1 .. l /\ (m + 1) - 1 = m /\ m \in 1 .. l /\ m \in 0 .. l
      OBVIOUS
    <3>2. PICK f \in Seq(S), g \in Seq(S) : f = all[m] /\ g = seqs[m + 1]
      BY <1>1, <2>3, <3>1
    <3>3. all[m + 1] = f \o g
      BY <2>1, <3>1, <3>2
    <3>4. f \in Seq(S) /\ g \in Seq(S) /\ Len(f) = off[m] /\ off[m] \in Nat
          /\ off[m + 1] = off[m] + Len(g)
      BY <1>1, <1>4, <2>3, <3>1, <3>2
    <3>5. PICK h : h = f \o g
      OBVIOUS
    <3>6. /\ h \in Seq(S) /\ Len(h) = off[m] + Len(g)
          /\ \A j \in 1 .. Len(f) : h[j] = f[j]
          /\ \A j \in 1 .. Len(g) : h[off[m] + j] = g[j]
      <4>1. f \in Seq(S) /\ g \in Seq(S) /\ Len(f) = off[m]
        BY <3>4
      <4>2. /\ h \in Seq(S) /\ Len(h) = Len(f) + Len(g)
            /\ \A j \in 1 .. Len(f) : h[j] = f[j]
            /\ \A j \in 1 .. Len(g) : h[Len(f) + j] = g[j]
        BY <3>5, Joined
      <4> QED BY <4>1, <4>2
    <3>7. ASSUME NEW k \in 1 .. m + 1, NEW j \in 1 .. Len(seqs[k])
          PROVE  h[off[k - 1] + j] = seqs[k][j]
      <4>1. CASE k = m + 1
        BY <3>1, <3>2, <3>6, <3>7, <4>1
      <4>2. CASE k # m + 1
        <5>1. k \in 1 .. m /\ k \in 1 .. l /\ k - 1 \in 0 .. l /\ k \in 0 .. l
          BY <4>2
        <5>2. off[k] <= off[m] /\ off[k] = off[k - 1] + Len(seqs[k]) /\ off[k - 1] \in Nat
              /\ Len(seqs[k]) \in Nat
          <6>1. k \in 0 .. Len(Lengths(seqs)) /\ m \in k .. Len(Lengths(seqs))
            BY <1>2, <3>1, <5>1
          <6>2. off[k] <= off[m]
            BY <1>2, <1>3, <6>1, SumsGrow
          <6> QED BY <1>1, <1>4, <5>1, <6>2
        <5>3. off[k - 1] + j \in 1 .. Len(f)
          <6>1. PICK a \in Nat, c \in Nat, b \in Nat :
                   a = off[k - 1] /\ c = Len(seqs[k]) /\ b = Len(f) /\ a + c <= b
            BY <3>4, <5>2
          <6>2. j \in 1 .. c
            BY <6>1
          <6>3. a + j \in 1 .. b
            BY <6>1, <6>2
          <6> QED BY <6>1, <6>3
        <5>4. f[off[k - 1] + j] = seqs[k][j]
          BY <2>3, <3>2, <5>1
        <5> QED BY <3>6, <5>3, <5>4
      <4> QED BY <4>1, <4>2
    <3> HIDE DEF T
    <3>8. Laid(m + 1)
      BY <3>1, <3>3, <3>4, <3>5, <3>6, <3>7
    <3> HIDE DEF Laid
    <3> QED BY <3>1, <3>8 DEF T
  <2>4. 1 .. l \subseteq T
    <3> HIDE DEF T
    <3>1. Inductive(T, 1, l)
      BY <2>2, <2>3 DEF Inductive
    <3> QED BY <3>1, InductiveHolds
  <2>5. Laid(l)
    <3> HIDE DEF Laid
    <3> QED BY <1>6, <2>4
  <2>6. Parts(FlattenSeq(seqs), seqs, off)
    BY <1>1, <2>1, <2>5 DEF Parts
  <2>7. FlattenSeq(seqs) \in Seq(S) /\ Len(FlattenSeq(seqs)) = off[l]
    BY <2>1, <2>5
  <2> QED BY <1>1, <1>2, <1>3, <2>6, <2>7
<1> QED BY <1>5, <1>6

(* The tree: what holds of a node once it holds of its children, holds of  *)
(* all, and a function given by each value from those of the children      *)
(* exists.  No name is infinitely long.                                    *)
LEMMA KidsAt ==
    ASSUME NEW t \in Tables, NEW p \in Nodes(t)
    PROVE  /\ Children(t, p) \in Seq(Nodes(t)) /\ Len(Children(t, p)) \in Nat
           /\ \A i \in 1 .. Len(Children(t, p)) :
                 /\ Children(t, p)[i] \in Nodes(t) /\ Children(t, p)[i] \in ChildSet(t, p)
                 /\ Len(Children(t, p)[i]) = Len(p) + 1 /\ IsPrefix(p, Children(t, p)[i])
<1>1. Children(t, p) \in Seq(ChildSet(t, p))
  BY NodeIsBeginning, ChildrenAre
<1>2. PICK C : C = ChildSet(t, p)
  OBVIOUS
<1>3. PICK kids \in Seq(C) : kids = Children(t, p)
  BY <1>1, <1>2
<1>4. \A i \in 1 .. Len(kids) : kids[i] \in C
  OBVIOUS
<1>5. C \subseteq Nodes(t)
  BY <1>2 DEF ChildSet
<1>6. kids \in Seq(Nodes(t)) /\ Len(kids) \in Nat
  BY <1>5
<1> QED BY <1>2, <1>3, <1>4, <1>6 DEF ChildSet

TreeInductive(T, t) == \A p \in Nodes(t) : (\A q \in ChildSet(t, p) : q \in T) => p \in T

LEMMA TreeInduction ==
    ASSUME NEW t \in Tables, NEW T, TreeInductive(T, t)
    PROVE  Nodes(t) \subseteq T
<1>1. PICK h \in Nat : \A p \in Nodes(t) : Len(p) <= h
  BY Height
<1>2. \A p \in Nodes(t) : Len(p) \in Nat
  BY NodeIsBeginning
<1> DEFINE U == {d \in 0 .. h + 1 : \A p \in Nodes(t) : Len(p) > h - d => p \in T}
<1>3. 0 \in U
  BY <1>1, <1>2
<1>4. ASSUME NEW d \in 0 .. h, d \in U PROVE d + 1 \in U
  <2>1. ASSUME NEW p \in Nodes(t), Len(p) > h - (d + 1) PROVE p \in T
    <3>1. ASSUME NEW q \in ChildSet(t, p) PROVE q \in T
      <4>1. q \in Nodes(t) /\ Len(q) = Len(p) + 1
        BY DEF ChildSet
      <4>2. Len(q) > h - d
        BY <1>2, <2>1, <4>1
      <4> QED BY <1>4, <4>1, <4>2
    <3> QED BY <3>1 DEF TreeInductive
  <2> QED BY <2>1
<1>5. 0 .. h + 1 \subseteq U
  <2> HIDE DEF U
  <2>1. h + 1 \in Int /\ (h + 1) - 1 = h
    OBVIOUS
  <2>2. Inductive(U, 0, h + 1)
    BY <1>3, <1>4, <2>1 DEF Inductive
  <2> QED BY <2>1, <2>2, InductiveHolds
<1>6. h + 1 \in U
  <2> HIDE DEF U
  <2> QED BY <1>5
<1>7. \A p \in Nodes(t) : Len(p) > h - (h + 1)
  BY <1>2
<1> QED BY <1>6, <1>7

KidValues(g, kids) == [i \in 1 .. Len(kids) |-> g[kids[i]]]

NodeSteps(F, t, V) == \A p \in Nodes(t) : \A s \in Seq(V) : F[p][s] \in V
Treewise(g, F, t, V) ==
    /\ g \in [Nodes(t) -> V]
    /\ \A p \in Nodes(t) : g[p] = F[p][KidValues(g, Children(t, p))]

LEMMA KidsAgree ==
    ASSUME NEW t \in Tables, NEW p \in Nodes(t), NEW f, NEW g,
           \A q \in ChildSet(t, p) : f[q] = g[q]
    PROVE  KidValues(f, Children(t, p)) = KidValues(g, Children(t, p))
BY KidsAt DEF KidValues

LEMMA KidValuesIn ==
    ASSUME NEW t \in Tables, NEW p \in Nodes(t), NEW V, NEW g,
           \A q \in ChildSet(t, p) : g[q] \in V
    PROVE  KidValues(g, Children(t, p)) \in Seq(V)
<1>1. PICK n \in Nat : n = Len(Children(t, p))
  BY KidsAt
<1>2. KidValues(g, Children(t, p)) \in [1 .. n -> V]
  BY <1>1, KidsAt DEF KidValues
<1> QED BY <1>2

LEMMA TreeRecursion ==
    ASSUME NEW t \in Tables, NEW V, NEW v \in V, NEW F, NodeSteps(F, t, V)
    PROVE  \E g : Treewise(g, F, t, V)
<1>1. PICK h \in Nat : \A p \in Nodes(t) : Len(p) <= h
  BY Height
<1>2. \A p \in Nodes(t) : Len(p) \in Nat
  BY NodeIsBeginning
<1> DEFINE Below(d, g) == /\ g \in [Nodes(t) -> V]
                          /\ \A p \in Nodes(t) : Len(p) > h - d
                                => g[p] = F[p][KidValues(g, Children(t, p))]
           U == {d \in 0 .. h + 1 : \E g : Below(d, g)}
<1>3. 0 \in U
  <2>1. PICK g : g = [p \in Nodes(t) |-> v]
    OBVIOUS
  <2>2. \A p \in Nodes(t) : ~(Len(p) > h - 0)
    BY <1>1, <1>2
  <2>3. Below(0, g)
    BY <2>1, <2>2
  <2> HIDE DEF Below
  <2> QED BY <2>3
<1>4. ASSUME NEW d \in 0 .. h, d \in U PROVE d + 1 \in U
  <2>1. PICK g : Below(d, g)
    BY <1>4
  <2>2. PICK f : f = [p \in Nodes(t) |-> IF Len(p) = h - d
                                        THEN F[p][KidValues(g, Children(t, p))] ELSE g[p]]
    OBVIOUS
  <2>3. ASSUME NEW p \in Nodes(t) PROVE F[p][KidValues(g, Children(t, p))] \in V
    <3>1. \A q \in ChildSet(t, p) : g[q] \in V
      BY <2>1 DEF ChildSet
    <3>2. KidValues(g, Children(t, p)) \in Seq(V)
      BY <3>1, KidValuesIn
    <3> QED BY <3>2 DEF NodeSteps
  <2>4. f \in [Nodes(t) -> V]
    BY <2>1, <2>2, <2>3
  <2>5. ASSUME NEW p \in Nodes(t), Len(p) > h - (d + 1)
        PROVE  f[p] = F[p][KidValues(f, Children(t, p))]
    <3>1. ASSUME NEW q \in ChildSet(t, p) PROVE f[q] = g[q]
      <4>1. q \in Nodes(t) /\ Len(q) = Len(p) + 1
        BY DEF ChildSet
      <4>2. Len(q) # h - d
        BY <1>2, <2>5, <4>1
      <4> QED BY <2>2, <4>1, <4>2
    <3>2. KidValues(f, Children(t, p)) = KidValues(g, Children(t, p))
      BY <3>1, KidsAgree
    <3>3. CASE Len(p) = h - d
      BY <2>2, <3>2, <3>3
    <3>4. CASE Len(p) # h - d
      <4>1. Len(p) > h - d
        BY <1>2, <2>5, <3>4
      <4> QED BY <2>1, <2>2, <3>2, <3>4, <4>1
    <3> QED BY <3>3, <3>4
  <2>6. Below(d + 1, f)
    BY <2>4, <2>5
  <2> HIDE DEF Below
  <2> QED BY <2>6
<1>5. 0 .. h + 1 \subseteq U
  <2> HIDE DEF U
  <2>1. h + 1 \in Int /\ (h + 1) - 1 = h
    OBVIOUS
  <2>2. Inductive(U, 0, h + 1)
    BY <1>3, <1>4, <2>1 DEF Inductive
  <2> QED BY <2>1, <2>2, InductiveHolds
<1>6. PICK g : Below(h + 1, g)
  <2>1. h + 1 \in U
    <3> HIDE DEF U
    <3> QED BY <1>5
  <2> HIDE DEF Below
  <2> QED BY <2>1
<1>7. \A p \in Nodes(t) : Len(p) > h - (h + 1)
  BY <1>2
<1> QED BY <1>6, <1>7 DEF Treewise
-----------------------------------------------------------------------------
(* A character is encoded as its place in the alphabet, below the flags.   *)
LEMMA Letters ==
    /\ Len(alphabet) \in Nat
    /\ \A i \in DOMAIN Alphabetic : i \in 1 .. Len(alphabet) /\ alphabet[i] = Alphabetic[i]
    /\ \A i \in DOMAIN Numeric :
          Len(Alphabetic) + i \in 1 .. Len(alphabet) /\ alphabet[Len(Alphabetic) + i] = Numeric[i]
    /\ \A i \in DOMAIN Special :
          /\ Len(Alphabetic) + Len(Numeric) + i \in 1 .. Len(alphabet)
          /\ alphabet[Len(Alphabetic) + Len(Numeric) + i] = Special[i]
    /\ \A i \in 1 .. Len(alphabet) :
          \/ i \in DOMAIN Alphabetic
          \/ \E j \in DOMAIN Numeric : i = Len(Alphabetic) + j
          \/ \E j \in DOMAIN Special : i = Len(Alphabetic) + Len(Numeric) + j
    /\ DOMAIN alphabet = 1 .. Len(alphabet)
<1>1. PICK A, N, S, L : /\ A = ToSet(Alphabetic) /\ N = ToSet(Numeric) /\ S = ToSet(Special)
                        /\ L = A \cup N \cup S
  OBVIOUS
<1>2. Alphabetic \in Seq(L) /\ Numeric \in Seq(L) /\ Special \in Seq(L)
  <2>1. Alphabetic \in Seq(A) /\ Numeric \in Seq(N) /\ Special \in Seq(S)
    BY <1>1, AlphabetAssumption
  <2> QED BY <1>1, <2>1
<1>3. PICK a \in Seq(L), n \in Seq(L), s \in Seq(L) : a = Alphabetic /\ n = Numeric /\ s = Special
  BY <1>2
<1>4. PICK la \in Nat, ln \in Nat, ls \in Nat :
         /\ la = Len(a) /\ ln = Len(n) /\ ls = Len(s)
         /\ DOMAIN a = 1 .. la /\ DOMAIN n = 1 .. ln /\ DOMAIN s = 1 .. ls
  OBVIOUS
<1>5. PICK b \in Seq(L) :
         /\ b = a \o n /\ Len(b) = la + ln
         /\ \A j \in 1 .. la : b[j] = a[j]
         /\ \A j \in 1 .. ln : b[la + j] = n[j]
  <2>1. PICK b : b = a \o n
    OBVIOUS
  <2>2. /\ b \in Seq(L) /\ Len(b) = Len(a) + Len(n)
        /\ \A j \in 1 .. Len(a) : b[j] = a[j]
        /\ \A j \in 1 .. Len(n) : b[Len(a) + j] = n[j]
    BY <2>1, Joined
  <2> QED BY <1>4, <2>1, <2>2
<1>6. PICK d \in Seq(L) :
         /\ d = b \o s /\ Len(d) = la + ln + ls
         /\ \A j \in 1 .. la + ln : d[j] = b[j]
         /\ \A j \in 1 .. ls : d[la + ln + j] = s[j]
  <2>1. PICK d : d = b \o s
    OBVIOUS
  <2>2. /\ d \in Seq(L) /\ Len(d) = Len(b) + Len(s)
        /\ \A j \in 1 .. Len(b) : d[j] = b[j]
        /\ \A j \in 1 .. Len(s) : d[Len(b) + j] = s[j]
    BY <2>1, Joined
  <2>3. Len(b) = la + ln /\ Len(s) = ls
    BY <1>4, <1>5
  <2>4. /\ d \in Seq(L) /\ Len(d) = la + ln + ls
        /\ \A j \in 1 .. la + ln : d[j] = b[j]
        /\ \A j \in 1 .. ls : d[la + ln + j] = s[j]
    BY <2>2, <2>3
  <2> QED BY <2>1, <2>4
<1>7. alphabet = d
  BY <1>3, <1>5, <1>6 DEF alphabet
<1>8. PICK ld \in Nat : ld = la + ln + ls
  OBVIOUS
<1>9. Len(d) = ld /\ DOMAIN d = 1 .. ld
  <2>1. Len(d) = ld
    BY <1>5, <1>6, <1>8
  <2> QED BY <2>1
<1>10. ASSUME NEW i \in 1 .. la PROVE i \in 1 .. ld /\ d[i] = a[i]
  <2>1. i \in 1 .. la + ln /\ i \in 1 .. ld
    BY <1>8
  <2> QED BY <1>5, <1>6, <2>1
<1>11. ASSUME NEW i \in 1 .. ln PROVE la + i \in 1 .. ld /\ d[la + i] = n[i]
  <2>1. la + i \in 1 .. la + ln /\ la + i \in 1 .. ld
    BY <1>8
  <2> QED BY <1>5, <1>6, <2>1
<1>12. ASSUME NEW i \in 1 .. ls PROVE la + ln + i \in 1 .. ld /\ d[la + ln + i] = s[i]
  <2>1. la + ln + i \in 1 .. ld
    BY <1>8
  <2> QED BY <1>6, <2>1
<1>13. ASSUME NEW i \in 1 .. ld
       PROVE  \/ i \in 1 .. la
              \/ \E j \in 1 .. ln : i = la + j
              \/ \E j \in 1 .. ls : i = la + ln + j
  <2>1. CASE i > la /\ i <= la + ln
    <3>1. i - la \in 1 .. ln /\ i = la + (i - la)
      BY <2>1
    <3> QED BY <3>1
  <2>2. CASE i > la + ln
    <3>1. i - (la + ln) \in 1 .. ls /\ i = la + ln + (i - (la + ln))
      BY <1>8, <2>2
    <3> QED BY <3>1
  <2>3. CASE i <= la
    BY <2>3
  <2> QED BY <2>1, <2>2, <2>3
<1>14. /\ Len(Alphabetic) = la /\ Len(Numeric) = ln /\ Len(alphabet) = ld
       /\ DOMAIN Alphabetic = 1 .. la /\ DOMAIN Numeric = 1 .. ln /\ DOMAIN Special = 1 .. ls
       /\ DOMAIN alphabet = 1 .. ld
  BY <1>3, <1>4, <1>7, <1>9
<1> QED BY <1>3, <1>7, <1>10, <1>11, <1>12, <1>13, <1>14

LEMMA Placed ==
    ASSUME NEW s, NEW ch \in ToSet(s)
    PROVE  Position(s, ch) \in DOMAIN s /\ s[Position(s, ch)] = ch
BY DEF Position, ToSet

LEMMA Encoded ==
    ASSUME NEW ch \in Encodable
    PROVE  Encode(ch) \in 0 .. MASKS_LEAF - 1 /\ Decode(Encode(ch)) = ch
<1>1. \A i, j \in 1 .. Len(alphabet) : alphabet[i] = alphabet[j] => i = j
  BY Letters, AlphabetAssumption DEF IsInjective
<1>2. Len(alphabet) \in Nat /\ Len(alphabet) <= MASKS_LEAF /\ MASKS_LEAF \in Nat
  BY Letters, MaskAssumption
<1> DEFINE a == Len(Alphabetic)
           n == Len(Numeric)
<1>3. a \in Nat /\ n \in Nat /\ DOMAIN Alphabetic = 1 .. a /\ DOMAIN Numeric = 1 .. n
  <2>1. Alphabetic \in Seq(ToSet(Alphabetic)) /\ Numeric \in Seq(ToSet(Numeric))
    BY AlphabetAssumption
  <2>2. PICK A, N : A = ToSet(Alphabetic) /\ N = ToSet(Numeric)
    OBVIOUS
  <2> QED BY <2>1, <2>2
<1>4. ASSUME ch \in ToSet(Alphabetic), ch \in ToSet(Numeric) PROVE FALSE
  <2>1. PICK i \in DOMAIN Alphabetic, j \in DOMAIN Numeric : Alphabetic[i] = ch /\ Numeric[j] = ch
    BY <1>4 DEF ToSet
  <2>2. /\ alphabet[i] = ch /\ alphabet[a + j] = ch
        /\ i \in 1 .. Len(alphabet) /\ a + j \in 1 .. Len(alphabet)
    BY <2>1, Letters
  <2>3. i = a + j
    BY <1>1, <2>2
  <2> QED BY <1>3, <2>1, <2>3
<1>5. ASSUME ch \in ToSet(Alphabetic), ch \in ToSet(Special) PROVE FALSE
  <2>1. PICK i \in DOMAIN Alphabetic, j \in DOMAIN Special : Alphabetic[i] = ch /\ Special[j] = ch
    BY <1>5 DEF ToSet
  <2>2. /\ alphabet[i] = ch /\ alphabet[a + n + j] = ch
        /\ i \in 1 .. Len(alphabet) /\ a + n + j \in 1 .. Len(alphabet)
    BY <2>1, Letters
  <2>3. i = a + n + j
    BY <1>1, <2>2
  <2>4. j \in Nat \ {0}
    <3>1. Special \in Seq(ToSet(Special))
      BY AlphabetAssumption
    <3>2. PICK S : S = ToSet(Special)
      OBVIOUS
    <3> QED BY <2>1, <3>1, <3>2
  <2> QED BY <1>3, <2>1, <2>3, <2>4
<1>6. ASSUME ch \in ToSet(Numeric), ch \in ToSet(Special) PROVE FALSE
  <2>1. PICK i \in DOMAIN Numeric, j \in DOMAIN Special : Numeric[i] = ch /\ Special[j] = ch
    BY <1>6 DEF ToSet
  <2>2. /\ alphabet[a + i] = ch /\ alphabet[a + n + j] = ch
        /\ a + i \in 1 .. Len(alphabet) /\ a + n + j \in 1 .. Len(alphabet)
    BY <2>1, Letters
  <2>3. a + i = a + n + j
    BY <1>1, <2>2
  <2>4. j \in Nat \ {0}
    <3>1. Special \in Seq(ToSet(Special))
      BY AlphabetAssumption
    <3>2. PICK S : S = ToSet(Special)
      OBVIOUS
    <3> QED BY <2>1, <3>1, <3>2
  <2> QED BY <1>3, <2>1, <2>3, <2>4
<1>7. ch \in ToSet(Alphabetic) \/ ch \in ToSet(Numeric) \/ ch \in ToSet(Special)
  <2>1. PICK i \in 1 .. Len(alphabet) : ch = alphabet[i]
    BY Letters DEF Encodable, ToSet
  <2>2. CASE i \in DOMAIN Alphabetic
    <3>1. ch = Alphabetic[i]
      BY <2>1, <2>2, Letters
    <3> QED BY <2>2, <3>1 DEF ToSet
  <2>3. CASE \E j \in DOMAIN Numeric : i = a + j
    <3>1. PICK j \in DOMAIN Numeric : i = a + j
      BY <2>3
    <3>2. ch = Numeric[j]
      BY <2>1, <3>1, Letters
    <3> QED BY <3>2 DEF ToSet
  <2>4. CASE \E j \in DOMAIN Special : i = a + n + j
    <3>1. PICK j \in DOMAIN Special : i = a + n + j
      BY <2>4
    <3>2. ch = Special[j]
      BY <2>1, <3>1, Letters
    <3> QED BY <3>2 DEF ToSet
  <2> QED BY <2>2, <2>3, <2>4, Letters
<1>8. \E i \in 1 .. Len(alphabet) : Encode(ch) = i - 1 /\ alphabet[i] = ch
  <2>1. CASE ch \in ToSet(Alphabetic)
    <3>1. Encode(ch) = Position(Alphabetic, ch) - 1
      BY <1>4, <1>5, <2>1 DEF Encode
    <3> QED BY <2>1, <3>1, Placed, Letters
  <2>2. CASE ch \in ToSet(Numeric)
    <3>1. Encode(ch) = a + Position(Numeric, ch) - 1
      BY <1>4, <1>6, <2>2 DEF Encode
    <3>2. Position(Numeric, ch) \in DOMAIN Numeric /\ Numeric[Position(Numeric, ch)] = ch
      BY <2>2, Placed
    <3>3. PICK i \in DOMAIN Numeric : i = Position(Numeric, ch)
      BY <3>2
    <3>4. a + i \in 1 .. Len(alphabet) /\ alphabet[a + i] = ch /\ i \in Nat
      BY <1>3, <3>2, <3>3, Letters
    <3>5. Encode(ch) = (a + i) - 1
      BY <3>1, <3>3
    <3> HIDE DEF a
    <3> QED BY <3>4, <3>5
  <2>3. CASE ch \in ToSet(Special)
    <3>1. Encode(ch) = a + n + Position(Special, ch) - 1
      BY <1>5, <1>6, <2>3 DEF Encode
    <3>2. Position(Special, ch) \in DOMAIN Special /\ Special[Position(Special, ch)] = ch
      BY <2>3, Placed
    <3>3. PICK i \in DOMAIN Special : i = Position(Special, ch)
      BY <3>2
    <3>4. a + n + i \in 1 .. Len(alphabet) /\ alphabet[a + n + i] = ch
      BY <3>2, <3>3, Letters
    <3>5. i \in Nat
      <4>1. Special \in Seq(ToSet(Special))
        BY AlphabetAssumption
      <4>2. PICK S : S = ToSet(Special)
        OBVIOUS
      <4> QED BY <4>1, <4>2
    <3>6. Encode(ch) = (a + n + i) - 1
      BY <1>3, <3>1, <3>3, <3>5
    <3> HIDE DEF a, n
    <3> QED BY <3>4, <3>6
  <2> QED BY <1>7, <2>1, <2>2, <2>3
<1>9. PICK i \in 1 .. Len(alphabet) : Encode(ch) = i - 1 /\ alphabet[i] = ch
  BY <1>8
<1> QED BY <1>2, <1>9 DEF Decode
-----------------------------------------------------------------------------
(* The sizes. *)
LEMMA LeafIndex ==
    ASSUME NEW t \in Tables, NEW p
    PROVE  /\ LeafCmdIndex(t, p) \in Nat /\ LeafCmdIndex(t, p) < LOW * LOW
           /\ LeafCmdIndex(t, p) # 0 <=> p \in ToSet(t)
           /\ p \in ToSet(t) => LeafCmdIndex(t, p) = Position(t, p)
<1>1. LOW * LOW \in Nat \ {0} /\ Len(t) < LOW * LOW
  BY LowPositive, TablesAssumption
<1>2. CASE p \in ToSet(t)
  <2>1. Position(t, p) \in 1 .. Len(t) /\ Len(t) \in Nat
    BY <1>2, NamesListed, Placed
  <2> QED BY <1>1, <1>2, <2>1 DEF LeafCmdIndex
<1>3. CASE p \notin ToSet(t)
  BY <1>1, <1>3 DEF LeafCmdIndex
<1> QED BY <1>2, <1>3

NodeSize == [subtree : Nat, rooted : Nat \ {0}]

LEMMA WithNodeIs ==
    ASSUME NEW index \in Nat, NEW below \in Nat
    PROVE  /\ IndexSize(index) \in Nat /\ SizeSize(below) \in Nat
           /\ WithNode(index, below) \in NodeSize
           /\ WithNode(index, below).subtree = below
           /\ WithNode(index, below).rooted = below + 1 + IndexSize(index) + SizeSize(below)
           /\ WithNode(index, below).rooted > below
<1>1. IndexSize(index) \in Nat /\ SizeSize(below) \in Nat
  BY DEF IndexSize, SizeSize
<1> QED BY <1>1 DEF WithNode, NodeSize

LEMMA SizesUnfold ==
    ASSUME NEW t \in Tables
    PROVE  \A p \in Nodes(t) :
              SubtreeSizes(t)[p] = WithNode(LeafCmdIndex(t, p),
                                            Total(KidSizes(SubtreeSizes(t), Children(t, p))))
<1> DEFINE V == NodeSize
           Rooted(s) == [i \in 1 .. Len(s) |-> s[i].rooted]
           F == [p \in Nodes(t) |-> [s \in Seq(V) |->
                   WithNode(LeafCmdIndex(t, p), Total(Rooted(s)))]]
           Unfold(g) == [p \in Nodes(t) |->
                           WithNode(LeafCmdIndex(t, p), Total(KidSizes(g, Children(t, p))))]
           size == CHOOSE g : g = Unfold(g)
<1>1. NodeSteps(F, t, V)
  <2>1. ASSUME NEW p \in Nodes(t), NEW s \in Seq(V) PROVE F[p][s] \in V
    <3>1. Rooted(s) \in Seq(Nat)
      <4>1. PICK n \in Nat : n = Len(s) /\ \A i \in 1 .. n : s[i] \in V
        OBVIOUS
      <4>2. \A i \in 1 .. n : s[i].rooted \in Nat
        BY <4>1 DEF NodeSize
      <4>3. Rooted(s) \in [1 .. n -> Nat]
        BY <4>1, <4>2
      <4> HIDE DEF Rooted
      <4> QED BY <4>3
    <3>2. PICK r \in Seq(Nat) : r = Rooted(s)
      BY <3>1
    <3>3. Total(r) \in Nat
      <4>1. PICK sum : Sums(sum, r) /\ Total(r) = sum[Len(r)]
        BY TotalIs
      <4>2. Len(r) \in 0 .. Len(r)
        OBVIOUS
      <4> QED BY <4>1, <4>2 DEF Sums
    <3>4. F[p][s] = WithNode(LeafCmdIndex(t, p), Total(r))
      BY <3>2
    <3>5. PICK index \in Nat, below \in Nat : index = LeafCmdIndex(t, p) /\ below = Total(r)
      BY <3>3, LeafIndex
    <3> HIDE DEF F
    <3> QED BY <3>4, <3>5, WithNodeIs
  <2> HIDE DEF F, V
  <2> QED BY <2>1 DEF NodeSteps
<1>2. PICK v : v \in V
  <2>1. [subtree |-> 0, rooted |-> 1] \in V
    BY DEF NodeSize
  <2> QED BY <2>1
<1>3. PICK g : Treewise(g, F, t, V)
  <2> HIDE DEF F, V
  <2> QED BY <1>1, <1>2, TreeRecursion
<1>4. g = Unfold(g)
  <2>1. ASSUME NEW p \in Nodes(t)
        PROVE  g[p] = WithNode(LeafCmdIndex(t, p), Total(KidSizes(g, Children(t, p))))
    <3>1. PICK s : s = KidValues(g, Children(t, p))
      OBVIOUS
    <3>2. s \in Seq(V)
      <4>1. \A q \in ChildSet(t, p) : g[q] \in V
        BY <1>3 DEF Treewise, ChildSet
      <4> HIDE DEF V
      <4> QED BY <3>1, <4>1, KidValuesIn
    <3>3. g[p] = F[p][s]
      BY <1>3, <3>1 DEF Treewise
    <3>4. g[p] = WithNode(LeafCmdIndex(t, p), Total(Rooted(s)))
      BY <3>2, <3>3
    <3>5. Rooted(s) = KidSizes(g, Children(t, p))
      <4>1. PICK kids : kids = Children(t, p) /\ Len(kids) \in Nat
        BY KidsAt
      <4>2. s = [i \in 1 .. Len(kids) |-> g[kids[i]]] /\ Len(s) = Len(kids)
        BY <3>1, <4>1 DEF KidValues
      <4> QED BY <4>1, <4>2 DEF KidSizes
    <3> QED BY <3>4, <3>5
  <2> HIDE DEF V, F
  <2> QED BY <1>3, <2>1 DEF Treewise
<1>5. size = Unfold(size)
  <2> HIDE DEF Unfold
  <2> QED BY <1>4
<1>6. SubtreeSizes(t) = size
  BY DEF SubtreeSizes
<1> HIDE DEF size
<1> QED BY <1>5, <1>6

LEMMA SizesAre ==
    ASSUME NEW t \in Tables, NEW p \in Nodes(t)
    PROVE  SubtreeSizes(t)[p] \in NodeSize
<1> DEFINE T == {q \in Nodes(t) : SubtreeSizes(t)[q] \in NodeSize}
<1>1. ASSUME NEW q \in Nodes(t), \A r \in ChildSet(t, q) : r \in T
      PROVE  q \in T
  <2>1. PICK kids : kids = Children(t, q) /\ Len(kids) \in Nat
    BY KidsAt
  <2> DEFINE n == Len(kids)
  <2>2. PICK s : s = KidSizes(SubtreeSizes(t), kids)
    OBVIOUS
  <2>3. ASSUME NEW i \in 1 .. n PROVE SubtreeSizes(t)[kids[i]].rooted \in Nat
    <3>1. kids[i] \in ChildSet(t, q)
      BY <2>1, KidsAt
    <3> QED BY <1>1, <3>1 DEF NodeSize
  <2>4. s \in [1 .. n -> Nat]
    BY <2>1, <2>2, <2>3 DEF KidSizes
  <2>5. s \in Seq(Nat)
    BY <2>4
  <2>6. Total(s) \in Nat
    <3>1. PICK sum : Sums(sum, s) /\ Total(s) = sum[Len(s)]
      BY <2>5, TotalIs
    <3>2. Len(s) \in 0 .. Len(s)
      BY <2>5
    <3> QED BY <3>1, <3>2 DEF Sums
  <2>7. SubtreeSizes(t)[q] = WithNode(LeafCmdIndex(t, q), Total(s))
    BY <2>1, <2>2, SizesUnfold
  <2>8. SubtreeSizes(t)[q] \in NodeSize
    BY <2>6, <2>7, LeafIndex, WithNodeIs
  <2> QED BY <2>8
<1>2. Nodes(t) \subseteq T
  <2> HIDE DEF T
  <2>1. TreeInductive(T, t)
    BY <1>1 DEF TreeInductive
  <2> QED BY <2>1, TreeInduction
<1> QED BY <1>2
-----------------------------------------------------------------------------
(* The bytes. *)
LEMMA MaskBounds == MASKS_LEAF \in Nat \ {0} /\ MASKS_LAST = 2 * MASKS_LEAF /\ MASKS_LAST \in Nat
  BY MaskAssumption DEF MASKS_LAST

NodeCode(p) == IF p = <<>> THEN 0 ELSE Encode(Last(p))

LEMMA HeaderIs ==
    ASSUME NEW t \in Tables, NEW p \in Nodes(t)
    PROVE  /\ NodeCode(p) \in 0 .. MASKS_LEAF - 1
           /\ p # <<>> => Last(p) \in Encodable /\ Decode(NodeCode(p)) = Last(p)
           /\ Header(t, p) = NodeCode(p) + (IF LeafCmdIndex(t, p) # 0 THEN MASKS_LEAF ELSE 0)
           /\ Header(t, p) \in 0 .. MASKS_LAST - 1
<1>1. CASE p = <<>>
  BY <1>1, MaskBounds DEF NodeCode, Header
<1>2. CASE p # <<>>
  <2>1. PICK q \in Seq(Encodable) : q = p
    BY NodeIsBeginning
  <2>2. q[Len(q)] \in Encodable
    BY <1>2, <2>1
  <2>3. Last(p) \in Encodable
    BY <2>1, <2>2 DEF Last
  <2>4. Encode(Last(p)) \in 0 .. MASKS_LEAF - 1 /\ Decode(Encode(Last(p))) = Last(p)
    BY <2>3, Encoded
  <2> QED BY <1>2, <2>3, <2>4, MaskBounds DEF NodeCode, Header
<1> QED BY <1>1, <1>2

LEMMA PackIndexIs ==
    ASSUME NEW index \in Nat
    PROVE  PackIndex(index) \in Seq(Nat) /\ Len(PackIndex(index)) = IndexSize(index)
<1>0. LOW \in Nat \ {0, 1}
  BY LowPositive
<1>1. CASE index = 0
  BY <1>1 DEF PackIndex, IndexSize
<1>2. CASE index # 0 /\ index <= LOW
  <2>1. PICK c \in Nat : c = index - 1
    BY <1>2
  <2>2. PackIndex(index) = <<c>> /\ IndexSize(index) = 1
    BY <1>0, <1>2, <2>1 DEF PackIndex, IndexSize
  <2> QED BY <2>2
<1>3. CASE index > LOW
  <2>1. PICK c \in Nat : c = index - 1
    BY <1>0, <1>3
  <2>2. LOW + (c % LOW) \in Nat /\ c \div LOW \in Nat
    BY <1>0, Division
  <2>3. PICK a \in Nat, b \in Nat : a = LOW + (c % LOW) /\ b = c \div LOW
    BY <2>2
  <2>4. PackIndex(index) = <<a, b>> /\ IndexSize(index) = 2
    BY <1>0, <1>3, <2>1, <2>3 DEF PackIndex, IndexSize
  <2> QED BY <2>4
<1> QED BY <1>0, <1>1, <1>2, <1>3

LEMMA PackSizeIs ==
    ASSUME NEW size \in Nat
    PROVE  PackSize(size) \in Seq(Nat) /\ Len(PackSize(size)) = SizeSize(size)
<1>0. LOW \in Nat \ {0, 1} /\ LOW * LOW \in Nat \ {0} /\ LOW < LOW * LOW
  BY LowPositive
<1>1. PICK a \in Nat, b \in Nat : a = LOW + (size % LOW) /\ b = size \div LOW
  <2>1. LOW + (size % LOW) \in Nat /\ size \div LOW \in Nat
    BY <1>0, Division
  <2> QED BY <2>1
<1>2. PICK c \in Nat, d \in Nat : c = LOW + (b % LOW) /\ d = (size \div (LOW * LOW)) % (2 * LOW)
  <2>1. size \div (LOW * LOW) \in Nat /\ 2 * LOW \in Nat \ {0}
    BY <1>0, Division
  <2>2. (size \div (LOW * LOW)) % (2 * LOW) \in Nat
    BY <2>1
  <2> QED BY <1>0, <2>2
<1>3. CASE size < LOW
  <2>1. PackSize(size) = <<size>> /\ SizeSize(size) = 1
    BY <1>0, <1>3 DEF PackSize, SizeSize
  <2> QED BY <2>1
<1>4. CASE size >= LOW /\ size < LOW * LOW
  <2>1. PackSize(size) = <<a, b>> /\ SizeSize(size) = 2
    BY <1>0, <1>1, <1>4 DEF PackSize, SizeSize
  <2> QED BY <2>1
<1>5. CASE size >= LOW * LOW
  <2>1. PackSize(size) = <<a, c, d>> /\ SizeSize(size) = 3
    BY <1>0, <1>1, <1>2, <1>5 DEF PackSize, SizeSize
  <2> QED BY <2>1
<1> QED BY <1>0, <1>3, <1>4, <1>5

(* A node: its header, the index, the size. *)
Headed(f, header, index, size) ==
    /\ f[1] = header
    /\ \A i \in 1 .. IndexSize(index) : f[1 + i] = PackIndex(index)[i]
    /\ \A i \in 1 .. SizeSize(size) : f[1 + IndexSize(index) + i] = PackSize(size)[i]

LEMMA NodeBytesAre ==
    ASSUME NEW t \in Tables, NEW p \in Nodes(t),
           NEW index, index = LeafCmdIndex(t, p),
           NEW size, size = SubtreeSizes(t)[p].subtree
    PROVE  /\ index \in Nat /\ size \in Nat
           /\ IndexSize(index) \in Nat /\ SizeSize(size) \in Nat
           /\ NodeBytes(t, p) \in Seq(Nat)
           /\ Len(NodeBytes(t, p)) = 1 + IndexSize(index) + SizeSize(size)
           /\ Headed(NodeBytes(t, p), Header(t, p), index, size)
<1>1. index \in Nat /\ size \in Nat
  BY LeafIndex, SizesAre DEF NodeSize
<1>2. PICK a \in Nat, b \in Nat : a = IndexSize(index) /\ b = SizeSize(size)
  BY <1>1, WithNodeIs
<1>3. PICK f \in Seq(Nat), g \in Seq(Nat) :
         f = PackIndex(index) /\ g = PackSize(size) /\ Len(f) = a /\ Len(g) = b
  BY <1>1, <1>2, PackIndexIs, PackSizeIs
<1>4. PICK n \in Nat : n = Header(t, p)
  BY HeaderIs, MaskBounds
<1>5. PICK e \in Seq(Nat) : e = <<n>> /\ Len(e) = 1 /\ e[1] = n
  <2>1. PICK e : e = <<n>>
    OBVIOUS
  <2>2. e \in Seq(Nat) /\ Len(e) = 1 /\ e[1] = n
    BY <2>1
  <2> QED BY <2>1, <2>2
<1>6. PICK u \in Seq(Nat) : /\ u = e \o f /\ Len(u) = 1 + a
                            /\ u[1] = n /\ \A i \in 1 .. a : u[1 + i] = f[i]
  <2>1. PICK u : u = e \o f
    OBVIOUS
  <2>2. /\ u \in Seq(Nat) /\ Len(u) = Len(e) + Len(f)
        /\ \A j \in 1 .. Len(e) : u[j] = e[j]
        /\ \A j \in 1 .. Len(f) : u[Len(e) + j] = f[j]
    BY <2>1, Joined
  <2>3. Len(e) = 1 /\ Len(f) = a /\ 1 \in 1 .. 1
    BY <1>3, <1>5
  <2>4. Len(u) = 1 + a /\ u[1] = n /\ \A j \in 1 .. a : u[1 + j] = f[j]
    BY <1>5, <2>2, <2>3
  <2> QED BY <2>1, <2>2, <2>4
<1>7. PICK w \in Seq(Nat) : /\ w = u \o g /\ Len(w) = 1 + a + b
                            /\ \A i \in 1 .. 1 + a : w[i] = u[i]
                            /\ \A i \in 1 .. b : w[1 + a + i] = g[i]
  <2>1. PICK w : w = u \o g
    OBVIOUS
  <2>2. /\ w \in Seq(Nat) /\ Len(w) = Len(u) + Len(g)
        /\ \A j \in 1 .. Len(u) : w[j] = u[j]
        /\ \A j \in 1 .. Len(g) : w[Len(u) + j] = g[j]
    BY <2>1, Joined
  <2>3. Len(u) = 1 + a /\ Len(g) = b
    BY <1>3, <1>6
  <2>4. /\ Len(w) = 1 + a + b
        /\ \A i \in 1 .. 1 + a : w[i] = u[i]
        /\ \A i \in 1 .. b : w[1 + a + i] = g[i]
    BY <2>2, <2>3
  <2> QED BY <2>1, <2>2, <2>4
<1>8. NodeBytes(t, p) = w
  BY <1>3, <1>4, <1>5, <1>6, <1>7 DEF NodeBytes
<1>9. w[1] = n /\ \A i \in 1 .. a : w[1 + i] = f[i]
  BY <1>6, <1>7
<1>10. Headed(w, n, index, size)
  BY <1>2, <1>3, <1>7, <1>9 DEF Headed
<1> QED BY <1>1, <1>2, <1>4, <1>7, <1>8, <1>10

Bytes == Seq(Nat) \ {<<>>}

LEMMA MarkIs ==
    ASSUME NEW b \in Bytes
    PROVE  /\ MarkLast(b) \in Bytes /\ Len(MarkLast(b)) = Len(b) /\ Len(b) \in Nat \ {0}
           /\ MarkLast(b)[1] = b[1] + MASKS_LAST
           /\ \A i \in 2 .. Len(b) : MarkLast(b)[i] = b[i]
<1>1. PICK n \in Nat \ {0} : n = Len(b) /\ b \in [1 .. n -> Nat]
  BY DEF Bytes
<1>2. 1 \in 1 .. n /\ b[1] + MASKS_LAST \in Nat
  BY <1>1, MaskBounds
<1>3. PICK m : m = MarkLast(b)
  OBVIOUS
<1>4. m = [b EXCEPT ![1] = b[1] + MASKS_LAST]
  BY <1>3 DEF MarkLast
<1>5. m \in [1 .. n -> Nat] /\ m[1] = b[1] + MASKS_LAST /\ \A i \in 2 .. n : m[i] = b[i]
  BY <1>1, <1>2, <1>4
<1>6. m \in Seq(Nat) /\ Len(m) = n /\ m # <<>>
  BY <1>5
<1> QED BY <1>1, <1>3, <1>5, <1>6 DEF Bytes

LEMMA KidBytesAre ==
    ASSUME NEW t \in Tables, NEW p \in Nodes(t), NEW pack,
           \A q \in ChildSet(t, p) : pack[q] \in Bytes
    PROVE  KidBytes(pack, Children(t, p)) \in Seq(Bytes)
<1>1. PICK kids, n : kids = Children(t, p) /\ n = Len(kids)
  OBVIOUS
<1>2. n \in Nat /\ \A i \in 1 .. n : kids[i] \in ChildSet(t, p)
  BY <1>1, KidsAt
<1>3. ASSUME NEW i \in 1 .. n
      PROVE  (IF i = n THEN MarkLast(pack[kids[i]]) ELSE pack[kids[i]]) \in Bytes
  BY <1>2, MarkIs
<1>4. KidBytes(pack, kids) \in [1 .. n -> Bytes]
  BY <1>1, <1>3 DEF KidBytes
<1> QED BY <1>1, <1>2, <1>4

LEMMA Flattens ==
    ASSUME NEW seqs \in Seq(Bytes)
    PROVE  seqs \in Seq(Seq(Nat)) /\ FlattenSeq(seqs) \in Seq(Nat)
<1>1. PICK B, S : B = Bytes /\ S = Seq(Nat) /\ B \subseteq S
  BY DEF Bytes
<1>2. seqs \in Seq(S)
  BY <1>1
<1>3. seqs \in Seq(Seq(Nat))
  BY <1>1, <1>2
<1> QED BY <1>3, FlattenIs

LEMMA NodePacked ==
    ASSUME NEW t \in Tables, NEW p \in Nodes(t), NEW below \in Seq(Nat)
    PROVE  NodeBytes(t, p) \o below \in Bytes
<1>1. PICK n \in Seq(Nat) : n = NodeBytes(t, p) /\ Len(n) \in Nat \ {0}
  <2>1. PICK index, size : index = LeafCmdIndex(t, p) /\ size = SubtreeSizes(t)[p].subtree
    OBVIOUS
  <2>2. /\ NodeBytes(t, p) \in Seq(Nat) /\ IndexSize(index) \in Nat /\ SizeSize(size) \in Nat
        /\ Len(NodeBytes(t, p)) = 1 + IndexSize(index) + SizeSize(size)
    BY <2>1, NodeBytesAre
  <2> QED BY <2>2
<1>2. PICK h : h = n \o below
  OBVIOUS
<1>3. h \in Seq(Nat) /\ Len(h) = Len(n) + Len(below) /\ Len(below) \in Nat
  BY <1>2, Joined
<1>4. h # <<>>
  BY <1>1, <1>3
<1> QED BY <1>1, <1>2, <1>3, <1>4 DEF Bytes

LEMMA PackedUnfold ==
    ASSUME NEW t \in Tables
    PROVE  \A p \in Nodes(t) :
              Packed(t)[p] = NodeBytes(t, p) \o FlattenSeq(KidBytes(Packed(t), Children(t, p)))
<1> DEFINE V == Bytes
           Marked(s) == [i \in 1 .. Len(s) |-> IF i = Len(s) THEN MarkLast(s[i]) ELSE s[i]]
           F == [p \in Nodes(t) |-> [s \in Seq(V) |-> NodeBytes(t, p) \o FlattenSeq(Marked(s))]]
           Unfold(g) == [p \in Nodes(t) |->
                           NodeBytes(t, p) \o FlattenSeq(KidBytes(g, Children(t, p)))]
           pack == CHOOSE g : g = Unfold(g)
<1>1. NodeSteps(F, t, V)
  <2>1. ASSUME NEW p \in Nodes(t), NEW s \in Seq(V) PROVE F[p][s] \in V
    <3>1. Marked(s) \in Seq(V)
      <4>1. PICK n \in Nat : n = Len(s) /\ \A i \in 1 .. n : s[i] \in Bytes
        OBVIOUS
      <4>2. \A i \in 1 .. n : (IF i = n THEN MarkLast(s[i]) ELSE s[i]) \in Bytes
        BY <4>1, MarkIs
      <4>3. Marked(s) \in [1 .. n -> Bytes]
        BY <4>1, <4>2
      <4> HIDE DEF Marked
      <4> QED BY <4>3
    <3>2. PICK m \in Seq(Bytes) : m = Marked(s)
      BY <3>1
    <3>3. PICK below \in Seq(Nat) : below = FlattenSeq(m)
      BY Flattens
    <3>4. F[p][s] = NodeBytes(t, p) \o below
      BY <3>2, <3>3
    <3> HIDE DEF F
    <3> QED BY <3>4, NodePacked
  <2> HIDE DEF F, V
  <2> QED BY <2>1 DEF NodeSteps
<1>2. PICK v : v \in V
  <2>1. PICK v : v = <<0>>
    OBVIOUS
  <2>2. v \in Seq(Nat) /\ v # <<>>
    BY <2>1
  <2> QED BY <2>2 DEF Bytes
<1>3. PICK g : Treewise(g, F, t, V)
  <2> HIDE DEF F, V
  <2> QED BY <1>1, <1>2, TreeRecursion
<1>4. g = Unfold(g)
  <2>1. ASSUME NEW p \in Nodes(t)
        PROVE  g[p] = NodeBytes(t, p) \o FlattenSeq(KidBytes(g, Children(t, p)))
    <3>1. PICK s : s = KidValues(g, Children(t, p))
      OBVIOUS
    <3>2. s \in Seq(V)
      <4>1. \A q \in ChildSet(t, p) : g[q] \in V
        BY <1>3 DEF Treewise, ChildSet
      <4> HIDE DEF V
      <4> QED BY <3>1, <4>1, KidValuesIn
    <3>3. g[p] = F[p][s]
      BY <1>3, <3>1 DEF Treewise
    <3>4. g[p] = NodeBytes(t, p) \o FlattenSeq(Marked(s))
      BY <3>2, <3>3
    <3>5. Marked(s) = KidBytes(g, Children(t, p))
      <4>1. PICK kids : kids = Children(t, p) /\ Len(kids) \in Nat
        BY KidsAt
      <4>2. s = [i \in 1 .. Len(kids) |-> g[kids[i]]] /\ Len(s) = Len(kids)
        BY <3>1, <4>1 DEF KidValues
      <4> QED BY <4>1, <4>2 DEF KidBytes
    <3> QED BY <3>4, <3>5
  <2> HIDE DEF V, F
  <2> QED BY <1>3, <2>1 DEF Treewise
<1>5. pack = Unfold(pack)
  <2> HIDE DEF Unfold
  <2> QED BY <1>4
<1>6. Packed(t) = pack
  BY DEF Packed
<1> HIDE DEF pack
<1> QED BY <1>5, <1>6

(* As many as were counted. *)
LEMMA PackedAre ==
    ASSUME NEW t \in Tables, NEW p \in Nodes(t)
    PROVE  Packed(t)[p] \in Bytes /\ Len(Packed(t)[p]) = SubtreeSizes(t)[p].rooted
<1> DEFINE T == {q \in Nodes(t) : /\ Packed(t)[q] \in Bytes
                                  /\ Len(Packed(t)[q]) = SubtreeSizes(t)[q].rooted}
<1>1. ASSUME NEW q \in Nodes(t), \A r \in ChildSet(t, q) : r \in T
      PROVE  q \in T
  <2>1. PICK kids : kids = Children(t, q)
    OBVIOUS
  <2> DEFINE n == Len(kids)
  <2>2. n \in Nat /\ \A i \in 1 .. n : kids[i] \in ChildSet(t, q)
    BY <2>1, KidsAt
  <2>3. PICK b \in Seq(Bytes) : b = KidBytes(Packed(t), kids)
    <3>1. \A r \in ChildSet(t, q) : Packed(t)[r] \in Bytes
      BY <1>1
    <3> QED BY <2>1, <3>1, KidBytesAre
  <2>4. Len(b) = n /\ \A i \in 1 .. n : Len(b[i]) = SubtreeSizes(t)[kids[i]].rooted
    <3>1. Len(b) = n /\ \A i \in 1 .. n : b[i] = IF i = n THEN MarkLast(Packed(t)[kids[i]])
                                                ELSE Packed(t)[kids[i]]
      BY <2>2, <2>3 DEF KidBytes
    <3>2. ASSUME NEW i \in 1 .. n PROVE Len(b[i]) = SubtreeSizes(t)[kids[i]].rooted
      <4>1. Packed(t)[kids[i]] \in Bytes
            /\ Len(Packed(t)[kids[i]]) = SubtreeSizes(t)[kids[i]].rooted
        BY <1>1, <2>2
      <4> QED BY <3>1, <4>1, MarkIs
    <3> QED BY <3>1, <3>2
  <2>5. Lengths(b) = KidSizes(SubtreeSizes(t), kids)
    BY <2>4 DEF Lengths, KidSizes
  <2>6. PICK below \in Seq(Nat) :
           below = FlattenSeq(b) /\ Len(below) = Total(KidSizes(SubtreeSizes(t), kids))
    <3>1. b \in Seq(Seq(Nat))
      BY Flattens
    <3>2. FlattenSeq(b) \in Seq(Nat) /\ Len(FlattenSeq(b)) = Total(Lengths(b))
      BY <3>1, FlattenIs
    <3> QED BY <2>5, <3>2
  <2>7. PICK index, size : index = LeafCmdIndex(t, q) /\ size = SubtreeSizes(t)[q].subtree
    OBVIOUS
  <2>8. PICK h \in Seq(Nat) : h = NodeBytes(t, q) /\ Len(h) = 1 + IndexSize(index) + SizeSize(size)
    BY <2>7, NodeBytesAre
  <2>9. SubtreeSizes(t)[q] = WithNode(index, Len(below))
    BY <2>1, <2>6, <2>7, SizesUnfold
  <2>10. PICK l \in Nat : l = Len(below)
    BY <2>6
  <2>11. index \in Nat
    BY <2>7, LeafIndex
  <2>12. PICK w \in Nat : w = WithNode(index, l).rooted /\ WithNode(index, l).subtree = l
                          /\ w = l + (1 + IndexSize(index) + SizeSize(l))
    <3>1. WithNode(index, l) \in NodeSize
      BY <2>11, WithNodeIs
    <3>2. WithNode(index, l).rooted \in Nat
      BY <3>1 DEF NodeSize
    <3>3. PICK i \in Nat, s \in Nat : i = IndexSize(index) /\ s = SizeSize(l)
      BY <2>11, WithNodeIs
    <3>4. WithNode(index, l).rooted = l + 1 + i + s /\ WithNode(index, l).subtree = l
      BY <2>11, <3>3, WithNodeIs
    <3>5. l + 1 + i + s = l + (1 + i + s)
      OBVIOUS
    <3> QED BY <3>2, <3>3, <3>4, <3>5
  <2>13. size = l /\ SubtreeSizes(t)[q].rooted = w
    BY <2>7, <2>9, <2>10, <2>12
  <2>14. PICK all \in Seq(Nat) : all = h \o below
    <3>1. h \o below \in Seq(Nat)
      BY <2>6, <2>8, SMT
    <3> QED BY <3>1, Zenon
  <2>15. Len(all) = Len(h) + l
    BY <2>10, <2>14, Joined
  <2>16. Packed(t)[q] = all /\ all \in Bytes
    BY <2>1, <2>3, <2>6, <2>8, <2>14, PackedUnfold, NodePacked
  <2>17. PICK m \in Nat : m = Len(h) /\ m = 1 + IndexSize(index) + SizeSize(l)
    BY <2>8, <2>13
  <2>18. Len(all) = SubtreeSizes(t)[q].rooted
    BY <2>12, <2>13, <2>15, <2>17
  <2> QED BY <2>16, <2>18
<1>2. Nodes(t) \subseteq T
  <2> HIDE DEF T
  <2>1. TreeInductive(T, t)
    BY <1>1 DEF TreeInductive
  <2> QED BY <2>1, TreeInduction
<1> QED BY <1>2

(* The array holds what was packed, and getTrieSize counted its bytes when *)
(* it fixed the size of the array: for every alphabet and every list of    *)
(* names that can be built.                                                *)
THEOREM PackedExactly == Spec => []PackedToSize
<1> DEFINE Built == names \in Tables /\ m_trie = Pack(names)
<1>1. Init => Built
  BY DEF Init
<1>2. Built /\ [Next]_vars => Built'
  BY DEF Next, vars, Reset, Feed, Scan, ChildFound, NoChild, NextSibling
<1>3. Built => PackedToSize
  <2> SUFFICES ASSUME Built PROVE PackedToSize
    OBVIOUS
  <2>1. <<>> \in Nodes(names)
    BY DEF Nodes
  <2> QED BY <2>1, PackedAre DEF PackedToSize, GetTrieSize, Pack
<1> QED BY <1>1, <1>2, <1>3, PTL DEF Spec
-----------------------------------------------------------------------------
(* The walk: what the bytes of a node tell where the array holds them. *)
LEMMA HeaderByte ==
    ASSUME NEW c \in 0 .. MASKS_LEAF - 1, NEW k \in 0 .. 3
    PROVE  /\ k * MASKS_LEAF + c \in Nat
           /\ (k * MASKS_LEAF + c) % MASKS_LEAF = c
           /\ (k * MASKS_LEAF + c) \div MASKS_LEAF = k
           /\ k * MASKS_LEAF + c >= MASKS_LAST <=> k >= 2
<1>1. PICK m \in Nat \ {0} : m = MASKS_LEAF /\ MASKS_LAST = 2 * m
  BY MaskBounds
<1>2. CASE k = 0
  BY <1>1, <1>2
<1>3. CASE k = 1
  BY <1>1, <1>3
<1>4. CASE k = 2
  BY <1>1, <1>4
<1>5. CASE k = 3
  BY <1>1, <1>5
<1> QED BY <1>2, <1>3, <1>4, <1>5

(* The bytes of a node as its parent holds them, and their length without  *)
(* those of its children.                                                  *)
Image(t, p, last) == IF last THEN MarkLast(Packed(t)[p]) ELSE Packed(t)[p]
HeadLength(t, p)  == 1 + IndexSize(LeafCmdIndex(t, p)) + SizeSize(SubtreeSizes(t)[p].subtree)
Below(t, p)       == FlattenSeq(KidBytes(Packed(t), Children(t, p)))

SameTail(f, g, l) == \A i \in 2 .. l : f[i] = g[i]

LEMMA ImageIs ==
    ASSUME NEW t \in Tables, NEW p \in Nodes(t), NEW last \in BOOLEAN
    PROVE  /\ Image(t, p, last) \in Bytes
           /\ Len(Image(t, p, last)) = SubtreeSizes(t)[p].rooted
           /\ Image(t, p, last)[1] = Packed(t)[p][1] + (IF last THEN MASKS_LAST ELSE 0)
           /\ SameTail(Image(t, p, last), Packed(t)[p], SubtreeSizes(t)[p].rooted)
<1>1. PICK b \in Bytes : b = Packed(t)[p] /\ Len(b) = SubtreeSizes(t)[p].rooted
  BY PackedAre
<1>2. b[1] \in Nat
  BY DEF Bytes
<1> QED BY <1>1, <1>2, MarkIs DEF Image, SameTail

LEMMA PackedParts ==
    ASSUME NEW t \in Tables, NEW p \in Nodes(t),
           NEW index, index = LeafCmdIndex(t, p),
           NEW size, size = SubtreeSizes(t)[p].subtree
    PROVE  /\ HeadLength(t, p) \in Nat \ {0} /\ HeadLength(t, p) = 1 + IndexSize(index) + SizeSize(size)
           /\ Below(t, p) \in Seq(Nat) /\ Len(Below(t, p)) = size
           /\ SubtreeSizes(t)[p].rooted = HeadLength(t, p) + size
           /\ Headed(Packed(t)[p], Header(t, p), index, size)
           /\ \A i \in 1 .. size : Packed(t)[p][HeadLength(t, p) + i] = Below(t, p)[i]
<1>1. /\ index \in Nat /\ size \in Nat
      /\ IndexSize(index) \in Nat /\ SizeSize(size) \in Nat
      /\ NodeBytes(t, p) \in Seq(Nat)
      /\ Len(NodeBytes(t, p)) = 1 + IndexSize(index) + SizeSize(size)
  BY NodeBytesAre
<1>2. PICK h \in Seq(Nat) : h = NodeBytes(t, p)
  BY <1>1
<1>3. PICK i1 \in Nat, s1 \in Nat : i1 = IndexSize(index) /\ s1 = SizeSize(size)
  BY <1>1
<1>4. PICK n \in Nat \ {0} : n = HeadLength(t, p) /\ n = 1 + i1 + s1 /\ Len(h) = n
  <2>1. 1 + i1 + s1 \in Nat \ {0}
    OBVIOUS
  <2>2. HeadLength(t, p) = 1 + i1 + s1
    BY <1>3 DEF HeadLength
  <2> QED BY <1>1, <1>2, <1>3, <2>1, <2>2
<1>5. /\ h[1] = Header(t, p)
      /\ \A i \in 1 .. i1 : h[1 + i] = PackIndex(index)[i]
      /\ \A i \in 1 .. s1 : h[1 + i1 + i] = PackSize(size)[i]
  <2>1. Headed(h, Header(t, p), index, size)
    BY <1>2, NodeBytesAre
  <2> QED BY <1>3, <2>1 DEF Headed
<1>6. PICK below \in Seq(Nat) : below = Below(t, p)
  <2>1. \A q \in ChildSet(t, p) : Packed(t)[q] \in Bytes
    BY PackedAre DEF ChildSet
  <2>2. KidBytes(Packed(t), Children(t, p)) \in Seq(Bytes)
    BY <2>1, KidBytesAre
  <2> QED BY <2>2, Flattens DEF Below
<1>7. PICK all \in Seq(Nat) : all = h \o below
  <2>1. h \o below \in Seq(Nat)
    BY SMT
  <2> QED BY <2>1, Zenon
<1>8. Packed(t)[p] = all
  BY <1>2, <1>6, <1>7, PackedUnfold DEF Below
<1>9. /\ Len(all) = n + Len(below)
      /\ \A j \in 1 .. n : all[j] = h[j]
      /\ \A j \in 1 .. Len(below) : all[n + j] = below[j]
  <2>1. /\ Len(all) = Len(h) + Len(below)
        /\ \A j \in 1 .. Len(h) : all[j] = h[j]
        /\ \A j \in 1 .. Len(below) : all[Len(h) + j] = below[j]
    BY <1>2, <1>6, <1>7, Joined
  <2> QED BY <1>4, <2>1
<1>10. PICK l \in Nat : l = Len(below)
  OBVIOUS
<1>11. l = size
  <2>1. PICK kids : kids = Total(KidSizes(SubtreeSizes(t), Children(t, p)))
    OBVIOUS
  <2>2. SubtreeSizes(t)[p] = WithNode(index, kids) /\ size = kids
    BY <2>1, SizesUnfold DEF WithNode
  <2>3. SubtreeSizes(t)[p].rooted = size + 1 + i1 + s1
    BY <2>2, <1>3 DEF WithNode
  <2>4. Len(all) = SubtreeSizes(t)[p].rooted
    BY <1>8, PackedAre
  <2>5. n + l = size + 1 + i1 + s1
    BY <1>9, <1>10, <2>3, <2>4
  <2>6. /\ n \in Nat /\ l \in Nat /\ i1 \in Nat /\ s1 \in Nat /\ size \in Nat
        /\ n = 1 + i1 + s1
    BY <1>1, <1>3, <1>4, <1>10
  <2>7. PICK z \in Nat : z = size
    BY <2>6
  <2>8. n + l = z + 1 + i1 + s1
    BY <2>5, <2>7
  <2>9. l = z
    BY <2>6, <2>8
  <2> QED BY <2>7, <2>9
<1>12. SubtreeSizes(t)[p].rooted = n + size
  BY <1>8, <1>9, <1>10, <1>11, PackedAre
<1>13. /\ all[1] = h[1]
       /\ \A i \in 1 .. i1 : all[1 + i] = h[1 + i]
       /\ \A i \in 1 .. s1 : all[1 + i1 + i] = h[1 + i1 + i]
  BY <1>4, <1>9
<1>14. \A i \in 1 .. size : all[n + i] = below[i]
  BY <1>9, <1>10, <1>11
<1>15. /\ all[1] = Header(t, p)
       /\ \A i \in 1 .. i1 : all[1 + i] = PackIndex(index)[i]
       /\ \A i \in 1 .. s1 : all[1 + i1 + i] = PackSize(size)[i]
  BY <1>5, <1>13
<1>16. below \in Seq(Nat) /\ Len(below) = size
  BY <1>10, <1>11
<1>17. Headed(all, Header(t, p), index, size)
  BY <1>3, <1>15 DEF Headed
<1> QED BY <1>3, <1>4, <1>6, <1>8, <1>12, <1>14, <1>16, <1>17

(* The array holds the bytes of a node, marked or not, from pos on. *)
Stored(t, p, last, pos) ==
    /\ pos \in Nat /\ Len(m_trie) \in Nat
    /\ pos + SubtreeSizes(t)[p].rooted <= Len(m_trie)
    /\ Holds(pos, Image(t, p, last))

PartOf(f, l, s, k) == DOMAIN f = 1 .. l /\ \A i \in 1 .. l : s[k + i] = f[i]

LEMMA HeldFrom ==
    ASSUME NEW pos \in Nat, NEW r \in Nat, NEW s, DOMAIN s = 1 .. r, Holds(pos, s),
           NEW k \in Nat, NEW f, NEW l \in Nat, PartOf(f, l, s, k), k + l <= r
    PROVE  Holds(pos + k, f)
<1> SUFFICES ASSUME NEW i \in 1 .. l PROVE At((pos + k) + i - 1) = f[i]
  BY DEF Holds, PartOf
<1>1. k + i \in 1 .. r /\ (pos + k) + i - 1 = pos + (k + i) - 1
  OBVIOUS
<1>2. At(pos + (k + i) - 1) = s[k + i]
  BY <1>1 DEF Holds
<1> QED BY <1>1, <1>2 DEF PartOf

LEMMA StoredParts ==
    ASSUME NEW t \in Tables, NEW p \in Nodes(t), NEW last \in BOOLEAN,
           NEW pos, Stored(t, p, last, pos),
           NEW index, index = LeafCmdIndex(t, p),
           NEW size, size = SubtreeSizes(t)[p].subtree
    PROVE  /\ At(pos) = Header(t, p) + (IF last THEN MASKS_LAST ELSE 0)
           /\ Holds(pos + 1, PackIndex(index))
           /\ Holds(pos + (1 + IndexSize(index)), PackSize(size))
           /\ Holds(pos + HeadLength(t, p), Below(t, p))
<1>1. PICK i1 \in Nat, s1 \in Nat : i1 = IndexSize(index) /\ s1 = SizeSize(size)
  BY NodeBytesAre
<1>2. PICK z \in Nat : z = size
  BY NodeBytesAre
<1>3. PICK n \in Nat \ {0} : n = HeadLength(t, p) /\ n = 1 + i1 + s1
  BY <1>1, PackedParts
<1>4. PICK r \in Nat : r = SubtreeSizes(t)[p].rooted /\ r = n + z
  <2>1. SubtreeSizes(t)[p].rooted = HeadLength(t, p) + size
    BY PackedParts
  <2>2. n + z \in Nat
    OBVIOUS
  <2> QED BY <1>2, <1>3, <2>1, <2>2
<1>5. PICK img \in Bytes : img = Image(t, p, last)
  BY ImageIs
<1>6. DOMAIN img = 1 .. r
  <2>1. Len(img) = r
    BY <1>4, <1>5, ImageIs
  <2> QED BY <2>1 DEF Bytes
<1>7. PICK b : b = Packed(t)[p]
  OBVIOUS
<1>8. Holds(pos, img)
  BY <1>5 DEF Stored
<1>9. \A i \in 2 .. r : img[i] = b[i]
  <2>1. SameTail(Image(t, p, last), Packed(t)[p], SubtreeSizes(t)[p].rooted)
    BY ImageIs
  <2> QED BY <1>4, <1>5, <1>7, <2>1 DEF SameTail
<1>10. Headed(b, Header(t, p), index, size)
  BY <1>7, PackedParts
<1>11. pos \in Nat
  BY DEF Stored
<1>12. At(pos) = Header(t, p) + (IF last THEN MASKS_LAST ELSE 0)
  <2>1. 1 \in 1 .. r /\ pos + 1 - 1 = pos
    BY <1>3, <1>4, <1>11
  <2>2. At(pos) = img[1]
    BY <1>6, <1>8, <2>1 DEF Holds
  <2>3. img[1] = b[1] + (IF last THEN MASKS_LAST ELSE 0)
    BY <1>5, <1>7, ImageIs
  <2>4. b[1] = Header(t, p)
    BY <1>10 DEF Headed
  <2> QED BY <2>2, <2>3, <2>4
<1>13. Holds(pos + 1, PackIndex(index))
  <2>1. PICK f : f = PackIndex(index)
    OBVIOUS
  <2>2. DOMAIN f = 1 .. i1
    <3>1. index \in Nat
      BY NodeBytesAre
    <3>2. f \in Seq(Nat) /\ Len(f) = i1
      BY <1>1, <2>1, <3>1, PackIndexIs
    <3> QED BY <3>2
  <2>3. \A i \in 1 .. i1 : img[1 + i] = f[i]
    <3> SUFFICES ASSUME NEW i \in 1 .. i1 PROVE img[1 + i] = f[i]
      OBVIOUS
    <3>1. 1 + i \in 2 .. r
      BY <1>3, <1>4
    <3>2. b[1 + i] = f[i]
      BY <1>1, <1>10, <2>1 DEF Headed
    <3> QED BY <1>9, <3>1, <3>2
  <2>4. 1 + i1 <= r
    BY <1>3, <1>4
  <2>5. Holds(pos + 1, f)
    <3>1. PartOf(f, i1, img, 1)
      BY <2>2, <2>3 DEF PartOf
    <3> QED BY <1>6, <1>8, <1>11, <2>4, <3>1, HeldFrom
  <2> QED BY <2>1, <2>5
<1>14. Holds(pos + (1 + IndexSize(index)), PackSize(size))
  <2>1. PICK f : f = PackSize(size)
    OBVIOUS
  <2>2. DOMAIN f = 1 .. s1
    <3>1. size \in Nat
      BY NodeBytesAre
    <3>2. f \in Seq(Nat) /\ Len(f) = s1
      BY <1>1, <2>1, <3>1, PackSizeIs
    <3> QED BY <3>2
  <2>3. PICK k \in Nat : k = 1 + i1
    OBVIOUS
  <2>4. \A i \in 1 .. s1 : img[k + i] = f[i]
    <3> SUFFICES ASSUME NEW i \in 1 .. s1 PROVE img[k + i] = f[i]
      OBVIOUS
    <3>1. k + i \in 2 .. r
      BY <1>3, <1>4, <2>3
    <3>2. b[k + i] = f[i]
      BY <1>1, <1>10, <2>1, <2>3 DEF Headed
    <3> QED BY <1>9, <3>1, <3>2
  <2>5. k + s1 <= r
    BY <1>3, <1>4, <2>3
  <2>6. Holds(pos + k, f)
    <3>1. PartOf(f, s1, img, k)
      BY <2>2, <2>4 DEF PartOf
    <3> QED BY <1>6, <1>8, <1>11, <2>5, <3>1, HeldFrom
  <2> QED BY <1>1, <2>1, <2>3, <2>6
<1>15. Holds(pos + HeadLength(t, p), Below(t, p))
  <2>1. PICK f : f = Below(t, p)
    OBVIOUS
  <2>2. DOMAIN f = 1 .. z
    <3>1. f \in Seq(Nat) /\ Len(f) = z
      BY <1>2, <2>1, PackedParts
    <3> QED BY <3>1
  <2>3. \A i \in 1 .. z : img[n + i] = f[i]
    <3> SUFFICES ASSUME NEW i \in 1 .. z PROVE img[n + i] = f[i]
      OBVIOUS
    <3>1. n + i \in 2 .. r
      BY <1>4
    <3>2. \A j \in 1 .. size : Packed(t)[p][HeadLength(t, p) + j] = Below(t, p)[j]
      BY PackedParts
    <3>3. b[n + i] = f[i]
      BY <1>2, <1>3, <1>7, <2>1, <3>2
    <3> QED BY <1>9, <3>1, <3>3
  <2>4. n + z <= r /\ n \in Nat
    BY <1>4
  <2>5. Holds(pos + n, f)
    <3>1. PartOf(f, z, img, n)
      BY <2>2, <2>3 DEF PartOf
    <3> QED BY <1>6, <1>8, <1>11, <2>4, <3>1, HeldFrom
  <2> QED BY <1>3, <2>1, <2>5
<1> QED BY <1>12, <1>13, <1>14, <1>15

LEMMA NodeHeaderRead ==
    ASSUME NEW t \in Tables, NEW p \in Nodes(t), NEW last \in BOOLEAN,
           Stored(t, p, last, m_pos)
    PROVE  /\ IsLeaf(m_pos) <=> LeafCmdIndex(t, p) # 0
           /\ IsLast(m_pos) <=> last
           /\ p # <<>> => NodeChar(m_pos) = Last(p)
<1>1. PICK c \in 0 .. MASKS_LEAF - 1 : c = NodeCode(p)
  BY HeaderIs
<1>2. PICK k \in 0 .. 3 : k = (IF LeafCmdIndex(t, p) # 0 THEN 1 ELSE 0) + (IF last THEN 2 ELSE 0)
  OBVIOUS
<1>3. PICK m \in Nat \ {0} : m = MASKS_LEAF /\ MASKS_LAST = 2 * m
  BY MaskBounds
<1>4. At(m_pos) = k * m + c
  <2>1. At(m_pos) = Header(t, p) + (IF last THEN MASKS_LAST ELSE 0)
    BY StoredParts
  <2>2. Header(t, p) = c + (IF LeafCmdIndex(t, p) # 0 THEN m ELSE 0)
    BY <1>1, <1>3, HeaderIs
  <2>3. At(m_pos) = c + (IF LeafCmdIndex(t, p) # 0 THEN m ELSE 0) + (IF last THEN 2 * m ELSE 0)
    BY <1>3, <2>1, <2>2
  <2>4. c \in Nat
    BY <1>3
  <2>5. CASE LeafCmdIndex(t, p) # 0 /\ last
    BY <1>2, <2>3, <2>4, <2>5
  <2>6. CASE LeafCmdIndex(t, p) # 0 /\ ~last
    BY <1>2, <2>3, <2>4, <2>6
  <2>7. CASE LeafCmdIndex(t, p) = 0 /\ last
    BY <1>2, <2>3, <2>4, <2>7
  <2>8. CASE LeafCmdIndex(t, p) = 0 /\ ~last
    BY <1>2, <2>3, <2>4, <2>8
  <2> QED BY <2>5, <2>6, <2>7, <2>8
<1>5. PICK v \in Nat : /\ v = At(m_pos) /\ v % MASKS_LEAF = c /\ v \div MASKS_LEAF = k
                       /\ v >= MASKS_LAST <=> k >= 2
  BY <1>1, <1>3, <1>4, HeaderByte
<1>6. IsLeaf(m_pos) <=> k % 2 = 1
  BY <1>5 DEF IsLeaf
<1>7. IsLast(m_pos) <=> k >= 2
  BY <1>5 DEF IsLast
<1>8. (k % 2 = 1 <=> LeafCmdIndex(t, p) # 0) /\ (k >= 2 <=> last)
  BY <1>2
<1>9. p # <<>> => NodeChar(m_pos) = Last(p)
  <2>1. p # <<>> => Decode(c) = Last(p)
    BY <1>1, HeaderIs
  <2>2. NodeChar(m_pos) = Decode(c)
    BY <1>5 DEF NodeChar
  <2> QED BY <2>1, <2>2
<1> QED BY <1>6, <1>7, <1>8, <1>9

LEMMA NodeNumbersRead ==
    ASSUME NEW t \in Tables, NEW p \in Nodes(t), NEW last \in BOOLEAN,
           Stored(t, p, last, m_pos)
    PROVE  /\ LeafCmdIndex(t, p) # 0 => GetCommandIndex = LeafCmdIndex(t, p) - 1
           /\ GetSubtreeSize(SkipCommandIndex(m_pos)) = SubtreeSizes(t)[p].subtree
           /\ SkipSubtreeSize(SkipCommandIndex(m_pos)) = m_pos + HeadLength(t, p)
<1>1. PICK index \in Nat : index = LeafCmdIndex(t, p) /\ index < LOW * LOW
  BY LeafIndex
<1>2. PICK size \in Nat : size = SubtreeSizes(t)[p].subtree
  BY NodeBytesAre
<1>3. PICK i1 \in Nat, s1 \in Nat : i1 = IndexSize(index) /\ s1 = SizeSize(size)
  BY <1>1, <1>2, NodeBytesAre
<1>4. m_pos \in Nat
  BY DEF Stored
<1>5. IsLeaf(m_pos) <=> index # 0
  BY <1>1, NodeHeaderRead
<1>6. /\ index # 0 => GetCommandIndex = index - 1
      /\ SkipCommandIndex(m_pos) = m_pos + (1 + i1)
  <2>1. CASE index = 0
    <3>1. IndexSize(index) = 0
      BY <2>1 DEF IndexSize
    <3> QED BY <1>3, <1>4, <1>5, <2>1, <3>1 DEF SkipCommandIndex
  <2>2. CASE index # 0
    <3>1. Holds(m_pos + 1, PackIndex(index))
      BY <1>1, <1>2, StoredParts
    <3>2. index \in Nat \ {0} /\ index - 1 < LOW * (2 * LOW)
      <4>1. PICK w \in Nat : w = LOW
        BY LowPositive
      <4>2. w * w \in Nat /\ w * (2 * w) = 2 * (w * w)
        OBVIOUS
      <4> QED BY <1>1, <2>2, <4>1, <4>2
    <3>3. /\ GetCommandIndex = index - 1
          /\ SkipCommandIndex(m_pos) = m_pos + 1 + IndexSize(index)
      BY <1>4, <1>5, <2>2, <3>1, <3>2, IndexReadBack
    <3> QED BY <1>3, <1>4, <3>3
  <2> QED BY <2>1, <2>2
<1>7. PICK pos \in Nat : pos = m_pos + (1 + i1)
  BY <1>4
<1>8. size < 2 * (LOW * (LOW * LOW))
  BY <1>2, SizesAssumption
<1>9. Holds(pos, PackSize(size))
  <2>1. Holds(m_pos + (1 + IndexSize(index)), PackSize(size))
    BY <1>1, <1>2, StoredParts
  <2> QED BY <1>3, <1>7, <2>1
<1>10. GetSubtreeSize(pos) = size /\ SkipSubtreeSize(pos) = pos + s1
  BY <1>3, <1>8, <1>9, SizeReadBack
<1>11. pos + s1 = m_pos + HeadLength(t, p)
  <2>1. HeadLength(t, p) = 1 + i1 + s1
    BY <1>1, <1>2, <1>3 DEF HeadLength
  <2> QED BY <1>3, <1>4, <1>7, <2>1
<1> QED BY <1>1, <1>2, <1>6, <1>7, <1>10, <1>11

(* The children of a node, behind each other. *)
Family(t, p, at) ==
    /\ at \in [1 .. Len(Children(t, p)) -> Nat]
    /\ \A k \in 1 .. Len(Children(t, p)) :
          Stored(t, Children(t, p)[k], k = Len(Children(t, p)), at[k])
    /\ \A k \in 1 .. Len(Children(t, p)) - 1 :
          at[k + 1] = at[k] + SubtreeSizes(t)[Children(t, p)[k]].rooted

LEMMA FamilyStored ==
    ASSUME NEW t \in Tables, NEW p \in Nodes(t), NEW last \in BOOLEAN,
           NEW pos, Stored(t, p, last, pos)
    PROVE  \E at : /\ Family(t, p, at)
                   /\ Len(Children(t, p)) # 0 => at[1] = pos + HeadLength(t, p)
<1>1. PICK kids : kids = Children(t, p)
  OBVIOUS
<1>2. PICK n \in Nat : n = Len(kids)
  BY <1>1, KidsAt
<1>3. \A k \in 1 .. n : kids[k] \in ChildSet(t, p) /\ kids[k] \in Nodes(t)
  BY <1>1, <1>2, KidsAt
<1>4. PICK seqs \in Seq(Bytes) : seqs = KidBytes(Packed(t), kids)
  <2>1. \A q \in ChildSet(t, p) : Packed(t)[q] \in Bytes
    BY PackedAre DEF ChildSet
  <2> QED BY <1>1, <2>1, KidBytesAre
<1>5. Len(seqs) = n
  BY <1>2, <1>4 DEF KidBytes
<1>6. ASSUME NEW k \in 1 .. n
      PROVE  /\ seqs[k] = Image(t, kids[k], k = n) /\ seqs[k] \in Bytes
             /\ Len(seqs[k]) = SubtreeSizes(t)[kids[k]].rooted
             /\ SubtreeSizes(t)[kids[k]].rooted \in Nat
  <2>1. seqs[k] = IF k = n THEN MarkLast(Packed(t)[kids[k]]) ELSE Packed(t)[kids[k]]
    BY <1>2, <1>4 DEF KidBytes
  <2>2. seqs[k] = Image(t, kids[k], k = n)
    BY <2>1 DEF Image
  <2>3. (k = n) \in BOOLEAN
    OBVIOUS
  <2>4. SubtreeSizes(t)[kids[k]].rooted \in Nat
    BY <1>3, SizesAre DEF NodeSize
  <2>5. PICK q \in Nodes(t), last1 \in BOOLEAN : q = kids[k] /\ last1 = (k = n)
    BY <1>3, <2>3
  <2>6. Image(t, q, last1) \in Bytes /\ Len(Image(t, q, last1)) = SubtreeSizes(t)[q].rooted
    BY ImageIs
  <2> QED BY <2>2, <2>4, <2>5, <2>6
<1>7. seqs \in Seq(Seq(Nat)) /\ FlattenSeq(seqs) \in Seq(Nat)
  BY Flattens
<1>8. PICK lens \in Seq(Nat) : lens = Lengths(seqs) /\ Len(lens) = n
  BY <1>5, <1>7, FlattenIs
<1>9. PICK off : /\ Sums(off, lens) /\ Len(FlattenSeq(seqs)) = off[n]
                 /\ Parts(FlattenSeq(seqs), seqs, off)
  BY <1>5, <1>7, <1>8, FlattenIs
<1>10. PICK flat \in Seq(Nat) : flat = FlattenSeq(seqs)
  BY <1>7
<1>11. off \in [0 .. n -> Nat] /\ off[0] = 0 /\ \A k \in 1 .. n : off[k] = off[k - 1] + lens[k]
  BY <1>8, <1>9 DEF Sums
<1>12. PICK e \in Nat : e = off[n]
  <2>1. n \in 0 .. n
    OBVIOUS
  <2> QED BY <1>11, <2>1
<1>13. Len(flat) = e /\ DOMAIN flat = 1 .. e
  BY <1>9, <1>10, <1>12
<1>14. ASSUME NEW k \in 1 .. n
       PROVE  \E o \in Nat, l \in Nat :
                 /\ o = off[k - 1] /\ l = SubtreeSizes(t)[kids[k]].rooted
                 /\ off[k] = o + l /\ o + l <= e
                 /\ PartOf(seqs[k], l, flat, o)
  <2>1. k \in 0 .. n /\ k - 1 \in 0 .. n /\ n \in k .. n
    OBVIOUS
  <2>2. PICK o \in Nat, l \in Nat : o = off[k - 1] /\ l = SubtreeSizes(t)[kids[k]].rooted
    BY <1>6, <1>11, <2>1
  <2>3. Len(seqs[k]) = l /\ DOMAIN seqs[k] = 1 .. l
    BY <1>6, <2>2 DEF Bytes
  <2>4. lens[k] = l
    BY <1>5, <1>8, <2>3 DEF Lengths
  <2>5. off[k] = o + l
    BY <1>11, <2>2, <2>4
  <2>6. off[k] <= off[n]
    BY <1>8, <1>9, <2>1, SumsGrow
  <2>7. \A j \in 1 .. l : flat[o + j] = seqs[k][j]
    BY <1>5, <1>9, <1>10, <2>2, <2>3 DEF Parts
  <2>8. PartOf(seqs[k], l, flat, o)
    BY <2>3, <2>7 DEF PartOf
  <2> QED BY <1>12, <2>2, <2>5, <2>6, <2>8
<1>15. PICK base \in Nat : base = pos + HeadLength(t, p)
  BY PackedParts DEF Stored
<1>16. Holds(base, flat) /\ base + e <= Len(m_trie)
  <2>1. flat = Below(t, p)
    BY <1>1, <1>4, <1>10 DEF Below
  <2>2. Holds(base, flat)
    BY <1>15, <2>1, StoredParts
  <2>3. PICK z \in Nat : z = SubtreeSizes(t)[p].subtree
    BY NodeBytesAre
  <2>4. PICK h \in Nat : h = HeadLength(t, p)
    BY PackedParts
  <2>5. e = z
    BY <1>13, <2>1, <2>3, PackedParts
  <2>6. SubtreeSizes(t)[p].rooted = h + z
    BY <2>3, <2>4, PackedParts
  <2>7. pos \in Nat /\ pos + (h + z) <= Len(m_trie)
    BY <2>6 DEF Stored
  <2>8. base + e = pos + (h + z)
    BY <1>15, <2>4, <2>5, <2>7
  <2> QED BY <2>2, <2>7, <2>8
<1>17. PICK at : at = [k \in 1 .. n |-> base + off[k - 1]]
  OBVIOUS
<1>18. ASSUME NEW k \in 1 .. n
       PROVE  /\ at[k] \in Nat
              /\ Stored(t, kids[k], k = n, at[k])
              /\ k # n => at[k + 1] = at[k] + SubtreeSizes(t)[kids[k]].rooted
  <2>1. PICK o \in Nat, l \in Nat :
           /\ o = off[k - 1] /\ l = SubtreeSizes(t)[kids[k]].rooted
           /\ off[k] = o + l /\ o + l <= e
           /\ PartOf(seqs[k], l, flat, o)
    BY <1>14
  <2>2. at[k] = base + o /\ base + o \in Nat
    BY <1>17, <2>1
  <2>3. (base + o) + l <= Len(m_trie)
    <3>1. PICK m \in Int : m = base + e /\ m <= Len(m_trie)
      BY <1>16
    <3>2. (base + o) + l <= m
      <4>1. base \in Nat /\ e \in Nat /\ o \in Nat /\ l \in Nat /\ o + l <= e /\ m = base + e
        BY <1>12, <1>15, <2>1, <3>1
      <4>2. (base + o) + l = base + (o + l)
        BY <4>1
      <4> QED BY <4>1, <4>2
    <3>3. Len(m_trie) \in Int
      BY DEF Stored
    <3> QED BY <3>1, <3>2, <3>3
  <2>4. Holds(base + o, seqs[k])
    BY <1>13, <1>16, <2>1, HeldFrom
  <2>5. Stored(t, kids[k], k = n, base + o)
    BY <1>6, <2>1, <2>2, <2>3, <2>4 DEF Stored
  <2>6. ASSUME k # n PROVE at[k + 1] = (base + o) + l
    <3>1. k + 1 \in 1 .. n /\ (k + 1) - 1 = k
      BY <2>6
    <3>2. at[k + 1] = base + off[k]
      BY <1>17, <3>1
    <3>3. base \in Nat /\ o \in Nat /\ l \in Nat /\ off[k] = o + l
      BY <1>15, <2>1
    <3>4. base + (o + l) = (base + o) + l
      BY <3>3
    <3> QED BY <3>2, <3>3, <3>4
  <2> QED BY <2>1, <2>2, <2>5, <2>6
<1>19. Family(t, p, at)
  <2>1. at \in [1 .. n -> Nat]
    BY <1>17, <1>18
  <2>2. \A k \in 1 .. n : Stored(t, kids[k], k = n, at[k])
    BY <1>18
  <2>3. \A k \in 1 .. n - 1 : at[k + 1] = at[k] + SubtreeSizes(t)[kids[k]].rooted
    BY <1>18
  <2> QED BY <1>1, <1>2, <2>1, <2>2, <2>3 DEF Family
<1>20. n # 0 => at[1] = pos + HeadLength(t, p)
  <2>1. n # 0 => 1 \in 1 .. n /\ 1 - 1 = 0
    OBVIOUS
  <2> QED BY <1>11, <1>15, <1>17, <2>1
<1> QED BY <1>1, <1>2, <1>19, <1>20

LEMMA RootStored ==
    ASSUME NEW t \in Tables, m_trie = Pack(t)
    PROVE  <<>> \in Nodes(t) /\ Stored(t, <<>>, FALSE, 0)
<1>1. <<>> \in Nodes(t)
  BY DEF Nodes
<1>2. PICK b \in Bytes : b = Packed(t)[<<>>] /\ Len(b) = SubtreeSizes(t)[<<>>].rooted
  BY <1>1, PackedAre
<1>3. PICK l \in Nat : l = Len(b) /\ DOMAIN b = 1 .. l
  BY DEF Bytes
<1>4. m_trie = b /\ Len(m_trie) = l
  BY <1>2, <1>3 DEF Pack
<1>5. ASSUME NEW i \in 1 .. l PROVE At(0 + i - 1) = b[i]
  <2>1. PICK j \in Nat : j = 0 + i - 1 /\ j < l /\ j + 1 = i
    <3>1. 0 + i - 1 \in Nat /\ 0 + i - 1 < l /\ (0 + i - 1) + 1 = i
      OBVIOUS
    <3> QED BY <3>1
  <2>2. At(j) = m_trie[j + 1]
    BY <1>4, <2>1 DEF At
  <2> QED BY <1>4, <2>1, <2>2
<1>6. Holds(0, b)
  BY <1>3, <1>5 DEF Holds
<1>7. Image(t, <<>>, FALSE) = b
  BY <1>2 DEF Image
<1>8. 0 + SubtreeSizes(t)[<<>>].rooted <= Len(m_trie)
  BY <1>2, <1>3, <1>4
<1> QED BY <1>1, <1>3, <1>4, <1>6, <1>7, <1>8 DEF Stored

LEMMA NothingBelow ==
    ASSUME NEW t \in Tables, NEW p \in Nodes(t)
    PROVE  SubtreeSizes(t)[p].subtree = 0 <=> Len(Children(t, p)) = 0
<1>1. PICK kids : kids = Children(t, p)
  OBVIOUS
<1>2. PICK n \in Nat : n = Len(kids)
  BY <1>1, KidsAt
<1>3. \A k \in 1 .. n : SubtreeSizes(t)[kids[k]].rooted \in Nat \ {0}
  BY <1>1, <1>2, KidsAt, SizesAre DEF NodeSize
<1>4. PICK s \in Seq(Nat) : s = KidSizes(SubtreeSizes(t), kids) /\ Len(s) = n
  <2>1. PICK f : f = KidSizes(SubtreeSizes(t), kids)
    OBVIOUS
  <2>2. f = [i \in 1 .. n |-> SubtreeSizes(t)[kids[i]].rooted]
    BY <1>2, <2>1 DEF KidSizes
  <2>3. f \in Seq(Nat) /\ Len(f) = n
    BY <1>3, <2>2
  <2> QED BY <2>1, <2>3
<1>5. \A k \in 1 .. n : s[k] \in Nat \ {0}
  BY <1>2, <1>3, <1>4 DEF KidSizes
<1>6. PICK sum : Sums(sum, s) /\ Total(s) = sum[n]
  BY <1>4, TotalIs
<1>7. sum \in [0 .. n -> Nat] /\ sum[0] = 0 /\ \A k \in 1 .. n : sum[k] = sum[k - 1] + s[k]
  BY <1>4, <1>6 DEF Sums
<1>8. SubtreeSizes(t)[p].subtree = sum[n]
  <2>1. SubtreeSizes(t)[p] = WithNode(LeafCmdIndex(t, p),
                                      Total(KidSizes(SubtreeSizes(t), Children(t, p))))
    BY SizesUnfold
  <2>2. SubtreeSizes(t)[p] = WithNode(LeafCmdIndex(t, p), sum[n])
    BY <1>1, <1>4, <1>6, <2>1
  <2> QED BY <2>2 DEF WithNode
<1>9. CASE n = 0
  BY <1>1, <1>2, <1>7, <1>8, <1>9
<1>10. CASE n # 0
  <2>1. 1 \in 1 .. n /\ 1 \in 0 .. n /\ n \in 1 .. n /\ n \in 0 .. n /\ 1 - 1 = 0
    BY <1>10
  <2>2. sum[1] <= sum[n]
    BY <1>4, <1>6, <2>1, SumsGrow
  <2>3. sum[1] \in Nat \ {0}
    BY <1>5, <1>7, <2>1
  <2>4. sum[n] \in Nat
    BY <1>7, <2>1
  <2> QED BY <1>1, <1>2, <1>8, <1>10, <2>2, <2>3, <2>4
<1> QED BY <1>9, <1>10

(* Going on from a node: some name does, with this character, if and only  *)
(* if a child has it.                                                      *)
LEMMA LongerBy ==
    ASSUME NEW p \in Seq(Encodable), NEW n \in Seq(Encodable), NEW ch
    PROVE  /\ Len(Append(p, ch)) = Len(p) + 1 /\ Last(Append(p, ch)) = ch
           /\ \A j \in 1 .. Len(p) : Append(p, ch)[j] = p[j]
           /\ IsPrefix(Append(p, ch), n)
                <=> Len(p) + 1 <= Len(n) /\ SubSeq(n, 1, Len(p) + 1) = Append(p, ch)
<1>1. PICK S : S = Encodable \cup {ch}
  OBVIOUS
<1>2. p \in Seq(S)
  BY <1>1
<1>3. PICK q : q = Append(p, ch)
  OBVIOUS
<1>4. q \in Seq(S) /\ Len(q) = Len(p) + 1 /\ q[Len(p) + 1] = ch /\ \A j \in 1 .. Len(p) : q[j] = p[j]
  BY <1>1, <1>2, <1>3
<1>5. SubSeq(q, 1, Len(q)) = q
  BY <1>4, Whole
<1>6. IsPrefix(q, n) <=> Len(p) + 1 <= Len(n) /\ SubSeq(n, 1, Len(p) + 1) = q
  BY <1>4, <1>5 DEF IsPrefix
<1> QED BY <1>3, <1>4, <1>6 DEF Last

LEMMA ChildIsLonger ==
    ASSUME NEW t \in Tables, NEW p \in Nodes(t), NEW q \in ChildSet(t, p)
    PROVE  q = Append(p, Last(q)) /\ q # <<>>
<1>1. p \in Seq(Encodable) /\ q \in Seq(Encodable) /\ Len(p) \in Nat
  BY NodeIsBeginning DEF ChildSet
<1>2. Len(q) = Len(p) + 1 /\ \A j \in 1 .. Len(p) : q[j] = p[j]
  BY <1>1, BeginsWith DEF ChildSet
<1>3. PICK n \in Nat : n = Len(p)
  BY <1>1
<1>4. Last(q) = q[n + 1] /\ q[n + 1] \in Encodable
  BY <1>1, <1>2, <1>3 DEF Last
<1>5. PICK c \in Encodable : c = Last(q)
  BY <1>4
<1>6. PICK r \in Seq(Encodable) : r = Append(p, c)
  <2>1. Append(p, c) \in Seq(Encodable)
    BY <1>1, SMT
  <2> QED BY <2>1, Zenon
<1>7. Len(r) = n + 1 /\ r[n + 1] = c /\ \A j \in 1 .. n : r[j] = p[j]
  BY <1>1, <1>3, <1>6
<1>8. \A j \in 1 .. n + 1 : r[j] = q[j]
  BY <1>2, <1>3, <1>4, <1>5, <1>7
<1>9. r = q
  BY <1>1, <1>2, <1>3, <1>7, <1>8
<1>10. Len(q) # 0
  BY <1>2, <1>3
<1> QED BY <1>5, <1>6, <1>9, <1>10

LEMMA GoesOn ==
    ASSUME NEW t \in Tables, NEW p \in Nodes(t), NEW ch
    PROVE  (\E i \in DOMAIN t : IsPrefix(Append(p, ch), t[i]))
             <=> \E k \in 1 .. Len(Children(t, p)) : Last(Children(t, p)[k]) = ch
<1>1. PICK kids : kids = Children(t, p)
  OBVIOUS
<1>2. PICK n \in Nat : n = Len(kids)
  BY <1>1, KidsAt
<1>3. p \in Seq(Encodable) /\ Len(p) \in Nat
  BY NodeIsBeginning
<1>4. ASSUME NEW i \in DOMAIN t, IsPrefix(Append(p, ch), t[i])
      PROVE  \E k \in 1 .. n : Last(kids[k]) = ch
  <2>1. PICK m \in Seq(Encodable) : m = t[i]
    BY NamesListed
  <2>2. PICK q : q = Append(p, ch)
    OBVIOUS
  <2>3. /\ Len(q) = Len(p) + 1 /\ Last(q) = ch /\ \A j \in 1 .. Len(p) : q[j] = p[j]
        /\ Len(p) + 1 <= Len(m) /\ SubSeq(m, 1, Len(p) + 1) = q
    BY <1>3, <1>4, <2>1, <2>2, LongerBy
  <2>4. IsStrictPrefix(p, m)
    <3>1. PICK l \in 0 .. Len(m) : l = Len(p) + 1
      BY <1>3, <2>1, <2>3
    <3>2. \A j \in 1 .. l : q[j] = m[j]
      BY <2>1, <2>3, <3>1, Beginning
    <3>3. \A j \in 1 .. Len(p) : m[j] = p[j]
      BY <1>3, <2>3, <3>1, <3>2
    <3>4. Len(p) <= Len(m) /\ p # m
      BY <1>3, <2>1, <2>3
    <3> QED BY <1>3, <2>1, <3>3, <3>4, BeginsWith DEF IsStrictPrefix
  <2>5. q \in ToSet(kids)
    BY <1>1, <1>3, <2>1, <2>3, <2>4, ChildrenAre
  <2>6. DOMAIN kids = 1 .. n
    BY <1>1, <1>2, KidsAt
  <2> QED BY <2>3, <2>5, <2>6 DEF ToSet
<1>5. ASSUME NEW k \in 1 .. n, Last(kids[k]) = ch
      PROVE  \E i \in DOMAIN t : IsPrefix(Append(p, ch), t[i])
  <2>1. kids[k] \in ChildSet(t, p) /\ kids[k] \in Nodes(t)
    BY <1>1, <1>2, KidsAt
  <2>2. kids[k] = Append(p, ch) /\ kids[k] # <<>>
    BY <1>5, <2>1, ChildIsLonger
  <2> QED BY <2>1, <2>2, NodeIsBeginning
<1> QED BY <1>1, <1>2, <1>4, <1>5

-----------------------------------------------------------------------------
(* Between two calls of feed() the walk stands at the node that was read;  *)
(* within one, at a child of it, and no child before has the character.    *)
AtNode == \E last \in BOOLEAN : Stored(names, read, last, m_pos)

AtKid(at, k) == /\ Family(names, read, at) /\ m_pos = at[k]
                /\ k \in 1 .. Len(Children(names, read))
                /\ \A j \in 1 .. k - 1 : Last(Children(names, read)[j]) # asked
AtChild == \E at, k : AtKid(at, k)

IInv == /\ names \in Tables /\ m_trie = Pack(names)
        /\ read \in Nodes(names) /\ rejected \in BOOLEAN
        /\ asked = none /\ ~rejected => AtNode
        /\ asked # none => ~rejected /\ AtChild

LEMMA NodeWalked ==
    ASSUME NEW t \in Tables, NEW p \in Nodes(t), NEW last \in BOOLEAN,
           Stored(t, p, last, m_pos)
    PROVE  /\ SkipSubtreeSize(SkipCommandIndex(m_pos)) = m_pos + HeadLength(t, p)
           /\ m_pos + HeadLength(t, p) <= Len(m_trie)
           /\ SkipSubtreeSize(SkipCommandIndex(m_pos)) + GetSubtreeSize(SkipCommandIndex(m_pos))
                = m_pos + SubtreeSizes(t)[p].rooted
<1>1. PICK size \in Nat : size = SubtreeSizes(t)[p].subtree
  BY NodeBytesAre
<1>2. PICK h \in Nat : h = HeadLength(t, p)
  BY PackedParts
<1>3. SubtreeSizes(t)[p].rooted = h + size
  BY <1>1, <1>2, PackedParts
<1>4. m_pos \in Nat /\ Len(m_trie) \in Nat /\ m_pos + (h + size) <= Len(m_trie)
  BY <1>3 DEF Stored
<1>5. /\ SkipSubtreeSize(SkipCommandIndex(m_pos)) = m_pos + h
      /\ GetSubtreeSize(SkipCommandIndex(m_pos)) = size
  BY <1>1, <1>2, NodeNumbersRead
<1>6. m_pos + h <= Len(m_trie) /\ (m_pos + h) + size = m_pos + (h + size)
  BY <1>4
<1> QED BY <1>2, <1>3, <1>5, <1>6

LEMMA KidWalked ==
    ASSUME names \in Tables, read \in Nodes(names), NEW at, NEW k, AtKid(at, k),
           NEW kids, kids = Children(names, read)
    PROVE  /\ Len(kids) \in Nat /\ k \in 1 .. Len(kids) /\ kids[k] \in Nodes(names)
           /\ Stored(names, kids[k], k = Len(kids), m_pos)
           /\ kids[k] = Append(read, NodeChar(m_pos)) /\ NodeChar(m_pos) = Last(kids[k])
           /\ IsLast(m_pos) <=> k = Len(kids)
<1>1. PICK n \in Nat : n = Len(kids)
  BY KidsAt
<1>2. k \in 1 .. n /\ m_pos = at[k] /\ Family(names, read, at)
  BY <1>1 DEF AtKid
<1>3. PICK q \in Nodes(names), last \in BOOLEAN : q = kids[k] /\ last = (k = n)
  BY <1>1, <1>2, KidsAt
<1>4. Stored(names, q, last, m_pos)
  BY <1>1, <1>2, <1>3 DEF Family
<1>5. q = Append(read, Last(q)) /\ q # <<>>
  <2>1. q \in ChildSet(names, read)
    BY <1>1, <1>2, <1>3, KidsAt
  <2> QED BY <2>1, ChildIsLonger
<1>6. NodeChar(m_pos) = Last(q) /\ (IsLast(m_pos) <=> last)
  BY <1>4, <1>5, NodeHeaderRead
<1> QED BY <1>1, <1>2, <1>3, <1>4, <1>5, <1>6

(* What is stored stays: nothing writes the bytes. *)
LEMMA StoredStays ==
    ASSUME m_trie' = m_trie, NEW t, NEW p, NEW last, NEW pos, Stored(t, p, last, pos)
    PROVE  Stored(t, p, last, pos)'
  BY DEF Stored, Holds, At

LEMMA FamilyStays ==
    ASSUME m_trie' = m_trie, NEW t, NEW p, NEW at, Family(t, p, at)
    PROVE  Family(t, p, at)'
  BY StoredStays DEF Family

LEMMA InitInv == Init => IInv
<1> SUFFICES ASSUME Init PROVE IInv
  OBVIOUS
<1>1. names \in Tables /\ m_trie = Pack(names) /\ m_pos = 0 /\ read = <<>>
  BY DEF Init
<1>2. read \in Nodes(names) /\ Stored(names, read, FALSE, m_pos)
  BY <1>1, RootStored
<1> QED BY <1>1, <1>2 DEF Init, IInv, AtNode

LEMMA StepInv == IInv /\ [Next]_vars => IInv'
<1> SUFFICES ASSUME IInv, [Next]_vars PROVE IInv'
  OBVIOUS
<1>1. names' = names /\ m_trie' = m_trie
  BY DEF Next, vars, Reset, Feed, Scan, ChildFound, NoChild, NextSibling
<1>2. names \in Tables /\ m_trie = Pack(names) /\ read \in Nodes(names)
  BY DEF IInv
<1>3. names' \in Tables /\ m_trie' = Pack(names')
  BY <1>1, <1>2
<1>4. PICK kids : kids = Children(names, read)
  OBVIOUS
<1>5. CASE UNCHANGED vars
  <2>1. UNCHANGED <<m_pos, read, asked, rejected>>
    BY <1>5 DEF vars
  <2>2. ASSUME AtNode PROVE AtNode'
    BY <1>1, <2>1, <2>2, StoredStays DEF AtNode
  <2>3. ASSUME AtChild PROVE AtChild'
    BY <1>1, <2>1, <2>3, FamilyStays DEF AtChild, AtKid
  <2> QED BY <1>1, <1>2, <1>3, <2>1, <2>2, <2>3 DEF IInv
<1>6. CASE Reset
  <2>1. read' = <<>> /\ m_pos' = 0 /\ rejected' = FALSE /\ asked' = none
    BY <1>6 DEF Reset
  <2>2. <<>> \in Nodes(names) /\ Stored(names, <<>>, FALSE, 0)
    BY <1>2, RootStored
  <2>3. AtNode'
    BY <1>1, <2>1, <2>2, StoredStays DEF AtNode
  <2> QED BY <1>1, <1>3, <2>1, <2>2, <2>3 DEF IInv
<1>7. ASSUME NEW ch \in Chars, Feed(ch) PROVE IInv'
  <2>1. asked = none /\ ~rejected /\ read' = read /\ ch # none
    BY <1>7, AlphabetAssumption DEF Feed
  <2>2. CASE rejected' = TRUE /\ asked' = asked
    BY <1>1, <1>2, <1>3, <2>1, <2>2 DEF IInv
  <2>3. CASE /\ GetSubtreeSize(SkipCommandIndex(m_pos)) # 0
             /\ asked' = ch /\ rejected' = rejected
    <3>1. PICK last \in BOOLEAN : Stored(names, read, last, m_pos)
      BY <2>1 DEF IInv, AtNode
    <3>2. PICK at : /\ Family(names, read, at)
                    /\ Len(kids) # 0 => at[1] = m_pos + HeadLength(names, read)
      BY <1>2, <1>4, <3>1, FamilyStored
    <3>3. Len(kids) # 0 /\ Len(kids) \in Nat
      BY <1>2, <1>4, <2>3, <3>1, NodeNumbersRead, NothingBelow, KidsAt
    <3>4. m_pos' = m_pos + HeadLength(names, read)
      BY <1>2, <1>7, <3>1, NodeNumbersRead DEF Feed
    <3>5. m_pos' = at[1] /\ 1 \in 1 .. Len(kids) /\ 1 .. 1 - 1 = {}
      BY <3>2, <3>3, <3>4
    <3>6. Family(names, read, at)'
      BY <1>1, <2>1, <3>2, FamilyStays
    <3>7. AtChild'
      BY <1>1, <1>4, <2>1, <3>5, <3>6 DEF AtChild, AtKid
    <3> QED BY <1>1, <1>2, <1>3, <2>1, <2>3, <3>7 DEF IInv
  <2> QED BY <1>7, <2>2, <2>3 DEF Feed
<1>8. CASE Scan
  <2>1. asked # none /\ ~rejected
    BY <1>8 DEF Scan, ChildFound, NoChild, NextSibling, IInv
  <2>2. PICK at, k : AtKid(at, k)
    BY <2>1 DEF IInv, AtChild
  <2>3. PICK n \in Nat : n = Len(kids)
    BY <1>2, <1>4, <2>2, KidWalked
  <2>4. PICK q \in Nodes(names) : q = kids[k]
    BY <1>2, <1>4, <2>2, KidWalked
  <2>5. /\ k \in 1 .. n /\ Stored(names, q, k = n, m_pos)
        /\ q = Append(read, NodeChar(m_pos)) /\ NodeChar(m_pos) = Last(q)
        /\ IsLast(m_pos) <=> k = n
    BY <1>2, <1>4, <2>2, <2>3, <2>4, KidWalked
  <2>6. CASE ChildFound
    <3>1. read' = q /\ m_pos' = m_pos /\ asked' = none /\ rejected' = rejected
      BY <2>5, <2>6 DEF ChildFound
    <3>2. AtNode'
      <4>1. (k = n) \in BOOLEAN
        OBVIOUS
      <4> QED BY <1>1, <2>5, <3>1, <4>1, StoredStays DEF AtNode
    <3> QED BY <1>1, <1>3, <2>1, <2>4, <3>1, <3>2 DEF IInv
  <2>7. CASE NoChild
    BY <1>1, <1>2, <1>3, <2>7 DEF NoChild, IInv
  <2>8. CASE NextSibling
    <3>1. /\ NodeChar(m_pos) # asked /\ ~IsLast(m_pos)
          /\ m_pos' = SkipSubtreeSize(SkipCommandIndex(m_pos))
                        + GetSubtreeSize(SkipCommandIndex(m_pos))
          /\ UNCHANGED <<asked, read, rejected>>
      BY <2>8 DEF NextSibling
    <3>2. k # n /\ k + 1 \in 1 .. n /\ k \in 1 .. n - 1
      BY <2>5, <3>1
    <3>3. m_pos' = m_pos + SubtreeSizes(names)[q].rooted
      <4>1. PICK last \in BOOLEAN : last = (k = n)
        OBVIOUS
      <4> QED BY <1>2, <2>5, <3>1, <4>1, NodeWalked
    <3>4. at[k + 1] = m_pos + SubtreeSizes(names)[q].rooted
      BY <1>4, <2>2, <2>3, <2>4, <3>2 DEF AtKid, Family
    <3>5. \A j \in 1 .. (k + 1) - 1 : Last(kids[j]) # asked
      <4>1. \A j \in 1 .. k - 1 : Last(kids[j]) # asked
        BY <1>4, <2>2 DEF AtKid
      <4>2. ASSUME NEW j \in 1 .. (k + 1) - 1 PROVE j = k \/ j \in 1 .. k - 1
        BY <2>5
      <4> QED BY <2>4, <2>5, <3>1, <4>1, <4>2
    <3>6. Family(names, read, at)'
      BY <1>1, <2>2, <3>1, FamilyStays DEF AtKid
    <3>7. AtKid(at, k + 1)'
      BY <1>1, <1>4, <2>3, <3>1, <3>2, <3>3, <3>4, <3>5, <3>6 DEF AtKid
    <3>8. AtChild'
      BY <3>7 DEF AtChild
    <3> QED BY <1>1, <1>2, <1>3, <2>1, <3>1, <3>8 DEF IInv
  <2> QED BY <1>8, <2>6, <2>7, <2>8 DEF Scan
<1> QED BY <1>5, <1>6, <1>7, <1>8 DEF Next

LEMMA InvariantHolds == Spec => []IInv
  BY InitInv, StepInv, PTL DEF Spec

(* No call of feed(), isLeaf() or getCommandIndex() reads behind the end   *)
(* of the array: for every alphabet and every list of names.               *)
THEOREM NothingReadBehindEnd == Spec => []ReadsInside
<1>1. IInv => ReadsInside
  <2> SUFFICES ASSUME IInv, ~rejected
               PROVE  SkipSubtreeSize(SkipCommandIndex(m_pos)) <= Len(m_trie)
    BY DEF ReadsInside
  <2>1. names \in Tables /\ read \in Nodes(names)
    BY DEF IInv
  <2>2. \E p \in Nodes(names) : \E last \in BOOLEAN : Stored(names, p, last, m_pos)
    <3>1. CASE asked = none
      BY <2>1, <3>1 DEF IInv, AtNode
    <3>2. CASE asked # none
      <4>1. PICK at, k : AtKid(at, k)
        BY <3>2 DEF IInv, AtChild
      <4>2. PICK kids : kids = Children(names, read)
        OBVIOUS
      <4>3. kids[k] \in Nodes(names) /\ Stored(names, kids[k], k = Len(kids), m_pos)
        BY <2>1, <4>1, <4>2, KidWalked
      <4>4. (k = Len(kids)) \in BOOLEAN
        OBVIOUS
      <4> QED BY <4>3, <4>4
    <3> QED BY <3>1, <3>2
  <2>3. PICK p \in Nodes(names), last \in BOOLEAN : Stored(names, p, last, m_pos)
    BY <2>2
  <2> QED BY <2>1, <2>3, NodeWalked
<1> QED BY <1>1, InvariantHolds, PTL

(* What the walk says of the name read so far. *)
Found == IF asked = none /\ ~rejected /\ IsLeaf(m_pos) THEN GetCommandIndex + 1 ELSE 0
FoundRight == Found = IF asked = none /\ ~rejected THEN LeafCmdIndex(names, read) ELSE 0

LEMMA FindsName == IInv => FoundRight
<1> SUFFICES ASSUME IInv, asked = none, ~rejected
             PROVE  (IF IsLeaf(m_pos) THEN GetCommandIndex + 1 ELSE 0)
                      = LeafCmdIndex(names, read)
  BY DEF Found, FoundRight
<1>1. names \in Tables /\ read \in Nodes(names)
  BY DEF IInv
<1>2. PICK last \in BOOLEAN : Stored(names, read, last, m_pos)
  BY DEF IInv, AtNode
<1>3. PICK index \in Nat : index = LeafCmdIndex(names, read)
  BY <1>1, LeafIndex
<1>4. /\ IsLeaf(m_pos) <=> index # 0
      /\ index # 0 => GetCommandIndex = index - 1
  BY <1>1, <1>2, <1>3, NodeHeaderRead, NodeNumbersRead
<1>5. index # 0 => (index - 1) + 1 = index
  OBVIOUS
<1> QED BY <1>3, <1>4, <1>5

LEMMA NamedIs ==
    ASSUME NEW p PROVE Lookup!Named(p) = LeafCmdIndex(names, p)
  BY DEF Lookup!Named, LeafCmdIndex, ToSet, Position

LEMMA NothingNamed ==
    ASSUME names \in Tables PROVE LeafCmdIndex(names, <<>>) = 0
<1>1. \A i \in DOMAIN names : names[i] # <<>>
  BY NamesListed
<1> QED BY <1>1 DEF LeafCmdIndex, ToSet

(* How the lookup sees a call that goes on, and a name that does not. *)
LEMMA Extending ==
    ASSUME names \in Tables, read \in Nodes(names), NEW ch,
           NEW kids, kids = Children(names, read)
    PROVE  Lookup!Extends(Append(read, ch)) <=> \E k \in 1 .. Len(kids) : Last(kids[k]) = ch
<1>1. (\E i \in DOMAIN names : IsPrefix(Append(read, ch), names[i]))
        <=> \E k \in 1 .. Len(kids) : Last(kids[k]) = ch
  BY GoesOn
<1>2. \A s, n : Lookup!IsPrefix(s, n) <=> IsPrefix(s, n)
  BY DEF Lookup!IsPrefix, IsPrefix
<1> QED BY <1>1, <1>2 DEF Lookup!Extends

LEMMA InitRefines == Init => Lookup!Init
<1> SUFFICES ASSUME Init PROVE Lookup!Init
  OBVIOUS
<1>1. names \in Tables /\ read = <<>> /\ asked = none /\ rejected = FALSE
  BY DEF Init
<1>2. IInv
  BY InitInv
<1>3. Found = LeafCmdIndex(names, read)
  BY <1>1, <1>2, FindsName DEF FoundRight
<1>4. Found = 0
  BY <1>1, <1>3, NothingNamed
<1> QED BY <1>1, <1>4 DEF Lookup!Init, Found

LEMMA StepRefines ==
    IInv /\ IInv' /\ FoundRight /\ FoundRight' /\ [Next]_vars => [Lookup!Next]_(Lookup!vars)
<1> SUFFICES ASSUME IInv, IInv', FoundRight, FoundRight', [Next]_vars
             PROVE  [Lookup!Next]_(Lookup!vars)
  OBVIOUS
<1>1. names' = names /\ m_trie' = m_trie
  BY DEF Next, vars, Reset, Feed, Scan, ChildFound, NoChild, NextSibling
<1>2. names \in Tables /\ read \in Nodes(names) /\ rejected \in BOOLEAN
  BY DEF IInv
<1>3. PICK kids : kids = Children(names, read)
  OBVIOUS
<1>4. Found = IF asked = none /\ ~rejected THEN LeafCmdIndex(names, read) ELSE 0
  BY DEF FoundRight
<1>5. Found' = IF asked' = none /\ ~rejected' THEN LeafCmdIndex(names, read') ELSE 0
  BY <1>1 DEF FoundRight
<1>6. CASE UNCHANGED vars
  <2>1. UNCHANGED <<names, read, asked, rejected>> /\ Found' = Found
    BY <1>4, <1>5, <1>6 DEF vars
  <2> QED BY <2>1 DEF Lookup!vars, Found
<1>7. CASE Reset
  <2>1. /\ asked = none /\ read' = <<>> /\ rejected' = FALSE
        /\ UNCHANGED <<names, asked>>
    BY <1>7 DEF Reset
  <2>2. Found' = 0
    BY <1>2, <1>5, <2>1, NothingNamed
  <2>3. Lookup!Reset
    BY <2>1, <2>2 DEF Lookup!Reset, Found
  <2> QED BY <2>3 DEF Lookup!Next
<1>8. ASSUME NEW ch \in Chars, Feed(ch) PROVE Lookup!Next
  <2>1. asked = none /\ ~rejected /\ UNCHANGED <<names, read>> /\ ch # none
    BY <1>8, AlphabetAssumption DEF Feed
  <2>2. CASE /\ GetSubtreeSize(SkipCommandIndex(m_pos)) = 0
             /\ rejected' = TRUE /\ asked' = asked
    <3>1. PICK last \in BOOLEAN : Stored(names, read, last, m_pos)
      BY <2>1 DEF IInv, AtNode
    <3>2. Len(kids) = 0
      BY <1>2, <1>3, <2>2, <3>1, NodeNumbersRead, NothingBelow
    <3>3. ~Lookup!Extends(Append(read, ch))
      BY <1>2, <1>3, <3>2, Extending
    <3>4. Found' = 0
      BY <1>5, <2>2
    <3>5. Lookup!Refuse(ch)
      BY <2>1, <2>2, <3>3, <3>4 DEF Lookup!Refuse, Found
    <3> QED BY <3>5 DEF Lookup!Next
  <2>3. CASE asked' = ch /\ rejected' = rejected
    <3>1. Found' = 0
      BY <1>5, <2>1, <2>3
    <3>2. Lookup!Ask(ch)
      BY <2>1, <2>3, <3>1 DEF Lookup!Ask, Found
    <3> QED BY <3>2 DEF Lookup!Next
  <2> QED BY <1>8, <2>2, <2>3 DEF Feed
<1>9. CASE Scan
  <2>1. asked # none /\ ~rejected
    BY <1>9 DEF Scan, ChildFound, NoChild, NextSibling, IInv
  <2>2. PICK at, k : AtKid(at, k)
    BY <2>1 DEF IInv, AtChild
  <2>3. PICK n \in Nat : n = Len(kids)
    BY <1>2, <1>3, <2>2, KidWalked
  <2>4. /\ k \in 1 .. n /\ NodeChar(m_pos) = Last(kids[k])
        /\ IsLast(m_pos) <=> k = n
    BY <1>2, <1>3, <2>2, <2>3, KidWalked
  <2>5. \A j \in 1 .. k - 1 : Last(kids[j]) # asked
    BY <1>3, <2>2 DEF AtKid
  <2>6. Found = 0
    BY <1>4, <2>1
  <2>7. CASE ChildFound
    <3>1. /\ NodeChar(m_pos) = asked /\ asked' = none /\ read' = Append(read, asked)
          /\ UNCHANGED <<names, rejected>>
      BY <2>7 DEF ChildFound
    <3>2. Lookup!Extends(Append(read, asked))
      BY <1>2, <1>3, <2>3, <2>4, <3>1, Extending
    <3>3. Found' = LeafCmdIndex(names, read')
      BY <1>5, <2>1, <3>1
    <3>4. Lookup!Named(Append(read, asked)) = LeafCmdIndex(names, Append(read, asked))
      BY NamedIs
    <3>5. Lookup!Answer
      BY <2>1, <3>1, <3>2, <3>3, <3>4, NamedIs DEF Lookup!Answer, Lookup!Named, Found
    <3> QED BY <3>5 DEF Lookup!Next
  <2>8. CASE NoChild
    <3>1. /\ NodeChar(m_pos) # asked /\ IsLast(m_pos) /\ asked' = none /\ rejected' = TRUE
          /\ UNCHANGED <<names, read>>
      BY <2>8 DEF NoChild
    <3>2. k = n
      BY <2>4, <3>1
    <3>3. ASSUME NEW j \in 1 .. n PROVE Last(kids[j]) # asked
      <4>1. j = k \/ j \in 1 .. k - 1
        BY <3>2
      <4> QED BY <2>4, <2>5, <3>1, <4>1
    <3>4. ~Lookup!Extends(Append(read, asked))
      BY <1>2, <1>3, <2>3, <3>3, Extending
    <3>5. Found' = Found
      BY <1>5, <2>6, <3>1
    <3>6. Lookup!Answer
      BY <2>1, <3>1, <3>4, <3>5 DEF Lookup!Answer, Found
    <3> QED BY <3>6 DEF Lookup!Next
  <2>9. CASE NextSibling
    <3>1. UNCHANGED <<names, asked, read, rejected>>
      BY <2>9 DEF NextSibling
    <3>2. Found' = Found
      BY <1>5, <2>1, <2>6, <3>1
    <3> QED BY <3>1, <3>2 DEF Lookup!vars, Found
  <2> QED BY <1>9, <2>7, <2>8, <2>9 DEF Scan
<1> QED BY <1>6, <1>7, <1>8, <1>9 DEF Next

(* The packed bytes and the walk over them find what the abstract lookup   *)
(* in the list of names finds, step by step: the safety of                 *)
(* ImplementsLookup, for every alphabet and every list of names.           *)
THEOREM LookupRefined == Spec => Lookup!Init /\ [][Lookup!Next]_(Lookup!vars)
  BY InitRefines, StepRefines, FindsName, InvariantHolds, PTL DEF Spec
=============================================================================
